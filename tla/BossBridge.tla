----------------------------- MODULE BossBridge -----------------------------
(***************************************************************************)
(* The bridge between the billing system (BOSS) and radiusApi, together    *)
(* with the part of radiusApi it calls and the account page of the web UI, *)
(* which writes the same rows.                                             *)
(*                                                                         *)
(* A SOAP call runs one handler of handlers/index.js: one or more HTTP     *)
(* requests, each with the token that radiusClient.js caches.  The         *)
(* handlers run in one thread but yield at every await, so the requests of *)
(* several calls interleave.  radiusApi executes a request as one SQL      *)
(* statement.                                                              *)
(*                                                                         *)
(* A row keeps the password, the frozen flag, one column for those that    *)
(* only ChangeUserInfo writes (speeds, dates) and one for those the bridge *)
(* does not know (simual_use_limit, byte_remain, second_remain,            *)
(* max_session_timeout, update_interval), where 0 means without limit.     *)
(***************************************************************************)
EXTENDS Integers, Sequences

CONSTANTS
    Account,        \* user_name and realm
    Value,          \* passwords, and values of the speed and date columns
    MacLists,       \* lists of accounts that IpoeRegister is called with
    Call,           \* SOAP calls that can be under way at once
    Used,           \* bound: the methods BOSS calls
    Environment,    \* bound: what else happens, of the five in BossAssumption
    MaxCalls,       \* bound: SOAP calls made
    MaxTokens,      \* bound: tokens issued
    MaxLives,       \* bound: deletions of an account up to which the page deletes it
    NoRow, NoToken

Readers == {"IsExist", "CheckPassword", "SearchCustomerStatus"}
Creators == {"Register", "IpoeRegister"}
Changers == {"ChangeUserInfo", "ChangeUserPassword", "EnableAccount"}
Erasers == {"EraseCustomer", "IpoeEraseCustomer"}
Methods == Readers \cup Creators \cup Changers \cup Erasers \cup {"ForceOffline"}

ASSUME BossAssumption ==
    /\ MacLists \subseteq Seq(Account) \ {<<>>}
    /\ Value # {}
    /\ Used \subseteq Methods
    /\ Environment \subseteq {"expiry", "dberror", "loss", "session", "ui"}
    /\ MaxCalls \in Nat
    /\ MaxTokens \in Nat
    /\ MaxLives \in Nat
    /\ NoToken \notin Nat

Row == [pwd : Value, profile : Value, frozen : BOOLEAN, limits : {0, 1}]

\* NoRow is no row, and none when only the columns of Known are looked at.
ASSUME NoAccountAssumption ==
    NoRow \notin Row \cup [pwd : Value, profile : Value, frozen : BOOLEAN]

VARIABLES
    account,        \* radius.account_info
    life,           \* how often an account has been deleted
    online,         \* accounts with a live row in radius.online_user
    issued,         \* tokens that /admin/login has given out: 1..issued
    alive,          \* those that have not expired
    cached,         \* cachedToken of radiusClient.js
    call,           \* the calls under way, and the result of the last ones
    made,           \* SOAP calls made
    form            \* the account a browser has loaded

api == <<account, life, online, alive>>
bridge == <<issued, cached, call, made>>
vars == <<api, bridge, form>>

Codes == {"none", "SUCCESS", "OFFLINE", "ONLINE", "ACCOUNT_NOT_EXIST", "ACCOUNT_EXISTS", "UNKNOWN",
          "PARAM_EMPTY", "PARAM_INVALID", "FORCE_OFFLINE_FAIL", "PASSWORD_ERROR"}

Args(m) == IF m = "EnableAccount" THEN BOOLEAN
           ELSE IF m \in Creators \cup Changers \cup {"CheckPassword"} THEN Value
           ELSE {CHOOSE v \in Value : TRUE}

Lists(m) == IF m = "IpoeRegister" THEN MacLists ELSE {<<a>> : a \in Account}

\* at: the handler is about to send a request, waits for a login or for an
\* answer, or has returned; pos: its requests so far; rows: what it inserted.
Calls ==
    [at : {"idle", "ready", "login", "sent"}, method : Methods, list : Seq(Account), arg : Value \cup BOOLEAN,
     pos : Nat, token : Nat \cup {NoToken}, seen : Row \cup {NoRow},
     rows : SUBSET (Account \X Nat), result : Codes]

IdleCall ==
    [at |-> "idle", method |-> "IsExist", list |-> <<>>, arg |-> FALSE, pos |-> 1,
     token |-> NoToken, seen |-> NoRow, rows |-> {}, result |-> "none"]

Forms == [acc : Account, row : Row]

TypeOK ==
    /\ account \in [Account -> Row \cup {NoRow}]
    /\ life \in [Account -> Nat]
    /\ online \subseteq Account
    /\ issued \in Nat
    /\ alive \subseteq 1..issued
    /\ cached \in 1..issued \cup {NoToken}
    /\ call \in [Call -> Calls]
    /\ made \in Nat
    /\ form \in Forms \cup {NoRow}

\* Accounts there are when the bridge starts were made on the account page.
Init ==
    /\ account \in [Account -> {r \in Row : ~r.frozen /\ r.limits = 1} \cup {NoRow}]
    /\ life = [a \in Account |-> 0]
    /\ online = {}
    /\ issued = 0
    /\ alive = {}
    /\ cached = NoToken
    /\ call = [c \in Call |-> IdleCall]
    /\ made = 0
    /\ form = NoRow

-----------------------------------------------------------------------------
(***************************************************************************)
(* A SOAP call begins and ends.                                            *)
(***************************************************************************)
Key(c) == call[c].list[IF call[c].method = "IpoeRegister" THEN call[c].pos ELSE 1]

Begin(c, m) ==
    /\ call[c].at = "idle"
    /\ made < MaxCalls
    /\ made' = made + 1
    /\ \E l \in Lists(m), v \in Args(m) :
           call' = [call EXCEPT ![c] =
               [IdleCall EXCEPT !.at = "ready", !.method = m, !.list = l, !.arg = v]]
    /\ UNCHANGED <<api, issued, cached, form>>

\* A parameter is missing: the handler returns at once.
BeginRefused(c) ==
    /\ call[c].at = "idle"
    /\ made < MaxCalls
    /\ made' = made + 1
    /\ \E m \in Used \cap {"CheckPassword", "ChangeUserPassword", "IpoeEraseCustomer", "IpoeRegister"} :
           call' = [call EXCEPT ![c] = [IdleCall EXCEPT !.method = m,
               !.result = IF m = "IpoeRegister" THEN "PARAM_INVALID" ELSE "PARAM_EMPTY"]]
    /\ UNCHANGED <<api, issued, cached, form>>

Ended(c, code) == [call[c] EXCEPT !.at = "idle", !.token = NoToken, !.result = code]

Returns(c, code) == call' = [call EXCEPT ![c] = Ended(c, code)]

\* The answer to a request: it takes the handler to next, or it is lost, axios
\* throws, and server.js answers -9.
Answered(c, next) ==
    \/ call' = [call EXCEPT ![c] = next]
    \/ "loss" \in Environment /\ Returns(c, "UNKNOWN")

NextRequest(c) == [call[c] EXCEPT !.at = "ready", !.token = NoToken, !.pos = call[c].pos + 1]

\* What a handler returns when ok(res) is false.  Result.error() always says
\* "fail", so Register never reads of an existing account in the message.
FailCode(m) ==
    IF m \in Readers \cup Creators THEN "UNKNOWN"
    ELSE IF m = "ForceOffline" THEN "FORCE_OFFLINE_FAIL"
    ELSE "ACCOUNT_NOT_EXIST"

-----------------------------------------------------------------------------
(***************************************************************************)
(* radiusClient.js.                                                        *)
(***************************************************************************)
UseToken(c) ==
    /\ call[c].at = "ready"
    /\ cached # NoToken
    /\ call' = [call EXCEPT ![c].at = "sent", ![c].token = cached]
    /\ UNCHANGED <<api, issued, cached, made, form>>

AskLogin(c) ==
    /\ call[c].at = "ready"
    /\ cached = NoToken
    /\ call' = [call EXCEPT ![c].at = "login"]
    /\ UNCHANGED <<api, issued, cached, made, form>>

LoggedIn(c) ==
    /\ call[c].at = "login"
    /\ issued < MaxTokens
    /\ issued' = issued + 1
    /\ alive' = alive \cup {issued + 1}
    /\ cached' = issued + 1
    /\ call' = [call EXCEPT ![c].at = "sent", ![c].token = issued + 1]
    /\ UNCHANGED <<account, life, online, made, form>>

LoginFails(c) ==
    /\ call[c].at = "login"
    /\ {"dberror", "loss"} \cap Environment # {}
    /\ Returns(c, "UNKNOWN")
    /\ UNCHANGED <<api, issued, cached, made, form>>

\* TokenInterceptor refuses the token.  request() would log in again if the
\* status of the answer were 500; it is 200, and the handler goes on with a
\* body that is not ok.
Refused(c) ==
    /\ call[c].at = "sent"
    /\ call[c].token \notin alive
    /\ Answered(c, Ended(c, FailCode(call[c].method)))
    /\ UNCHANGED <<api, issued, cached, made, form>>

\* The connection breaks before radiusApi has the request.
ConnectionLost(c) ==
    /\ call[c].at = "sent"
    /\ "loss" \in Environment
    /\ Returns(c, "UNKNOWN")
    /\ UNCHANGED <<api, issued, cached, made, form>>

-----------------------------------------------------------------------------
(***************************************************************************)
(* radiusApi serves the request of call c, and the handler takes the       *)
(* answer.                                                                 *)
(***************************************************************************)
Served(c) == call[c].at = "sent" /\ call[c].token \in alive

\* A DataAccessException: the controller answers with Result.error().
DbError(c) ==
    /\ Served(c)
    /\ "dberror" \in Environment
    /\ Answered(c, Ended(c, FailCode(call[c].method)))
    /\ UNCHANGED <<api, issued, cached, made, form>>

\* GET /AccountInfo is the first request of most handlers.
GetAccount(c) ==
    LET m == call[c].method
        row == account[Key(c)]
    IN  /\ Served(c)
        /\ m \in Readers \cup Changers
        /\ call[c].pos = 1
        /\ Answered(c, IF row = NoRow THEN Ended(c, "ACCOUNT_NOT_EXIST")
                       ELSE IF m = "IsExist" THEN Ended(c, "SUCCESS")
                       ELSE IF m = "CheckPassword"
                       THEN Ended(c, IF row.pwd = call[c].arg THEN "SUCCESS" ELSE "PASSWORD_ERROR")
                       ELSE [NextRequest(c) EXCEPT !.seen = row])
        /\ UNCHANGED <<api, issued, cached, made, form>>

\* GET /OnlineUser
GetOnline(c) ==
    /\ Served(c)
    /\ \/ /\ call[c].method = "SearchCustomerStatus"
          /\ call[c].pos = 2
          /\ Answered(c, Ended(c, IF Key(c) \in online THEN "ONLINE" ELSE "OFFLINE"))
       \/ /\ call[c].method = "ForceOffline"
          /\ call[c].pos = 1
          /\ Answered(c, IF Key(c) \in online THEN NextRequest(c) ELSE Ended(c, "OFFLINE"))
    /\ UNCHANGED <<api, issued, cached, made, form>>

\* PUT /OnlineUser of ForceOffline names four columns, and the API sets all
\* others to NULL, acctuniqueid included, which is NOT NULL: the UPDATE fails,
\* or meets no row.
PutOnline(c) ==
    /\ Served(c)
    /\ call[c].method = "ForceOffline"
    /\ call[c].pos = 2
    /\ Answered(c, Ended(c, "FORCE_OFFLINE_FAIL"))
    /\ UNCHANGED <<api, issued, cached, made, form>>

\* Mutation: a merge that forgets the frozen flag.
BodyWithoutFrozen(c) ==
    LET merged == [call[c].seen EXCEPT !.limits = 0, !.frozen = FALSE]
    IN  IF call[c].method = "ChangeUserInfo" THEN [merged EXCEPT !.profile = call[c].arg]
        ELSE IF call[c].method = "ChangeUserPassword" THEN [merged EXCEPT !.pwd = call[c].arg]
        ELSE [merged EXCEPT !.frozen = ~call[c].arg]

\* existingToPutBody, and the change asked for.  Columns it leaves out arrive
\* as 0 and are written.
Body(c) ==
    LET merged == [call[c].seen EXCEPT !.limits = 0]
    IN  IF call[c].method = "ChangeUserInfo" THEN [merged EXCEPT !.profile = call[c].arg]
        ELSE IF call[c].method = "ChangeUserPassword" THEN [merged EXCEPT !.pwd = call[c].arg]
        ELSE [merged EXCEPT !.frozen = ~call[c].arg]

\* Mutation: a PUT that inserts the row if there is none.
PutAccountUpserts(c) ==
    /\ Served(c)
    /\ call[c].method \in Changers
    /\ call[c].pos = 2
    /\ account' = [account EXCEPT ![Key(c)] = Body(c)]
    /\ Answered(c, Ended(c, "SUCCESS"))
    /\ UNCHANGED <<life, online, alive, issued, cached, made, form>>

\* PUT /AccountInfo updates the row, if it is still there.
PutAccount(c) ==
    /\ Served(c)
    /\ call[c].method \in Changers
    /\ call[c].pos = 2
    /\ \/ /\ account[Key(c)] # NoRow
          /\ account' = [account EXCEPT ![Key(c)] = Body(c)]
          /\ Answered(c, Ended(c, "SUCCESS"))
       \/ /\ account[Key(c)] = NoRow
          /\ Answered(c, Ended(c, "ACCOUNT_NOT_EXIST"))
          /\ UNCHANGED account
    /\ UNCHANGED <<life, online, alive, issued, cached, made, form>>

NewRow(v) == [pwd |-> v, profile |-> v, frozen |-> FALSE, limits |-> 0]

\* The row is in: an IpoeRegister goes on to the next of its list.
Inserted(c) ==
    LET rows == call[c].rows \cup {<<Key(c), life[Key(c)]>>}
        next == IF call[c].method = "IpoeRegister" /\ call[c].pos < Len(call[c].list)
                THEN NextRequest(c) ELSE Ended(c, "SUCCESS")
    IN  [next EXCEPT !.rows = rows]

\* Mutation: no unique key on (user_name, realm).
PostAccountTwice(c) ==
    /\ Served(c)
    /\ call[c].method \in Creators
    /\ account' = [account EXCEPT ![Key(c)] = NewRow(call[c].arg)]
    /\ Answered(c, Inserted(c))
    /\ UNCHANGED <<life, online, alive, issued, cached, made, form>>

\* POST /AccountInfo inserts the row, unless user_name and realm are taken.
PostAccount(c) ==
    /\ Served(c)
    /\ call[c].method \in Creators
    /\ \/ /\ account[Key(c)] = NoRow
          /\ account' = [account EXCEPT ![Key(c)] = NewRow(call[c].arg)]
          /\ Answered(c, Inserted(c))
       \/ /\ account[Key(c)] # NoRow
          /\ Answered(c, Ended(c, FailCode(call[c].method)))
          /\ UNCHANGED account
    /\ UNCHANGED <<life, online, alive, issued, cached, made, form>>

Remove(a) ==
    /\ account' = [account EXCEPT ![a] = NoRow]
    /\ life' = [life EXCEPT ![a] = life[a] + 1]

\* DELETE /AccountInfo
DeleteAccount(c) ==
    /\ Served(c)
    /\ call[c].method \in Erasers
    /\ \/ /\ account[Key(c)] # NoRow
          /\ Remove(Key(c))
          /\ Answered(c, Ended(c, "SUCCESS"))
       \/ /\ account[Key(c)] = NoRow
          /\ Answered(c, Ended(c, "ACCOUNT_NOT_EXIST"))
          /\ UNCHANGED <<account, life>>
    /\ UNCHANGED <<online, alive, issued, cached, made, form>>

-----------------------------------------------------------------------------
(***************************************************************************)
(* The environment: tokens expire, sessions come and go, and an            *)
(* administrator uses the account page, which loads a row and saves all of *)
(* its columns.                                                            *)
(***************************************************************************)
Expire(t) ==
    /\ "expiry" \in Environment
    /\ t \in alive
    /\ alive' = alive \ {t}
    /\ UNCHANGED <<account, life, online, bridge, form>>

Session(a) ==
    /\ "session" \in Environment
    /\ online' = (online \ {a}) \cup ({a} \ online)
    /\ UNCHANGED <<account, life, alive, bridge, form>>

UiAdd(a) ==
    /\ account[a] = NoRow
    /\ \E v \in Value : account' = [account EXCEPT ![a] = [NewRow(v) EXCEPT !.limits = 1]]
    /\ UNCHANGED <<life, online, alive, bridge, form>>

UiLoad(a) ==
    /\ form = NoRow
    /\ account[a] # NoRow
    /\ form' = [acc |-> a, row |-> account[a]]
    /\ UNCHANGED <<api, bridge>>

\* The flag stands for whatever the administrator edits.
UiSave ==
    /\ form # NoRow
    /\ form' = NoRow
    /\ \/ /\ account[form.acc] # NoRow
          /\ \E b \in BOOLEAN : account' = [account EXCEPT ![form.acc] = [form.row EXCEPT !.frozen = b]]
       \/ /\ account[form.acc] = NoRow
          /\ UNCHANGED account
    /\ UNCHANGED <<life, online, alive, bridge>>

UiDelete(a) ==
    /\ account[a] # NoRow
    /\ life[a] < MaxLives
    /\ Remove(a)
    /\ UNCHANGED <<online, alive, bridge, form>>

Ui ==
    /\ "ui" \in Environment
    /\ \/ \E a \in Account : UiAdd(a) \/ UiLoad(a) \/ UiDelete(a)
       \/ UiSave

Next ==
    \/ \E c \in Call :
        \/ \E m \in Used : Begin(c, m)
        \/ BeginRefused(c)
        \/ UseToken(c) \/ AskLogin(c) \/ LoggedIn(c) \/ LoginFails(c)
        \/ Refused(c) \/ ConnectionLost(c) \/ DbError(c)
        \/ GetAccount(c) \/ GetOnline(c) \/ PutOnline(c)
        \/ PutAccount(c) \/ PostAccount(c) \/ DeleteAccount(c)
    \/ \E t \in alive : Expire(t)
    \/ \E a \in Account : Session(a)
    \/ Ui

Spec == Init /\ [][Next]_vars

-----------------------------------------------------------------------------
(***************************************************************************)
(* Properties.                                                             *)
(***************************************************************************)

\* Of several calls that register an account, overlapping or repeated after an
\* answer was lost, one at most is told that it did, until the account is
\* erased: SUCCESS stands for rows this call inserted, all those of its list.
RegisteredOnce ==
    \A c \in Call : call[c].result = "SUCCESS" /\ call[c].method \in Creators =>
        /\ \A i \in DOMAIN call[c].list : \E r \in call[c].rows : r[1] = call[c].list[i]
        /\ \A d \in Call \ {c} : call[c].rows \cap call[d].rows = {}

\* An erased account does not come back because a handler or a browser saves
\* the row it read before: only a registration or an administrator adds it.
ErasedStaysErased ==
    [][\A a \in Account : account[a] = NoRow /\ account'[a] # NoRow =>
        \/ \E c \in Call : call[c].at = "sent" /\ call[c].method \in Creators /\ Key(c) = a
        \/ account'[a].limits = 1 /\ form' = form]_vars

\* Refinement, for one call at a time and no administrator: each method does
\* what AccountService says, at one instant, under errors, lost answers and
\* expired tokens, as far as the columns the bridge knows go.
Known ==
    [a \in Account |-> IF account[a] = NoRow THEN NoRow
                       ELSE [pwd |-> account[a].pwd, profile |-> account[a].profile,
                             frozen |-> account[a].frozen]]

Service == INSTANCE AccountService WITH acct <- Known

ServiceSpec == Service!Spec

\* "One retry after re-login on auth failure" (radiusClient.js): a handler
\* whose token is refused does not end with that answer.
AuthFailureRetried ==
    [][\A c \in Call : call[c].at = "sent" /\ call[c].token \notin alive
        => call'[c].at # "idle"]_vars

\* Return code -2 means that the account does not exist (test_client/README.md).
NotExistIsTrue ==
    [][\A c \in Call : call[c].at = "sent" /\ call'[c].at = "idle"
                       /\ call'[c].result = "ACCOUNT_NOT_EXIST"
        => account[Key(c)] = NoRow]_vars

\* Return code -6 means that the account exists already (test_client/README.md):
\* with nothing else going wrong, it is what Register returns for such a one.
ExistingAccountReported ==
    [][\A c \in Call : /\ call[c].at = "sent" /\ call'[c].at = "idle"
                       /\ call[c].method = "Register" /\ account[Key(c)] # NoRow
        => call'[c].result = "ACCOUNT_EXISTS"]_vars

\* The handlers read the account "to merge the existing columns before PUT"
\* (handlers/index.js): the columns they were not asked to change stay.
MergeKeepsColumns ==
    [][\A c \in Call : call[c].at = "sent" /\ call[c].method \in Changers /\ account' # account
        => account'[Key(c)].limits = call[c].seen.limits]_vars
=============================================================================
