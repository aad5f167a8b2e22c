----------------------------- MODULE SessionDb -----------------------------
(***************************************************************************)
(* The session tables of the radius database and every statement that      *)
(* writes them.                                                            *)
(*                                                                         *)
(*   online    radius.online_user : one row per Acct-Unique-Session-Id     *)
(*   offline   radius.offline_user : the ledger of ended sessions          *)
(*   byte_remain, second_remain    the quota columns of account_info       *)
(*                                                                         *)
(* FreeRADIUS executes the accounting statements of queries.conf           *)
(* (Handle...), the event scheduler executes event_of_minute (Event...)    *)
(* and event_of_day (KickUnauthorised), and the web UI reads and writes    *)
(* online rows (ReadOnlineUser, UpdateOnlineUser).  A statement is atomic, *)
(* its triggers included; everything between two statements may be         *)
(* interleaved.                                                            *)
(*                                                                         *)
(* Input and output octets are always added up by the code that bills      *)
(* them, so a row keeps their sum.  Columns that are only displayed        *)
(* (addresses, ports, causes, acctinterval) are left out.                  *)
(***************************************************************************)
EXTENDS Integers, FiniteSets

CONSTANTS
    Uid,            \* values of Acct-Unique-Session-Id
    User,           \* accounts, as username@realm
    Nas,            \* values of NAS-IP-Address
    Sid,            \* values of Acct-Session-Id, which a NAS chooses by itself
    UserOf, NasOf, SidOf,       \* what the hash in acct_unique was taken over
    Worker,         \* executions of event_of_minute that can be under way at once
    StaleAfter,     \* 3600 in event_of_minute
    ByteGrant, SecondGrant,     \* the quotas bought, 0 for none
    NoRow,          \* no row with this key in the table
    Null            \* SQL NULL

ASSUME SessionAssumption ==
    /\ UserOf \in [Uid -> User]
    /\ NasOf \in [Uid -> Nas]
    /\ SidOf \in [Uid -> Sid]
    /\ StaleAfter \in Nat
    /\ ByteGrant \in [User -> Nat]
    /\ SecondGrant \in [User -> Nat]
    /\ Null \notin Nat

OnlineRow ==
    [id : Nat, start : Nat, upd : Nat, stop : Nat \cup {Null},
     secs : Nat, octets : Nat, kickme : BOOLEAN]

\* id is 0 for a row that a Stop packet inserted: those take the ledger's own
\* auto_increment values, the sweep keeps the radacctid of the online row.
OfflineRow == [id : Nat, uid : Uid, stop : Nat, secs : Nat, octets : Nat]

ASSUME NoRowAssumption == NoRow \notin OnlineRow

VARIABLES
    now,            \* the database clock, in seconds
    online,
    offline,
    byte_remain,
    second_remain,
    next_id,        \* auto_increment of online_user
    blocked,        \* accounts frozen, not yet valid or expired
    job,            \* each execution of event_of_minute: its place, its temp_user
    form            \* the online row a browser has loaded

tables == <<online, offline, byte_remain, second_remain, next_id>>
dbVars == <<now, tables, blocked, job, form>>

NoRows == [x \in Uid |-> NoRow]

Jobs == [at : {"idle", "marked", "copied", "moving"},
         temp : [Uid -> OnlineRow \cup {NoRow}]]

IdleJob == [at |-> "idle", temp |-> NoRows]

Forms == [uid : Uid, row : OnlineRow]

DbTypeOK ==
    /\ now \in Nat
    /\ online \in [Uid -> OnlineRow \cup {NoRow}]
    /\ offline \subseteq OfflineRow
    /\ byte_remain \in [User -> Int]
    /\ second_remain \in [User -> Int]
    /\ next_id \in Nat \ {0}
    /\ blocked \subseteq User
    /\ job \in [Worker -> Jobs]
    /\ form \in Forms \cup {NoRow}

DbInit ==
    /\ now = 1
    /\ online = NoRows
    /\ offline = {}
    /\ byte_remain = ByteGrant
    /\ second_remain = SecondGrant
    /\ next_id = 1
    /\ blocked = {}
    /\ job = [w \in Worker |-> IdleJob]
    /\ form = NoRow

-----------------------------------------------------------------------------
(***************************************************************************)
(* Reading the tables.                                                     *)
(***************************************************************************)
Abs(n) == IF n < 0 THEN -n ELSE n

Present(uid) == online[uid] # NoRow

\* The key the triggers delete by: not the unique session id.
SameSession(x, y) == SidOf[x] = SidOf[y] /\ UserOf[x] = UserOf[y]

LedgerOf(uid) == {r \in offline : r.uid = uid}

\* view_radcheck has a Cleartext-Password row for the account.
Authorised(u) ==
    /\ u \notin blocked
    /\ byte_remain[u] >= 0
    /\ second_remain[u] >= 0

\* event_of_minute's INSERT .. SELECT holds its locks over several rows: no
\* other statement that touches these tables falls between two of them.
Unlocked == \A w \in Worker : job[w].at # "moving"

-----------------------------------------------------------------------------
(***************************************************************************)
(* The triggers of offline_user.                                           *)
(***************************************************************************)

\* Mutations: a charge that may go on below zero, and one that is refused when
\* it would use the balance up.
DebitBelowZero(balance, u, amount) ==
    [balance EXCEPT ![u] = balance[u] - amount]

DebitIfCovered(balance, u, amount) ==
    [balance EXCEPT ![u] = IF balance[u] > amount THEN balance[u] - amount ELSE balance[u]]

\* Balance u after a charge: a balance at or below zero is never touched.
Debit(balance, u, amount) ==
    [balance EXCEPT ![u] = IF balance[u] > 0 THEN balance[u] - amount ELSE balance[u]]

\* Session time that is billed.  Without one in the packet the trigger takes
\* the start time of any online row with this Acct-Session-Id, and of now if
\* there is none.
BilledSecs(uid, secs) ==
    LET starts == {online[x].start : x \in {y \in Uid : Present(y) /\ SidOf[y] = SidOf[uid]}}
    IN  IF secs # 0 THEN {secs}
        ELSE IF starts = {} THEN {0}
        ELSE {Abs(now - s) : s \in starts}

\* Mutations: the DELETE forgotten, and the byte charge put inside the
\* condition of the charge by time.
BillAndKeep(uid, secs, octets) ==
    /\ second_remain' = Debit(second_remain, UserOf[uid], secs)
    /\ byte_remain' = Debit(byte_remain, UserOf[uid], octets)
    /\ UNCHANGED <<online, next_id>>

BillBytesWithSeconds(uid, secs, octets) ==
    /\ second_remain' = Debit(second_remain, UserOf[uid], secs)
    /\ byte_remain' = IF second_remain[UserOf[uid]] > 0
                      THEN Debit(byte_remain, UserOf[uid], octets) ELSE byte_remain
    /\ online' = [x \in Uid |-> IF SameSession(x, uid) THEN NoRow ELSE online[x]]
    /\ UNCHANGED next_id

\* Common body of the BEFORE INSERT and BEFORE UPDATE triggers.
BillAndClose(uid, secs, octets) ==
    /\ second_remain' = Debit(second_remain, UserOf[uid], secs)
    /\ byte_remain' = Debit(byte_remain, UserOf[uid], octets)
    /\ online' = [x \in Uid |-> IF SameSession(x, uid) THEN NoRow ELSE online[x]]
    /\ UNCHANGED next_id

\* A new ledger row; acctstoptime is always the current time.
InsertOffline(id, uid, secs, octets) ==
    /\ BillAndClose(uid, secs, octets)
    /\ offline' = offline \cup
           {[id |-> id, uid |-> uid, stop |-> now, secs |-> secs, octets |-> octets]}

\* Mutation: no BEFORE UPDATE trigger.
UpdateOfflineUnbilled(r, secs, octets) ==
    /\ UNCHANGED <<online, byte_remain, second_remain, next_id>>
    /\ offline' = (offline \ {r}) \cup
           {[r EXCEPT !.stop = now, !.secs = secs, !.octets = octets]}

\* The ledger row r gets new totals, and the trigger bills them again.
UpdateOffline(r, secs, octets) ==
    /\ BillAndClose(r.uid, secs, octets)
    /\ offline' = (offline \ {r}) \cup
           {[r EXCEPT !.stop = now, !.secs = secs, !.octets = octets]}

-----------------------------------------------------------------------------
(***************************************************************************)
(* Accounting statements of queries.conf, one per Acct-Status-Type.        *)
(***************************************************************************)
NewOnlineRow(secs, octets) ==
    [id |-> next_id, start |-> now, upd |-> now, stop |-> Null,
     secs |-> secs, octets |-> octets, kickme |-> FALSE]

InsertOnline(uid, secs, octets) ==
    /\ online[uid] = NoRow
    /\ online' = [online EXCEPT ![uid] = NewOnlineRow(secs, octets)]
    /\ next_id' = next_id + 1
    /\ UNCHANGED <<offline, byte_remain, second_remain>>

\* Start: INSERT, and on a key conflict UPDATE the start time of the row.
HandleStart(uid, ts) ==
    \/ InsertOnline(uid, 0, 0)
    \/ /\ Present(uid)
       /\ online' = [online EXCEPT ![uid].start = ts, ![uid].upd = now]
       /\ UNCHANGED <<offline, byte_remain, second_remain, next_id>>

\* Mutations: acctupdatetime left alone, and kickme back to its default.
InterimNoUpdateTime(uid, secs, octets) ==
    \/ InsertOnline(uid, secs, octets)
    \/ /\ Present(uid)
       /\ online' = [online EXCEPT ![uid].secs = secs, ![uid].octets = octets]
       /\ UNCHANGED <<offline, byte_remain, second_remain, next_id>>

InterimResetsKick(uid, secs, octets) ==
    \/ InsertOnline(uid, secs, octets)
    \/ /\ Present(uid)
       /\ online' = [online EXCEPT ![uid] =
              [@ EXCEPT !.secs = secs, !.octets = octets, !.upd = now, !.kickme = FALSE]]
       /\ UNCHANGED <<offline, byte_remain, second_remain, next_id>>

\* Interim-Update: INSERT .. ON DUPLICATE KEY UPDATE.
HandleInterim(uid, secs, octets) ==
    \/ InsertOnline(uid, secs, octets)
    \/ /\ Present(uid)
       /\ online' = [online EXCEPT ![uid].secs = secs, ![uid].octets = octets, ![uid].upd = now]
       /\ UNCHANGED <<offline, byte_remain, second_remain, next_id>>

\* Mutation: bill the octets of the online row, not those of the packet.
StopInsertsFromRow(uid, secs, octets) ==
    /\ \A r \in LedgerOf(uid) : r.stop # now
    /\ \E s \in BilledSecs(uid, secs) :
           InsertOffline(0, uid, s, IF Present(uid) THEN online[uid].octets ELSE octets)

\* Stop, INSERT: succeeds unless the session already ended in this second.
StopInserts(uid, secs, octets) ==
    /\ \A r \in LedgerOf(uid) : r.stop # now
    /\ \E s \in BilledSecs(uid, secs) : InsertOffline(0, uid, s, octets)

\* Stop, second query: the INSERT hit the key, UPDATE the one ledger row.
StopUpdates(uid, secs, octets) ==
    \E r \in LedgerOf(uid) :
        /\ r.stop = now
        /\ LedgerOf(uid) = {r}
        /\ \E s \in BilledSecs(uid, secs) : UpdateOffline(r, s, octets)

\* Stop, second query with several ledger rows: giving them all the same
\* acctstoptime violates the key and the statement is rolled back.
StopRejected(uid) ==
    /\ \E r, q \in LedgerOf(uid) : r.stop = now /\ q # r
    /\ UNCHANGED tables

HandleStop(uid, secs, octets) ==
    \/ StopInserts(uid, secs, octets)
    \/ StopUpdates(uid, secs, octets)
    \/ StopRejected(uid)

\* Accounting-On and Accounting-Off: stop all sessions of the NAS that had
\* started by then; event_of_minute moves them.
HandleAccountingOn(nas, ts) ==
    /\ online' = [x \in Uid |->
           IF /\ Present(x)
              /\ online[x].stop = Null
              /\ NasOf[x] = nas
              /\ online[x].start <= ts
           THEN [online[x] EXCEPT !.stop = ts, !.secs = ts - online[x].start, !.upd = now]
           ELSE online[x]]
    /\ UNCHANGED <<offline, byte_remain, second_remain, next_id>>

-----------------------------------------------------------------------------
(***************************************************************************)
(* event_of_minute: mark silent sessions, copy the stopped ones into       *)
(* temp_user, and move the copies to the ledger.                           *)
(***************************************************************************)
EventMark(w) ==
    /\ Unlocked
    /\ job[w].at = "idle"
    /\ online' = [x \in Uid |->
           IF /\ Present(x)
              /\ online[x].stop = Null
              /\ Abs(now - online[x].upd) > StaleAfter
           THEN [online[x] EXCEPT !.stop = now, !.upd = now]
           ELSE online[x]]
    /\ job' = [job EXCEPT ![w].at = "marked"]
    /\ UNCHANGED <<now, offline, byte_remain, second_remain, next_id, blocked, form>>

\* Mutations: copy live sessions too, and leave out those without session time.
EventCopyAll(w) ==
    /\ Unlocked
    /\ job[w].at = "marked"
    /\ job' = [job EXCEPT ![w] = [at |-> "copied", temp |-> online]]
    /\ UNCHANGED <<now, tables, blocked, form>>

EventCopy(w) ==
    /\ Unlocked
    /\ job[w].at = "marked"
    /\ job' = [job EXCEPT ![w] =
           [at |-> "copied",
            temp |-> [x \in Uid |->
                IF Present(x) /\ online[x].stop # Null THEN online[x] ELSE NoRow]]]
    /\ UNCHANGED <<now, tables, blocked, form>>

Copied(w) == {x \in Uid : job[w].temp[x] # NoRow}

\* The INSERT .. SELECT goes through only if none of its rows hits a key.
EventMove(w) ==
    /\ Unlocked
    /\ job[w].at = "copied"
    /\ \A r \in offline : r.uid \in Copied(w) => r.stop # now
    /\ job' = [job EXCEPT ![w].at = "moving"]
    /\ UNCHANGED <<now, tables, blocked, form>>

\* One row of the INSERT .. SELECT, in the order of radacctid.
EventMoveRow(w, uid) ==
    /\ job[w].at = "moving"
    /\ uid \in Copied(w)
    /\ \A x \in Copied(w) : job[w].temp[uid].id <= job[w].temp[x].id
    /\ \E s \in BilledSecs(uid, job[w].temp[uid].secs) :
           InsertOffline(job[w].temp[uid].id, uid, s, job[w].temp[uid].octets)
    /\ job' = [job EXCEPT ![w].temp[uid] = NoRow]
    /\ UNCHANGED <<now, blocked, form>>

\* Mutation: clear the stopped rows by a DELETE of its own, copied or not.
EventDoneDeletes(w) ==
    /\ job[w].at = "moving"
    /\ Copied(w) = {}
    /\ online' = [x \in Uid |-> IF Present(x) /\ online[x].stop # Null THEN NoRow ELSE online[x]]
    /\ job' = [job EXCEPT ![w].at = "idle"]
    /\ UNCHANGED <<now, offline, byte_remain, second_remain, next_id, blocked, form>>

EventDone(w) ==
    /\ job[w].at = "moving"
    /\ Copied(w) = {}
    /\ job' = [job EXCEPT ![w].at = "idle"]
    /\ UNCHANGED <<now, tables, blocked, form>>

\* The event dies before or in the INSERT .. SELECT: a key conflict, a lock
\* wait, a restart of the server.  The statement leaves no trace and the
\* temporary table goes with the connection.
EventAbort(w) ==
    /\ job[w].at \in {"marked", "copied"}
    /\ job' = [job EXCEPT ![w] = IdleJob]
    /\ UNCHANGED <<now, tables, blocked, form>>

-----------------------------------------------------------------------------
(***************************************************************************)
(* Flagging rows for disconnection: event_of_day and the web UI.           *)
(***************************************************************************)

\* event_of_day: rows whose account is no longer in view_radcheck.
KickUnauthorised ==
    /\ Unlocked
    /\ \E x \in Uid : Present(x) /\ ~Authorised(UserOf[x])
    /\ online' = [x \in Uid |->
           IF Present(x) /\ ~Authorised(UserOf[x])
           THEN [online[x] EXCEPT !.kickme = TRUE, !.upd = now]
           ELSE online[x]]
    /\ UNCHANGED <<now, offline, byte_remain, second_remain, next_id, blocked, job, form>>

\* GET /OnlineUser lists rows that are not stopped; the browser keeps the row.
ReadOnlineUser(uid) ==
    /\ Unlocked
    /\ form = NoRow
    /\ Present(uid)
    /\ online[uid].stop = Null
    /\ form' = [uid |-> uid, row |-> online[uid]]
    /\ UNCHANGED <<now, tables, blocked, job>>

\* PUT /OnlineUser writes every column of the form, kickme set, to the rows
\* with its username, realm and acctsessionid: to none if the session has gone,
\* and to several only to fail on the unique acctuniqueid.
UpdateOnlineUser ==
    LET hit == {x \in Uid : Present(x) /\ SameSession(x, form.uid)}
        written(x) == [form.row EXCEPT !.id = online[x].id, !.upd = now, !.kickme = TRUE]
    IN  /\ Unlocked
        /\ form # NoRow
        /\ form' = NoRow
        /\ \/ /\ Cardinality(hit) # 1
              /\ UNCHANGED online
           \/ \E x \in hit :
                /\ hit = {x}
                /\ online' = [[online EXCEPT ![x] = NoRow] EXCEPT ![form.uid] = written(x)]
        /\ UNCHANGED <<now, offline, byte_remain, second_remain, next_id, blocked, job>>

\* Freezing an account, or its validity running out, and the reverse.
SetBlocked(u) ==
    /\ Unlocked
    /\ blocked' = (blocked \ {u}) \cup ({u} \ blocked)
    /\ UNCHANGED <<now, tables, job, form>>

DbTick ==
    /\ Unlocked
    /\ now' = now + 1
    /\ UNCHANGED <<tables, blocked, job, form>>

-----------------------------------------------------------------------------
\* The steps of event_of_minute.
EventStep(w) ==
    \/ EventMark(w)
    \/ EventCopy(w)
    \/ EventMove(w)
    \/ \E uid \in Uid : EventMoveRow(w, uid)
    \/ EventDone(w)
    \/ EventAbort(w)
=============================================================================
