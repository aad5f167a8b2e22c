------------------------------- MODULE Login -------------------------------
(***************************************************************************)
(* How radiusd answers an Access-Request: rad_authenticate with            *)
(* rad_check_password (main/auth.c), the simultaneous use check            *)
(* (process_checksimul in main/modules.c, mod_checksimul in rlm_sql.c, the *)
(* simul_count_query of queries.conf), and the end of the request,         *)
(* request_finish (main/process.c) with rad_postauth (main/auth.c).        *)
(*                                                                         *)
(* One account is used from several stations.  A station has one login in  *)
(* progress at most, and each login runs in a thread of its own: a call    *)
(* into a module (authorize, authenticate, session, post-auth) is one      *)
(* step, and steps of different logins interleave.  What a module answers  *)
(* is an input.  An accepted station gets its radacct row when the NAS     *)
(* sends Accounting Start, later, and loses it with Accounting Stop.       *)
(***************************************************************************)
EXTENDS Integers, FiniteSets

CONSTANTS Stations,      \* Calling-Station-Ids the account is used from
          Limit,         \* simual_use_limit of the account; 0: none
          MaxRows,       \* bound: open radacct rows of one station
          Overlap,       \* a login may start before the last one's Start
          SqlFails,      \* the session module may fail
          Proxying       \* requests may be sent to a home server

ASSUME LoginAssumption ==
  /\ IsFiniteSet(Stations)
  /\ Limit \in Nat
  /\ MaxRows \in Nat \ {0}
  /\ {Overlap, SqlFails, Proxying} \subseteq BOOLEAN

VARIABLES pc,        \* where the login of a station is
          code,      \* request->reply->code; "none" is 0
          retry,     \* autz_retry: authorize ran with an Autz-Type
          proxied,   \* request->proxy # NULL
          refused,   \* ghost: a stage of this login said no
          rows       \* open radacct rows of the account: station, number

vars == <<pc, code, retry, proxied, refused, rows>>

Numbers == 1..MaxRows

Codes == {"none", "accept", "reject", "challenge"}

Steps == {"idle", "authorize", "proxy", "authenticate", "session",
          "finish", "postauth", "accepted"}

TypeOK ==
  /\ pc \in [Stations -> Steps]
  /\ code \in [Stations -> Codes]
  /\ retry \in [Stations -> BOOLEAN]
  /\ proxied \in [Stations -> BOOLEAN]
  /\ refused \in [Stations -> BOOLEAN]
  /\ rows \subseteq Stations \X Numbers

Init ==
  /\ pc = [s \in Stations |-> "idle"]
  /\ code = [s \in Stations |-> "none"]
  /\ retry = [s \in Stations |-> FALSE]
  /\ proxied = [s \in Stations |-> FALSE]
  /\ refused = [s \in Stations |-> FALSE]
  /\ rows = {}

Online == {r[1] : r \in rows}

(***************************************************************************)
(* The steps of one login.                                                 *)
(***************************************************************************)
Go(s, p, c, no) ==
  /\ pc' = [pc EXCEPT ![s] = p]
  /\ code' = [code EXCEPT ![s] = c]
  /\ refused' = [refused EXCEPT ![s] = @ \/ no]
  /\ UNCHANGED rows

\* An Access-Request arrives and a thread starts on it.
Arrive(s) ==
  /\ pc[s] = "idle"
  /\ {s} \X Numbers \ rows # {}
  /\ ~Overlap => \A o \in Stations : pc[o] = "idle"
  /\ pc' = [pc EXCEPT ![s] = "authorize"]
  /\ code' = [code EXCEPT ![s] = "none"]
  /\ retry' = [retry EXCEPT ![s] = FALSE]
  /\ proxied' = [proxied EXCEPT ![s] = FALSE]
  /\ refused' = [refused EXCEPT ![s] = FALSE]
  /\ UNCHANGED rows

\* process_authorize: the good codes go on, once more with the Autz-Type
\* when one was set; "handled" returns with no code; the rest reject.
Authorize(s) ==
  /\ pc[s] = "authorize"
  /\ \/ ~retry[s] /\ retry' = [retry EXCEPT ![s] = TRUE]
        /\ Go(s, "authorize", code[s], FALSE)
     \/ UNCHANGED retry /\ Go(s, "authenticate", code[s], FALSE)
     \/ Proxying /\ UNCHANGED retry /\ Go(s, "proxy", code[s], FALSE)
     \/ UNCHANGED retry /\ Go(s, "finish", code[s], TRUE)        \* handled
     \/ UNCHANGED retry /\ Go(s, "finish", "reject", TRUE)
  /\ UNCHANGED proxied

\* The second pass, with request->proxy set: the home server's answer, or
\* that none came.  An accept sets Auth-Type and still takes the session
\* check; a challenge goes straight back; no answer leaves the code alone.
ProxyReply(s) ==
  /\ pc[s] = "proxy"
  /\ proxied' = [proxied EXCEPT ![s] = TRUE]
  /\ \/ Go(s, "authenticate", code[s], FALSE)
     \/ Go(s, "finish", "challenge", TRUE)
     \/ Go(s, "finish", "reject", TRUE)
     \/ Go(s, "finish", code[s], TRUE)                           \* no reply
  /\ UNCHANGED retry

\* Where a login whose password was right goes next.
Checked(s) == IF Limit > 0 THEN "session" ELSE "finish"

Accepted(c) == IF c = "none" THEN "accept" ELSE c

\* A login that passed and has no limit takes its code at once.
Passed(s, c) ==
  Go(s, Checked(s), IF Limit > 0 THEN c ELSE Accepted(c), FALSE)

\* rad_check_password: Auth-Type Reject or none at all reject; Accept, or
\* a proxied request, accept; otherwise the module of the Auth-Type
\* decides, and may have set a challenge.
Authenticate(s) ==
  /\ pc[s] = "authenticate"
  /\ \/ Passed(s, code[s])
     \/ ~proxied[s] /\ Passed(s, "challenge")
     \/ ~proxied[s] /\ \E c \in {"none", "challenge"} :          \* handled
                          Go(s, "finish", c, TRUE)
     \/ Go(s, "finish", "reject", TRUE)
  /\ UNCHANGED <<retry, proxied>>

\* simul_count_query: the open rows of the account at other stations.
Others(s) == {r \in rows : r[1] # s}

Count(s) == Cardinality(Others(s))

\* Mutant: the limit itself is still allowed.
OverLimitMore(s) == Count(s) > Limit

OverLimit(s) == Count(s) >= Limit

\* process_checksimul and the block after it.  A session module that does
\* not answer OK allows the login.
CheckSimul(s) ==
  /\ pc[s] = "session"
  /\ \/ OverLimit(s) /\ Go(s, "finish", "reject", TRUE)
     \/ ~OverLimit(s) /\ Go(s, "finish", Accepted(code[s]), FALSE)
     \/ SqlFails /\ Go(s, "finish", Accepted(code[s]), FALSE)
  /\ UNCHANGED <<retry, proxied>>

\* request_finish: an Access-Request nobody answered is rejected.
Finish(s) ==
  /\ pc[s] = "finish"
  /\ Go(s, "postauth", IF code[s] = "none" THEN "reject" ELSE code[s], FALSE)
  /\ UNCHANGED <<retry, proxied>>

\* The reply goes out with code c; only an accepted station will send Start.
Reply(s, c, no) ==
  Go(s, IF c = "accept" THEN "accepted" ELSE "idle", c, no)

\* Mutant: a failing post-auth section leaves the code as it is.
PostAuthKept(s) ==
  /\ pc[s] = "postauth"
  /\ \/ Reply(s, code[s], FALSE)
     \/ Reply(s, code[s], TRUE)
  /\ UNCHANGED <<retry, proxied>>

\* rad_postauth: a section that fails or rejects turns any reply into a
\* reject; all other answers leave it.
PostAuth(s) ==
  /\ pc[s] = "postauth"
  /\ \/ Reply(s, code[s], FALSE)
     \/ Reply(s, "reject", TRUE)
  /\ UNCHANGED <<retry, proxied>>

(***************************************************************************)
(* Accounting: the row of an accepted station, and its end.                *)
(***************************************************************************)

Start(s) ==
  /\ pc[s] = "accepted"
  /\ \E n \in Numbers : <<s, n>> \notin rows /\ rows' = rows \union {<<s, n>>}
  /\ pc' = [pc EXCEPT ![s] = "idle"]
  /\ UNCHANGED <<code, retry, proxied, refused>>

\* The user hung up before the session began: no Start is sent.
Abandon(s) ==
  /\ pc[s] = "accepted"
  /\ pc' = [pc EXCEPT ![s] = "idle"]
  /\ UNCHANGED <<code, retry, proxied, refused, rows>>

Stop(s) ==
  /\ \E n \in Numbers : <<s, n>> \in rows /\ rows' = rows \ {<<s, n>>}
  /\ UNCHANGED <<pc, code, retry, proxied, refused>>

Step(s) ==
  \/ Authorize(s) \/ ProxyReply(s) \/ Authenticate(s) \/ CheckSimul(s)
  \/ Finish(s) \/ PostAuth(s)

Next == \E s \in Stations :
  Arrive(s) \/ Step(s) \/ Start(s) \/ Abandon(s) \/ Stop(s)

Spec == Init /\ [][Next]_vars

(***************************************************************************)
(* Properties.                                                             *)
(***************************************************************************)
\* The account is in use at no more stations than its limit allows: what
\* doc/configuration/simultaneous_use promises of Simultaneous-Use.
LimitKept == Limit > 0 => Cardinality(Online) <= Limit

\* rad_authenticate, request_finish and rad_postauth are fail-safe: an
\* Access-Accept leaves only when no stage of the login failed, rejected
\* or kept the answer to itself, whatever the earlier stages had set.
FailSafe(s) == pc[s] = "accepted" => code[s] = "accept" /\ ~refused[s]

\* Every Access-Request that was processed is answered: request_finish and
\* rad_postauth never end with a reply code of 0, also when a module
\* handled the request or the home server stayed silent.
EveryReplyCoded ==
  [][\A s \in Stations :
       pc[s] = "postauth" /\ pc'[s] # "postauth" => code'[s] # "none"]_vars

\* A login is answered, and by no accept that a stage of it did not want.
RepliesSafe == [](\A s \in Stations : FailSafe(s)) /\ EveryReplyCoded
=============================================================================
