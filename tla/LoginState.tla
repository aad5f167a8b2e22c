----------------------------- MODULE LoginState -----------------------------
(***************************************************************************)
(* Logins, and beside them the table of States that joins the rounds of a  *)
(* login: rad_authenticate fetches from it and rad_postauth stores in it.  *)
(* The clients may send an answer again, to a table that fills up.         *)
(***************************************************************************)
EXTENDS Login

CONSTANTS Requests, NoVps, MaxEntries, Lifetime, MaxNow

VARIABLES req, entries, now

stateVars == <<req, entries, now>>

States == INSTANCE SessionState

ASSUME StatesAssumption == States!StateAssumption

\* A list of attributes has one owner, an entry or a request, and an answer
\* that is sent again does not get it; the table stays within its limit.
StateOnce == States!TypeOK /\ States!OneOwner /\ States!AnsweredOnce /\ States!Bounded

\* The attributes kept for a conversation stay in the table until their cleanup
\* time, unless the conversation itself goes on or ends, as long as no client has
\* answered a challenge twice.
StateKept == States!KeptUntilCleanup
=============================================================================
