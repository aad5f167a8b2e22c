---------------------------- MODULE LoginProofs ----------------------------
(***************************************************************************)
(* Proofs about Login, for any number of stations, rows and any limit: the *)
(* answer is fail-safe whatever interleaves and whatever fails, and the    *)
(* limit on simultaneous use holds when logins do not overlap and the      *)
(* session module does not fail.  Without either condition TLC finds a     *)
(* counterexample (README, Deviations).                                    *)
(***************************************************************************)
EXTENDS LoginState, FiniteSetTheorems, TLAPS

(***************************************************************************)
(* Before the last check a login has no accepting code and nobody refused  *)
(* it; after it, a refused login does not carry one.                       *)
(***************************************************************************)
Early == {"authorize", "proxy", "authenticate", "session"}

CodesOK ==
  \A s \in Stations :
    /\ pc[s] \in Early => ~refused[s] /\ code[s] \in {"none", "challenge"}
    /\ pc[s] \in {"finish", "postauth"} /\ refused[s] => code[s] # "accept"
    /\ pc[s] = "accepted" => ~refused[s] /\ code[s] = "accept"

\* Every action keeps the types: Login's state stays within TypeOK.
THEOREM LoginTypes == Spec => []TypeOK
<1>1. Init => TypeOK
  BY DEF Init, TypeOK, Steps, Codes
<1>2. TypeOK /\ [Next]_vars => TypeOK'
  <2> SUFFICES ASSUME TypeOK, [Next]_vars PROVE TypeOK'
    OBVIOUS
  <2>1. CASE UNCHANGED vars
    BY <2>1 DEF TypeOK, vars
  <2>2. ASSUME NEW s \in Stations, NEW p \in Steps, NEW c \in Codes,
               NEW no \in BOOLEAN, Go(s, p, c, no)
        PROVE  /\ pc' \in [Stations -> Steps]
               /\ code' \in [Stations -> Codes]
               /\ refused' \in [Stations -> BOOLEAN]
               /\ rows' \subseteq Stations \X Numbers
    BY <2>2 DEF TypeOK, Go
  <2>3. CASE Next
    <3>1. PICK s \in Stations :
            Arrive(s) \/ Step(s) \/ Start(s) \/ Abandon(s) \/ Stop(s)
      BY <2>3 DEF Next
    <3>2. CASE Arrive(s)
      BY <3>2 DEF TypeOK, Arrive, Steps, Codes
    <3>3. CASE Authorize(s)
      <4>1. retry' \in [Stations -> BOOLEAN] /\ proxied' = proxied
        BY <3>3 DEF TypeOK, Authorize
      <4>2. \E p \in Steps, c \in Codes, no \in BOOLEAN : Go(s, p, c, no)
        BY <3>3 DEF TypeOK, Authorize, Steps, Codes
      <4> QED BY <4>1, <4>2, <2>2 DEF TypeOK
    <3>4. CASE ProxyReply(s)
      <4>1. retry' = retry /\ proxied' \in [Stations -> BOOLEAN]
        BY <3>4 DEF TypeOK, ProxyReply
      <4>2. \E p \in Steps, c \in Codes, no \in BOOLEAN : Go(s, p, c, no)
        BY <3>4 DEF TypeOK, ProxyReply, Steps, Codes
      <4> QED BY <4>1, <4>2, <2>2 DEF TypeOK
    <3>5. CASE Authenticate(s)
      <4>1. \E p \in Steps, c \in Codes, no \in BOOLEAN : Go(s, p, c, no)
        BY <3>5 DEF TypeOK, Authenticate, Passed, Checked, Accepted, Steps,
                    Codes
      <4> QED BY <4>1, <2>2, <3>5 DEF TypeOK, Authenticate
    <3>6. CASE CheckSimul(s)
      <4>1. \E p \in Steps, c \in Codes, no \in BOOLEAN : Go(s, p, c, no)
        BY <3>6 DEF TypeOK, CheckSimul, Accepted, Steps, Codes
      <4> QED BY <4>1, <2>2, <3>6 DEF TypeOK, CheckSimul
    <3>7. CASE Finish(s)
      <4>1. \E p \in Steps, c \in Codes, no \in BOOLEAN : Go(s, p, c, no)
        BY <3>7 DEF TypeOK, Finish, Steps, Codes
      <4> QED BY <4>1, <2>2, <3>7 DEF TypeOK, Finish
    <3>8. CASE PostAuth(s)
      <4>1. \E p \in Steps, c \in Codes, no \in BOOLEAN : Go(s, p, c, no)
        BY <3>8 DEF TypeOK, PostAuth, Reply, Steps, Codes
      <4> QED BY <4>1, <2>2, <3>8 DEF TypeOK, PostAuth
    <3>9. CASE Start(s)
      BY <3>9 DEF TypeOK, Start, Steps
    <3>10. CASE Abandon(s)
      BY <3>10 DEF TypeOK, Abandon, Steps
    <3>11. CASE Stop(s)
      BY <3>11 DEF TypeOK, Stop
    <3> QED BY <3>1, <3>2, <3>3, <3>4, <3>5, <3>6, <3>7, <3>8, <3>9, <3>10,
               <3>11 DEF Step
  <2> QED BY <2>1, <2>3
<1> QED BY <1>1, <1>2, PTL DEF Spec

\* No stage's refusal is ever overruled: an accepted login was refused by
\* none, for all interleavings and all failures of the modules.
THEOREM AcceptsAreSafe == Spec => [](\A s \in Stations : FailSafe(s))
<1>1. Init => CodesOK
  BY DEF Init, CodesOK, Early
<1>2. TypeOK /\ CodesOK /\ [Next]_vars => CodesOK'
  <2> SUFFICES ASSUME TypeOK, CodesOK, [Next]_vars PROVE CodesOK'
    OBVIOUS
  <2>1. CASE UNCHANGED vars
    BY <2>1 DEF CodesOK, vars
  <2>2. CASE Next
    <3>1. PICK s \in Stations :
            Arrive(s) \/ Step(s) \/ Start(s) \/ Abandon(s) \/ Stop(s)
      BY <2>2 DEF Next
    <3>2. CASE Arrive(s)
      BY <3>2 DEF TypeOK, CodesOK, Arrive, Early
    <3>3. CASE Authorize(s)
      BY <3>3 DEF TypeOK, CodesOK, Authorize, Go, Early
    <3>4. CASE ProxyReply(s)
      BY <3>4 DEF TypeOK, CodesOK, ProxyReply, Go, Early
    <3>5. CASE Authenticate(s)
      BY <3>5 DEF TypeOK, CodesOK, Authenticate, Passed, Checked, Accepted,
                  Go, Early
    <3>6. CASE CheckSimul(s)
      BY <3>6 DEF TypeOK, CodesOK, CheckSimul, Accepted, Go, Early
    <3>7. CASE Finish(s)
      BY <3>7 DEF TypeOK, CodesOK, Finish, Go, Early
    <3>8. CASE PostAuth(s)
      BY <3>8 DEF TypeOK, CodesOK, PostAuth, Reply, Go, Early
    <3>9. CASE Start(s)
      BY <3>9 DEF TypeOK, CodesOK, Start, Early
    <3>10. CASE Abandon(s)
      BY <3>10 DEF TypeOK, CodesOK, Abandon, Early
    <3>11. CASE Stop(s)
      BY <3>11 DEF TypeOK, CodesOK, Stop
    <3> QED BY <3>1, <3>2, <3>3, <3>4, <3>5, <3>6, <3>7, <3>8, <3>9, <3>10,
               <3>11 DEF Step
  <2> QED BY <2>1, <2>2
<1>3. CodesOK => \A s \in Stations : FailSafe(s)
  BY DEF CodesOK, FailSafe
<1> QED BY <1>1, <1>2, <1>3, LoginTypes, PTL DEF Spec

\* Before the post-auth section the reply has a code: request_finish put it there.
Coded == \A s \in Stations : pc[s] = "postauth" => code[s] # "none"

\* Every login that was processed is answered, and by no accept that a stage of it
\* refused, whether a module handled the request, the home server stayed silent or a
\* section failed, for any number of stations and every interleaving.
THEOREM RepliesAreSafe == Spec => RepliesSafe
<1>1. Init => Coded
  BY DEF Init, Coded
<1>2. TypeOK /\ Coded /\ [Next]_vars => Coded'
  <2> SUFFICES ASSUME TypeOK, Coded, [Next]_vars PROVE Coded'
    OBVIOUS
  <2>1. CASE UNCHANGED vars
    BY <2>1 DEF Coded, vars
  <2>2. CASE Next
    <3>1. PICK s \in Stations :
            Arrive(s) \/ Step(s) \/ Start(s) \/ Abandon(s) \/ Stop(s)
      BY <2>2 DEF Next
    <3>2. CASE Arrive(s)
      BY <3>2 DEF TypeOK, Coded, Arrive
    <3>3. CASE Authorize(s) \/ ProxyReply(s)
      BY <3>3 DEF TypeOK, Coded, Authorize, ProxyReply, Go
    <3>4. CASE Authenticate(s) \/ CheckSimul(s)
      BY <3>4 DEF TypeOK, Coded, Authenticate, CheckSimul, Passed, Checked, Go
    <3>5. CASE Finish(s)
      BY <3>5 DEF TypeOK, Coded, Finish, Go
    <3>6. CASE PostAuth(s)
      BY <3>6 DEF TypeOK, Coded, PostAuth, Reply, Go
    <3>7. CASE Start(s) \/ Abandon(s) \/ Stop(s)
      BY <3>7 DEF TypeOK, Coded, Start, Abandon, Stop
    <3> QED BY <3>1, <3>2, <3>3, <3>4, <3>5, <3>6, <3>7 DEF Step
  <2> QED BY <2>1, <2>2
<1>3. TypeOK /\ Coded /\ [Next]_vars =>
        [\A s \in Stations :
           pc[s] = "postauth" /\ pc'[s] # "postauth" => code'[s] # "none"]_vars
  <2> SUFFICES ASSUME TypeOK, Coded, Next, NEW s \in Stations,
                      pc[s] = "postauth", pc'[s] # "postauth"
               PROVE  code'[s] # "none"
    OBVIOUS
  <2>1. PICK t \in Stations :
          Arrive(t) \/ Step(t) \/ Start(t) \/ Abandon(t) \/ Stop(t)
    BY DEF Next
  <2>2. CASE t # s
    BY <2>1, <2>2 DEF TypeOK, Arrive, Step, Authorize, ProxyReply, Authenticate,
       CheckSimul, Passed, Checked, Finish, PostAuth, Reply, Go, Start, Abandon, Stop
  <2>3. CASE PostAuth(s)
    BY <2>3 DEF TypeOK, Coded, PostAuth, Reply, Go
  <2>4. CASE t = s /\ ~PostAuth(s)
    BY <2>1, <2>4 DEF TypeOK, Arrive, Step, Authorize, ProxyReply, Authenticate,
       CheckSimul, Finish, Start, Abandon, Stop
  <2> QED BY <2>2, <2>3, <2>4
<1> QED BY <1>1, <1>2, <1>3, LoginTypes, AcceptsAreSafe, PTL DEF Spec, RepliesSafe, EveryReplyCoded

(***************************************************************************)
(* The limit.                                                              *)
(***************************************************************************)
\* There is room for a session of station s besides those that are open.
Fits(s) == Cardinality(Online \union {s}) <= Limit

\* At most one login is on its way, and one that passed the check fits.
Alone == \A s, o \in Stations : pc[s] # "idle" /\ pc[o] # "idle" => s = o

Roomy ==
  \A s \in Stations :
    /\ pc[s] \in Early => code[s] \in {"none", "challenge"}
    /\ pc[s] \in {"finish", "postauth", "accepted"} /\ code[s] = "accept" => Fits(s)
    /\ pc[s] = "accepted" => code[s] = "accept"

LimitInv == Alone /\ Roomy /\ LimitKept

\* The rows, the stations of any of them, and the count are finite.
LEMMA RowsFinite ==
  ASSUME TypeOK
  PROVE  /\ IsFiniteSet(rows)
         /\ IsFiniteSet(Online) /\ Cardinality(Online) \in Nat
<1>1. IsFiniteSet(Stations) /\ IsFiniteSet(Numbers)
  BY LoginAssumption, FS_Interval DEF Numbers
<1>2. IsFiniteSet(Stations \X Numbers)
  BY <1>1, FS_Product
<1>3. IsFiniteSet(rows)
  BY <1>2, FS_Subset DEF TypeOK
<1>4. Online \subseteq Stations
  BY DEF TypeOK, Online
<1> QED BY <1>1, <1>3, <1>4, FS_Subset, FS_CardinalityType

\* A station that the count lets in fits: rows are counted, so stations too.
LEMMA CountFits ==
  ASSUME TypeOK, Limit > 0, NEW s \in Stations, ~OverLimit(s)
  PROVE  Fits(s)
<1> DEFINE T == {r[1] : r \in Others(s)}
<1>1. IsFiniteSet(Others(s))
  BY RowsFinite, FS_Subset DEF Others
<1>2. IsFiniteSet(T) /\ Cardinality(T) <= Cardinality(Others(s))
  <2> DEFINE f == [r \in Others(s) |-> r[1]]
  <2>1. f \in Surjection(Others(s), T)
    BY DEF Surjection
  <2> QED BY <2>1, <1>1, FS_Surjection
<1>3. s \notin T
  BY DEF Others
<1>4. Online \union {s} = T \union {s}
  BY DEF Online, Others
<1>5. Cardinality(T \union {s}) = Cardinality(T) + 1
  BY <1>2, <1>3, FS_AddElement
<1>6. Cardinality(T) \in Nat /\ Cardinality(Others(s)) \in Nat
  BY <1>1, <1>2, FS_CardinalityType
<1>7. Cardinality(Others(s)) < Limit
  BY <1>6, LoginAssumption DEF OverLimit, Count
<1>8. Limit \in Nat
  BY LoginAssumption
<1> HIDE DEF T
<1>9. Cardinality(Online \union {s}) <= Limit
  BY <1>2, <1>4, <1>5, <1>6, <1>7, <1>8
<1> QED BY <1>9 DEF Fits

\* When logins do not overlap and the session module answers, an account is
\* never in use at more stations than its limit, for every limit and any
\* number of stations and of rows they left open.
THEOREM SerialLoginsLimited ==
  ASSUME ~Overlap, ~SqlFails, Limit > 0
  PROVE  Spec => []LimitKept
<1>1. Init => LimitInv
  <2>1. Init => Cardinality(Online) = 0
    BY FS_EmptySet DEF Init, Online
  <2> QED BY <2>1, LoginAssumption DEF Init, LimitInv, Alone, Roomy, Early, LimitKept
<1>2. TypeOK /\ LimitInv /\ [Next]_vars => LimitInv'
  <2> SUFFICES ASSUME TypeOK, LimitInv, [Next]_vars PROVE LimitInv'
    OBVIOUS
  <2>1. CASE UNCHANGED vars
    BY <2>1 DEF LimitInv, Alone, Roomy, LimitKept, Fits, Online, vars
  <2>2. CASE Next
    <3>1. PICK s \in Stations :
            Arrive(s) \/ Step(s) \/ Start(s) \/ Abandon(s) \/ Stop(s)
      BY <2>2 DEF Next
    <3>2. ASSUME rows' = rows
          PROVE  LimitKept' /\ \A t \in Stations : Fits(t)' <=> Fits(t)
      BY <3>2 DEF LimitInv, LimitKept, Fits, Online
    <3>3. CASE Arrive(s)
      BY <3>3, <3>2 DEF TypeOK, LimitInv, Alone, Roomy, Arrive, Early
    <3>4. CASE Authorize(s)
      BY <3>4, <3>2 DEF TypeOK, LimitInv, Alone, Roomy, Authorize, Go, Early
    <3>5. CASE ProxyReply(s)
      BY <3>5, <3>2 DEF TypeOK, LimitInv, Alone, Roomy, ProxyReply, Go, Early
    <3>6. CASE Authenticate(s)
      BY <3>6, <3>2 DEF TypeOK, LimitInv, Alone, Roomy, Authenticate, Passed,
                        Checked, Accepted, Go, Early
    <3>7. CASE CheckSimul(s)
      <4>1. code'[s] = "accept" => Fits(s)
        BY <3>7, CountFits DEF TypeOK, LimitInv, Roomy, CheckSimul, Accepted, Go
      <4> QED BY <3>7, <4>1, <3>2 DEF TypeOK, LimitInv, Alone, Roomy,
                                     CheckSimul, Accepted, Go, Early
    <3>8. CASE Finish(s)
      BY <3>8, <3>2 DEF TypeOK, LimitInv, Alone, Roomy, Finish, Go, Early
    <3>9. CASE PostAuth(s)
      BY <3>9, <3>2 DEF TypeOK, LimitInv, Alone, Roomy, PostAuth, Reply, Go, Early
    <3>10. CASE Start(s)
      <4>1. Online' = Online \union {s}
        BY <3>10 DEF Start, Online
      <4>2. Fits(s)
        BY <3>10 DEF LimitInv, Roomy, Start
      <4>3. LimitKept'
        BY <4>1, <4>2 DEF Fits, LimitKept
      <4>4. \A t \in Stations : pc'[t] = "idle"
        BY <3>10 DEF TypeOK, Start, LimitInv, Alone
      <4> QED BY <4>3, <4>4 DEF LimitInv, Alone, Roomy, Early
    <3>11. CASE Abandon(s)
      BY <3>11, <3>2 DEF TypeOK, LimitInv, Alone, Roomy, Abandon, Early
    <3>12. CASE Stop(s)
      <4>1. Online' \subseteq Online
        BY <3>12 DEF Stop, Online
      <4>2. ASSUME NEW A, NEW B, A \subseteq B, IsFiniteSet(B),
                   Cardinality(B) <= Limit
            PROVE  Cardinality(A) <= Limit
        BY <4>2, FS_Subset, FS_CardinalityType, LoginAssumption
      <4>3. \A t \in Stations : Online' \union {t} \subseteq Online \union {t}
                                /\ IsFiniteSet(Online \union {t})
        BY <4>1, RowsFinite, FS_AddElement
      <4>4. \A t \in Stations : Fits(t) => Fits(t)'
        BY <4>2, <4>3 DEF Fits
      <4>5. LimitKept'
        BY <4>1, <4>2, RowsFinite DEF LimitInv, LimitKept
      <4> QED BY <3>12, <4>4, <4>5 DEF LimitInv, Alone, Roomy, Stop, Early
    <3> QED BY <3>1, <3>3, <3>4, <3>5, <3>6, <3>7, <3>8, <3>9, <3>10, <3>11,
               <3>12 DEF Step
  <2> QED BY <2>1, <2>2
<1>3. LimitInv => LimitKept
  BY DEF LimitInv
<1> QED BY <1>1, <1>2, <1>3, LoginTypes, PTL DEF Spec

(***************************************************************************)
(* The table of States (LoginState).  A request stores under the State it  *)
(* drew itself, once, so a State is in the table once, and not before its  *)
(* request answered.                                                       *)
(***************************************************************************)
Fresh(r) == [root |-> r, tries |-> 0]

KeysDrawn ==
  /\ \A e \in entries :
       /\ e.key = Fresh(e.key.root)
       /\ req[e.key.root].pc = "challenge"
       /\ req[e.key.root].out = e.key
  /\ \A e, f \in entries : e.key = f.key => e = f
  /\ \A r \in Requests : req[r].out # States!NoKey =>
       req[r].out = Fresh(r) /\ req[r].pc = "challenge"

\* A State that came back was sent by the request that drew it, and what the
\* table keeps under it has been handed out.
KeysUsed ==
  \A r \in Requests :
    /\ req[r].in # States!NoKey => req[req[r].in.root].out = req[r].in
    /\ \A e \in entries : e.key = req[r].in => ~e.ctx /\ e.vps = NoVps

\* No two owners have one list, and a list is begun by the answer of a request.
ListsOwned ==
  /\ \A e, f \in entries : e.vps = f.vps /\ e.vps # NoVps => e = f
  /\ \A r, p \in Requests : req[r].vps = req[p].vps /\ req[r].vps # NoVps => r = p
  /\ \A e \in entries, r \in Requests : e.vps = req[r].vps => e.vps = NoVps
  /\ \A e \in entries : e.vps # NoVps => req[e.vps].pc = "challenge"
  /\ \A r \in Requests : req[r].vps # NoVps => req[req[r].vps].pc = "challenge"

TableInv ==
  /\ States!TypeOK
  /\ KeysDrawn
  /\ KeysUsed
  /\ ListsOwned
  /\ States!AnsweredOnce
  /\ IsFiniteSet(entries) /\ Cardinality(entries) <= MaxEntries

\* SessionState counts with the operators of FiniteSets.
LEMMA SameCount ==
  ASSUME NEW S
  PROVE  States!IsFiniteSet(S) = IsFiniteSet(S) /\ States!Cardinality(S) = Cardinality(S)
BY DEF States!IsFiniteSet, IsFiniteSet, States!Cardinality, Cardinality

LEMMA StateConstants ==
  /\ NoVps \notin Requests /\ IsFiniteSet(Requests)
  /\ MaxEntries \in Nat /\ Lifetime \in Nat /\ MaxNow \in Nat
  /\ 0 \in States!Tries
<1>1. NoVps \notin Requests /\ IsFiniteSet(Requests)
  BY StatesAssumption, SameCount DEF States!StateAssumption
<1>2. MaxEntries \in Nat /\ Lifetime \in Nat /\ MaxNow \in Nat
  BY StatesAssumption DEF States!StateAssumption
<1>3. Cardinality(Requests) \in Nat
  BY <1>1, FS_CardinalityType
<1>4. 0 \in 0..Cardinality(Requests)
  BY <1>3
<1>5. 0 \in States!Tries
  BY <1>4, SameCount DEF States!Tries
<1> QED BY <1>1, <1>2, <1>5

LEMMA FreshKey == \A r \in Requests : Fresh(r) \in States!Keys /\ Fresh(r) # States!NoKey
BY StateConstants DEF Fresh, States!Keys, States!NoKey

LEMMA TableBegin == States!Init => TableInv
<1> SUFFICES ASSUME States!Init PROVE TableInv
  OBVIOUS
<1>1. States!TypeOK
  BY StateConstants DEF States!Init, States!TypeOK, States!Request, States!Data
<1>2. KeysDrawn /\ KeysUsed /\ ListsOwned /\ States!AnsweredOnce
  BY DEF States!Init, KeysDrawn, KeysUsed, ListsOwned, States!AnsweredOnce
<1>3. IsFiniteSet(entries) /\ Cardinality(entries) <= MaxEntries
  BY FS_EmptySet, StateConstants DEF States!Init
<1> QED BY <1>1, <1>2, <1>3 DEF TableInv

\* What is left of the table by cleaning up or ending a conversation is
\* still sound.
LEMMA FewerEntries ==
  ASSUME TableInv, NEW S \in SUBSET entries
  PROVE  IsFiniteSet(S) /\ Cardinality(S) \in Nat /\ Cardinality(S) <= MaxEntries
<1>1. IsFiniteSet(entries) /\ Cardinality(entries) <= MaxEntries
  BY DEF TableInv
<1>2. IsFiniteSet(S) /\ Cardinality(S) <= Cardinality(entries)
  BY <1>1, FS_Subset
<1>3. Cardinality(S) \in Nat /\ Cardinality(entries) \in Nat /\ MaxEntries \in Nat
  BY <1>1, <1>2, FS_CardinalityType, StateConstants
<1> QED BY <1>1, <1>2, <1>3

\* The entry under the State of a request was handed out to it or to another
\* one, so the clean-up of fr_state_put_vps has always deleted it.
LEMMA OldGone ==
  ASSUME TableInv, NEW r \in Requests
  PROVE  States!Found(States!Cleaned(entries), req[r].in) = {}
BY DEF TableInv, KeysUsed, States!Found, States!Cleaned

\* A State that came back is found once or not at all.
LEMMA FoundOnce ==
  ASSUME TableInv, NEW k
  PROVE  \/ States!Found(entries, k) = {}
         \/ \E e \in entries : e.key = k /\ States!Found(entries, k) = {e}
BY DEF TableInv, KeysDrawn, States!Found

\* What a request or an entry names is a request.
LEMMA TableTypes ==
  ASSUME TableInv
  PROVE  /\ req \in [Requests -> States!Request]
         /\ \A e \in entries : /\ e \in States!Entry
                               /\ e.key \in States!Keys /\ e.key.root \in Requests
                               /\ e.vps \in Requests \union {NoVps}
         /\ \A r \in Requests :
              /\ req[r] \in States!Request
              /\ req[r].vps \in Requests \union {NoVps}
              /\ req[r].in # States!NoKey => req[r].in.root \in Requests
BY DEF TableInv, States!TypeOK, States!Entry, States!Request, States!Keys, States!Data

\* Begin only starts the request.
LEMMA BeginKeeps ==
  ASSUME TableInv, NEW r \in Requests, States!Begin(r)
  PROVE  TableInv'
<1>1. /\ req' = [req EXCEPT ![r].pc = "run"] /\ req[r].pc = "new"
      /\ entries' = entries /\ now' = now
  BY DEF States!Begin
<1>2. States!TypeOK'
  BY <1>1, TableTypes DEF TableInv, States!TypeOK, States!Request
<1>3. \A q \in Requests :
        /\ req'[q].in = req[q].in /\ req'[q].out = req[q].out
        /\ req'[q].vps = req[q].vps /\ req'[q].got = req[q].got
        /\ req[q].pc = "challenge" => req'[q].pc = "challenge"
  BY <1>1, TableTypes DEF States!Request
<1>4. KeysDrawn' /\ KeysUsed' /\ ListsOwned' /\ States!AnsweredOnce'
  <2>1. States!NoKey' = States!NoKey
    BY DEF States!NoKey
  <2> QED BY <1>1, <1>3, <2>1, TableTypes DEF TableInv, KeysDrawn, KeysUsed,
             ListsOwned, States!AnsweredOnce
<1>5. IsFiniteSet(entries)' /\ (Cardinality(entries) <= MaxEntries)'
  BY <1>1 DEF TableInv
<1> QED BY <1>2, <1>4, <1>5 DEF TableInv

\* Get moves the list of the entry, when there is one, to the request.
LEMMA GetKeeps ==
  ASSUME TableInv, NEW r \in Requests, NEW p \in Requests, States!Get(r, p)
  PROVE  TableInv'
<1> DEFINE k == req[p].out
           f == States!Found(entries, k)
<1>1. /\ req[r].pc = "new" /\ req[p].pc = "challenge" /\ k # States!NoKey
      /\ now' = now
      /\ entries' = (entries \ f) \union {States!Taken(e) : e \in f}
  BY DEF States!Get
<1>2. req' = [req EXCEPT ![r] =
               [@ EXCEPT !.pc = "run", !.in = k,
                         !.ctx = \A e \in f : e.ctx,
                         !.got = \E e \in f : e.vps # NoVps,
                         !.vps = IF f = {} THEN NoVps
                                           ELSE (CHOOSE e \in f : TRUE).vps]]
  BY DEF States!Get
<1>3. k = Fresh(p) /\ k \in States!Keys /\ k.root = p
  BY <1>1, FreshKey DEF TableInv, KeysDrawn, Fresh
<1>4. r # p /\ (States!NoKey)' = States!NoKey
  BY <1>1 DEF States!NoKey
<1>5. /\ \A q \in Requests \ {r} : req'[q] = req[q]
      /\ req'[r].pc = "run" /\ req'[r].in = k /\ req'[r].out = req[r].out
      /\ req'[r].got = (\E e \in f : e.vps # NoVps)
      /\ req'[r].vps = IF f = {} THEN NoVps ELSE (CHOOSE e \in f : TRUE).vps
      /\ req'[r].vps \in States!Data => req' \in [Requests -> States!Request]
  <2> DEFINE a == \A e \in f : e.ctx
             b == \E e \in f : e.vps # NoVps
             v == IF f = {} THEN NoVps ELSE (CHOOSE e \in f : TRUE).vps
  <2>1. req' = [req EXCEPT ![r] = [@ EXCEPT !.pc = "run", !.in = k, !.ctx = a,
                                            !.got = b, !.vps = v]]
    BY <1>2
  <2> HIDE DEF a, b, v, k
  <2>2. /\ \A q \in Requests \ {r} : req'[q] = req[q]
        /\ req'[r].pc = "run" /\ req'[r].in = k /\ req'[r].out = req[r].out
        /\ req'[r].got = b /\ req'[r].vps = v
    BY <2>1, TableTypes DEF States!Request
  <2>3. a \in BOOLEAN /\ b \in BOOLEAN
    BY DEF a, b
  <2>4. v \in States!Data => req' \in [Requests -> States!Request]
    BY <1>3, <2>1, <2>3, TableTypes DEF States!Request
  <2>5. req'[r].vps \in States!Data => req' \in [Requests -> States!Request]
    BY <2>2, <2>4
  <2> USE DEF a, b, v, k
  <2> QED BY <2>2, <2>5
<1>6. req[r].out = States!NoKey
  BY <1>1 DEF TableInv, KeysDrawn
<1>7. CASE f = {}
  <2>1. entries' = entries /\ req'[r].vps = NoVps /\ req'[r].got = FALSE
    BY <1>1, <1>5, <1>7
  <2>2. States!TypeOK'
    BY <1>1, <1>5, <2>1 DEF TableInv, States!TypeOK, States!Data
  <2>3. KeysDrawn'
    BY <1>1, <1>4, <1>5, <1>6, <2>1, TableTypes DEF TableInv, KeysDrawn
  <2>4. KeysUsed'
    BY <1>1, <1>3, <1>4, <1>5, <1>7, <2>1, TableTypes
       DEF TableInv, KeysUsed, States!Found
  <2>5. ListsOwned'
    BY <1>1, <1>5, <2>1, TableTypes DEF TableInv, ListsOwned
  <2>6. States!AnsweredOnce'
    BY <1>5, <2>1 DEF TableInv, States!AnsweredOnce
  <2> QED BY <2>1, <2>2, <2>3, <2>4, <2>5, <2>6 DEF TableInv
<1>8. CASE \E e \in entries : e.key = k /\ f = {e}
  <2>1. PICK e \in entries : e.key = k /\ f = {e}
    BY <1>8
  <2> DEFINE g == States!Taken(e)
  <2>2. /\ g \in States!Entry /\ g.key = k /\ g.ctx = FALSE /\ g.vps = NoVps
    BY <2>1, TableTypes DEF States!Taken, States!Entry, States!Data
  <2>3. entries' = (entries \ {e}) \union {g}
    BY <1>1, <2>1
  <2>4. req'[r].vps = e.vps /\ req'[r].got = (e.vps # NoVps)
    BY <1>5, <2>1
  <2>5. \A d \in entries \ {e} : d.key # k
    BY <2>1 DEF TableInv, KeysDrawn
  <2> HIDE DEF g, k
  <2>6. States!TypeOK'
    <3>1. entries' \subseteq States!Entry /\ now' = now
      BY <1>1, <2>2, <2>3, TableTypes
    <3>2. e.vps \in States!Data
      BY <2>1, TableTypes DEF States!Data
    <3>3. req' \in [Requests -> States!Request]
      BY <1>5, <2>4, <3>2
    <3> QED BY <3>1, <3>3 DEF TableInv, States!TypeOK
  <2>7. KeysDrawn'
    BY <1>1, <1>3, <1>4, <1>5, <1>6, <2>1, <2>2, <2>3, <2>5, TableTypes
       DEF TableInv, KeysDrawn
  <2>8. KeysUsed'
    BY <1>1, <1>3, <1>4, <1>5, <2>2, <2>3, <2>5, TableTypes DEF TableInv, KeysUsed, k
  <2>9. ListsOwned'
    BY <1>1, <1>4, <1>5, <2>1, <2>2, <2>3, <2>4, TableTypes DEF TableInv, ListsOwned
  <2>10. States!AnsweredOnce'
    <3>1. \A q \in Requests \ {r} :
            req'[q].got /\ req'[r].got => req'[q].in # req'[r].in
      <4>1. CASE e.vps = NoVps
        BY <2>4, <4>1
      <4>2. CASE e.vps # NoVps
        <5>1. \A q \in Requests : req[q].in # e.key
          BY <2>1, <4>2 DEF TableInv, KeysUsed
        <5> QED BY <1>5, <2>1, <5>1
      <4> QED BY <4>1, <4>2
    <3>2. \A q, s \in Requests \ {r} :
            q # s /\ req'[q].got /\ req'[s].got => req'[q].in # req'[s].in
      BY <1>5 DEF TableInv, States!AnsweredOnce
    <3> QED BY <3>1, <3>2 DEF States!AnsweredOnce
  <2>11. IsFiniteSet(entries)' /\ (Cardinality(entries) <= MaxEntries)'
    <3>1. IsFiniteSet(entries) /\ Cardinality(entries) \in Nat
          /\ Cardinality(entries) <= MaxEntries
      BY FS_CardinalityType DEF TableInv
    <3>2. /\ IsFiniteSet(entries \ {e})
          /\ Cardinality(entries \ {e}) = Cardinality(entries) - 1
      BY <2>1, <3>1, FS_RemoveElement
    <3>3. /\ IsFiniteSet(entries')
          /\ Cardinality(entries') <= Cardinality(entries \ {e}) + 1
      BY <2>3, <3>1, <3>2, FS_AddElement
    <3>4. Cardinality(entries') \in Nat
      BY <3>3, FS_CardinalityType
    <3> QED BY <3>1, <3>2, <3>3, <3>4, StateConstants
  <2> QED BY <2>6, <2>7, <2>8, <2>9, <2>10, <2>11 DEF TableInv
<1> QED BY <1>7, <1>8, FoundOnce

\* An answer that stores nothing: the request gives up its list, and the
\* entries that are left were there.
LEMMA AnswerKeeps ==
  ASSUME TableInv, NEW r \in Requests,
         req[r].pc = "run", req' \in [Requests -> States!Request],
         \A q \in Requests \ {r} : req'[q] = req[q],
         req'[r].in = req[r].in, req'[r].got = req[r].got, req'[r].vps = NoVps,
         \/ req'[r].out = States!NoKey
         \/ req'[r].out = Fresh(r) /\ req'[r].pc = "challenge",
         entries' \subseteq entries, now' = now
  PROVE  TableInv'
<1>1. req[r].out = States!NoKey /\ (States!NoKey)' = States!NoKey
  BY DEF TableInv, KeysDrawn, States!NoKey
<1>2. \A q \in Requests : req[q].pc = "challenge" => q # r
  OBVIOUS
<1>3. States!TypeOK'
  BY DEF TableInv, States!TypeOK
<1>4. KeysDrawn'
  BY <1>1, <1>2, TableTypes DEF TableInv, KeysDrawn
<1>5. KeysUsed'
  BY <1>1, <1>2, TableTypes DEF TableInv, KeysUsed
<1>6. ListsOwned'
  BY <1>1, <1>2, TableTypes DEF TableInv, ListsOwned
<1>7. States!AnsweredOnce'
  BY DEF TableInv, States!AnsweredOnce
<1>8. IsFiniteSet(entries)' /\ (Cardinality(entries) <= MaxEntries)'
  BY FewerEntries
<1> QED BY <1>3, <1>4, <1>5, <1>6, <1>7, <1>8 DEF TableInv

LEMMA PutNothingKeeps ==
  ASSUME TableInv, NEW r \in Requests, States!Put(r), States!PutNothing(r)
  PROVE  TableInv'
<1>1. /\ req[r].pc = "run" /\ entries' = entries /\ now' = now
      /\ req' = [req EXCEPT ![r] = [@ EXCEPT !.pc = "challenge", !.vps = NoVps,
                                             !.out = Fresh(r)]]
  BY DEF States!Put, States!PutNothing, Fresh
<1>2. /\ \A q \in Requests \ {r} : req'[q] = req[q]
      /\ req'[r].pc = "challenge" /\ req'[r].vps = NoVps /\ req'[r].out = Fresh(r)
      /\ req'[r].in = req[r].in /\ req'[r].got = req[r].got
  BY <1>1, TableTypes DEF States!Request
<1>3. req' \in [Requests -> States!Request]
  BY <1>1, FreshKey, TableTypes DEF States!Request, States!Data
<1> QED BY <1>1, <1>2, <1>3, AnswerKeeps

LEMMA DiscardKeeps ==
  ASSUME TableInv, NEW r \in Requests, States!Discard(r)
  PROVE  TableInv'
<1>1. /\ req[r].pc = "run" /\ entries' \subseteq entries /\ now' = now
      /\ req' = [req EXCEPT ![r] = [@ EXCEPT !.pc = "final", !.vps = NoVps]]
  BY DEF States!Discard
<1>2. /\ \A q \in Requests \ {r} : req'[q] = req[q]
      /\ req'[r].vps = NoVps /\ req'[r].out = req[r].out
      /\ req'[r].in = req[r].in /\ req'[r].got = req[r].got
  BY <1>1, TableTypes DEF States!Request
<1>3. req' \in [Requests -> States!Request]
  BY <1>1, TableTypes DEF States!Request, States!Data
<1>4. req[r].out = States!NoKey
  BY <1>1 DEF TableInv, KeysDrawn
<1> QED BY <1>1, <1>2, <1>3, <1>4, AnswerKeeps

\* fr_state_put_vps with attributes: the table is full, or the new entry is
\* stored under a State nobody has.
LEMMA PutVpsKeeps ==
  ASSUME TableInv, NEW r \in Requests, States!Put(r), States!PutVps(r)
  PROVE  TableInv'
<1> DEFINE table == States!Cleaned(entries)
           v == States!Kept(r)
           n == [key |-> Fresh(r), ctx |-> req[r].ctx, vps |-> v,
                 cleanup |-> now + Lifetime]
<1>1. req[r].pc = "run" /\ now' = now /\ table \subseteq entries
  BY DEF States!Put, States!Cleaned
<1>2. CASE States!Full(table)
  <2>1. /\ entries' = table
        /\ req' = [req EXCEPT ![r] = [@ EXCEPT !.pc = "challenge", !.vps = NoVps]]
    BY <1>2 DEF States!PutVps
  <2>2. /\ \A q \in Requests \ {r} : req'[q] = req[q]
        /\ req'[r].vps = NoVps /\ req'[r].out = req[r].out
        /\ req'[r].in = req[r].in /\ req'[r].got = req[r].got
    BY <2>1, TableTypes DEF States!Request
  <2>3. req' \in [Requests -> States!Request]
    BY <2>1, TableTypes DEF States!Request, States!Data
  <2>4. req[r].out = States!NoKey
    BY <1>1 DEF TableInv, KeysDrawn
  <2> QED BY <1>1, <2>1, <2>2, <2>3, <2>4, AnswerKeeps
<1>3. CASE ~States!Full(table)
  <2>1. States!Found(table, req[r].in) = {}
    BY OldGone
  <2>2. States!NewKey(r, {}) = Fresh(r)
    BY DEF States!NewKey, Fresh
  <2>3. /\ entries' = table \union {n}
        /\ req' = [req EXCEPT ![r] = [@ EXCEPT !.pc = "challenge", !.vps = NoVps,
                                               !.out = Fresh(r)]]
    BY <1>3, <2>1, <2>2 DEF States!PutVps
  <2> HIDE DEF table
  <2>4. /\ \A q \in Requests \ {r} : req'[q] = req[q]
        /\ req'[r].pc = "challenge" /\ req'[r].vps = NoVps /\ req'[r].out = Fresh(r)
        /\ req'[r].in = req[r].in /\ req'[r].got = req[r].got
    BY <2>3, TableTypes DEF States!Request
  <2>5. req' \in [Requests -> States!Request]
    BY <2>3, FreshKey, TableTypes DEF States!Request, States!Data
  <2>6. /\ n.key = Fresh(r) /\ n.key.root = r /\ n.vps = v
    BY DEF Fresh
  <2>7. /\ v \in Requests /\ v # NoVps
        /\ \A e \in entries : e.vps # v
        /\ \A q \in Requests \ {r} : req[q].vps # v
        /\ v = r \/ req[v].pc = "challenge"
    BY <1>1, TableTypes, StateConstants DEF TableInv, ListsOwned, States!Kept
  <2>8. n \in States!Entry
    <3>1. now + Lifetime \in 0..MaxNow + Lifetime
      BY StateConstants DEF TableInv, States!TypeOK
    <3>2. req[r].ctx \in BOOLEAN
      BY TableTypes DEF States!Request
    <3> QED BY <2>7, <3>1, <3>2, FreshKey DEF States!Entry, States!Data
  <2> HIDE DEF n, v
  <2>9. \A e \in entries : e.key # Fresh(r) /\ e.key.root # r
    BY <1>1, <2>6 DEF TableInv, KeysDrawn
  <2>10. req[r].out = States!NoKey /\ (States!NoKey)' = States!NoKey
    BY <1>1 DEF TableInv, KeysDrawn, States!NoKey
  <2>11. \A q \in Requests : req[q].in # Fresh(r)
    BY <2>6, <2>10, FreshKey DEF TableInv, KeysUsed
  <2>12. States!TypeOK'
    BY <1>1, <2>3, <2>5, <2>8, TableTypes DEF TableInv, States!TypeOK
  <2>13. KeysDrawn'
    BY <1>1, <2>3, <2>4, <2>6, <2>9, <2>10, TableTypes DEF TableInv, KeysDrawn
  <2>14. KeysUsed'
    BY <1>1, <2>3, <2>4, <2>6, <2>10, <2>11, TableTypes DEF TableInv, KeysUsed
  <2>15. ListsOwned'
    BY <1>1, <2>3, <2>4, <2>6, <2>7, TableTypes DEF TableInv, ListsOwned
  <2>16. States!AnsweredOnce'
    BY <2>4 DEF TableInv, States!AnsweredOnce
  <2>17. IsFiniteSet(entries)' /\ (Cardinality(entries) <= MaxEntries)'
    <3>1. IsFiniteSet(table) /\ Cardinality(table) \in Nat
      BY <1>1, FewerEntries
    <3>2. Cardinality(table) < MaxEntries
      BY <1>3, <3>1, SameCount, StateConstants DEF States!Full
    <3>3. /\ IsFiniteSet(entries') /\ Cardinality(entries') <= Cardinality(table) + 1
      BY <2>3, <3>1, FS_AddElement
    <3>4. Cardinality(entries') \in Nat
      BY <3>3, FS_CardinalityType
    <3> QED BY <3>1, <3>2, <3>3, <3>4, StateConstants
  <2> QED BY <2>12, <2>13, <2>14, <2>15, <2>16, <2>17 DEF TableInv
<1> QED BY <1>2, <1>3

LEMMA TickKeeps ==
  ASSUME TableInv, UNCHANGED <<req, entries>>, now' \in 0..MaxNow
  PROVE  TableInv'
<1>1. (States!NoKey)' = States!NoKey
  BY DEF States!NoKey
<1> QED BY <1>1 DEF TableInv, States!TypeOK, KeysDrawn, KeysUsed, ListsOwned,
           States!AnsweredOnce

LEMMA TableSteps == TableInv /\ [States!Next]_stateVars => TableInv'
<1> SUFFICES ASSUME TableInv, [States!Next]_stateVars PROVE TableInv'
  OBVIOUS
<1>1. CASE UNCHANGED stateVars
  BY <1>1, TickKeeps DEF stateVars, TableInv, States!TypeOK
<1>2. CASE States!Tick
  BY <1>2, TickKeeps, StateConstants DEF States!Tick, TableInv, States!TypeOK
<1>3. CASE \E r \in Requests : States!Begin(r) \/ States!Put(r) \/ States!Discard(r)
  BY <1>3, BeginKeeps, PutNothingKeeps, PutVpsKeeps, DiscardKeeps DEF States!Put
<1>4. CASE \E r, p \in Requests : States!Get(r, p)
  BY <1>4, GetKeeps
<1> QED BY <1>1, <1>2, <1>3, <1>4 DEF States!Next

LEMMA OwnedOnce == TableInv => StateOnce
<1> SUFFICES ASSUME TableInv PROVE StateOnce
  OBVIOUS
<1>1. \A S : (\A x, y \in S : x = y) =>
             Cardinality(S) \in Nat /\ Cardinality(S) <= 1 /\ (Cardinality(S) = 1 => S # {})
  <2> SUFFICES ASSUME NEW S, \A x, y \in S : x = y
               PROVE  Cardinality(S) \in Nat /\ Cardinality(S) <= 1
                      /\ (Cardinality(S) = 1 => S # {})
    OBVIOUS
  <2>1. CASE S = {}
    BY <2>1, FS_EmptySet
  <2>2. CASE S # {}
    <3>1. PICK x \in S : S = {x}
      BY <2>2
    <3>2. Cardinality(S) = 1
      BY <3>1, FS_Singleton
    <3> QED BY <2>2, <3>2
  <2> QED BY <2>1, <2>2
<1>2. States!OneOwner
  <2> SUFFICES ASSUME NEW c \in Requests
               PROVE  Cardinality({e \in entries : e.vps = c})
                        + Cardinality({r \in Requests : req[r].vps = c}) <= 1
    BY SameCount DEF States!OneOwner
  <2> DEFINE A == {e \in entries : e.vps = c}
             B == {r \in Requests : req[r].vps = c}
  <2>1. c # NoVps
    BY StateConstants
  <2>2. \A x, y \in A : x = y
    BY <2>1 DEF TableInv, ListsOwned
  <2>3. \A x, y \in B : x = y
    BY <2>1 DEF TableInv, ListsOwned
  <2>4. A = {} \/ B = {}
    BY <2>1 DEF TableInv, ListsOwned
  <2> HIDE DEF A, B
  <2>5. Cardinality({}) = 0
    BY FS_EmptySet
  <2>6. Cardinality(A) + Cardinality(B) <= 1
    BY <1>1, <2>2, <2>3, <2>4, <2>5
  <2> QED BY <2>6 DEF A, B
<1>3. States!Bounded
  BY SameCount DEF TableInv, States!Bounded
<1> QED BY <1>2, <1>3 DEF StateOnce, TableInv

\* The table of States, for any number of requests, any limit and any
\* lifetime, with clients that may answer one challenge any number of times:
\* a list of attributes has one owner, who answers again gets nothing, and
\* the table keeps its limit (fr_state_get_vps, fr_state_put_vps and
\* fr_state_discard).
THEOREM StateIsOnce == States!Spec => []StateOnce
<1>1. States!Spec => []TableInv
  BY TableBegin, TableSteps, PTL DEF States!Spec, States!vars, stateVars
<1> QED BY <1>1, OwnedOnce, PTL

-----------------------------------------------------------------------------
(* What the table keeps.  As long as no challenge was answered twice, an     *)
(* entry that is marked as used has no attributes, and no request is marked. *)

Marked ==
  States!AnswersOnce =>
    /\ \A e \in entries : e.vps # NoVps => e.ctx
    /\ \A e \in entries : ~e.ctx => \E o \in Requests : req[o].in = e.key
    /\ \A r \in Requests : req[r].pc = "run" => req[r].ctx

NewWithoutState == \A r \in Requests : req[r].pc = "new" => req[r].in = States!NoKey /\ req[r].ctx

KeptInv == TableInv /\ Marked /\ NewWithoutState

\* What a step may not do to the table.
KeptStep ==
  States!AnswersOnce =>
    \A e \in entries :
      /\ e.vps # NoVps
      /\ e.cleanup > now
      /\ \A r \in Requests : req'[r] # req[r] => req'[r].in # e.key
      => e \in entries'

LEMMA KeptBegin == States!Init => Marked /\ NewWithoutState
BY DEF States!Init, Marked, NewWithoutState

\* A request that goes on with the State it has.
LEMMA GoesOn ==
  ASSUME KeptInv, NEW r \in Requests, req[r].pc \in {"new", "run"},
         \A q \in Requests \ {r} : req'[q] = req[q],
         req'[r].in = req[r].in, req'[r].ctx = req[r].ctx, req'[r].pc # "new"
  PROVE  /\ States!AnswersOnce' => States!AnswersOnce
         /\ NewWithoutState'
         /\ States!AnswersOnce' => \A q \in Requests : req'[q].pc = "run" => req'[q].ctx
         /\ \A k : (\E o \in Requests : req[o].in = k) => \E o \in Requests : req'[o].in = k
<1>1. \A q \in Requests : req'[q].in = req[q].in /\ req'[q].ctx = req[q].ctx
  OBVIOUS
<1>2. States!AnswersOnce' => States!AnswersOnce
  BY <1>1 DEF States!AnswersOnce, States!NoKey
<1>3. NewWithoutState'
  BY <1>1 DEF KeptInv, NewWithoutState, States!NoKey
<1>4. States!AnswersOnce' => \A q \in Requests : req'[q].pc = "run" => req'[q].ctx
  BY <1>1, <1>2 DEF KeptInv, Marked, NewWithoutState
<1> QED BY <1>1, <1>2, <1>3, <1>4

\* Begin, an answer without attributes, and the end of a conversation leave every
\* entry that has attributes, for those under the request's own State have none.
LEMMA EntriesLeft ==
  ASSUME KeptInv, NEW r \in Requests, req[r].pc \in {"new", "run"},
         \A q \in Requests \ {r} : req'[q] = req[q],
         req'[r].in = req[r].in, req'[r].ctx = req[r].ctx, req'[r].pc # "new",
         entries' \subseteq entries, \A e \in entries : e.key # req[r].in => e \in entries'
  PROVE  Marked' /\ NewWithoutState' /\ KeptStep
<1>1. Marked'
  BY GoesOn DEF KeptInv, Marked
<1>2. KeptStep
  BY DEF KeptStep, KeptInv, TableInv, KeysUsed
<1> QED BY <1>1, <1>2, GoesOn

LEMMA GetMarks ==
  ASSUME KeptInv, NEW r \in Requests, NEW p \in Requests, States!Get(r, p)
  PROVE  Marked' /\ NewWithoutState' /\ KeptStep
<1> DEFINE k == req[p].out
           f == States!Found(entries, k)
<1>1. /\ req[r].pc = "new" /\ k # States!NoKey
      /\ entries' = (entries \ f) \union {States!Taken(e) : e \in f}
      /\ req' = [req EXCEPT ![r] =
               [@ EXCEPT !.pc = "run", !.in = k,
                         !.ctx = \A e \in f : e.ctx,
                         !.got = \E e \in f : e.vps # NoVps,
                         !.vps = IF f = {} THEN NoVps
                                           ELSE (CHOOSE e \in f : TRUE).vps]]
  BY DEF States!Get
<1>2. /\ \A q \in Requests \ {r} : req'[q] = req[q]
      /\ req'[r].pc = "run" /\ req'[r].in = k /\ (req'[r].ctx <=> \A e \in f : e.ctx)
      /\ req[r].in = States!NoKey
  BY <1>1, TableTypes DEF States!Request, KeptInv, NewWithoutState
<1>3. \A e \in f : States!Taken(e).key = k /\ ~States!Taken(e).ctx /\ States!Taken(e).vps = NoVps
  BY TableTypes DEF KeptInv, States!Taken, States!Found, States!Entry
<1>4. \A e \in entries : e \in f <=> e.key = k
  BY DEF States!Found
<1> HIDE DEF f, k
<1>5. ASSUME States!AnswersOnce'
      PROVE  /\ States!AnswersOnce
             /\ \A e \in f : e.ctx
  <2>1. \A o \in Requests : req[o].in # k
    BY <1>1, <1>2, <1>5 DEF States!AnswersOnce, States!NoKey
  <2>2. States!AnswersOnce
    BY <1>1, <1>2, <1>5, <2>1 DEF States!AnswersOnce, States!NoKey
  <2>. HIDE DEF States!AnswersOnce
  <2>3. f \subseteq entries
    BY DEF f, States!Found
  <2>. QED BY <1>4, <2>1, <2>2, <2>3 DEF KeptInv, Marked
<1>6. NewWithoutState'
  BY <1>2 DEF KeptInv, NewWithoutState, States!NoKey
<1>7. Marked'
  <2> SUFFICES ASSUME States!AnswersOnce'
               PROVE  /\ \A e \in entries' : e.vps # NoVps => e.ctx
                      /\ \A e \in entries' : ~e.ctx => \E o \in Requests : req'[o].in = e.key
                      /\ \A q \in Requests : req'[q].pc = "run" => req'[q].ctx
    BY DEF Marked
  <2>1. States!AnswersOnce /\ \A e \in f : e.ctx
    BY <1>5
  <2>2. \A e \in entries' : e.vps # NoVps => e.ctx
    BY <1>1, <1>3, <2>1 DEF KeptInv, Marked
  <2>3. ASSUME NEW e \in entries', ~e.ctx
        PROVE  \E o \in Requests : req'[o].in = e.key
    <3>1. CASE e \in entries \ f
      <4>1. PICK o \in Requests : req[o].in = e.key
        BY <2>1, <2>3, <3>1 DEF KeptInv, Marked
      <4>2. e.key # States!NoKey
        <5>1. e.key \in States!Keys
          BY <3>1, TableTypes DEF KeptInv
        <5>. QED BY <5>1, StateConstants DEF States!Keys, States!NoKey
      <4>3. o # r
        BY <1>2, <4>1, <4>2
      <4>. QED BY <1>2, <4>1, <4>3
    <3>2. CASE e \in {States!Taken(x) : x \in f}
      BY <1>2, <1>3, <3>2
    <3>. QED BY <1>1, <3>1, <3>2
  <2>4. \A q \in Requests : req'[q].pc = "run" => req'[q].ctx
    BY <1>2, <2>1 DEF KeptInv, Marked
  <2> QED BY <2>2, <2>3, <2>4
<1>8. KeptStep
  <2> SUFFICES ASSUME NEW e \in entries, req'[r] # req[r] => req'[r].in # e.key
               PROVE  e \in entries'
    BY DEF KeptStep
  <2>1. req'[r] # req[r]
    BY <1>1, <1>2
  <2> QED BY <1>1, <1>2, <1>4, <2>1
<1> QED BY <1>6, <1>7, <1>8

\* fr_state_put_vps deletes what is marked or has had its time, and adds an entry
\* that is not marked.
LEMMA PutVpsMarks ==
  ASSUME KeptInv, NEW r \in Requests, States!Put(r), States!PutVps(r)
  PROVE  Marked' /\ NewWithoutState' /\ KeptStep
<1> DEFINE table == States!Cleaned(entries)
           n == [key |-> Fresh(r), ctx |-> req[r].ctx, vps |-> States!Kept(r),
                 cleanup |-> now + Lifetime]
<1>1. req[r].pc = "run" /\ table = {e \in entries : e.ctx /\ e.cleanup > now}
  BY DEF States!Put, States!Cleaned
<1>2. States!Found(table, req[r].in) = {} /\ States!NewKey(r, {}) = Fresh(r)
  BY OldGone DEF KeptInv, States!NewKey, Fresh
<1>3. \/ /\ entries' = table
         /\ req' = [req EXCEPT ![r] = [@ EXCEPT !.pc = "challenge", !.vps = NoVps]]
      \/ /\ entries' = table \union {n}
         /\ req' = [req EXCEPT ![r] = [@ EXCEPT !.pc = "challenge", !.vps = NoVps,
                                                !.out = Fresh(r)]]
  BY <1>2 DEF States!PutVps
<1>4. n.ctx = req[r].ctx
  OBVIOUS
<1> HIDE DEF table, n
<1>5. /\ \A q \in Requests \ {r} : req'[q] = req[q]
      /\ req'[r].pc = "challenge" /\ req'[r].in = req[r].in /\ req'[r].ctx = req[r].ctx
  <2>1. req \in [Requests -> States!Request]
    BY TableTypes DEF KeptInv
  <2>2. CASE req' = [req EXCEPT ![r] = [@ EXCEPT !.pc = "challenge", !.vps = NoVps]]
    BY <2>1, <2>2 DEF States!Request
  <2>3. CASE req' = [req EXCEPT ![r] = [@ EXCEPT !.pc = "challenge", !.vps = NoVps,
                                                 !.out = Fresh(r)]]
    <3> DEFINE k == Fresh(r)
    <3> HIDE DEF k
    <3>1. req' = [req EXCEPT ![r] = [@ EXCEPT !.pc = "challenge", !.vps = NoVps, !.out = k]]
      BY <2>3 DEF k
    <3> QED BY <2>1, <3>1 DEF States!Request
  <2> QED BY <1>3, <2>2, <2>3
<1>6. /\ States!AnswersOnce' => States!AnswersOnce
      /\ NewWithoutState'
      /\ States!AnswersOnce' => \A q \in Requests : req'[q].pc = "run" => req'[q].ctx
  BY <1>1, <1>5, GoesOn
<1>7. States!AnswersOnce' => \A e \in entries' : e.ctx
  BY <1>1, <1>3, <1>4, <1>6 DEF KeptInv, Marked
<1>8. KeptStep
  BY <1>1, <1>3 DEF KeptStep, KeptInv, Marked
<1> QED BY <1>6, <1>7, <1>8 DEF Marked

LEMMA KeptSteps == KeptInv /\ [States!Next]_stateVars => Marked' /\ NewWithoutState' /\ (UNCHANGED stateVars \/ KeptStep)
<1> SUFFICES ASSUME KeptInv, [States!Next]_stateVars
             PROVE  Marked' /\ NewWithoutState' /\ (UNCHANGED stateVars \/ KeptStep)
  OBVIOUS
<1>1. CASE UNCHANGED stateVars
  BY <1>1 DEF stateVars, KeptInv, Marked, NewWithoutState, States!AnswersOnce, States!NoKey
<1>2. CASE States!Tick
  BY <1>2 DEF States!Tick, KeptInv, Marked, NewWithoutState, States!AnswersOnce, States!NoKey, KeptStep
<1>3. ASSUME NEW r \in Requests, States!Begin(r)
      PROVE  Marked' /\ NewWithoutState' /\ KeptStep
  <2>1. req[r].pc = "new" /\ entries' = entries /\ req' = [req EXCEPT ![r].pc = "run"]
    BY <1>3 DEF States!Begin
  <2>2. /\ \A q \in Requests \ {r} : req'[q] = req[q]
        /\ req'[r].pc = "run" /\ req'[r].in = req[r].in /\ req'[r].ctx = req[r].ctx
    BY <2>1, TableTypes DEF States!Request, KeptInv
  <2> QED BY <2>1, <2>2, EntriesLeft
<1>4. ASSUME NEW r \in Requests, States!Put(r), States!PutNothing(r)
      PROVE  Marked' /\ NewWithoutState' /\ KeptStep
  <2>1. /\ req[r].pc = "run" /\ entries' = entries
        /\ req' = [req EXCEPT ![r] = [@ EXCEPT !.pc = "challenge", !.vps = NoVps,
                                               !.out = Fresh(r)]]
    BY <1>4 DEF States!Put, States!PutNothing, Fresh
  <2>2. /\ \A q \in Requests \ {r} : req'[q] = req[q]
        /\ req'[r].pc = "challenge" /\ req'[r].in = req[r].in /\ req'[r].ctx = req[r].ctx
    BY <2>1, TableTypes DEF States!Request, KeptInv
  <2> QED BY <2>1, <2>2, EntriesLeft
<1>5. ASSUME NEW r \in Requests, States!Discard(r)
      PROVE  Marked' /\ NewWithoutState' /\ KeptStep
  <2>1. /\ req[r].pc = "run" /\ entries' = entries \ States!Found(entries, req[r].in)
        /\ req' = [req EXCEPT ![r] = [@ EXCEPT !.pc = "final", !.vps = NoVps]]
    BY <1>5 DEF States!Discard
  <2>2. /\ \A q \in Requests \ {r} : req'[q] = req[q]
        /\ req'[r].pc = "final" /\ req'[r].in = req[r].in /\ req'[r].ctx = req[r].ctx
    BY <2>1, TableTypes DEF States!Request, KeptInv
  <2>3. entries' \subseteq entries /\ \A e \in entries : e.key # req[r].in => e \in entries'
    BY <2>1 DEF States!Found
  <2> QED BY <2>1, <2>2, <2>3, EntriesLeft
<1> QED BY <1>1, <1>2, <1>3, <1>4, <1>5, GetMarks, PutVpsMarks DEF States!Next, States!Put

\* The table of States keeps what a conversation left in it until its cleanup
\* time, for any number of requests, any limit and any lifetime, whatever
\* fr_state_get_vps, fr_state_put_vps, fr_state_cleanup_find and fr_state_discard
\* do for other conversations, as long as no challenge has been answered twice.
THEOREM StateIsKept == States!Spec => StateKept
<1>1. States!Spec => []TableInv
  BY TableBegin, TableSteps, PTL DEF States!Spec, States!vars, stateVars
<1>2. TableInv /\ Marked /\ NewWithoutState /\ [States!Next]_(States!vars) => Marked' /\ NewWithoutState'
  BY KeptSteps DEF States!vars, stateVars, KeptInv
<1>3. States!Spec => []KeptInv
  BY <1>1, <1>2, KeptBegin, PTL DEF States!Spec, KeptInv
<1>4. KeptInv /\ [States!Next]_(States!vars) => [KeptStep]_(States!vars)
  BY KeptSteps DEF States!vars, stateVars
<1> QED BY <1>3, <1>4, PTL DEF States!Spec, StateKept, States!KeptUntilCleanup, KeptStep
=============================================================================
