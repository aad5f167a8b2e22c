---------------------------- MODULE PeersProofs -----------------------------
(***************************************************************************)
(* Proofs about what radiusd keeps about its peers.                        *)
(*                                                                         *)
(* A home server, for any number of requests and status checks and any     *)
(* limits: the count of outstanding requests never exceeds what is in the  *)
(* proxy hash, and, while neither identifiers run out nor radmin sets the  *)
(* state, a zombie or dead server has a timer and a live one has none.     *)
(* Without either condition TLC finds a counterexample (README,            *)
(* Deviations).                                                            *)
(*                                                                         *)
(* The pool of connections to a back end, for any threads and any limits   *)
(* fr_connection_pool_init accepts: who holds a connection, the lists and  *)
(* the counts agree.                                                       *)
(***************************************************************************)
EXTENDS HomeServer, Connections, FiniteSetTheorems, SequenceTheorems, TLAPS

States == {"unknown", "alive", "zombie", "dead", "conn_fail", "down"}

\* The home server without the bound on its count.
HomeT == [state : States, count : Nat, ev : {"none", "ping", "revive"},
          received : 0..PingsToAlive, timeouts : 0..MaxTimeouts,
          quiet : SUBSET Intervals, streak : 0..PingsToAlive]

Checks == [Pings -> BOOLEAN]

Loose ==
  /\ home \in HomeT
  /\ ping \in Checks
  /\ req \in [Requests -> Request]
  /\ up \in BOOLEAN

\* A request is not in the hash before it is inserted, and is there while it
\* waits for the reply.
FlagOK(q) ==
  /\ q.at \in {"idle", "chosen"} => ~q.hash
  /\ q.at = "waiting" => q.hash

HashOK == \A r \in Requests : FlagOK(req[r])

CountInv == Loose /\ HashOK /\ NeverOvercounted

(***************************************************************************)
(* Sets that differ in one element at most.                                *)
(***************************************************************************)

\* What entering or leaving the hash does to the number of its members.
LEMMA OneElement ==
  ASSUME NEW D, IsFiniteSet(D), NEW S \in SUBSET D, NEW T \in SUBSET D,
         NEW x \in D, \A d \in D : d # x => (d \in S <=> d \in T)
  PROVE  /\ Cardinality(S) \in Nat /\ Cardinality(T) \in Nat
         /\ (x \in S <=> x \in T) => Cardinality(T) = Cardinality(S)
         /\ x \notin S /\ x \in T => Cardinality(T) = Cardinality(S) + 1
         /\ x \in S /\ x \notin T => Cardinality(S) = Cardinality(T) + 1
<1>1. IsFiniteSet(S) /\ IsFiniteSet(T)
  BY FS_Subset
<1>2. Cardinality(S) \in Nat /\ Cardinality(T) \in Nat
  BY <1>1, FS_CardinalityType
<1>3. ASSUME x \in S <=> x \in T PROVE Cardinality(T) = Cardinality(S)
  <2>1. S = T
    BY <1>3
  <2> QED BY <2>1
<1>4. ASSUME x \notin S, x \in T PROVE Cardinality(T) = Cardinality(S) + 1
  <2>1. T = S \cup {x}
    BY <1>4
  <2> QED BY <2>1, <1>1, <1>4, FS_AddElement
<1>5. ASSUME x \in S, x \notin T PROVE Cardinality(S) = Cardinality(T) + 1
  <2>1. S = T \cup {x}
    BY <1>5
  <2> QED BY <2>1, <1>1, <1>5, FS_AddElement
<1> QED BY <1>2, <1>3, <1>4, <1>5

(***************************************************************************)
(* The functions of process.c.                                             *)
(***************************************************************************)

\* remove_from_proxy_hash_nl takes one from the count if there is one to take.
LEMMA RemovedFacts ==
  ASSUME NEW h \in HomeT
  PROVE  /\ Removed(h) \in HomeT
         /\ Removed(h).count = IF h.count = 0 THEN 0 ELSE h.count - 1
         /\ Removed(h).ev = h.ev
         /\ Removed(h).state = h.state \/ (h.state = "alive" /\ Removed(h).state = "unknown")
<1>1. CASE h.count = 0
  BY <1>1 DEF Removed, HomeT
<1>2. CASE h.count # 0
  <2> DEFINE g == [h EXCEPT !.count = @ - 1]
  <2>1. g \in HomeT /\ g.count = h.count - 1 /\ g.ev = h.ev /\ g.state = h.state
    BY <1>2 DEF HomeT
  <2>2. Removed(h) = g \/ (/\ g.state = "alive"
                           /\ Removed(h) = [g EXCEPT !.state = "unknown", !.quiet = Intervals])
    BY <1>2 DEF Removed
  <2> HIDE DEF g
  <2> QED BY <1>2, <2>1, <2>2 DEF HomeT, States, Intervals
<1> QED BY <1>1, <1>2

\* Reviving or marking alive forgets the count and the timer.
LEMMA AliveFacts ==
  ASSUME NEW h \in HomeT
  PROVE  /\ Alive(h) \in HomeT /\ Revived(h) \in HomeT
         /\ Alive(h).count = 0 /\ Revived(h).count = 0
         /\ Alive(h).ev = "none" /\ Revived(h).ev = "none"
         /\ Alive(h).state = "alive" /\ Revived(h).state = "alive"
<1>1. PingsToAlive \in Nat \ {0} /\ MaxTimeouts \in Nat \ {0}
  BY HomeAssumption
<1> DEFINE f == [h EXCEPT !.state = "alive", !.count = 0, !.ev = "none"]
           g == [f EXCEPT !.timeouts = 0]
<1>a. f \in HomeT
  BY DEF HomeT, States
<1> HIDE DEF f
<1>c. 0 \in 0..PingsToAlive /\ 0 \in 0..MaxTimeouts
  BY <1>1
<1>d. g \in HomeT
  BY <1>c, <1>a DEF HomeT
<1> HIDE DEF g
<1>b. g \in HomeT /\ [g EXCEPT !.received = 0] \in HomeT
  BY <1>c, <1>d DEF HomeT
<1> USE DEF f, g
<1>2. Alive(h) \in HomeT
  <2>1. Alive(h) = [g EXCEPT !.received = 0]
    BY DEF Alive, HomeT
  <2> QED BY <2>1, <1>b
<1>3. Revived(h) \in HomeT
  <2>1. Revived(h) = g
    BY DEF Revived, HomeT
  <2> QED BY <2>1, <1>b
<1> QED BY <1>2, <1>3 DEF Alive, Revived, HomeT

\* Marking dead leaves the count alone.
LEMMA DeadFacts ==
  ASSUME NEW h \in HomeT
  PROVE  /\ Dead(h) \in HomeT /\ Dead(h).count = h.count
         /\ Dead(h).state = "dead"
         /\ Dead(h).ev = IF PingCheck # "none" /\ h.state # "conn_fail" THEN h.ev ELSE "revive"
BY DEF Dead, HomeT, States

\* A connection that failed makes the server dead, with a timer to revive it.
LEMMA FailedFacts ==
  ASSUME NEW h \in HomeT
  PROVE  /\ Failed(h) \in HomeT /\ Failed(h).count = h.count
         /\ h.state # "conn_fail" => Failed(h) = h
         /\ h.state = "conn_fail" => Failed(h).state = "dead" /\ Failed(h).ev = "revive"
BY DeadFacts DEF Failed

\* A status check is sent or not: the count goes up with the checks in the hash.
Counted(h, ps, w) ==
  /\ w \in HomeT \X Checks
  /\ \/ w[2] = ps /\ w[1].count = h.count
     \/ \E p \in Pings : /\ ~ps[p] /\ w[2] = [ps EXCEPT ![p] = TRUE]
                         /\ w[1].count = h.count + 1

\* The timer of a server fits its state.  Without status checks the end of the
\* zombie period is no timer for a dead server: nothing would follow it.
TimerFits(h) ==
  /\ h.state \in {"zombie", "dead"} => h.ev # "none"
  /\ h.state \in {"alive", "unknown"} => h.ev = "none"
  /\ PingCheck = "none" /\ h.state = "dead" => h.ev = "revive"

\* ping_home_server, past its guards: it sends a check and sets the timer, or fails.
LEMMA CheckFacts ==
  ASSUME NEW h \in HomeT, NEW ps \in Checks, NEW w \in Check(h, ps)
  PROVE  /\ Counted(h, ps, w)
         /\ ~NoIds /\ PingCheck # "none" /\ h.state \notin {"alive", "unknown"}
            => TimerFits(w[1])
<1>1. \/ \E p \in Pings : ~ps[p] /\ w = <<[h EXCEPT !.count = @ + 1, !.ev = "ping"],
                                           [ps EXCEPT ![p] = TRUE]>>
      \/ NoIds /\ w = <<h, ps>>
      \/ w = <<[h EXCEPT !.state = "conn_fail"], ps>>
  BY DEF Check
<1>2. ASSUME NEW p \in Pings, ~ps[p],
             w = <<[h EXCEPT !.count = @ + 1, !.ev = "ping"], [ps EXCEPT ![p] = TRUE]>>
      PROVE  /\ Counted(h, ps, w)
             /\ PingCheck # "none" /\ h.state \notin {"alive", "unknown"}
                => TimerFits(w[1])
  <2>0. h.count + 1 \in Nat
    BY DEF HomeT
  <2>1. w[1] \in HomeT /\ w[1].count = h.count + 1 /\ w[1].ev = "ping"
        /\ w[1].state = h.state
    BY <1>2, <2>0 DEF HomeT
  <2>2. w[2] \in Checks /\ w[2] = [ps EXCEPT ![p] = TRUE] /\ w = <<w[1], w[2]>>
    BY <1>2 DEF Checks
  <2> QED BY <1>2, <2>1, <2>2 DEF Counted, TimerFits
<1>3. ASSUME w = <<h, ps>> PROVE Counted(h, ps, w)
  BY <1>3 DEF Counted
<1>4. ASSUME w = <<[h EXCEPT !.state = "conn_fail"], ps>>
      PROVE  Counted(h, ps, w) /\ TimerFits(w[1])
  <2>1. w[1] \in HomeT /\ w[1].count = h.count /\ w[1].state = "conn_fail"
    BY <1>4 DEF HomeT, States
  <2>2. w[2] = ps /\ w = <<w[1], w[2]>>
    BY <1>4
  <2> QED BY <2>1, <2>2 DEF Counted, TimerFits
<1> QED BY <1>1, <1>2, <1>3, <1>4

\* ping_home_server leaves a zombie or dead server with a timer.
LEMMA PingHomeFacts ==
  ASSUME NEW h \in HomeT, NEW ps \in Checks, NEW over \in BOOLEAN,
         NEW w \in PingHome(h, ps, over)
  PROVE  /\ Counted(h, ps, w)
         /\ ~NoIds /\ h.ev = "none" /\ h.state \notin {"alive", "unknown"}
              /\ (PingCheck = "none" => h.state # "dead")
            => TimerFits(w[1])
<1> DEFINE g == IF h.state = "zombie" /\ over THEN Dead(h) ELSE h
<1>1. /\ g \in HomeT /\ g.count = h.count
      /\ h.state = "zombie" /\ over => g.state = "dead"
                              /\ (PingCheck = "none" => g.ev = "revive")
      /\ ~(h.state = "zombie" /\ over) => g = h
  BY DeadFacts
<1>2. \/ (h.state = "alive" \/ h.ev # "none") /\ w = <<h, ps>>
      \/ PingCheck # "none" /\ w \in Check(g, ps)
      \/ PingCheck = "none" /\ w = <<IF g.state = "zombie" THEN [g EXCEPT !.ev = "ping"] ELSE g, ps>>
  BY DEF PingHome
<1> HIDE DEF g
<1>3. CASE (h.state = "alive" \/ h.ev # "none") /\ w = <<h, ps>>
  BY <1>3 DEF Counted
<1>4. CASE PingCheck # "none" /\ w \in Check(g, ps)
  <2>1. Counted(g, ps, w)
        /\ (~NoIds /\ g.state \notin {"alive", "unknown"} => TimerFits(w[1]))
    BY <1>1, <1>4, CheckFacts
  <2>2. Counted(h, ps, w)
    BY <1>1, <2>1 DEF Counted
  <2>3. h.state \notin {"alive", "unknown"} => g.state \notin {"alive", "unknown"}
    BY <1>1
  <2> QED BY <2>1, <2>2, <2>3
<1>5. CASE PingCheck = "none" /\ w = <<IF g.state = "zombie" THEN [g EXCEPT !.ev = "ping"] ELSE g, ps>>
  <2>1. w[1] \in HomeT /\ w[1].count = g.count /\ w[1].state = g.state
        /\ w[1].ev = IF g.state = "zombie" THEN "ping" ELSE g.ev
    BY <1>1, <1>5 DEF HomeT
  <2>2. w[2] = ps /\ w = <<w[1], w[2]>>
    BY <1>5
  <2>3. Counted(h, ps, w)
    BY <1>1, <2>1, <2>2 DEF Counted
  <2>4. ASSUME h.ev = "none", h.state \notin {"alive", "unknown"}, h.state # "dead"
        PROVE TimerFits(w[1])
    BY <1>1, <1>5, <2>1, <2>4 DEF TimerFits
  <2> QED BY <1>5, <2>3, <2>4
<1> QED BY <1>2, <1>3, <1>4, <1>5

\* mark_home_server_dead counts the check it sends.
LEMMA MarkDeadFacts ==
  ASSUME NEW h \in HomeT, NEW ps \in Checks, NEW w \in MarkDead(h, ps)
  PROVE  Counted(h, ps, w)
<1>1. CASE PingCheck # "none" /\ h.state = "alive"
  <2> DEFINE g == [h EXCEPT !.state = "dead"]
  <2>1. g \in HomeT /\ g.count = h.count
    BY DEF HomeT, States
  <2>2. w \in PingHome(g, ps, FALSE)
    BY <1>1 DEF MarkDead
  <2> HIDE DEF g
  <2>3. Counted(g, ps, w)
    BY <2>1, <2>2, PingHomeFacts
  <2> QED BY <2>1, <2>3 DEF Counted
<1>2. CASE ~(PingCheck # "none" /\ h.state = "alive")
  <2>1. w = <<Dead(h), ps>>
    BY <1>2 DEF MarkDead
  <2> QED BY <2>1, DeadFacts DEF Counted
<1> QED BY <1>1, <1>2

\* A response that did not come leaves the timer fitting the state.
LEMMA TimedOutFacts ==
  ASSUME NEW h \in HomeT, NEW ps \in Checks, NEW w \in TimedOut(h, ps)
  PROVE  /\ Counted(h, ps, w)
         /\ ~NoIds /\ TimerFits(h) => TimerFits(w[1])
<1> DEFINE g == Failed(h)
           t == [g EXCEPT !.timeouts = Upto(@, MaxTimeouts)]
           z == [t EXCEPT !.state = "zombie", !.ev = "none", !.received = 0]
<1>0. PingsToAlive \in Nat \ {0} /\ MaxTimeouts \in Nat \ {0}
  BY HomeAssumption
<1>1. /\ g \in HomeT /\ g.count = h.count
      /\ TimerFits(h) => TimerFits(g)
  BY FailedFacts DEF TimerFits
<1>2. t \in HomeT /\ t.count = g.count /\ t.state = g.state /\ t.ev = g.ev
  BY <1>0, <1>1 DEF HomeT, Upto
<1>a. 0 \in 0..PingsToAlive
  BY <1>0
<1> HIDE DEF g, t
<1>3. z \in HomeT /\ z.count = g.count /\ z.state = "zombie" /\ z.ev = "none"
  BY <1>a, <1>2 DEF HomeT, States
<1> USE DEF g, t
<1>4. w = <<g, ps>> \/ w = <<t, ps>> \/ w \in PingHome(z, ps, FALSE)
  BY DEF TimedOut, MarkZombie
<1> HIDE DEF g, t, z
<1>5. CASE w = <<g, ps>>
  BY <1>1, <1>5 DEF Counted
<1>6. CASE w = <<t, ps>>
  BY <1>1, <1>2, <1>6 DEF Counted, TimerFits
<1>7. CASE w \in PingHome(z, ps, FALSE)
  <2>1. Counted(z, ps, w) /\ (~NoIds => TimerFits(w[1]))
    BY <1>3, <1>7, PingHomeFacts
  <2> QED BY <1>1, <1>3, <2>1 DEF Counted
<1> QED BY <1>4, <1>5, <1>6, <1>7

\* An answered check takes one from the count, or the server is alive and the
\* count forgotten.
LEMMA AnsweredFacts ==
  ASSUME NEW h \in HomeT
  PROVE  /\ Answered(h) \in HomeT
         /\ Answered(h).count = 0 \/ Answered(h).count = h.count - 1
         /\ TimerFits(h) => TimerFits(Answered(h))
<1> DEFINE f == [h EXCEPT !.received = Upto(@, PingsToAlive),
                          !.streak = Upto(@, PingsToAlive)]
           g == Removed(f)
<1>0. PingsToAlive \in Nat \ {0}
  BY HomeAssumption
<1>a. \A n \in 0..PingsToAlive : Upto(n, PingsToAlive) \in 0..PingsToAlive
  BY <1>0 DEF Upto
<1>1. f \in HomeT /\ f.count = h.count /\ f.state = h.state /\ f.ev = h.ev
  BY <1>a DEF HomeT
<1>2. Answered(h) = g \/ Answered(h) = Alive(g)
  BY DEF Answered
<1> HIDE DEF f
<1>3. /\ g \in HomeT /\ g.ev = f.ev
      /\ g.count = IF f.count = 0 THEN 0 ELSE f.count - 1
      /\ g.state = f.state \/ (f.state = "alive" /\ g.state = "unknown")
  BY <1>1, RemovedFacts
<1> HIDE DEF g
<1>4. CASE Answered(h) = g
  BY <1>1, <1>3, <1>4 DEF TimerFits
<1>5. CASE Answered(h) = Alive(g)
  BY <1>3, <1>5, AliveFacts DEF TimerFits
<1> QED BY <1>2, <1>4, <1>5

(***************************************************************************)
(* Steps of the requests and of the checks.                                *)
(***************************************************************************)

\* What the step of one request does to the hash.
LEMMA ReqStep ==
  ASSUME Loose, HashOK, NEW r \in Requests, NEW x \in Request,
         req' = [req EXCEPT ![r] = x], FlagOK(x)
  PROVE  /\ req' \in [Requests -> Request]
         /\ HashOK'
         /\ Cardinality(InHash) \in Nat /\ Cardinality(InHash') \in Nat
         /\ req[r].hash = x.hash => Cardinality(InHash') = Cardinality(InHash)
         /\ ~req[r].hash /\ x.hash => Cardinality(InHash') = Cardinality(InHash) + 1
         /\ req[r].hash /\ ~x.hash => Cardinality(InHash) = Cardinality(InHash') + 1
<1>1. req' \in [Requests -> Request] /\ req'[r] = x
      /\ \A s \in Requests : s # r => req'[s] = req[s]
  BY DEF Loose
<1>2. HashOK'
  BY <1>1 DEF HashOK
<1>3. InHash \in SUBSET Requests /\ InHash' \in SUBSET Requests
  BY DEF InHash
<1>4. \A s \in Requests : s # r => (s \in InHash <=> s \in InHash')
  BY <1>1 DEF InHash
<1>5. (r \in InHash <=> req[r].hash) /\ (r \in InHash' <=> x.hash)
  BY <1>1 DEF InHash
<1>6. IsFiniteSet(Requests)
  BY HomeAssumption
<1>7. req[r].hash \in BOOLEAN /\ x.hash \in BOOLEAN
  BY DEF Loose, Request
<1> QED BY <1>1, <1>2, <1>3, <1>4, <1>5, <1>6, <1>7, OneElement

\* What the step of one check does to the hash.
LEMMA PingStep ==
  ASSUME Loose, NEW p \in Pings, NEW b \in BOOLEAN, ping' = [ping EXCEPT ![p] = b]
  PROVE  /\ ping' \in Checks
         /\ Cardinality(Sent) \in Nat /\ Cardinality(Sent') \in Nat
         /\ ~ping[p] /\ b => Cardinality(Sent') = Cardinality(Sent) + 1
         /\ ping[p] /\ ~b => Cardinality(Sent) = Cardinality(Sent') + 1
<1>1. ping' \in Checks /\ ping'[p] = b /\ \A q \in Pings : q # p => ping'[q] = ping[q]
  BY DEF Loose, Checks
<1>2. Sent \in SUBSET Pings /\ Sent' \in SUBSET Pings
  BY DEF Sent
<1>3. \A q \in Pings : q # p => (q \in Sent <=> q \in Sent')
  BY <1>1 DEF Sent
<1>4. (p \in Sent <=> ping[p]) /\ (p \in Sent' <=> b)
  BY <1>1 DEF Sent
<1>5. IsFiniteSet(Pings)
  BY HomeAssumption
<1> QED BY <1>1, <1>2, <1>3, <1>4, <1>5, OneElement

\* The hash is a finite set of requests and one of checks.
LEMMA Finite == Cardinality(InHash) \in Nat /\ Cardinality(Sent) \in Nat
<1>1. InHash \in SUBSET Requests /\ Sent \in SUBSET Pings
  BY DEF InHash, Sent
<1>2. IsFiniteSet(Requests) /\ IsFiniteSet(Pings)
  BY HomeAssumption
<1>3. IsFiniteSet(InHash) /\ IsFiniteSet(Sent)
  BY <1>1, <1>2, FS_Subset
<1> QED BY <1>3, FS_CardinalityType

\* A check that is counted when it is sent.
LEMMA CheckStep ==
  ASSUME Loose, NeverOvercounted,
         Counted(home, ping, <<home', ping'>>)
  PROVE  /\ home' \in HomeT /\ ping' \in Checks
         /\ home'.count <= Cardinality(InHash) + Cardinality(Sent')
<1>0. Cardinality(InHash) \in Nat /\ Cardinality(Sent) \in Nat /\ home.count \in Nat
  BY Finite DEF Loose, HomeT
<1>1. home' \in HomeT /\ ping' \in Checks
  BY DEF Counted
<1>2. CASE ping' = ping /\ home'.count = home.count
  <2>1. Sent' = Sent
    BY <1>2 DEF Sent
  <2> QED BY <1>1, <1>2, <2>1 DEF NeverOvercounted
<1>3. ASSUME NEW p \in Pings, ~ping[p], ping' = [ping EXCEPT ![p] = TRUE],
             home'.count = home.count + 1
      PROVE  home'.count <= Cardinality(InHash) + Cardinality(Sent')
  <2>1. Cardinality(Sent') = Cardinality(Sent) + 1
    BY <1>3, PingStep
  <2> QED BY <1>0, <1>3, <2>1 DEF NeverOvercounted
<1> QED BY <1>1, <1>2, <1>3 DEF Counted

(***************************************************************************)
(* The invariant of the count.  An action of a request moves one member    *)
(* of InHash, one of a check one member of Sent.                           *)
(***************************************************************************)

\* A step of a request and of the count that goes with it.
LEMMA RequestKeeps ==
  ASSUME CountInv, NEW r \in Requests, NEW x \in Request,
         req' = [req EXCEPT ![r] = x], FlagOK(x),
         home' \in HomeT, ping' = ping, up' \in BOOLEAN,
         \/ x.hash = req[r].hash /\ home'.count <= home.count
         \/ x.hash /\ ~req[r].hash /\ home'.count <= home.count + 1
         \/ x.hash /\ req[r].hash /\ home'.count <= 1
         \/ ~x.hash /\ req[r].hash /\ (home'.count = 0 \/ home'.count <= home.count - 1)
  PROVE  CountInv'
<1>1. Loose /\ HashOK /\ NeverOvercounted
  BY DEF CountInv
<1>2. /\ req' \in [Requests -> Request]
      /\ HashOK'
      /\ Cardinality(InHash) \in Nat /\ Cardinality(InHash') \in Nat
      /\ req[r].hash = x.hash => Cardinality(InHash') = Cardinality(InHash)
      /\ ~req[r].hash /\ x.hash => Cardinality(InHash') = Cardinality(InHash) + 1
      /\ req[r].hash /\ ~x.hash => Cardinality(InHash) = Cardinality(InHash') + 1
  BY <1>1, ReqStep
<1>3. Loose'
  BY <1>1, <1>2 DEF Loose
<1>4. Cardinality(Sent) \in Nat /\ Sent' = Sent
  BY Finite DEF Sent
<1>5. home.count \in Nat /\ home'.count \in Nat
      /\ home.count <= Cardinality(InHash) + Cardinality(Sent)
  BY <1>1 DEF Loose, HomeT, NeverOvercounted
<1>6. req[r].hash \in BOOLEAN /\ x.hash \in BOOLEAN
  BY <1>1 DEF Loose, Request
<1>7. req[r].hash => Cardinality(InHash) >= 1
  <2>1. ASSUME req[r].hash PROVE Cardinality(InHash) # 0
    <3>1. r \in InHash /\ InHash \in SUBSET Requests
      BY <2>1 DEF InHash
    <3>2. IsFiniteSet(InHash)
      BY <3>1, FS_Subset, HomeAssumption
    <3> QED BY <3>1, <3>2, FS_EmptySet
  <2> QED BY <2>1, <1>2
<1>8. home'.count <= Cardinality(InHash') + Cardinality(Sent')
  <2> DEFINE n == Cardinality(InHash)
             n1 == Cardinality(InHash')
             m == Cardinality(Sent)
  <2>1. n \in Nat /\ n1 \in Nat /\ m \in Nat /\ Cardinality(Sent') = m
    BY <1>2, <1>4
  <2>2. /\ req[r].hash = x.hash => n1 = n
        /\ ~req[r].hash /\ x.hash => n1 = n + 1
        /\ req[r].hash /\ ~x.hash => n = n1 + 1
        /\ req[r].hash => n >= 1
    BY <1>2, <1>7
  <2>3. home.count <= n + m
    BY <1>5
  <2> HIDE DEF n, n1, m
  <2>4. home'.count <= n1 + m
    <3>1. CASE x.hash = req[r].hash /\ home'.count <= home.count
      BY <3>1, <2>1, <2>2, <2>3, <1>5
    <3>2. CASE x.hash /\ ~req[r].hash /\ home'.count <= home.count + 1
      BY <3>2, <2>1, <2>2, <2>3, <1>5
    <3>3. CASE x.hash /\ req[r].hash /\ home'.count <= 1
      <4>1. n1 = n /\ n >= 1
        BY <3>3, <2>2, <1>6
      <4> QED BY <4>1, <3>3, <2>1, <1>5
    <3>4. CASE ~x.hash /\ req[r].hash /\ (home'.count = 0 \/ home'.count <= home.count - 1)
      <4>1. n = n1 + 1
        BY <3>4, <2>2
      <4> QED BY <4>1, <3>4, <2>1, <2>3, <1>5
    <3> QED BY <3>1, <3>2, <3>3, <3>4
  <2> QED BY <2>1, <2>4 DEF n1
<1> QED BY <1>2, <1>3, <1>8 DEF CountInv, NeverOvercounted

\* A step that leaves the requests alone and sends at most one check.
LEMMA CheckKeeps ==
  ASSUME CountInv, UNCHANGED <<req, up>>, Counted(home, ping, <<home', ping'>>)
  PROVE  CountInv'
<1>1. Loose /\ HashOK /\ NeverOvercounted
  BY DEF CountInv
<1>2. /\ home' \in HomeT /\ ping' \in Checks
      /\ home'.count <= Cardinality(InHash) + Cardinality(Sent')
  BY <1>1, CheckStep
<1>3. InHash' = InHash /\ HashOK' /\ Loose'
  BY <1>1, <1>2 DEF InHash, HashOK, Loose
<1> QED BY <1>2, <1>3 DEF CountInv, NeverOvercounted

\* A check leaves the hash.
LEMMA CheckLeaves ==
  ASSUME CountInv, UNCHANGED <<req, up>>, NEW p \in Pings, ping[p],
         ping' = [ping EXCEPT ![p] = FALSE],
         home' \in HomeT, home'.count = 0 \/ home'.count = home.count - 1
  PROVE  CountInv'
<1>1. Loose /\ HashOK /\ NeverOvercounted
  BY DEF CountInv
<1>2. /\ ping' \in Checks
      /\ Cardinality(Sent) \in Nat /\ Cardinality(Sent') \in Nat
      /\ Cardinality(Sent) = Cardinality(Sent') + 1
  BY <1>1, PingStep
<1>3. InHash' = InHash /\ HashOK' /\ Loose'
  BY <1>1, <1>2 DEF InHash, HashOK, Loose
<1>4. home.count \in Nat /\ Cardinality(InHash) \in Nat
      /\ home.count <= Cardinality(InHash) + Cardinality(Sent)
  BY <1>1, Finite DEF Loose, HomeT, NeverOvercounted
<1>5. home'.count <= Cardinality(InHash) + Cardinality(Sent')
  BY <1>2, <1>4
<1> QED BY <1>3, <1>5 DEF CountInv, NeverOvercounted

\* The count, the types and the hash flags survive every step.
LEMMA CountStep == CountInv /\ [Next]_vars => CountInv'
<1> SUFFICES ASSUME CountInv, [Next]_vars PROVE CountInv'
  OBVIOUS
<1>0. Loose /\ HashOK /\ NeverOvercounted /\ home \in HomeT /\ ping \in Checks
      /\ up \in BOOLEAN /\ req \in [Requests -> Request] /\ home.count \in Nat
      /\ MaxSent \in Nat \ {0}
  BY HomeAssumption DEF CountInv, Loose, HomeT
<1>1. CASE UNCHANGED vars
  BY <1>0, <1>1 DEF vars, CountInv, Loose, HashOK, NeverOvercounted, InHash, Sent
<1>2. ASSUME NEW r \in Requests, Choose(r) PROVE CountInv'
  <2> DEFINE x == [req[r] EXCEPT !.at = IF Usable(home) THEN "chosen" ELSE "finished"]
  <2>1. req' = [req EXCEPT ![r] = x] /\ x \in Request /\ x.hash = req[r].hash
        /\ FlagOK(x) /\ UNCHANGED <<home, ping, up>>
    BY <1>0, <1>2 DEF Choose, Move, Request, HashOK, FlagOK
  <2> HIDE DEF x
  <2>2. home' \in HomeT /\ home'.count <= home.count /\ up' \in BOOLEAN
    BY <1>0, <2>1
  <2> QED BY <2>1, <2>2, RequestKeeps
<1>3. ASSUME NEW r \in Requests, NEW h \in HomeT, Inserted(r, h),
             UNCHANGED <<ping, up>>,
             \/ h = home /\ ~req[r].hash
             \/ req[r].hash /\ (h.count = 0 \/ h.count = home.count - 1)
      PROVE CountInv'
  <2> DEFINE x == [at |-> "waiting", hash |-> TRUE, sent |-> 1, got |-> 0]
  <2>1. x \in Request /\ x.hash /\ FlagOK(x)
    BY <1>0 DEF Request, FlagOK
  <2>2. home' \in HomeT /\ home'.count = h.count + 1
    BY <1>3 DEF Inserted, HomeT
  <2>3. req' = [req EXCEPT ![r] = x]
    BY <1>3 DEF Inserted
  <2>4. h.count \in Nat
    BY DEF HomeT
  <2> HIDE DEF x
  <2>5. CASE h = home /\ ~req[r].hash
    <3>1. home'.count <= home.count + 1 /\ up' \in BOOLEAN
      BY <2>2, <2>5, <1>0, <1>3
    <3> QED BY <1>3, <2>1, <2>2, <2>3, <2>5, <3>1, RequestKeeps
  <2>6. CASE req[r].hash /\ h.count = 0
    <3>1. home'.count <= 1 /\ up' \in BOOLEAN
      BY <2>2, <2>6, <1>0, <1>3
    <3> QED BY <1>3, <2>1, <2>2, <2>3, <2>6, <3>1, RequestKeeps
  <2>7. CASE req[r].hash /\ h.count = home.count - 1
    <3>1. home'.count <= home.count /\ x.hash = req[r].hash /\ up' \in BOOLEAN
      BY <2>1, <2>2, <2>7, <1>0, <1>3 DEF Request
    <3> QED BY <1>3, <2>1, <2>2, <2>3, <3>1, RequestKeeps
  <2> QED BY <1>3, <2>5, <2>6, <2>7
<1>4. ASSUME NEW r \in Requests, NEW h \in HomeT, UNCHANGED <<ping, up>>,
             req' = [req EXCEPT ![r].at = "finished", ![r].hash = FALSE],
             home' \in HomeT, home'.count = h.count,
             \/ h = home /\ ~req[r].hash
             \/ req[r].hash /\ (h.count = 0 \/ h.count = home.count - 1)
      PROVE CountInv'
  <2> DEFINE x == [req[r] EXCEPT !.at = "finished", !.hash = FALSE]
  <2>1. x \in Request /\ ~x.hash /\ FlagOK(x) /\ req' = [req EXCEPT ![r] = x]
    BY <1>0, <1>4 DEF Request, FlagOK
  <2>2. up' \in BOOLEAN /\ x.hash \in BOOLEAN /\ req[r].hash \in BOOLEAN
    BY <1>0, <1>4, <2>1 DEF Request
  <2> HIDE DEF x
  <2>3. CASE h = home /\ ~req[r].hash
    <3>1. home'.count <= home.count /\ x.hash = req[r].hash
      BY <1>0, <1>4, <2>1, <2>2, <2>3
    <3> QED BY <1>4, <2>1, <2>2, <3>1, RequestKeeps
  <2>4. CASE req[r].hash /\ (h.count = 0 \/ h.count = home.count - 1)
    <3>1. home'.count = 0 \/ home'.count <= home.count - 1
      BY <1>0, <1>4, <2>4
    <3> QED BY <1>4, <2>1, <2>2, <2>4, <3>1, RequestKeeps
  <2> QED BY <1>4, <2>3, <2>4
<1>5. ASSUME NEW r \in Requests, NEW h \in HomeT, NotInserted(r, h),
             UNCHANGED <<ping, up>>,
             \/ h = home /\ ~req[r].hash
             \/ req[r].hash /\ (h.count = 0 \/ h.count = home.count - 1)
      PROVE CountInv'
  <2>1. home' \in HomeT /\ home'.count = h.count
    BY <1>5 DEF NotInserted, HomeT, States
  <2>2. req' = [req EXCEPT ![r].at = "finished", ![r].hash = FALSE]
    BY <1>5 DEF NotInserted
  <2> QED BY <1>4, <1>5, <2>1, <2>2
<1>6. ASSUME NEW r \in Requests, Proxy(r) PROVE CountInv'
  <2>1. ~req[r].hash /\ UNCHANGED <<ping, up>>
    BY <1>0, <1>6 DEF Proxy, HashOK, FlagOK
  <2>2. Inserted(r, home) \/ NotInserted(r, home)
    BY <1>6 DEF Proxy
  <2> QED BY <1>0, <1>3, <1>5, <2>1, <2>2
<1>7. ASSUME NEW r \in Requests, Reply(r) PROVE CountInv'
  <2> DEFINE h == [home EXCEPT !.quiet = {}]
             x == [req[r] EXCEPT !.got = @ + 1,
                                 !.at = IF @ = "waiting" THEN "running" ELSE @]
  <2>1. h \in HomeT /\ h.count = home.count
    BY <1>0 DEF HomeT
  <2>2. home' = Alive(h) \/ home' = h
    BY <1>7 DEF Reply
  <2> HIDE DEF h
  <2>3. home' \in HomeT /\ home'.count <= home.count
    BY <1>0, <2>1, <2>2, AliveFacts
  <2>4. req[r].hash /\ req[r].at \notin {"idle", "chosen"} /\ req[r].got + 1 \in 0..MaxSent
    BY <1>0, <1>7 DEF Reply, HashOK, FlagOK, Request
  <2>5. x \in Request /\ x.hash = req[r].hash /\ FlagOK(x)
    BY <1>0, <2>4 DEF Request, FlagOK
  <2>6. req' = [req EXCEPT ![r] = x] /\ UNCHANGED <<ping, up>>
    BY <1>0, <1>7 DEF Reply, Request
  <2> HIDE DEF x
  <2> QED BY <1>0, <2>3, <2>5, <2>6, RequestKeeps
<1>8. ASSUME NEW r \in Requests, Timeout(r) PROVE CountInv'
  <2>1. PICK w \in TimedOut(home, ping) : home' = w[1] /\ ping' = w[2]
    BY <1>8 DEF Timeout
  <2>2. Counted(home, ping, w)
    BY <1>0, <2>1, TimedOutFacts
  <2>3. Counted(home, ping, <<home', ping'>>)
    BY <2>1, <2>2 DEF Counted
  <2>4. /\ home' \in HomeT /\ ping' \in Checks
        /\ home'.count <= Cardinality(InHash) + Cardinality(Sent')
    BY <1>0, <2>3, CheckStep
  <2>5. PICK to \in {"noreply", "finished"} : req' = [req EXCEPT ![r].at = to]
    BY <1>8 DEF Timeout, Move
  <2>6. /\ req' \in [Requests -> Request] /\ up' = up
        /\ \A s \in Requests : req'[s].hash = req[s].hash
        /\ \A s \in Requests : req'[s].at \in {"idle", "chosen", "waiting"}
                                => req[s].at = req'[s].at
    BY <1>0, <1>8, <2>5 DEF Request, Timeout
  <2>7. InHash' = InHash /\ HashOK' /\ Loose'
    BY <1>0, <2>4, <2>6 DEF InHash, HashOK, FlagOK, Loose
  <2> QED BY <2>4, <2>7 DEF CountInv, NeverOvercounted
<1>9. ASSUME NEW r \in Requests, Duplicate(r) PROVE CountInv'
  <2> DEFINE h == Failed(home)
             g == Removed(h)
  <2>1. h \in HomeT /\ h.count = home.count
    BY <1>0, FailedFacts
  <2>2. g \in HomeT /\ g.count = IF h.count = 0 THEN 0 ELSE h.count - 1
    BY <2>1, RemovedFacts
  <2>3. \/ home' = h /\ req[r].sent < MaxSent /\ req' = [req EXCEPT ![r].sent = @ + 1]
        \/ Inserted(r, g) \/ NotInserted(r, g)
        \/ home' = g /\ req' = [req EXCEPT ![r].at = "finished", ![r].hash = FALSE]
    BY <1>9 DEF Duplicate, Anew
  <2>4. UNCHANGED <<ping, up>> /\ req[r].at = "waiting"
    BY <1>9 DEF Duplicate
  <2> HIDE DEF g, h
  <2>5. CASE home' = h /\ req[r].sent < MaxSent /\ req' = [req EXCEPT ![r].sent = @ + 1]
    <3> DEFINE x == [req[r] EXCEPT !.sent = @ + 1]
    <3>1. x \in Request /\ x.hash = req[r].hash /\ FlagOK(x)
          /\ req' = [req EXCEPT ![r] = x]
      BY <1>0, <2>4, <2>5 DEF Request, FlagOK, HashOK
    <3> HIDE DEF x
    <3>2. home'.count <= home.count
      BY <1>0, <2>1, <2>5
    <3> QED BY <1>0, <2>1, <2>4, <2>5, <3>1, <3>2, RequestKeeps
  <2>7. CASE req[r].hash /\ ~(home' = h /\ req[r].sent < MaxSent
                                /\ req' = [req EXCEPT ![r].sent = @ + 1])
    <3>1. g.count = 0 \/ g.count = home.count - 1
      BY <2>1, <2>2
    <3> QED BY <2>2, <2>3, <2>4, <2>7, <3>1, <1>3, <1>4, <1>5
  <2>8. req[r].hash
    BY <1>0, <2>4 DEF HashOK, FlagOK
  <2> QED BY <2>5, <2>7, <2>8
<1>10. ASSUME NEW r \in Requests, Run(r) PROVE CountInv'
  <2> DEFINE leaves == req[r].hash /\ req[r].sent <= req[r].got
             x == [req[r] EXCEPT !.at = "finished", !.hash = @ /\ ~leaves]
  <2>1. x \in Request /\ FlagOK(x) /\ req' = [req EXCEPT ![r] = x]
        /\ (leaves => ~x.hash) /\ (~leaves => x.hash = req[r].hash)
    BY <1>0, <1>10 DEF Run, Request, FlagOK
  <2>2. home' = (IF leaves THEN Removed(home) ELSE home) /\ UNCHANGED <<ping, up>>
    BY <1>10 DEF Run
  <2>3. leaves => req[r].hash
    OBVIOUS
  <2>4. /\ Removed(home) \in HomeT
        /\ Removed(home).count = 0 \/ Removed(home).count <= home.count - 1
    BY <1>0, RemovedFacts
  <2> HIDE DEF leaves, x
  <2>5. CASE leaves
    BY <1>0, <2>1, <2>2, <2>3, <2>4, <2>5, RequestKeeps
  <2>6. CASE ~leaves
    <3>1. home'.count <= home.count /\ home' \in HomeT
      BY <1>0, <2>2, <2>6
    <3> QED BY <1>0, <2>1, <2>2, <2>6, <3>1, RequestKeeps
  <2> QED BY <2>5, <2>6
<1>11. ASSUME NEW r \in Requests, NoAnswer(r) PROVE CountInv'
  <2>1. /\ UNCHANGED <<ping, up>>
        /\ home' = IF req[r].hash THEN Removed(home) ELSE home
        /\ req' = [req EXCEPT ![r].at = "finished", ![r].hash = FALSE]
        /\ req[r].hash \in BOOLEAN
    BY <1>0, <1>11 DEF NoAnswer, Request
  <2>2. CASE req[r].hash
    <3>1. Removed(home) \in HomeT
          /\ (Removed(home).count = 0 \/ Removed(home).count = home.count - 1)
      BY <1>0, RemovedFacts
    <3> QED BY <1>4, <2>1, <2>2, <3>1
  <2>3. CASE ~req[r].hash
    BY <1>0, <1>4, <2>1, <2>3
  <2> QED BY <2>1, <2>2, <2>3
<1>12. ASSUME NEW r \in Requests, Done(r) PROVE CountInv'
  <2> DEFINE x == [at |-> "idle", hash |-> FALSE, sent |-> 0, got |-> 0]
  <2>1. PICK h \in {home, Failed(home)} :
          \/ /\ home' = IF req[r].hash THEN Removed(h) ELSE h
             /\ req' = [req EXCEPT ![r] = x]
          \/ home' = h /\ req' = req
    BY <1>12 DEF Done
  <2>2. h \in HomeT /\ h.count = home.count
    BY <1>0, <2>1, FailedFacts
  <2>3. UNCHANGED <<ping, up>> /\ req[r].hash \in BOOLEAN
    BY <1>0, <1>12 DEF Done, Request
  <2>4. x \in Request /\ ~x.hash /\ FlagOK(x)
    BY <1>0 DEF Request, FlagOK
  <2>5. Removed(h) \in HomeT /\ (Removed(h).count = 0 \/ Removed(h).count <= home.count - 1)
    BY <1>0, <2>2, RemovedFacts
  <2> HIDE DEF x
  <2>6. CASE home' = h /\ req' = req
    <3>1. InHash' = InHash /\ Sent' = Sent /\ HashOK' /\ Loose'
      BY <1>0, <2>2, <2>3, <2>6 DEF InHash, Sent, HashOK, Loose
    <3> QED BY <1>0, <2>2, <2>6, <3>1 DEF CountInv, NeverOvercounted
  <2>7. CASE req[r].hash /\ home' = Removed(h) /\ req' = [req EXCEPT ![r] = x]
    BY <1>0, <2>3, <2>4, <2>5, <2>7, RequestKeeps
  <2>8. CASE ~req[r].hash /\ home' = h /\ req' = [req EXCEPT ![r] = x]
    <3>1. home'.count <= home.count /\ home' \in HomeT /\ x.hash \in BOOLEAN
      BY <1>0, <2>2, <2>4, <2>8 DEF Request
    <3> QED BY <1>0, <2>3, <2>4, <2>8, <3>1, RequestKeeps
  <2> QED BY <2>1, <2>3, <2>6, <2>7, <2>8
<1>13. ASSUME NEW p \in Pings, PingReply(p) PROVE CountInv'
  <2> DEFINE h == [home EXCEPT !.quiet = IF PingCheck = "request" THEN {} ELSE @]
             g == IF h.state \in {"unknown", "zombie"} THEN Alive(h) ELSE h
  <2>1. h \in HomeT /\ h.count = home.count
    BY <1>0 DEF HomeT
  <2>2. home' = Answered(g) /\ ping[p] /\ ping' = [ping EXCEPT ![p] = FALSE]
        /\ UNCHANGED <<req, up>>
    BY <1>13 DEF PingReply
  <2> HIDE DEF h
  <2>3. g \in HomeT /\ (g.count = 0 \/ g.count = home.count)
    BY <2>1, AliveFacts
  <2> HIDE DEF g
  <2>4. Answered(g) \in HomeT /\ (Answered(g).count = 0 \/ Answered(g).count = g.count - 1)
        /\ Answered(g).count \in Nat
    BY <2>3, AnsweredFacts DEF HomeT
  <2>5. home' \in HomeT /\ (home'.count = 0 \/ home'.count = home.count - 1)
    BY <2>2, <2>3, <2>4
  <2> QED BY <2>2, <2>5, CheckLeaves
<1>14. ASSUME NEW p \in Pings, PingTimeout(p) PROVE CountInv'
  <2>1. ping[p] /\ ping' = [ping EXCEPT ![p] = FALSE] /\ UNCHANGED <<req, up>>
        /\ home' = [Removed(home) EXCEPT !.streak = 0]
    BY <1>14 DEF PingTimeout
  <2>2. Removed(home) \in HomeT
        /\ (Removed(home).count = 0 \/ Removed(home).count = home.count - 1)
    BY <1>0, RemovedFacts
  <2>3. 0 \in 0..PingsToAlive
    BY HomeAssumption
  <2>4. home' \in HomeT /\ home'.count = Removed(home).count
    BY <2>1, <2>2, <2>3 DEF HomeT
  <2> QED BY <2>1, <2>2, <2>4, CheckLeaves
<1>15. CASE PingTimer
  <2> DEFINE h == [home EXCEPT !.ev = "none"]
  <2>1. h \in HomeT /\ h.count = home.count
    BY <1>0 DEF HomeT
  <2>a. PICK over \in BOOLEAN :
          \E w \in PingHome(h, ping, over) : home' = w[1] /\ ping' = w[2]
    BY <1>15 DEF PingTimer
  <2>2. PICK w \in PingHome(h, ping, over) : home' = w[1] /\ ping' = w[2]
    BY <2>a
  <2>3. UNCHANGED <<req, up>>
    BY <1>15 DEF PingTimer
  <2> HIDE DEF h
  <2>4. Counted(h, ping, w)
    BY <1>0, <2>1, <2>2, PingHomeFacts
  <2>5. Counted(home, ping, <<home', ping'>>)
    BY <2>1, <2>2, <2>4 DEF Counted
  <2> QED BY <2>3, <2>5, CheckKeeps
<1>16. ASSUME home' \in HomeT, home'.count <= home.count, UNCHANGED <<ping, req>>,
              up' \in BOOLEAN
       PROVE  CountInv'
  <2>1. InHash' = InHash /\ Sent' = Sent /\ HashOK' /\ Loose'
    BY <1>0, <1>16 DEF InHash, Sent, HashOK, Loose
  <2>2. home'.count \in Nat /\ Cardinality(InHash) \in Nat /\ Cardinality(Sent) \in Nat
    BY <1>16, Finite DEF HomeT
  <2>3. home'.count <= Cardinality(InHash) + Cardinality(Sent)
    BY <1>0, <1>16, <2>2 DEF NeverOvercounted
  <2> QED BY <2>1, <2>3 DEF CountInv, NeverOvercounted
<1>17. CASE ReviveTimer \/ SetAlive
  <2>1. home' = Revived(home) /\ UNCHANGED <<ping, req, up>>
    BY <1>17 DEF ReviveTimer, SetAlive
  <2>2. home' \in HomeT /\ home'.count <= home.count
    BY <1>0, <2>1, AliveFacts
  <2> QED BY <1>0, <1>16, <2>1, <2>2
<1>18. CASE SetDead
  <2>1. PICK w \in MarkDead(home, ping) : home' = w[1] /\ ping' = w[2]
    BY <1>18 DEF SetDead
  <2>2. Counted(home, ping, w)
    BY <1>0, <2>1, MarkDeadFacts
  <2>3. Counted(home, ping, <<home', ping'>>) /\ UNCHANGED <<req, up>>
    BY <1>18, <2>1, <2>2 DEF Counted, SetDead
  <2> QED BY <2>3, CheckKeeps
<1>19. CASE SetDown \/ Silence \/ HomeDown \/ HomeUp
  <2>1. home' \in HomeT /\ home'.count <= home.count
    BY <1>0, <1>19 DEF SetDown, Silence, HomeDown, HomeUp, HomeT, States
  <2>2. UNCHANGED <<ping, req>> /\ up' \in BOOLEAN
    BY <1>0, <1>19 DEF SetDown, Silence, HomeDown, HomeUp
  <2> QED BY <1>16, <2>1, <2>2
<1> QED BY <1>1, <1>2, <1>6, <1>7, <1>8, <1>9, <1>10, <1>11, <1>12, <1>13,
           <1>14, <1>15, <1>17, <1>18, <1>19 DEF Next

(***************************************************************************)
(* Theorems.                                                               *)
(***************************************************************************)

\* The invariant of the count holds in every state.
LEMMA CountAlways == Spec => []CountInv
<1>1. Init => CountInv
  <2> SUFFICES ASSUME Init PROVE CountInv
    OBVIOUS
  <2>1. home \in HomeT /\ home.count = 0
    BY HomeAssumption DEF Init, HomeT, States, Intervals
  <2>2. Loose /\ HashOK
    BY <2>1, HomeAssumption DEF Init, Loose, HashOK, FlagOK, Checks, Request
  <2>3. NeverOvercounted
    BY <2>1, Finite DEF NeverOvercounted
  <2> QED BY <2>2, <2>3 DEF CountInv
<1> QED BY <1>1, CountStep, PTL DEF Spec

\* The count of outstanding requests of a home server never exceeds the requests
\* and checks in the proxy hash (NeverOvercounted), for every number of requests
\* and every configuration, with radmin, lost packets and sockets that fail.
THEOREM CountNeverAbove == Spec => []NeverOvercounted
<1>1. CountInv => NeverOvercounted
  BY DEF CountInv
<1> QED BY <1>1, CountAlways, PTL

\* Every action keeps the types, the bound of the count included.
THEOREM HomeTypes == Spec => []TypeOK
<1>1. CountInv => TypeOK
  <2> SUFFICES ASSUME CountInv PROVE TypeOK
    OBVIOUS
  <2>1. InHash \in SUBSET Requests /\ Sent \in SUBSET Pings
    BY DEF InHash, Sent
  <2>2. IsFiniteSet(Requests) /\ IsFiniteSet(Pings)
    BY HomeAssumption
  <2>3. /\ Cardinality(InHash) <= Cardinality(Requests)
        /\ Cardinality(Sent) <= Cardinality(Pings)
        /\ Cardinality(Requests) \in Nat /\ Cardinality(Pings) \in Nat
    BY <2>1, <2>2, FS_Subset, FS_CardinalityType
  <2>4. Cardinality(InHash) \in Nat /\ Cardinality(Sent) \in Nat
    BY Finite
  <2>5. home \in HomeT /\ home.count \in Nat
        /\ home.count <= Cardinality(InHash) + Cardinality(Sent)
    BY DEF CountInv, Loose, HomeT, NeverOvercounted
  <2>6. home.count \in 0..Cardinality(Requests) + Cardinality(Pings)
    BY <2>3, <2>4, <2>5
  <2>7. home \in Home
    BY <2>5, <2>6 DEF HomeT, Home, States
  <2> QED BY <2>7 DEF CountInv, Loose, TypeOK, Checks
<1> QED BY <1>1, CountAlways, PTL

(***************************************************************************)
(* The invariant of the timer.  It needs only the types of CountInv: no    *)
(* request and no check is looked at.                                      *)
(***************************************************************************)

\* Every function of process.c leaves the timer fitting the state, while
\* identifiers do not run out and radmin does not set the state.
LEMMA TimerStep ==
  ASSUME ~NoIds, ~Admin, CountInv, TimerFits(home), [Next]_vars
  PROVE  TimerFits(home')
<1>0. home \in HomeT /\ ping \in Checks
  BY DEF CountInv, Loose
<1>1. CASE home' = home
  BY <1>1 DEF TimerFits
<1>2. ASSUME NEW h \in HomeT, TimerFits(h)
      PROVE  TimerFits(Failed(h)) /\ TimerFits(Removed(h))
  BY <1>2, FailedFacts, RemovedFacts DEF TimerFits
<1>3. ASSUME NEW r \in Requests, NEW h \in HomeT, TimerFits(h),
             Inserted(r, h) \/ NotInserted(r, h)
      PROVE  TimerFits(home')
  <2>1. CASE Inserted(r, h)
    <3>1. home'.state = h.state /\ home'.ev = h.ev
      BY <2>1 DEF Inserted, HomeT
    <3> QED BY <1>3, <3>1 DEF TimerFits
  <2>2. CASE NotInserted(r, h)
    <3>1. home' = [h EXCEPT !.state = "conn_fail"]
      BY <2>2 DEF NotInserted
    <3>2. home'.state = "conn_fail"
      BY <3>1 DEF HomeT
    <3> QED BY <3>2 DEF TimerFits
  <2> QED BY <1>3, <2>1, <2>2
<1>4. ASSUME NEW r \in Requests, Choose(r) PROVE TimerFits(home')
  BY <1>1, <1>4 DEF Choose
<1>5. ASSUME NEW r \in Requests, Proxy(r) PROVE TimerFits(home')
  BY <1>0, <1>3, <1>5 DEF Proxy
<1>6. ASSUME NEW r \in Requests, Reply(r) PROVE TimerFits(home')
  <2> DEFINE h == [home EXCEPT !.quiet = {}]
  <2>1. h \in HomeT /\ h.state = home.state /\ h.ev = home.ev
    BY <1>0 DEF HomeT
  <2>2. home' = Alive(h) \/ home' = h
    BY <1>6 DEF Reply
  <2> HIDE DEF h
  <2> QED BY <2>1, <2>2, AliveFacts DEF TimerFits
<1>7. ASSUME NEW r \in Requests, Timeout(r) PROVE TimerFits(home')
  <2>1. PICK w \in TimedOut(home, ping) : home' = w[1]
    BY <1>7 DEF Timeout
  <2> QED BY <1>0, <2>1, TimedOutFacts
<1>8. ASSUME NEW r \in Requests, Duplicate(r) PROVE TimerFits(home')
  <2> DEFINE h == Failed(home)
             g == Removed(h)
  <2>1. h \in HomeT /\ TimerFits(h)
    BY <1>0, <1>2, FailedFacts
  <2>2. g \in HomeT /\ TimerFits(g)
    BY <1>2, <2>1, RemovedFacts
  <2>3. home' = h \/ home' = g \/ Inserted(r, g) \/ NotInserted(r, g)
    BY <1>8 DEF Duplicate, Anew
  <2> HIDE DEF g, h
  <2> QED BY <1>3, <2>1, <2>2, <2>3
<1>9. ASSUME NEW r \in Requests, Run(r) \/ NoAnswer(r) PROVE TimerFits(home')
  <2>1. home' = home \/ home' = Removed(home)
    BY <1>9 DEF Run, NoAnswer
  <2> QED BY <1>0, <1>2, <2>1
<1>10. ASSUME NEW r \in Requests, Done(r) PROVE TimerFits(home')
  <2>1. PICK h \in {home, Failed(home)} : home' = h \/ home' = Removed(h)
    BY <1>10 DEF Done
  <2>2. h \in HomeT /\ TimerFits(h)
    BY <1>0, <1>2, <2>1, FailedFacts
  <2> QED BY <1>2, <2>1, <2>2
<1>11. ASSUME NEW p \in Pings, PingReply(p) PROVE TimerFits(home')
  <2> DEFINE h == [home EXCEPT !.quiet = IF PingCheck = "request" THEN {} ELSE @]
             g == IF h.state \in {"unknown", "zombie"} THEN Alive(h) ELSE h
  <2>1. h \in HomeT /\ h.state = home.state /\ h.ev = home.ev
    BY <1>0 DEF HomeT
  <2>2. home' = Answered(g)
    BY <1>11 DEF PingReply
  <2> HIDE DEF h
  <2>3. g \in HomeT /\ TimerFits(g)
    BY <2>1, AliveFacts DEF TimerFits
  <2> HIDE DEF g
  <2> QED BY <2>2, <2>3, AnsweredFacts
<1>12. ASSUME NEW p \in Pings, PingTimeout(p) PROVE TimerFits(home')
  <2>1. home' = [Removed(home) EXCEPT !.streak = 0]
    BY <1>12 DEF PingTimeout
  <2>2. Removed(home) \in HomeT /\ TimerFits(Removed(home))
    BY <1>0, <1>2, RemovedFacts
  <2>3. home'.state = Removed(home).state /\ home'.ev = Removed(home).ev
    BY <2>1, <2>2 DEF HomeT
  <2> QED BY <2>2, <2>3 DEF TimerFits
<1>13. CASE PingTimer
  <2> DEFINE h == [home EXCEPT !.ev = "none"]
  <2>1. h \in HomeT /\ h.ev = "none" /\ h.state = home.state /\ home.ev = "ping"
    BY <1>0, <1>13 DEF HomeT, PingTimer
  <2>2. PICK over \in BOOLEAN : \E w \in PingHome(h, ping, over) : home' = w[1]
    BY <1>13 DEF PingTimer
  <2>3. PICK w \in PingHome(h, ping, over) : home' = w[1]
    BY <2>2
  <2> HIDE DEF h
  <2>4. h.state \notin {"alive", "unknown"} /\ (PingCheck = "none" => h.state # "dead")
    BY <2>1 DEF TimerFits
  <2> QED BY <1>0, <2>1, <2>3, <2>4, PingHomeFacts
<1>14. CASE ReviveTimer
  BY <1>0, <1>14, AliveFacts DEF ReviveTimer, TimerFits
<1>15. CASE Silence \/ HomeDown \/ HomeUp
  <2>1. home'.state = home.state /\ home'.ev = home.ev
    BY <1>0, <1>15 DEF Silence, HomeDown, HomeUp, HomeT
  <2> QED BY <2>1 DEF TimerFits
<1>16. CASE UNCHANGED vars
  BY <1>1, <1>16 DEF vars
<1> QED BY <1>4, <1>5, <1>6, <1>7, <1>8, <1>9, <1>10, <1>11, <1>12, <1>13, <1>14,
           <1>15, <1>16 DEF Next, SetAlive, SetDead, SetDown

\* While neither identifiers run out nor radmin sets the state, a zombie or dead
\* server has a timer (ChecksContinue) and one in use has none (NoStaleTimer), for
\* every configuration and every order of replies, timeouts and failed sockets.
THEOREM TimersFit ==
  ASSUME ~NoIds, ~Admin
  PROVE  Spec => [](ChecksContinue /\ NoStaleTimer)
<1>1. Init => TimerFits(home)
  BY DEF Init, TimerFits
<1>2. CountInv /\ TimerFits(home) /\ [Next]_vars => TimerFits(home')
  BY TimerStep
<1>3. TimerFits(home) => ChecksContinue /\ NoStaleTimer
  BY DEF TimerFits, ChecksContinue, NoStaleTimer
<1>4. TimerFits(home)' <=> TimerFits(home')
  BY DEF TimerFits
<1> QED BY <1>1, <1>2, <1>3, <1>4, CountAlways, PTL DEF Spec
-----------------------------------------------------------------------------
(***************************************************************************)
(* Lists of connections                                                    *)
(***************************************************************************)
Names == Backend!Conn

\* ConnectionPool's operators of FiniteSets are those of this module.
LEMMA SameCount ==
    ASSUME NEW S
    PROVE  Backend!IsFiniteSet(S) = IsFiniteSet(S) /\ Backend!Cardinality(S) = Cardinality(S)
BY DEF Backend!IsFiniteSet, IsFiniteSet, Backend!Cardinality, Cardinality

Elems(s) == {s[k] : k \in 1..Len(s)}

Injective(s) == \A k, l \in 1..Len(s) : s[k] = s[l] => k = l

LEMMA SeqWords ==
    ASSUME NEW X, NEW s \in Seq(X)
    PROVE  /\ Backend!ToSet(s) = Elems(s) /\ (Backend!IsInjective(s) <=> Injective(s))
           /\ Elems(s) \subseteq X
BY DEF Backend!ToSet, Backend!IsInjective, Elems, Injective

LEMMA NamesFinite ==
    /\ IsFiniteSet(Names) /\ Cardinality(Names) = MaxConns /\ MaxConns \in Nat /\ MaxConns > 0
    /\ Names = 1..MaxConns /\ None \notin Names
<1>1. MaxConns \in Nat /\ MaxConns > 0 /\ None \notin Names
  BY BackendAssumption DEF Backend!ConnAssumption, Names
<1>2. IsFiniteSet(1..MaxConns) /\ Cardinality(1..MaxConns) = MaxConns
  BY <1>1, FS_Interval
<1> QED BY <1>1, <1>2 DEF Names, Backend!Conn

\* A sequence without repetition is as long as its set is large.
LEMMA InjectiveLength ==
    ASSUME NEW X, NEW s \in Seq(X), Injective(s)
    PROVE  IsFiniteSet(Elems(s)) /\ Cardinality(Elems(s)) = Len(s)
<1>1. s \in Bijection(1..Len(s), Elems(s))
  BY DEF Elems, Injective, Bijection, Injection, Surjection, IsInjective
<1>2. ExistsBijection(1..Len(s), Elems(s))
  BY <1>1 DEF ExistsBijection
<1>3. Len(s) \in Nat /\ IsFiniteSet(1..Len(s)) /\ Cardinality(1..Len(s)) = Len(s)
  <2>1. Len(s) \in Nat
    OBVIOUS
  <2>2. IsFiniteSet(1..Len(s)) /\ Cardinality(1..Len(s)) = IF 1 > Len(s) THEN 0 ELSE Len(s) - 1 + 1
    BY <2>1, FS_Interval
  <2> QED BY <2>1, <2>2
<1> QED BY <1>2, <1>3, FS_Bijection

\* Without keeps the order: the k-th kept position has rank k.
LEMMA WithoutFacts ==
    ASSUME NEW X, NEW s \in Seq(X), NEW S
    PROVE  /\ Backend!Without(s, S) \in Seq(X)
           /\ Elems(Backend!Without(s, S)) = Elems(s) \ S
           /\ Injective(s) => Injective(Backend!Without(s, S))
<1>. DEFINE kept == {k \in DOMAIN s : s[k] \notin S}
            Below(k) == {l \in kept : l <= k}
            n == Cardinality(kept)
            f == [k \in kept |-> Cardinality(Below(k))]
            w == [k \in 1..n |-> s[CHOOSE l \in kept : Cardinality(Below(l)) = k]]
<1>1. Backend!Without(s, S) = w
  BY DEF Backend!Without, Backend!Cardinality, Cardinality
<1>2. IsFiniteSet(kept) /\ kept \subseteq 1..Len(s) /\ n \in Nat
  <2>1. Len(s) \in Nat /\ IsFiniteSet(1..Len(s))
    BY FS_Interval
  <2>. QED  BY <2>1, FS_Subset, FS_CardinalityType
<1>3. ASSUME NEW k \in kept
      PROVE  /\ IsFiniteSet(Below(k)) /\ Cardinality(Below(k)) \in 1..n
  <2>1. Below(k) \subseteq kept /\ k \in Below(k)
    BY <1>2
  <2>2. IsFiniteSet(Below(k)) /\ Cardinality(Below(k)) <= n
    BY <1>2, <2>1, FS_Subset
  <2>3. Cardinality(Below(k)) \in Nat /\ Cardinality(Below(k)) # 0
    BY <2>1, <2>2, FS_CardinalityType, FS_EmptySet
  <2>. QED  BY <1>2, <2>2, <2>3
<1>4. ASSUME NEW k \in kept, NEW l \in kept, k < l
      PROVE  Cardinality(Below(k)) # Cardinality(Below(l))
  <2>1. Below(k) \subseteq Below(l) /\ l \in Below(l) /\ l \notin Below(k)
    BY <1>2, <1>4
  <2>. QED  BY <1>3, <2>1, FS_Subset
<1>5. f \in Injection(kept, 1..n)
  <2>1. f \in [kept -> 1..n]
    BY <1>3
  <2>2. \A k, l \in kept : f[k] = f[l] => k = l
    BY <1>2, <1>4
  <2>. HIDE DEF f
  <2>. QED  BY <2>1, <2>2 DEF Injection, IsInjective
<1>6. f \in Surjection(kept, 1..n)
  BY <1>2, <1>5, FS_Interval, FS_Injection
<1>7. \A k \in 1..n : \E l \in kept : Cardinality(Below(l)) = k
  BY <1>6 DEF Surjection
<1>. DEFINE pick(k) == CHOOSE l \in kept : Cardinality(Below(l)) = k
<1>8. \A k \in 1..n : pick(k) \in kept /\ Cardinality(Below(pick(k))) = k
  BY <1>7
<1>9. \A l \in kept : Cardinality(Below(l)) \in 1..n /\ pick(Cardinality(Below(l))) = l
  BY <1>2, <1>3, <1>4, <1>8
<1>10. w = [k \in 1..n |-> s[pick(k)]]
  OBVIOUS
<1>11. \A l \in kept : l \in 1..Len(s) /\ s[l] \in X /\ s[l] \notin S
  BY <1>2
<1>. HIDE DEF w, pick, n, Below
<1>12. w \in Seq(X) /\ Len(w) = n
  <2>1. w \in [1..n -> X]
    BY <1>8, <1>10, <1>11
  <2>. QED  BY <1>2, <2>1
<1>13. Elems(w) = Elems(s) \ S
  <2>1. ASSUME NEW x \in Elems(w) PROVE x \in Elems(s) \ S
    BY <1>8, <1>10, <1>11, <1>12 DEF Elems
  <2>2. ASSUME NEW x \in Elems(s) \ S PROVE x \in Elems(w)
    <3>1. PICK l \in 1..Len(s) : x = s[l]
      BY DEF Elems
    <3>2. l \in kept
      BY <3>1
    <3>. QED  BY <1>9, <1>10, <1>12, <3>1, <3>2 DEF Elems
  <2>. QED  BY <2>1, <2>2
<1>14. ASSUME Injective(s), NEW k \in 1..n, NEW l \in 1..n, w[k] = w[l]
       PROVE  k = l
  <2>1. s[pick(k)] = s[pick(l)]
    BY <1>10, <1>14
  <2>2. pick(k) = pick(l)
    BY <1>8, <1>11, <1>14, <2>1 DEF Injective
  <2>. QED  BY <1>8, <2>2
<1>15. Injective(s) => Injective(w)
  BY <1>12, <1>14 DEF Injective
<1>. QED  BY <1>1, <1>12, <1>13, <1>15

\* A list of different connections.
Links(s) == s \in Seq(Names) /\ Injective(s)

LEMMA LinksBounded ==
    ASSUME NEW s, Links(s)
    PROVE  /\ Len(s) \in Nat /\ Len(s) <= MaxConns /\ Elems(s) \subseteq Names
           /\ IsFiniteSet(Elems(s)) /\ Cardinality(Elems(s)) = Len(s)
<1>1. IsFiniteSet(Elems(s)) /\ Cardinality(Elems(s)) = Len(s) /\ Elems(s) \subseteq Names
  BY InjectiveLength, SeqWords DEF Links
<1>2. Len(s) \in Nat /\ Len(s) <= MaxConns
  BY <1>1, NamesFinite, FS_Subset DEF Links
<1> QED BY <1>1, <1>2

LEMMA LinksTyped ==
    ASSUME NEW s, Links(s)
    PROVE  s \in {q \in Backend!BoundedSeq(Names, MaxConns) : Backend!IsInjective(q)}
<1>1. s \in Backend!BoundedSeq(Names, MaxConns)
  <2>1. s \in [1..Len(s) -> Names] /\ Len(s) \in 0..MaxConns
    BY LinksBounded, NamesFinite DEF Links
  <2> QED BY <2>1 DEF Backend!BoundedSeq, Backend!SeqOf
<1>2. Backend!IsInjective(s)
  BY SeqWords DEF Links
<1> QED BY <1>1, <1>2

LEMMA LinksWithout ==
    ASSUME NEW s, Links(s), NEW S
    PROVE  /\ Links(Backend!Without(s, S)) /\ Elems(Backend!Without(s, S)) = Elems(s) \ S
           /\ Len(Backend!Without(s, S)) <= Len(s)
           /\ S \cap Elems(s) # {} => Len(Backend!Without(s, S)) < Len(s)
<1> DEFINE w == Backend!Without(s, S)
<1>1. Links(w) /\ Elems(w) = Elems(s) \ S
  BY WithoutFacts DEF Links
<1> HIDE DEF w
<1>2. /\ IsFiniteSet(Elems(s)) /\ Cardinality(Elems(s)) = Len(s)
      /\ Cardinality(Elems(w)) = Len(w) /\ Len(s) \in Nat /\ Len(w) \in Nat
  BY <1>1, LinksBounded
<1>3. Len(w) <= Len(s)
  BY <1>1, <1>2, FS_Subset
<1>4. ASSUME S \cap Elems(s) # {} PROVE Len(w) < Len(s)
  <2>1. Elems(w) # Elems(s) /\ Elems(w) \subseteq Elems(s)
    BY <1>1, <1>4
  <2>2. Cardinality(Elems(w)) # Cardinality(Elems(s))
    BY <1>2, <2>1, FS_Subset
  <2> QED BY <1>2, <1>3, <2>2
<1> QED BY <1>1, <1>3, <1>4 DEF w

LEMMA LinksAppend ==
    ASSUME NEW s, Links(s), NEW c \in Names, c \notin Elems(s)
    PROVE  /\ Links(Append(s, c)) /\ Elems(Append(s, c)) = Elems(s) \cup {c}
           /\ Len(Append(s, c)) = Len(s) + 1
<1>1. s \in Seq(Names) /\ Len(s) \in Nat
  BY DEF Links
<1>2. Append(s, c) \in Seq(Names) /\ Len(Append(s, c)) = Len(s) + 1
  BY <1>1
<1>3. /\ \A k \in 1..Len(s) : Append(s, c)[k] = s[k]
      /\ Append(s, c)[Len(s) + 1] = c
  BY <1>1
<1>4. Elems(Append(s, c)) = Elems(s) \cup {c}
  BY <1>1, <1>2, <1>3 DEF Elems
<1>5. Injective(Append(s, c))
  <2>1. \A k \in 1..Len(s) : s[k] # c
    BY DEF Elems
  <2> QED BY <1>1, <1>2, <1>3, <2>1 DEF Links, Injective
<1> QED BY <1>2, <1>4, <1>5 DEF Links

LEMMA LinksHead ==
    ASSUME NEW s, Links(s), s # <<>>
    PROVE  Head(s) \in Elems(s) /\ Head(s) \in Names
<1>1. s \in Seq(Names) /\ Len(s) \in Nat /\ Len(s) > 0 /\ Head(s) = s[1]
  BY EmptySeq DEF Links
<1>2. Head(s) \in Elems(s)
  BY <1>1 DEF Elems
<1> QED BY <1>2, LinksBounded
-----------------------------------------------------------------------------
(***************************************************************************)
(* The pool by itself                                                      *)
(***************************************************************************)
PoolRecord == [
    order : Seq(Names), heap : Seq(Names), in_use : SUBSET Names,
    uses : [Names -> Backend!Upto(MaxUses)],
    created : [Names -> Backend!Upto(Backend!CreatedCap)],
    released : [Names -> Backend!Upto(Backend!ReleasedCap)],
    active : Int, pending : Int, max_pending : 1..MaxConns,
    last_failed : Backend!Upto(Backend!FailedCap) \cup {None},
    last_opened : Backend!Upto(Backend!OpenedCap),
    delay_interval : Nat, next_delay : Backend!Upto(CleanupInterval + 1),
    checked : BOOLEAN ]

\* What delay_interval may still grow by: once for each connection that can be
\* closed, and by a next_delay that is halved each time.
DelayFits(p) ==
    p.delay_interval + Len(p.order) + (IF p.next_delay = 0 THEN 0 ELSE p.next_delay - 1)
        <= Backend!OpenedCap

Shape(p) ==
    /\ p \in PoolRecord
    /\ Injective(p.order) /\ Injective(p.heap)
    /\ p.in_use \subseteq Elems(p.order)
    /\ Elems(p.heap) = Elems(p.order) \ p.in_use
    /\ DelayFits(p)

LEMMA Numbers ==
    /\ MaxUses \in Nat /\ CleanupInterval \in Nat /\ Backend!OpenedCap \in Nat
    /\ Backend!CreatedCap \in Nat /\ Backend!ReleasedCap \in Nat /\ Backend!FailedCap \in Nat
    /\ Backend!OpenedCap = 2 * CleanupInterval + MaxConns /\ StartConns \in 0..MaxConns
BY BackendAssumption DEF Backend!ConnAssumption, Backend!OpenedCap, Backend!CreatedCap,
    Backend!ReleasedCap, Backend!FailedCap

LEMMA ShapeFields ==
    ASSUME NEW p, Shape(p)
    PROVE  /\ p \in PoolRecord /\ Links(p.order) /\ Links(p.heap) /\ p.in_use \subseteq Names
           /\ p.in_use \subseteq Elems(p.order) /\ Elems(p.heap) = Elems(p.order) \ p.in_use
           /\ p.active \in Int /\ p.pending \in Int /\ Len(p.order) \in 0..MaxConns
           /\ p.delay_interval \in Nat /\ p.next_delay \in Nat
           /\ p.next_delay <= CleanupInterval + 1
<1>1. p \in PoolRecord /\ Links(p.order) /\ Links(p.heap)
  BY DEF Shape, Links, PoolRecord
<1>2. Len(p.order) \in 0..MaxConns
  BY <1>1, LinksBounded, NamesFinite
<1> QED BY <1>1, <1>2, Numbers DEF Shape, PoolRecord, Backend!Upto

LEMMA ShapeTyped ==
    ASSUME NEW p, Shape(p), p.active \in 0..MaxConns, p.pending \in 0..MaxConns
    PROVE  p \in Backend!Pool
<1>1. /\ p.order \in {q \in Backend!BoundedSeq(Names, MaxConns) : Backend!IsInjective(q)}
      /\ p.heap \in {q \in Backend!BoundedSeq(Names, MaxConns) : Backend!IsInjective(q)}
  BY ShapeFields, LinksTyped
<1>2. p.delay_interval \in Backend!Upto(Backend!OpenedCap)
  <2>1. Len(p.order) \in Nat /\ p.delay_interval \in Nat /\ p.next_delay \in Nat
    BY ShapeFields
  <2>2. p.delay_interval <= Backend!OpenedCap
    BY <2>1, Numbers DEF Shape, DelayFits
  <2> QED BY <2>1, <2>2, Numbers DEF Backend!Upto
<1>3. p.active \in Backend!Upto(MaxConns) /\ p.pending \in Backend!Upto(MaxConns)
  BY DEF Backend!Upto
<1>4. p \in PoolRecord
  BY ShapeFields
<1> QED BY <1>1, <1>2, <1>3, <1>4 DEF PoolRecord, Backend!Pool, Names

LEMMA CloseAllShape ==
    ASSUME NEW p, Shape(p), NEW S
    PROVE  LET q == Backend!CloseAll(p, S)
           IN  /\ Shape(q)
               /\ q.in_use = p.in_use \ S /\ Elems(q.order) = Elems(p.order) \ S
               /\ q.active = p.active - Cardinality(S \cap p.in_use) /\ q.pending = p.pending
               /\ Len(q.order) <= Len(p.order)
               /\ S \cap Elems(p.order) # {} => Len(q.order) < Len(p.order)
               /\ q.delay_interval = p.delay_interval /\ q.next_delay = p.next_delay
<1> DEFINE q == Backend!CloseAll(p, S)
           o == Backend!Without(p.order, S)
           h == Backend!Without(p.heap, S \ p.in_use)
           n == Cardinality(S \cap p.in_use)
<1>1. /\ Links(o) /\ Elems(o) = Elems(p.order) \ S /\ Len(o) <= Len(p.order)
      /\ S \cap Elems(p.order) # {} => Len(o) < Len(p.order)
  BY ShapeFields, LinksWithout
<1>2. Links(h) /\ Elems(h) = Elems(p.heap) \ (S \ p.in_use)
  BY ShapeFields, LinksWithout
<1>3. n \in Nat
  BY ShapeFields, NamesFinite, FS_Subset, FS_CardinalityType
<1>4. Backend!Cardinality(S \cap p.in_use) = n
  BY SameCount
<1> HIDE DEF o, h, n
<1>5. q = [p EXCEPT !.order = o, !.heap = h, !.in_use = @ \ S, !.active = @ - n]
  BY <1>4 DEF Backend!CloseAll, o, h
<1> HIDE DEF q
<1>6. /\ p \in PoolRecord /\ o \in Seq(Names) /\ h \in Seq(Names)
  BY <1>1, <1>2, ShapeFields DEF Links
<1>7. q \in PoolRecord
  <2>1. p.in_use \ S \in SUBSET Names /\ p.active - n \in Int
    BY <1>3, ShapeFields
  <2> HIDE DEF Names
  <2> QED BY <2>1, <1>5, <1>6 DEF PoolRecord
<1>8. /\ q.order = o /\ q.heap = h /\ q.in_use = p.in_use \ S /\ q.active = p.active - n
      /\ q.pending = p.pending /\ q.delay_interval = p.delay_interval
      /\ q.next_delay = p.next_delay
  BY <1>5, <1>6 DEF PoolRecord
<1>9. q.in_use \subseteq Elems(q.order) /\ Elems(q.heap) = Elems(q.order) \ q.in_use
  BY <1>1, <1>2, <1>8, ShapeFields
<1>10. DelayFits(q)
  <2>1. /\ Len(o) \in Nat /\ Len(p.order) \in Nat /\ p.delay_interval \in Nat
        /\ p.next_delay \in Nat
    BY <1>1, ShapeFields, LinksBounded
  <2>2. DelayFits(p)
    BY DEF Shape
  <2> QED BY <1>1, <1>8, <2>1, <2>2, Numbers DEF DelayFits
<1>11. Shape(q)
  BY <1>1, <1>2, <1>7, <1>8, <1>9, <1>10 DEF Shape, Links
<1> QED BY <1>1, <1>8, <1>11 DEF q, n

\* q is p with some idle connections closed and its times read again.
Trimmed(p, q) ==
    /\ Shape(q) /\ q.in_use = p.in_use /\ q.active = p.active /\ q.pending = p.pending
    /\ Len(q.order) <= Len(p.order)

LEMMA CloseIdle ==
    ASSUME NEW p, Shape(p), NEW S, S \cap p.in_use = {}
    PROVE  /\ Trimmed(p, Backend!CloseAll(p, S))
           /\ Elems(Backend!CloseAll(p, S).order) = Elems(p.order) \ S
<1> DEFINE q == Backend!CloseAll(p, S)
<1>1. /\ Shape(q) /\ q.in_use = p.in_use \ S /\ Elems(q.order) = Elems(p.order) \ S
      /\ q.active = p.active - Cardinality(S \cap p.in_use) /\ q.pending = p.pending
      /\ Len(q.order) <= Len(p.order)
  BY CloseAllShape
<1> HIDE DEF q
<1>2. q.active = p.active
  <2>1. Cardinality(S \cap p.in_use) = 0 /\ p.active \in Int
    BY ShapeFields, FS_EmptySet
  <2> QED BY <1>1, <2>1
<1>3. q.in_use = p.in_use
  BY <1>1
<1> QED BY <1>1, <1>2, <1>3 DEF Trimmed, q

LEMMA Rechecked ==
    ASSUME NEW p, Shape(p), NEW b \in BOOLEAN
    PROVE  Trimmed(p, [p EXCEPT !.checked = b])
<1> DEFINE q == [p EXCEPT !.checked = b]
<1>1. p \in PoolRecord
  BY ShapeFields
<1>2. q \in PoolRecord
  BY <1>1 DEF PoolRecord
<1>3. /\ q.order = p.order /\ q.heap = p.heap /\ q.in_use = p.in_use /\ q.active = p.active
      /\ q.pending = p.pending /\ q.delay_interval = p.delay_interval
      /\ q.next_delay = p.next_delay
  BY <1>1 DEF PoolRecord
<1> HIDE DEF q
<1>4. DelayFits(q)
  BY <1>3 DEF Shape, DelayFits
<1>5. Shape(q)
  BY <1>2, <1>3, <1>4 DEF Shape
<1> QED BY <1>3, <1>5, ShapeFields DEF Trimmed, q

LEMMA TrimmedTwice ==
    ASSUME NEW p, NEW q, NEW r, Shape(p), Trimmed(p, q), Trimmed(q, r)
    PROVE  Trimmed(p, r)
<1>1. Len(p.order) \in Nat /\ Len(q.order) \in Nat /\ Len(r.order) \in Nat
  BY ShapeFields DEF Trimmed
<1> QED BY <1>1 DEF Trimmed

LEMMA ManageTrims ==
    ASSUME NEW p, Shape(p), NEW age
    PROVE  Trimmed(p, Backend!ManageAll(p, age))
<1> DEFINE S == {c \in Backend!ToSet(p.order) : Backend!Expired(p, c, age, FALSE)}
           q == Backend!CloseAll(p, S)
<1>1. S \cap p.in_use = {}
  BY DEF Backend!Expired
<1>2. Trimmed(p, q)
  BY <1>1, CloseIdle
<1>3. Backend!ManageAll(p, age) = [q EXCEPT !.checked = (age = 0)]
  BY DEF Backend!ManageAll
<1>4. (age = 0) \in BOOLEAN
  OBVIOUS
<1> HIDE DEF q
<1>5. Trimmed(q, [q EXCEPT !.checked = (age = 0)])
  BY <1>2, <1>4, Rechecked DEF Trimmed
<1> QED BY <1>2, <1>3, <1>5, TrimmedTwice

\* The connection Get takes is not one of those it closes on the way.
LEMMA DropTrims ==
    ASSUME NEW p, Shape(p)
    PROVE  /\ Trimmed(p, Backend!DropExpired(p))
           /\ Backend!Usable(p) # <<>>
                => /\ Head(Backend!Usable(p)) \in Elems(Backend!DropExpired(p).order)
                   /\ Head(Backend!Usable(p)) \notin p.in_use
<1> DEFINE S == {c \in Backend!ToSet(p.heap) :
                   /\ Backend!Expired(p, c, 0, TRUE)
                   /\ \A d \in Backend!ToSet(Backend!Usable(p)) :
                        \E i, j \in DOMAIN p.order : i < j /\ p.order[i] = c /\ p.order[j] = d}
           E == {c \in Names : Backend!Expired(p, c, 0, TRUE)}
           q == Backend!DropExpired(p)
           b == Backend!ByReserved(p)
           u == Backend!Usable(p)
<1>1. q = Backend!CloseAll(p, S)
  BY DEF Backend!DropExpired
<1>2. /\ S \cap p.in_use = {}
      /\ S \subseteq {c \in Backend!ToSet(p.heap) : Backend!Expired(p, c, 0, TRUE)}
  BY DEF Backend!Expired
<1>3. Backend!ToSet(p.heap) = Elems(p.heap) /\ Elems(p.heap) \subseteq Names
  BY ShapeFields, SeqWords DEF Links
<1>4. S \subseteq E
  BY <1>2, <1>3
<1> HIDE DEF S
<1>5. Trimmed(p, q) /\ Elems(q.order) = Elems(p.order) \ S
  BY <1>1, <1>2, CloseIdle
<1>6. Links(b) /\ Elems(b) = Elems(p.order) \ (Names \ Elems(p.heap))
  BY <1>3, ShapeFields, LinksWithout DEF Backend!ByReserved, Names
<1>7. Links(u) /\ Elems(u) = Elems(b) \ E
  BY <1>6, LinksWithout DEF Backend!Usable, Names
<1> HIDE DEF q, b, u, E
<1>8. ASSUME u # <<>>
      PROVE  Head(u) \in Elems(q.order) /\ Head(u) \notin p.in_use
  <2>1. Head(u) \in Elems(u) /\ Head(u) \in Names
    BY <1>7, <1>8, LinksHead
  <2>2. Head(u) \in Elems(p.order) /\ Head(u) \in Elems(p.heap) /\ Head(u) \notin E
    BY <1>6, <1>7, <2>1
  <2> QED BY <1>4, <1>5, <2>2, ShapeFields
<1> QED BY <1>5, <1>8 DEF q, u

LEMMA UnusedHead ==
    ASSUME NEW p, Shape(p), Backend!Unused(p) # <<>>
    PROVE  /\ Head(Backend!Unused(p)) \in Elems(p.order)
           /\ Head(Backend!Unused(p)) \notin p.in_use
<1> DEFINE u == Backend!Unused(p)
<1>1. Links(u) /\ Elems(u) = Elems(p.order) \ p.in_use
  BY ShapeFields, LinksWithout DEF Backend!Unused
<1> HIDE DEF u
<1>2. u # <<>> => Head(u) \in Elems(u)
  BY <1>1, LinksHead
<1> QED BY <1>1, <1>2 DEF u

LEMMA SpareTrims ==
    ASSUME NEW p, Shape(p), Backend!Unused(p) # <<>>
    PROVE  Trimmed(p, Backend!CloseSpare(p))
<1> DEFINE c == Head(Backend!Unused(p))
           q == Backend!CloseAll(p, {c})
           d == p.next_delay
           next == IF d \div 2 = 0 THEN 1 ELSE d \div 2
           r == [q EXCEPT !.next_delay = next, !.delay_interval = @ + next]
<1>1. c \in Elems(p.order) /\ c \notin p.in_use
  BY UnusedHead
<1>2. Backend!CloseSpare(p) = r
  BY DEF Backend!CloseSpare, Backend!CloseInternal
<1> HIDE DEF c
<1>3. Trimmed(p, q) /\ Len(q.order) < Len(p.order) /\ q.delay_interval = p.delay_interval
  <2>1. {c} \cap p.in_use = {} /\ {c} \cap Elems(p.order) # {}
    BY <1>1
  <2>2. Trimmed(p, q)
    BY <2>1, CloseIdle
  <2>3. /\ {c} \cap Elems(p.order) # {} => Len(q.order) < Len(p.order)
        /\ q.delay_interval = p.delay_interval
    BY CloseAllShape
  <2> QED BY <2>1, <2>2, <2>3
<1> HIDE DEF q
<1>4. /\ d \in Nat /\ d <= CleanupInterval + 1 /\ p.delay_interval \in Nat
      /\ Len(p.order) \in Nat /\ Len(q.order) \in Nat
  BY <1>3, ShapeFields DEF Trimmed
<1>5. /\ next \in Nat /\ next > 0 /\ next <= CleanupInterval + 1
      /\ next - 1 + next <= IF d = 0 THEN 1 ELSE d
  BY <1>4, Numbers
<1> HIDE DEF next, d
<1>6. q \in PoolRecord
  BY <1>3, ShapeFields DEF Trimmed
<1>7. r \in PoolRecord
  <2>1. next \in Backend!Upto(CleanupInterval + 1) /\ q.delay_interval + next \in Nat
    BY <1>3, <1>4, <1>5, Numbers DEF Backend!Upto
  <2> HIDE DEF Names
  <2> QED BY <1>6, <2>1 DEF PoolRecord
<1>8. /\ r.order = q.order /\ r.heap = q.heap /\ r.in_use = q.in_use /\ r.active = q.active
      /\ r.pending = q.pending /\ r.delay_interval = q.delay_interval + next
      /\ r.next_delay = next
  BY <1>6 DEF PoolRecord
<1> HIDE DEF r
<1>9. DelayFits(r)
  <2>1. p.delay_interval + Len(p.order) + (IF d = 0 THEN 0 ELSE d - 1) <= Backend!OpenedCap
    BY DEF Shape, DelayFits, d
  <2>2. r.delay_interval = p.delay_interval + next /\ r.order = q.order
    BY <1>3, <1>8
  <2> DEFINE a == p.delay_interval
             l == Len(p.order)
             m == Len(q.order)
             o == Backend!OpenedCap
  <2>3. a \in Nat /\ l \in Nat /\ m \in Nat /\ m < l /\ o \in Nat
    BY <1>3, <1>4, Numbers
  <2>4. a + l + (IF d = 0 THEN 0 ELSE d - 1) <= o
    BY <2>1
  <2> HIDE DEF a, l, m, o
  <2>5. (a + next) + m + (next - 1) <= o
    <3>1. CASE d = 0
      BY <1>5, <2>3, <2>4, <3>1
    <3>2. CASE d # 0
      BY <1>4, <1>5, <2>3, <2>4, <3>2
    <3> QED BY <3>1, <3>2
  <2>6. r.delay_interval + Len(r.order) + (next - 1) <= Backend!OpenedCap
    BY <2>2, <2>5 DEF a, m, o
  <2> QED BY <1>5, <1>8, <2>6 DEF DelayFits
<1>10. Shape(r)
  BY <1>3, <1>7, <1>8, <1>9 DEF Shape, Trimmed
<1> QED BY <1>2, <1>3, <1>8, <1>10 DEF Trimmed

LEMMA ReserveShape ==
    ASSUME NEW p, Shape(p), NEW c \in Elems(p.order)
    PROVE  LET q == Backend!Reserve(p, c)
           IN  /\ Shape(q)
               /\ q.in_use = p.in_use \cup {c} /\ q.active = p.active + 1
               /\ q.pending = p.pending /\ Len(q.order) <= Len(p.order)
<1> DEFINE o == Append(Backend!Without(p.order, {c}), c)
           h == Backend!Without(p.heap, {c})
           v == [p.uses EXCEPT ![c] = IF p.uses[c] < MaxUses THEN p.uses[c] + 1 ELSE p.uses[c]]
           q == Backend!Reserve(p, c)
<1>1. c \in Names
  BY ShapeFields, LinksBounded
<1>2. Links(h) /\ Elems(h) = Elems(p.heap) \ {c}
  BY ShapeFields, LinksWithout
<1>3. Links(o) /\ Elems(o) = Elems(p.order) /\ Len(o) <= Len(p.order)
  <2> DEFINE w == Backend!Without(p.order, {c})
  <2>1. /\ Links(w) /\ Elems(w) = Elems(p.order) \ {c} /\ Len(w) < Len(p.order)
    BY ShapeFields, LinksWithout
  <2> HIDE DEF w
  <2>2. /\ Links(Append(w, c)) /\ Elems(Append(w, c)) = Elems(w) \cup {c}
        /\ Len(Append(w, c)) = Len(w) + 1
    BY <1>1, <2>1, LinksAppend
  <2>3. Len(w) \in Nat /\ Len(p.order) \in Nat
    BY <2>1, ShapeFields, LinksBounded
  <2>4. Elems(Append(w, c)) = Elems(p.order) /\ Len(Append(w, c)) <= Len(p.order)
    BY <2>1, <2>2, <2>3
  <2> QED BY <2>2, <2>4 DEF w
<1>4. v \in [Names -> Backend!Upto(MaxUses)]
  <2>1. p.uses \in [Names -> 0..MaxUses]
    BY ShapeFields DEF PoolRecord, Backend!Upto
  <2> HIDE DEF Names
  <2>2. p.uses[c] \in 0..MaxUses
    BY <1>1, <2>1
  <2>3. (IF p.uses[c] < MaxUses THEN p.uses[c] + 1 ELSE p.uses[c]) \in 0..MaxUses
    BY <2>2, Numbers
  <2> QED BY <2>1, <2>3 DEF Backend!Upto
<1>5. q = [p EXCEPT !.heap = h, !.order = o, !.in_use = @ \cup {c}, !.active = @ + 1,
                    !.uses = v]
  BY DEF Backend!Reserve
<1> HIDE DEF o, h, v, q
<1>6. p \in PoolRecord /\ o \in Seq(Names) /\ h \in Seq(Names)
  BY <1>2, <1>3, ShapeFields DEF Links
<1>7. q \in PoolRecord
  <2>1. p.in_use \cup {c} \in SUBSET Names /\ p.active + 1 \in Int
    BY <1>1, ShapeFields
  <2> HIDE DEF Names
  <2> QED BY <2>1, <1>4, <1>5, <1>6 DEF PoolRecord
<1>8. /\ q.order = o /\ q.heap = h /\ q.in_use = p.in_use \cup {c} /\ q.active = p.active + 1
      /\ q.pending = p.pending /\ q.delay_interval = p.delay_interval
      /\ q.next_delay = p.next_delay
  BY <1>5, <1>6 DEF PoolRecord
<1>9. q.in_use \subseteq Elems(q.order) /\ Elems(q.heap) = Elems(q.order) \ q.in_use
  BY <1>2, <1>3, <1>8, ShapeFields
<1>10. DelayFits(q)
  <2>1. /\ Len(o) \in Nat /\ Len(p.order) \in Nat /\ p.delay_interval \in Nat
        /\ p.next_delay \in Nat
    BY <1>3, ShapeFields, LinksBounded
  <2>2. DelayFits(p)
    BY DEF Shape
  <2> QED BY <1>3, <1>8, <2>1, <2>2, Numbers DEF DelayFits
<1>11. Shape(q)
  BY <1>2, <1>3, <1>7, <1>8, <1>9, <1>10 DEF Shape, Links
<1> QED BY <1>3, <1>8, <1>11 DEF q

LEMMA ReleasedShape ==
    ASSUME NEW p, Shape(p), NEW c \in p.in_use
    PROVE  LET q == Backend!Released(p, c)
           IN  /\ Shape(q)
               /\ q.in_use = p.in_use \ {c} /\ q.active = p.active - 1
               /\ q.pending = p.pending /\ Len(q.order) <= Len(p.order)
<1> DEFINE h == Append(p.heap, c)
           v == [p.released EXCEPT ![c] = 0]
           q == Backend!Released(p, c)
<1>1. c \in Names /\ c \notin Elems(p.heap)
  BY ShapeFields
<1>2. Links(h) /\ Elems(h) = Elems(p.heap) \cup {c}
  BY <1>1, ShapeFields, LinksAppend
<1>3. v \in [Names -> Backend!Upto(Backend!ReleasedCap)]
  <2>1. p.released \in [Names -> 0..Backend!ReleasedCap]
    BY ShapeFields DEF PoolRecord, Backend!Upto
  <2>2. 0 \in 0..Backend!ReleasedCap
    BY Numbers
  <2> HIDE DEF Names
  <2> QED BY <2>1, <2>2 DEF Backend!Upto
<1>4. q = [p EXCEPT !.in_use = @ \ {c}, !.released = v, !.heap = h, !.active = @ - 1]
  BY DEF Backend!Released
<1> HIDE DEF h, v, q
<1>5. p \in PoolRecord /\ h \in Seq(Names)
  BY <1>2, ShapeFields DEF Links
<1>6. q \in PoolRecord
  <2>1. p.in_use \ {c} \in SUBSET Names /\ p.active - 1 \in Int
    BY <1>1, ShapeFields
  <2> HIDE DEF Names
  <2> QED BY <2>1, <1>3, <1>4, <1>5 DEF PoolRecord
<1>7. /\ q.order = p.order /\ q.heap = h /\ q.in_use = p.in_use \ {c} /\ q.active = p.active - 1
      /\ q.pending = p.pending /\ q.delay_interval = p.delay_interval
      /\ q.next_delay = p.next_delay
  BY <1>4, <1>5 DEF PoolRecord
<1>8. q.in_use \subseteq Elems(q.order) /\ Elems(q.heap) = Elems(q.order) \ q.in_use
  BY <1>2, <1>7, ShapeFields
<1>9. DelayFits(q)
  BY <1>7 DEF Shape, DelayFits
<1>10. Shape(q)
  BY <1>2, <1>6, <1>7, <1>8, <1>9, ShapeFields DEF Shape, Links
<1> QED BY <1>7, <1>10, ShapeFields DEF q

\* q is p with the new connection c, which the caller reserves if b.
LinkedAs(p, q, c, b) ==
    /\ Shape(q) /\ q.in_use = IF b THEN p.in_use \cup {c} ELSE p.in_use
    /\ q.active = p.active /\ q.pending = p.pending - 1
    /\ Len(q.order) = Len(p.order) + 1

LEMMA LinkedShape ==
    ASSUME NEW p, Shape(p), NEW c \in Names, c \notin Elems(p.order), Len(p.order) < MaxConns,
           NEW age \in Nat, NEW b \in BOOLEAN
    PROVE  LinkedAs(p, Backend!Linked(p, c, age, b), c, b)
<1> DEFINE o == Append(p.order, c)
           h == IF b THEN p.heap ELSE Append(p.heap, c)
           n == IF b THEN p.in_use \cup {c} ELSE p.in_use
           v == [p.uses EXCEPT ![c] = 0]
           k == IF age < Backend!CreatedCap THEN age ELSE Backend!CreatedCap
           w == [p.created EXCEPT ![c] = k]
           x == [p.released EXCEPT ![c] = 0]
           m == IF p.max_pending < MaxConns THEN p.max_pending + 1 ELSE p.max_pending
           q == Backend!Linked(p, c, age, b)
<1>1. c \notin Elems(p.heap) /\ c \notin p.in_use
  BY ShapeFields
<1>2. Links(o) /\ Elems(o) = Elems(p.order) \cup {c} /\ Len(o) = Len(p.order) + 1
  BY ShapeFields, LinksAppend
<1>3. Links(h) /\ Elems(h) = IF b THEN Elems(p.heap) ELSE Elems(p.heap) \cup {c}
  BY <1>1, ShapeFields, LinksAppend
<1>4. p \in PoolRecord
  BY ShapeFields
<1>5. /\ v \in [Names -> Backend!Upto(MaxUses)]
      /\ w \in [Names -> Backend!Upto(Backend!CreatedCap)]
      /\ x \in [Names -> Backend!Upto(Backend!ReleasedCap)]
  <2>1. k \in 0..Backend!CreatedCap /\ 0 \in 0..Backend!ReleasedCap /\ 0 \in 0..MaxUses
    BY Numbers
  <2> HIDE DEF k, Names
  <2>2. /\ p.uses \in [Names -> 0..MaxUses]
        /\ p.created \in [Names -> 0..Backend!CreatedCap]
        /\ p.released \in [Names -> 0..Backend!ReleasedCap]
    BY <1>4 DEF PoolRecord, Backend!Upto
  <2> QED BY <2>1, <2>2 DEF Backend!Upto
<1>6. m \in 1..MaxConns
  <2>1. p.max_pending \in 1..MaxConns
    BY <1>4 DEF PoolRecord
  <2> QED BY <2>1, NamesFinite
<1>7. /\ CleanupInterval \in Nat /\ CleanupInterval \in Backend!Upto(CleanupInterval + 1)
      /\ 0 \in Backend!Upto(Backend!OpenedCap)
  BY Numbers DEF Backend!Upto
<1>8. n \in SUBSET Names
  BY ShapeFields
<1>9. q = [p EXCEPT !.order = o, !.heap = h, !.in_use = n, !.uses = v, !.created = w,
                    !.released = x, !.pending = @ - 1, !.max_pending = m, !.last_opened = 0,
                    !.delay_interval = CleanupInterval, !.next_delay = CleanupInterval,
                    !.last_failed = None]
  BY DEF Backend!Linked
<1>10. o \in Seq(Names) /\ h \in Seq(Names) /\ p.pending - 1 \in Int
  BY <1>2, <1>3, ShapeFields DEF Links
<1> HIDE DEF o, h, n, v, w, x, m, q
<1>11. q \in PoolRecord
  <2> HIDE DEF Names
  <2> QED BY <1>4, <1>5, <1>6, <1>7, <1>8, <1>9, <1>10 DEF PoolRecord
<1>12. /\ q.order = o /\ q.heap = h /\ q.in_use = n /\ q.active = p.active
       /\ q.pending = p.pending - 1 /\ q.delay_interval = CleanupInterval
       /\ q.next_delay = CleanupInterval
  BY <1>4, <1>9 DEF PoolRecord
<1>13. q.in_use \subseteq Elems(q.order) /\ Elems(q.heap) = Elems(q.order) \ q.in_use
  BY <1>1, <1>2, <1>3, <1>12, ShapeFields DEF n
<1>14. DelayFits(q)
  <2>1. Len(p.order) \in Nat /\ Len(o) = Len(p.order) + 1 /\ MaxConns \in Nat
    BY <1>2, ShapeFields, NamesFinite
  <2>2. CleanupInterval + Len(o) + (IF CleanupInterval = 0 THEN 0 ELSE CleanupInterval - 1)
            <= 2 * CleanupInterval + MaxConns
    <3>1. CASE CleanupInterval = 0
      BY <2>1, <3>1
    <3>2. CASE CleanupInterval # 0
      BY <1>7, <2>1, <3>2
    <3> QED BY <3>1, <3>2
  <2> QED BY <1>12, <2>2, Numbers DEF DelayFits
<1>15. Shape(q)
  BY <1>2, <1>3, <1>11, <1>12, <1>13, <1>14 DEF Shape, Links
<1> QED BY <1>2, <1>12, <1>15 DEF q, n, LinkedAs

LEMMA SameLists ==
    ASSUME NEW p, Shape(p), NEW q \in PoolRecord, q.order = p.order, q.heap = p.heap,
           q.in_use = p.in_use, q.delay_interval = p.delay_interval,
           q.next_delay = p.next_delay
    PROVE  Shape(q)
BY DEF Shape, DelayFits

-----------------------------------------------------------------------------
(***************************************************************************)
(* The pool and the threads                                                *)
(***************************************************************************)
Opening == {"create", "failed"}
Mine == {"mine", "held"}
In(T, A) == {t \in Thread : T[t].at \in A}
One(x, A) == IF x.at \in A THEN 1 ELSE 0

\* The reserved connections: one thread's each, and marked so in the pool.
Reserved(T) == {T[t].conn : t \in In(T, Mine)}

Alone(T) == \A t, u \in In(T, Mine) : T[t].conn = T[u].conn => t = u

Sound(p, T) ==
    /\ T \in [Thread -> Backend!Call] /\ Shape(p)
    /\ Alone(T) /\ p.in_use = Reserved(T)
    /\ IsFiniteSet(In(T, {"held"})) /\ p.active = Cardinality(In(T, {"held"}))
    /\ IsFiniteSet(In(T, Opening)) /\ p.pending = Cardinality(In(T, Opening))
    /\ Len(p.order) + p.pending <= MaxConns

\* A count of n after one thread went from x to y.
Recount(n, x, y, A) == n - One(x, A) + One(y, A)

Recounted(T, U, t, A) ==
    IsFiniteSet(In(U, A)) /\ Cardinality(In(U, A)) = Recount(Cardinality(In(T, A)), T[t], U[t], A)

LEMMA InMoves ==
    ASSUME NEW T \in [Thread -> Backend!Call], NEW t \in Thread, NEW b, NEW A,
           IsFiniteSet(In(T, A)), NEW U, U = [T EXCEPT ![t] = b]
    PROVE  Recounted(T, U, t, A)
<1>1. Cardinality(In(T, A)) \in Nat
  BY FS_CardinalityType
<1>2. /\ IsFiniteSet(In(T, A) \cup {t})
      /\ Cardinality(In(T, A) \cup {t}) =
            IF t \in In(T, A) THEN Cardinality(In(T, A)) ELSE Cardinality(In(T, A)) + 1
  BY FS_AddElement
<1>3. /\ IsFiniteSet(In(T, A) \ {t})
      /\ Cardinality(In(T, A) \ {t}) =
            IF t \in In(T, A) THEN Cardinality(In(T, A)) - 1 ELSE Cardinality(In(T, A))
  BY FS_RemoveElement
<1>4. In(U, A) = IF b.at \in A THEN In(T, A) \cup {t} ELSE In(T, A) \ {t}
  BY DEF In
<1>5. t \in In(T, A) <=> T[t].at \in A
  BY DEF In
<1> DEFINE n == Cardinality(In(T, A))
           m == Cardinality(In(U, A))
<1>6. /\ IsFiniteSet(In(U, A))
      /\ m = IF b.at \in A THEN (IF T[t].at \in A THEN n ELSE n + 1)
             ELSE (IF T[t].at \in A THEN n - 1 ELSE n)
  BY <1>2, <1>3, <1>4, <1>5
<1>7. n \in Nat
  BY <1>1
<1> HIDE DEF n, m
<1>8. m = n - One(T[t], A) + One(b, A)
  <2>1. CASE b.at \in A /\ T[t].at \in A
    BY <1>6, <1>7, <2>1 DEF One
  <2>2. CASE b.at \in A /\ T[t].at \notin A
    BY <1>6, <1>7, <2>2 DEF One
  <2>3. CASE b.at \notin A /\ T[t].at \in A
    BY <1>6, <1>7, <2>3 DEF One
  <2>4. CASE b.at \notin A /\ T[t].at \notin A
    BY <1>6, <1>7, <2>4 DEF One
  <2> QED BY <2>1, <2>2, <2>3, <2>4
<1>9. U[t] = b
  OBVIOUS
<1> QED BY <1>6, <1>8, <1>9 DEF n, m, Recount, Recounted

Left(T, t) == IF T[t].at \in Mine THEN Reserved(T) \ {T[t].conn} ELSE Reserved(T)

LEMMA ReservedMoves ==
    ASSUME NEW T \in [Thread -> Backend!Call], NEW t \in Thread, NEW b, Alone(T),
           b.at \in Mine => b.conn \notin Left(T, t)
    PROVE  LET U == [T EXCEPT ![t] = b]
           IN  /\ Alone(U)
               /\ Reserved(U) = Left(T, t) \cup (IF b.at \in Mine THEN {b.conn} ELSE {})
<1> DEFINE U == [T EXCEPT ![t] = b]
<1>1. U[t] = b /\ \A u \in Thread : u # t => U[u] = T[u]
  OBVIOUS
<1> HIDE DEF U
<1>2. Left(T, t) = {T[u].conn : u \in In(T, Mine) \ {t}}
  BY DEF Left, Reserved, Alone, In
<1>3. \A u \in Thread \ {t} : u \in In(U, Mine) <=> u \in In(T, Mine)
  BY <1>1 DEF In
<1>4. t \in In(U, Mine) <=> b.at \in Mine
  BY <1>1 DEF In
<1>5. Reserved(U) = Left(T, t) \cup (IF b.at \in Mine THEN {b.conn} ELSE {})
  <2>1. \A u \in In(U, Mine) : u \in Thread
    BY DEF In
  <2>2. \A u \in In(T, Mine) : u \in Thread
    BY DEF In
  <2> QED BY <1>1, <1>2, <1>3, <1>4, <2>1, <2>2 DEF Reserved
<1>6. Alone(U)
  <2> SUFFICES ASSUME NEW u \in In(U, Mine), NEW v \in In(U, Mine), U[u].conn = U[v].conn
               PROVE  u = v
    BY DEF Alone
  <2>1. u \in Thread /\ v \in Thread
    BY DEF In
  <2>2. CASE u # t /\ v # t
    <3>1. u \in In(T, Mine) /\ v \in In(T, Mine) /\ U[u] = T[u] /\ U[v] = T[v]
      BY <1>1, <1>3, <2>1, <2>2
    <3> QED BY <3>1 DEF Alone
  <2>3. \A x \in In(U, Mine) : x # t => U[x].conn \in Left(T, t)
    <3> TAKE x \in In(U, Mine)
    <3> HAVE x # t
    <3>1. x \in Thread
      BY DEF In
    <3>2. x \in In(T, Mine) /\ U[x] = T[x]
      BY <1>1, <1>3, <3>1
    <3> QED BY <1>2, <3>2
  <2>4. t \in In(U, Mine) => U[t].conn \notin Left(T, t)
    BY <1>1, <1>4
  <2> QED BY <2>2, <2>3, <2>4
<1> QED BY <1>5, <1>6 DEF U

LEMMA Moves ==
    ASSUME NEW p, NEW T, Sound(p, T), NEW t \in Thread, NEW b \in Backend!Call,
           NEW q, Shape(q),
           b.at \in Mine => b.conn \notin Left(T, t),
           q.in_use = Left(T, t) \cup (IF b.at \in Mine THEN {b.conn} ELSE {}),
           q.active = Recount(p.active, T[t], b, {"held"}),
           q.pending = Recount(p.pending, T[t], b, Opening),
           Len(q.order) + q.pending <= MaxConns
    PROVE  Sound(q, [T EXCEPT ![t] = b])
<1> DEFINE U == [T EXCEPT ![t] = b]
<1>1. T \in [Thread -> Backend!Call] /\ Alone(T)
  BY DEF Sound
<1>2. U \in [Thread -> Backend!Call]
  BY <1>1
<1>3. Alone(U) /\ q.in_use = Reserved(U)
  BY <1>1, ReservedMoves
<1> HIDE DEF U
<1>u. U = [T EXCEPT ![t] = b]
  BY DEF U
<1>4. IsFiniteSet(In(U, {"held"})) /\ q.active = Cardinality(In(U, {"held"}))
  <2>1. IsFiniteSet(In(T, {"held"})) /\ p.active = Cardinality(In(T, {"held"}))
    BY DEF Sound
  <2>2. Recounted(T, U, t, {"held"})
    BY <1>1, <1>u, <2>1, InMoves
  <2> QED BY <1>1, <1>u, <2>1, <2>2 DEF Recounted
<1>5. IsFiniteSet(In(U, Opening)) /\ q.pending = Cardinality(In(U, Opening))
  <2>1. IsFiniteSet(In(T, Opening)) /\ p.pending = Cardinality(In(T, Opening))
    BY DEF Sound
  <2>2. Recounted(T, U, t, Opening)
    BY <1>1, <1>u, <2>1, InMoves
  <2> QED BY <1>1, <1>u, <2>1, <2>2 DEF Recounted
<1>6. Sound(q, U)
  BY <1>2, <1>3, <1>4, <1>5 DEF Sound
<1> QED BY <1>6 DEF U

LEMMA SoundTrim ==
    ASSUME NEW p, NEW T, Sound(p, T), NEW q, Trimmed(p, q)
    PROVE  Sound(q, T)
<1>1. Len(p.order) \in Nat /\ Len(q.order) \in Nat /\ p.pending \in Int /\ MaxConns \in Nat
  BY ShapeFields, NamesFinite DEF Sound, Trimmed
<1>2. Len(q.order) + q.pending <= MaxConns
  BY <1>1 DEF Sound, Trimmed
<1> QED BY <1>2 DEF Sound, Trimmed

\* A thread that neither holds nor opens a connection goes on without one.
LEMMA MovesOn ==
    ASSUME NEW p, NEW T, Sound(p, T), NEW t \in Thread, NEW b \in Backend!Call,
           T[t].at \notin Mine \cup Opening, b.at \notin Mine \cup Opening,
           NEW q, Trimmed(p, q)
    PROVE  Sound(q, [T EXCEPT ![t] = b])
<1>1. Sound(q, T)
  BY SoundTrim
<1>2. /\ One(T[t], {"held"}) = 0 /\ One(b, {"held"}) = 0
      /\ One(T[t], Opening) = 0 /\ One(b, Opening) = 0
  BY DEF One, Mine, Opening
<1>3. Left(T, t) = Reserved(T) /\ q.in_use = Reserved(T)
  BY <1>1 DEF Left, Sound
<1>4. Shape(q) /\ q.active \in Int /\ q.pending \in Int /\ Len(q.order) + q.pending <= MaxConns
  BY <1>1, ShapeFields DEF Sound
<1>5. /\ q.active = Recount(q.active, T[t], b, {"held"})
      /\ q.pending = Recount(q.pending, T[t], b, Opening)
  BY <1>2, <1>4 DEF Recount
<1> QED BY <1>1, <1>2, <1>3, <1>4, <1>5, Moves

LEMMA HolderFacts ==
    ASSUME NEW p, NEW T, Sound(p, T), NEW t \in Thread, T[t].at \in Mine
    PROVE  /\ T[t].conn \in p.in_use /\ T[t].conn \in Names /\ T[t].conn \in Elems(p.order)
           /\ Left(T, t) = p.in_use \ {T[t].conn}
<1>1. T[t].conn \in Reserved(T)
  BY DEF Reserved, In
<1>2. p.in_use = Reserved(T) /\ p.in_use \subseteq Names /\ p.in_use \subseteq Elems(p.order)
  BY ShapeFields DEF Sound
<1> QED BY <1>1, <1>2 DEF Left

\* What a thread that is neither here nor there counts.
LEMMA Ones ==
    ASSUME NEW x
    PROVE  /\ x.at \in Mine \cup Opening \/
                (One(x, {"held"}) = 0 /\ One(x, Opening) = 0)
           /\ x.at = "held" => One(x, {"held"}) = 1 /\ One(x, Opening) = 0 /\ x.at \in Mine
           /\ x.at = "mine" => One(x, {"held"}) = 0 /\ One(x, Opening) = 0 /\ x.at \in Mine
           /\ x.at \in Opening =>
                One(x, {"held"}) = 0 /\ One(x, Opening) = 1 /\ x.at \notin Mine
BY DEF One, Mine, Opening

LEMMA SoundFacts ==
    ASSUME NEW p, NEW T, Sound(p, T)
    PROVE  /\ Shape(p) /\ p.active \in Nat /\ p.pending \in Nat /\ p.active <= MaxConns
           /\ p.pending <= MaxConns /\ Len(p.order) \in Nat
           /\ Len(p.order) + p.pending <= MaxConns
           /\ T \in [Thread -> Backend!Call] /\ p.in_use = Reserved(T)
           /\ p \in Backend!Pool
<1>1. /\ Shape(p) /\ T \in [Thread -> Backend!Call] /\ p.in_use = Reserved(T)
      /\ Len(p.order) + p.pending <= MaxConns
  BY DEF Sound
<1>2. p.active \in Nat /\ p.pending \in Nat
  BY FS_CardinalityType DEF Sound
<1>3. Len(p.order) \in Nat /\ MaxConns \in Nat
  BY <1>1, ShapeFields, NamesFinite
<1>4. p.active <= MaxConns
  <2> DEFINE H == In(T, {"held"})
             f == [u \in H |-> T[u].conn]
  <2>1. \A u \in H : u \in In(T, Mine) /\ T[u].conn \in Names
    <3> TAKE u \in H
    <3>1. u \in Thread /\ T[u].at \in Mine
      BY DEF In, Mine
    <3> QED BY <3>1, HolderFacts DEF In
  <2>2. \A u, v \in H : T[u].conn = T[v].conn => u = v
    BY <2>1 DEF Sound, Alone
  <2>3. f \in Injection(H, Names)
    BY <2>1, <2>2 DEF Injection, IsInjective
  <2>4. Cardinality(H) <= MaxConns
    BY <2>3, NamesFinite, FS_Injection
  <2> QED BY <2>4 DEF Sound
<1>5. p.pending <= MaxConns
  BY <1>1, <1>2, <1>3
<1>6. p \in Backend!Pool
  BY <1>1, <1>2, <1>3, <1>4, <1>5, ShapeTyped
<1> QED BY <1>1, <1>2, <1>3, <1>4, <1>5, <1>6

-----------------------------------------------------------------------------
(***************************************************************************)
(* The actions                                                             *)
(***************************************************************************)
ConnInv ==
    /\ Sound(pool, thr)
    /\ connUp \in BOOLEAN /\ exiting \in BOOLEAN /\ aborted \in BOOLEAN
    /\ last_failure \in Backend!Upto(Backend!FailedCap)

LEMMA CallFacts ==
    ASSUME NEW x \in Backend!Call
    PROVE  /\ x.age \in Nat /\ x.age <= MaxCall /\ MaxCall \in Nat
           /\ Backend!NoCall \in Backend!Call /\ Backend!NoCall.at = "idle"
           /\ \A c \in Names :
                /\ [x EXCEPT !.at = "held", !.conn = c] \in Backend!Call
                /\ [x EXCEPT !.conn = c] \in Backend!Call
                /\ [Backend!NoCall EXCEPT !.at = "held", !.conn = c] \in Backend!Call
                /\ [x EXCEPT !.at = "mine", !.conn = c] \in Backend!Call
           /\ [x EXCEPT !.at = "manage", !.conn = None] \in Backend!Call
<1>1. MaxCall \in Nat
  BY BackendAssumption DEF Backend!ConnAssumption
<1>2. 0 \in Backend!Upto(MaxCall)
  BY <1>1 DEF Backend!Upto
<1>3. x.age \in Nat /\ x.age <= MaxCall
  BY <1>1 DEF Backend!Call, Backend!Upto
<1> QED BY <1>1, <1>2, <1>3 DEF Backend!Call, Backend!NoCall, Names

LEMMA CallAt ==
    ASSUME NEW x \in Backend!Call, NEW a \in {"see_num", "see_pending", "see_failed", "spawn",
                                              "create", "failed", "manage"}
    PROVE  [x EXCEPT !.at = a] \in Backend!Call /\ [x EXCEPT !.at = a].at = a
BY DEF Backend!Call

LEMMA NotSpawnedFacts ==
    ASSUME NEW x \in Backend!Call
    PROVE  LET b == IF x.why = "get" THEN Backend!NoCall ELSE [x EXCEPT !.at = "manage"]
           IN  b \in Backend!Call /\ b.at \in {"idle", "manage"}
BY CallFacts, CallAt

\* A connection is given back or closed, and the check of the pool may follow.
LEMMA CheckAfter ==
    ASSUME ConnInv, NEW t \in Thread, thr[t].at = "held",
           NEW q, Shape(q), q.in_use = pool.in_use \ {thr[t].conn},
           q.active = pool.active - 1, q.pending = pool.pending,
           Len(q.order) <= Len(pool.order),
           Backend!PoolCheck(t, q)
    PROVE  Sound(pool', thr') /\ aborted' \in BOOLEAN
<1> DEFINE b(a) == IF a THEN [at |-> "see_num", conn |-> None, age |-> 0, why |-> "check"]
                   ELSE Backend!NoCall
<1>1. Sound(pool, thr) /\ thr[t].at \in Mine
  BY DEF ConnInv, Mine
<1>2. aborted' \in BOOLEAN
  BY DEF ConnInv, Backend!PoolCheck
<1>3. PICK a \in BOOLEAN : thr' = [thr EXCEPT ![t] = b(a)] /\ Trimmed(q, pool')
  <2>1. Trimmed(q, q)
    BY ShapeFields DEF Trimmed
  <2>2. CASE pool' = q /\ thr' = [thr EXCEPT ![t] = Backend!NoCall]
    BY <2>1, <2>2
  <2>3. CASE /\ pool' = q
             /\ thr' = [thr EXCEPT ![t] = [at |-> "see_num", conn |-> None, age |-> 0, why |-> "check"]]
    BY <2>1, <2>3
  <2>4. ASSUME pool' = Backend!ManageAll(
                   IF Backend!WantsFewer(q) /\ ~aborted' THEN Backend!CloseSpare(q) ELSE q, 0),
               aborted' = (Backend!WantsFewer(q) /\ Backend!Unused(q) = <<>>)
        PROVE  Trimmed(q, pool')
    <3> DEFINE r == IF Backend!WantsFewer(q) /\ ~aborted' THEN Backend!CloseSpare(q) ELSE q
    <3>1. Trimmed(q, r)
      BY <2>1, <2>4, SpareTrims
    <3> HIDE DEF r
    <3>2. Trimmed(r, Backend!ManageAll(r, 0))
      BY <3>1, ManageTrims DEF Trimmed
    <3>3. pool' = Backend!ManageAll(r, 0)
      BY <2>4 DEF r
    <3> QED BY <3>1, <3>2, <3>3, TrimmedTwice
  <2> QED BY <2>2, <2>3, <2>4 DEF Backend!PoolCheck
<1>4. b(a) \in Backend!Call /\ b(a).at \notin Mine \cup Opening
  <2>1. thr[t] \in Backend!Call
    BY <1>1 DEF Sound
  <2>2. MaxCall \in Nat
    BY <2>1, CallFacts
  <2>3. 0 \in Backend!Upto(MaxCall)
    BY <2>2 DEF Backend!Upto
  <2> QED BY <2>1, <2>3, CallFacts DEF Mine, Opening, Backend!Call, Backend!NoCall
<1> HIDE DEF b
<1>5. Left(thr, t) = pool.in_use \ {thr[t].conn}
  BY <1>1, HolderFacts
<1>6. /\ One(thr[t], {"held"}) = 1 /\ One(thr[t], Opening) = 0
      /\ One(b(a), {"held"}) = 0 /\ One(b(a), Opening) = 0 /\ b(a).at \notin Mine
  BY <1>4, Ones
<1>7. /\ pool.active \in Nat /\ pool.pending \in Nat /\ Len(pool.order) \in Nat
      /\ Len(q.order) \in Nat /\ MaxConns \in Nat
      /\ Len(pool.order) + pool.pending <= MaxConns
  BY <1>1, SoundFacts, ShapeFields, NamesFinite
<1>8. Sound(q, [thr EXCEPT ![t] = b(a)])
  <2>1. /\ q.active = Recount(pool.active, thr[t], b(a), {"held"})
        /\ q.pending = Recount(pool.pending, thr[t], b(a), Opening)
        /\ Len(q.order) + q.pending <= MaxConns
    BY <1>6, <1>7 DEF Recount
  <2> QED BY <1>1, <1>4, <1>5, <1>6, <2>1, Moves
<1> QED BY <1>2, <1>3, <1>8, SoundTrim

\* A thread t without a connection takes the idle connection c of q.
LEMMA Takes ==
    ASSUME NEW p, NEW T, Sound(p, T), NEW t \in Thread, T[t].at \notin Mine \cup Opening,
           NEW q, Trimmed(p, q), NEW c \in Elems(q.order), c \notin q.in_use,
           NEW b \in Backend!Call, b.at = "held", b.conn = c
    PROVE  Sound(Backend!Reserve(q, c), [T EXCEPT ![t] = b])
<1> DEFINE r == Backend!Reserve(q, c)
<1>1. Shape(q) /\ q.in_use = p.in_use /\ q.active = p.active /\ q.pending = p.pending
  BY DEF Trimmed
<1>2. /\ Shape(r) /\ r.in_use = q.in_use \cup {c} /\ r.active = q.active + 1
      /\ r.pending = q.pending /\ Len(r.order) <= Len(q.order)
  BY <1>1, ReserveShape
<1> HIDE DEF r
<1>3. /\ One(T[t], {"held"}) = 0 /\ One(T[t], Opening) = 0
      /\ One(b, {"held"}) = 1 /\ One(b, Opening) = 0 /\ b.at \in Mine
  BY Ones
<1>4. Left(T, t) = p.in_use
  BY SoundFacts DEF Left, Mine
<1>5. Sound(q, T)
  BY SoundTrim
<1>6. /\ p.active \in Nat /\ p.pending \in Nat /\ Len(q.order) \in Nat /\ Len(r.order) \in Nat
      /\ MaxConns \in Nat /\ Len(q.order) + q.pending <= MaxConns
  BY <1>2, <1>5, SoundFacts, ShapeFields, NamesFinite
<1>7. /\ r.active = Recount(p.active, T[t], b, {"held"})
      /\ r.pending = Recount(p.pending, T[t], b, Opening)
      /\ Len(r.order) + r.pending <= MaxConns
  BY <1>1, <1>2, <1>3, <1>6 DEF Recount
<1>8. Sound(r, [T EXCEPT ![t] = b])
  BY <1>1, <1>2, <1>3, <1>4, <1>7, Moves
<1> QED BY <1>8 DEF r

LEMMA GetKeeps ==
    ASSUME ConnInv, NEW t \in Thread, Backend!Get(t)
    PROVE  Sound(pool', thr')
<1> DEFINE q == Backend!DropExpired(pool)
           c == Head(Backend!Usable(pool))
<1>1. Sound(pool, thr) /\ thr[t] \in Backend!Call /\ thr[t].at = "idle"
  BY DEF ConnInv, Sound, Backend!Get
<1>2. /\ Trimmed(pool, q)
      /\ Backend!Usable(pool) # <<>> => c \in Elems(q.order) /\ c \notin pool.in_use
  BY <1>1, DropTrims, SoundFacts
<1>3. thr[t].at \notin Mine \cup Opening
  BY <1>1 DEF Mine, Opening
<1>4. CASE /\ Backend!Usable(pool) # <<>>
           /\ pool' = Backend!Reserve(q, c)
           /\ thr' = [thr EXCEPT ![t] = [@ EXCEPT !.at = "held", !.conn = c]]
  <2> DEFINE b == [thr[t] EXCEPT !.at = "held", !.conn = c]
  <2>1. c \in Elems(q.order) /\ c \notin q.in_use /\ c \in Names
    BY <1>2, <1>4, ShapeFields, LinksBounded DEF Trimmed
  <2> HIDE DEF c, q
  <2>2. b \in Backend!Call
    BY <1>1, <2>1, CallFacts
  <2>3. b.at = "held" /\ b.conn = c
    BY <1>1 DEF Backend!Call
  <2>4. pool' = Backend!Reserve(q, c) /\ thr' = [thr EXCEPT ![t] = b]
    BY <1>4
  <2> HIDE DEF b
  <2> QED BY <1>1, <1>2, <1>3, <2>1, <2>2, <2>3, <2>4, Takes
<1>5. CASE pool' = q /\ thr' = thr
  BY <1>1, <1>2, <1>5, SoundTrim
<1>6. CASE pool' = q /\ Backend!Continue(t, "see_num")
  <2> DEFINE b == [thr[t] EXCEPT !.at = "see_num"]
  <2>1. b \in Backend!Call /\ b.at = "see_num"
    BY <1>1, CallAt
  <2>2. thr' = [thr EXCEPT ![t] = b]
    BY <1>6 DEF Backend!Continue
  <2> HIDE DEF b, q
  <2>3. b.at \notin Mine \cup Opening
    BY <2>1 DEF Mine, Opening
  <2> QED BY <1>1, <1>2, <1>3, <1>6, <2>1, <2>2, <2>3, MovesOn
<1> QED BY <1>4, <1>5, <1>6 DEF Backend!Get

\* Steps of fr_connection_spawn that neither begin nor end an opening.
LEMMA ContinueKeeps ==
    ASSUME ConnInv, NEW t \in Thread, pool' = pool, thr[t].at \notin Mine \cup Opening,
           \/ \E a \in {"see_pending", "see_failed", "spawn"} : Backend!Continue(t, a)
           \/ Backend!NotSpawned(t)
    PROVE  Sound(pool', thr')
<1>1. Sound(pool, thr) /\ thr[t] \in Backend!Call
  BY DEF ConnInv, Sound
<1>2. \E b \in Backend!Call : b.at \notin Mine \cup Opening /\ thr' = [thr EXCEPT ![t] = b]
  <2>1. CASE Backend!NotSpawned(t)
    BY <1>1, <2>1, NotSpawnedFacts DEF Backend!NotSpawned, Mine, Opening
  <2>2. ASSUME NEW a \in {"see_pending", "see_failed", "spawn"}, Backend!Continue(t, a)
        PROVE  \E b \in Backend!Call : b.at \notin Mine \cup Opening /\ thr' = [thr EXCEPT ![t] = b]
    <3> DEFINE b == [thr[t] EXCEPT !.at = a]
    <3>3. a \in {"see_num", "see_pending", "see_failed", "spawn", "create", "failed", "manage"}
      OBVIOUS
    <3>1. b \in Backend!Call /\ b.at = a
      BY <1>1, <3>3, CallAt
    <3>2. thr' = [thr EXCEPT ![t] = b]
      BY <2>2 DEF Backend!Continue
    <3> HIDE DEF b
    <3> QED BY <3>1, <3>2 DEF Mine, Opening
  <2> QED BY <2>1, <2>2
<1>3. Trimmed(pool, pool)
  BY <1>1, SoundFacts, ShapeFields DEF Trimmed
<1>4. PICK b \in Backend!Call : b.at \notin Mine \cup Opening /\ thr' = [thr EXCEPT ![t] = b]
  BY <1>2
<1>5. Sound(pool, [thr EXCEPT ![t] = b])
  BY <1>1, <1>3, <1>4, MovesOn
<1> QED BY <1>4, <1>5

LEMMA LookKeeps ==
    ASSUME ConnInv, NEW t \in Thread, Backend!SpawnLook(t)
    PROVE  Sound(pool', thr')
<1>1. pool' = pool /\ thr[t].at \notin Mine \cup Opening
  BY DEF Backend!SpawnLook, Mine, Opening
<1>2. \/ \E a \in {"see_pending", "see_failed", "spawn"} : Backend!Continue(t, a)
      \/ Backend!NotSpawned(t)
  BY DEF Backend!SpawnLook
<1> QED BY <1>1, <1>2, ContinueKeeps

LEMMA BeginKeeps ==
    ASSUME ConnInv, NEW t \in Thread, Backend!SpawnBegin(t)
    PROVE  Sound(pool', thr')
<1>1. Sound(pool, thr) /\ thr[t] \in Backend!Call /\ thr[t].at = "spawn"
  BY DEF ConnInv, Sound, Backend!SpawnBegin
<1>2. thr[t].at \notin Mine \cup Opening
  BY <1>1 DEF Mine, Opening
<1>3. CASE pool' = pool /\ Backend!NotSpawned(t)
  BY <1>2, <1>3, ContinueKeeps
<1>4. CASE /\ Backend!Num(pool) + pool.pending < MaxConns
           /\ pool' = [pool EXCEPT !.pending = @ + 1] /\ Backend!Continue(t, "create")
  <2> DEFINE b == [thr[t] EXCEPT !.at = "create"]
  <2>1. b \in Backend!Call /\ b.at = "create"
    BY <1>1, CallAt
  <2>2. thr' = [thr EXCEPT ![t] = b]
    BY <1>4 DEF Backend!Continue
  <2> HIDE DEF b
  <2>3. /\ One(thr[t], {"held"}) = 0 /\ One(thr[t], Opening) = 0
        /\ One(b, {"held"}) = 0 /\ One(b, Opening) = 1 /\ b.at \notin Mine
    BY <1>2, <2>1, Ones DEF Opening
  <2>4. /\ Shape(pool) /\ pool \in PoolRecord /\ pool.active \in Nat /\ pool.pending \in Nat
        /\ Len(pool.order) \in Nat /\ MaxConns \in Nat
    BY <1>1, SoundFacts, ShapeFields, NamesFinite
  <2>5. pool' \in PoolRecord
    <3>1. pool.pending + 1 \in Int
      BY <2>4
    <3> QED BY <1>4, <2>4, <3>1 DEF PoolRecord
  <2>6. /\ pool'.order = pool.order /\ pool'.heap = pool.heap /\ pool'.in_use = pool.in_use
        /\ pool'.active = pool.active /\ pool'.pending = pool.pending + 1
        /\ pool'.delay_interval = pool.delay_interval /\ pool'.next_delay = pool.next_delay
    BY <1>4, <2>4 DEF PoolRecord
  <2>7. Shape(pool')
    BY <2>4, <2>5, <2>6, SameLists
  <2>8. Left(thr, t) = pool.in_use
    BY <1>1, <1>2, SoundFacts DEF Left
  <2>9. /\ pool'.active = Recount(pool.active, thr[t], b, {"held"})
        /\ pool'.pending = Recount(pool.pending, thr[t], b, Opening)
        /\ Len(pool'.order) + pool'.pending <= MaxConns
    BY <1>4, <2>3, <2>4, <2>6 DEF Recount, Backend!Num
  <2>10. pool'.in_use = Left(thr, t) \cup (IF b.at \in Mine THEN {b.conn} ELSE {})
    BY <2>3, <2>6, <2>8
  <2>11. Sound(pool', [thr EXCEPT ![t] = b])
    BY <1>1, <2>1, <2>3, <2>7, <2>9, <2>10, Moves
  <2> QED BY <2>2, <2>11
<1>5. /\ Len(pool.order) \in Nat /\ pool.pending \in Nat /\ MaxConns \in Nat
  BY <1>1, SoundFacts, NamesFinite
<1> QED BY <1>3, <1>4, <1>5 DEF Backend!SpawnBegin, Backend!Num

LEMMA FailsKeeps ==
    ASSUME ConnInv, NEW t \in Thread, Backend!CreateFails(t)
    PROVE  Sound(pool', thr')
<1> DEFINE b == [thr[t] EXCEPT !.at = "failed"]
<1>1. Sound(pool, thr) /\ thr[t] \in Backend!Call /\ thr[t].at = "create"
  BY DEF ConnInv, Sound, Backend!CreateFails
<1>2. b \in Backend!Call /\ b.at = "failed"
  BY <1>1, CallAt
<1>3. thr' = [thr EXCEPT ![t] = b] /\ pool' = [pool EXCEPT !.last_failed = thr[t].age]
  BY DEF Backend!CreateFails, Backend!Continue
<1> HIDE DEF b
<1>4. /\ One(thr[t], {"held"}) = 0 /\ One(thr[t], Opening) = 1 /\ thr[t].at \notin Mine
      /\ One(b, {"held"}) = 0 /\ One(b, Opening) = 1 /\ b.at \notin Mine
  BY <1>1, <1>2, Ones DEF Opening
<1>5. /\ Shape(pool) /\ pool \in PoolRecord /\ pool.active \in Nat /\ pool.pending \in Nat
      /\ Len(pool.order) + pool.pending <= MaxConns /\ pool.in_use = Reserved(thr)
  BY <1>1, SoundFacts, ShapeFields
<1>6. pool' \in PoolRecord
  <2>1. /\ thr[t].age \in Nat /\ thr[t].age <= MaxCall /\ MaxCall \in Nat /\ RetryDelay \in Nat
    BY <1>1, CallFacts, BackendAssumption DEF Backend!ConnAssumption
  <2>2. thr[t].age \in Backend!Upto(Backend!FailedCap)
    BY <2>1 DEF Backend!Upto, Backend!FailedCap
  <2> QED BY <1>3, <1>5, <2>2 DEF PoolRecord
<1>7. /\ pool'.order = pool.order /\ pool'.heap = pool.heap /\ pool'.in_use = pool.in_use
      /\ pool'.active = pool.active /\ pool'.pending = pool.pending
      /\ pool'.delay_interval = pool.delay_interval /\ pool'.next_delay = pool.next_delay
  BY <1>3, <1>5 DEF PoolRecord
<1>8. Shape(pool')
  BY <1>5, <1>6, <1>7, SameLists
<1>9. /\ pool'.active = Recount(pool.active, thr[t], b, {"held"})
      /\ pool'.pending = Recount(pool.pending, thr[t], b, Opening)
      /\ Len(pool'.order) + pool'.pending <= MaxConns
  BY <1>4, <1>5, <1>7 DEF Recount
<1>10. pool'.in_use = Left(thr, t) \cup (IF b.at \in Mine THEN {b.conn} ELSE {})
  BY <1>4, <1>5, <1>7 DEF Left
<1>11. Sound(pool', [thr EXCEPT ![t] = b])
  BY <1>1, <1>2, <1>4, <1>8, <1>9, <1>10, Moves
<1> QED BY <1>3, <1>11

LEMMA FailedKeeps ==
    ASSUME ConnInv, NEW t \in Thread, Backend!SpawnFailed(t)
    PROVE  Sound(pool', thr')
<1> DEFINE b == IF thr[t].why = "get" THEN Backend!NoCall ELSE [thr[t] EXCEPT !.at = "manage"]
<1>1. Sound(pool, thr) /\ thr[t] \in Backend!Call /\ thr[t].at = "failed"
  BY DEF ConnInv, Sound, Backend!SpawnFailed
<1>2. b \in Backend!Call /\ b.at \in {"idle", "manage"}
  BY <1>1, NotSpawnedFacts
<1>3. thr' = [thr EXCEPT ![t] = b] /\ pool' = [pool EXCEPT !.max_pending = 1, !.pending = @ - 1]
  BY DEF Backend!SpawnFailed, Backend!NotSpawned
<1> HIDE DEF b
<1>4. b.at \notin Mine \cup Opening /\ thr[t].at \in Opening
  BY <1>1, <1>2 DEF Mine, Opening
<1>5. /\ One(thr[t], {"held"}) = 0 /\ One(thr[t], Opening) = 1 /\ thr[t].at \notin Mine
      /\ One(b, {"held"}) = 0 /\ One(b, Opening) = 0 /\ b.at \notin Mine
  BY <1>4, Ones
<1>6. /\ Shape(pool) /\ pool \in PoolRecord /\ pool.active \in Nat /\ pool.pending \in Nat
      /\ Len(pool.order) + pool.pending <= MaxConns /\ pool.in_use = Reserved(thr)
      /\ Len(pool.order) \in Nat /\ MaxConns \in Nat /\ 1 \in 1..MaxConns
  BY <1>1, SoundFacts, ShapeFields, NamesFinite
<1>7. pool' \in PoolRecord
  <2>1. pool.pending - 1 \in Int
    BY <1>6
  <2> QED BY <1>3, <1>6, <2>1 DEF PoolRecord
<1>8. /\ pool'.order = pool.order /\ pool'.heap = pool.heap /\ pool'.in_use = pool.in_use
      /\ pool'.active = pool.active /\ pool'.pending = pool.pending - 1
      /\ pool'.delay_interval = pool.delay_interval /\ pool'.next_delay = pool.next_delay
  BY <1>3, <1>6 DEF PoolRecord
<1>9. Shape(pool')
  BY <1>6, <1>7, <1>8, SameLists
<1>10. /\ pool'.active = Recount(pool.active, thr[t], b, {"held"})
       /\ pool'.pending = Recount(pool.pending, thr[t], b, Opening)
       /\ Len(pool'.order) + pool'.pending <= MaxConns
  BY <1>5, <1>6, <1>8 DEF Recount
<1>11. pool'.in_use = Left(thr, t) \cup (IF b.at \in Mine THEN {b.conn} ELSE {})
  BY <1>5, <1>6, <1>8 DEF Left
<1>12. Sound(pool', [thr EXCEPT ![t] = b])
  BY <1>1, <1>2, <1>5, <1>9, <1>10, <1>11, Moves
<1> QED BY <1>3, <1>12

\* A connection being opened is counted in pending, so a name is free for it.
LEMMA NameFree ==
    ASSUME NEW p, Shape(p), Len(p.order) < MaxConns
    PROVE  LET c == CHOOSE d \in Names : d \notin Backend!ToSet(p.order)
           IN  c \in Names /\ c \notin Elems(p.order)
<1>1. Backend!ToSet(p.order) = Elems(p.order)
  BY ShapeFields, SeqWords DEF Links
<1>2. /\ IsFiniteSet(Elems(p.order)) /\ Cardinality(Elems(p.order)) = Len(p.order)
      /\ Elems(p.order) \subseteq Names /\ Len(p.order) \in Nat
  BY ShapeFields, LinksBounded
<1>3. Elems(p.order) # Names
  BY <1>2, NamesFinite
<1>4. \E d \in Names : d \notin Elems(p.order)
  BY <1>2, <1>3
<1> QED BY <1>1, <1>4

LEMMA SpawnedKeeps ==
    ASSUME ConnInv, NEW t \in Thread, Backend!Spawned(t)
    PROVE  Sound(pool', thr')
<1> DEFINE c == CHOOSE d \in Names : d \notin Backend!ToSet(pool.order)
           get == thr[t].why = "get"
           b == [thr[t] EXCEPT !.at = IF get THEN "mine" ELSE "manage",
                               !.conn = IF get THEN c ELSE None]
<1>1. Sound(pool, thr) /\ thr[t] \in Backend!Call /\ thr[t].at = "create"
  BY DEF ConnInv, Sound, Backend!Spawned
<1>2. /\ pool' = Backend!Linked(pool, c, thr[t].age, get)
      /\ thr' = [thr EXCEPT ![t] = b]
  BY DEF Backend!Spawned, Names
<1>3. /\ Shape(pool) /\ pool.active \in Nat /\ pool.pending \in Nat
      /\ Len(pool.order) + pool.pending <= MaxConns /\ pool.in_use = Reserved(thr)
      /\ Len(pool.order) \in Nat /\ MaxConns \in Nat
  BY <1>1, SoundFacts, NamesFinite
<1>4. pool.pending > 0
  <2>1. IsFiniteSet(In(thr, Opening)) /\ pool.pending = Cardinality(In(thr, Opening))
    BY <1>1 DEF Sound
  <2>2. t \in In(thr, Opening)
    BY <1>1 DEF In, Opening
  <2>3. Cardinality(In(thr, Opening)) # 0
    BY <2>1, <2>2, FS_EmptySet
  <2> QED BY <1>3, <2>1, <2>3
<1>5. Len(pool.order) < MaxConns
  BY <1>3, <1>4
<1>6. c \in Names /\ c \notin Elems(pool.order)
  BY <1>3, <1>5, NameFree
<1> HIDE DEF c
<1>7. get \in BOOLEAN /\ thr[t].age \in Nat
  BY <1>1, CallFacts
<1>8. /\ b \in Backend!Call /\ b.at = (IF get THEN "mine" ELSE "manage")
      /\ get => b.conn = c
  BY <1>1, <1>6 DEF Backend!Call, Names
<1> HIDE DEF b, get
<1>9. /\ Shape(pool') /\ pool'.in_use = IF get THEN pool.in_use \cup {c} ELSE pool.in_use
      /\ pool'.active = pool.active /\ pool'.pending = pool.pending - 1
      /\ Len(pool'.order) = Len(pool.order) + 1
  <2>1. LinkedAs(pool, Backend!Linked(pool, c, thr[t].age, get), c, get)
    BY <1>3, <1>5, <1>6, <1>7, LinkedShape
  <2> QED BY <1>2, <2>1 DEF LinkedAs
<1>10. /\ One(thr[t], {"held"}) = 0 /\ One(thr[t], Opening) = 1 /\ thr[t].at \notin Mine
       /\ One(b, {"held"}) = 0 /\ One(b, Opening) = 0 /\ (b.at \in Mine <=> get)
  BY <1>1, <1>8 DEF One, Mine, Opening
<1>11. /\ pool'.active = Recount(pool.active, thr[t], b, {"held"})
       /\ pool'.pending = Recount(pool.pending, thr[t], b, Opening)
       /\ Len(pool'.order) + pool'.pending <= MaxConns
  BY <1>3, <1>9, <1>10 DEF Recount
<1>12. Left(thr, t) = pool.in_use /\ c \notin pool.in_use
  BY <1>3, <1>6, <1>10, ShapeFields DEF Left
<1>13. /\ pool'.in_use = Left(thr, t) \cup (IF b.at \in Mine THEN {b.conn} ELSE {})
       /\ b.at \in Mine => b.conn \notin Left(thr, t)
  BY <1>8, <1>9, <1>10, <1>12
<1>14. Sound(pool', [thr EXCEPT ![t] = b])
  BY <1>1, <1>8, <1>9, <1>11, <1>13, Moves
<1> QED BY <1>2, <1>14

LEMMA MineKeeps ==
    ASSUME ConnInv, NEW t \in Thread, Backend!GetSpawned(t)
    PROVE  Sound(pool', thr')
<1> DEFINE c == thr[t].conn
           b == [Backend!NoCall EXCEPT !.at = "held", !.conn = c]
<1>1. Sound(pool, thr) /\ thr[t] \in Backend!Call /\ thr[t].at = "mine"
  BY DEF ConnInv, Sound, Backend!GetSpawned
<1>2. pool' = Backend!Reserve(pool, c) /\ thr' = [thr EXCEPT ![t] = b]
  BY DEF Backend!GetSpawned
<1>3. /\ c \in pool.in_use /\ c \in Names /\ c \in Elems(pool.order)
      /\ Left(thr, t) = pool.in_use \ {c}
  BY <1>1, HolderFacts DEF Mine
<1>4. b \in Backend!Call
  BY <1>1, <1>3, CallFacts
<1>5. b.at = "held" /\ b.conn = c
  BY DEF Backend!NoCall
<1> HIDE DEF b, c
<1>6. /\ One(thr[t], {"held"}) = 0 /\ One(thr[t], Opening) = 0
      /\ One(b, {"held"}) = 1 /\ One(b, Opening) = 0 /\ b.at \in Mine
  BY <1>1, <1>5, Ones
<1>7. /\ Shape(pool) /\ pool.active \in Nat /\ pool.pending \in Nat
      /\ Len(pool.order) + pool.pending <= MaxConns /\ Len(pool.order) \in Nat
      /\ MaxConns \in Nat
  BY <1>1, SoundFacts, NamesFinite
<1>8. /\ Shape(pool') /\ pool'.in_use = pool.in_use \cup {c} /\ pool'.active = pool.active + 1
      /\ pool'.pending = pool.pending /\ Len(pool'.order) <= Len(pool.order)
  BY <1>2, <1>3, <1>7, ReserveShape
<1>9. Len(pool'.order) \in Nat
  BY <1>8, ShapeFields
<1>10. /\ pool'.active = Recount(pool.active, thr[t], b, {"held"})
       /\ pool'.pending = Recount(pool.pending, thr[t], b, Opening)
       /\ Len(pool'.order) + pool'.pending <= MaxConns
  BY <1>6, <1>7, <1>8, <1>9 DEF Recount
<1>11. /\ pool'.in_use = Left(thr, t) \cup (IF b.at \in Mine THEN {b.conn} ELSE {})
       /\ b.at \in Mine => b.conn \notin Left(thr, t)
  BY <1>3, <1>5, <1>6, <1>8
<1>12. Sound(pool', [thr EXCEPT ![t] = b])
  BY <1>1, <1>4, <1>8, <1>10, <1>11, Moves
<1> QED BY <1>2, <1>12

LEMMA ManageKeeps ==
    ASSUME ConnInv, NEW t \in Thread, Backend!CheckSpawned(t)
    PROVE  Sound(pool', thr')
<1>1. Sound(pool, thr) /\ thr[t] \in Backend!Call /\ thr[t].at = "manage"
  BY DEF ConnInv, Sound, Backend!CheckSpawned
<1>2. /\ pool' = Backend!ManageAll(pool, thr[t].age)
      /\ thr' = [thr EXCEPT ![t] = Backend!NoCall]
  BY DEF Backend!CheckSpawned
<1>3. Trimmed(pool, pool')
  BY <1>1, <1>2, SoundFacts, ManageTrims
<1>4. Backend!NoCall \in Backend!Call /\ Backend!NoCall.at \notin Mine \cup Opening
  BY <1>1, CallFacts DEF Mine, Opening
<1>5. thr[t].at \notin Mine \cup Opening
  BY <1>1 DEF Mine, Opening
<1>6. Sound(pool', [thr EXCEPT ![t] = Backend!NoCall])
  BY <1>1, <1>3, <1>4, <1>5, MovesOn
<1> QED BY <1>2, <1>6

LEMMA ReleaseKeeps ==
    ASSUME ConnInv, NEW t \in Thread, Backend!Release(t)
    PROVE  Sound(pool', thr') /\ aborted' \in BOOLEAN
<1> DEFINE q == Backend!Released(pool, thr[t].conn)
<1>1. Sound(pool, thr) /\ thr[t].at = "held" /\ Backend!PoolCheck(t, q)
  BY DEF ConnInv, Backend!Release
<1>2. thr[t].conn \in pool.in_use /\ Shape(pool)
  BY <1>1, HolderFacts, SoundFacts DEF Mine
<1>3. /\ Shape(q) /\ q.in_use = pool.in_use \ {thr[t].conn}
      /\ q.active = pool.active - 1 /\ q.pending = pool.pending
      /\ Len(q.order) <= Len(pool.order)
  BY <1>2, ReleasedShape
<1> HIDE DEF q
<1> QED BY <1>1, <1>3, CheckAfter

\* Closing the connection a thread holds.
LEMMA ClosedShape ==
    ASSUME NEW p, Shape(p), NEW c \in p.in_use
    PROVE  LET q == Backend!CloseInternal(p, c)
           IN  /\ Shape(q) /\ q.in_use = p.in_use \ {c}
               /\ q.active = p.active - 1 /\ q.pending = p.pending
               /\ Len(q.order) < Len(p.order)
<1> DEFINE q == Backend!CloseAll(p, {c})
<1>1. Backend!CloseInternal(p, c) = q
  BY DEF Backend!CloseInternal
<1>2. /\ Shape(q) /\ q.in_use = p.in_use \ {c} /\ q.pending = p.pending
      /\ q.active = p.active - Cardinality({c} \cap p.in_use)
      /\ {c} \cap Elems(p.order) # {} => Len(q.order) < Len(p.order)
  BY CloseAllShape
<1>3. Cardinality({c} \cap p.in_use) = 1
  <2>1. {c} \cap p.in_use = {c}
    OBVIOUS
  <2> QED BY <2>1, FS_Singleton
<1>4. c \in Elems(p.order)
  BY ShapeFields
<1> HIDE DEF q
<1> QED BY <1>1, <1>2, <1>3, <1>4

LEMMA CloseKeeps ==
    ASSUME ConnInv, NEW t \in Thread, Backend!Close(t)
    PROVE  Sound(pool', thr') /\ aborted' \in BOOLEAN
<1> DEFINE q == Backend!CloseInternal(pool, thr[t].conn)
<1>1. Sound(pool, thr) /\ thr[t].at = "held" /\ Backend!PoolCheck(t, q)
  BY DEF ConnInv, Backend!Close
<1>2. thr[t].conn \in pool.in_use /\ Shape(pool)
  BY <1>1, HolderFacts, SoundFacts DEF Mine
<1>3. /\ Shape(q) /\ q.in_use = pool.in_use \ {thr[t].conn}
      /\ q.active = pool.active - 1 /\ q.pending = pool.pending
      /\ Len(q.order) < Len(pool.order)
  BY <1>2, ClosedShape
<1> HIDE DEF q
<1>4. Len(q.order) <= Len(pool.order)
  BY <1>2, <1>3, ShapeFields
<1> QED BY <1>1, <1>3, <1>4, CheckAfter

LEMMA ReconnectKeeps ==
    ASSUME ConnInv, NEW t \in Thread, Backend!Reconnect(t)
    PROVE  Sound(pool', thr')
<1>1. Sound(pool, thr) /\ thr[t] \in Backend!Call /\ thr[t].at = "held"
  BY DEF ConnInv, Sound, Backend!Reconnect
<1>2. CASE connUp
  BY <1>1, <1>2 DEF Backend!Reconnect
<1>3. CASE ~connUp
  <2> DEFINE c == thr[t].conn
             p == Backend!CloseInternal(pool, c)
             q == Backend!DropExpired(p)
             d == Head(Backend!Usable(p))
  <2>1. /\ Shape(pool) /\ pool.active \in Nat /\ pool.pending \in Nat
        /\ Len(pool.order) + pool.pending <= MaxConns /\ Len(pool.order) \in Nat
        /\ MaxConns \in Nat
    BY <1>1, SoundFacts, NamesFinite
  <2>2. c \in pool.in_use /\ Left(thr, t) = pool.in_use \ {c}
    BY <1>1, HolderFacts DEF Mine
  <2>3. /\ Shape(p) /\ p.in_use = pool.in_use \ {c} /\ p.active = pool.active - 1
        /\ p.pending = pool.pending /\ Len(p.order) < Len(pool.order)
    BY <2>1, <2>2, ClosedShape
  <2>4. \/ /\ Backend!Usable(p) # <<>>
           /\ pool' = Backend!Reserve(q, d) /\ thr' = [thr EXCEPT ![t].conn = d]
        \/ pool' = q /\ thr' = [thr EXCEPT ![t] = Backend!NoCall]
    BY <1>3 DEF Backend!Reconnect
  <2> HIDE DEF c, p
  <2>5. /\ Trimmed(p, q)
        /\ Backend!Usable(p) # <<>> => d \in Elems(q.order) /\ d \notin p.in_use
    BY <2>3, DropTrims
  <2> HIDE DEF q, d
  <2>6. /\ Shape(q) /\ q.in_use = pool.in_use \ {c} /\ q.active = pool.active - 1
        /\ q.pending = pool.pending /\ Len(q.order) <= Len(p.order)
    BY <2>3, <2>5 DEF Trimmed
  <2>7. Len(p.order) \in Nat /\ Len(q.order) \in Nat
    BY <2>3, <2>6, ShapeFields
  <2>8. One(thr[t], {"held"}) = 1 /\ One(thr[t], Opening) = 0
    BY <1>1, Ones
  <2>9. CASE /\ Backend!Usable(p) # <<>>
             /\ pool' = Backend!Reserve(q, d) /\ thr' = [thr EXCEPT ![t].conn = d]
    <3> DEFINE b == [thr[t] EXCEPT !.conn = d]
    <3>1. d \in Elems(q.order) /\ d \notin p.in_use /\ d \in Names
      BY <2>5, <2>6, <2>9, ShapeFields, LinksBounded
    <3>2. b \in Backend!Call /\ b.at = "held" /\ b.conn = d
      <4>1. b \in Backend!Call
        BY <1>1, <3>1, CallFacts
      <4> QED BY <1>1, <4>1 DEF Backend!Call
    <3>3. thr' = [thr EXCEPT ![t] = b]
      BY <2>9
    <3> HIDE DEF b
    <3>4. /\ Shape(pool') /\ pool'.in_use = q.in_use \cup {d} /\ pool'.active = q.active + 1
          /\ pool'.pending = q.pending /\ Len(pool'.order) <= Len(q.order)
      BY <2>6, <2>9, <3>1, ReserveShape
    <3>5. One(b, {"held"}) = 1 /\ One(b, Opening) = 0 /\ b.at \in Mine
      BY <3>2, Ones
    <3>6. Len(pool'.order) \in Nat
      BY <3>4, ShapeFields
    <3>7. /\ pool'.active = Recount(pool.active, thr[t], b, {"held"})
          /\ pool'.pending = Recount(pool.pending, thr[t], b, Opening)
          /\ Len(pool'.order) + pool'.pending <= MaxConns
      <4>1. pool'.active = Recount(pool.active, thr[t], b, {"held"})
        BY <2>1, <2>6, <2>8, <3>4, <3>5 DEF Recount
      <4>2. pool'.pending = Recount(pool.pending, thr[t], b, Opening)
        BY <2>1, <2>6, <2>8, <3>4, <3>5 DEF Recount
      <4>3. pool'.pending = pool.pending
        BY <2>6, <3>4
      <4>4. Len(pool'.order) + pool'.pending <= MaxConns
        BY <2>1, <2>3, <2>6, <2>7, <3>4, <3>6, <4>3
      <4> QED BY <4>1, <4>2, <4>4
    <3>8. /\ pool'.in_use = Left(thr, t) \cup (IF b.at \in Mine THEN {b.conn} ELSE {})
          /\ b.at \in Mine => b.conn \notin Left(thr, t)
      BY <2>2, <2>3, <2>6, <3>1, <3>2, <3>4, <3>5
    <3>9. Sound(pool', [thr EXCEPT ![t] = b])
      BY <1>1, <3>2, <3>4, <3>7, <3>8, Moves
    <3> QED BY <3>3, <3>9
  <2>10. CASE pool' = q /\ thr' = [thr EXCEPT ![t] = Backend!NoCall]
    <3> DEFINE b == Backend!NoCall
    <3>1. b \in Backend!Call /\ b.at \notin Mine \cup Opening
      BY <1>1, CallFacts DEF Mine, Opening
    <3> HIDE DEF b
    <3>2. One(b, {"held"}) = 0 /\ One(b, Opening) = 0 /\ b.at \notin Mine
      BY <3>1, Ones
    <3>3. /\ q.active = Recount(pool.active, thr[t], b, {"held"})
          /\ q.pending = Recount(pool.pending, thr[t], b, Opening)
          /\ Len(q.order) + q.pending <= MaxConns
      BY <2>1, <2>3, <2>6, <2>7, <2>8, <3>2 DEF Recount
    <3>4. q.in_use = Left(thr, t) \cup (IF b.at \in Mine THEN {b.conn} ELSE {})
      BY <2>2, <2>6, <3>2
    <3>5. Sound(q, [thr EXCEPT ![t] = b])
      BY <1>1, <2>6, <3>1, <3>2, <3>3, <3>4, Moves
    <3> QED BY <2>10, <3>5 DEF b
  <2> QED BY <2>4, <2>9, <2>10
<1> QED BY <1>2, <1>3 DEF ConnInv

\* Threads whose calls are only older.
LEMMA SameCalls ==
    ASSUME NEW p, NEW T, Sound(p, T), NEW U \in [Thread -> Backend!Call],
           \A t \in Thread : U[t].at = T[t].at /\ U[t].conn = T[t].conn
    PROVE  Sound(p, U)
<1>1. In(U, {"held"}) = In(T, {"held"})
  BY DEF In
<1>2. In(U, Opening) = In(T, Opening)
  BY DEF In
<1>3. In(U, Mine) = In(T, Mine)
  BY DEF In
<1>4. \A t \in In(T, Mine) : U[t].conn = T[t].conn
  BY DEF In
<1>5. Reserved(U) = Reserved(T) /\ (Alone(T) => Alone(U))
  BY <1>3, <1>4 DEF Reserved, Alone
<1> QED BY <1>1, <1>2, <1>5 DEF Sound

LEMMA TickKeeps ==
    ASSUME ConnInv, Backend!Tick
    PROVE  Sound(pool', thr') /\ last_failure' \in Backend!Upto(Backend!FailedCap)
<1>1. /\ Sound(pool, thr) /\ Shape(pool) /\ pool \in PoolRecord
      /\ thr \in [Thread -> Backend!Call]
      /\ last_failure \in Backend!Upto(Backend!FailedCap)
  BY SoundFacts, ShapeFields DEF ConnInv
<1>2. ASSUME NEW cap \in Nat, NEW n \in Backend!Upto(cap)
      PROVE  Backend!Older(n, cap) \in Backend!Upto(cap) /\ 0 \in Backend!Upto(cap)
  BY <1>2 DEF Backend!Older, Backend!Upto
<1> DEFINE v == [c \in Names |-> IF c \in Backend!ToSet(pool.order)
                                 THEN Backend!Older(pool.created[c], Backend!CreatedCap) ELSE 0]
           w == [c \in Names |-> IF c \in Backend!ToSet(pool.heap)
                                 THEN Backend!Older(pool.released[c], Backend!ReleasedCap) ELSE 0]
           f == IF pool.last_failed = None THEN None
                ELSE Backend!Older(pool.last_failed, Backend!FailedCap)
           o == Backend!Older(pool.last_opened, Backend!OpenedCap)
<1>3. v \in [Names -> Backend!Upto(Backend!CreatedCap)]
  <2>1. pool.created \in [Names -> Backend!Upto(Backend!CreatedCap)]
    BY <1>1 DEF PoolRecord
  <2> HIDE DEF Names
  <2>2. \A c \in Names : pool.created[c] \in Backend!Upto(Backend!CreatedCap)
    BY <2>1
  <2> QED BY <1>2, <2>2, Numbers
<1>4. w \in [Names -> Backend!Upto(Backend!ReleasedCap)]
  <2>1. pool.released \in [Names -> Backend!Upto(Backend!ReleasedCap)]
    BY <1>1 DEF PoolRecord
  <2> HIDE DEF Names
  <2>2. \A c \in Names : pool.released[c] \in Backend!Upto(Backend!ReleasedCap)
    BY <2>1
  <2> QED BY <1>2, <2>2, Numbers
<1>5. f \in Backend!Upto(Backend!FailedCap) \cup {None}
  <2>1. pool.last_failed \in Backend!Upto(Backend!FailedCap) \cup {None}
    BY <1>1 DEF PoolRecord
  <2> QED BY <1>2, <2>1, Numbers
<1>6. o \in Backend!Upto(Backend!OpenedCap)
  <2>1. pool.last_opened \in Backend!Upto(Backend!OpenedCap)
    BY <1>1 DEF PoolRecord
  <2> QED BY <1>2, <2>1, Numbers
<1>7. pool' = [pool EXCEPT !.created = v, !.released = w, !.last_failed = f, !.last_opened = o,
                           !.checked = FALSE]
  BY DEF Backend!Tick, Names
<1> HIDE DEF v, w, f, o
<1>8. pool' \in PoolRecord
  <2> HIDE DEF Names
  <2> QED BY <1>1, <1>3, <1>4, <1>5, <1>6, <1>7 DEF PoolRecord
<1>9. /\ pool'.order = pool.order /\ pool'.heap = pool.heap /\ pool'.in_use = pool.in_use
      /\ pool'.active = pool.active /\ pool'.pending = pool.pending
      /\ pool'.delay_interval = pool.delay_interval /\ pool'.next_delay = pool.next_delay
  BY <1>1, <1>7 DEF PoolRecord
<1>10. Shape(pool')
  BY <1>1, <1>8, <1>9, SameLists
<1>11. Trimmed(pool, pool')
  BY <1>1, <1>9, <1>10, ShapeFields DEF Trimmed
<1>12. Sound(pool', thr)
  BY <1>1, <1>11, SoundTrim
<1>13. /\ thr' \in [Thread -> Backend!Call]
       /\ \A t \in Thread : thr'[t].at = thr[t].at /\ thr'[t].conn = thr[t].conn
  <2>1. \A t \in Thread : thr[t].at \notin {"idle", "held"} => thr[t].age < MaxCall
    BY DEF Backend!Tick
  <2>2. thr' = [t \in Thread |-> IF thr[t].at \in {"idle", "held"} THEN thr[t]
                                 ELSE [thr[t] EXCEPT !.age = @ + 1]]
    BY DEF Backend!Tick
  <2>3. ASSUME NEW t \in Thread
        PROVE  thr'[t] \in Backend!Call /\ thr'[t].at = thr[t].at /\ thr'[t].conn = thr[t].conn
    <3>1. CASE thr[t].at \in {"idle", "held"}
      BY <1>1, <2>2, <3>1
    <3>2. CASE thr[t].at \notin {"idle", "held"}
      <4>1. thr[t] \in Backend!Call /\ thr[t].age < MaxCall
        BY <1>1, <2>1, <3>2
      <4>2. thr[t].age \in Nat /\ MaxCall \in Nat
        BY <4>1, CallFacts
      <4>3. thr[t].age + 1 \in Backend!Upto(MaxCall)
        BY <4>1, <4>2 DEF Backend!Upto
      <4>4. thr'[t] = [thr[t] EXCEPT !.age = @ + 1]
        BY <2>2, <3>2
      <4> QED BY <4>1, <4>3, <4>4 DEF Backend!Call
    <3> QED BY <3>1, <3>2
  <2> QED BY <2>2, <2>3
<1>14. Sound(pool', thr')
  BY <1>12, <1>13, SameCalls
<1>15. last_failure' \in Backend!Upto(Backend!FailedCap)
  BY <1>1, <1>2, Numbers DEF Backend!Tick
<1> QED BY <1>14, <1>15

LEMMA ConnInit ==
    ASSUME Backend!Init
    PROVE  ConnInv
<1> DEFINE s == [i \in 1..StartConns |-> i]
<1>1. /\ StartConns \in Nat /\ StartConns <= MaxConns /\ MaxConns \in Nat /\ MaxConns > 0
      /\ CleanupInterval \in Nat /\ RetryDelay \in Nat /\ MaxCall \in Nat
  BY BackendAssumption, Numbers DEF Backend!ConnAssumption
<1>2. /\ s \in Seq(Names) /\ Injective(s) /\ Elems(s) = Elems(s) \ {} /\ Len(s) = StartConns
  <2>1. s \in [1..StartConns -> Names]
    BY <1>1 DEF Names, Backend!Conn
  <2>2. s \in Seq(Names) /\ Len(s) = StartConns
    BY <1>1, <2>1
  <2>3. Injective(s)
    BY <2>2 DEF Injective
  <2> QED BY <2>2, <2>3
<1>3. pool = [order |-> s, heap |-> s, in_use |-> {}, uses |-> [c \in Names |-> 0],
              created |-> [c \in Names |-> 0], released |-> [c \in Names |-> 0],
              active |-> 0, pending |-> 0, max_pending |-> MaxConns, last_failed |-> None,
              last_opened |-> IF StartConns = 0 THEN Backend!OpenedCap ELSE 0,
              delay_interval |-> IF StartConns = 0 THEN 0 ELSE CleanupInterval,
              next_delay |-> IF StartConns = 0 THEN 0 ELSE CleanupInterval,
              checked |-> FALSE]
  BY DEF Backend!Init, Names
<1> HIDE DEF s
<1>4. pool \in PoolRecord
  <2>1. /\ 0 \in Backend!Upto(MaxUses) /\ 0 \in Backend!Upto(Backend!CreatedCap)
        /\ 0 \in Backend!Upto(Backend!ReleasedCap)
    BY Numbers DEF Backend!Upto
  <2>2. /\ (IF StartConns = 0 THEN Backend!OpenedCap ELSE 0) \in Backend!Upto(Backend!OpenedCap)
        /\ (IF StartConns = 0 THEN 0 ELSE CleanupInterval) \in Nat
        /\ (IF StartConns = 0 THEN 0 ELSE CleanupInterval) \in Backend!Upto(CleanupInterval + 1)
    BY <1>1, Numbers DEF Backend!Upto
  <2>3. MaxConns \in 1..MaxConns
    BY <1>1
  <2> HIDE DEF Names
  <2> QED BY <1>2, <1>3, <2>1, <2>2, <2>3 DEF PoolRecord
<1>5. DelayFits(pool)
  <2>1. /\ pool.order = s /\ pool.delay_interval = IF StartConns = 0 THEN 0 ELSE CleanupInterval
        /\ pool.next_delay = IF StartConns = 0 THEN 0 ELSE CleanupInterval
    BY <1>3
  <2>2. CASE StartConns = 0
    BY <1>1, <1>2, <2>1, <2>2, Numbers DEF DelayFits
  <2>3. CASE StartConns # 0 /\ CleanupInterval = 0
    BY <1>1, <1>2, <2>1, <2>3, Numbers DEF DelayFits
  <2>4. CASE StartConns # 0 /\ CleanupInterval # 0
    BY <1>1, <1>2, <2>1, <2>4, Numbers DEF DelayFits
  <2> QED BY <2>2, <2>3, <2>4
<1>6. Shape(pool)
  BY <1>2, <1>3, <1>4, <1>5 DEF Shape
<1>7. thr \in [Thread -> Backend!Call] /\ \A t \in Thread : thr[t].at = "idle"
  <2>1. 0 \in Backend!Upto(MaxCall)
    BY <1>1 DEF Backend!Upto
  <2>2. Backend!NoCall \in Backend!Call /\ Backend!NoCall.at = "idle"
    BY <2>1 DEF Backend!NoCall, Backend!Call
  <2> QED BY <2>2 DEF Backend!Init
<1>8. In(thr, {"held"}) = {} /\ In(thr, Opening) = {} /\ In(thr, Mine) = {}
  BY <1>7 DEF In, Opening, Mine
<1>9. Alone(thr) /\ pool.in_use = Reserved(thr)
  BY <1>3, <1>8 DEF Alone, Reserved
<1>10. pool.active = 0 /\ pool.pending = 0 /\ Len(pool.order) + pool.pending <= MaxConns
  BY <1>1, <1>2, <1>3
<1>11. Sound(pool, thr)
  BY <1>6, <1>7, <1>8, <1>9, <1>10, FS_EmptySet DEF Sound
<1>12. last_failure \in Backend!Upto(Backend!FailedCap)
  BY Numbers DEF Backend!Init, Backend!Upto
<1> QED BY <1>11, <1>12 DEF ConnInv, Backend!Init

LEMMA ConnNext ==
    ASSUME ConnInv, [Backend!Next]_(Backend!vars)
    PROVE  ConnInv'
<1>1. CASE UNCHANGED Backend!vars
  BY <1>1 DEF Backend!vars, ConnInv, Sound, Shape, DelayFits, In, Reserved, Alone
<1>2. ASSUME NEW t \in Thread, Backend!Step(t)
      PROVE  ConnInv'
  <2>1. CASE Backend!Get(t)
    BY <2>1, GetKeeps DEF ConnInv, Backend!Get
  <2>2. CASE Backend!SpawnLook(t)
    BY <2>2, LookKeeps DEF ConnInv, Backend!SpawnLook
  <2>3. CASE Backend!SpawnBegin(t)
    BY <2>3, BeginKeeps DEF ConnInv, Backend!SpawnBegin
  <2>4. CASE Backend!CreateFails(t)
    BY <2>4, FailsKeeps, Numbers DEF ConnInv, Backend!CreateFails, Backend!Upto
  <2>5. CASE Backend!SpawnFailed(t)
    BY <2>5, FailedKeeps DEF ConnInv, Backend!SpawnFailed
  <2>6. CASE Backend!Spawned(t)
    BY <2>6, SpawnedKeeps DEF ConnInv, Backend!Spawned
  <2>7. CASE Backend!GetSpawned(t)
    BY <2>7, MineKeeps DEF ConnInv, Backend!GetSpawned
  <2>8. CASE Backend!CheckSpawned(t)
    BY <2>8, ManageKeeps DEF ConnInv, Backend!CheckSpawned
  <2>9. CASE Backend!Release(t)
    BY <2>9, ReleaseKeeps DEF ConnInv, Backend!Release
  <2>10. CASE Backend!Close(t)
    BY <2>10, CloseKeeps DEF ConnInv, Backend!Close
  <2>11. CASE Backend!Reconnect(t)
    BY <2>11, ReconnectKeeps, Numbers DEF ConnInv, Backend!Reconnect, Backend!Upto
  <2> QED BY <1>2, <2>1, <2>2, <2>3, <2>4, <2>5, <2>6, <2>7, <2>8, <2>9, <2>10, <2>11
       DEF Backend!Step
<1>3. CASE Backend!Tick
  BY <1>3, TickKeeps DEF ConnInv, Backend!Tick
<1>4. CASE Backend!BackEnd
  BY <1>4 DEF Backend!BackEnd, ConnInv, Sound, Shape, DelayFits, In, Reserved, Alone
<1>5. CASE Backend!Exit
  BY <1>5 DEF Backend!Exit, ConnInv, Sound, Shape, DelayFits, In, Reserved, Alone
<1> QED BY <1>1, <1>2, <1>3, <1>4, <1>5 DEF Backend!Next

LEMMA ConnImplied ==
    ASSUME ConnInv
    PROVE  ConnSound
<1>1. Sound(pool, thr) /\ Alone(thr)
  BY DEF ConnInv, Sound
<1>2. /\ Shape(pool) /\ Len(pool.order) + pool.pending <= MaxConns
      /\ thr \in [Thread -> Backend!Call] /\ pool.in_use = Reserved(thr)
      /\ pool \in Backend!Pool
  BY <1>1, SoundFacts
<1>3. Backend!TypeOK
  BY <1>2 DEF Backend!TypeOK, ConnInv
<1>4. In(thr, Mine) = {u \in Thread : Backend!Holds(u)}
  BY DEF In, Mine, Backend!Holds
<1>5. /\ Backend!ToSet(pool.order) = Elems(pool.order)
      /\ Backend!ToSet(pool.heap) = Elems(pool.heap)
      /\ pool.in_use \subseteq Elems(pool.order)
      /\ Elems(pool.heap) = Elems(pool.order) \ pool.in_use
  BY <1>2, ShapeFields, SeqWords DEF Links
<1>6. Backend!OneHolder
  <2>1. \A t, u \in Thread :
           t # u /\ Backend!Holds(t) /\ Backend!Holds(u) => thr[t].conn # thr[u].conn
    BY <1>1, <1>4 DEF Alone
  <2>2. pool.in_use = {thr[t].conn : t \in {u \in Thread : Backend!Holds(u)}}
    BY <1>2, <1>4 DEF Reserved
  <2> QED BY <1>5, <2>1, <2>2 DEF Backend!OneHolder
<1>7. Backend!CountsExact
  <2>1. In(thr, {"held"}) = {t \in Thread : thr[t].at = "held"}
    BY DEF In
  <2>2. In(thr, Opening) = {t \in Thread : thr[t].at \in {"create", "failed"}}
    BY DEF In, Opening
  <2> QED BY <1>1, <2>1, <2>2, SameCount DEF Backend!CountsExact, Sound
<1>8. Backend!AtMostMax
  BY <1>2 DEF Backend!AtMostMax, Backend!Num
<1> QED BY <1>3, <1>6, <1>7, <1>8 DEF ConnSound

\* A connection of radiusd's pool has one holder at most and stays in the list
\* until its holder gives it up; the counts of reserved connections and of those
\* being opened are exact whichever way a call ended; and the pool never exceeds
\* its maximum: for any limits, delays and timeouts fr_connection_pool_init
\* accepts, and any set of threads, whatever the back end does.
THEOREM PoolStaysSound == Backend!Spec => []ConnSound
<1>1. Backend!Init => ConnInv
  BY ConnInit
<1>2. ConnInv /\ [Backend!Next]_(Backend!vars) => ConnInv'
  BY ConnNext
<1>3. ConnInv => ConnSound
  BY ConnImplied
<1> QED BY <1>1, <1>2, <1>3, PTL DEF Backend!Spec
=============================================================================
