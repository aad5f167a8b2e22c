--------------------------- MODULE SessionDbProofs ---------------------------
(***************************************************************************)
(* The statements of SessionDb keep its tables well typed, for every set   *)
(* of sessions, accounts and NASes, every assignment of Acct-Session-Ids   *)
(* (repeated ones included), every quota and every length of the           *)
(* stale-session timeout.  The last part is about the sum of the octets of *)
(* ledger rows.                                                            *)
(***************************************************************************)
EXTENDS SessionDb, FiniteSetsExt, FiniteSetTheorems, TLAPS

TablesOK ==
    /\ online \in [Uid -> OnlineRow \cup {NoRow}]
    /\ offline \subseteq OfflineRow
    /\ byte_remain \in [User -> Int]
    /\ second_remain \in [User -> Int]
    /\ next_id \in Nat \ {0}

-----------------------------------------------------------------------------
\* The session time that a trigger bills is a natural number.
LEMMA BilledSecsType ==
    ASSUME DbTypeOK, NEW uid \in Uid, NEW secs \in Nat, NEW s \in BilledSecs(uid, secs)
    PROVE  s \in Nat
<1> USE NoRowAssumption DEF DbTypeOK, BilledSecs, Abs, Present
<1>1. CASE secs # 0
  BY <1>1
<1>2. CASE secs = 0
  <2> DEFINE starts == {online[x].start : x \in {y \in Uid : Present(y) /\ SidOf[y] = SidOf[uid]}}
  <2>1. CASE starts = {}
    BY <1>2, <2>1
  <2>2. CASE starts # {}
    <3>1. PICK x \in Uid : online[x] # NoRow /\ s = Abs(now - online[x].start)
      BY <1>2, <2>2
    <3>2. online[x] \in OnlineRow
      BY <3>1
    <3>3. online[x].start \in Nat
      BY <3>2 DEF OnlineRow
    <3> QED BY <3>1, <3>3
  <2> QED BY <2>1, <2>2
<1> QED BY <1>1, <1>2

LEMMA InsertOfflineType ==
    ASSUME DbTypeOK, NEW id \in Nat, NEW uid \in Uid, NEW secs \in Nat, NEW octets \in Nat,
           InsertOffline(id, uid, secs, octets)
    PROVE  TablesOK'
<1> USE SessionAssumption DEF DbTypeOK, InsertOffline, BillAndClose
<1>1. online' \in [Uid -> OnlineRow \cup {NoRow}]
  OBVIOUS
<1>2. offline' \subseteq OfflineRow
  BY DEF OfflineRow
<1>3. byte_remain' \in [User -> Int] /\ second_remain' \in [User -> Int]
  BY DEF Debit
<1> QED BY <1>1, <1>2, <1>3 DEF TablesOK

LEMMA UpdateOfflineType ==
    ASSUME DbTypeOK, NEW r \in offline, NEW secs \in Nat, NEW octets \in Nat,
           UpdateOffline(r, secs, octets)
    PROVE  TablesOK'
<1> USE SessionAssumption DEF DbTypeOK, UpdateOffline, BillAndClose
<1>0. r \in OfflineRow /\ r.uid \in Uid
  BY DEF OfflineRow
<1>1. online' \in [Uid -> OnlineRow \cup {NoRow}]
  OBVIOUS
<1>2. offline' \subseteq OfflineRow
  BY <1>0 DEF OfflineRow
<1>3. byte_remain' \in [User -> Int] /\ second_remain' \in [User -> Int]
  BY <1>0 DEF Debit
<1> QED BY <1>1, <1>2, <1>3 DEF TablesOK

LEMMA InsertOnlineType ==
    ASSUME DbTypeOK, NEW uid \in Uid, NEW secs \in Nat, NEW octets \in Nat,
           InsertOnline(uid, secs, octets)
    PROVE  TablesOK'
<1>1. NewOnlineRow(secs, octets) \in OnlineRow
  BY DEF DbTypeOK, NewOnlineRow, OnlineRow
<1> QED BY <1>1 DEF DbTypeOK, InsertOnline, TablesOK

LEMMA HandleStartType ==
    ASSUME DbTypeOK, NEW uid \in Uid, NEW ts \in Nat, HandleStart(uid, ts)
    PROVE  TablesOK'
<1>1. CASE InsertOnline(uid, 0, 0)
  BY <1>1, InsertOnlineType
<1>2. CASE /\ Present(uid)
           /\ online' = [online EXCEPT ![uid].start = ts, ![uid].upd = now]
           /\ UNCHANGED <<offline, byte_remain, second_remain, next_id>>
  <2>1. online[uid] \in OnlineRow
    BY <1>2 DEF DbTypeOK, Present
  <2>2. online'[uid] \in OnlineRow
    BY <1>2, <2>1 DEF DbTypeOK, OnlineRow
  <2> QED BY <1>2, <2>2 DEF DbTypeOK, TablesOK
<1> QED BY <1>1, <1>2 DEF HandleStart

LEMMA HandleInterimType ==
    ASSUME DbTypeOK, NEW uid \in Uid, NEW secs \in Nat, NEW octets \in Nat,
           HandleInterim(uid, secs, octets)
    PROVE  TablesOK'
<1>1. CASE InsertOnline(uid, secs, octets)
  BY <1>1, InsertOnlineType
<1>2. CASE /\ Present(uid)
           /\ online' = [online EXCEPT ![uid].secs = secs, ![uid].octets = octets, ![uid].upd = now]
           /\ UNCHANGED <<offline, byte_remain, second_remain, next_id>>
  <2>1. online[uid] \in OnlineRow
    BY <1>2 DEF DbTypeOK, Present
  <2>2. online'[uid] \in OnlineRow
    BY <1>2, <2>1 DEF DbTypeOK, OnlineRow
  <2> QED BY <1>2, <2>2 DEF DbTypeOK, TablesOK
<1> QED BY <1>1, <1>2 DEF HandleInterim

LEMMA HandleStopType ==
    ASSUME DbTypeOK, NEW uid \in Uid, NEW secs \in Nat, NEW octets \in Nat,
           HandleStop(uid, secs, octets)
    PROVE  TablesOK'
<1>1. CASE StopInserts(uid, secs, octets)
  BY <1>1, BilledSecsType, InsertOfflineType DEF StopInserts
<1>2. CASE StopUpdates(uid, secs, octets)
  BY <1>2, BilledSecsType, UpdateOfflineType DEF StopUpdates, LedgerOf
<1>3. CASE StopRejected(uid)
  BY <1>3 DEF StopRejected, tables, DbTypeOK, TablesOK
<1> QED BY <1>1, <1>2, <1>3 DEF HandleStop

LEMMA HandleAccountingOnType ==
    ASSUME DbTypeOK, NEW nas \in Nas, NEW ts \in Nat, HandleAccountingOn(nas, ts)
    PROVE  TablesOK'
<1>1. ASSUME NEW x \in Uid, Present(x), online[x].start <= ts
      PROVE  [online[x] EXCEPT !.stop = ts, !.secs = ts - online[x].start, !.upd = now] \in OnlineRow
  <2>1. online[x] \in OnlineRow
    BY <1>1 DEF DbTypeOK, Present
  <2>2. ts - online[x].start \in Nat
    BY <1>1, <2>1 DEF OnlineRow
  <2> QED BY <2>1, <2>2 DEF DbTypeOK, OnlineRow
<1>2. online' \in [Uid -> OnlineRow \cup {NoRow}]
  BY <1>1 DEF DbTypeOK, HandleAccountingOn
<1> QED BY <1>2 DEF DbTypeOK, HandleAccountingOn, TablesOK

LEMMA EventMarkType ==
    ASSUME DbTypeOK, NEW w \in Worker, EventMark(w)
    PROVE  DbTypeOK' /\ now' = now
<1>1. ASSUME NEW x \in Uid, Present(x)
      PROVE  [online[x] EXCEPT !.stop = now, !.upd = now] \in OnlineRow
  <2>1. online[x] \in OnlineRow
    BY <1>1 DEF DbTypeOK, Present
  <2> QED BY <2>1 DEF DbTypeOK, OnlineRow
<1>2. online' \in [Uid -> OnlineRow \cup {NoRow}]
  BY <1>1 DEF DbTypeOK, EventMark
<1>3. job' \in [Worker -> Jobs]
  BY DEF DbTypeOK, EventMark, Jobs
<1> QED BY <1>2, <1>3 DEF DbTypeOK, EventMark

LEMMA EventMoveRowType ==
    ASSUME DbTypeOK, NEW w \in Worker, NEW uid \in Uid, EventMoveRow(w, uid)
    PROVE  DbTypeOK' /\ now' = now
<1>1. job[w].temp[uid] \in OnlineRow
  BY DEF DbTypeOK, EventMoveRow, Copied, Jobs
<1>2. /\ job[w].temp[uid].id \in Nat
      /\ job[w].temp[uid].secs \in Nat
      /\ job[w].temp[uid].octets \in Nat
  BY <1>1 DEF OnlineRow
<1>3. TablesOK'
  BY <1>2, BilledSecsType, InsertOfflineType DEF EventMoveRow
<1>4. job' \in [Worker -> Jobs]
  BY DEF DbTypeOK, EventMoveRow, Jobs
<1> QED BY <1>3, <1>4 DEF DbTypeOK, TablesOK, EventMoveRow

LEMMA EventStepType ==
    ASSUME DbTypeOK, NEW w \in Worker, EventStep(w)
    PROVE  DbTypeOK' /\ now' = now
<1>1. CASE EventMark(w)
  BY <1>1, EventMarkType
<1>2. CASE EventCopy(w)
  <2>1. [at |-> "copied",
         temp |-> [x \in Uid |-> IF Present(x) /\ online[x].stop # Null THEN online[x] ELSE NoRow]]
        \in Jobs
    BY DEF DbTypeOK, Jobs
  <2>2. job' \in [Worker -> Jobs]
    BY <1>2, <2>1 DEF DbTypeOK, EventCopy
  <2> QED BY <1>2, <2>2 DEF DbTypeOK, EventCopy, tables
<1>3. CASE EventMove(w)
  BY <1>3 DEF DbTypeOK, EventMove, tables, Jobs
<1>4. CASE \E uid \in Uid : EventMoveRow(w, uid)
  BY <1>4, EventMoveRowType
<1>5. CASE EventDone(w)
  BY <1>5 DEF DbTypeOK, EventDone, tables, Jobs
<1>6. CASE EventAbort(w)
  BY <1>6 DEF DbTypeOK, EventAbort, tables, Jobs, IdleJob, NoRows
<1> QED BY <1>1, <1>2, <1>3, <1>4, <1>5, <1>6 DEF EventStep

LEMMA KickUnauthorisedType ==
    ASSUME DbTypeOK, KickUnauthorised
    PROVE  DbTypeOK' /\ now' = now
<1>1. ASSUME NEW x \in Uid, Present(x)
      PROVE  [online[x] EXCEPT !.kickme = TRUE, !.upd = now] \in OnlineRow
  <2>1. online[x] \in OnlineRow
    BY <1>1 DEF DbTypeOK, Present
  <2> QED BY <2>1 DEF DbTypeOK, OnlineRow
<1>2. online' \in [Uid -> OnlineRow \cup {NoRow}]
  BY <1>1 DEF DbTypeOK, KickUnauthorised
<1> QED BY <1>2 DEF DbTypeOK, KickUnauthorised

LEMMA ReadOnlineUserType ==
    ASSUME DbTypeOK, NEW uid \in Uid, ReadOnlineUser(uid)
    PROVE  DbTypeOK' /\ now' = now
<1>1. form' \in Forms
  BY DEF DbTypeOK, ReadOnlineUser, Present, Forms
<1> QED BY <1>1 DEF DbTypeOK, ReadOnlineUser, tables

LEMMA UpdateOnlineUserType ==
    ASSUME DbTypeOK, UpdateOnlineUser
    PROVE  DbTypeOK' /\ now' = now
<1>1. form \in Forms
  BY DEF DbTypeOK, UpdateOnlineUser
<1>2. online' \in [Uid -> OnlineRow \cup {NoRow}]
  <2>1. CASE UNCHANGED online
    BY <2>1 DEF DbTypeOK
  <2>2. ASSUME NEW x \in Uid, Present(x),
               online' = [[online EXCEPT ![x] = NoRow]
                   EXCEPT ![form.uid] = [form.row EXCEPT !.id = online[x].id, !.upd = now, !.kickme = TRUE]]
        PROVE  online' \in [Uid -> OnlineRow \cup {NoRow}]
    <3>1. online[x].id \in Nat
      BY <2>2 DEF DbTypeOK, Present, OnlineRow
    <3>2. [form.row EXCEPT !.id = online[x].id, !.upd = now, !.kickme = TRUE] \in OnlineRow
      BY <1>1, <3>1 DEF DbTypeOK, Forms, OnlineRow
    <3> QED BY <1>1, <2>2, <3>2 DEF DbTypeOK, Forms
  <2> QED BY <2>1, <2>2 DEF UpdateOnlineUser
<1> QED BY <1>2 DEF DbTypeOK, UpdateOnlineUser

-----------------------------------------------------------------------------
(***************************************************************************)
(* The sum of the octets of ledger rows.  MapThenSumSet takes the rows in  *)
(* an order of its own; these lemmas show that it adds up every row once,  *)
(* whatever the order.  They argue by a least set for which they fail.     *)
(***************************************************************************)
Octets(S) == MapThenSumSet(LAMBDA r : r.octets, S)

\* g is the function that MapThenSumSet recurses by on the subsets of S.
IsSum(S, g) ==
    g = [s \in SUBSET S |->
            IF s = {} THEN 0
            ELSE LET x == CHOOSE x \in s : TRUE IN x.octets + g[s \ {x}]]

\* The row that is taken from S first.
First(S) == CHOOSE x \in S : TRUE

SumOf(S) == (CHOOSE g : IsSum(S, g))[S]

\* The library's operator is the sum the lemmas below are about.
LEMMA OctetsIsSum ==
    ASSUME NEW S
    PROVE  Octets(S) = SumOf(S)
BY DEF Octets, MapThenSumSet, MapThenFoldSet, SumOf, IsSum

\* Of some subsets of a finite set, one contains no other.
LEMMA LeastSubset ==
    ASSUME NEW S, IsFiniteSet(S), NEW T, T \subseteq SUBSET S, T # {}
    PROVE  \E m \in T : \A t \in T : t \subseteq m => t = m
<1>1. T \subseteq FiniteSubsetsOf(S)
  BY FS_FiniteSubsetsOfFinite
<1>2. PICK m \in T : \A t \in T : <<t, m>> \notin StrictSubsetOrdering(S)
  BY <1>1, FS_StrictSubsetOrderingWellFounded, WFMin
<1>3. ASSUME NEW t \in T, t \subseteq m
      PROVE  t = m
  <2>1. <<t, m>> \in (SUBSET S) \X (SUBSET S)
    OBVIOUS
  <2> QED BY <1>2, <1>3, <2>1 DEF StrictSubsetOrdering
<1> QED BY <1>3

\* Unfolding, and folding, the recursion once.
LEMMA SumStep ==
    ASSUME NEW S, NEW g, IsSum(S, g), NEW s \in SUBSET S
    PROVE  g[s] = IF s = {} THEN 0 ELSE First(s).octets + g[s \ {First(s)}]
<1> DEFINE step(f, t) == IF t = {} THEN 0
                         ELSE LET x == CHOOSE x \in t : TRUE IN x.octets + f[t \ {x}]
<1>1. g = [t \in SUBSET S |-> step(g, t)]
  BY DEF IsSum
<1> HIDE DEF step
<1>2. g[s] = step(g, s)
  BY <1>1
<1> QED BY <1>2 DEF step, First

LEMMA SumIntro ==
    ASSUME NEW S, NEW g, g = [s \in SUBSET S |-> g[s]],
           \A s \in SUBSET S : g[s] = IF s = {} THEN 0 ELSE First(s).octets + g[s \ {First(s)}]
    PROVE  IsSum(S, g)
<1> DEFINE step(s) == IF s = {} THEN 0
                      ELSE LET x == CHOOSE x \in s : TRUE IN x.octets + g[s \ {x}]
<1>1. \A s \in SUBSET S : g[s] = step(s)
  BY DEF First
<1> HIDE DEF step
<1>2. g = [s \in SUBSET S |-> step(s)]
  BY <1>1
<1> QED BY <1>2 DEF IsSum, step

LEMMA FirstIn ==
    ASSUME NEW s, s # {}
    PROVE  First(s) \in s
BY DEF First

\* Two such functions agree where both are defined.
LEMMA SumUnique ==
    ASSUME NEW S, IsFiniteSet(S), NEW T \in SUBSET S,
           NEW g, IsSum(S, g), NEW h, IsSum(T, h)
    PROVE  \A s \in SUBSET T : g[s] = h[s]
<1> DEFINE Bad == {s \in SUBSET T : g[s] # h[s]}
<1> SUFFICES ASSUME Bad # {}
             PROVE  FALSE
  OBVIOUS
<1>1. Bad \subseteq SUBSET S
  OBVIOUS
<1> HIDE DEF Bad
<1>2. PICK m \in Bad : \A t \in Bad : t \subseteq m => t = m
  BY <1>1, LeastSubset
<1> USE DEF Bad
<1>3. m \in SUBSET S /\ m \in SUBSET T /\ g[m] # h[m]
  OBVIOUS
<1>4. CASE m = {}
  BY <1>3, <1>4, SumStep
<1>5. CASE m # {}
  <2> DEFINE n == m \ {First(m)}
  <2>1. First(m) \in m
    BY <1>5, FirstIn
  <2>2. n \in SUBSET T /\ n \subseteq m /\ n # m
    BY <1>3, <2>1
  <2>3. g[n] = h[n]
    BY <1>2, <2>2
  <2>4. g[m] = First(m).octets + g[n] /\ h[m] = First(m).octets + h[n]
    BY <1>3, <1>5, SumStep
  <2> QED BY <1>3, <2>3, <2>4
<1> QED BY <1>4, <1>5

\* The recursion defines a function on every finite set of rows.
LEMMA SumExists ==
    ASSUME NEW S, IsFiniteSet(S)
    PROVE  \A T \in SUBSET S : \E g : IsSum(T, g)
<1> DEFINE Bad == {T \in SUBSET S : ~ \E g : IsSum(T, g)}
<1> SUFFICES ASSUME Bad # {}
             PROVE  FALSE
  OBVIOUS
<1>1. Bad \subseteq SUBSET S
  OBVIOUS
<1> HIDE DEF Bad
<1>2. PICK m \in Bad : \A t \in Bad : t \subseteq m => t = m
  BY <1>1, LeastSubset
<1> USE DEF Bad
<1>3. m \in SUBSET S /\ ~ \E g : IsSum(m, g)
  OBVIOUS
<1> DEFINE f(t) == CHOOSE g : IsSum(t, g)
           k == [s \in SUBSET m |-> IF s = {} THEN 0
                                    ELSE First(s).octets + SumOf(s \ {First(s)})]
<1>4. ASSUME NEW t \in SUBSET m, t # m
      PROVE  IsFiniteSet(t) /\ IsSum(t, f(t)) /\ SumOf(t) = f(t)[t]
  <2>1. t \in SUBSET S /\ t \notin Bad
    BY <1>2, <1>3, <1>4
  <2>2. \E g : IsSum(t, g)
    BY <2>1
  <2> QED BY <2>1, <2>2, FS_Subset DEF SumOf
<1>5. ASSUME NEW t \in SUBSET m, t # m
      PROVE  k[t] = SumOf(t)
  <2>1. f(t)[t] = IF t = {} THEN 0 ELSE First(t).octets + f(t)[t \ {First(t)}]
    BY <1>4, <1>5, SumStep
  <2>2. CASE t = {}
    BY <1>4, <1>5, <2>1, <2>2
  <2>3. CASE t # {}
    <3> DEFINE n == t \ {First(t)}
    <3>1. First(t) \in t
      BY <2>3, FirstIn
    <3>2. n \in SUBSET t /\ n \in SUBSET m /\ n # m
      BY <1>5, <3>1
    <3>3. IsSum(n, f(n)) /\ SumOf(n) = f(n)[n]
      BY <1>4, <3>2
    <3>4. IsFiniteSet(t) /\ IsSum(t, f(t)) /\ SumOf(t) = f(t)[t]
      BY <1>4, <1>5
    <3> HIDE DEF f, n
    <3>5. f(t)[n] = f(n)[n]
      BY <3>2, <3>3, <3>4, SumUnique
    <3>6. k[t] = First(t).octets + SumOf(n)
      BY <2>3 DEF n
    <3> QED BY <2>1, <2>3, <3>3, <3>4, <3>5, <3>6 DEF n
  <2> QED BY <2>2, <2>3
<1>6. \A s \in SUBSET m : k[s] = IF s = {} THEN 0 ELSE First(s).octets + k[s \ {First(s)}]
  <2> SUFFICES ASSUME NEW s \in SUBSET m, s # {}
               PROVE  k[s] = First(s).octets + k[s \ {First(s)}]
    OBVIOUS
  <2>1. s \ {First(s)} \in SUBSET m /\ s \ {First(s)} # m
    BY FirstIn
  <2>2. k[s \ {First(s)}] = SumOf(s \ {First(s)})
    BY <1>5, <2>1
  <2> QED BY <2>2
<1>7. k = [s \in SUBSET m |-> k[s]]
  OBVIOUS
<1> HIDE DEF k
<1>8. IsSum(m, k)
  BY <1>6, <1>7, SumIntro
<1> QED BY <1>3, <1>8

\* The first row, and the sum of the others.
LEMMA SumFirst ==
    ASSUME NEW S, IsFiniteSet(S), S # {}
    PROVE  SumOf(S) = First(S).octets + SumOf(S \ {First(S)})
<1> DEFINE f(t) == CHOOSE g : IsSum(t, g)
           n == S \ {First(S)}
<1>1. IsSum(S, f(S)) /\ IsSum(n, f(n))
  BY SumExists
<1>2. SumOf(S) = f(S)[S] /\ SumOf(n) = f(n)[n]
  BY DEF SumOf
<1> HIDE DEF f
<1>3. f(S)[S] = First(S).octets + f(S)[n]
  BY <1>1, SumStep
<1>4. f(S)[n] = f(n)[n]
  BY <1>1, SumUnique
<1> QED BY <1>2, <1>3, <1>4

LEMMA SumEmpty == SumOf({}) = 0
<1>1. IsFiniteSet({})
  BY FS_EmptySet
<1>2. IsSum({}, CHOOSE g : IsSum({}, g))
  BY <1>1, SumExists
<1> QED BY <1>2, SumStep DEF SumOf

\* A sum of natural numbers is one.
LEMMA SumType ==
    ASSUME NEW S, IsFiniteSet(S), \A r \in S : r.octets \in Nat
    PROVE  SumOf(S) \in Nat
<1> DEFINE Bad == {T \in SUBSET S : SumOf(T) \notin Nat}
<1> SUFFICES ASSUME Bad # {}
             PROVE  FALSE
  OBVIOUS
<1>1. Bad \subseteq SUBSET S
  OBVIOUS
<1> HIDE DEF Bad
<1>2. PICK m \in Bad : \A t \in Bad : t \subseteq m => t = m
  BY <1>1, LeastSubset
<1> USE DEF Bad
<1>3. m \in SUBSET S /\ SumOf(m) \notin Nat
  OBVIOUS
<1>4. m # {}
  BY <1>3, SumEmpty
<1> DEFINE n == m \ {First(m)}
<1>5. First(m) \in m /\ First(m).octets \in Nat
  BY <1>3, <1>4, FirstIn
<1>6. n \in SUBSET S /\ n \subseteq m /\ n # m
  BY <1>3, <1>5
<1>7. SumOf(n) \in Nat
  BY <1>2, <1>6
<1>8. IsFiniteSet(m)
  BY <1>3, FS_Subset
<1>9. SumOf(m) = First(m).octets + SumOf(n)
  BY <1>4, <1>8, SumFirst
<1> QED BY <1>3, <1>5, <1>7, <1>9

\* A row that is not in S yet adds its octets.
LEMMA SumAdds ==
    ASSUME NEW S, IsFiniteSet(S), \A r \in S : r.octets \in Nat,
           NEW e, e \notin S, e.octets \in Nat
    PROVE  SumOf(S \cup {e}) = SumOf(S) + e.octets
<1> DEFINE W == S \cup {e}
           Bad == {T \in SUBSET W : \E x \in W : x \notin T /\ SumOf(T \cup {x}) # SumOf(T) + x.octets}
<1>0. IsFiniteSet(W) /\ \A r \in W : r.octets \in Nat
  BY FS_AddElement
<1> SUFFICES ASSUME Bad # {}
             PROVE  FALSE
  OBVIOUS
<1>1. Bad \subseteq SUBSET W
  OBVIOUS
<1> HIDE DEF W, Bad
<1>2. PICK m \in Bad : \A t \in Bad : t \subseteq m => t = m
  BY <1>0, <1>1, LeastSubset
<1> USE DEF Bad
<1>3. m \in SUBSET W
  OBVIOUS
<1>4. PICK x \in W : x \notin m /\ SumOf(m \cup {x}) # SumOf(m) + x.octets
  OBVIOUS
<1> HIDE DEF Bad
<1> DEFINE t == m \cup {x}
           y == First(t)
           n == m \ {y}
<1>5. IsFiniteSet(t) /\ t # {} /\ y \in t /\ t \subseteq W
  <2>1. t \subseteq W
    BY <1>3
  <2>2. t # {} /\ IsFiniteSet(t)
    BY <1>0, <2>1, FS_Subset
  <2> QED BY <2>1, <2>2, FirstIn
<1>6. SumOf(t) = y.octets + SumOf(t \ {y})
  BY <1>5, SumFirst
<1>7. \A s \in SUBSET W : SumOf(s) \in Nat
  BY <1>0, FS_Subset, SumType
<1>8. y.octets \in Nat /\ x.octets \in Nat
  BY <1>0, <1>5
<1> HIDE DEF y
<1>9. CASE y = x
  <2>1. t \ {y} = m
    BY <1>4, <1>9
  <2>2. SumOf(t) = x.octets + SumOf(m)
    BY <1>6, <1>9, <2>1
  <2>3. SumOf(m) \in Nat
    BY <1>3, <1>7
  <2> QED BY <1>4, <1>8, <2>2, <2>3
<1>10. CASE y # x
  <2>1. y \in m /\ y \in W
    BY <1>5, <1>10
  <2>2. /\ t \ {y} = n \cup {x} /\ n \cup {y} = m
        /\ n \in SUBSET W /\ n \subseteq m /\ n # m /\ x \notin n /\ y \notin n
    BY <1>3, <1>4, <1>10, <2>1
  <2> HIDE DEF n
  <2>3. n \notin Bad
    BY <1>2, <2>2
  <2>4. SumOf(n \cup {x}) = SumOf(n) + x.octets /\ SumOf(n \cup {y}) = SumOf(n) + y.octets
    BY <2>1, <2>2, <2>3 DEF Bad
  <2>5. SumOf(t) = y.octets + (SumOf(n) + x.octets) /\ SumOf(m) = SumOf(n) + y.octets
    BY <1>6, <2>2, <2>4
  <2>6. SumOf(t) = SumOf(m) + x.octets
    BY <1>7, <1>8, <2>2, <2>5
  <2> QED BY <1>4, <2>6
<1> QED BY <1>9, <1>10

\* What the proofs about the tables use.
LEMMA OctetsEmpty == Octets({}) = 0
BY OctetsIsSum, SumEmpty

LEMMA OctetsAdd ==
    ASSUME NEW S, IsFiniteSet(S), \A r \in S : r.octets \in Nat,
           NEW e, e \notin S, e.octets \in Nat
    PROVE  /\ Octets(S) \in Nat
           /\ Octets(S \cup {e}) = Octets(S) + e.octets
BY OctetsIsSum, SumType, SumAdds

\* A row that may be in S already adds no more than its octets.
LEMMA OctetsInsert ==
    ASSUME NEW S, IsFiniteSet(S), \A r \in S : r.octets \in Nat, NEW e, e.octets \in Nat
    PROVE  /\ Octets(S) \in Nat
           /\ Octets(S \cup {e}) \in Nat
           /\ Octets(S \cup {e}) <= Octets(S) + e.octets
<1>1. Octets(S) \in Nat
  BY OctetsIsSum, SumType
<1>2. CASE e \in S
  <2>1. S \cup {e} = S
    BY <1>2
  <2>2. Octets(S \cup {e}) = Octets(S)
    BY <2>1
  <2> QED BY <1>1, <2>2
<1>3. CASE e \notin S
  <2>1. Octets(S \cup {e}) = Octets(S) + e.octets
    BY <1>3, OctetsAdd
  <2> QED BY <1>1, <2>1
<1> QED BY <1>2, <1>3

LEMMA OctetsRemove ==
    ASSUME NEW S, IsFiniteSet(S), \A r \in S : r.octets \in Nat, NEW e
    PROVE  /\ Octets(S \ {e}) \in Nat
           /\ Octets(S \ {e}) <= Octets(S)
<1>1. IsFiniteSet(S \ {e})
  BY FS_RemoveElement
<1>2. Octets(S \ {e}) \in Nat
  BY <1>1, OctetsIsSum, SumType
<1>3. CASE e \in S
  <2>1. S = (S \ {e}) \cup {e}
    BY <1>3
  <2>2. Octets((S \ {e}) \cup {e}) = Octets(S \ {e}) + e.octets
    BY <1>1, <1>3, OctetsAdd
  <2>3. Octets(S) = Octets(S \ {e}) + e.octets
    BY <2>1, <2>2
  <2>4. e.octets \in Nat
    BY <1>3
  <2> QED BY <1>2, <2>3, <2>4
<1>4. CASE e \notin S
  <2>1. S \ {e} = S
    BY <1>4
  <2> QED BY <1>2, <2>1
<1> QED BY <1>3, <1>4
=============================================================================
