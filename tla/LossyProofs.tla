---------------------------- MODULE LossyProofs ----------------------------
(***************************************************************************)
(* Theorems about AccountingLossy, for every value of its constants.       *)
(***************************************************************************)
EXTENDS AccountingLossy, SessionDbProofs

LEMMA DeliverType ==
    ASSUME TypeOK, NEW p \in net, Deliver(p)
    PROVE  TypeOK'
<1>1. p \in SessionPacket \/ p \in NasPacket
  BY DEF TypeOK
<1>2. TablesOK'
  <2>1. CASE p.type = "Start" /\ HandleStart(p.uid, p.ts)
    BY <1>1, <2>1, HandleStartType DEF TypeOK, SessionPacket, NasPacket
  <2>2. CASE p.type = "Interim" /\ HandleInterim(p.uid, p.secs, p.octets)
    BY <1>1, <2>2, HandleInterimType, LossyAssumption DEF TypeOK, SessionPacket, NasPacket
  <2>3. CASE p.type = "Stop" /\ HandleStop(p.uid, p.secs, p.octets)
    BY <1>1, <2>3, HandleStopType, LossyAssumption DEF TypeOK, SessionPacket, NasPacket
  <2>4. CASE p.type = "On" /\ HandleAccountingOn(p.nas, p.ts)
    BY <1>1, <2>4, HandleAccountingOnType DEF TypeOK, SessionPacket, NasPacket
  <2> QED BY <2>1, <2>2, <2>3, <2>4 DEF Deliver
<1> QED BY <1>2 DEF Deliver, TypeOK, DbTypeOK, TablesOK, nasVars

-----------------------------------------------------------------------------
\* Type correctness of the tables, the event's temporary table, the form in
\* the browser, the NASes and the packets in the network.
THEOREM TypeCorrect == Spec => []TypeOK
<1>1. Init => TypeOK
  BY SessionAssumption, LossyAssumption
     DEF Init, DbInit, TypeOK, DbTypeOK, IdleJob, NoRows, Jobs
<1>2. TypeOK /\ [Next]_vars => TypeOK'
  <2> SUFFICES ASSUME TypeOK, [Next]_vars
               PROVE  TypeOK'
    OBVIOUS
  <2>1. ASSUME NEW w \in Worker, EventStep(w), UNCHANGED nasVars
        PROVE  TypeOK'
    BY <2>1, EventStepType DEF TypeOK, nasVars
  <2>2. CASE KickUnauthorised /\ UNCHANGED nasVars
    BY <2>2, KickUnauthorisedType DEF TypeOK, nasVars
  <2>3. CASE UpdateOnlineUser /\ UNCHANGED nasVars
    BY <2>3, UpdateOnlineUserType DEF TypeOK, nasVars
  <2>4. ASSUME NEW uid \in Uid, ReadOnlineUser(uid), UNCHANGED nasVars
        PROVE  TypeOK'
    BY <2>4, ReadOnlineUserType DEF TypeOK, nasVars
  <2>5. ASSUME NEW uid \in Uid, NasLogin(uid)
        PROVE  TypeOK'
    BY <2>5, LossyAssumption
       DEF TypeOK, DbTypeOK, NasLogin, Send, SessionPacket, dbVars, tables
  <2>6. ASSUME NEW uid \in Uid, NasTraffic(uid)
        PROVE  TypeOK'
    BY <2>6, LossyAssumption DEF TypeOK, DbTypeOK, NasTraffic, dbVars, tables
  <2>7. ASSUME NEW uid \in Uid, NasInterim(uid)
        PROVE  TypeOK'
    BY <2>7 DEF TypeOK, DbTypeOK, NasInterim, Send, Packet, SessionPacket, dbVars, tables
  <2>8. ASSUME NEW uid \in Uid, NasLogoff(uid)
        PROVE  TypeOK'
    BY <2>8 DEF TypeOK, DbTypeOK, NasLogoff, Send, Packet, SessionPacket, dbVars, tables
  <2>9. ASSUME NEW nas \in Nas, NasReboot(nas)
        PROVE  TypeOK'
    BY <2>9 DEF TypeOK, DbTypeOK, NasReboot, Send, NasPacket, dbVars, tables
  <2>10. ASSUME NEW p \in net, Deliver(p)
         PROVE  TypeOK'
    BY <2>10, DeliverType
  <2>11. CASE Tick
    BY <2>11 DEF TypeOK, DbTypeOK, Tick, DbTick, nasVars, tables
  <2>12. CASE UNCHANGED vars
    BY <2>12 DEF TypeOK, DbTypeOK, vars, dbVars, nasVars, tables
  <2> QED BY <2>1, <2>2, <2>3, <2>4, <2>5, <2>6, <2>7, <2>8, <2>9, <2>10, <2>11, <2>12 DEF Next
<1> QED BY <1>1, <1>2, PTL DEF Spec

-----------------------------------------------------------------------------
(***************************************************************************)
(* The overdraft of a byte quota.  What a statement can bill is what some  *)
(* packet, online row, copied row or form holds, so the inductive          *)
(* invariant bounds all of them.                                           *)
(***************************************************************************)
OctetsBounded ==
    /\ \A x \in Uid : online[x] # NoRow => online[x].octets <= MaxOctets
    /\ \A w \in Worker, x \in Uid :
           job[w].temp[x] # NoRow => job[w].temp[x].octets <= MaxOctets
    /\ form # NoRow => form.row.octets <= MaxOctets

OverdraftInv == OctetsBounded /\ OvershootBounded

\* One charge, from the common body of the two triggers.
LEMMA BillAndCloseOverdraft ==
    ASSUME DbTypeOK, OverdraftInv,
           NEW uid \in Uid, NEW secs \in Nat, NEW octets \in Nat, octets <= MaxOctets,
           BillAndClose(uid, secs, octets), UNCHANGED form,
           \A v \in Worker, x \in Uid :
               job'[v].temp[x] # NoRow => job'[v].temp[x] = job[v].temp[x]
    PROVE  OverdraftInv'
<1>1. OctetsBounded'
  BY DEF OverdraftInv, OctetsBounded, BillAndClose, DbTypeOK
<1>2. ASSUME NEW u \in User
      PROVE  byte_remain'[u] >= 0 \/ byte_remain'[u] > -MaxOctets
  <2>1. byte_remain[u] \in Int /\ (byte_remain[u] >= 0 \/ byte_remain[u] > -MaxOctets)
    BY DEF DbTypeOK, OverdraftInv, OvershootBounded
  <2>2. byte_remain'[u] = byte_remain[u]
        \/ (byte_remain[u] > 0 /\ byte_remain'[u] = byte_remain[u] - octets)
    BY DEF BillAndClose, Debit, DbTypeOK
  <2> QED BY <2>1, <2>2, LossyAssumption
<1> QED BY <1>1, <1>2 DEF OverdraftInv, OvershootBounded

LEMMA InsertOnlineOverdraft ==
    ASSUME DbTypeOK, OverdraftInv,
           NEW uid \in Uid, NEW secs \in Nat, NEW octets \in Nat, octets <= MaxOctets,
           InsertOnline(uid, secs, octets), UNCHANGED <<form, job>>
    PROVE  OverdraftInv'
BY DEF DbTypeOK, OverdraftInv, OctetsBounded, OvershootBounded, InsertOnline, NewOnlineRow

\* A step that leaves the octets of every row and the balances alone.
LEMMA SameOctetsOverdraft ==
    ASSUME OverdraftInv, UNCHANGED <<byte_remain, form>>,
           \A x \in Uid : online'[x] # NoRow =>
               online[x] # NoRow /\ online'[x].octets = online[x].octets,
           \A v \in Worker, x \in Uid :
               job'[v].temp[x] # NoRow => job'[v].temp[x] = job[v].temp[x]
    PROVE  OverdraftInv'
BY DEF OverdraftInv, OctetsBounded, OvershootBounded

LEMMA DeliverOverdraft ==
    ASSUME TypeOK, OverdraftInv, NEW p \in net, Deliver(p)
    PROVE  OverdraftInv'
<1> USE LossyAssumption DEF TypeOK
<1>1. p \in SessionPacket \/ p \in NasPacket
  OBVIOUS
<1>2. UNCHANGED <<job, form>>
  BY DEF Deliver
<1>3. CASE p.type = "Start" /\ HandleStart(p.uid, p.ts)
  <2>1. p.uid \in Uid
    BY <1>1, <1>3 DEF SessionPacket, NasPacket
  <2>2. CASE InsertOnline(p.uid, 0, 0)
    BY <1>2, <2>1, <2>2, InsertOnlineOverdraft
  <2>3. CASE /\ Present(p.uid)
             /\ online' = [online EXCEPT ![p.uid].start = p.ts, ![p.uid].upd = now]
             /\ UNCHANGED <<offline, byte_remain, second_remain, next_id>>
    <3>1. online[p.uid] \in OnlineRow
      BY <2>1, <2>3 DEF DbTypeOK, Present
    <3>2. \A x \in Uid : online'[x] # NoRow =>
             online[x] # NoRow /\ online'[x].octets = online[x].octets
      BY <2>1, <2>3, <3>1, NoRowAssumption DEF DbTypeOK, OnlineRow
    <3> QED BY <1>2, <2>3, <3>2, SameOctetsOverdraft
  <2> QED BY <1>3, <2>2, <2>3 DEF HandleStart
<1>4. CASE p.type = "Interim" /\ HandleInterim(p.uid, p.secs, p.octets)
  <2>1. p.uid \in Uid /\ p.secs \in Nat /\ p.octets \in Nat /\ p.octets <= MaxOctets
    BY <1>1, <1>4 DEF SessionPacket, NasPacket
  <2>2. CASE InsertOnline(p.uid, p.secs, p.octets)
    BY <1>2, <2>1, <2>2, InsertOnlineOverdraft
  <2>3. CASE /\ Present(p.uid)
             /\ online' = [online EXCEPT ![p.uid].secs = p.secs, ![p.uid].octets = p.octets,
                                         ![p.uid].upd = now]
             /\ UNCHANGED <<offline, byte_remain, second_remain, next_id>>
    <3>1. online[p.uid] \in OnlineRow
      BY <2>1, <2>3 DEF DbTypeOK, Present
    <3>2. \A x \in Uid : online'[x] # NoRow => online'[x].octets <= MaxOctets
      BY <2>1, <2>3, <3>1 DEF DbTypeOK, OnlineRow, OverdraftInv, OctetsBounded
    <3> QED BY <1>2, <2>3, <3>2 DEF OverdraftInv, OctetsBounded, OvershootBounded
  <2> QED BY <1>4, <2>2, <2>3 DEF HandleInterim
<1>5. CASE p.type = "Stop" /\ HandleStop(p.uid, p.secs, p.octets)
  <2>1. p.uid \in Uid /\ p.secs \in Nat /\ p.octets \in Nat /\ p.octets <= MaxOctets
    BY <1>1, <1>5 DEF SessionPacket, NasPacket
  <2>2. CASE StopInserts(p.uid, p.secs, p.octets)
    BY <1>2, <2>1, <2>2, BilledSecsType, BillAndCloseOverdraft DEF StopInserts, InsertOffline
  <2>3. CASE StopUpdates(p.uid, p.secs, p.octets)
    <3>1. PICK r \in LedgerOf(p.uid), s \in BilledSecs(p.uid, p.secs) :
             BillAndClose(r.uid, s, p.octets)
      BY <2>3 DEF StopUpdates, UpdateOffline
    <3>2. r.uid = p.uid
      BY DEF LedgerOf
    <3> QED BY <1>2, <2>1, <3>1, <3>2, BilledSecsType, BillAndCloseOverdraft
  <2>4. CASE StopRejected(p.uid)
    BY <1>2, <2>4, SameOctetsOverdraft DEF StopRejected, tables
  <2> QED BY <1>5, <2>2, <2>3, <2>4 DEF HandleStop
<1>6. CASE p.type = "On" /\ HandleAccountingOn(p.nas, p.ts)
  <2>1. \A x \in Uid : online'[x] # NoRow =>
           online[x] # NoRow /\ online'[x].octets = online[x].octets
    BY <1>6 DEF DbTypeOK, HandleAccountingOn, Present, OnlineRow
  <2> QED BY <1>2, <1>6, <2>1, SameOctetsOverdraft DEF HandleAccountingOn
<1> QED BY <1>3, <1>4, <1>5, <1>6 DEF Deliver

LEMMA EventStepOverdraft ==
    ASSUME TypeOK, OverdraftInv, NEW w \in Worker, EventStep(w)
    PROVE  OverdraftInv'
<1> USE DEF TypeOK
<1>1. CASE EventMark(w)
  <2>1. \A x \in Uid : online'[x] # NoRow =>
           online[x] # NoRow /\ online'[x].octets = online[x].octets
    BY <1>1 DEF DbTypeOK, EventMark, Present, OnlineRow
  <2> QED BY <1>1, <2>1, SameOctetsOverdraft DEF EventMark, DbTypeOK, Jobs
<1>2. CASE EventCopy(w)
  BY <1>2 DEF DbTypeOK, EventCopy, tables, OverdraftInv, OctetsBounded, OvershootBounded
<1>3. CASE EventMove(w)
  BY <1>3, SameOctetsOverdraft DEF EventMove, tables, DbTypeOK, Jobs
<1>4. ASSUME NEW uid \in Uid, EventMoveRow(w, uid)
      PROVE  OverdraftInv'
  <2>1. job[w].temp[uid] \in OnlineRow /\ job[w].temp[uid].octets <= MaxOctets
    BY <1>4 DEF DbTypeOK, EventMoveRow, Copied, Jobs, OverdraftInv, OctetsBounded
  <2>2. job[w].temp[uid].secs \in Nat /\ job[w].temp[uid].octets \in Nat
    BY <2>1 DEF OnlineRow
  <2>3. PICK s \in BilledSecs(uid, job[w].temp[uid].secs) :
           BillAndClose(uid, s, job[w].temp[uid].octets)
    BY <1>4 DEF EventMoveRow, InsertOffline
  <2>4. s \in Nat
    BY <2>2, BilledSecsType
  <2>5. \A v \in Worker, x \in Uid :
           job'[v].temp[x] # NoRow => job'[v].temp[x] = job[v].temp[x]
    BY <1>4 DEF EventMoveRow, DbTypeOK, Jobs
  <2>6. UNCHANGED form
    BY <1>4 DEF EventMoveRow
  <2> QED BY <2>1, <2>2, <2>3, <2>4, <2>5, <2>6, BillAndCloseOverdraft
<1>5. CASE EventDone(w)
  BY <1>5, SameOctetsOverdraft DEF EventDone, tables, DbTypeOK, Jobs
<1>6. CASE EventAbort(w)
  BY <1>6, SameOctetsOverdraft DEF EventAbort, tables, IdleJob, NoRows, DbTypeOK
<1> QED BY <1>1, <1>2, <1>3, <1>4, <1>5, <1>6 DEF EventStep

LEMMA OnlineUserOverdraft ==
    ASSUME TypeOK, OverdraftInv,
           KickUnauthorised \/ UpdateOnlineUser \/ \E uid \in Uid : ReadOnlineUser(uid)
    PROVE  OverdraftInv'
<1> USE DEF TypeOK
<1>1. CASE KickUnauthorised
  <2>1. \A x \in Uid : online'[x] # NoRow =>
           online[x] # NoRow /\ online'[x].octets = online[x].octets
    BY <1>1 DEF DbTypeOK, KickUnauthorised, Present, OnlineRow
  <2> QED BY <1>1, <2>1, SameOctetsOverdraft DEF KickUnauthorised
<1>2. ASSUME NEW uid \in Uid, ReadOnlineUser(uid)
      PROVE  OverdraftInv'
  BY <1>2 DEF ReadOnlineUser, Present, tables, OverdraftInv, OctetsBounded, OvershootBounded
<1>3. CASE UpdateOnlineUser
  <2>1. form \in Forms /\ form.row.octets <= MaxOctets
    BY <1>3 DEF DbTypeOK, UpdateOnlineUser, OverdraftInv, OctetsBounded
  <2>2. \A x \in Uid : online'[x] # NoRow => online'[x].octets <= MaxOctets
    <3>1. CASE UNCHANGED online
      BY <3>1 DEF OverdraftInv, OctetsBounded
    <3>2. ASSUME NEW x \in Uid,
                 online' = [[online EXCEPT ![x] = NoRow]
                     EXCEPT ![form.uid] = [form.row EXCEPT !.id = online[x].id, !.upd = now, !.kickme = TRUE]]
          PROVE  \A y \in Uid : online'[y] # NoRow => online'[y].octets <= MaxOctets
      BY <2>1, <3>2 DEF DbTypeOK, Forms, OnlineRow, OverdraftInv, OctetsBounded
    <3> QED BY <1>3, <3>1, <3>2 DEF UpdateOnlineUser
  <2> QED BY <1>3, <2>2 DEF UpdateOnlineUser, OverdraftInv, OctetsBounded, OvershootBounded
<1> QED BY <1>1, <1>2, <1>3

\* A byte quota is overdrawn by less than one session's octets, whatever the
\* network, the event scheduler and the operators do.
THEOREM OverdraftBounded == Spec => []OvershootBounded
<1>1. Init => OverdraftInv
  BY SessionAssumption
     DEF Init, DbInit, IdleJob, NoRows, OverdraftInv, OctetsBounded, OvershootBounded
<1>2. TypeOK /\ OverdraftInv /\ [Next]_vars => OverdraftInv'
  <2> SUFFICES ASSUME TypeOK, OverdraftInv, [Next]_vars
               PROVE  OverdraftInv'
    OBVIOUS
  <2>1. ASSUME NEW w \in Worker, EventStep(w)
        PROVE  OverdraftInv'
    BY <2>1, EventStepOverdraft
  <2>2. CASE KickUnauthorised \/ UpdateOnlineUser \/ \E uid \in Uid : ReadOnlineUser(uid)
    BY <2>2, OnlineUserOverdraft
  <2>3. ASSUME NEW p \in net, Deliver(p)
        PROVE  OverdraftInv'
    BY <2>3, DeliverOverdraft
  <2>4. CASE UNCHANGED <<tables, job, form>>
    BY <2>4 DEF tables, OverdraftInv, OctetsBounded, OvershootBounded
  <2>5. ASSUME NEW uid \in Uid,
               NasLogin(uid) \/ NasTraffic(uid) \/ NasInterim(uid) \/ NasLogoff(uid)
        PROVE  UNCHANGED <<tables, job, form>>
    BY <2>5 DEF NasLogin, NasTraffic, NasInterim, NasLogoff, dbVars
  <2>6. ASSUME NEW nas \in Nas, NasReboot(nas)
        PROVE  UNCHANGED <<tables, job, form>>
    BY <2>6 DEF NasReboot, dbVars
  <2>7. CASE Tick \/ UNCHANGED vars
    BY <2>4, <2>7 DEF Tick, DbTick, vars, dbVars
  <2> QED BY <2>1, <2>2, <2>3, <2>4, <2>5, <2>6, <2>7 DEF Next
<1>3. OverdraftInv => OvershootBounded
  BY DEF OverdraftInv
<1> QED BY <1>1, <1>2, <1>3, TypeCorrect, PTL DEF Spec
-----------------------------------------------------------------------------
(***************************************************************************)
(* Row ids.  The ledger row of a swept session keeps the id of its online  *)
(* row; SweptOnce holds because at any time an id is either handed out to  *)
(* one online row (and at most one copy of it), or in the ledger, and      *)
(* because the row a copy was taken from can change its key only to that   *)
(* of the same user and Acct-Session-Id, so that moving the copy deletes   *)
(* it.  Two executions of event_of_minute that overlap would break this.   *)
(***************************************************************************)

IdsHandedOut ==
    /\ \A x \in Uid : online[x] # NoRow => online[x].id > 0 /\ online[x].id < next_id
    /\ \A w \in Worker, x \in Uid :
           job[w].temp[x] # NoRow => job[w].temp[x].id > 0 /\ job[w].temp[x].id < next_id
    /\ \A r \in offline : r.id < next_id

IdsUnique ==
    /\ \A x, y \in Uid :
           online[x] # NoRow /\ online[y] # NoRow /\ online[x].id = online[y].id => x = y
    /\ \A w \in Worker, x, y \in Uid :
           job[w].temp[x] # NoRow /\ job[w].temp[y] # NoRow /\ job[w].temp[x].id = job[w].temp[y].id
           => x = y

LedgerIdsGone ==
    /\ \A r \in offline, x \in Uid : online[x] # NoRow => r.id # online[x].id
    /\ \A r \in offline, w \in Worker, x \in Uid :
           job[w].temp[x] # NoRow => r.id # job[w].temp[x].id

CopiesMatch ==
    \A w \in Worker, x, y \in Uid :
        job[w].temp[x] # NoRow /\ online[y] # NoRow /\ job[w].temp[x].id = online[y].id
        => SameSession(x, y)

IdInv == IdsHandedOut /\ IdsUnique /\ LedgerIdsGone /\ CopiesMatch /\ SweptOnce

\* Rows may be changed or removed as long as they keep their ids.
LEMMA SameIds ==
    ASSUME IdInv, next_id' = next_id, offline' = offline,
           \A x \in Uid : online'[x] # NoRow => online[x] # NoRow /\ online'[x].id = online[x].id,
           \A w \in Worker, x \in Uid :
               job'[w].temp[x] # NoRow => job'[w].temp[x] = job[w].temp[x]
    PROVE  IdInv'
<1> USE DEF IdInv
<1>1. IdsHandedOut' BY DEF IdsHandedOut
<1>2. IdsUnique' BY DEF IdsUnique
<1>3. LedgerIdsGone' BY DEF LedgerIdsGone
<1>4. CopiesMatch' BY DEF CopiesMatch, SameSession
<1>5. SweptOnce' BY DEF SweptOnce
<1> QED BY <1>1, <1>2, <1>3, <1>4, <1>5

\* A row is inserted into online_user: its id is new.
LEMMA InsertOnlineIds ==
    ASSUME DbTypeOK, IdInv, NEW uid \in Uid, NEW secs \in Nat, NEW octets \in Nat,
           InsertOnline(uid, secs, octets), UNCHANGED job
    PROVE  IdInv'
<1>1. /\ online' = [online EXCEPT ![uid] = NewOnlineRow(secs, octets)]
      /\ NewOnlineRow(secs, octets).id = next_id
      /\ next_id \in Nat /\ next_id > 0 /\ next_id' = next_id + 1
      /\ offline' = offline /\ job' = job
  BY DEF InsertOnline, NewOnlineRow, DbTypeOK
<1>2. \A r \in offline : r.id \in Nat
  BY DEF DbTypeOK, OfflineRow
<1>3. /\ \A x \in Uid : online[x] # NoRow => online[x].id \in Nat
      /\ \A w \in Worker, x \in Uid : job[w].temp[x] # NoRow => job[w].temp[x].id \in Nat
  BY DEF DbTypeOK, OnlineRow, Jobs
<1>4. \A x \in Uid : online'[x] # NoRow =>
         \/ x = uid /\ online'[x].id = next_id
         \/ x # uid /\ online[x] # NoRow /\ online'[x] = online[x]
  BY <1>1 DEF DbTypeOK
<1> USE DEF IdInv
<1>5. IdsHandedOut' BY <1>1, <1>2, <1>3, <1>4 DEF IdsHandedOut
<1>6. IdsUnique' BY <1>1, <1>3, <1>4 DEF IdsHandedOut, IdsUnique
<1>7. LedgerIdsGone' BY <1>1, <1>2, <1>3, <1>4 DEF IdsHandedOut, LedgerIdsGone
<1>8. CopiesMatch' BY <1>1, <1>3, <1>4 DEF IdsHandedOut, CopiesMatch, SameSession
<1>9. SweptOnce' BY <1>1 DEF SweptOnce
<1> QED BY <1>5, <1>6, <1>7, <1>8, <1>9

\* A Stop writes ledger rows with id 0, or keeps the id of the row it updates.
LEMMA HandleStopIds ==
    ASSUME DbTypeOK, IdInv, NEW uid \in Uid, NEW secs \in Nat, NEW octets \in Nat,
           HandleStop(uid, secs, octets), UNCHANGED job
    PROVE  IdInv'
<1>1. ASSUME NEW u \in Uid, NEW s, BillAndClose(u, s, octets)
      PROVE  /\ next_id' = next_id
             /\ \A x \in Uid : online'[x] # NoRow => online[x] # NoRow /\ online'[x] = online[x]
  BY <1>1 DEF BillAndClose
<1>2. CASE StopInserts(uid, secs, octets)
  <2>1. PICK s \in BilledSecs(uid, secs) : InsertOffline(0, uid, s, octets)
    BY <1>2 DEF StopInserts
  <2>2. BillAndClose(uid, s, octets)
    BY <2>1 DEF InsertOffline
  <2>3. \A r \in offline' : r \in offline \/ r.id = 0
    BY <2>1 DEF InsertOffline
  <2>4. next_id \in Nat /\ next_id > 0
    BY DEF DbTypeOK
  <2> QED BY <1>1, <2>2, <2>3, <2>4
          DEF IdInv, IdsHandedOut, IdsUnique, LedgerIdsGone, CopiesMatch, SweptOnce, SameSession
<1>3. CASE StopUpdates(uid, secs, octets)
  <2>1. PICK r \in LedgerOf(uid), s \in BilledSecs(uid, secs) : UpdateOffline(r, s, octets)
    BY <1>3 DEF StopUpdates
  <2>2. r \in offline /\ r \in OfflineRow /\ r.uid = uid
    BY DEF LedgerOf, DbTypeOK
  <2>3. BillAndClose(uid, s, octets)
    BY <2>1, <2>2 DEF UpdateOffline
  <2>4. PICK q : q.id = r.id /\ offline' = (offline \ {r}) \cup {q}
    BY <2>1, <2>2 DEF UpdateOffline, OfflineRow
  <2> QED BY <1>1, <2>2, <2>3, <2>4
          DEF IdInv, IdsHandedOut, IdsUnique, LedgerIdsGone, CopiesMatch, SweptOnce, SameSession
<1>4. CASE StopRejected(uid)
  BY <1>4, SameIds DEF StopRejected, tables
<1> QED BY <1>2, <1>3, <1>4 DEF HandleStop

LEMMA DeliverIds ==
    ASSUME TypeOK, IdInv, NEW p \in net, Deliver(p)
    PROVE  IdInv'
<1> USE LossyAssumption DEF TypeOK
<1>1. p \in SessionPacket \/ p \in NasPacket
  OBVIOUS
<1>2. UNCHANGED <<job, form>>
  BY DEF Deliver
<1>3. CASE p.type = "Start" /\ HandleStart(p.uid, p.ts)
  <2>1. p.uid \in Uid
    BY <1>1, <1>3 DEF SessionPacket, NasPacket
  <2>2. CASE InsertOnline(p.uid, 0, 0)
    BY <1>2, <2>1, <2>2, InsertOnlineIds
  <2>3. CASE /\ Present(p.uid)
             /\ online' = [online EXCEPT ![p.uid].start = p.ts, ![p.uid].upd = now]
             /\ UNCHANGED <<offline, byte_remain, second_remain, next_id>>
    <3>1. online[p.uid] \in OnlineRow
      BY <2>1, <2>3 DEF DbTypeOK, Present
    <3>2. \A x \in Uid : online'[x] # NoRow => online[x] # NoRow /\ online'[x].id = online[x].id
      BY <2>1, <2>3, <3>1 DEF DbTypeOK, OnlineRow, Present
    <3> QED BY <1>2, <2>3, <3>2, SameIds
  <2> QED BY <1>3, <2>2, <2>3 DEF HandleStart
<1>4. CASE p.type = "Interim" /\ HandleInterim(p.uid, p.secs, p.octets)
  <2>1. p.uid \in Uid /\ p.secs \in Nat /\ p.octets \in Nat
    BY <1>1, <1>4 DEF SessionPacket, NasPacket
  <2>2. CASE InsertOnline(p.uid, p.secs, p.octets)
    BY <1>2, <2>1, <2>2, InsertOnlineIds
  <2>3. CASE /\ Present(p.uid)
             /\ online' = [online EXCEPT ![p.uid].secs = p.secs, ![p.uid].octets = p.octets,
                                         ![p.uid].upd = now]
             /\ UNCHANGED <<offline, byte_remain, second_remain, next_id>>
    <3>1. online[p.uid] \in OnlineRow
      BY <2>1, <2>3 DEF DbTypeOK, Present
    <3>2. \A x \in Uid : online'[x] # NoRow => online[x] # NoRow /\ online'[x].id = online[x].id
      BY <2>1, <2>3, <3>1 DEF DbTypeOK, OnlineRow, Present
    <3> QED BY <1>2, <2>3, <3>2, SameIds
  <2> QED BY <1>4, <2>2, <2>3 DEF HandleInterim
<1>5. CASE p.type = "Stop" /\ HandleStop(p.uid, p.secs, p.octets)
  <2>1. p.uid \in Uid /\ p.secs \in Nat /\ p.octets \in Nat
    BY <1>1, <1>5 DEF SessionPacket, NasPacket
  <2> QED BY <1>2, <1>5, <2>1, HandleStopIds
<1>6. CASE p.type = "On" /\ HandleAccountingOn(p.nas, p.ts)
  <2>1. \A x \in Uid : online'[x] # NoRow => online[x] # NoRow /\ online'[x].id = online[x].id
    BY <1>6 DEF DbTypeOK, HandleAccountingOn, Present, OnlineRow
  <2> QED BY <1>2, <1>6, <2>1, SameIds DEF HandleAccountingOn
<1> QED BY <1>3, <1>4, <1>5, <1>6 DEF Deliver

\* A copied row goes to the ledger, and the online row with its id goes away.
LEMMA EventMoveRowIds ==
    ASSUME OneWorker, DbTypeOK, IdInv, NEW w \in Worker, NEW uid \in Uid, EventMoveRow(w, uid)
    PROVE  IdInv'
<1> DEFINE id == job[w].temp[uid].id
<1>1. /\ job[w].temp[uid] # NoRow
      /\ \A v \in Worker : v = w
      /\ \A v \in Worker, x \in Uid :
            job'[v].temp[x] # NoRow => x # uid /\ job'[v].temp[x] = job[v].temp[x]
  BY DEF OneWorker, EventMoveRow, Copied, DbTypeOK, Jobs
<1>2. PICK s : InsertOffline(id, uid, s, job[w].temp[uid].octets)
  BY DEF EventMoveRow
<1>3. /\ next_id' = next_id
      /\ \A x \in Uid : online'[x] # NoRow =>
            ~SameSession(x, uid) /\ online[x] # NoRow /\ online'[x] = online[x]
  BY <1>2 DEF InsertOffline, BillAndClose
<1>4. PICK q : q.id = id /\ offline' = offline \cup {q}
  BY <1>2 DEF InsertOffline
<1> HIDE DEF id
<1>5. id > 0 /\ id < next_id /\ \A r \in offline : r.id # id
  BY <1>1 DEF id, IdInv, IdsHandedOut, LedgerIdsGone
<1>6. \A x \in Uid : online'[x] # NoRow => online'[x].id # id
  BY <1>1, <1>3 DEF id, IdInv, CopiesMatch, SameSession
<1>7. \A v \in Worker, x \in Uid : job'[v].temp[x] # NoRow => job'[v].temp[x].id # id
  BY <1>1 DEF id, IdInv, IdsUnique
<1> USE DEF IdInv
<1>8. IdsHandedOut' BY <1>1, <1>3, <1>4, <1>5 DEF IdsHandedOut
<1>9. IdsUnique' BY <1>1, <1>3 DEF IdsUnique
<1>10. LedgerIdsGone' BY <1>1, <1>3, <1>4, <1>6, <1>7 DEF LedgerIdsGone
<1>11. CopiesMatch' BY <1>1, <1>3 DEF CopiesMatch, SameSession
<1>12. SweptOnce' BY <1>4, <1>5 DEF SweptOnce
<1> QED BY <1>8, <1>9, <1>10, <1>11, <1>12

LEMMA EventStepIds ==
    ASSUME OneWorker, DbTypeOK, IdInv, NEW w \in Worker, EventStep(w)
    PROVE  IdInv'
<1>1. CASE EventMark(w)
  <2>1. \A x \in Uid : online'[x] # NoRow => online[x] # NoRow /\ online'[x].id = online[x].id
    BY <1>1 DEF DbTypeOK, EventMark, Present, OnlineRow
  <2> QED BY <1>1, <2>1, SameIds DEF EventMark, DbTypeOK, Jobs
<1>2. CASE EventCopy(w)
  <2>1. \A v \in Worker, x \in Uid :
           job'[v].temp[x] # NoRow => v = w /\ online[x] # NoRow /\ job'[v].temp[x] = online[x]
    BY <1>2 DEF OneWorker, EventCopy, DbTypeOK, Jobs, Present
  <2>2. UNCHANGED <<online, offline, next_id>>
    BY <1>2 DEF EventCopy, tables
  <2> QED BY <2>1, <2>2
          DEF IdInv, IdsHandedOut, IdsUnique, LedgerIdsGone, CopiesMatch, SweptOnce, SameSession
<1>3. CASE EventMove(w)
  BY <1>3, SameIds DEF EventMove, tables, DbTypeOK, Jobs
<1>4. CASE \E uid \in Uid : EventMoveRow(w, uid)
  BY <1>4, EventMoveRowIds
<1>5. CASE EventDone(w)
  BY <1>5, SameIds DEF EventDone, tables, DbTypeOK, Jobs
<1>6. CASE EventAbort(w)
  BY <1>6, SameIds DEF EventAbort, tables, IdleJob, NoRows, DbTypeOK
<1> QED BY <1>1, <1>2, <1>3, <1>4, <1>5, <1>6 DEF EventStep

LEMMA OnlineUserIds ==
    ASSUME DbTypeOK, IdInv,
           KickUnauthorised \/ UpdateOnlineUser \/ \E uid \in Uid : ReadOnlineUser(uid)
    PROVE  IdInv'
<1>1. CASE KickUnauthorised
  <2>1. \A x \in Uid : online'[x] # NoRow => online[x] # NoRow /\ online'[x].id = online[x].id
    BY <1>1 DEF DbTypeOK, KickUnauthorised, Present, OnlineRow
  <2> QED BY <1>1, <2>1, SameIds DEF KickUnauthorised
<1>2. CASE \E uid \in Uid : ReadOnlineUser(uid)
  BY <1>2, SameIds DEF ReadOnlineUser, tables
<1>3. CASE UpdateOnlineUser
  <2>1. UNCHANGED <<next_id, offline, job>> /\ form \in Forms /\ form.uid \in Uid
    BY <1>3 DEF DbTypeOK, UpdateOnlineUser, Forms
  <2>2. CASE UNCHANGED online
    BY <2>1, <2>2, SameIds
  <2>3. ASSUME NEW x \in Uid, {y \in Uid : Present(y) /\ SameSession(y, form.uid)} = {x},
               online' = [[online EXCEPT ![x] = NoRow]
                   EXCEPT ![form.uid] = [form.row EXCEPT !.id = online[x].id, !.upd = now, !.kickme = TRUE]]
        PROVE  IdInv'
    <3>1. online[x] # NoRow /\ SameSession(x, form.uid)
      BY <2>3 DEF Present
    <3>2. online'[form.uid].id = online[x].id
      BY <2>1, <2>3 DEF DbTypeOK, Forms, OnlineRow
    <3>3. \A y \in Uid : online'[y] # NoRow =>
             \/ y = form.uid
             \/ y # form.uid /\ y # x /\ online[y] # NoRow /\ online'[y] = online[y]
      BY <2>1, <2>3 DEF DbTypeOK
    <3> USE DEF IdInv
    <3>4. IdsHandedOut' BY <2>1, <3>1, <3>2, <3>3 DEF IdsHandedOut
    <3>5. IdsUnique' BY <2>1, <3>1, <3>2, <3>3 DEF IdsUnique
    <3>6. LedgerIdsGone' BY <2>1, <3>1, <3>2, <3>3 DEF LedgerIdsGone
    <3>7. CopiesMatch' BY <2>1, <3>1, <3>2, <3>3 DEF CopiesMatch, SameSession
    <3>8. SweptOnce' BY <2>1 DEF SweptOnce
    <3> QED BY <3>4, <3>5, <3>6, <3>7, <3>8
  <2> QED BY <1>3, <2>2, <2>3 DEF UpdateOnlineUser
<1> QED BY <1>1, <1>2, <1>3

\* The sweep moves one online row to the ledger at most once, whatever packets,
\* operators and cut-off events come between its statements, as long as no two
\* executions of event_of_minute overlap.
THEOREM RowsSweptOnce == ASSUME OneWorker PROVE Spec => []SweptOnce
<1>1. Init => IdInv
  BY DEF Init, DbInit, IdleJob, NoRows, IdInv, IdsHandedOut, IdsUnique, LedgerIdsGone,
         CopiesMatch, SweptOnce
<1>2. TypeOK /\ IdInv /\ [Next]_vars => IdInv'
  <2> SUFFICES ASSUME TypeOK, IdInv, [Next]_vars
               PROVE  IdInv'
    OBVIOUS
  <2> USE DEF TypeOK
  <2>1. ASSUME NEW w \in Worker, EventStep(w)
        PROVE  IdInv'
    BY <2>1, EventStepIds
  <2>2. CASE KickUnauthorised \/ UpdateOnlineUser \/ \E uid \in Uid : ReadOnlineUser(uid)
    BY <2>2, OnlineUserIds
  <2>3. ASSUME NEW p \in net, Deliver(p)
        PROVE  IdInv'
    BY <2>3, DeliverIds
  <2>4. CASE UNCHANGED <<tables, job>>
    BY <2>4, SameIds DEF tables
  <2>5. ASSUME NEW uid \in Uid,
               NasLogin(uid) \/ NasTraffic(uid) \/ NasInterim(uid) \/ NasLogoff(uid)
        PROVE  UNCHANGED <<tables, job>>
    BY <2>5 DEF NasLogin, NasTraffic, NasInterim, NasLogoff, dbVars
  <2>6. ASSUME NEW nas \in Nas, NasReboot(nas)
        PROVE  UNCHANGED <<tables, job>>
    BY <2>6 DEF NasReboot, dbVars
  <2>7. CASE Tick \/ UNCHANGED vars
    BY <2>4, <2>7 DEF Tick, DbTick, vars, dbVars
  <2> QED BY <2>1, <2>2, <2>3, <2>4, <2>5, <2>6, <2>7 DEF Next
<1>3. IdInv => SweptOnce
  BY DEF IdInv
<1> QED BY <1>1, <1>2, <1>3, TypeCorrect, PTL DEF Spec

-----------------------------------------------------------------------------
(***************************************************************************)
(* Rows that leave online_user.                                            *)
(***************************************************************************)
Recorded(x) ==
    \E y \in Uid : /\ SameSession(x, y)
                   /\ \/ \E r \in offline' : r.uid = y /\ r.stop = now
                      \/ form # NoRow /\ form.uid = y /\ Present(y)'

\* A row that is written again is still a row.
LEMMA RowStays ==
    ASSUME TypeOK, NEW x \in Uid, Present(x), online'[x] \in OnlineRow
    PROVE  Present(x)'
BY NoRowAssumption DEF Present

\* A new ledger row has the time of the statement.
LEMMA InsertStamps ==
    ASSUME NEW id, NEW uid, NEW secs, NEW octets, InsertOffline(id, uid, secs, octets)
    PROVE  \E r \in offline' : r.uid = uid /\ r.stop = now
<1> DEFINE r == [id |-> id, uid |-> uid, stop |-> now, secs |-> secs, octets |-> octets]
<1>1. r \in offline'
  BY DEF InsertOffline
<1>2. r.uid = uid /\ r.stop = now
  OBVIOUS
<1> QED BY <1>1, <1>2

LEMMA DeliverRecords ==
    ASSUME TypeOK, NEW p \in net, Deliver(p), NEW x \in Uid, Present(x), ~Present(x)'
    PROVE  Recorded(x)
<1>0. online[x] \in OnlineRow /\ online'[x] \notin OnlineRow
  BY RowStays DEF TypeOK, DbTypeOK, Present
<1>1. p \in SessionPacket \/ p \in NasPacket
  BY DEF TypeOK
<1>2. TypeOK'
  BY DeliverType
<1>3. online'[x] = NoRow
  BY DEF Present
<1>4. CASE p.type = "Start" /\ HandleStart(p.uid, p.ts)
  <2>1. \A y \in Uid : online[y] # NoRow => y = p.uid \/ online'[y] = online[y]
    BY <1>4 DEF HandleStart, InsertOnline, TypeOK, DbTypeOK
  <2>2. p.uid \in Uid /\ p.ts \in Nat
    BY <1>1, <1>4 DEF SessionPacket, NasPacket
  <2>3. x = p.uid /\ online' = [online EXCEPT ![x].start = p.ts, ![x].upd = now]
    BY <1>0, <1>4, <2>1 DEF HandleStart, InsertOnline, Present
  <2>4. online'[x] = [online[x] EXCEPT !.start = p.ts, !.upd = now]
    BY <2>3 DEF TypeOK, DbTypeOK
  <2> QED BY <1>0, <2>2, <2>4 DEF OnlineRow, TypeOK, DbTypeOK
<1>5. CASE p.type = "Interim" /\ HandleInterim(p.uid, p.secs, p.octets)
  <2>1. \A y \in Uid : online[y] # NoRow => y = p.uid \/ online'[y] = online[y]
    BY <1>5 DEF HandleInterim, InsertOnline, TypeOK, DbTypeOK
  <2>2. p.uid \in Uid /\ p.secs \in Nat /\ p.octets \in Nat
    BY <1>1, <1>5, LossyAssumption DEF SessionPacket, NasPacket
  <2>3. x = p.uid /\ online' = [online EXCEPT ![x].secs = p.secs, ![x].octets = p.octets, ![x].upd = now]
    BY <1>0, <1>5, <2>1 DEF HandleInterim, InsertOnline, Present
  <2>4. online'[x] = [online[x] EXCEPT !.secs = p.secs, !.octets = p.octets, !.upd = now]
    BY <2>3 DEF TypeOK, DbTypeOK
  <2> QED BY <1>0, <2>2, <2>4 DEF OnlineRow, TypeOK, DbTypeOK
<1>6. CASE p.type = "Stop" /\ HandleStop(p.uid, p.secs, p.octets)
  <2>0. p.uid \in Uid
    BY <1>1, <1>6 DEF SessionPacket, NasPacket
  <2>1. CASE StopInserts(p.uid, p.secs, p.octets)
    <3>1. PICK sec : InsertOffline(0, p.uid, sec, p.octets)
      BY <2>1 DEF StopInserts
    <3>2. SameSession(x, p.uid)
      BY <1>0, <3>1 DEF InsertOffline, BillAndClose
    <3>3. \E r \in offline' : r.uid = p.uid /\ r.stop = now
      BY <3>1, InsertStamps
    <3> QED BY <2>0, <3>2, <3>3 DEF Recorded
  <2>2. CASE StopUpdates(p.uid, p.secs, p.octets)
    <3>1. PICK r, sec : r \in LedgerOf(p.uid) /\ UpdateOffline(r, sec, p.octets)
      BY <2>2 DEF StopUpdates
    <3>2. r.uid = p.uid /\ r \in OfflineRow
      BY <3>1 DEF LedgerOf, TypeOK, DbTypeOK
    <3>3. SameSession(x, p.uid)
      BY <1>0, <3>1, <3>2 DEF UpdateOffline, BillAndClose
    <3>4. \E q \in offline' : q.uid = p.uid /\ q.stop = now
      <4> DEFINE q == [r EXCEPT !.stop = now, !.secs = sec, !.octets = p.octets]
      <4>1. q \in offline'
        BY <3>1 DEF UpdateOffline
      <4>2. q.uid = p.uid /\ q.stop = now
        BY <3>2 DEF OfflineRow
      <4> QED BY <4>1, <4>2
    <3> QED BY <2>0, <3>3, <3>4 DEF Recorded
  <2>3. CASE StopRejected(p.uid)
    BY <1>0, <2>3 DEF StopRejected, tables
  <2> QED BY <1>6, <2>1, <2>2, <2>3 DEF HandleStop
<1>7. CASE p.type = "On" /\ HandleAccountingOn(p.nas, p.ts)
  <2>1. p.ts \in Nat
    BY <1>1, <1>7 DEF SessionPacket, NasPacket
  <2>2. /\ online[x].start <= p.ts
        /\ online'[x] = [online[x] EXCEPT !.stop = p.ts, !.secs = p.ts - online[x].start, !.upd = now]
    BY <1>0, <1>7 DEF HandleAccountingOn
  <2>3. p.ts - online[x].start \in Nat
    BY <1>0, <2>1, <2>2 DEF OnlineRow
  <2> QED BY <1>0, <2>1, <2>2, <2>3 DEF OnlineRow, TypeOK, DbTypeOK
<1> QED BY <1>4, <1>5, <1>6, <1>7 DEF Deliver

LEMMA EventRecords ==
    ASSUME TypeOK, NEW w \in Worker, EventStep(w), NEW x \in Uid, Present(x), ~Present(x)'
    PROVE  Recorded(x)
<1>0. online[x] \in OnlineRow /\ online'[x] \notin OnlineRow
  BY RowStays DEF TypeOK, DbTypeOK, Present
<1>1. CASE EventMark(w)
  <2>1. online'[x] = [online[x] EXCEPT !.stop = now, !.upd = now]
    BY <1>0, <1>1 DEF EventMark
  <2> QED BY <1>0, <2>1 DEF OnlineRow, TypeOK, DbTypeOK
<1>2. CASE EventCopy(w) \/ EventMove(w) \/ EventDone(w) \/ EventAbort(w)
  BY <1>0, <1>2 DEF EventCopy, EventMove, EventDone, EventAbort, tables
<1>3. ASSUME NEW uid \in Uid, EventMoveRow(w, uid)
      PROVE  Recorded(x)
  <2>1. PICK sec : InsertOffline(job[w].temp[uid].id, uid, sec, job[w].temp[uid].octets)
    BY <1>3 DEF EventMoveRow
  <2>2. SameSession(x, uid)
    BY <1>0, <2>1 DEF InsertOffline, BillAndClose
  <2>3. \E r \in offline' : r.uid = uid /\ r.stop = now
    BY <2>1, InsertStamps
  <2> QED BY <2>2, <2>3 DEF Recorded
<1> QED BY <1>1, <1>2, <1>3 DEF EventStep

LEMMA OnlineUserRecords ==
    ASSUME TypeOK, NEW x \in Uid, Present(x), ~Present(x)',
           KickUnauthorised \/ UpdateOnlineUser \/ \E uid \in Uid : ReadOnlineUser(uid)
    PROVE  Recorded(x)
<1>0. online[x] \in OnlineRow /\ online'[x] \notin OnlineRow
  BY RowStays DEF TypeOK, DbTypeOK, Present
<1>1. CASE KickUnauthorised
  <2>1. online'[x] = [online[x] EXCEPT !.kickme = TRUE, !.upd = now]
    BY <1>0, <1>1 DEF KickUnauthorised
  <2> QED BY <1>0, <2>1 DEF OnlineRow, TypeOK, DbTypeOK
<1>2. CASE \E uid \in Uid : ReadOnlineUser(uid)
  BY <1>0, <1>2 DEF ReadOnlineUser, tables
<1>3. CASE UpdateOnlineUser
  <2>1. form \in Forms /\ form # NoRow /\ form.uid \in Uid
    BY <1>3 DEF UpdateOnlineUser, TypeOK, DbTypeOK, Forms
  <2>2. PICK y \in Uid :
           /\ Present(y) /\ SameSession(y, form.uid)
           /\ online' = [[online EXCEPT ![y] = NoRow]
                  EXCEPT ![form.uid] = [form.row EXCEPT !.id = online[y].id, !.upd = now, !.kickme = TRUE]]
    BY <1>0, <1>3 DEF UpdateOnlineUser
  <2> DEFINE row == [form.row EXCEPT !.id = online[y].id, !.upd = now, !.kickme = TRUE]
  <2>3. row \in OnlineRow
    <3>1. online[y].id \in Nat
      BY <2>2 DEF Present, OnlineRow, TypeOK, DbTypeOK
    <3> QED BY <2>1, <3>1 DEF Forms, OnlineRow, TypeOK, DbTypeOK
  <2> HIDE DEF row
  <2>4. PICK u \in Uid : u = form.uid
    BY <2>1
  <2>5. online'[u] = row
    BY <2>1, <2>2, <2>4 DEF row, TypeOK, DbTypeOK
  <2>6. Present(u)'
    BY <2>3, <2>5, NoRowAssumption DEF Present
  <2>7. x = y
    <3>1. x # u
      BY <1>0, <2>3, <2>5
    <3>2. x # y => online'[x] = online[x]
      BY <2>1, <2>2, <2>4, <3>1 DEF TypeOK, DbTypeOK
    <3> QED BY <1>0, <3>2
  <2> QED BY <2>1, <2>2, <2>4, <2>6, <2>7 DEF Recorded
<1> QED BY <1>1, <1>2, <1>3

\* No session vanishes: a row leaves online_user only into the ledger, or for
\* the row of the same session that a browser saves.
THEOREM RemovalsRecorded == Spec => RemovalRecorded
<1> DEFINE Keeps == \A x \in Uid : Present(x) /\ ~Present(x)' =>
               \E y \in Uid : /\ SameSession(x, y)
                              /\ \/ \E r \in offline' : r.uid = y /\ r.stop = now
                                 \/ form # NoRow /\ form.uid = y /\ Present(y)'
<1>1. TypeOK /\ [Next]_vars => [Keeps]_vars
  <2> SUFFICES ASSUME TypeOK, Next, NEW x \in Uid, Present(x), ~Present(x)'
               PROVE  Recorded(x)
    BY DEF Recorded
  <2>1. ASSUME NEW w \in Worker, EventStep(w)
        PROVE  Recorded(x)
    BY <2>1, EventRecords
  <2>2. CASE KickUnauthorised \/ UpdateOnlineUser \/ \E uid \in Uid : ReadOnlineUser(uid)
    BY <2>2, OnlineUserRecords
  <2>3. ASSUME NEW p \in net, Deliver(p)
        PROVE  Recorded(x)
    BY <2>3, DeliverRecords
  <2>4. ASSUME UNCHANGED online
        PROVE  FALSE
    BY <2>4 DEF Present
  <2>5. ASSUME NEW uid \in Uid,
               NasLogin(uid) \/ NasTraffic(uid) \/ NasInterim(uid) \/ NasLogoff(uid)
        PROVE  UNCHANGED online
    BY <2>5 DEF NasLogin, NasTraffic, NasInterim, NasLogoff, dbVars, tables
  <2>6. ASSUME NEW nas \in Nas, NasReboot(nas)
        PROVE  UNCHANGED online
    BY <2>6 DEF NasReboot, dbVars, tables
  <2>7. CASE Tick
    BY <2>4, <2>7 DEF Tick, DbTick, tables
  <2> QED BY <2>1, <2>2, <2>3, <2>4, <2>5, <2>6, <2>7 DEF Next
<1> QED BY <1>1, TypeCorrect, PTL DEF Spec, RemovalRecorded

-----------------------------------------------------------------------------
(***************************************************************************)
(* The charge covers the ledger.  A statement that fills a row, new or     *)
(* there already, charges all the octets it puts there, so the sum over    *)
(* the ledger never gets ahead of the charge.                              *)
(***************************************************************************)
CoverSum ==
    \A u \in User : byte_remain[u] > 0 =>
        ByteGrant[u] - byte_remain[u] >= Octets({r \in offline : UserOf[r.uid] = u})

CoverInv == IsFiniteSet(offline) /\ CoverSum

\* Some row may go, a row of uid comes, and its octets are charged.
LEMMA RowCovered ==
    ASSUME DbTypeOK, CoverInv, NEW gone, NEW e \in OfflineRow,
           offline' = (offline \ {gone}) \cup {e},
           byte_remain' = Debit(byte_remain, UserOf[e.uid], e.octets)
    PROVE  CoverInv'
<1>1. e.octets \in Nat /\ e.uid \in Uid /\ UserOf[e.uid] \in User
  BY SessionAssumption DEF OfflineRow
<1>2. IsFiniteSet(offline')
  <2>1. IsFiniteSet(offline \ {gone})
    BY FS_RemoveElement DEF CoverInv
  <2> QED BY <2>1, FS_AddElement
<1> DEFINE mine(u) == {q \in offline : UserOf[q.uid] = u}
<1>3. ASSUME NEW u \in User, byte_remain'[u] > 0
      PROVE  ByteGrant[u] - byte_remain'[u] >= Octets({q \in offline' : UserOf[q.uid] = u})
  <2>1. byte_remain[u] \in Int /\ ByteGrant[u] \in Int
    BY SessionAssumption DEF DbTypeOK
  <2>2. IsFiniteSet(mine(u)) /\ \A q \in mine(u) : q.octets \in Nat
    BY FS_Subset DEF CoverInv, DbTypeOK, OfflineRow
  <2>3. byte_remain[u] > 0 => ByteGrant[u] - byte_remain[u] >= Octets(mine(u))
    BY DEF CoverInv, CoverSum
  <2> DEFINE kept == mine(u) \ {gone}
  <2>4. /\ Octets(mine(u)) \in Nat /\ Octets(kept) \in Nat
        /\ Octets(kept) <= Octets(mine(u))
    <3> HIDE DEF mine
    <3> QED BY <2>2, OctetsInsert, OctetsRemove, <1>1
  <2>5. CASE u = UserOf[e.uid]
    <3>1. byte_remain[u] > 0 /\ byte_remain'[u] = byte_remain[u] - e.octets
      BY <1>1, <1>3, <2>1, <2>5 DEF Debit, DbTypeOK
    <3>2. {q \in offline' : UserOf[q.uid] = u} = kept \cup {e}
      BY <1>1, <2>5
    <3>3. IsFiniteSet(kept) /\ \A q \in kept : q.octets \in Nat
      BY <2>2, FS_RemoveElement
    <3> HIDE DEF mine, kept
    <3>4. Octets(kept \cup {e}) \in Nat /\ Octets(kept \cup {e}) <= Octets(kept) + e.octets
      BY <1>1, <3>3, OctetsInsert
    <3>5. ByteGrant[u] - byte_remain'[u] >= Octets(mine(u)) + e.octets
      BY <1>1, <2>1, <2>3, <2>4, <3>1
    <3>6. ByteGrant[u] - byte_remain'[u] >= Octets(kept \cup {e})
      BY <1>1, <2>1, <2>4, <3>1, <3>4, <3>5
    <3> QED BY <3>2, <3>6
  <2>6. CASE u # UserOf[e.uid]
    <3>1. byte_remain'[u] = byte_remain[u]
      BY <2>6 DEF Debit, DbTypeOK
    <3>2. {q \in offline' : UserOf[q.uid] = u} = kept
      BY <2>6
    <3> HIDE DEF mine, kept
    <3>3. ByteGrant[u] - byte_remain'[u] >= Octets(kept)
      BY <1>3, <2>1, <2>3, <2>4, <3>1
    <3> QED BY <3>2, <3>3
  <2> QED BY <2>5, <2>6
<1> QED BY <1>2, <1>3 DEF CoverInv, CoverSum

LEMMA InsertCovered ==
    ASSUME DbTypeOK, CoverInv, NEW id \in Nat, NEW uid \in Uid, NEW secs \in Nat,
           NEW octets \in Nat, InsertOffline(id, uid, secs, octets)
    PROVE  CoverInv'
<1> DEFINE e == [id |-> id, uid |-> uid, stop |-> now, secs |-> secs, octets |-> octets]
<1>1. e \in OfflineRow /\ e.uid = uid /\ e.octets = octets
  BY DEF OfflineRow, DbTypeOK
<1>2. offline' = (offline \ {e}) \cup {e}
  BY DEF InsertOffline
<1>3. byte_remain' = Debit(byte_remain, UserOf[e.uid], e.octets)
  BY DEF InsertOffline, BillAndClose
<1> HIDE DEF e
<1> QED BY <1>1, <1>2, <1>3, RowCovered

LEMMA UpdateCovered ==
    ASSUME DbTypeOK, CoverInv, NEW r \in offline, NEW secs \in Nat, NEW octets \in Nat,
           UpdateOffline(r, secs, octets)
    PROVE  CoverInv'
<1> DEFINE e == [r EXCEPT !.stop = now, !.secs = secs, !.octets = octets]
<1>0. r \in OfflineRow
  BY DEF DbTypeOK
<1>1. e \in OfflineRow /\ e.uid = r.uid /\ e.octets = octets
  BY <1>0 DEF OfflineRow, DbTypeOK
<1>2. offline' = (offline \ {r}) \cup {e}
  BY DEF UpdateOffline
<1>3. byte_remain' = Debit(byte_remain, UserOf[e.uid], e.octets)
  BY <1>1 DEF UpdateOffline, BillAndClose
<1> HIDE DEF e
<1> QED BY <1>1, <1>2, <1>3, RowCovered

LEMMA DeliverCovered ==
    ASSUME TypeOK, CoverInv, NEW p \in net, Deliver(p)
    PROVE  CoverInv'
<1> USE DEF TypeOK
<1>1. p \in SessionPacket \/ p \in NasPacket
  OBVIOUS
<1>2. CASE UNCHANGED <<offline, byte_remain>>
  BY <1>2 DEF CoverInv, CoverSum
<1>3. CASE p.type = "Stop" /\ HandleStop(p.uid, p.secs, p.octets)
  <2>1. p.uid \in Uid /\ p.secs \in Nat /\ p.octets \in Nat
    BY <1>1, <1>3, LossyAssumption DEF SessionPacket, NasPacket
  <2>2. CASE StopInserts(p.uid, p.secs, p.octets)
    BY <2>1, <2>2, BilledSecsType, InsertCovered DEF StopInserts
  <2>3. CASE StopUpdates(p.uid, p.secs, p.octets)
    BY <2>1, <2>3, BilledSecsType, UpdateCovered DEF StopUpdates, LedgerOf
  <2>4. CASE StopRejected(p.uid)
    BY <1>2, <2>4 DEF StopRejected, tables
  <2> QED BY <1>3, <2>2, <2>3, <2>4 DEF HandleStop
<1>4. CASE HandleStart(p.uid, p.ts) \/ HandleInterim(p.uid, p.secs, p.octets)
           \/ HandleAccountingOn(p.nas, p.ts)
  BY <1>2, <1>4 DEF HandleStart, HandleInterim, InsertOnline, HandleAccountingOn
<1> QED BY <1>3, <1>4 DEF Deliver

\* While a quota lasts, everything in the ledger has been charged to it:
\* however packets are repeated, reordered and delayed, and whatever the events
\* and the operators do meanwhile, they may charge too much, never too little.
THEOREM ChargeCoversLedger == Spec => []LedgerCovered
<1>1. Init => CoverInv
  <2> SUFFICES ASSUME Init
               PROVE  CoverInv
    OBVIOUS
  <2>1. offline = {} /\ byte_remain = ByteGrant
    BY DEF Init, DbInit
  <2>2. \A u \in User : {r \in offline : UserOf[r.uid] = u} = {}
    BY <2>1
  <2>3. \A u \in User : ByteGrant[u] - byte_remain[u] = 0
    BY <2>1, SessionAssumption
  <2>4. \A u \in User :
           ByteGrant[u] - byte_remain[u] >= Octets({r \in offline : UserOf[r.uid] = u})
    BY <2>2, <2>3, OctetsEmpty
  <2> QED BY <2>1, <2>4, FS_EmptySet DEF CoverInv, CoverSum
<1>2. TypeOK /\ CoverInv /\ [Next]_vars => CoverInv'
  <2> SUFFICES ASSUME TypeOK, CoverInv, [Next]_vars
               PROVE  CoverInv'
    OBVIOUS
  <2>1. CASE UNCHANGED <<offline, byte_remain>>
    BY <2>1 DEF CoverInv, CoverSum
  <2>2. ASSUME NEW w \in Worker, NEW uid \in Uid, EventMoveRow(w, uid)
        PROVE  CoverInv'
    <3>1. job[w].temp[uid] \in OnlineRow
      BY <2>2 DEF TypeOK, DbTypeOK, EventMoveRow, Copied, Jobs
    <3>2. job[w].temp[uid].id \in Nat /\ job[w].temp[uid].secs \in Nat /\ job[w].temp[uid].octets \in Nat
      BY <3>1 DEF OnlineRow
    <3> QED BY <2>2, <3>2, BilledSecsType, InsertCovered DEF EventMoveRow, TypeOK
  <2>3. ASSUME NEW w \in Worker,
               EventMark(w) \/ EventCopy(w) \/ EventMove(w) \/ EventDone(w) \/ EventAbort(w)
        PROVE  UNCHANGED <<offline, byte_remain>>
    BY <2>3 DEF EventMark, EventCopy, EventMove, EventDone, EventAbort, tables
  <2>4. ASSUME NEW p \in net, Deliver(p)
        PROVE  CoverInv'
    BY <2>4, DeliverCovered
  <2>5. ASSUME NEW uid \in Uid,
               NasLogin(uid) \/ NasTraffic(uid) \/ NasInterim(uid) \/ NasLogoff(uid)
        PROVE  UNCHANGED <<offline, byte_remain>>
    BY <2>5 DEF NasLogin, NasTraffic, NasInterim, NasLogoff, dbVars, tables
  <2>6. ASSUME NEW nas \in Nas, NasReboot(nas)
        PROVE  UNCHANGED <<offline, byte_remain>>
    BY <2>6 DEF NasReboot, dbVars, tables
  <2>7. CASE \/ KickUnauthorised \/ UpdateOnlineUser \/ Tick \/ UNCHANGED vars
             \/ \E uid \in Uid : ReadOnlineUser(uid)
    BY <2>1, <2>7 DEF KickUnauthorised, UpdateOnlineUser, ReadOnlineUser, Tick, DbTick,
                      vars, dbVars, tables
  <2> QED BY <2>1, <2>2, <2>3, <2>4, <2>5, <2>6, <2>7 DEF Next, EventStep
<1>3. CoverInv => LedgerCovered
  BY DEF CoverInv, CoverSum, LedgerCovered, Octets
<1> QED BY <1>1, <1>2, <1>3, TypeCorrect, PTL DEF Spec

\* What is recorded stays recorded for any number of BRASes that choose their
\* Acct-Session-Ids alike and any number of executions of event_of_minute: the
\* triggers and the sweep charge what they put into the ledger.
THEOREM RecordedStill == Spec => []StillRecorded
<1>1. Spec => []LedgerCovered /\ []OvershootBounded
  BY ChargeCoversLedger, OverdraftBounded
<1>2. CASE OneWorker
  BY <1>1, <1>2, RowsSweptOnce, PTL DEF StillRecorded
<1>3. CASE ~OneWorker
  <2>1. LedgerCovered /\ OvershootBounded => StillRecorded
    BY <1>3 DEF StillRecorded
  <2> QED BY <1>1, <2>1, PTL
<1> QED BY <1>2, <1>3
=============================================================================
