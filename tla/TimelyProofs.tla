---------------------------- MODULE TimelyProofs ----------------------------
(***************************************************************************)
(* Theorems about AccountingTimely, for every value of its constants.      *)
(***************************************************************************)
EXTENDS AccountingTimely, SessionDbProofs

\* Statements that FreeRADIUS executes for a packet of a session: all that
\* their types need of the NAS.
LEMMA SessionNumbers ==
    ASSUME TypeOK, NEW uid \in Uid
    PROVE  /\ now \in Nat
           /\ used[uid] \in Nat
           /\ used[uid] <= MaxOctets
           /\ now - begun[uid] \in Nat
<1>1. now \in Nat
  BY DEF TypeOK, DbTypeOK
<1>2. used[uid] \in 0..MaxOctets /\ begun[uid] \in 0..now
  BY DEF TypeOK
<1> QED BY <1>1, <1>2, TimelyAssumption

LEMMA EndType ==
    ASSUME TypeOK, NEW uid \in Uid, End(uid), coa' \subseteq Uid
    PROVE  TypeOK'
<1>1. TablesOK'
  BY SessionNumbers, HandleStopType DEF End, TypeOK
<1>2. UNCHANGED <<now, blocked, job, form, used, begun, contact>>
  BY DEF End
<1>3. sess' \in [Uid -> {"new", "up", "down", "lost"}]
  BY DEF End, TypeOK
<1> QED BY <1>1, <1>2, <1>3 DEF TablesOK, TypeOK, DbTypeOK

-----------------------------------------------------------------------------
\* Type correctness of the tables, the event's temporary table, the form in
\* the browser, the sessions at the NASes and the list of coa.sh.
THEOREM TypeCorrect == Spec => []TypeOK
<1>1. Init => TypeOK
  BY SessionAssumption, TimelyAssumption
     DEF Init, DbInit, TypeOK, DbTypeOK, IdleJob, NoRows, Jobs
<1>2. TypeOK /\ [Next]_vars => TypeOK'
  <2> SUFFICES ASSUME TypeOK, [Next]_vars
               PROVE  TypeOK'
    OBVIOUS
  <2>1. ASSUME NEW w \in Worker, EventStep(w), UNCHANGED nasVars
        PROVE  TypeOK'
    BY <2>1, EventStepType DEF TypeOK, nasVars
  <2>2. CASE KickUnauthorised /\ UNCHANGED nasVars
    BY <2>2, KickUnauthorisedType DEF TypeOK, nasVars
  <2>3. ASSUME NEW uid \in Uid, ReadOnlineUser(uid), UNCHANGED nasVars
        PROVE  TypeOK'
    BY <2>3, ReadOnlineUserType DEF TypeOK, nasVars
  <2>4. CASE UpdateOnlineUser /\ UNCHANGED nasVars
    BY <2>4, UpdateOnlineUserType DEF TypeOK, nasVars
  <2>5. ASSUME NEW u \in User, SetBlocked(u), UNCHANGED nasVars
        PROVE  TypeOK'
    BY <2>5 DEF TypeOK, DbTypeOK, SetBlocked, nasVars, tables
  <2>6. ASSUME NEW uid \in Uid, Login(uid)
        PROVE  TypeOK'
    <3>1. TablesOK'
      BY <2>6, SessionNumbers, HandleStartType DEF Login, TypeOK
    <3>2. /\ UNCHANGED <<now, blocked, job, form, used, coa>>
          /\ sess' \in [Uid -> {"new", "up", "down", "lost"}]
          /\ begun' \in [Uid -> 0..now]
          /\ contact' \in [Uid -> Nat]
      BY <2>6 DEF Login, TypeOK, DbTypeOK
    <3> QED BY <3>1, <3>2 DEF TablesOK, TypeOK, DbTypeOK
  <2>7. ASSUME NEW uid \in Uid, Traffic(uid)
        PROVE  TypeOK'
    <3>1. used' \in [Uid -> 0..MaxOctets]
      BY <2>7, TimelyAssumption DEF Traffic, TypeOK
    <3> QED BY <2>7, <3>1 DEF Traffic, TypeOK, DbTypeOK, dbVars, tables
  <2>8. ASSUME NEW uid \in Uid, Interim(uid)
        PROVE  TypeOK'
    <3>1. TablesOK'
      BY <2>8, SessionNumbers, HandleInterimType DEF Interim, TypeOK
    <3>2. /\ UNCHANGED <<now, blocked, job, form, sess, used, begun, coa>>
          /\ contact' \in [Uid -> Nat]
      BY <2>8 DEF Interim, TypeOK, DbTypeOK
    <3> QED BY <3>1, <3>2 DEF TablesOK, TypeOK, DbTypeOK
  <2>9. ASSUME NEW uid \in Uid, Logoff(uid) \/ CoaDisconnect(uid)
        PROVE  TypeOK'
    BY <2>9, EndType DEF Logoff, CoaDisconnect, TypeOK
  <2>10. ASSUME NEW uid \in Uid, CoaMiss(uid)
         PROVE  TypeOK'
    BY <2>10 DEF CoaMiss, TypeOK, DbTypeOK, dbVars, tables
  <2>11. ASSUME NEW nas \in Nas, Reboot(nas)
         PROVE  TypeOK'
    <3>1. TablesOK'
      BY <2>11, HandleAccountingOnType DEF Reboot, TypeOK, DbTypeOK
    <3>2. /\ UNCHANGED <<now, blocked, job, form, used, begun, contact, coa>>
          /\ sess' \in [Uid -> {"new", "up", "down", "lost"}]
      BY <2>11 DEF Reboot, TypeOK
    <3> QED BY <3>1, <3>2 DEF TablesOK, TypeOK, DbTypeOK
  <2>12. CASE CoaRead
    BY <2>12 DEF CoaRead, TypeOK, DbTypeOK, dbVars, tables
  <2>13. CASE Tick
    BY <2>13 DEF Tick, DbTick, TypeOK, DbTypeOK, nasVars, tables
  <2>14. CASE UNCHANGED vars
    BY <2>14 DEF TypeOK, DbTypeOK, vars, dbVars, nasVars, tables
  <2> QED BY <2>1, <2>2, <2>3, <2>4, <2>5, <2>6, <2>7, <2>8, <2>9, <2>10, <2>11, <2>12,
             <2>13, <2>14 DEF Next
<1> QED BY <1>1, <1>2, PTL DEF Spec

-----------------------------------------------------------------------------
(***************************************************************************)
(* The inductive invariant, session by session: what the tables, the copy  *)
(* of event_of_minute and the form of a browser may hold of a session      *)
(* follows from where the session is at the NAS.                           *)
(***************************************************************************)

\* Rows of online_user belong to sessions that were not stopped, never count
\* more than the NAS does, and were written in the past.
RowsFollow ==
    \A x \in Uid : online[x] # NoRow =>
        /\ sess[x] \in {"up", "lost"}
        /\ online[x].upd <= now
        /\ online[x].octets <= used[x]

\* A session that is up has its row, not stopped and written since its last
\* packet, which is no older than Interval.
UpOnline ==
    \A x \in Uid : sess[x] = "up" =>
        /\ online[x] # NoRow
        /\ online[x].stop = Null
        /\ contact[x] <= online[x].upd
        /\ now - contact[x] <= Interval

\* The event copies only what a restart left behind.
CopiesFollow ==
    \A w \in Worker, x \in Uid : job[w].temp[x] # NoRow =>
        /\ sess[x] = "lost"
        /\ job[w].temp[x].octets <= used[x]

FormFollows ==
    form # NoRow =>
        /\ sess[form.uid] # "new"
        /\ form.row.stop = Null
        /\ form.row.octets <= used[form.uid]

SessionInv == RowsFollow /\ UpOnline /\ CopiesFollow /\ FormFollows /\ LedgerExact

-----------------------------------------------------------------------------
(***************************************************************************)
(* What the statements come to when Acct-Session-Ids are not reused.       *)
(***************************************************************************)
LEMMA OwnSession ==
    ASSUME NEW x \in Uid, NEW y \in Uid
    PROVE  SameSession(x, y) <=> x = y
BY TimelyAssumption DEF SameSession

\* The trigger deletes the row of the session that is billed and no other.
LEMMA ClosesOne ==
    ASSUME TypeOK, NEW uid \in Uid, NEW secs, NEW octets, BillAndClose(uid, secs, octets)
    PROVE  online' = [online EXCEPT ![uid] = NoRow]
BY OwnSession DEF BillAndClose, TypeOK, DbTypeOK

\* A Start is always an INSERT.
LEMMA LoginInserts ==
    ASSUME TypeOK, SessionInv, NEW uid \in Uid, Login(uid)
    PROVE  /\ sess[uid] = "new"
           /\ online' = [online EXCEPT ![uid] = NewOnlineRow(0, 0)]
           /\ UNCHANGED <<offline, byte_remain>>
<1>1. sess[uid] = "new" /\ HandleStart(uid, now)
  BY DEF Login
<1>2. ~Present(uid)
  BY <1>1 DEF SessionInv, RowsFollow, Present
<1> QED BY <1>1, <1>2 DEF HandleStart, InsertOnline

\* An Interim-Update always finds the row of its session.
LEMMA InterimUpdates ==
    ASSUME TypeOK, SessionInv, NEW uid \in Uid, Interim(uid)
    PROVE  /\ online[uid] \in OnlineRow
           /\ online' = [online EXCEPT ![uid] =
                  [online[uid] EXCEPT !.secs = now - begun[uid], !.octets = used[uid], !.upd = now]]
           /\ UNCHANGED <<offline, byte_remain>>
<1>1. sess[uid] = "up" /\ HandleInterim(uid, now - begun[uid], used[uid])
  BY DEF Interim
<1>2. online[uid] # NoRow
  BY <1>1 DEF SessionInv, UpOnline
<1>3. online[uid] \in OnlineRow
  BY <1>2 DEF TypeOK, DbTypeOK
<1> QED BY <1>1, <1>2, <1>3 DEF HandleInterim, InsertOnline, TypeOK, DbTypeOK

\* A Stop is always an INSERT: no other statement has put its session into
\* the ledger.
LEMMA EndInserts ==
    ASSUME TypeOK, SessionInv, NEW uid \in Uid, End(uid)
    PROVE  /\ sess[uid] = "up"
           /\ LedgerOf(uid) = {}
           /\ online' = [online EXCEPT ![uid] = NoRow]
           /\ byte_remain' = Debit(byte_remain, UserOf[uid], used[uid])
           /\ \E r \in OfflineRow : /\ r.uid = uid
                                    /\ r.octets = used[uid]
                                    /\ offline' = offline \cup {r}
<1>1. sess[uid] = "up" /\ HandleStop(uid, now - begun[uid], used[uid])
  BY DEF End
<1>2. LedgerOf(uid) = {}
  BY <1>1 DEF SessionInv, LedgerExact, LedgerOf
<1>3. StopInserts(uid, now - begun[uid], used[uid])
  BY <1>1, <1>2 DEF HandleStop, StopUpdates, StopRejected
<1>4. PICK s \in BilledSecs(uid, now - begun[uid]) : InsertOffline(0, uid, s, used[uid])
  BY <1>3 DEF StopInserts
<1>5. s \in Nat
  BY SessionNumbers, BilledSecsType DEF TypeOK
<1> DEFINE r == [id |-> 0, uid |-> uid, stop |-> now, secs |-> s, octets |-> used[uid]]
<1>6. r \in OfflineRow
  BY <1>5, SessionNumbers DEF OfflineRow
<1>7. offline' = offline \cup {r} /\ r.uid = uid /\ r.octets = used[uid]
  BY <1>4 DEF InsertOffline
<1>8. /\ online' = [online EXCEPT ![uid] = NoRow]
      /\ byte_remain' = Debit(byte_remain, UserOf[uid], used[uid])
  BY <1>4, ClosesOne DEF InsertOffline, BillAndClose
<1> QED BY <1>1, <1>2, <1>6, <1>7, <1>8

\* One row of the sweep.
LEMMA MoveInserts ==
    ASSUME TypeOK, SessionInv, NEW w \in Worker, NEW uid \in Uid, EventMoveRow(w, uid)
    PROVE  /\ sess[uid] = "lost"
           /\ online' = [online EXCEPT ![uid] = NoRow]
           /\ \E r \in OfflineRow : /\ r.uid = uid
                                    /\ r.octets <= used[uid]
                                    /\ byte_remain' = Debit(byte_remain, UserOf[uid], r.octets)
                                    /\ offline' = offline \cup {r}
<1> DEFINE copy == job[w].temp[uid]
<1>1. copy \in OnlineRow /\ sess[uid] = "lost" /\ copy.octets <= used[uid]
  BY DEF EventMoveRow, Copied, SessionInv, CopiesFollow, TypeOK, DbTypeOK, Jobs
<1>2. copy.id \in Nat /\ copy.secs \in Nat /\ copy.octets \in Nat
  BY <1>1 DEF OnlineRow
<1>3. PICK s \in BilledSecs(uid, copy.secs) : InsertOffline(copy.id, uid, s, copy.octets)
  BY DEF EventMoveRow
<1>4. s \in Nat
  BY <1>2, BilledSecsType DEF TypeOK
<1> DEFINE r == [id |-> copy.id, uid |-> uid, stop |-> now, secs |-> s, octets |-> copy.octets]
<1>5. r \in OfflineRow
  BY <1>2, <1>4 DEF OfflineRow, TypeOK, DbTypeOK
<1>6. offline' = offline \cup {r} /\ r.uid = uid /\ r.octets = copy.octets
  BY <1>3 DEF InsertOffline
<1>7. /\ online' = [online EXCEPT ![uid] = NoRow]
      /\ byte_remain' = Debit(byte_remain, UserOf[uid], r.octets)
  BY <1>3, <1>6, ClosesOne DEF InsertOffline, BillAndClose
<1> QED BY <1>1, <1>5, <1>6, <1>7

\* Saving a form writes the row of its own session, or none.
LEMMA FormWritesOwn ==
    ASSUME TypeOK, UpdateOnlineUser
    PROVE  /\ form \in Forms
           /\ \/ UNCHANGED online
              \/ /\ online[form.uid] # NoRow
                 /\ online' = [online EXCEPT ![form.uid] =
                        [form.row EXCEPT !.id = online[form.uid].id, !.upd = now, !.kickme = TRUE]]
<1>1. form \in Forms /\ form.uid \in Uid
  BY DEF UpdateOnlineUser, TypeOK, DbTypeOK, Forms
<1>2. ASSUME NEW x \in Uid, Present(x), SameSession(x, form.uid),
             online' = [[online EXCEPT ![x] = NoRow]
                 EXCEPT ![form.uid] = [form.row EXCEPT !.id = online[x].id, !.upd = now, !.kickme = TRUE]]
      PROVE  /\ online[form.uid] # NoRow
             /\ online' = [online EXCEPT ![form.uid] =
                    [form.row EXCEPT !.id = online[form.uid].id, !.upd = now, !.kickme = TRUE]]
  <2>1. x = form.uid
    BY <1>1, <1>2, OwnSession
  <2> DEFINE written == [form.row EXCEPT !.id = online[x].id, !.upd = now, !.kickme = TRUE]
  <2>2. online' = [[online EXCEPT ![x] = NoRow] EXCEPT ![x] = written]
    BY <1>2, <2>1
  <2>3. online' = [online EXCEPT ![x] = written]
    <3> HIDE DEF written
    <3> QED BY <2>2 DEF TypeOK, DbTypeOK
  <2> QED BY <1>2, <2>1, <2>3 DEF Present
<1>3. UNCHANGED online \/
      \E x \in Uid : /\ Present(x) /\ SameSession(x, form.uid)
                     /\ online' = [[online EXCEPT ![x] = NoRow]
                            EXCEPT ![form.uid] = [form.row EXCEPT !.id = online[x].id, !.upd = now, !.kickme = TRUE]]
  BY DEF UpdateOnlineUser
<1> QED BY <1>1, <1>2, <1>3

-----------------------------------------------------------------------------
(***************************************************************************)
(* One lemma for each kind of step.                                        *)
(***************************************************************************)
LEMMA LoginSession ==
    ASSUME TypeOK, SessionInv, NEW uid \in Uid, Login(uid)
    PROVE  SessionInv'
<1> USE DEF SessionInv, TypeOK, DbTypeOK
<1>1. /\ sess[uid] = "new" /\ sess' = [sess EXCEPT ![uid] = "up"]
      /\ contact' = [contact EXCEPT ![uid] = now]
      /\ UNCHANGED <<now, offline, job, form, used>>
  BY LoginInserts DEF Login
<1>2. online' = [online EXCEPT ![uid] = NewOnlineRow(0, 0)]
  BY LoginInserts
<1>3. /\ NewOnlineRow(0, 0) \in OnlineRow
      /\ NewOnlineRow(0, 0).upd = now /\ NewOnlineRow(0, 0).octets = 0
      /\ NewOnlineRow(0, 0).stop = Null
  BY DEF NewOnlineRow, OnlineRow
<1> HIDE DEF SessionInv
<1>4. RowsFollow'
  BY <1>1, <1>2, <1>3, SessionNumbers DEF SessionInv, RowsFollow
<1>5. UpOnline'
  BY <1>1, <1>2, <1>3, NoRowAssumption, TimelyAssumption DEF SessionInv, UpOnline
<1>6. CopiesFollow' /\ FormFollows'
  BY <1>1 DEF SessionInv, CopiesFollow, FormFollows, Forms
<1>7. LedgerExact'
  BY <1>1 DEF SessionInv, LedgerExact, OfflineRow
<1> QED BY <1>4, <1>5, <1>6, <1>7 DEF SessionInv

LEMMA TrafficSession ==
    ASSUME TypeOK, SessionInv, NEW uid \in Uid, Traffic(uid)
    PROVE  SessionInv'
<1>1. /\ sess[uid] = "up" /\ used' = [used EXCEPT ![uid] = used[uid] + 1]
      /\ UNCHANGED <<now, online, offline, job, form, sess, contact>>
  BY DEF Traffic, dbVars, tables
<1>2. \A x \in Uid : used[x] \in Nat /\ used'[x] \in Nat /\ used[x] <= used'[x]
  BY <1>1, SessionNumbers DEF TypeOK
<1>3. RowsFollow'
  BY <1>1, <1>2 DEF SessionInv, RowsFollow, TypeOK, DbTypeOK, OnlineRow
<1>4. UpOnline'
  BY <1>1 DEF SessionInv, UpOnline
<1>5. CopiesFollow' /\ FormFollows'
  BY <1>1, <1>2 DEF SessionInv, CopiesFollow, FormFollows, TypeOK, DbTypeOK, Jobs, Forms, OnlineRow
<1>6. LedgerExact'
  BY <1>1, <1>2 DEF SessionInv, LedgerExact, TypeOK, DbTypeOK, OfflineRow
<1> QED BY <1>3, <1>4, <1>5, <1>6 DEF SessionInv

LEMMA InterimSession ==
    ASSUME TypeOK, SessionInv, NEW uid \in Uid, Interim(uid)
    PROVE  SessionInv'
<1>1. /\ sess[uid] = "up" /\ contact' = [contact EXCEPT ![uid] = now]
      /\ UNCHANGED <<now, offline, job, form, sess, used>>
  BY InterimUpdates DEF Interim
<1> DEFINE row == [online[uid] EXCEPT !.secs = now - begun[uid], !.octets = used[uid], !.upd = now]
<1>2. online[uid] \in OnlineRow /\ online' = [online EXCEPT ![uid] = row]
  BY InterimUpdates
<1>3. row # NoRow /\ row.upd = now /\ row.octets = used[uid] /\ row.stop = online[uid].stop
  <2>1. row \in OnlineRow
    BY <1>2, SessionNumbers DEF OnlineRow
  <2> QED BY <1>2, <2>1, NoRowAssumption DEF OnlineRow
<1> HIDE DEF row
<1>4. RowsFollow'
  BY <1>1, <1>2, <1>3, SessionNumbers DEF SessionInv, RowsFollow, TypeOK, DbTypeOK
<1>5. UpOnline'
  BY <1>1, <1>2, <1>3, SessionNumbers, TimelyAssumption DEF SessionInv, UpOnline, TypeOK, DbTypeOK
<1>6. CopiesFollow' /\ FormFollows' /\ LedgerExact'
  BY <1>1 DEF SessionInv, CopiesFollow, FormFollows, LedgerExact
<1> QED BY <1>4, <1>5, <1>6 DEF SessionInv

LEMMA EndSession ==
    ASSUME TypeOK, SessionInv, NEW uid \in Uid, End(uid)
    PROVE  SessionInv'
<1>1. /\ sess[uid] = "up" /\ sess' = [sess EXCEPT ![uid] = "down"]
      /\ online' = [online EXCEPT ![uid] = NoRow]
      /\ UNCHANGED <<now, job, form, used, contact>>
  BY EndInserts DEF End
<1>2. PICK r \in OfflineRow : r.uid = uid /\ r.octets = used[uid] /\ offline' = offline \cup {r}
  BY EndInserts
<1>3. RowsFollow' /\ UpOnline'
  BY <1>1 DEF SessionInv, RowsFollow, UpOnline, TypeOK, DbTypeOK
<1>4. CopiesFollow' /\ FormFollows'
  BY <1>1 DEF SessionInv, CopiesFollow, FormFollows, TypeOK, DbTypeOK, Forms
<1>5. LedgerExact'
  BY <1>1, <1>2, SessionNumbers DEF SessionInv, LedgerExact, TypeOK, DbTypeOK, OfflineRow
<1> QED BY <1>3, <1>4, <1>5 DEF SessionInv

LEMMA RebootSession ==
    ASSUME TypeOK, SessionInv, NEW nas \in Nas, Reboot(nas)
    PROVE  SessionInv'
<1>1. /\ \A x \in Uid : sess'[x] = IF NasOf[x] = nas /\ sess[x] = "up" THEN "lost" ELSE sess[x]
      /\ UNCHANGED <<now, offline, job, form, used, contact>>
  BY DEF Reboot, HandleAccountingOn
<1>2. ASSUME NEW x \in Uid, online'[x] # NoRow
      PROVE  /\ online[x] # NoRow
             /\ online'[x].octets = online[x].octets
             /\ online'[x].upd = online[x].upd \/ online'[x].upd = now
             /\ NasOf[x] = nas \/ online'[x] = online[x]
  BY <1>2 DEF Reboot, HandleAccountingOn, Present, TypeOK, DbTypeOK, OnlineRow
<1>3. \A x \in Uid : NasOf[x] # nas => online'[x] = online[x]
  BY DEF Reboot, HandleAccountingOn, Present
<1>4. RowsFollow'
  BY <1>1, <1>2, SessionNumbers DEF SessionInv, RowsFollow
<1>5. UpOnline'
  BY <1>1, <1>3 DEF SessionInv, UpOnline
<1>6. CopiesFollow' /\ FormFollows' /\ LedgerExact'
  BY <1>1 DEF SessionInv, CopiesFollow, FormFollows, LedgerExact, TypeOK, DbTypeOK, Forms, OfflineRow
<1> QED BY <1>4, <1>5, <1>6 DEF SessionInv

\* The sweep marks no live session: its row was written since its last packet,
\* which is no older than Interval.
LEMMA MarkSession ==
    ASSUME TypeOK, SessionInv, NEW w \in Worker, EventMark(w), UNCHANGED nasVars
    PROVE  SessionInv'
<1>1. /\ UNCHANGED <<now, offline, form, sess, used, contact>>
      /\ \A v \in Worker : job'[v].temp = job[v].temp
  BY DEF EventMark, nasVars, TypeOK, DbTypeOK, Jobs
<1>2. ASSUME NEW x \in Uid, online'[x] # NoRow
      PROVE  /\ online[x] # NoRow
             /\ online'[x].octets = online[x].octets
             /\ online'[x].upd = online[x].upd \/ online'[x].upd = now
  BY <1>2 DEF EventMark, Present, TypeOK, DbTypeOK, OnlineRow
<1>3. ASSUME NEW x \in Uid, sess[x] = "up"
      PROVE  online'[x] = online[x]
  <2>1. online[x] # NoRow /\ contact[x] <= online[x].upd /\ now - contact[x] <= Interval
    BY <1>3 DEF SessionInv, UpOnline
  <2>2. online[x].upd <= now /\ online[x].upd \in Nat /\ contact[x] \in Nat /\ now \in Nat
    BY <2>1 DEF SessionInv, RowsFollow, TypeOK, DbTypeOK, OnlineRow
  <2>3. ~ (Abs(now - online[x].upd) > StaleAfter)
    BY <2>1, <2>2, TimelyAssumption, SessionAssumption DEF Abs
  <2> QED BY <2>3 DEF EventMark
<1>4. RowsFollow'
  BY <1>1, <1>2, SessionNumbers DEF SessionInv, RowsFollow
<1>5. UpOnline'
  BY <1>1, <1>3 DEF SessionInv, UpOnline
<1>6. CopiesFollow' /\ FormFollows' /\ LedgerExact'
  BY <1>1 DEF SessionInv, CopiesFollow, FormFollows, LedgerExact
<1> QED BY <1>4, <1>5, <1>6 DEF SessionInv

LEMMA EventSession ==
    ASSUME TypeOK, SessionInv, NEW w \in Worker, EventStep(w), UNCHANGED nasVars
    PROVE  SessionInv'
<1>1. CASE EventMark(w)
  BY <1>1, MarkSession
<1>2. CASE EventCopy(w)
  <2>1. UNCHANGED <<now, online, offline, form, sess, used, contact>>
    BY <1>2 DEF EventCopy, nasVars, tables
  <2>2. ASSUME NEW v \in Worker, NEW x \in Uid, job'[v].temp[x] # NoRow
        PROVE  \/ job'[v].temp[x] = job[v].temp[x]
               \/ job'[v].temp[x] = online[x] /\ online[x] # NoRow /\ online[x].stop # Null
    BY <1>2, <2>2 DEF EventCopy, Present, TypeOK, DbTypeOK, Jobs
  <2>3. CopiesFollow'
    BY <2>1, <2>2 DEF SessionInv, CopiesFollow, RowsFollow, UpOnline
  <2> QED BY <2>1, <2>3 DEF SessionInv, RowsFollow, UpOnline, FormFollows, LedgerExact
<1>3. CASE EventMove(w) \/ EventDone(w) \/ EventAbort(w)
  <2>1. UNCHANGED <<now, online, offline, form, sess, used, contact>>
    BY <1>3 DEF EventMove, EventDone, EventAbort, nasVars, tables
  <2>2. ASSUME NEW v \in Worker, NEW x \in Uid, job'[v].temp[x] # NoRow
        PROVE  job'[v].temp[x] = job[v].temp[x]
    <3>1. CASE EventMove(w)
      BY <3>1 DEF EventMove, TypeOK, DbTypeOK, Jobs
    <3>2. CASE EventDone(w)
      BY <3>2 DEF EventDone, TypeOK, DbTypeOK, Jobs
    <3>3. CASE EventAbort(w)
      BY <2>2, <3>3 DEF EventAbort, IdleJob, NoRows, TypeOK, DbTypeOK, Jobs
    <3> QED BY <1>3, <3>1, <3>2, <3>3
  <2>3. CopiesFollow'
    BY <2>1, <2>2 DEF SessionInv, CopiesFollow
  <2> QED BY <2>1, <2>3 DEF SessionInv, RowsFollow, UpOnline, FormFollows, LedgerExact
<1>4. ASSUME NEW uid \in Uid, EventMoveRow(w, uid)
      PROVE  SessionInv'
  <2>1. /\ sess[uid] = "lost" /\ online' = [online EXCEPT ![uid] = NoRow]
        /\ UNCHANGED <<now, form, sess, used, contact>>
    BY <1>4, MoveInserts DEF EventMoveRow, nasVars
  <2>2. PICK r \in OfflineRow : r.uid = uid /\ r.octets <= used[uid] /\ offline' = offline \cup {r}
    BY <1>4, MoveInserts
  <2>3. ASSUME NEW v \in Worker, NEW x \in Uid, job'[v].temp[x] # NoRow
        PROVE  job'[v].temp[x] = job[v].temp[x]
    BY <1>4, <2>3 DEF EventMoveRow, TypeOK, DbTypeOK, Jobs
  <2>4. RowsFollow' /\ UpOnline' /\ FormFollows'
    BY <2>1 DEF SessionInv, RowsFollow, UpOnline, FormFollows, TypeOK, DbTypeOK
  <2>5. CopiesFollow'
    BY <2>1, <2>3 DEF SessionInv, CopiesFollow
  <2>6. LedgerExact'
    BY <2>1, <2>2 DEF SessionInv, LedgerExact
  <2> QED BY <2>4, <2>5, <2>6 DEF SessionInv
<1> QED BY <1>1, <1>2, <1>3, <1>4 DEF EventStep

LEMMA OnlineUserSession ==
    ASSUME TypeOK, SessionInv, UNCHANGED nasVars,
           KickUnauthorised \/ UpdateOnlineUser \/ \E uid \in Uid : ReadOnlineUser(uid)
    PROVE  SessionInv'
<1>1. UNCHANGED <<now, offline, job, sess, used, contact>>
  BY DEF KickUnauthorised, UpdateOnlineUser, ReadOnlineUser, nasVars, tables
<1>2. CopiesFollow' /\ LedgerExact'
  BY <1>1 DEF SessionInv, CopiesFollow, LedgerExact
<1>3. CASE KickUnauthorised
  <2>1. \A x \in Uid : online[x] # NoRow =>
           /\ online'[x] # NoRow
           /\ online'[x].octets = online[x].octets
           /\ online'[x].stop = online[x].stop
           /\ online'[x].upd = online[x].upd \/ online'[x].upd = now
    <3>1. ASSUME NEW x \in Uid, online[x] # NoRow
          PROVE  [online[x] EXCEPT !.kickme = TRUE, !.upd = now] \in OnlineRow
      BY <3>1 DEF TypeOK, DbTypeOK, OnlineRow
    <3> QED BY <1>3, <3>1, NoRowAssumption DEF KickUnauthorised, Present, TypeOK, DbTypeOK, OnlineRow
  <2>2. \A x \in Uid : online[x] = NoRow => online'[x] = NoRow
    BY <1>3 DEF KickUnauthorised, Present
  <2>3. RowsFollow'
    BY <1>1, <2>1, <2>2, SessionNumbers DEF SessionInv, RowsFollow
  <2>4. UpOnline'
    BY <1>1, <2>1, SessionNumbers DEF SessionInv, UpOnline, RowsFollow, TypeOK, DbTypeOK, OnlineRow
  <2>5. FormFollows'
    BY <1>1, <1>3 DEF KickUnauthorised, SessionInv, FormFollows
  <2> QED BY <1>2, <2>3, <2>4, <2>5 DEF SessionInv
<1>4. ASSUME NEW uid \in Uid, ReadOnlineUser(uid)
      PROVE  SessionInv'
  <2>1. UNCHANGED online /\ online[uid] # NoRow /\ online[uid].stop = Null
        /\ form' = [uid |-> uid, row |-> online[uid]]
    BY <1>4 DEF ReadOnlineUser, Present, tables
  <2>2. FormFollows'
    BY <1>1, <2>1 DEF SessionInv, RowsFollow, FormFollows
  <2> QED BY <1>1, <1>2, <2>1, <2>2 DEF SessionInv, RowsFollow, UpOnline
<1>5. CASE UpdateOnlineUser
  <2>1. form \in Forms /\ form # NoRow /\ form' = NoRow
    BY <1>5, FormWritesOwn DEF UpdateOnlineUser
  <2>2. FormFollows'
    BY <2>1 DEF FormFollows
  <2>3. CASE UNCHANGED online
    BY <1>1, <1>2, <2>2, <2>3 DEF SessionInv, RowsFollow, UpOnline
  <2> DEFINE row == [form.row EXCEPT !.id = online[form.uid].id, !.upd = now, !.kickme = TRUE]
  <2>4. CASE online[form.uid] # NoRow /\ online' = [online EXCEPT ![form.uid] = row]
    <3>1. form.uid \in Uid /\ row \in OnlineRow
      BY <2>1, <2>4 DEF Forms, OnlineRow, TypeOK, DbTypeOK
    <3>2. row # NoRow /\ row.upd = now /\ row.octets <= used[form.uid] /\ row.stop = Null
      BY <2>1, <3>1, NoRowAssumption DEF SessionInv, FormFollows, Forms, OnlineRow
    <3> HIDE DEF row
    <3>3. RowsFollow'
      BY <1>1, <2>4, <3>1, <3>2, SessionNumbers DEF SessionInv, RowsFollow, TypeOK, DbTypeOK
    <3>4. UpOnline'
      BY <1>1, <2>4, <3>1, <3>2, SessionNumbers
         DEF SessionInv, UpOnline, RowsFollow, TypeOK, DbTypeOK, OnlineRow
    <3> QED BY <1>2, <2>2, <3>3, <3>4 DEF SessionInv
  <2> QED BY <1>5, <2>3, <2>4, FormWritesOwn
<1> QED BY <1>3, <1>4, <1>5

LEMMA TickSession ==
    ASSUME TypeOK, SessionInv, Tick
    PROVE  SessionInv'
<1>1. /\ now' = now + 1
      /\ \A x \in Uid : sess[x] = "up" => now + 1 - contact[x] <= Interval
      /\ UNCHANGED <<online, offline, job, form, sess, used, contact>>
  BY DEF Tick, DbTick, tables, nasVars
<1>2. RowsFollow'
  BY <1>1 DEF SessionInv, RowsFollow, TypeOK, DbTypeOK, OnlineRow
<1>3. UpOnline'
  BY <1>1 DEF SessionInv, UpOnline, TypeOK, DbTypeOK
<1>4. CopiesFollow' /\ FormFollows' /\ LedgerExact'
  BY <1>1 DEF SessionInv, CopiesFollow, FormFollows, LedgerExact
<1> QED BY <1>2, <1>3, <1>4 DEF SessionInv

\* Tables, copies and forms follow the sessions at the NASes.
THEOREM SessionsFollowed == Spec => []SessionInv
<1>1. Init => SessionInv
  BY DEF Init, DbInit, IdleJob, NoRows, SessionInv, RowsFollow, UpOnline, CopiesFollow,
         FormFollows, LedgerExact
<1>2. TypeOK /\ SessionInv /\ [Next]_vars => SessionInv'
  <2> SUFFICES ASSUME TypeOK, SessionInv, [Next]_vars
               PROVE  SessionInv'
    OBVIOUS
  <2>1. ASSUME NEW w \in Worker, EventStep(w), UNCHANGED nasVars
        PROVE  SessionInv'
    BY <2>1, EventSession
  <2>2. CASE /\ KickUnauthorised \/ UpdateOnlineUser \/ \E uid \in Uid : ReadOnlineUser(uid)
             /\ UNCHANGED nasVars
    BY <2>2, OnlineUserSession
  <2>3. CASE UNCHANGED <<now, tables, job, form, nasVars>>
    BY <2>3 DEF tables, nasVars, SessionInv, RowsFollow, UpOnline, CopiesFollow, FormFollows, LedgerExact
  <2>4. ASSUME NEW u \in User, SetBlocked(u), UNCHANGED nasVars
        PROVE  SessionInv'
    BY <2>3, <2>4 DEF SetBlocked
  <2>5. ASSUME NEW uid \in Uid,
               Login(uid) \/ Traffic(uid) \/ Interim(uid) \/ Logoff(uid) \/ CoaDisconnect(uid)
        PROVE  SessionInv'
    BY <2>5, LoginSession, TrafficSession, InterimSession, EndSession DEF Logoff, CoaDisconnect
  <2>6. CASE CoaRead \/ \E uid \in Uid : CoaMiss(uid)
    BY <2>6 DEF CoaRead, CoaMiss, dbVars, tables, SessionInv, RowsFollow, UpOnline, CopiesFollow,
                FormFollows, LedgerExact
  <2>7. ASSUME NEW nas \in Nas, Reboot(nas)
        PROVE  SessionInv'
    BY <2>7, RebootSession
  <2>8. CASE Tick
    BY <2>8, TickSession
  <2>9. CASE UNCHANGED vars
    BY <2>3, <2>9 DEF vars, dbVars
  <2> QED BY <2>1, <2>2, <2>4, <2>5, <2>6, <2>7, <2>8, <2>9 DEF Next
<1> QED BY <1>1, <1>2, TypeCorrect, PTL DEF Spec

\* A session that ended with a Stop is in the ledger with exactly what the NAS
\* counted, and nothing is in the ledger that still goes on or that was billed
\* beyond its use, however many executions of event_of_minute overlap, the
\* operators write late forms, restarts are swept and kicks are repeated.
THEOREM LedgerIsExact == Spec => []LedgerExact
<1>1. SessionInv => LedgerExact
  BY DEF SessionInv
<1> QED BY <1>1, SessionsFollowed, PTL

\* The stale-session sweep never takes a live session, provided the interim
\* interval is no longer than the sweep's timeout.
THEOREM LiveStayOnline == Spec => []LiveSessionsOnline
<1>1. SessionInv => LiveSessionsOnline
  BY DEF SessionInv, UpOnline, LiveSessionsOnline, Present
<1> QED BY <1>1, SessionsFollowed, PTL

-----------------------------------------------------------------------------
(***************************************************************************)
(* With executions of event_of_minute that do not overlap, a session is in *)
(* one place: online, perhaps with a copy, or in the ledger.               *)
(***************************************************************************)
OneWorker == \A v, w \in Worker : v = w

OnlineOrLedger ==
    \A x \in Uid : online[x] # NoRow => LedgerOf(x) = {}

CopiesOnline ==
    \A w \in Worker, x \in Uid : job[w].temp[x] # NoRow => online[x] # NoRow

PlaceInv == OnlineOrLedger /\ CopiesOnline /\ BilledOnce

LEMMA LoginPlace ==
    ASSUME TypeOK, SessionInv, PlaceInv, NEW uid \in Uid, Login(uid)
    PROVE  PlaceInv'
<1>1. /\ sess[uid] = "new" /\ online' = [online EXCEPT ![uid] = NewOnlineRow(0, 0)]
      /\ UNCHANGED <<offline, job>>
  BY LoginInserts DEF Login
<1>2. NewOnlineRow(0, 0) # NoRow
  <2>1. NewOnlineRow(0, 0) \in OnlineRow
    BY DEF NewOnlineRow, OnlineRow, TypeOK, DbTypeOK
  <2> QED BY <2>1, NoRowAssumption
<1>3. LedgerOf(uid) = {}
  BY <1>1 DEF SessionInv, LedgerExact, LedgerOf
<1> QED BY <1>1, <1>2, <1>3
        DEF PlaceInv, OnlineOrLedger, CopiesOnline, BilledOnce, LedgerOf, TypeOK, DbTypeOK

LEMMA EndPlace ==
    ASSUME TypeOK, SessionInv, PlaceInv, NEW uid \in Uid, End(uid)
    PROVE  PlaceInv'
<1>1. /\ sess[uid] = "up" /\ LedgerOf(uid) = {}
      /\ online' = [online EXCEPT ![uid] = NoRow]
      /\ UNCHANGED job
  BY EndInserts DEF End
<1>2. PICK r \in OfflineRow : r.uid = uid /\ offline' = offline \cup {r}
  BY EndInserts
<1>3. OnlineOrLedger' /\ BilledOnce'
  BY <1>1, <1>2 DEF PlaceInv, OnlineOrLedger, BilledOnce, LedgerOf, TypeOK, DbTypeOK
<1>4. CopiesOnline'
  BY <1>1 DEF PlaceInv, CopiesOnline, SessionInv, CopiesFollow, TypeOK, DbTypeOK
<1> QED BY <1>3, <1>4 DEF PlaceInv

LEMMA MovePlace ==
    ASSUME TypeOK, SessionInv, PlaceInv, OneWorker,
           NEW w \in Worker, NEW uid \in Uid, EventMoveRow(w, uid)
    PROVE  PlaceInv'
<1>1. /\ online' = [online EXCEPT ![uid] = NoRow]
      /\ job' = [job EXCEPT ![w].temp[uid] = NoRow]
      /\ job[w].temp[uid] # NoRow
  BY MoveInserts DEF EventMoveRow, Copied
<1>2. PICK r \in OfflineRow : r.uid = uid /\ offline' = offline \cup {r}
  BY MoveInserts
<1>3. LedgerOf(uid) = {}
  BY <1>1 DEF PlaceInv, OnlineOrLedger, CopiesOnline
<1>4. OnlineOrLedger' /\ BilledOnce'
  BY <1>1, <1>2, <1>3 DEF PlaceInv, OnlineOrLedger, BilledOnce, LedgerOf, TypeOK, DbTypeOK
<1>5. CopiesOnline'
  <2> SUFFICES ASSUME NEW v \in Worker, NEW x \in Uid, job'[v].temp[x] # NoRow
               PROVE  online'[x] # NoRow
    BY DEF CopiesOnline
  <2>1. v = w
    BY DEF OneWorker
  <2>2. x # uid /\ job[v].temp[x] # NoRow
    BY <1>1, <2>1 DEF TypeOK, DbTypeOK, Jobs
  <2> QED BY <1>1, <2>2 DEF PlaceInv, CopiesOnline, TypeOK, DbTypeOK
<1> QED BY <1>4, <1>5 DEF PlaceInv

\* Steps that neither add nor remove a row of the two tables.
LEMMA SameRowsPlace ==
    ASSUME PlaceInv, UNCHANGED offline,
           \A x \in Uid : online'[x] # NoRow <=> online[x] # NoRow,
           \A w \in Worker, x \in Uid :
               job'[w].temp[x] # NoRow => job[w].temp[x] # NoRow \/ online[x] # NoRow
    PROVE  PlaceInv'
BY DEF PlaceInv, OnlineOrLedger, CopiesOnline, BilledOnce, LedgerOf

LEMMA EventPlace ==
    ASSUME TypeOK, SessionInv, PlaceInv, OneWorker, NEW w \in Worker, EventStep(w)
    PROVE  PlaceInv'
<1>1. CASE EventMark(w)
  <2>1. UNCHANGED offline /\ \A v \in Worker : job'[v].temp = job[v].temp
    BY <1>1 DEF EventMark, TypeOK, DbTypeOK, Jobs
  <2>2. ASSUME NEW x \in Uid
        PROVE  online'[x] # NoRow <=> online[x] # NoRow
    <3>1. online[x] # NoRow => [online[x] EXCEPT !.stop = now, !.upd = now] \in OnlineRow
      BY DEF TypeOK, DbTypeOK, OnlineRow
    <3> QED BY <1>1, <3>1, NoRowAssumption DEF EventMark, Present, TypeOK, DbTypeOK
  <2> QED BY <2>1, <2>2, SameRowsPlace
<1>2. CASE EventCopy(w)
  <2>1. UNCHANGED <<online, offline>>
    BY <1>2 DEF EventCopy, tables
  <2>2. ASSUME NEW v \in Worker, NEW x \in Uid, job'[v].temp[x] # NoRow
        PROVE  job[v].temp[x] # NoRow \/ online[x] # NoRow
    BY <1>2, <2>2 DEF EventCopy, Present, TypeOK, DbTypeOK, Jobs
  <2> QED BY <2>1, <2>2, SameRowsPlace
<1>3. CASE EventMove(w)
  <2>1. UNCHANGED <<online, offline>> /\ \A v \in Worker : job'[v].temp = job[v].temp
    BY <1>3 DEF EventMove, tables, TypeOK, DbTypeOK, Jobs
  <2> QED BY <2>1, SameRowsPlace
<1>4. ASSUME NEW uid \in Uid, EventMoveRow(w, uid)
      PROVE  PlaceInv'
  BY <1>4, MovePlace
<1>5. CASE EventDone(w)
  <2>1. UNCHANGED <<online, offline>> /\ \A v \in Worker : job'[v].temp = job[v].temp
    BY <1>5 DEF EventDone, tables, TypeOK, DbTypeOK, Jobs
  <2> QED BY <2>1, SameRowsPlace
<1>6. CASE EventAbort(w)
  <2>1. UNCHANGED <<online, offline>>
    BY <1>6 DEF EventAbort, tables
  <2>2. ASSUME NEW v \in Worker, NEW x \in Uid, job'[v].temp[x] # NoRow
        PROVE  job[v].temp[x] # NoRow
    BY <1>6, <2>2 DEF EventAbort, IdleJob, NoRows, TypeOK, DbTypeOK, Jobs
  <2> QED BY <2>1, <2>2, SameRowsPlace
<1> QED BY <1>1, <1>2, <1>3, <1>4, <1>5, <1>6 DEF EventStep

\* The remaining statements change rows where they are.
LEMMA UpdatePlace ==
    ASSUME TypeOK, SessionInv, PlaceInv,
           \/ KickUnauthorised \/ UpdateOnlineUser \/ \E uid \in Uid : ReadOnlineUser(uid)
           \/ \E uid \in Uid : Interim(uid)
           \/ \E nas \in Nas : Reboot(nas)
    PROVE  PlaceInv'
<1>1. UNCHANGED <<offline, job>>
  BY InterimUpdates DEF KickUnauthorised, UpdateOnlineUser, ReadOnlineUser, Interim, Reboot,
                        HandleAccountingOn, tables
<1>2. SUFFICES ASSUME NEW x \in Uid
               PROVE  online'[x] # NoRow <=> online[x] # NoRow
  BY <1>1, SameRowsPlace
<1> USE NoRowAssumption DEF TypeOK, DbTypeOK
<1>3. CASE KickUnauthorised
  <2>1. online[x] # NoRow => [online[x] EXCEPT !.kickme = TRUE, !.upd = now] \in OnlineRow
    BY DEF OnlineRow
  <2> QED BY <1>3, <2>1 DEF KickUnauthorised, Present
<1>4. CASE UpdateOnlineUser
  <2> DEFINE row == [form.row EXCEPT !.id = online[form.uid].id, !.upd = now, !.kickme = TRUE]
  <2>1. CASE UNCHANGED online
    BY <2>1
  <2>2. CASE online[form.uid] # NoRow /\ online' = [online EXCEPT ![form.uid] = row]
    <3>1. form.uid \in Uid /\ row \in OnlineRow
      BY <1>4, <2>2, FormWritesOwn DEF Forms, OnlineRow
    <3> HIDE DEF row
    <3> QED BY <2>2, <3>1
  <2> QED BY <1>4, <2>1, <2>2, FormWritesOwn
<1>5. ASSUME NEW uid \in Uid, ReadOnlineUser(uid)
      PROVE  online'[x] # NoRow <=> online[x] # NoRow
  BY <1>5 DEF ReadOnlineUser, tables
<1>6. ASSUME NEW uid \in Uid, Interim(uid)
      PROVE  online'[x] # NoRow <=> online[x] # NoRow
  <2> DEFINE row == [online[uid] EXCEPT !.secs = now - begun[uid], !.octets = used[uid], !.upd = now]
  <2>1. online[uid] \in OnlineRow /\ online' = [online EXCEPT ![uid] = row]
    BY <1>6, InterimUpdates
  <2>2. row \in OnlineRow
    BY <2>1, SessionNumbers DEF OnlineRow
  <2> HIDE DEF row
  <2> QED BY <2>1, <2>2
<1>7. ASSUME NEW nas \in Nas, Reboot(nas)
      PROVE  online'[x] # NoRow <=> online[x] # NoRow
  <2>1. ASSUME online[x] # NoRow, online[x].start <= now
        PROVE  [online[x] EXCEPT !.stop = now, !.secs = now - online[x].start, !.upd = now] \in OnlineRow
    <3>1. now - online[x].start \in Nat
      BY <2>1 DEF OnlineRow
    <3> QED BY <2>1, <3>1 DEF OnlineRow
  <2> QED BY <1>7, <2>1 DEF Reboot, HandleAccountingOn, Present
<1> QED BY <1>3, <1>4, <1>5, <1>6, <1>7

\* Whatever the interleaving, one session is in one place.
THEOREM SessionsPlaced == ASSUME OneWorker PROVE Spec => []PlaceInv
<1>1. Init => PlaceInv
  BY DEF Init, DbInit, IdleJob, NoRows, PlaceInv, OnlineOrLedger, CopiesOnline, BilledOnce
<1>2. TypeOK /\ SessionInv /\ PlaceInv /\ [Next]_vars => PlaceInv'
  <2> SUFFICES ASSUME TypeOK, SessionInv, PlaceInv, [Next]_vars
               PROVE  PlaceInv'
    OBVIOUS
  <2>1. ASSUME NEW w \in Worker, EventStep(w)
        PROVE  PlaceInv'
    BY <2>1, EventPlace
  <2>2. CASE \/ KickUnauthorised \/ UpdateOnlineUser \/ \E uid \in Uid : ReadOnlineUser(uid)
             \/ \E uid \in Uid : Interim(uid)
             \/ \E nas \in Nas : Reboot(nas)
    BY <2>2, UpdatePlace
  <2>3. ASSUME NEW uid \in Uid, Login(uid) \/ Logoff(uid) \/ CoaDisconnect(uid)
        PROVE  PlaceInv'
    BY <2>3, LoginPlace, EndPlace DEF Logoff, CoaDisconnect
  <2>4. CASE UNCHANGED <<online, offline, job>>
    BY <2>4, SameRowsPlace
  <2>5. CASE \/ \E u \in User : SetBlocked(u)
             \/ \E uid \in Uid : Traffic(uid) \/ CoaMiss(uid)
             \/ CoaRead \/ Tick \/ UNCHANGED vars
    BY <2>4, <2>5 DEF SetBlocked, Traffic, CoaMiss, CoaRead, Tick, DbTick, vars, dbVars, tables
  <2> QED BY <2>1, <2>2, <2>3, <2>5 DEF Next
<1> QED BY <1>1, <1>2, TypeCorrect, SessionsFollowed, PTL DEF Spec

\* No session is billed twice: neither the sweep, cut off and repeated, nor a
\* kick, nor a form written late brings a session into the ledger again, as
\* long as executions of event_of_minute do not overlap.
THEOREM SessionBilledOnce == ASSUME OneWorker PROVE Spec => []BilledOnce
<1>1. PlaceInv => BilledOnce
  BY DEF PlaceInv
<1> QED BY <1>1, SessionsPlaced, PTL

-----------------------------------------------------------------------------
(***************************************************************************)
(* Refinement of SessionLedger.  A Start opens a session and what puts it  *)
(* into the ledger, a Stop or a row of the sweep, settles it; all else is  *)
(* not visible.                                                            *)
(***************************************************************************)

\* Which sessions are new and which are in the ledger decides the phases.
LEMMA SamePhases ==
    ASSUME TypeOK, UNCHANGED <<offline, used, byte_remain>>,
           \A x \in Uid : sess'[x] = "new" <=> sess[x] = "new"
    PROVE  UNCHANGED Ledger!ledgerVars
<1>1. Phase' = Phase
  BY DEF Phase, LedgerOf
<1> QED BY <1>1 DEF Ledger!ledgerVars

LEMMA LoginOpens ==
    ASSUME TypeOK, SessionInv, NEW uid \in Uid, Login(uid)
    PROVE  Ledger!Open(uid)
<1>1. /\ sess[uid] = "new" /\ sess' = [sess EXCEPT ![uid] = "up"]
      /\ UNCHANGED <<offline, used, byte_remain>>
  BY LoginInserts DEF Login
<1>2. LedgerOf(uid) = {}
  BY <1>1 DEF SessionInv, LedgerExact, LedgerOf
<1>3. Phase[uid] = "new"
  BY <1>1, <1>2 DEF Phase
<1>4. Phase' = [Phase EXCEPT ![uid] = "open"]
  BY <1>1, <1>2 DEF Phase, LedgerOf, TypeOK
<1> QED BY <1>1, <1>3, <1>4 DEF Ledger!Open

LEMMA TrafficUses ==
    ASSUME TypeOK, SessionInv, NEW uid \in Uid, Traffic(uid)
    PROVE  Ledger!Use(uid)
<1>1. /\ sess[uid] = "up" /\ used' = [used EXCEPT ![uid] = used[uid] + 1]
      /\ UNCHANGED <<offline, sess, byte_remain>>
  BY DEF Traffic, dbVars, tables
<1>2. LedgerOf(uid) = {}
  BY <1>1 DEF SessionInv, LedgerExact, LedgerOf
<1>3. Phase[uid] = "open"
  BY <1>1, <1>2 DEF Phase
<1>4. Phase' = Phase
  BY <1>1 DEF Phase, LedgerOf
<1> QED BY <1>1, <1>3, <1>4 DEF Ledger!Use

\* A row for uid, the first, with no more than it used.
LEMMA RowSettles ==
    ASSUME TypeOK, NEW uid \in Uid, sess[uid] # "new", LedgerOf(uid) = {},
           NEW r \in OfflineRow, r.uid = uid, r.octets <= used[uid],
           offline' = offline \cup {r},
           byte_remain' = Debit(byte_remain, UserOf[uid], r.octets),
           UNCHANGED used,
           \A x \in Uid : x # uid => (sess'[x] = "new" <=> sess[x] = "new")
    PROVE  Ledger!Settle(uid)
<1>1. Phase[uid] = "open"
  BY DEF Phase
<1>2. Phase' = [Phase EXCEPT ![uid] = "settled"]
  <2>1. ASSUME NEW x \in Uid, x # uid
        PROVE  LedgerOf(x)' = LedgerOf(x)
    BY <2>1 DEF LedgerOf
  <2>2. LedgerOf(uid)' # {}
    BY DEF LedgerOf
  <2> QED BY <2>1, <2>2 DEF Phase
<1>3. r.octets \in 0..used[uid]
  BY SessionNumbers DEF OfflineRow
<1> QED BY <1>1, <1>2, <1>3 DEF Ledger!Settle, Debit

LEMMA EndSettles ==
    ASSUME TypeOK, SessionInv, NEW uid \in Uid, End(uid)
    PROVE  Ledger!Settle(uid)
<1>1. /\ sess[uid] = "up" /\ LedgerOf(uid) = {} /\ UNCHANGED used
      /\ sess' = [sess EXCEPT ![uid] = "down"]
  BY EndInserts DEF End
<1>2. PICK r \in OfflineRow : r.uid = uid /\ r.octets = used[uid] /\ offline' = offline \cup {r}
  BY EndInserts
<1>3. byte_remain' = Debit(byte_remain, UserOf[uid], r.octets)
  BY <1>2, EndInserts
<1>4. r.octets <= used[uid]
  BY <1>2, SessionNumbers
<1>5. \A x \in Uid : x # uid => (sess'[x] = "new" <=> sess[x] = "new")
  BY <1>1 DEF TypeOK
<1> QED BY <1>1, <1>2, <1>3, <1>4, <1>5, RowSettles

LEMMA MoveSettles ==
    ASSUME TypeOK, SessionInv, PlaceInv, NEW w \in Worker, NEW uid \in Uid,
           EventMoveRow(w, uid), UNCHANGED nasVars
    PROVE  Ledger!Settle(uid)
<1>1. sess[uid] = "lost" /\ UNCHANGED <<sess, used>>
  BY MoveInserts DEF nasVars
<1>2. LedgerOf(uid) = {}
  BY DEF EventMoveRow, Copied, PlaceInv, OnlineOrLedger, CopiesOnline
<1>3. PICK r \in OfflineRow : /\ r.uid = uid
                              /\ r.octets <= used[uid]
                              /\ byte_remain' = Debit(byte_remain, UserOf[uid], r.octets)
                              /\ offline' = offline \cup {r}
  BY MoveInserts
<1> QED BY <1>1, <1>2, <1>3, RowSettles

\* Packets, triggers, sweeps, restarts, kicks and forms together do what
\* SessionLedger says: every session is opened, uses octets and is settled
\* once, for no more than it used, and nothing else changes a balance.
THEOREM TablesImplementLedger == ASSUME OneWorker PROVE Spec => LedgerSpec
<1>1. Init => Ledger!Init
  <2> SUFFICES ASSUME Init
               PROVE  Ledger!Init
    OBVIOUS
  <2>1. Phase = [x \in Uid |-> "new"]
    BY DEF Init, DbInit, Phase, LedgerOf
  <2> QED BY <2>1 DEF Init, DbInit, Ledger!Init
<1>2. TypeOK /\ SessionInv /\ PlaceInv /\ [Next]_vars => [Ledger!Next]_(Ledger!ledgerVars)
  <2> SUFFICES ASSUME TypeOK, SessionInv, PlaceInv, [Next]_vars
               PROVE  Ledger!Next \/ UNCHANGED Ledger!ledgerVars
    OBVIOUS
  <2>1. ASSUME NEW w \in Worker, EventStep(w), UNCHANGED nasVars
        PROVE  Ledger!Next \/ UNCHANGED Ledger!ledgerVars
    <3>1. ASSUME NEW uid \in Uid, EventMoveRow(w, uid)
          PROVE  Ledger!Next
      BY <2>1, <3>1, MoveSettles DEF Ledger!Next
    <3>2. CASE EventMark(w) \/ EventCopy(w) \/ EventMove(w) \/ EventDone(w) \/ EventAbort(w)
      <4>1. UNCHANGED <<offline, byte_remain, used, sess>>
        BY <2>1, <3>2 DEF EventMark, EventCopy, EventMove, EventDone, EventAbort, tables, nasVars
      <4> QED BY <4>1, SamePhases
    <3> QED BY <2>1, <3>1, <3>2 DEF EventStep
  <2>2. ASSUME NEW uid \in Uid,
               Login(uid) \/ Traffic(uid) \/ Logoff(uid) \/ CoaDisconnect(uid)
        PROVE  Ledger!Next
    BY <2>2, LoginOpens, TrafficUses, EndSettles DEF Logoff, CoaDisconnect, Ledger!Next
  <2>3. CASE UNCHANGED <<offline, byte_remain, used, sess>>
    BY <2>3, SamePhases
  <2>4. ASSUME NEW uid \in Uid, Interim(uid)
        PROVE  UNCHANGED <<offline, byte_remain, used, sess>>
    BY <2>4, InterimUpdates DEF Interim
  <2>5. ASSUME NEW nas \in Nas, Reboot(nas)
        PROVE  UNCHANGED Ledger!ledgerVars
    <3>1. UNCHANGED <<offline, byte_remain, used>>
      BY <2>5 DEF Reboot, HandleAccountingOn
    <3>2. \A x \in Uid : sess'[x] = "new" <=> sess[x] = "new"
      BY <2>5 DEF Reboot
    <3> QED BY <3>1, <3>2, SamePhases
  <2>6. CASE /\ \/ KickUnauthorised \/ UpdateOnlineUser
                \/ \E uid \in Uid : ReadOnlineUser(uid)
                \/ \E u \in User : SetBlocked(u)
             /\ UNCHANGED nasVars
    BY <2>3, <2>6 DEF KickUnauthorised, UpdateOnlineUser, ReadOnlineUser, SetBlocked, tables, nasVars
  <2>7. CASE CoaRead \/ Tick \/ UNCHANGED vars \/ \E uid \in Uid : CoaMiss(uid)
    BY <2>3, <2>7 DEF CoaRead, Tick, DbTick, CoaMiss, vars, dbVars, tables, nasVars
  <2> QED BY <2>1, <2>2, <2>3, <2>4, <2>5, <2>6, <2>7 DEF Next
<1> QED BY <1>1, <1>2, TypeCorrect, SessionsFollowed, SessionsPlaced, PTL
        DEF Spec, LedgerSpec, Ledger!Spec

-----------------------------------------------------------------------------
(***************************************************************************)
(* The quota.  The sum over the ledger needs the ledger to be finite.      *)
(***************************************************************************)
QuotaSum ==
    \A u \in User : byte_remain[u] > 0 =>
        ByteGrant[u] - byte_remain[u] = Octets({r \in offline : UserOf[r.uid] = u})

QuotaInv == IsFiniteSet(offline) /\ QuotaSum

\* A row of uid, its first, is charged with its octets.
LEMMA RowCharged ==
    ASSUME TypeOK, QuotaInv, NEW uid \in Uid, LedgerOf(uid) = {},
           NEW r \in OfflineRow, r.uid = uid, offline' = offline \cup {r},
           byte_remain' = Debit(byte_remain, UserOf[uid], r.octets)
    PROVE  QuotaInv'
<1>1. r \notin offline /\ r.octets \in Nat /\ UserOf[uid] \in User
  BY SessionAssumption DEF LedgerOf, OfflineRow
<1>2. IsFiniteSet(offline')
  BY FS_AddElement DEF QuotaInv
<1> DEFINE mine(u) == {q \in offline : UserOf[q.uid] = u}
<1>3. ASSUME NEW u \in User, byte_remain'[u] > 0
      PROVE  ByteGrant[u] - byte_remain'[u] = Octets({q \in offline' : UserOf[q.uid] = u})
  <2>1. byte_remain[u] \in Int /\ ByteGrant[u] \in Int
    BY SessionAssumption DEF TypeOK, DbTypeOK
  <2>2. IsFiniteSet(mine(u)) /\ \A q \in mine(u) : q.octets \in Nat
    BY FS_Subset DEF QuotaInv, TypeOK, DbTypeOK, OfflineRow
  <2>3. byte_remain[u] > 0 => ByteGrant[u] - byte_remain[u] = Octets(mine(u))
    BY DEF QuotaInv, QuotaSum
  <2>4. CASE u = UserOf[uid]
    <3>1. byte_remain[u] > 0 /\ byte_remain'[u] = byte_remain[u] - r.octets
      BY <1>1, <1>3, <2>1, <2>4 DEF Debit, TypeOK, DbTypeOK
    <3>2. {q \in offline' : UserOf[q.uid] = u} = mine(u) \cup {r} /\ r \notin mine(u)
      BY <1>1, <2>4
    <3> HIDE DEF mine
    <3>3. /\ Octets(mine(u)) \in Nat
          /\ Octets(mine(u) \cup {r}) = Octets(mine(u)) + r.octets
      BY <1>1, <2>2, <3>2, OctetsAdd
    <3>4. ByteGrant[u] - byte_remain'[u] = Octets(mine(u)) + r.octets
      BY <1>1, <2>1, <2>3, <3>1, <3>3
    <3> QED BY <3>2, <3>3, <3>4
  <2>5. CASE u # UserOf[uid]
    <3>1. byte_remain'[u] = byte_remain[u]
      BY <2>5 DEF Debit, TypeOK, DbTypeOK
    <3>2. {q \in offline' : UserOf[q.uid] = u} = mine(u)
      BY <2>5
    <3> QED BY <1>3, <2>3, <3>1, <3>2
  <2> QED BY <2>4, <2>5
<1> QED BY <1>2, <1>3 DEF QuotaInv, QuotaSum

\* As long as a quota lasts, what is left of it is what was bought less what
\* the ledger says, to the octet: no Stop, sweep, kick or late form charges
\* anything twice, and none goes uncharged.
THEOREM QuotaIsExact == ASSUME OneWorker PROVE Spec => []QuotaExact
<1>1. Init => QuotaInv
  <2> SUFFICES ASSUME Init
               PROVE  QuotaInv
    OBVIOUS
  <2>1. offline = {} /\ byte_remain = ByteGrant
    BY DEF Init, DbInit
  <2>2. \A u \in User : {r \in offline : UserOf[r.uid] = u} = {}
    BY <2>1
  <2>3. \A u \in User : ByteGrant[u] - byte_remain[u] = 0
    BY <2>1, SessionAssumption
  <2>4. \A u \in User :
           ByteGrant[u] - byte_remain[u] = Octets({r \in offline : UserOf[r.uid] = u})
    BY <2>2, <2>3, OctetsEmpty
  <2> QED BY <2>1, <2>4, FS_EmptySet DEF QuotaInv, QuotaSum
<1>2. TypeOK /\ SessionInv /\ PlaceInv /\ QuotaInv /\ [Next]_vars => QuotaInv'
  <2> SUFFICES ASSUME TypeOK, SessionInv, PlaceInv, QuotaInv, [Next]_vars
               PROVE  QuotaInv'
    OBVIOUS
  <2>1. CASE UNCHANGED <<offline, byte_remain>>
    BY <2>1 DEF QuotaInv, QuotaSum
  <2>2. ASSUME NEW w \in Worker, NEW uid \in Uid, EventMoveRow(w, uid)
        PROVE  QuotaInv'
    <3>1. LedgerOf(uid) = {}
      BY <2>2 DEF EventMoveRow, Copied, PlaceInv, OnlineOrLedger, CopiesOnline
    <3> QED BY <2>2, <3>1, MoveInserts, RowCharged
  <2>3. ASSUME NEW w \in Worker,
               EventMark(w) \/ EventCopy(w) \/ EventMove(w) \/ EventDone(w) \/ EventAbort(w)
        PROVE  UNCHANGED <<offline, byte_remain>>
    BY <2>3 DEF EventMark, EventCopy, EventMove, EventDone, EventAbort, tables
  <2>4. ASSUME NEW uid \in Uid, Logoff(uid) \/ CoaDisconnect(uid)
        PROVE  QuotaInv'
    <3>1. End(uid)
      BY <2>4 DEF Logoff, CoaDisconnect
    <3>2. PICK r \in OfflineRow : r.uid = uid /\ r.octets = used[uid] /\ offline' = offline \cup {r}
      BY <3>1, EndInserts
    <3>3. LedgerOf(uid) = {} /\ byte_remain' = Debit(byte_remain, UserOf[uid], r.octets)
      BY <3>1, <3>2, EndInserts
    <3> QED BY <3>2, <3>3, RowCharged
  <2>5. ASSUME NEW uid \in Uid, Login(uid) \/ Interim(uid) \/ Traffic(uid) \/ CoaMiss(uid)
        PROVE  UNCHANGED <<offline, byte_remain>>
    BY <2>5, LoginInserts, InterimUpdates DEF Traffic, CoaMiss, dbVars, tables
  <2>6. ASSUME NEW nas \in Nas, Reboot(nas)
        PROVE  UNCHANGED <<offline, byte_remain>>
    BY <2>6 DEF Reboot, HandleAccountingOn
  <2>7. CASE \/ KickUnauthorised \/ UpdateOnlineUser \/ CoaRead \/ Tick \/ UNCHANGED vars
             \/ \E uid \in Uid : ReadOnlineUser(uid)
             \/ \E u \in User : SetBlocked(u)
    BY <2>1, <2>7 DEF KickUnauthorised, UpdateOnlineUser, ReadOnlineUser, SetBlocked, CoaRead,
                      Tick, DbTick, vars, dbVars, tables
  <2> QED BY <2>1, <2>2, <2>3, <2>4, <2>5, <2>6, <2>7 DEF Next, EventStep
<1>3. QuotaInv => QuotaExact
  BY DEF QuotaInv, QuotaSum, QuotaExact, Octets
<1> QED BY <1>1, <1>2, <1>3, TypeCorrect, SessionsFollowed, SessionsPlaced, PTL DEF Spec
=============================================================================
