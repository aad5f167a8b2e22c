-------------------------- MODULE AccountingLossy --------------------------
(***************************************************************************)
(* The session database behind an unreliable network.                      *)
(*                                                                         *)
(* A NAS sends accounting packets over UDP and retransmits them, through   *)
(* another radius container if it likes, so a packet may be lost, arrive   *)
(* late, out of order or more than once; nothing in the configuration or   *)
(* in the database tells a repetition from a first arrival.  Every packet  *)
(* carries the Event-Timestamp of its sending.                             *)
(***************************************************************************)
EXTENDS SessionDb, FiniteSetsExt

CONSTANTS
    MaxOctets,      \* bound: most octets one session counts
    MaxId,          \* bound: rows ever inserted into online_user
    MaxTime,        \* bound: last second of a behaviour
    Horizon,        \* bound: last second with traffic, operators or packets
    MaxPackets      \* bound: different packets ever sent

ASSUME LossyAssumption ==
    /\ MaxOctets \in Nat
    /\ MaxId \in Nat
    /\ MaxTime \in Nat
    /\ Horizon \in Nat
    /\ MaxPackets \in Nat

VARIABLES
    sess,           \* at the NAS: a session is new, up or down
    used,           \* octets counted by the NAS
    begun,          \* when the NAS started the session
    net             \* packets sent so far

nasVars == <<sess, used, begun, net>>
vars == <<dbVars, nasVars>>

SessionPacket ==
    [type : {"Start", "Interim", "Stop"}, uid : Uid, secs : Nat, octets : 0..MaxOctets, ts : Nat]
NasPacket == [type : {"On"}, nas : Nas, ts : Nat]

TypeOK ==
    /\ DbTypeOK
    /\ sess \in [Uid -> {"new", "up", "down"}]
    /\ used \in [Uid -> 0..MaxOctets]
    /\ begun \in [Uid -> 0..now]
    /\ net \subseteq SessionPacket \cup NasPacket

Init ==
    /\ DbInit
    /\ sess = [x \in Uid |-> "new"]
    /\ used = [x \in Uid |-> 0]
    /\ begun = [x \in Uid |-> 0]
    /\ net = {}

Busy == Unlocked /\ now <= Horizon

Send(p) ==
    /\ Cardinality(net) < MaxPackets \/ p \in net
    /\ net' = net \cup {p}

Packet(type, uid) ==
    [type |-> type, uid |-> uid, secs |-> now - begun[uid], octets |-> used[uid], ts |-> now]

-----------------------------------------------------------------------------
(***************************************************************************)
(* The NAS.                                                                *)
(***************************************************************************)

\* Access-Accept for an authorised account, then Accounting-Start.
NasLogin(uid) ==
    /\ Busy
    /\ sess[uid] = "new"
    /\ Authorised(UserOf[uid])
    /\ sess' = [sess EXCEPT ![uid] = "up"]
    /\ begun' = [begun EXCEPT ![uid] = now]
    /\ Send([type |-> "Start", uid |-> uid, secs |-> 0, octets |-> 0, ts |-> now])
    /\ UNCHANGED <<dbVars, used>>

NasTraffic(uid) ==
    /\ Busy
    /\ sess[uid] = "up"
    /\ used[uid] < MaxOctets
    /\ used' = [used EXCEPT ![uid] = used[uid] + 1]
    /\ UNCHANGED <<dbVars, sess, begun, net>>

NasInterim(uid) ==
    /\ Busy
    /\ sess[uid] = "up"
    /\ Send(Packet("Interim", uid))
    /\ UNCHANGED <<dbVars, sess, used, begun>>

\* The subscriber leaves, or a Disconnect-Request of coa.sh arrives.
NasLogoff(uid) ==
    /\ Busy
    /\ sess[uid] = "up"
    /\ sess' = [sess EXCEPT ![uid] = "down"]
    /\ Send(Packet("Stop", uid))
    /\ UNCHANGED <<dbVars, used, begun>>

\* A restart: the sessions end without a Stop, and the NAS announces itself.
NasReboot(nas) ==
    /\ Busy
    /\ sess' = [x \in Uid |-> IF NasOf[x] = nas /\ sess[x] = "up" THEN "down" ELSE sess[x]]
    /\ Send([type |-> "On", nas |-> nas, ts |-> now])
    /\ UNCHANGED <<dbVars, used, begun>>

-----------------------------------------------------------------------------
(***************************************************************************)
(* Packets reach FreeRADIUS.  They stay in net: any of them may come again. *)
(***************************************************************************)
Deliver(p) ==
    /\ Busy
    /\ \/ p.type = "Start" /\ next_id <= MaxId /\ HandleStart(p.uid, p.ts)
       \/ p.type = "Interim" /\ next_id <= MaxId /\ HandleInterim(p.uid, p.secs, p.octets)
       \/ p.type = "Stop" /\ HandleStop(p.uid, p.secs, p.octets)
       \/ p.type = "On" /\ HandleAccountingOn(p.nas, p.ts)
    /\ UNCHANGED <<now, blocked, job, form, nasVars>>

-----------------------------------------------------------------------------
Tick ==
    /\ now < MaxTime
    /\ DbTick
    /\ UNCHANGED nasVars

Next ==
    \/ \E w \in Worker : EventStep(w) /\ UNCHANGED nasVars
    \/ /\ Busy
       /\ \/ KickUnauthorised
          \/ \E uid \in Uid : ReadOnlineUser(uid)
          \/ UpdateOnlineUser
       /\ UNCHANGED nasVars
    \/ \E uid \in Uid :
        \/ NasLogin(uid)
        \/ NasTraffic(uid)
        \/ NasInterim(uid)
        \/ NasLogoff(uid)
    \/ \E nas \in Nas : NasReboot(nas)
    \/ \E p \in net : Deliver(p)
    \/ Tick

Spec == Init /\ [][Next]_vars

-----------------------------------------------------------------------------
(***************************************************************************)
(* Properties.                                                             *)
(***************************************************************************)

\* However often its sessions are billed, a byte quota is overdrawn by less
\* than one session's octets: the triggers stop charging at zero.
OvershootBounded ==
    \A u \in User : byte_remain[u] >= 0 \/ byte_remain[u] > -MaxOctets

\* The sweep moves one online row (one radacctid) to the ledger at most once,
\* although it copies first and inserts later, may be cut off between the two
\* and starts over, and packets re-create rows meanwhile.
SweptOnce ==
    \A r, q \in offline : r.id # 0 /\ r.id = q.id => r = q

\* While a quota lasts, everything in the ledger has been charged to it:
\* repeated, reordered and late packets may charge too much, never too little.
LedgerCovered ==
    \A u \in User : byte_remain[u] > 0 =>
        LET mine == {r \in offline : UserOf[r.uid] = u}
        IN  ByteGrant[u] - byte_remain[u] >= MapThenSumSet(LAMBDA r : r.octets, mine)

OneWorker == \A v, w \in Worker : v = w

\* Whatever the triggers do to sessions that share an Acct-Session-Id, and whether
\* or not executions of event_of_minute overlap, what is in the ledger was charged
\* and a quota is overdrawn by less than a session; a row is swept once unless
\* executions overlap.
StillRecorded == LedgerCovered /\ OvershootBounded /\ (OneWorker => SweptOnce)

\* A row leaves online_user only in a statement that stamps a ledger row for
\* the same user and Acct-Session-Id, or that overwrites it from a form of the
\* web UI for such a session.
RemovalRecorded ==
    [][\A x \in Uid : Present(x) /\ ~Present(x)' =>
        \E y \in Uid : /\ SameSession(x, y)
                       /\ \/ \E r \in offline' : r.uid = y /\ r.stop = now
                          \/ form # NoRow /\ form.uid = y /\ Present(y)']_vars

\* "The update condition matched no existing sessions.  Use the values provided
\* in the update to create a new session" (queries.conf, stop): a Stop makes a
\* ledger row only for a session that has none yet.
StopCreatesOnlyNewSessions ==
    \A r, q \in offline : r.id = 0 /\ q.id = 0 /\ r.uid = q.uid => r = q
=============================================================================
