-------------------------- MODULE AccountingTimely --------------------------
(***************************************************************************)
(* The session database when the network behaves: every accounting packet  *)
(* is processed once, in order and when it is sent, Acct-Session-Ids are   *)
(* not reused, and every live session sends an Interim-Update at least     *)
(* every Interval seconds (Acct-Interim-Interval).  NAS restarts, cut off  *)
(* events, stale forms of the web UI and lost Disconnect-Requests remain.  *)
(*                                                                         *)
(* Here the system has to be exact: AccountingLossy shows what is left of  *)
(* that without these assumptions.                                         *)
(***************************************************************************)
EXTENDS SessionDb, FiniteSetsExt

CONSTANTS
    Interval,       \* longest pause between two packets of a live session
    MaxOctets,      \* bound: most octets one session counts
    MaxTime,        \* bound: last second of a behaviour
    Horizon         \* bound: last second with operators, logins and restarts

ASSUME TimelyAssumption ==
    /\ Interval \in Nat
    /\ Interval <= StaleAfter
    /\ MaxOctets \in Nat
    /\ MaxTime \in Nat
    /\ Horizon \in Nat
    /\ \A x, y \in Uid : SidOf[x] = SidOf[y] => x = y

VARIABLES
    sess,           \* at the NAS: new, up, down (after a Stop), lost (in a restart)
    used,           \* octets counted by the NAS
    begun,          \* when the NAS started the session
    contact,        \* when the last packet of the session was processed
    coa             \* sqlresult.coa: the sessions coa.sh has yet to disconnect

nasVars == <<sess, used, begun, contact, coa>>
vars == <<dbVars, nasVars>>

TypeOK ==
    /\ DbTypeOK
    /\ sess \in [Uid -> {"new", "up", "down", "lost"}]
    /\ used \in [Uid -> 0..MaxOctets]
    /\ begun \in [Uid -> 0..now]
    /\ contact \in [Uid -> Nat]
    /\ coa \subseteq Uid

Init ==
    /\ DbInit
    /\ sess = [x \in Uid |-> "new"]
    /\ used = [x \in Uid |-> 0]
    /\ begun = [x \in Uid |-> 0]
    /\ contact = [x \in Uid |-> 0]
    /\ coa = {}

Busy == now <= Horizon

-----------------------------------------------------------------------------
(***************************************************************************)
(* Sessions.  The NAS and the server act in one step.                      *)
(***************************************************************************)
Login(uid) ==
    /\ Busy
    /\ Unlocked
    /\ sess[uid] = "new"
    /\ Authorised(UserOf[uid])
    /\ HandleStart(uid, now)
    /\ sess' = [sess EXCEPT ![uid] = "up"]
    /\ begun' = [begun EXCEPT ![uid] = now]
    /\ contact' = [contact EXCEPT ![uid] = now]
    /\ UNCHANGED <<now, blocked, job, form, used, coa>>

Traffic(uid) ==
    /\ sess[uid] = "up"
    /\ used[uid] < MaxOctets
    /\ used' = [used EXCEPT ![uid] = used[uid] + 1]
    /\ UNCHANGED <<dbVars, sess, begun, contact, coa>>

Interim(uid) ==
    /\ Unlocked
    /\ sess[uid] = "up"
    /\ HandleInterim(uid, now - begun[uid], used[uid])
    /\ contact' = [contact EXCEPT ![uid] = now]
    /\ UNCHANGED <<now, blocked, job, form, sess, used, begun, coa>>

End(uid) ==
    /\ Unlocked
    /\ sess[uid] = "up"
    /\ HandleStop(uid, now - begun[uid], used[uid])
    /\ sess' = [sess EXCEPT ![uid] = "down"]
    /\ UNCHANGED <<now, blocked, job, form, used, begun, contact>>

Logoff(uid) ==
    /\ End(uid)
    /\ UNCHANGED coa

\* A NAS restarts and sends Accounting-On; its sessions are gone.
Reboot(nas) ==
    /\ Busy
    /\ Unlocked
    /\ \E x \in Uid : NasOf[x] = nas /\ sess[x] = "up"
    /\ HandleAccountingOn(nas, now)
    /\ sess' = [x \in Uid |-> IF NasOf[x] = nas /\ sess[x] = "up" THEN "lost" ELSE sess[x]]
    /\ UNCHANGED <<now, blocked, job, form, used, begun, contact, coa>>

-----------------------------------------------------------------------------
(***************************************************************************)
(* coa.sh: one SELECT, then a radclient call for each line of its result.  *)
(* The request names a session by user, Acct-Session-Id and NAS; it is     *)
(* tried once and may be lost, or come when the session is over.           *)
(***************************************************************************)
CoaRead ==
    /\ Unlocked
    /\ coa = {}
    /\ coa' = {x \in Uid : Present(x) /\ online[x].kickme}
    /\ UNCHANGED <<dbVars, sess, used, begun, contact>>

CoaDisconnect(uid) ==
    /\ uid \in coa
    /\ coa' = coa \ {uid}
    /\ End(uid)

CoaMiss(uid) ==
    /\ uid \in coa
    /\ coa' = coa \ {uid}
    /\ UNCHANGED <<dbVars, sess, used, begun, contact>>

\* Time passes only as long as no live session is overdue.
Tick ==
    /\ now < MaxTime
    /\ \A x \in Uid : sess[x] = "up" => now + 1 - contact[x] <= Interval
    /\ DbTick
    /\ UNCHANGED nasVars

Next ==
    \/ \E w \in Worker : EventStep(w) /\ UNCHANGED nasVars
    \/ /\ Busy
       /\ \/ KickUnauthorised
          \/ \E uid \in Uid : ReadOnlineUser(uid)
          \/ UpdateOnlineUser
          \/ \E u \in User : SetBlocked(u)
       /\ UNCHANGED nasVars
    \/ \E uid \in Uid :
        \/ Login(uid)
        \/ Traffic(uid)
        \/ Interim(uid)
        \/ Logoff(uid)
        \/ CoaDisconnect(uid)
        \/ CoaMiss(uid)
    \/ \E nas \in Nas : Reboot(nas)
    \/ CoaRead
    \/ Tick

Spec == Init /\ [][Next]_vars

\* The clock runs and live sessions report; the disconnect loop runs for ever
\* and one of infinitely many requests for a session arrives; the event is
\* started every minute and is not cut off every time.
Fairness ==
    /\ SF_vars(CoaRead)
    /\ \A uid \in Uid : SF_vars(CoaDisconnect(uid)) /\ WF_vars(CoaMiss(uid))
    /\ SF_vars(Tick)
    /\ \A uid \in Uid : SF_vars(Interim(uid))
    /\ \A w \in Worker :
        /\ WF_vars(EventMark(w) /\ UNCHANGED nasVars)
        /\ SF_vars(EventCopy(w) /\ UNCHANGED nasVars)
        /\ SF_vars(EventMove(w) /\ UNCHANGED nasVars)
        /\ \A uid \in Uid : WF_vars(EventMoveRow(w, uid) /\ UNCHANGED nasVars)
        /\ WF_vars(EventDone(w) /\ UNCHANGED nasVars)

FairSpec == Spec /\ Fairness

-----------------------------------------------------------------------------
(***************************************************************************)
(* Properties.                                                             *)
(***************************************************************************)

\* No session is in the ledger twice: neither the sweep, cut off and repeated,
\* nor a kick, nor a form written late bills a session again.
BilledOnce ==
    \A r, q \in offline : r.uid = q.uid => r = q

\* A session that ended with a Stop is in the ledger with exactly what the NAS
\* counted; one lost in a restart is there with no more than that.
LedgerExact ==
    /\ \A x \in Uid : sess[x] = "down" =>
           \E r \in offline : r.uid = x /\ r.octets = used[x]
    /\ \A r \in offline : /\ sess[r.uid] \in {"down", "lost"}
                          /\ r.octets <= used[r.uid]

\* A session that is up is visible to the operators and to the check of
\* simultaneous use: the stale-session sweep never takes a live one.
LiveSessionsOnline ==
    \A x \in Uid : sess[x] = "up" => Present(x) /\ online[x].stop = Null

\* What is left of the quota is what was bought less the ledger.
QuotaExact ==
    \A u \in User : byte_remain[u] > 0 =>
        LET mine == {r \in offline : UserOf[r.uid] = u}
        IN  ByteGrant[u] - byte_remain[u] = MapThenSumSet(LAMBDA r : r.octets, mine)

\* Refinement: a session is open from its Login until the ledger has it.
Phase ==
    [x \in Uid |-> IF LedgerOf(x) # {} THEN "settled"
                   ELSE IF sess[x] = "new" THEN "new" ELSE "open"]

Ledger == INSTANCE SessionLedger
    WITH Grant <- ByteGrant, phase <- Phase, usage <- used, balance <- byte_remain

\* The tables, triggers, events and kicks together do what SessionLedger says.
LedgerSpec == Ledger!Spec

\* A session flagged for disconnection ends, although each request may be lost.
KickedSessionEnds ==
    \A x \in Uid : (sess[x] = "up" /\ Present(x) /\ online[x].kickme) ~> sess[x] # "up"

\* The sessions a restarting NAS left behind reach the ledger.
LostSessionsSettled ==
    \A x \in Uid : sess[x] = "lost" ~> \E r \in offline : r.uid = x
=============================================================================
