---------------------------- MODULE RequestProofs ----------------------------
(***************************************************************************)
(* Proofs about RequestProcess, for any packets, slots and limits.  The    *)
(* inductive invariant is a condition on each slot and its child, and that *)
(* the tree has one request per key.                                       *)
(***************************************************************************)
EXTENDS RequestPool, SequenceTheorems, FiniteSetTheorems, WellFoundedInduction,
        TLAPS

\* The condition on one slot q whose child is at c.  Unfinished is what
\* request_done relies on, so a held request must say so.
SlotInv(q, c) ==
    /\ q \in REQUEST /\ c \in ChildAt
    /\ c # "none" => q.live /\ q.child \in Unfinished
    /\ q.in_hash => q.live
    /\ q.live => q.pkt \in Packet /\ q.timer
    /\ q.live /\ ~q.stop => q.in_hash
    /\ c \in {"queued", "run", "handle", "answer"} => q.process \in {"running", "done"}
    /\ (q.process = "cleanup_delay" /\ q.in_hash /\ ~q.stop /\ q.reply # NoReply) => q.sent

UniqueKeys ==
    \A i, j \in Slot : (i # j /\ req[i].in_hash /\ req[j].in_hash)
                            => KeyOf[req[i].pkt] # KeyOf[req[j].pkt]

IInv ==
    /\ TypeOK
    /\ \A i \in Slot : SlotInv(req[i], cpc[i])
    /\ UniqueKeys

USE DEF Unfinished, ChildState, Process, ChildAt

-----------------------------------------------------------------------------
\* request_done keeps the condition on a slot; the child, if there is one,
\* keeps its request; the tree never grows.
LEMMA DoneKeeps ==
    ASSUME NEW q, NEW c, NEW a, SlotInv(q, c)
    PROVE  /\ SlotInv(request_done(q, a), c)
           /\ request_done(q, a).in_hash => q.in_hash /\ request_done(q, a).pkt = q.pkt
<1>1. request_done(q, a) \in REQUEST
  BY DEF SlotInv, request_done, Freed, REQUEST, Reply
<1>2. CASE a = "DUP" /\ q.reply # NoReply
  <2>1. request_done(q, a) = [q EXCEPT !.process = "done", !.stop = TRUE, !.sent = TRUE]
    BY <1>2 DEF request_done, SlotInv, REQUEST
  <2>2. QED BY <1>1, <2>1 DEF SlotInv, REQUEST
<1>3. CASE q.child \in Unfinished /\ ~(a = "DUP" /\ q.reply # NoReply)
  <2>1. request_done(q, a) = [q EXCEPT !.process = "done", !.stop = TRUE, !.in_hash = FALSE,
                                       !.timer = TRUE]
    BY <1>3 DEF request_done, SlotInv, REQUEST
  <2>2. QED BY <1>1, <2>1 DEF SlotInv, REQUEST
<1>4. CASE q.child \notin Unfinished /\ ~(a = "DUP" /\ q.reply # NoReply)
  BY <1>1, <1>4 DEF SlotInv, request_done, Freed, REQUEST
<1>5. QED BY <1>2, <1>3, <1>4

\* As DoneKeeps, for a request whose timer has just fired.
LEMMA DoneRearms ==
    ASSUME NEW q, NEW c, NEW a, SlotInv(q, c), q.live, a # "DUP"
    PROVE  LET r == request_done([q EXCEPT !.timer = FALSE], a) IN
           /\ SlotInv(r, c)
           /\ r.in_hash => q.in_hash /\ r.pkt = q.pkt
<1> DEFINE f == [q EXCEPT !.timer = FALSE]
           r == request_done(f, a)
<1>0. f \in REQUEST
  BY DEF SlotInv, REQUEST
<1>1. r \in REQUEST
  BY <1>0 DEF SlotInv, request_done, Freed, REQUEST, Reply
<1>2. CASE q.child \in Unfinished
  BY <1>1, <1>2 DEF SlotInv, request_done, Freed, REQUEST
<1>3. CASE q.child \notin Unfinished
  BY <1>1, <1>3 DEF SlotInv, request_done, Freed, REQUEST
<1>4. QED BY <1>2, <1>3

\* What a step on one slot must show: the slot's condition, and that it
\* does not enter the tree.
LEMMA OneSlot ==
    ASSUME IInv, NEW i \in Slot, NEW q, NEW c, SlotInv(q, c),
           q.in_hash => req[i].in_hash /\ q.pkt = req[i].pkt,
           req' = [req EXCEPT ![i] = q], cpc' = [cpc EXCEPT ![i] = c]
    PROVE  IInv'
<1>1. TypeOK'
  BY DEF IInv, TypeOK, SlotInv
<1>2. \A j \in Slot : SlotInv(req'[j], cpc'[j])
  BY DEF IInv, TypeOK
<1>3. UniqueKeys'
  <2>1. \A j \in Slot : req'[j].in_hash => req[j].in_hash /\ req'[j].pkt = req[j].pkt
    BY DEF IInv, TypeOK
  <2>2. QED BY <2>1 DEF IInv, UniqueKeys
<1>4. QED BY <1>1, <1>2, <1>3 DEF IInv

LEMMA InitInv == ASSUME RequestAssumption, Init PROVE IInv
<1>1. Freed \in REQUEST
  BY DEF Freed, REQUEST, Reply
<1>2. SlotInv(Freed, "none")
  BY <1>1 DEF SlotInv, Freed
<1>3. \A i \in Slot : req[i] = Freed /\ cpc[i] = "none"
  BY DEF Init
<1>4. UniqueKeys
  BY <1>3 DEF UniqueKeys, Freed
<1>5. QED BY <1>1, <1>2, <1>3, <1>4 DEF Init, IInv, TypeOK

LEMMA DupInv ==
    ASSUME IInv, NEW p \in Packet, ReceiveDup(p) PROVE IInv'
<1>1. PICK i \in Found(p) : req[i].pkt = p /\ req' = [req EXCEPT ![i] = OnDup(req[i])]
  BY DEF ReceiveDup
<1>2. i \in Slot /\ SlotInv(req[i], cpc[i]) /\ cpc' = [cpc EXCEPT ![i] = cpc[i]]
  BY DEF Found, IInv, TypeOK, ReceiveDup
<1> DEFINE q == OnDup(req[i])
<1>3. SlotInv(q, cpc[i]) /\ (q.in_hash => req[i].in_hash /\ q.pkt = req[i].pkt)
  <2>1. CASE req[i].process = "done"
    BY <2>1, <1>2, DoneKeeps DEF OnDup
  <2>2. CASE req[i].process # "done" /\ req[i].stop
    BY <2>2, <1>2, DoneKeeps DEF OnDup
  <2>3. CASE req[i].process = "cleanup_delay" /\ ~req[i].stop
    <3>1. q = [req[i] EXCEPT !.timer = TRUE]
      BY <2>3 DEF OnDup
    <3>2. QED BY <3>1, <1>2 DEF SlotInv, REQUEST
  <2>4. CASE req[i].process \in {"running", "response_delay"} /\ ~req[i].stop
    BY <2>4, <1>2 DEF OnDup
  <2>5. QED BY <2>1, <2>2, <2>3, <2>4, <1>2 DEF SlotInv, REQUEST
<1>4. QED BY <1>1, <1>2, <1>3, OneSlot

LEMMA TimerInv ==
    ASSUME IInv, ~Stalls, NEW i \in Slot, request_timer(i) PROVE IInv'
<1> DEFINE q == req[i]
           f == [q EXCEPT !.timer = FALSE]
<1>1. SlotInv(q, cpc[i]) /\ q.live /\ cpc' = [cpc EXCEPT ![i] = cpc[i]]
  BY DEF IInv, TypeOK, request_timer
<1>2. PICK n \in OnTimer(i, f) : req' = [req EXCEPT ![i] = n]
  BY DEF request_timer
<1>3. f \in REQUEST /\ f.process = q.process /\ f.stop = q.stop /\ f.child = q.child
  BY <1>1 DEF SlotInv, REQUEST
<1>4. [f EXCEPT !.timer = TRUE] = q
  BY <1>1 DEF SlotInv, REQUEST
<1>5. /\ SlotInv(request_done(f, "DONE"), cpc[i])
      /\ request_done(f, "DONE").in_hash => q.in_hash /\ request_done(f, "DONE").pkt = q.pkt
  BY <1>1, DoneRearms
<1>6. SlotInv(n, cpc[i]) /\ (n.in_hash => q.in_hash /\ n.pkt = q.pkt)
  <2>1. CASE q.process = "done"
    <3>1. n = request_done(f, "TIMER")
      BY <2>1, <1>2, <1>3 DEF OnTimer
    <3>2. QED BY <3>1, <1>1, DoneRearms
  <2>2. CASE q.process # "done" /\ q.stop
    BY <2>2, <1>2, <1>3, <1>5 DEF OnTimer
  <2>3. CASE q.process = "running" /\ ~q.stop
    BY <2>3, <1>1, <1>2, <1>3, <1>4, <1>5 DEF OnTimer, request_max_time
  <2>4. CASE q.process = "cleanup_delay" /\ ~q.stop
    BY <2>4, <1>1, <1>2, <1>3, <1>4, <1>5 DEF OnTimer, request_cleanup_delay
  <2>5. CASE q.process = "response_delay" /\ ~q.stop
    <3> DEFINE d == request_cleanup_delay_init([f EXCEPT !.sent = TRUE])
    <3>1. n = q \/ (cpc[i] = "none" /\ n = d)
      BY <2>5, <1>2, <1>3, <1>4 DEF OnTimer, request_response_delay, SecondPassed
    <3>2. d = [q EXCEPT !.process = "cleanup_delay", !.child = "CLEANUP_DELAY",
                        !.timer = TRUE, !.sent = TRUE]
      BY <1>1 DEF request_cleanup_delay_init, SlotInv, REQUEST
    <3>3. ASSUME cpc[i] = "none" PROVE SlotInv(d, cpc[i]) /\ d.pkt = q.pkt /\ d.in_hash = q.in_hash
      BY <3>2, <3>3, <1>1 DEF SlotInv, REQUEST
    <3>4. QED BY <3>1, <3>3, <1>1
  <2>6. QED BY <2>1, <2>2, <2>3, <2>4, <2>5, <1>1 DEF SlotInv, REQUEST
<1>7. QED BY <1>1, <1>2, <1>6, OneSlot

LEMMA NewInv ==
    ASSUME RequestAssumption, IInv, NEW p \in Packet, ReceiveNew(p) PROVE IInv'
<1> DEFINE r == [i \in Slot |-> IF i \in Found(p) THEN request_done(req[i], "DONE") ELSE req[i]]
<1>1. \A i \in Slot : /\ SlotInv(r[i], cpc[i])
                      /\ r[i].in_hash => req[i].in_hash /\ r[i].pkt = req[i].pkt
                                         /\ i \notin Found(p)
                      /\ ~req[i].live => r[i] = req[i]
  <2> SUFFICES ASSUME NEW i \in Slot
               PROVE  /\ SlotInv(r[i], cpc[i])
                      /\ r[i].in_hash => req[i].in_hash /\ r[i].pkt = req[i].pkt
                                         /\ i \notin Found(p)
                      /\ ~req[i].live => r[i] = req[i]
    OBVIOUS
  <2>1. SlotInv(req[i], cpc[i])
    BY DEF IInv
  <2>2. CASE i \in Found(p)
    <3>1. r[i] = request_done(req[i], "DONE") /\ req[i].in_hash
      BY <2>2 DEF Found
    <3>2. ~request_done(req[i], "DONE").in_hash
      BY <2>1 DEF request_done, Freed, SlotInv, REQUEST
    <3>3. req[i].live
      BY <2>1, <3>1 DEF SlotInv
    <3>4. QED BY <2>1, <3>1, <3>2, <3>3, DoneKeeps
  <2>3. CASE i \notin Found(p)
    BY <2>1, <2>3
  <2>4. QED BY <2>2, <2>3
<1>2. \A j, k \in Slot : (j # k /\ r[j].in_hash /\ r[k].in_hash) => KeyOf[r[j].pkt] # KeyOf[r[k].pkt]
  BY <1>1 DEF IInv, UniqueKeys
<1>3. \A j \in Slot : r[j].in_hash => KeyOf[r[j].pkt] # KeyOf[p]
  BY <1>1 DEF Found
<1>4. CASE req' = r /\ UNCHANGED cpc
  <2>1. TypeOK'
    BY <1>1, <1>4 DEF IInv, TypeOK, SlotInv
  <2>2. \A j \in Slot : SlotInv(req'[j], cpc'[j])
    BY <1>1, <1>4
  <2>3. UniqueKeys'
    BY <1>2, <1>4 DEF UniqueKeys
  <2>4. QED BY <2>1, <2>2, <2>3 DEF IInv
<1>5. ASSUME NEW i \in Slot, ~req[i].live, cpc[i] = "none", request_queue_or_run(r, i, p)
      PROVE  IInv'
  <2>1. PICK q, c : /\ req' = [r EXCEPT ![i] = q] /\ cpc' = [cpc EXCEPT ![i] = c]
                    /\ SlotInv(q, c)
                    /\ q.in_hash => q.pkt = p
    <3>1. New(p) \in REQUEST /\ SlotInv(New(p), "none") /\ New(p).pkt = p
      BY DEF New, REQUEST, Reply, SlotInv
    <3>2. CASE Cardinality(Queued) < MaxQueue
      <4> DEFINE q == [New(p) EXCEPT !.child = "QUEUED"]
      <4>1. q \in REQUEST /\ SlotInv(q, "queued") /\ q.pkt = p
        BY <3>1 DEF New, SlotInv, REQUEST
      <4>2. req' = [r EXCEPT ![i] = q] /\ cpc' = [cpc EXCEPT ![i] = "queued"]
        BY <1>5, <3>2 DEF request_queue_or_run
      <4>3. QED BY <4>1, <4>2
    <3>3. CASE ~(Cardinality(Queued) < MaxQueue)
      <4> DEFINE q == request_done(New(p), "DONE")
      <4>1. SlotInv(q, "none") /\ (q.in_hash => q.pkt = p)
        BY <3>1, DoneKeeps
      <4>2. req' = [r EXCEPT ![i] = q] /\ cpc' = [cpc EXCEPT ![i] = "none"]
        BY <1>5, <3>3 DEF request_queue_or_run, IInv, TypeOK
      <4>3. QED BY <4>1, <4>2
    <3>4. QED BY <3>2, <3>3
  <2>2. \A j \in Slot : req'[j] = (IF j = i THEN q ELSE r[j])
                        /\ cpc'[j] = (IF j = i THEN c ELSE cpc[j])
    BY <2>1 DEF IInv, TypeOK
  <2>3. \A j \in Slot : SlotInv(req'[j], cpc'[j])
    BY <1>1, <2>1, <2>2
  <2>4. TypeOK'
    BY <1>1, <2>1 DEF IInv, TypeOK, SlotInv
  <2>5. UniqueKeys'
    <3> SUFFICES ASSUME NEW j \in Slot, NEW k \in Slot, j # k, req'[j].in_hash, req'[k].in_hash
                 PROVE  KeyOf[req'[j].pkt] # KeyOf[req'[k].pkt]
      BY DEF UniqueKeys
    <3>1. CASE j = i
      BY <3>1, <1>3, <2>1, <2>2
    <3>2. CASE k = i
      BY <3>2, <1>3, <2>1, <2>2
    <3>3. CASE j # i /\ k # i
      BY <3>3, <1>2, <2>2
    <3>4. QED BY <3>1, <3>2, <3>3
  <2>6. QED BY <2>3, <2>4, <2>5 DEF IInv
<1>6. QED BY <1>4, <1>5 DEF ReceiveNew

\* ChildCleanup is the last write but one of a child.
LEMMA CleanupKeeps ==
    ASSUME IInv, NEW i \in Slot, NEW q, SlotInv(q, "answer"), ChildCleanup(i, q),
           q.in_hash => req[i].in_hash /\ q.pkt = req[i].pkt,
           q.in_hash /\ q.reply # NoReply => q.sent
    PROVE  IInv'
<1>1. CASE q.pkt \in Accounting
  <2> DEFINE n == [q EXCEPT !.process = "done"]
  <2>1. SlotInv(n, "final DONE") /\ n.in_hash = q.in_hash /\ n.pkt = q.pkt
    BY DEF SlotInv, REQUEST
  <2>2. QED BY <1>1, <2>1, OneSlot DEF ChildCleanup
<1>2. CASE q.pkt \notin Accounting
  <2> DEFINE n == [q EXCEPT !.process = "cleanup_delay"]
  <2>1. SlotInv(n, "final CLEANUP_DELAY") /\ n.in_hash = q.in_hash /\ n.pkt = q.pkt
    BY DEF SlotInv, REQUEST
  <2>2. QED BY <1>2, <2>1, OneSlot DEF ChildCleanup
<1>3. QED BY <1>1, <1>2

LEMMA ChildInv ==
    ASSUME IInv, NEW i \in Slot, Child(i) PROVE IInv'
<1> DEFINE q == req[i]
<1>0. SlotInv(q, cpc[i]) /\ q \in REQUEST
  BY DEF IInv, SlotInv
<1>1. ASSUME cpc[i] \in {"run", "handle"}, ChildDone(i) PROVE IInv'
  <2> DEFINE n == [q EXCEPT !.process = "done"]
  <2>1. SlotInv(n, "final DONE") /\ n.in_hash = q.in_hash /\ n.pkt = q.pkt
    BY <1>0, <1>1 DEF SlotInv, REQUEST
  <2>2. QED BY <1>1, <2>1, OneSlot DEF ChildDone
<1>2. CASE Dequeue(i)
  <2> DEFINE d == [q EXCEPT !.child = "DONE"]
             n == [q EXCEPT !.child = "RUNNING"]
  <2>1. SlotInv(d, "none") /\ d.in_hash = q.in_hash /\ d.pkt = q.pkt
    BY <1>0, <1>2 DEF Dequeue, SlotInv, REQUEST
  <2>2. SlotInv(n, "run") /\ n.in_hash = q.in_hash /\ n.pkt = q.pkt
    BY <1>0, <1>2 DEF Dequeue, SlotInv, REQUEST
  <2>3. QED BY <1>2, <2>1, <2>2, OneSlot DEF Dequeue
<1>3. CASE request_running(i)
  <2>1. CASE (q.process = "done" \/ q.stop) /\ ChildDone(i)
    BY <1>1, <1>3, <2>1 DEF request_running
  <2>2. ASSUME NEW next \in {"handle", "final DONE"}, cpc' = [cpc EXCEPT ![i] = next],
               UNCHANGED req
        PROVE  IInv'
    <3>1. SlotInv(q, next)
      BY <1>0, <1>3 DEF request_running, SlotInv
    <3>2. req' = [req EXCEPT ![i] = q]
      BY <2>2 DEF IInv, TypeOK
    <3>3. QED BY <2>2, <3>1, <3>2, OneSlot
  <2>3. QED BY <1>3, <2>1, <2>2 DEF request_running
<1>4. CASE Handle(i)
  <2>1. CASE q.stop /\ ChildDone(i)
    BY <1>1, <1>4, <2>1 DEF Handle
  <2>2. ASSUME NEW c \in Codes(q.pkt), req' = [req EXCEPT ![i].reply = c],
               cpc' = [cpc EXCEPT ![i] = "answer"]
        PROVE  IInv'
    <3> DEFINE n == [q EXCEPT !.reply = c]
    <3>1. c \in Reply
      BY DEF Codes, Reply
    <3>2. SlotInv(n, "answer") /\ n.in_hash = q.in_hash /\ n.pkt = q.pkt
      BY <1>0, <1>4, <3>1 DEF Handle, SlotInv, REQUEST
    <3>3. QED BY <2>2, <3>2, OneSlot
  <2>3. QED BY <1>4, <2>1, <2>2 DEF Handle
<1>5. CASE request_finish(i)
  <2> DEFINE suppress == q.reply = NoReply \/ ~q.in_hash
  <2>0. cpc[i] = "answer"
    BY <1>5 DEF request_finish
  <2>1. CASE suppress /\ ChildCleanup(i, q)
    BY <1>0, <2>0, <2>1, CleanupKeeps
  <2>2. CASE /\ req' = [req EXCEPT ![i].process = "response_delay"]
             /\ cpc' = [cpc EXCEPT ![i] = "final RESPONSE_DELAY"]
    <3> DEFINE n == [q EXCEPT !.process = "response_delay"]
    <3>1. SlotInv(n, "final RESPONSE_DELAY") /\ n.in_hash = q.in_hash /\ n.pkt = q.pkt
      BY <1>0, <2>0 DEF SlotInv, REQUEST
    <3>2. QED BY <2>2, <3>1, OneSlot
  <2>3. CASE ChildCleanup(i, [q EXCEPT !.sent = TRUE])
    <3> DEFINE n == [q EXCEPT !.sent = TRUE]
    <3>1. SlotInv(n, "answer") /\ n.in_hash = q.in_hash /\ n.pkt = q.pkt /\ n.sent
      BY <1>0, <2>0 DEF SlotInv, REQUEST
    <3>2. QED BY <2>3, <3>1, CleanupKeeps
  <2>4. QED BY <1>5, <2>1, <2>2, <2>3 DEF request_finish
<1>6. CASE FINAL_STATE(i)
  <2>1. PICK s \in {"RESPONSE_DELAY", "CLEANUP_DELAY", "DONE"} :
            req' = [req EXCEPT ![i].child = s] /\ cpc' = [cpc EXCEPT ![i] = "none"]
    BY <1>6 DEF FINAL_STATE
  <2> DEFINE n == [q EXCEPT !.child = s]
  <2>2. SlotInv(n, "none") /\ n.in_hash = q.in_hash /\ n.pkt = q.pkt
    BY <1>0 DEF SlotInv, REQUEST
  <2>3. QED BY <2>1, <2>2, OneSlot
<1>7. QED BY <1>2, <1>3, <1>4, <1>5, <1>6 DEF Child

-----------------------------------------------------------------------------
LEMMA Inductive ==
    ASSUME RequestAssumption, ~Stalls, IInv, [Next]_vars PROVE IInv'
<1>1. CASE UNCHANGED vars
  BY <1>1 DEF vars, IInv, TypeOK, UniqueKeys
<1>2. ASSUME NEW p \in Packet, ReceiveDup(p) PROVE IInv'
  BY <1>2, DupInv
<1>3. ASSUME NEW p \in Packet, ReceiveNew(p) PROVE IInv'
  BY <1>3, NewInv
<1>4. ASSUME NEW i \in Slot, request_timer(i) PROVE IInv'
  BY <1>4, TimerInv
<1>5. ASSUME NEW i \in Slot, Child(i) PROVE IInv'
  BY <1>5, ChildInv
<1>6. QED BY <1>1, <1>2, <1>3, <1>4, <1>5 DEF Next

LEMMA AlwaysIInv == ASSUME ~Stalls PROVE Spec => []IInv
<1>1. Init => IInv
  BY RequestAssumption, InitInv
<1>2. IInv /\ [Next]_vars => IInv'
  BY RequestAssumption, Inductive
<1>3. QED BY <1>1, <1>2, PTL DEF Spec

\* The fields of every REQUEST and the places of the children keep their
\* types, whatever the packets, slots and limits.
THEOREM RequestTypes == ASSUME ~Stalls PROVE Spec => []TypeOK
<1>1. IInv => TypeOK
  BY DEF IInv
<1>2. QED BY <1>1, AlwaysIInv, PTL

\* request_done and request_free never give back the memory of a request
\* that the queue or a child thread still holds, provided no child stalls for
\* a second between its last two writes.
THEOREM NeverFreedInUse == ASSUME ~Stalls PROVE Spec => []NotFreedInUse
<1>1. IInv => NotFreedInUse
  BY DEF IInv, SlotInv, NotFreedInUse
<1>2. QED BY <1>1, AlwaysIInv, PTL

\* Of two live requests for the same packet one was told to stop: the tree
\* lets no duplicate through.
THEOREM DuplicatesStopped == ASSUME ~Stalls PROVE Spec => []OneAtATime
<1>1. IInv => OneAtATime
  <2> SUFFICES ASSUME IInv, NEW i \in Slot, NEW j \in Slot, i # j, req[i].live, req[j].live,
                      req[i].pkt = req[j].pkt, ~req[i].stop, ~req[j].stop
               PROVE  FALSE
    BY DEF OneAtATime
  <2>1. req[i].in_hash /\ req[j].in_hash
    BY DEF IInv, SlotInv
  <2>2. QED BY <2>1 DEF IInv, UniqueKeys
<1>2. QED BY <1>1, AlwaysIInv, PTL

\* Every live request has an event that will look after it.
THEOREM AlwaysArmed == ASSUME ~Stalls PROVE Spec => []TimerArmed
<1>1. IInv => TimerArmed
  BY DEF IInv, SlotInv, TimerArmed
<1>2. QED BY <1>1, AlwaysIInv, PTL

\* The reply kept for duplicates is one the NAS was sent before.
THEOREM KeptRepliesSent == ASSUME ~Stalls PROVE Spec => []SentBeforeCleanup
<1>1. IInv => SentBeforeCleanup
  BY DEF IInv, SlotInv, SentBeforeCleanup
<1>2. QED BY <1>1, AlwaysIInv, PTL

-----------------------------------------------------------------------------
(* Sequences of the thread pool *)

\* ThreadPool's operators of FiniteSets are those of this module.
LEMMA SameCount ==
    ASSUME NEW S
    PROVE  Pool!IsFiniteSet(S) = IsFiniteSet(S) /\ Pool!Cardinality(S) = Cardinality(S)
BY DEF Pool!IsFiniteSet, IsFiniteSet, Pool!Cardinality, Cardinality

Elems(s) == {s[k] : k \in 1..Len(s)}

Injective(s) == \A k, l \in 1..Len(s) : s[k] = s[l] => k = l

LEMMA SeqWords ==
    ASSUME NEW X, NEW s \in Seq(X)
    PROVE  Pool!ToSet(s) = Elems(s) /\ (Pool!IsInjective(s) <=> Injective(s))
BY DEF Pool!ToSet, Pool!IsInjective, Elems, Injective

\* A sequence without repetition is as long as its set is large.
LEMMA InjectiveLength ==
    ASSUME NEW X, NEW s \in Seq(X), Injective(s)
    PROVE  IsFiniteSet(Elems(s)) /\ Cardinality(Elems(s)) = Len(s)
<1>1. s \in Bijection(1..Len(s), Elems(s))
  BY DEF Elems, Injective, Bijection, Injection, Surjection, IsInjective
<1>2. ExistsBijection(1..Len(s), Elems(s))
  BY <1>1 DEF ExistsBijection
<1>3. Len(s) \in Nat /\ IsFiniteSet(1..Len(s)) /\ Cardinality(1..Len(s)) = Len(s)
  <2>1. Len(s) \in Nat
    OBVIOUS
  <2>2. IsFiniteSet(1..Len(s)) /\ Cardinality(1..Len(s)) = IF 1 > Len(s) THEN 0 ELSE Len(s) - 1 + 1
    BY <2>1, FS_Interval
  <2>. QED  BY <2>1, <2>2
<1>. QED  BY <1>2, <1>3, FS_Bijection

\* Without keeps the order: the k-th kept position has rank k.
LEMMA WithoutFacts ==
    ASSUME NEW X, NEW s \in Seq(X), NEW S
    PROVE  /\ Pool!Without(s, S) \in Seq(X)
           /\ Elems(Pool!Without(s, S)) = Elems(s) \ S
           /\ Injective(s) => Injective(Pool!Without(s, S))
<1>. DEFINE kept == {k \in DOMAIN s : s[k] \notin S}
            Below(k) == {l \in kept : l <= k}
            n == Cardinality(kept)
            f == [k \in kept |-> Cardinality(Below(k))]
            w == [k \in 1..n |-> s[CHOOSE l \in kept : Cardinality(Below(l)) = k]]
<1>1. Pool!Without(s, S) = w
  BY DEF Pool!Without, Pool!Cardinality, Cardinality
<1>2. IsFiniteSet(kept) /\ kept \subseteq 1..Len(s) /\ n \in Nat
  <2>1. Len(s) \in Nat /\ IsFiniteSet(1..Len(s))
    BY FS_Interval
  <2>. QED  BY <2>1, FS_Subset, FS_CardinalityType
<1>3. ASSUME NEW k \in kept
      PROVE  /\ IsFiniteSet(Below(k)) /\ Cardinality(Below(k)) \in 1..n
  <2>1. Below(k) \subseteq kept /\ k \in Below(k)
    BY <1>2
  <2>2. IsFiniteSet(Below(k)) /\ Cardinality(Below(k)) <= n
    BY <1>2, <2>1, FS_Subset
  <2>3. Cardinality(Below(k)) \in Nat /\ Cardinality(Below(k)) # 0
    BY <2>1, <2>2, FS_CardinalityType, FS_EmptySet
  <2>. QED  BY <1>2, <2>2, <2>3
<1>4. ASSUME NEW k \in kept, NEW l \in kept, k < l
      PROVE  Cardinality(Below(k)) # Cardinality(Below(l))
  <2>1. Below(k) \subseteq Below(l) /\ l \in Below(l) /\ l \notin Below(k)
    BY <1>2, <1>4
  <2>. QED  BY <1>3, <2>1, FS_Subset
<1>5. f \in Injection(kept, 1..n)
  <2>1. f \in [kept -> 1..n]
    BY <1>3
  <2>2. \A k, l \in kept : f[k] = f[l] => k = l
    BY <1>2, <1>4
  <2>. HIDE DEF f
  <2>. QED  BY <2>1, <2>2 DEF Injection, IsInjective
<1>6. f \in Surjection(kept, 1..n)
  BY <1>2, <1>5, FS_Interval, FS_Injection
<1>7. \A k \in 1..n : \E l \in kept : Cardinality(Below(l)) = k
  BY <1>6 DEF Surjection
<1>. DEFINE pick(k) == CHOOSE l \in kept : Cardinality(Below(l)) = k
<1>8. \A k \in 1..n : pick(k) \in kept /\ Cardinality(Below(pick(k))) = k
  BY <1>7
<1>9. \A l \in kept : Cardinality(Below(l)) \in 1..n /\ pick(Cardinality(Below(l))) = l
  BY <1>2, <1>3, <1>4, <1>8
<1>10. w = [k \in 1..n |-> s[pick(k)]]
  OBVIOUS
<1>11. \A l \in kept : l \in 1..Len(s) /\ s[l] \in X /\ s[l] \notin S
  BY <1>2
<1>. HIDE DEF w, pick, n, Below
<1>12. w \in Seq(X) /\ Len(w) = n
  <2>1. w \in [1..n -> X]
    BY <1>8, <1>10, <1>11
  <2>. QED  BY <1>2, <2>1
<1>13. Elems(w) = Elems(s) \ S
  <2>1. ASSUME NEW x \in Elems(w) PROVE x \in Elems(s) \ S
    BY <1>8, <1>10, <1>11, <1>12 DEF Elems
  <2>2. ASSUME NEW x \in Elems(s) \ S PROVE x \in Elems(w)
    <3>1. PICK l \in 1..Len(s) : x = s[l]
      BY DEF Elems
    <3>2. l \in kept
      BY <3>1
    <3>. QED  BY <1>9, <1>10, <1>12, <3>1, <3>2 DEF Elems
  <2>. QED  BY <2>1, <2>2
<1>14. ASSUME Injective(s), NEW k \in 1..n, NEW l \in 1..n, w[k] = w[l]
       PROVE  k = l
  <2>1. s[pick(k)] = s[pick(l)]
    BY <1>10, <1>14
  <2>2. pick(k) = pick(l)
    BY <1>8, <1>11, <1>14, <2>1 DEF Injective
  <2>. QED  BY <1>8, <2>2
<1>15. Injective(s) => Injective(w)
  BY <1>12, <1>14 DEF Injective
<1>. QED  BY <1>1, <1>12, <1>13, <1>15

\* There are n different handles in a set that has as many.
LEMMA NewHandles ==
    ASSUME NEW S, IsFiniteSet(S), NEW n \in Nat, n <= Cardinality(S)
    PROVE  LET new == CHOOSE s \in [1..n -> S] : Pool!IsInjective(s)
           IN  new \in [1..n -> S] /\ Pool!IsInjective(new)
<1>1. PICK f : f \in Bijection(1..Cardinality(S), S)
  BY FS_CardinalityType DEF ExistsBijection
<1>2. Cardinality(S) \in Nat
  BY FS_CardinalityType
<1>. DEFINE g == [k \in 1..n |-> f[k]]
<1>3. f \in [1..Cardinality(S) -> S]
      /\ \A k, l \in 1..Cardinality(S) : f[k] = f[l] => k = l
  BY <1>1 DEF Bijection, Injection, IsInjective
<1>4. g \in [1..n -> S] /\ Pool!IsInjective(g)
  BY <1>2, <1>3 DEF Pool!IsInjective
<1>. QED  BY <1>4

\* A set of numbers that is not empty has a least one, and Min is it.
LEMMA MinIsLeast ==
    ASSUME NEW S \in SUBSET Nat, S # {}
    PROVE  Pool!Min(S) \in S /\ \A y \in S : Pool!Min(S) <= y
<1>. DEFINE T == {0..x : x \in S}
<1>1. T \subseteq FiniteSubsetsOf(Nat) /\ T # {}
  <2>1. ASSUME NEW x \in S
        PROVE  0..x \in SUBSET Nat /\ IsFiniteSet(0..x)
    BY FS_Interval
  <2>. QED  BY <2>1 DEF FiniteSubsetsOf
<1>2. PICK A \in T : \A B \in T : ~(<<B, A>> \in StrictSubsetOrdering(Nat))
  <2>. HIDE DEF T
  <2>. QED  BY <1>1, FS_StrictSubsetOrderingWellFounded, WFMin
<1>3. PICK x \in S : A = 0..x
  OBVIOUS
<1>4. ASSUME NEW y \in S, y < x PROVE FALSE
  <2>1. 0..y \in T /\ 0..y \subseteq 0..x /\ 0..y # 0..x
    BY <1>4
  <2>2. 0..y \in SUBSET Nat /\ 0..x \in SUBSET Nat
    OBVIOUS
  <2>3. <<0..y, 0..x>> \in StrictSubsetOrdering(Nat)
    BY <2>1, <2>2 DEF StrictSubsetOrdering
  <2>. QED  BY <1>2, <1>3, <2>1, <2>3
<1>5. \A y \in S : x <= y
  BY <1>4
<1>. QED  BY <1>5 DEF Pool!Min

LEMMA PoolConstants ==
    /\ MaxThreads \in Nat /\ MaxThreads > 0 /\ NumFifos \in Nat /\ NumFifos > 0
    /\ PriorityOf \in [Job -> Pool!Priority]
    /\ IsFiniteSet(Job) /\ NoPacket \notin Job
    /\ StartThreads \in 0..MaxThreads
    /\ MinSpare \in Nat /\ MaxQueue \in Nat /\ MaxQueue > 0
    /\ MaxPerThread \in Nat /\ MaxTime \in Nat /\ MaxTime > 0
    /\ IsFiniteSet(Pool!Thread) /\ Cardinality(Pool!Thread) = MaxThreads
<1>1. MaxThreads \in Nat /\ MaxThreads > 0
  BY PoolAssumption DEF Pool!PoolAssumption
<1>2. IsFiniteSet(1..MaxThreads) /\ Cardinality(1..MaxThreads) = MaxThreads
  <2>1. /\ IsFiniteSet(1..MaxThreads)
        /\ Cardinality(1..MaxThreads) = IF 1 > MaxThreads THEN 0 ELSE MaxThreads - 1 + 1
    BY <1>1, FS_Interval
  <2>. QED  BY <1>1, <2>1
<1>. QED  BY <1>1, <1>2, PoolAssumption, SameCount DEF Pool!PoolAssumption, Pool!Thread

(* The fifos: each has the requests of its own priority, once. *)
Tidy(q) ==
    /\ q \in [Pool!Priority -> Seq(Job)]
    /\ \A p \in Pool!Priority :
          Injective(q[p]) /\ \A x \in Elems(q[p]) : PriorityOf[x] = p

LEMMA QueuedWhere ==
    ASSUME NEW q, q \in [Pool!Priority -> Seq(Job)]
    PROVE  /\ \A x : x \in Pool!Elements(q) <=> \E p \in Pool!Priority : x \in Elems(q[p])
           /\ Pool!Elements(q) \subseteq Job /\ IsFiniteSet(Pool!Elements(q))
           /\ Cardinality(Pool!Elements(q)) \in Nat
<1>1. \A p \in Pool!Priority : q[p] \in Seq(Job) /\ Pool!ToSet(q[p]) = Elems(q[p])
  BY SeqWords
<1>2. \A x : x \in Pool!Elements(q) <=> \E p \in Pool!Priority : x \in Elems(q[p])
  BY <1>1 DEF Pool!Elements
<1>3. \A p \in Pool!Priority : Elems(q[p]) \subseteq Job
  BY <1>1 DEF Elems
<1>4. Pool!Elements(q) \subseteq Job
  BY <1>2, <1>3
<1>. QED  BY <1>2, <1>4, PoolConstants, FS_Subset, FS_CardinalityType

\* What is left of a sequence after its k-th element.
LEMMA CutFacts ==
    ASSUME NEW X, NEW s \in Seq(X), NEW k \in 1..Len(s)
    PROVE  LET w == SubSeq(s, k + 1, Len(s)) IN
           /\ w \in Seq(X) /\ Elems(w) \subseteq Elems(s)
           /\ Injective(s) => Injective(w) /\ s[k] \notin Elems(w)
<1>. DEFINE w == SubSeq(s, k + 1, Len(s))
<1>1. w \in Seq(X) /\ Len(w) = Len(s) - k /\ \A l \in 1..Len(w) : w[l] = s[k + l]
  OBVIOUS
<1>. HIDE DEF w
<1>2. \A l \in 1..Len(w) : k + l \in 1..Len(s) /\ k + l # k
  BY <1>1
<1>3. Elems(w) \subseteq Elems(s)
  BY <1>1, <1>2 DEF Elems
<1>4. Injective(s) => Injective(w) /\ s[k] \notin Elems(w)
  BY <1>1, <1>2 DEF Elems, Injective
<1>. QED  BY <1>1, <1>3, <1>4 DEF w

LEMMA TailFacts ==
    ASSUME NEW X, NEW s \in Seq(X), s # <<>>
    PROVE  /\ Tail(s) \in Seq(X) /\ Elems(Tail(s)) \subseteq Elems(s)
           /\ Head(s) \in Elems(s) /\ Elems(s) = Elems(Tail(s)) \cup {Head(s)}
           /\ Injective(s) => Injective(Tail(s)) /\ Head(s) \notin Elems(Tail(s))
<1>1. /\ Tail(s) \in Seq(X) /\ Len(Tail(s)) = Len(s) - 1 /\ Len(s) \in Nat /\ Len(s) >= 1
      /\ \A l \in 1..Len(Tail(s)) : Tail(s)[l] = s[l + 1]
      /\ Head(s) = s[1]
  OBVIOUS
<1>2. \A l \in 1..Len(Tail(s)) : l + 1 \in 1..Len(s) /\ l + 1 # 1
  BY <1>1
<1>3. \A l \in 1..Len(s) : l = 1 \/ (l - 1 \in 1..Len(Tail(s)) /\ Tail(s)[l - 1] = s[l])
  BY <1>1
<1>4. Elems(Tail(s)) \subseteq Elems(s) /\ Head(s) \in Elems(s)
  BY <1>1, <1>2 DEF Elems
<1>5. Elems(s) = Elems(Tail(s)) \cup {Head(s)}
  BY <1>1, <1>3, <1>4 DEF Elems
<1>6. Injective(s) => Injective(Tail(s)) /\ Head(s) \notin Elems(Tail(s))
  BY <1>1, <1>2 DEF Elems, Injective
<1>. QED  BY <1>1, <1>4, <1>5, <1>6

\* fr_fifo_pop of a head that was stopped.
LEMMA ClearedFacts ==
    ASSUME NEW q, Tidy(q)
    PROVE  Tidy(Pool!Cleared(q)) /\ Pool!Elements(Pool!Cleared(q)) \subseteq Pool!Elements(q)
<1>. DEFINE c == Pool!Cleared(q)
<1>1. ASSUME NEW p \in Pool!Priority
      PROVE  /\ c[p] \in Seq(Job) /\ Elems(c[p]) \subseteq Elems(q[p])
             /\ Injective(c[p])
  <2>1. q[p] \in Seq(Job) /\ Injective(q[p])
    BY DEF Tidy
  <2>2. c[p] = q[p] \/ (q[p] # <<>> /\ c[p] = Tail(q[p]))
    BY DEF Pool!Cleared
  <2>3. CASE q[p] # <<>> /\ c[p] = Tail(q[p])
    <3>1. /\ Tail(q[p]) \in Seq(Job) /\ Elems(Tail(q[p])) \subseteq Elems(q[p])
          /\ Injective(Tail(q[p]))
      BY <2>1, <2>3, TailFacts
    <3>. QED  BY <2>3, <3>1
  <2>. QED  BY <2>1, <2>2, <2>3
<1>2. c \in [Pool!Priority -> Seq(Job)]
  <2>1. c = [p \in Pool!Priority |-> c[p]]
    BY DEF Pool!Cleared
  <2>. HIDE DEF c
  <2>. QED  BY <1>1, <2>1
<1>. HIDE DEF c
<1>3. Tidy(c)
  BY <1>1, <1>2 DEF Tidy
<1>4. Pool!Elements(c) \subseteq Pool!Elements(q)
  BY <1>1, <1>2, QueuedWhere DEF Tidy
<1>. QED  BY <1>3, <1>4 DEF c

LEMMA LiveFacts ==
    ASSUME NEW s \in Seq(Job)
    PROVE  Pool!Live(s) \in 0..Len(s)
<1>. DEFINE I == {k \in 1..Len(s) : s[k] \notin stopped}
<1>1. Pool!Live(s) = IF I # {} THEN Pool!Min(I) ELSE 0
  BY DEF Pool!Live, Pool!SelectInSeq
<1>2. I \subseteq Nat /\ I \subseteq 1..Len(s) /\ Len(s) \in Nat
  OBVIOUS
<1>3. I # {} => Pool!Min(I) \in I
  BY <1>2, MinIsLeast
<1>. QED  BY <1>1, <1>2, <1>3

\* The retry loop of request_dequeue ends at one request, or with empty fifos;
\* what it leaves it leaves in order, and it leaves nothing it took.
Taken(q, rest, took) ==
    /\ Tidy(rest)
    /\ Pool!Elements(rest) \subseteq Pool!Elements(q)
    /\ took \subseteq Pool!Elements(q) \ Pool!Elements(rest)
    /\ took = {} => Pool!Elements(rest) = {}
    /\ \A x, y \in took : x = y

LEMMA PoppedFacts ==
    ASSUME NEW q, Tidy(q)
    PROVE  Taken(q, Pool!Popped(q), {q[p][Pool!Live(q[p])] : p \in Pool!FirstFifo(q)})
<1>. DEFINE rest == Pool!Popped(q)
            took == {q[p][Pool!Live(q[p])] : p \in Pool!FirstFifo(q)}
            Lost(p) == \E o \in Pool!FirstFifo(q) : o < p
            Has(p) == Pool!Live(q[p]) > 0
<1>1. \A p \in Pool!Priority :
         /\ q[p] \in Seq(Job) /\ Injective(q[p]) /\ Pool!Live(q[p]) \in 0..Len(q[p])
         /\ \A x \in Elems(q[p]) : PriorityOf[x] = p
  BY LiveFacts DEF Tidy
<1>2. \A p \in Pool!Priority :
         rest[p] = IF Lost(p) THEN q[p]
                   ELSE IF Has(p) THEN SubSeq(q[p], Pool!Live(q[p]) + 1, Len(q[p]))
                   ELSE <<>>
  BY DEF Pool!Popped
<1>3. Pool!FirstFifo(q) \subseteq Pool!Priority
      /\ \A p \in Pool!FirstFifo(q) : Has(p) /\ \A o \in Pool!Priority : o < p => ~Has(o)
  <2>1. \A p \in Pool!FirstFifo(q), o \in Pool!Priority : o < p => Pool!Live(q[o]) = 0
    BY DEF Pool!FirstFifo, Pool!Priority
  <2>2. \A p \in Pool!FirstFifo(q) : p \in Pool!Priority /\ Has(p)
    BY DEF Pool!FirstFifo
  <2>. QED  BY <1>1, <2>1, <2>2
<1>4. rest = [p \in Pool!Priority |-> rest[p]]
  BY DEF Pool!Popped
<1>. HIDE DEF rest
<1>5. ASSUME NEW p \in Pool!Priority
      PROVE  /\ rest[p] \in Seq(Job) /\ Injective(rest[p])
             /\ Elems(rest[p]) \subseteq Elems(q[p])
  <2>1. CASE Lost(p)
    BY <1>1, <1>2, <2>1
  <2>2. CASE ~Lost(p) /\ Has(p)
    <3>1. Pool!Live(q[p]) \in 1..Len(q[p])
      BY <1>1, <2>2
    <3>. DEFINE w == SubSeq(q[p], Pool!Live(q[p]) + 1, Len(q[p]))
    <3>2. w \in Seq(Job) /\ Injective(w) /\ Elems(w) \subseteq Elems(q[p])
      BY <1>1, <3>1, CutFacts
    <3>3. rest[p] = w
      BY <1>2, <2>2
    <3>. HIDE DEF w
    <3>. QED  BY <3>2, <3>3
  <2>3. CASE ~Lost(p) /\ ~Has(p)
    <3>1. rest[p] = <<>>
      BY <1>2, <2>3
    <3>2. <<>> \in Seq(Job) /\ Len(<<>>) = 0
      OBVIOUS
    <3>. QED  BY <3>1, <3>2 DEF Injective, Elems
  <2>. QED  BY <2>1, <2>2, <2>3
<1>6. rest \in [Pool!Priority -> Seq(Job)]
  BY <1>4, <1>5
<1>7. Tidy(rest)
  BY <1>1, <1>5, <1>6 DEF Tidy
<1>8. Pool!Elements(rest) \subseteq Pool!Elements(q)
  BY <1>5, <1>6, QueuedWhere DEF Tidy
<1>9. ASSUME NEW x \in took
      PROVE  x \in Pool!Elements(q) /\ x \notin Pool!Elements(rest)
  <2>1. PICK p \in Pool!FirstFifo(q) : x = q[p][Pool!Live(q[p])]
    OBVIOUS
  <2>2. p \in Pool!Priority /\ Has(p) /\ Pool!Live(q[p]) \in 1..Len(q[p])
    BY <1>1, <1>3
  <2>3. x \in Elems(q[p]) /\ PriorityOf[x] = p
    BY <1>1, <2>1, <2>2 DEF Elems
  <2>4. ~Lost(p)
    BY <1>3, <2>2
  <2>5. x \notin Elems(rest[p])
    BY <1>1, <1>2, <2>1, <2>2, <2>4, CutFacts
  <2>6. \A o \in Pool!Priority : x \in Elems(rest[o]) => o = p
    BY <1>1, <1>5, <2>3
  <2>. QED  BY <1>6, <2>2, <2>3, <2>5, <2>6, QueuedWhere DEF Tidy
<1>10. ASSUME took = {} PROVE Pool!Elements(rest) = {}
  <2>1. Pool!FirstFifo(q) = {}
    BY <1>10
  <2>2. \A p \in Pool!Priority : ~Has(p)
    <3>. DEFINE H == {p \in Pool!Priority : Has(p)}
    <3>. SUFFICES ASSUME H # {} PROVE FALSE
      OBVIOUS
    <3>1. H \subseteq Nat /\ Pool!Priority \subseteq Nat
      BY DEF Pool!Priority
    <3>2. Pool!Min(H) \in H /\ \A y \in H : Pool!Min(H) <= y
      BY <3>1, MinIsLeast
    <3>. DEFINE m == Pool!Min(H)
    <3>3. \A o \in 1..m - 1 : o \in Pool!Priority /\ ~Has(o)
      <4>1. \A o \in 1..m - 1 : o \in Pool!Priority /\ o < m
        BY <3>2, PoolConstants DEF Pool!Priority
      <4>2. \A o \in Pool!Priority : o < m => o \notin H
        BY <3>1, <3>2
      <4>. QED  BY <4>1, <4>2
    <3>4. m \in Pool!FirstFifo(q)
      BY <1>1, <3>2, <3>3 DEF Pool!FirstFifo
    <3>. QED  BY <2>1, <3>4
  <2>3. \A p \in Pool!Priority : rest[p] = <<>>
    BY <1>2, <2>1, <2>2
  <2>4. \A p \in Pool!Priority : Elems(rest[p]) = {}
    BY <2>3 DEF Elems
  <2>. QED  BY <1>6, <2>4, QueuedWhere
<1>11. ASSUME NEW p \in Pool!FirstFifo(q), NEW o \in Pool!FirstFifo(q) PROVE p = o
  <2>1. p \in Nat /\ o \in Nat
    BY <1>3 DEF Pool!Priority
  <2>. QED  BY <1>3, <2>1
<1>12. \A x, y \in took : x = y
  BY <1>11
<1>. HIDE DEF took
<1>13. Taken(q, rest, took)
  BY <1>7, <1>8, <1>9, <1>10, <1>12 DEF Taken
<1>. QED  BY <1>13 DEF rest, took

-----------------------------------------------------------------------------
(* The thread pool: the inductive invariant *)

Sites == {"none", "wait", "woken", "run", "after", "exit", "leave", "gone"}
Serving == {"wait", "woken", "run", "after"}
Looping == {"wait", "woken", "run", "after", "exit"}

\* The threads at one of some places, and how many they are.
Occ(f, S) == {t \in Pool!Thread : f[t] \in S}
N(f, S) == Cardinality(Occ(f, S))

LEMMA OccFacts ==
    ASSUME NEW f, NEW S
    PROVE  IsFiniteSet(Occ(f, S)) /\ N(f, S) \in 0..MaxThreads
<1>1. Occ(f, S) \subseteq Pool!Thread
  BY DEF Occ
<1>2. IsFiniteSet(Occ(f, S)) /\ Cardinality(Occ(f, S)) <= MaxThreads
  BY <1>1, PoolConstants, FS_Subset
<1>3. Cardinality(Occ(f, S)) \in Nat
  BY <1>2, FS_CardinalityType
<1>. QED  BY <1>2, <1>3, PoolConstants DEF N

\* One thread goes from one place to another.
LEMMA Moved ==
    ASSUME NEW f \in [Pool!Thread -> Sites], NEW t \in Pool!Thread, NEW s \in Sites
    PROVE  \A S : N([f EXCEPT ![t] = s], S)
                    = N(f, S) + (IF s \in S THEN 1 ELSE 0) - (IF f[t] \in S THEN 1 ELSE 0)
<1>. SUFFICES ASSUME NEW S
              PROVE  N([f EXCEPT ![t] = s], S)
                       = N(f, S) + (IF s \in S THEN 1 ELSE 0)
                                 - (IF f[t] \in S THEN 1 ELSE 0)
  OBVIOUS
<1>. DEFINE g == [f EXCEPT ![t] = s]
<1>1. IsFiniteSet(Occ(f, S)) /\ Cardinality(Occ(f, S)) \in Nat
  BY OccFacts DEF N
<1>2. CASE s \in S /\ f[t] \in S
  <2>1. Occ(g, S) = Occ(f, S)
    BY <1>2 DEF Occ
  <2>. QED  BY <1>1, <1>2, <2>1 DEF N
<1>3. CASE s \in S /\ f[t] \notin S
  <2>1. Occ(g, S) = Occ(f, S) \cup {t} /\ t \notin Occ(f, S)
    BY <1>3 DEF Occ
  <2>2. Cardinality(Occ(g, S)) = Cardinality(Occ(f, S)) + 1
    BY <1>1, <2>1, FS_AddElement
  <2>. QED  BY <1>1, <1>3, <2>2 DEF N
<1>4. CASE s \notin S /\ f[t] \in S
  <2>1. Occ(g, S) = Occ(f, S) \ {t} /\ t \in Occ(f, S)
    BY <1>4 DEF Occ
  <2>2. Cardinality(Occ(g, S)) = Cardinality(Occ(f, S)) - 1
    BY <1>1, <2>1, FS_RemoveElement
  <2>. QED  BY <1>1, <1>4, <2>2 DEF N
<1>5. CASE s \notin S /\ f[t] \notin S
  <2>1. Occ(g, S) = Occ(f, S)
    BY <1>5 DEF Occ
  <2>. QED  BY <1>1, <1>5, <2>1 DEF N
<1>. QED  BY <1>2, <1>3, <1>4, <1>5

LEMMA CountsInt ==
    ASSUME NEW f
    PROVE  /\ N(f, {"run", "after"}) \in Nat /\ N(f, {"leave", "gone"}) \in Nat
           /\ N(f, {"woken"}) \in Nat /\ N(f, Serving) \in Nat /\ N(f, Looping) \in Nat
BY OccFacts

\* What one thread's step from a to s changes in the number of those in S.
By(a, s, S) == (IF s \in S THEN 1 ELSE 0) - (IF a \in S THEN 1 ELSE 0)

LEMMA MovedCounts ==
    ASSUME pc \in [Pool!Thread -> Sites], NEW t \in Pool!Thread, NEW s \in Sites,
           pc' = [pc EXCEPT ![t] = s]
    PROVE  /\ N(pc', {"run", "after"})
                = N(pc, {"run", "after"}) + By(pc[t], s, {"run", "after"})
           /\ N(pc', {"leave", "gone"})
                = N(pc, {"leave", "gone"}) + By(pc[t], s, {"leave", "gone"})
           /\ N(pc', {"woken"}) = N(pc, {"woken"}) + By(pc[t], s, {"woken"})
           /\ N(pc', Serving) = N(pc, Serving) + By(pc[t], s, Serving)
           /\ N(pc', Looping) = N(pc, Looping) + By(pc[t], s, Looping)
<1>. DEFINE g == [pc EXCEPT ![t] = s]
<1>1. \A S : N(g, S) = N(pc, S) + (IF s \in S THEN 1 ELSE 0) - (IF pc[t] \in S THEN 1 ELSE 0)
  BY Moved
<1>2. pc' = g
  OBVIOUS
<1>. HIDE DEF g
<1>3. \A S : N(pc', S) = N(pc, S) + (IF s \in S THEN 1 ELSE 0)
                                  - (IF pc[t] \in S THEN 1 ELSE 0)
  BY <1>1, <1>2
<1>4. \A S : N(pc, S) \in Int
  BY OccFacts
<1>5. \A S : N(pc', S) = N(pc, S) + By(pc[t], s, S)
  BY <1>3, <1>4 DEF By
<1>. QED  BY <1>5

\* The list has the threads there are, and EXITED is said by those that are gone:
\* by all of them if only a cancelled thread leaves before the server stops.
ThreadsOK ==
    /\ list \in Seq(Pool!Thread) /\ Injective(list)
    /\ Elems(list) = {t \in Pool!Thread : pc[t] # "none"}
    /\ pc \in [Pool!Thread -> Sites]
    /\ status \in [Pool!Thread -> {"RUNNING", "CANCELLED", "EXITED"}]
    /\ held \in [Pool!Thread -> Job \cup {NoPacket}]
    /\ handled \in [Pool!Thread -> 0..MaxPerThread]
    /\ \A t \in Pool!Thread :
         /\ pc[t] \in Looping \cup {"leave"} => status[t] # "EXITED"
         /\ MaxPerThread = 0 /\ pc[t] = "gone" => status[t] = "EXITED"
         /\ MaxPerThread = 0 /\ pc[t] \in {"exit", "leave"} /\ ~stop_flag
              => status[t] = "CANCELLED"

\* The master has a request in hand that is new, and the thread it cancels was running
\* when it looked; it still is if threads leave only when they are cancelled.
MasterOK ==
    /\ master \in [at: Pool!MasterAt, req: Job \cup {NoPacket}, spare: 0..MaxThreads,
                   i: 0..MaxThreads + 1]
    /\ stop_flag \in BOOLEAN
    /\ stop_flag <=> master.at \in {"join", "gone"}
    /\ master.at \in {"reap", "adjust", "scan", "cancel", "push"} =>
         master.req \in Job /\ child_state[master.req] = "new"
    /\ master.at = "scan" => master.i \in 1..Len(list) + 1
    /\ master.at = "cancel" =>
         /\ master.i \in 1..Len(list)
         /\ MaxPerThread = 0 => status[list[master.i]] = "RUNNING"
    /\ master.at = "gone" => list = <<>>

\* The counters; once the server stops, every thread still in its loop has a post
\* of its own, and will be counted as exited.
CountsOK ==
    /\ sem \in Nat /\ exited \in Nat
    /\ active = N(pc, {"run", "after"})
    /\ ~stop_flag => exited = N(pc, {"leave", "gone"})
    /\ stop_flag => exited + N(pc, Looping) <= MaxThreads
    /\ num_queued + (IF stop_flag THEN N(pc, Serving) ELSE 0)
         <= sem + N(pc, {"woken"}) + (IF master.at = "post" THEN 1 ELSE 0)

\* A request is in one place: in a fifo, with one thread, or done with.
QueueOK ==
    /\ Tidy(fifo) /\ num_queued \in 0..MaxQueue
    /\ master.at # "gone" => num_queued = Cardinality(Pool!Elements(fifo))
    /\ child_state \in [Job -> {"new", "queued", "running", "done", "refused"}]
    /\ stopped \subseteq Job /\ freed \subseteq Job
    /\ \A x \in Pool!Elements(fifo) : child_state[x] = "queued"
    /\ \A t \in Pool!Thread : pc[t] = "run" =>
         held[t] \in Job /\ child_state[held[t]] = "running"
    /\ \A t, u \in Pool!Thread : pc[t] = "run" /\ pc[u] = "run" /\ held[t] = held[u] => t = u
    /\ \A x \in freed : child_state[x] = "done"

TimesOK ==
    last_cleaned \in 0..MaxTime /\ last_spawned \in 0..MaxTime /\ now \in 1..MaxTime

PoolInv == ThreadsOK /\ MasterOK /\ CountsOK /\ QueueOK /\ TimesOK

LEMMA ThreadsSame ==
    ASSUME ThreadsOK, UNCHANGED <<list, pc, status, held, handled>>, stop_flag => stop_flag'
    PROVE  ThreadsOK'
BY DEF ThreadsOK, Sites, Serving, Looping

LEMMA CountsSame ==
    ASSUME CountsOK, UNCHANGED <<sem, exited, active, num_queued, pc, stop_flag>>,
           master.at = "post" <=> master'.at = "post"
    PROVE  CountsOK'
BY DEF CountsOK

LEMMA QueueSame ==
    ASSUME QueueOK, UNCHANGED <<fifo, num_queued, child_state, stopped, freed, pc, held>>,
           master'.at # "gone" => master.at # "gone"
    PROVE  QueueOK'
BY DEF QueueOK, Tidy, Pool!Elements, Pool!ToSet

LEMMA TimesSame ==
    ASSUME TimesOK, UNCHANGED <<last_cleaned, last_spawned, now>>
    PROVE  TimesOK'
BY DEF TimesOK

LEMMA MasterSame ==
    ASSUME MasterOK, UNCHANGED <<master, stop_flag, list, status>>,
           \A x \in Job : child_state[x] = "new" => child_state'[x] = "new"
    PROVE  MasterOK'
BY DEF MasterOK

\* The number of threads in the list.
LEMMA ListLength ==
    ASSUME NEW s \in Seq(Pool!Thread), Injective(s), NEW f \in [Pool!Thread -> Sites],
           Elems(s) = {t \in Pool!Thread : f[t] # "none"}
    PROVE  /\ Len(s) \in 0..MaxThreads
           /\ Cardinality(Occ(f, {"none"})) = MaxThreads - Len(s)
           /\ N(f, {"run", "after"}) <= Len(s)
           /\ N(f, Serving) <= Len(s)
<1>. DEFINE here == Sites \ {"none"}
<1>1. Occ(f, here) = Elems(s)
  BY DEF Occ, Sites
<1>2. Len(s) = N(f, here)
  BY <1>1, InjectiveLength DEF N
<1>3. Occ(f, {"none"}) = Pool!Thread \ Occ(f, here)
  BY DEF Occ
<1>4. Cardinality(Occ(f, {"none"})) = MaxThreads - N(f, here)
  <2>1. Pool!Thread \cap Occ(f, here) = Occ(f, here)
    BY DEF Occ
  <2>. QED  BY <1>3, <2>1, PoolConstants, FS_Difference DEF N
<1>5. {"run", "after"} \subseteq here /\ Serving \subseteq here
  BY DEF Sites, Serving
<1>. HIDE DEF here
<1>6. \A S \in SUBSET here : N(f, S) <= N(f, here)
  <2>1. \A S \in SUBSET here : Occ(f, S) \subseteq Occ(f, here)
    BY DEF Occ
  <2>. QED  BY <2>1, OccFacts, FS_Subset DEF N
<1>7. N(f, here) \in 0..MaxThreads
  BY OccFacts
<1>. QED  BY <1>2, <1>4, <1>5, <1>6, <1>7

-----------------------------------------------------------------------------
(* The thread pool: the children keep it *)

\* A child that does not touch a request leaves QueueOK alone.
LEMMA ChildQueue ==
    ASSUME QueueOK, UNCHANGED <<fifo, num_queued, child_state, stopped, freed, held, master>>,
           ThreadsOK, NEW t \in Pool!Thread, NEW s \in Sites \ {"run"}, pc' = [pc EXCEPT ![t] = s]
    PROVE  QueueOK'
<1>1. \A u \in Pool!Thread : pc'[u] = "run" => pc[u] = "run"
  BY DEF ThreadsOK
<1>. QED  BY <1>1 DEF QueueOK, Tidy, Pool!Elements, Pool!ToSet

LEMMA WakeKeeps ==
    ASSUME PoolInv, NEW t \in Pool!Thread, Pool!Wake(t)
    PROVE  PoolInv'
<1>. USE DEF PoolInv
<1>1. /\ pc[t] = "wait" /\ sem > 0 /\ sem' = sem - 1 /\ pc' = [pc EXCEPT ![t] = "woken"]
      /\ UNCHANGED <<list, status, held, handled, fifo, num_queued, active, exited, last_cleaned,
                     last_spawned, now, stop_flag, master, child_state, stopped, freed>>
  BY DEF Pool!Wake, Pool!timeVars, Pool!reqVars
<1>2. pc \in [Pool!Thread -> Sites] /\ "woken" \in Sites \ {"run"}
  BY DEF ThreadsOK, Sites
<1>3. ThreadsOK'
  BY <1>1 DEF ThreadsOK, Sites, Serving, Looping
<1>4. MasterOK'
  BY <1>1, MasterSame
<1>5. QueueOK'
  BY <1>1, <1>2, ChildQueue
<1>6. CountsOK'
  <2>0. /\ N(pc', {"run", "after"}) = N(pc, {"run", "after"}) + By("wait", "woken", {"run", "after"})
        /\ N(pc', {"leave", "gone"}) = N(pc, {"leave", "gone"}) + By("wait", "woken", {"leave", "gone"})
        /\ N(pc', {"woken"}) = N(pc, {"woken"}) + By("wait", "woken", {"woken"})
        /\ N(pc', Serving) = N(pc, Serving) + By("wait", "woken", Serving)
        /\ N(pc', Looping) = N(pc, Looping) + By("wait", "woken", Looping)
    BY <1>1, <1>2, MovedCounts
  <2>1. /\ N(pc', {"run", "after"}) = N(pc, {"run", "after"})
        /\ N(pc', {"leave", "gone"}) = N(pc, {"leave", "gone"})
        /\ N(pc', Serving) = N(pc, Serving)
        /\ N(pc', Looping) = N(pc, Looping)
        /\ N(pc', {"woken"}) = N(pc, {"woken"}) + 1
    BY <1>2, <2>0, CountsInt DEF By, Serving, Looping
  <2>2. N(pc, {"woken"}) \in Int /\ N(pc, Serving) \in Int /\ num_queued \in Int
    BY OccFacts, PoolConstants DEF QueueOK
  <2>. QED  BY <1>1, <2>1, <2>2 DEF CountsOK
<1>7. TimesOK'
  BY <1>1, TimesSame
<1>. QED  BY <1>3, <1>4, <1>5, <1>6, <1>7

LEMMA SeeStopKeeps ==
    ASSUME PoolInv, NEW t \in Pool!Thread, Pool!SeeStop(t)
    PROVE  PoolInv'
<1>. USE DEF PoolInv
<1>1. /\ pc[t] = "woken" /\ stop_flag /\ pc' = [pc EXCEPT ![t] = "exit"]
      /\ UNCHANGED <<list, status, held, handled, sem, fifo, num_queued, active, exited,
                     last_cleaned, last_spawned, now, stop_flag, master, child_state, stopped,
                     freed>>
  BY DEF Pool!SeeStop, Pool!queueVars, Pool!timeVars, Pool!reqVars
<1>2. pc \in [Pool!Thread -> Sites] /\ "exit" \in Sites \ {"run"}
  BY DEF ThreadsOK, Sites
<1>3. ThreadsOK'
  BY <1>1 DEF ThreadsOK, Sites, Serving, Looping
<1>4. MasterOK'
  BY <1>1, MasterSame
<1>5. QueueOK'
  BY <1>1, <1>2, ChildQueue
<1>6. CountsOK'
  <2>0. /\ N(pc', {"run", "after"}) = N(pc, {"run", "after"}) + By("woken", "exit", {"run", "after"})
        /\ N(pc', {"leave", "gone"}) = N(pc, {"leave", "gone"}) + By("woken", "exit", {"leave", "gone"})
        /\ N(pc', {"woken"}) = N(pc, {"woken"}) + By("woken", "exit", {"woken"})
        /\ N(pc', Serving) = N(pc, Serving) + By("woken", "exit", Serving)
        /\ N(pc', Looping) = N(pc, Looping) + By("woken", "exit", Looping)
    BY <1>1, <1>2, MovedCounts
  <2>1. /\ N(pc', {"run", "after"}) = N(pc, {"run", "after"})
        /\ N(pc', Serving) = N(pc, Serving) - 1
        /\ N(pc', Looping) = N(pc, Looping)
        /\ N(pc', {"woken"}) = N(pc, {"woken"}) - 1
    BY <1>2, <2>0, CountsInt DEF By, Serving, Looping
  <2>2. N(pc, {"woken"}) \in Int /\ N(pc, Serving) \in Int /\ num_queued \in Int
    BY OccFacts, PoolConstants DEF QueueOK
  <2>. QED  BY <1>1, <2>1, <2>2 DEF CountsOK
<1>7. TimesOK'
  BY <1>1, TimesSame
<1>. QED  BY <1>3, <1>4, <1>5, <1>6, <1>7

LEMMA RunKeeps ==
    ASSUME PoolInv, NEW t \in Pool!Thread, Pool!Run(t)
    PROVE  PoolInv'
<1>. USE DEF PoolInv
<1>1. /\ pc[t] = "run" /\ pc' = [pc EXCEPT ![t] = "after"]
      /\ child_state' = [child_state EXCEPT ![held[t]] = "done"]
      /\ UNCHANGED <<list, status, held, handled, sem, fifo, num_queued, active, exited,
                     last_cleaned, last_spawned, now, stop_flag, master, stopped, freed>>
  BY DEF Pool!Run, Pool!queueVars, Pool!timeVars
<1>2. pc \in [Pool!Thread -> Sites] /\ "after" \in Sites
  BY DEF ThreadsOK, Sites
<1>3. ThreadsOK'
  BY <1>1 DEF ThreadsOK, Sites, Serving, Looping
<1>4. held[t] \in Job /\ child_state[held[t]] = "running"
  BY <1>1 DEF QueueOK
<1>5. MasterOK'
  <2>1. \A x \in Job : child_state[x] = "new" => child_state'[x] = "new"
    BY <1>1, <1>4 DEF QueueOK
  <2>. QED  BY <1>1, <2>1, MasterSame
<1>6. QueueOK'
  <2>1. \A u \in Pool!Thread : pc'[u] = "run" => pc[u] = "run" /\ u # t /\ held[u] # held[t]
    BY <1>1, <1>2 DEF QueueOK
  <2>2. Tidy(fifo)' /\ Pool!Elements(fifo)' = Pool!Elements(fifo)
        /\ Pool!Elements(fifo) \subseteq Job
    BY <1>1, QueuedWhere DEF QueueOK, Tidy, Pool!Elements, Pool!ToSet
  <2>3. \A x \in Job : child_state'[x] = IF x = held[t] THEN "done" ELSE child_state[x]
    BY <1>1 DEF QueueOK
  <2>4. child_state' \in [Job -> {"new", "queued", "running", "done", "refused"}]
    BY <1>1 DEF QueueOK
  <2>5. \A x \in Pool!Elements(fifo)' : child_state'[x] = "queued"
    BY <1>4, <2>2, <2>3 DEF QueueOK
  <2>6. \A u \in Pool!Thread : pc'[u] = "run" =>
            held'[u] \in Job /\ child_state'[held'[u]] = "running"
    BY <1>1, <2>1, <2>3 DEF QueueOK
  <2>7. \A x \in freed' : child_state'[x] = "done"
    BY <1>1, <2>3 DEF QueueOK
  <2>. QED  BY <1>1, <2>1, <2>2, <2>4, <2>5, <2>6, <2>7 DEF QueueOK
<1>7. CountsOK'
  <2>0. /\ N(pc', {"run", "after"}) = N(pc, {"run", "after"}) + By("run", "after", {"run", "after"})
        /\ N(pc', {"leave", "gone"}) = N(pc, {"leave", "gone"}) + By("run", "after", {"leave", "gone"})
        /\ N(pc', {"woken"}) = N(pc, {"woken"}) + By("run", "after", {"woken"})
        /\ N(pc', Serving) = N(pc, Serving) + By("run", "after", Serving)
        /\ N(pc', Looping) = N(pc, Looping) + By("run", "after", Looping)
    BY <1>1, <1>2, MovedCounts
  <2>1. /\ N(pc', {"run", "after"}) = N(pc, {"run", "after"})
        /\ N(pc', {"leave", "gone"}) = N(pc, {"leave", "gone"})
        /\ N(pc', Serving) = N(pc, Serving)
        /\ N(pc', Looping) = N(pc, Looping)
        /\ N(pc', {"woken"}) = N(pc, {"woken"})
    BY <1>2, <2>0, CountsInt DEF By, Serving, Looping
  <2>. QED  BY <1>1, <2>1 DEF CountsOK
<1>8. TimesOK'
  BY <1>1, TimesSame
<1>. QED  BY <1>3, <1>5, <1>6, <1>7, <1>8

LEMMA AfterKeeps ==
    ASSUME PoolInv, NEW t \in Pool!Thread, Pool!After(t)
    PROVE  PoolInv'
<1>. USE DEF PoolInv
<1>. DEFINE s == IF MaxPerThread > 0 /\ handled[t] >= MaxPerThread THEN "exit"
                 ELSE IF status[t] # "CANCELLED" THEN "wait" ELSE "exit"
<1>1. /\ pc[t] = "after" /\ pc' = [pc EXCEPT ![t] = s]
      /\ held' = [held EXCEPT ![t] = NoPacket] /\ active' = active - 1
      /\ UNCHANGED <<list, status, handled, sem, fifo, num_queued, exited,
                     last_cleaned, last_spawned, now, stop_flag, master, child_state, stopped,
                     freed>>
  BY DEF Pool!After, Pool!Again, Pool!timeVars, Pool!reqVars
<1>2. pc \in [Pool!Thread -> Sites] /\ s \in {"wait", "exit"} /\ s \in Sites
      /\ (MaxPerThread = 0 /\ s = "exit" => status[t] = "CANCELLED")
  BY DEF ThreadsOK, Sites
<1>. HIDE DEF s
<1>3. ThreadsOK'
  BY <1>1, <1>2 DEF ThreadsOK, Sites, Serving, Looping
<1>4. MasterOK'
  BY <1>1, MasterSame
<1>5. QueueOK'
  <2>1. \A u \in Pool!Thread : pc'[u] = "run" => pc[u] = "run" /\ held'[u] = held[u]
    BY <1>1, <1>2 DEF ThreadsOK
  <2>2. Tidy(fifo)' /\ Pool!Elements(fifo)' = Pool!Elements(fifo)
    BY <1>1 DEF QueueOK, Tidy, Pool!Elements, Pool!ToSet
  <2>. QED  BY <1>1, <2>1, <2>2 DEF QueueOK
<1>6. CountsOK'
  <2>0. /\ N(pc', {"run", "after"}) = N(pc, {"run", "after"}) + By("after", s, {"run", "after"})
        /\ N(pc', {"leave", "gone"}) = N(pc, {"leave", "gone"}) + By("after", s, {"leave", "gone"})
        /\ N(pc', {"woken"}) = N(pc, {"woken"}) + By("after", s, {"woken"})
        /\ N(pc', Serving) = N(pc, Serving) + By("after", s, Serving)
        /\ N(pc', Looping) = N(pc, Looping) + By("after", s, Looping)
    BY <1>1, <1>2, MovedCounts
  <2>1. /\ N(pc', {"run", "after"}) = N(pc, {"run", "after"}) - 1
        /\ N(pc', {"leave", "gone"}) = N(pc, {"leave", "gone"})
        /\ N(pc', Serving) <= N(pc, Serving)
        /\ N(pc', Looping) = N(pc, Looping)
        /\ N(pc', {"woken"}) = N(pc, {"woken"})
    BY <1>2, <2>0, CountsInt DEF By, Serving, Looping
  <2>2. /\ N(pc, {"woken"}) \in Int /\ N(pc, Serving) \in Int /\ num_queued \in Int
        /\ N(pc', Serving) \in Int
    BY OccFacts, PoolConstants DEF QueueOK
  <2>. QED  BY <1>1, <2>1, <2>2 DEF CountsOK
<1>7. TimesOK'
  BY <1>1, TimesSame
<1>. QED  BY <1>3, <1>4, <1>5, <1>6, <1>7

LEMMA CountExitKeeps ==
    ASSUME PoolInv, NEW t \in Pool!Thread, Pool!CountExit(t)
    PROVE  PoolInv'
<1>. USE DEF PoolInv
<1>1. /\ pc[t] = "exit" /\ pc' = [pc EXCEPT ![t] = "leave"] /\ exited' = exited + 1
      /\ UNCHANGED <<list, status, held, handled, sem, fifo, num_queued, active,
                     last_cleaned, last_spawned, now, stop_flag, master, child_state, stopped,
                     freed>>
  BY DEF Pool!CountExit, Pool!timeVars, Pool!reqVars
<1>2. pc \in [Pool!Thread -> Sites] /\ "leave" \in Sites \ {"run"}
  BY DEF ThreadsOK, Sites
<1>3. ThreadsOK'
  BY <1>1 DEF ThreadsOK, Sites, Serving, Looping
<1>4. MasterOK'
  BY <1>1, MasterSame
<1>5. QueueOK'
  BY <1>1, <1>2, ChildQueue
<1>6. CountsOK'
  <2>0. /\ N(pc', {"run", "after"}) = N(pc, {"run", "after"}) + By("exit", "leave", {"run", "after"})
        /\ N(pc', {"leave", "gone"}) = N(pc, {"leave", "gone"}) + By("exit", "leave", {"leave", "gone"})
        /\ N(pc', {"woken"}) = N(pc, {"woken"}) + By("exit", "leave", {"woken"})
        /\ N(pc', Serving) = N(pc, Serving) + By("exit", "leave", Serving)
        /\ N(pc', Looping) = N(pc, Looping) + By("exit", "leave", Looping)
    BY <1>1, <1>2, MovedCounts
  <2>1. /\ N(pc', {"run", "after"}) = N(pc, {"run", "after"})
        /\ N(pc', {"leave", "gone"}) = N(pc, {"leave", "gone"}) + 1
        /\ N(pc', Serving) = N(pc, Serving)
        /\ N(pc', Looping) = N(pc, Looping) - 1
        /\ N(pc', {"woken"}) = N(pc, {"woken"})
    BY <1>2, <2>0, CountsInt DEF By, Serving, Looping
  <2>2. N(pc, Looping) \in Int /\ MaxThreads \in Int
    BY OccFacts, PoolConstants
  <2>. QED  BY <1>1, <2>1, <2>2 DEF CountsOK
<1>7. TimesOK'
  BY <1>1, TimesSame
<1>. QED  BY <1>3, <1>4, <1>5, <1>6, <1>7

LEMMA LeaveKeeps ==
    ASSUME PoolInv, NEW t \in Pool!Thread, Pool!Leave(t)
    PROVE  PoolInv'
<1>. USE DEF PoolInv
<1>1. /\ pc[t] = "leave" /\ pc' = [pc EXCEPT ![t] = "gone"]
      /\ status' = [status EXCEPT ![t] = "EXITED"]
      /\ UNCHANGED <<list, held, handled, sem, fifo, num_queued, active, exited,
                     last_cleaned, last_spawned, now, stop_flag, master, child_state, stopped,
                     freed>>
  BY DEF Pool!Leave, Pool!queueVars, Pool!timeVars, Pool!reqVars
<1>2. pc \in [Pool!Thread -> Sites] /\ "gone" \in Sites \ {"run"}
  BY DEF ThreadsOK, Sites
<1>3. ThreadsOK'
  BY <1>1 DEF ThreadsOK, Sites, Serving, Looping
<1>4. MasterOK'
  <2>1. ASSUME master.at = "cancel", MaxPerThread = 0
        PROVE  status'[list[master.i]] = "RUNNING"
    <3>1. ~stop_flag /\ status[list[master.i]] = "RUNNING" /\ status[t] = "CANCELLED"
      BY <1>1, <2>1 DEF MasterOK, ThreadsOK
    <3>2. list[master.i] \in Pool!Thread
      BY <2>1 DEF MasterOK, ThreadsOK
    <3>. QED  BY <1>1, <3>1, <3>2 DEF ThreadsOK
  <2>. QED  BY <1>1, <2>1 DEF MasterOK
<1>5. QueueOK'
  BY <1>1, <1>2, ChildQueue
<1>6. CountsOK'
  <2>0. /\ N(pc', {"run", "after"}) = N(pc, {"run", "after"}) + By("leave", "gone", {"run", "after"})
        /\ N(pc', {"leave", "gone"}) = N(pc, {"leave", "gone"}) + By("leave", "gone", {"leave", "gone"})
        /\ N(pc', {"woken"}) = N(pc, {"woken"}) + By("leave", "gone", {"woken"})
        /\ N(pc', Serving) = N(pc, Serving) + By("leave", "gone", Serving)
        /\ N(pc', Looping) = N(pc, Looping) + By("leave", "gone", Looping)
    BY <1>1, <1>2, MovedCounts
  <2>1. /\ N(pc', {"run", "after"}) = N(pc, {"run", "after"})
        /\ N(pc', {"leave", "gone"}) = N(pc, {"leave", "gone"})
        /\ N(pc', Serving) = N(pc, Serving)
        /\ N(pc', Looping) = N(pc, Looping)
        /\ N(pc', {"woken"}) = N(pc, {"woken"})
    BY <1>2, <2>0, CountsInt DEF By, Serving, Looping
  <2>. QED  BY <1>1, <2>1 DEF CountsOK
<1>7. TimesOK'
  BY <1>1, TimesSame
<1>. QED  BY <1>3, <1>4, <1>5, <1>6, <1>7

\* What request_dequeue met, took and left are the fifos together.
LEMMA DequeueFacts ==
    ASSUME Tidy(fifo)
    PROVE  LET q == Pool!Cleared(fifo)
               rest == Pool!Popped(q)
               took == {q[p][Pool!Live(q[p])] : p \in Pool!FirstFifo(q)}
               acked == (Pool!Elements(fifo) \ Pool!Elements(rest)) \ took
               all == Pool!Elements(fifo)
           IN  /\ Tidy(rest) /\ Pool!Elements(rest) \subseteq all
               /\ took \subseteq all \ Pool!Elements(rest)
               /\ Cardinality(all) - Pool!Cardinality(acked) - Pool!Cardinality(took)
                    = Cardinality(Pool!Elements(rest))
               /\ Cardinality(Pool!Elements(rest)) \in 0..Cardinality(all)
               /\ took = {} => Cardinality(Pool!Elements(rest)) = 0
               /\ took # {} => Cardinality(Pool!Elements(rest)) <= Cardinality(all) - 1
               /\ \A x, y \in took : x = y
<1>. DEFINE q == Pool!Cleared(fifo)
            rest == Pool!Popped(q)
            took == {q[p][Pool!Live(q[p])] : p \in Pool!FirstFifo(q)}
            all == Pool!Elements(fifo)
            kept == Pool!Elements(rest)
            acked == (all \ kept) \ took
<1>1. Tidy(q) /\ Pool!Elements(q) \subseteq all
  BY ClearedFacts
<1>2. /\ Tidy(rest) /\ kept \subseteq Pool!Elements(q)
      /\ took \subseteq Pool!Elements(q) \ kept
      /\ took = {} => kept = {}
      /\ \A x, y \in took : x = y
  <2>. HIDE DEF q
  <2>1. Taken(q, rest, took)
    BY <1>1, PoppedFacts
  <2>. HIDE DEF rest, took
  <2>. QED  BY <2>1 DEF Taken
<1>. HIDE DEF q, rest, took
<1>3. IsFiniteSet(all) /\ Cardinality(all) \in Nat
  BY QueuedWhere DEF Tidy
<1>4. /\ kept \subseteq all /\ took \subseteq all \ kept
      /\ IsFiniteSet(kept) /\ IsFiniteSet(took) /\ IsFiniteSet(acked)
      /\ Cardinality(kept) \in Nat /\ Cardinality(took) \in Nat /\ Cardinality(acked) \in Nat
  <2>1. kept \subseteq all /\ took \subseteq all \ kept /\ took \subseteq all
        /\ acked \subseteq all
    BY <1>1, <1>2
  <2>. HIDE DEF kept, all, acked
  <2>2. IsFiniteSet(kept) /\ IsFiniteSet(took) /\ IsFiniteSet(acked)
    BY <1>3, <2>1, FS_Subset
  <2>. QED  BY <2>1, <2>2, FS_CardinalityType
<1>5. Cardinality(all) = Cardinality(acked) + Cardinality(took) + Cardinality(kept)
  <2>1. all = (acked \cup took) \cup kept /\ (acked \cup took) \cap kept = {}
        /\ acked \cap took = {}
    BY <1>4
  <2>. HIDE DEF all, kept, acked
  <2>2. IsFiniteSet(acked \cup took)
        /\ Cardinality(acked \cup took)
             = Cardinality(acked) + Cardinality(took) - Cardinality(acked \cap took)
    BY <1>4, FS_Union
  <2>3. Cardinality(all) = Cardinality(acked \cup took) + Cardinality(kept)
                             - Cardinality((acked \cup took) \cap kept)
    BY <1>4, <2>1, <2>2, FS_Union
  <2>4. Cardinality({}) = 0
    BY FS_EmptySet
  <2>. QED  BY <1>4, <2>1, <2>2, <2>3, <2>4
<1>6. took # {} => Cardinality(took) >= 1
  BY <1>4, FS_EmptySet
<1>7. took = {} => Cardinality(kept) = 0
  BY <1>2, FS_EmptySet
<1>8. Pool!Cardinality(acked) = Cardinality(acked) /\ Pool!Cardinality(took) = Cardinality(took)
  BY SameCount
<1>. HIDE DEF all, kept, acked
<1>9. /\ Cardinality(all) - Pool!Cardinality(acked) - Pool!Cardinality(took)
           = Cardinality(kept)
      /\ Cardinality(kept) \in 0..Cardinality(all)
      /\ took # {} => Cardinality(kept) <= Cardinality(all) - 1
  BY <1>3, <1>4, <1>5, <1>6, <1>8
<1>. QED  BY <1>2, <1>4, <1>7, <1>9 DEF q, rest, took, all, kept, acked

LEMMA DequeueKeeps ==
    ASSUME PoolInv, NEW t \in Pool!Thread, Pool!request_dequeue(t)
    PROVE  PoolInv'
<1>. USE DEF PoolInv
<1>. DEFINE q == Pool!Cleared(fifo)
            rest == Pool!Popped(q)
            took == {q[p][Pool!Live(q[p])] : p \in Pool!FirstFifo(q)}
            all == Pool!Elements(fifo)
            kept == Pool!Elements(rest)
            acked == (all \ kept) \ took
            s == IF status[t] # "CANCELLED" THEN "wait" ELSE "exit"
<1>1. /\ pc[t] = "woken" /\ ~stop_flag /\ fifo' = rest
      /\ num_queued' = num_queued - Pool!Cardinality(acked) - Pool!Cardinality(took)
      /\ child_state' = [x \in Job |-> IF x \in acked THEN "done"
                                       ELSE IF x \in took THEN "running" ELSE child_state[x]]
      /\ UNCHANGED <<list, status, sem, exited, last_cleaned, last_spawned, now, stop_flag,
                     master, stopped, freed>>
  BY DEF Pool!request_dequeue, Pool!timeVars
<1>2. \/ /\ took = {} /\ pc' = [pc EXCEPT ![t] = s]
         /\ UNCHANGED <<held, handled, active>>
      \/ \E x \in took :
           /\ held' = [held EXCEPT ![t] = x]
           /\ handled' = [handled EXCEPT ![t] = IF @ < MaxPerThread THEN @ + 1 ELSE @]
           /\ active' = active + 1
           /\ pc' = [pc EXCEPT ![t] = "run"]
  BY DEF Pool!request_dequeue, Pool!Again
<1>3. /\ Tidy(rest) /\ kept \subseteq all /\ took \subseteq all \ kept
      /\ Cardinality(all) - Pool!Cardinality(acked) - Pool!Cardinality(took) = Cardinality(kept)
      /\ Cardinality(kept) \in 0..Cardinality(all)
      /\ took = {} => Cardinality(kept) = 0
      /\ took # {} => Cardinality(kept) <= Cardinality(all) - 1
      /\ \A x, y \in took : x = y
  BY DequeueFacts DEF QueueOK
<1>. HIDE DEF rest, took, acked
<1>4. num_queued = Cardinality(all) /\ all \subseteq Job
      /\ \A x \in all : child_state[x] = "queued"
  BY <1>1, QueuedWhere DEF QueueOK, MasterOK, Tidy
<1>5. num_queued' = Cardinality(kept) /\ num_queued' \in 0..MaxQueue /\ num_queued' <= num_queued
      /\ (took = {} => num_queued' = 0) /\ (took # {} => num_queued' <= num_queued - 1)
  BY <1>1, <1>3, <1>4, PoolConstants DEF QueueOK
<1>6. Pool!Elements(fifo)' = kept
  BY <1>1 DEF Pool!Elements, Pool!ToSet
<1>. HIDE DEF all, kept
<1>7. /\ acked \subseteq all /\ took \subseteq all /\ took \cap kept = {}
      /\ acked \cap kept = {} /\ kept \subseteq all
  BY <1>3 DEF acked
<1>8. /\ \A x \in Job : x \notin all => child_state'[x] = child_state[x]
      /\ \A x \in kept : child_state'[x] = "queued"
      /\ \A x \in took : child_state'[x] = "running" /\ x \in Job
      /\ child_state' \in [Job -> {"new", "queued", "running", "done", "refused"}]
  <2>1. \A x \in Job : child_state'[x] = IF x \in acked THEN "done"
                                         ELSE IF x \in took THEN "running" ELSE child_state[x]
    BY <1>1
  <2>2. child_state' = [x \in Job |-> child_state'[x]]
    BY <1>1
  <2>3. \A x \in took : x \notin acked
    BY DEF acked
  <2>4. \A x \in Job : child_state'[x] \in {"new", "queued", "running", "done", "refused"}
    BY <2>1 DEF QueueOK
  <2>5. /\ \A x \in Job : x \notin all => child_state'[x] = child_state[x]
        /\ \A x \in kept : child_state'[x] = "queued"
        /\ \A x \in took : child_state'[x] = "running" /\ x \in Job
    BY <1>4, <1>7, <2>1, <2>3
  <2>. QED  BY <2>2, <2>4, <2>5
<1>9. MasterOK'
  <2>1. \A x \in Job : child_state[x] = "new" => child_state'[x] = "new"
    BY <1>4, <1>8
  <2>. QED  BY <1>1, <2>1, MasterSame
<1>10. TimesOK'
  BY <1>1, TimesSame
<1>11. pc \in [Pool!Thread -> Sites] /\ {"wait", "exit", "run"} \subseteq Sites
       /\ pc[t] = "woken" /\ N(pc, {"woken"}) \in Nat
  BY <1>1, CountsInt DEF ThreadsOK, Sites
<1>12. \A u \in Pool!Thread : pc[u] = "run" =>
          held[u] \in Job /\ held[u] \notin all /\ child_state[held[u]] = "running"
          /\ child_state'[held[u]] = "running"
  <2>1. \A u \in Pool!Thread : pc[u] = "run" =>
            held[u] \in Job /\ child_state[held[u]] = "running"
    BY DEF QueueOK
  <2>. QED  BY <1>4, <1>8, <2>1
<1>13. \A x \in freed' : child_state'[x] = "done"
  BY <1>1, <1>4, <1>8 DEF QueueOK
<1>14. /\ Tidy(fifo)' /\ num_queued' \in 0..MaxQueue
       /\ master'.at # "gone" => num_queued' = Cardinality(Pool!Elements(fifo)')
       /\ stopped' \subseteq Job /\ freed' \subseteq Job
       /\ \A x \in Pool!Elements(fifo)' : child_state'[x] = "queued"
  <2>1. Tidy(fifo)'
    BY <1>1, <1>3 DEF Tidy
  <2>. QED  BY <1>1, <1>5, <1>6, <1>8, <2>1 DEF QueueOK
<1>15. CASE took = {} /\ pc' = [pc EXCEPT ![t] = s] /\ UNCHANGED <<held, handled, active>>
  <2>1. s \in {"wait", "exit"} /\ (s = "exit" => status[t] = "CANCELLED")
    OBVIOUS
  <2>. HIDE DEF s
  <2>2. ThreadsOK'
    BY <1>1, <1>11, <1>15, <2>1 DEF ThreadsOK, Sites, Serving, Looping
  <2>3. QueueOK'
    <3>1. \A u \in Pool!Thread : pc'[u] = "run" => pc[u] = "run"
      BY <1>11, <1>15, <2>1
    <3>. QED  BY <1>8, <1>12, <1>13, <1>14, <1>15, <3>1 DEF QueueOK
  <2>4. CountsOK'
    <3>1. s \in Sites
      BY <1>11, <2>1
    <3>2. /\ N(pc', {"run", "after"}) = N(pc, {"run", "after"}) + By("woken", s, {"run", "after"})
          /\ N(pc', {"leave", "gone"})
               = N(pc, {"leave", "gone"}) + By("woken", s, {"leave", "gone"})
          /\ N(pc', {"woken"}) = N(pc, {"woken"}) + By("woken", s, {"woken"})
      BY <1>11, <1>15, <3>1, MovedCounts
    <3>3. /\ N(pc', {"run", "after"}) = N(pc, {"run", "after"})
          /\ N(pc', {"leave", "gone"}) = N(pc, {"leave", "gone"})
      BY <2>1, <3>2, CountsInt DEF By
    <3>4. N(pc', {"woken"}) \in Nat
      BY CountsInt
    <3>5. /\ num_queued' = 0 /\ ~stop_flag /\ active' = active
          /\ UNCHANGED <<sem, exited, stop_flag, master>>
      BY <1>1, <1>5, <1>15
    <3>. QED  BY <3>3, <3>4, <3>5 DEF CountsOK
  <2>. QED  BY <1>9, <1>10, <2>2, <2>3, <2>4
<1>16. ASSUME NEW x \in took,
              held' = [held EXCEPT ![t] = x],
              handled' = [handled EXCEPT ![t] = IF @ < MaxPerThread THEN @ + 1 ELSE @],
              active' = active + 1,
              pc' = [pc EXCEPT ![t] = "run"]
       PROVE  PoolInv'
  <2>1. x \in Job /\ child_state'[x] = "running" /\ x \in all
    BY <1>7, <1>8
  <2>2. handled' \in [Pool!Thread -> 0..MaxPerThread]
    BY <1>16, PoolConstants DEF ThreadsOK
  <2>3. ThreadsOK'
    BY <1>1, <1>11, <1>16, <2>1, <2>2 DEF ThreadsOK, Sites, Serving, Looping
  <2>4. QueueOK'
    <3>1. \A u \in Pool!Thread : pc'[u] = "run" =>
             held'[u] = (IF u = t THEN x ELSE held[u]) /\ (u = t \/ pc[u] = "run")
      BY <1>11, <1>16 DEF ThreadsOK
    <3>2. \A u \in Pool!Thread : pc'[u] = "run" =>
              held'[u] \in Job /\ child_state'[held'[u]] = "running"
      BY <1>12, <2>1, <3>1
    <3>3. \A u, v \in Pool!Thread :
              pc'[u] = "run" /\ pc'[v] = "run" /\ held'[u] = held'[v] => u = v
      BY <1>12, <2>1, <3>1 DEF QueueOK
    <3>. QED  BY <1>8, <1>13, <1>14, <3>2, <3>3 DEF QueueOK
  <2>5. CountsOK'
    <3>1. "run" \in Sites
      BY <1>11
    <3>2. /\ N(pc', {"run", "after"})
               = N(pc, {"run", "after"}) + By("woken", "run", {"run", "after"})
          /\ N(pc', {"leave", "gone"})
               = N(pc, {"leave", "gone"}) + By("woken", "run", {"leave", "gone"})
          /\ N(pc', {"woken"}) = N(pc, {"woken"}) + By("woken", "run", {"woken"})
      BY <1>11, <1>16, <3>1, MovedCounts
    <3>3. /\ N(pc', {"run", "after"}) = N(pc, {"run", "after"}) + 1
          /\ N(pc', {"leave", "gone"}) = N(pc, {"leave", "gone"})
          /\ N(pc', {"woken"}) = N(pc, {"woken"}) - 1
      BY <3>2, CountsInt DEF By
    <3>4. num_queued' <= num_queued - 1 /\ num_queued' \in Int /\ num_queued \in Int
      BY <1>5, PoolConstants DEF QueueOK
    <3>5. ~stop_flag /\ UNCHANGED <<sem, exited, stop_flag, master>>
      BY <1>1
    <3>6. N(pc, {"woken"}) \in Nat /\ N(pc, {"run", "after"}) \in Nat
      BY CountsInt
    <3>. QED  BY <1>16, <3>3, <3>4, <3>5, <3>6 DEF CountsOK
  <2>. QED  BY <1>9, <1>10, <2>3, <2>4, <2>5
<1>. QED  BY <1>2, <1>15, <1>16

-----------------------------------------------------------------------------
(* The thread pool: the master keeps it *)

LEMMA EnqueueKeeps ==
    ASSUME PoolInv, NEW r \in Job, Pool!request_enqueue(r)
    PROVE  PoolInv'
<1>. USE DEF PoolInv
<1>1. /\ master.at = "idle" /\ child_state[r] = "new"
      /\ \E a \in {"reap", "push"} : master' = [at |-> a, req |-> r, spare |-> 0, i |-> 0]
      /\ UNCHANGED <<list, pc, status, held, handled, sem, fifo, num_queued, active, exited,
                     last_cleaned, last_spawned, now, stop_flag, child_state, stopped, freed>>
  BY DEF Pool!request_enqueue, Pool!poolVars, Pool!queueVars, Pool!timeVars, Pool!reqVars
<1>2. PICK a \in {"reap", "push"} : master' = [at |-> a, req |-> r, spare |-> 0, i |-> 0]
  BY <1>1
<1>3. MasterOK'
  BY <1>1, <1>2, PoolConstants DEF MasterOK, Pool!MasterAt
<1>. QED  BY <1>1, <1>2, <1>3, ThreadsSame, CountsSame, QueueSame, TimesSame

LEMMA ReapKeeps ==
    ASSUME PoolInv, Pool!Reap
    PROVE  PoolInv'
<1>. USE DEF PoolInv
<1>. DEFINE gone == {t \in Pool!Thread : Pool!Contains(list, t) /\ status[t] = "EXITED"}
            rest == Pool!Without(list, gone)
<1>1. /\ master.at = "reap" /\ list' = rest
      /\ pc' = [t \in Pool!Thread |-> IF t \in gone THEN "none" ELSE pc[t]]
      /\ exited' = exited - Pool!Cardinality(gone)
      /\ master' = [master EXCEPT !.at = "adjust", !.spare = Len(rest) - active]
      /\ UNCHANGED <<status, held, handled, sem, fifo, num_queued, active, last_cleaned,
                     last_spawned, now, stop_flag, child_state, stopped, freed>>
  BY DEF Pool!Reap, Pool!timeVars, Pool!reqVars
<1>2. \A t \in Pool!Thread : Pool!Contains(list, t) <=> pc[t] # "none"
  <2>1. \A t : Pool!Contains(list, t) <=> t \in Elems(list)
    BY DEF Pool!Contains, Elems
  <2>. QED  BY <2>1 DEF ThreadsOK
<1>3. \A t \in Pool!Thread : t \in gone <=> pc[t] = "gone" /\ status[t] = "EXITED"
  <2>1. \A t \in Pool!Thread : pc[t] # "none" /\ status[t] = "EXITED" => pc[t] = "gone"
    BY DEF ThreadsOK, Sites, Serving, Looping
  <2>. QED  BY <1>2, <2>1
<1>4. /\ rest \in Seq(Pool!Thread) /\ Injective(rest) /\ Elems(rest) = Elems(list) \ gone
      /\ gone \subseteq Pool!Thread
  BY WithoutFacts DEF ThreadsOK
<1>. HIDE DEF gone, rest
<1>5. /\ pc' \in [Pool!Thread -> Sites]
      /\ \A t \in Pool!Thread : pc'[t] = IF t \in gone THEN "none" ELSE pc[t]
      /\ \A t \in gone : pc[t] = "gone"
  BY <1>1, <1>3, <1>4 DEF ThreadsOK, Sites
<1>6. Elems(rest) = {t \in Pool!Thread : pc'[t] # "none"}
  BY <1>4, <1>5 DEF ThreadsOK
<1>7. ThreadsOK'
  BY <1>1, <1>3, <1>4, <1>5, <1>6 DEF ThreadsOK, Serving, Looping
<1>8. /\ Occ(pc', {"run", "after"}) = Occ(pc, {"run", "after"})
      /\ Occ(pc', {"woken"}) = Occ(pc, {"woken"})
      /\ Occ(pc', {"leave", "gone"}) = Occ(pc, {"leave", "gone"}) \ gone
      /\ Occ(pc, {"leave", "gone"}) \cap gone = gone
  <2>2. \A t \in Pool!Thread : \A S : "none" \notin S =>
            (pc'[t] \in S <=> pc[t] \in S /\ t \notin gone)
    BY <1>5
  <2>3. \A S : "none" \notin S => Occ(pc', S) = Occ(pc, S) \ gone
    BY <2>2 DEF Occ
  <2>4. \A S : "gone" \notin S => Occ(pc, S) \cap gone = {}
    BY <1>5 DEF Occ
  <2>5. \A S : "gone" \in S => Occ(pc, S) \cap gone = gone
    BY <1>4, <1>5 DEF Occ
  <2>. QED  BY <2>3, <2>4, <2>5
<1>9. /\ N(pc', {"run", "after"}) = N(pc, {"run", "after"}) /\ N(pc', {"woken"}) = N(pc, {"woken"})
      /\ N(pc', {"leave", "gone"}) = N(pc, {"leave", "gone"}) - Cardinality(gone)
  <2>1. N(pc', {"run", "after"}) = N(pc, {"run", "after"}) /\ N(pc', {"woken"}) = N(pc, {"woken"})
    BY <1>8 DEF N
  <2>2. Cardinality(Occ(pc, {"leave", "gone"}) \ gone)
          = Cardinality(Occ(pc, {"leave", "gone"}))
              - Cardinality(Occ(pc, {"leave", "gone"}) \cap gone)
    BY OccFacts, FS_Difference
  <2>. QED  BY <1>8, <2>1, <2>2 DEF N
<1>10. ~stop_flag
  BY <1>1 DEF MasterOK
<1>11. CountsOK'
  <2>1. N(pc', {"leave", "gone"}) \in Nat
    BY CountsInt
  <2>2. Pool!Cardinality(gone) = Cardinality(gone)
    BY SameCount
  <2>3. master'.at # "post" /\ master.at # "post"
    BY <1>1 DEF MasterOK
  <2>. QED  BY <1>1, <1>9, <1>10, <2>1, <2>2, <2>3 DEF CountsOK
<1>12. Len(rest) - active \in 0..MaxThreads
  <2>1. Len(rest) \in 0..MaxThreads /\ N(pc', {"run", "after"}) <= Len(rest)
    BY <1>4, <1>5, <1>6, ListLength
  <2>2. active = N(pc', {"run", "after"}) /\ active \in Nat
    BY <1>9, CountsInt DEF CountsOK
  <2>. QED  BY <2>1, <2>2, PoolConstants
<1>13. MasterOK'
  BY <1>1, <1>10, <1>12 DEF MasterOK, Pool!MasterAt
<1>14. QueueOK'
  <2>1. \A t \in Pool!Thread : pc'[t] = "run" => pc[t] = "run"
    BY <1>5
  <2>2. master.at # "gone"
    BY <1>1
  <2>. QED  BY <1>1, <2>1, <2>2 DEF QueueOK, Tidy, Pool!Elements, Pool!ToSet
<1>15. TimesOK'
  BY <1>1, TimesSame
<1>. QED  BY <1>7, <1>11, <1>13, <1>14, <1>15

\* New handles at the end of the list.
LEMMA JoinFacts ==
    ASSUME NEW X, NEW s \in Seq(X), NEW n \in Nat, NEW w \in [1..n -> X],
           Injective(s), Pool!IsInjective(w), \A k \in 1..n : w[k] \notin Elems(s)
    PROVE  /\ s \o w \in Seq(X) /\ Injective(s \o w)
           /\ \A x : x \in Elems(s \o w) <=> x \in Elems(s) \/ Pool!Contains(w, x)
<1>1. w \in Seq(X) /\ Len(w) = n
  OBVIOUS
<1>2. /\ s \o w \in Seq(X) /\ Len(s) \in Nat /\ Len(s \o w) = Len(s) + n
      /\ \A k \in 1..Len(s) + n : (s \o w)[k] = IF k <= Len(s) THEN s[k] ELSE w[k - Len(s)]
  BY <1>1
<1>3. \A k, l \in 1..n : w[k] = w[l] => k = l
  BY DEF Pool!IsInjective
<1>. DEFINE j == s \o w
            m == Len(s)
<1>4. /\ j \in Seq(X) /\ m \in Nat /\ Len(j) = m + n
      /\ \A k \in 1..m + n : j[k] = IF k <= m THEN s[k] ELSE w[k - m]
      /\ \A k, l \in 1..m : s[k] = s[l] => k = l
      /\ \A k \in 1..n, l \in 1..m : w[k] # s[l]
  BY <1>2 DEF Injective, Elems
<1>. HIDE DEF j
<1>5. Injective(j)
  <2>. SUFFICES ASSUME NEW k \in 1..m + n, NEW l \in 1..m + n, j[k] = j[l] PROVE k = l
    BY <1>4 DEF Injective
  <2>0. j[k] = j[l]
    OBVIOUS
  <2>1. CASE k <= m /\ l <= m
    BY <1>4, <2>1
  <2>2. CASE k > m /\ l > m
    <3>1. k - m \in 1..n /\ l - m \in 1..n /\ j[k] = w[k - m] /\ j[l] = w[l - m]
      BY <1>4, <2>2
    <3>2. k - m = l - m
      <4>. DEFINE a == k - m
                  b == l - m
      <4>1. a \in 1..n /\ b \in 1..n /\ w[a] = w[b]
        BY <2>0, <3>1
      <4>. HIDE DEF a, b
      <4>2. a = b
        BY <1>3, <4>1
      <4>. QED  BY <4>2 DEF a, b
    <3>. QED  BY <1>4, <3>2
  <2>3. CASE k <= m /\ l > m
    <3>1. l - m \in 1..n /\ k \in 1..m /\ j[k] = s[k] /\ j[l] = w[l - m]
      BY <1>4, <2>3
    <3>. QED  BY <1>4, <3>1
  <2>4. CASE k > m /\ l <= m
    <3>1. k - m \in 1..n /\ l \in 1..m /\ j[k] = w[k - m] /\ j[l] = s[l]
      BY <1>4, <2>4
    <3>. QED  BY <1>4, <3>1
  <2>. QED  BY <1>4, <2>1, <2>2, <2>3, <2>4
<1>6. ASSUME NEW x
      PROVE  x \in Elems(j) <=> x \in Elems(s) \/ Pool!Contains(w, x)
  <2>1. ASSUME NEW k \in 1..m + n, x = j[k]
        PROVE  x \in Elems(s) \/ Pool!Contains(w, x)
    <3>1. CASE k <= m
      BY <1>4, <2>1, <3>1 DEF Elems
    <3>2. CASE k > m
      <4>1. k - m \in 1..n /\ x = w[k - m]
        BY <1>4, <2>1, <3>2
      <4>. QED  BY <1>1, <4>1 DEF Pool!Contains
    <3>. QED  BY <1>4, <3>1, <3>2
  <2>2. ASSUME NEW k \in 1..m, x = s[k] PROVE x \in Elems(j)
    <3>1. k \in 1..m + n /\ j[k] = x
      BY <1>4, <2>2
    <3>. QED  BY <1>4, <3>1 DEF Elems
  <2>3. ASSUME NEW k \in 1..n, x = w[k] PROVE x \in Elems(j)
    <3>. DEFINE l == k + m
    <3>0. l \in 1..m + n /\ ~(l <= m) /\ l - m = k
      BY <1>4
    <3>. HIDE DEF l
    <3>1. l \in 1..m + n /\ j[l] = w[k]
      BY <1>4, <3>0
    <3>. QED  BY <1>4, <2>3, <3>1 DEF Elems
  <2>4. Pool!Contains(w, x) <=> \E k \in 1..n : x = w[k]
    BY <1>1 DEF Pool!Contains
  <2>. QED  BY <1>4, <2>1, <2>2, <2>3, <2>4 DEF Elems
<1>. QED  BY <1>4, <1>5, <1>6 DEF j

LEMMA SpawnKeeps ==
    ASSUME PoolInv, Pool!SpawnSpares
    PROVE  PoolInv'
<1>. USE DEF PoolInv
<1>. DEFINE room == MaxThreads - Len(list)
<1>1. /\ master.at = "adjust" /\ Len(list) < MaxThreads /\ master.spare < MinSpare
      /\ master' = [master EXCEPT !.at = "push"]
      /\ UNCHANGED <<held, sem, fifo, num_queued, active, exited, last_cleaned, now, stop_flag,
                     child_state, stopped, freed>>
  BY DEF Pool!SpawnSpares, Pool!TooFewSpare, Pool!total_threads, Pool!Goto, Pool!queueVars,
         Pool!reqVars, Pool!spawn_thread
<1>2. Len(list) \in 0..MaxThreads /\ Cardinality(Occ(pc, {"none"})) = room
  BY ListLength DEF ThreadsOK
<1>3. PICK n \in 0..room : Pool!spawn_thread(n)
  <2>1. master.spare \in 0..MaxThreads
    BY DEF MasterOK
  <2>2. PICK n \in 0..(IF MinSpare - master.spare + Len(list) > MaxThreads
                       THEN MaxThreads - Len(list) ELSE MinSpare - master.spare) :
             Pool!spawn_thread(n)
    <3>1. (IF MinSpare - master.spare + Len(list) > MaxThreads
           THEN MaxThreads - Len(list) ELSE MinSpare - master.spare) \in Nat
      BY <1>1, <1>2, <2>1, PoolConstants
    <3>. QED  BY <3>1 DEF Pool!SpawnSpares, Pool!total_threads
  <2>3. n \in 0..room
    BY <1>1, <1>2, <2>1, PoolConstants
  <2>. QED  BY <2>2, <2>3
<1>. DEFINE free == Occ(pc, {"none"})
            new == CHOOSE s \in [1..n -> free] : Pool!IsInjective(s)
<1>4. new \in [1..n -> free] /\ Pool!IsInjective(new) /\ n \in Nat
  <2>1. IsFiniteSet(free) /\ n \in Nat /\ n <= Cardinality(free)
    BY <1>2, <1>3, OccFacts, PoolConstants
  <2>. HIDE DEF free
  <2>. QED  BY <2>1, NewHandles
<1>5. Pool!At("none") = free
  BY DEF Pool!At, Occ
<1>6. /\ list' = list \o new
      /\ pc' = [t \in Pool!Thread |-> IF Pool!Contains(new, t) THEN "wait" ELSE pc[t]]
      /\ status' = [t \in Pool!Thread |-> IF Pool!Contains(new, t) THEN "RUNNING" ELSE status[t]]
      /\ handled' = [t \in Pool!Thread |-> IF Pool!Contains(new, t) THEN 0 ELSE handled[t]]
      /\ last_spawned' = IF n > 0 THEN now ELSE last_spawned
  BY <1>3, <1>5 DEF Pool!spawn_thread
<1>. HIDE DEF new
<1>7. \A k \in 1..n : new[k] \in Pool!Thread /\ pc[new[k]] = "none"
  BY <1>4 DEF Occ
<1>8. new \in [1..n -> Pool!Thread] /\ \A k \in 1..n : new[k] \notin Elems(list)
  BY <1>4, <1>7 DEF ThreadsOK
<1>9. \A t \in Pool!Thread : Pool!Contains(new, t) => pc[t] = "none"
  <2>1. Len(new) = n
    BY <1>4
  <2>. QED  BY <1>7, <2>1 DEF Pool!Contains
<1>10. /\ list' \in Seq(Pool!Thread) /\ Injective(list')
       /\ \A t : t \in Elems(list') <=> t \in Elems(list) \/ Pool!Contains(new, t)
  BY <1>4, <1>6, <1>8, JoinFacts DEF ThreadsOK
<1>11. /\ pc' \in [Pool!Thread -> Sites]
       /\ \A t \in Pool!Thread : pc'[t] = IF Pool!Contains(new, t) THEN "wait" ELSE pc[t]
  BY <1>6 DEF ThreadsOK, Sites
<1>12. ~stop_flag
  BY <1>1 DEF MasterOK
<1>13. ThreadsOK'
  <2>1. Elems(list') = {t \in Pool!Thread : pc'[t] # "none"}
    <3>1. \A t : Pool!Contains(new, t) => t \in Pool!Thread
      <4>1. Len(new) = n
        BY <1>4
      <4>. QED  BY <1>8, <4>1 DEF Pool!Contains
    <3>2. \A t \in Pool!Thread : pc'[t] # "none" <=> t \in Elems(list) \/ Pool!Contains(new, t)
      BY <1>11 DEF ThreadsOK
    <3>3. \A t : t \in Elems(list) => t \in Pool!Thread
      BY DEF ThreadsOK
    <3>. QED  BY <1>10, <3>1, <3>2, <3>3
  <2>2. status' \in [Pool!Thread -> {"RUNNING", "CANCELLED", "EXITED"}]
        /\ held' \in [Pool!Thread -> Job \cup {NoPacket}] /\ handled' \in [Pool!Thread -> 0..MaxPerThread]
    BY <1>1, <1>6, PoolConstants DEF ThreadsOK
  <2>3. ASSUME NEW t \in Pool!Thread
        PROVE  /\ pc'[t] \in Looping \cup {"leave"} => status'[t] # "EXITED"
               /\ MaxPerThread = 0 /\ pc'[t] = "gone" => status'[t] = "EXITED"
               /\ MaxPerThread = 0 /\ pc'[t] \in {"exit", "leave"} /\ ~stop_flag'
                    => status'[t] = "CANCELLED"
    <3>1. CASE Pool!Contains(new, t)
      BY <1>6, <1>11, <3>1
    <3>2. CASE ~Pool!Contains(new, t)
      <4>1. pc'[t] = pc[t] /\ status'[t] = status[t]
        BY <1>6, <1>11, <3>2
      <4>. QED  BY <1>1, <4>1 DEF ThreadsOK
    <3>. QED  BY <3>1, <3>2
  <2>. QED  BY <1>10, <1>11, <2>1, <2>2, <2>3 DEF ThreadsOK
<1>14. CountsOK'
  <2>1. \A t \in Pool!Thread : \A S :
            "wait" \notin S /\ "none" \notin S => (pc'[t] \in S <=> pc[t] \in S)
    BY <1>9, <1>11
  <2>2. \A S : "wait" \notin S /\ "none" \notin S => Occ(pc', S) = Occ(pc, S)
    BY <2>1 DEF Occ
  <2>3. /\ N(pc', {"run", "after"}) = N(pc, {"run", "after"})
        /\ N(pc', {"leave", "gone"}) = N(pc, {"leave", "gone"})
        /\ N(pc', {"woken"}) = N(pc, {"woken"})
    BY <2>2 DEF N
  <2>4. master.at # "post" /\ master'.at # "post"
    BY <1>1 DEF MasterOK
  <2>. QED  BY <1>1, <1>12, <2>3, <2>4 DEF CountsOK
<1>15. MasterOK'
  BY <1>1, <1>12 DEF MasterOK, Pool!MasterAt
<1>16. QueueOK'
  <2>1. \A t \in Pool!Thread : pc'[t] = "run" => pc[t] = "run"
    BY <1>11
  <2>2. master.at # "gone"
    BY <1>1
  <2>. QED  BY <1>1, <2>1, <2>2 DEF QueueOK, Tidy, Pool!Elements, Pool!ToSet
<1>17. TimesOK'
  BY <1>1, <1>6 DEF TimesOK
<1>. QED  BY <1>13, <1>14, <1>15, <1>16, <1>17

LEMMA CleanKeeps ==
    ASSUME PoolInv, Pool!CleanSpares
    PROVE  PoolInv'
<1>. USE DEF PoolInv
<1>1. /\ master.at = "adjust" /\ last_cleaned' = now
      /\ \/ master' = [master EXCEPT !.at = "scan", !.i = 1]
         \/ master' = [master EXCEPT !.at = "push"]
      /\ UNCHANGED <<list, pc, status, held, handled, sem, fifo, num_queued, active, exited,
                     last_spawned, now, stop_flag, child_state, stopped, freed>>
  BY DEF Pool!CleanSpares, Pool!poolVars, Pool!queueVars, Pool!reqVars
<1>2. Len(list) \in Nat /\ MaxThreads \in Nat /\ MaxThreads > 0
  BY PoolConstants DEF ThreadsOK
<1>3. CASE master' = [master EXCEPT !.at = "scan", !.i = 1]
  <2>0. 1 \in 0..MaxThreads + 1 /\ 1 \in 1..Len(list) + 1
    BY <1>2
  <2>1. MasterOK'
    <3>1. /\ master' \in [at: Pool!MasterAt, req: Job \cup {NoPacket}, spare: 0..MaxThreads,
                          i: 0..MaxThreads + 1]
          /\ master'.at = "scan" /\ master'.i = 1 /\ master'.req = master.req
      BY <1>3, <2>0 DEF MasterOK, Pool!MasterAt
    <3>. QED  BY <1>1, <2>0, <3>1 DEF MasterOK
  <2>2. TimesOK'
    BY <1>1, PoolConstants DEF TimesOK
  <2>3. master'.at = "scan"
    BY <1>1, <1>3 DEF MasterOK
  <2>. QED  BY <1>1, <2>1, <2>2, <2>3, ThreadsSame, CountsSame, QueueSame
<1>4. CASE master' = [master EXCEPT !.at = "push"]
  <2>1. MasterOK'
    BY <1>1, <1>2, <1>4 DEF MasterOK, Pool!MasterAt
  <2>2. TimesOK'
    BY <1>1, PoolConstants DEF TimesOK
  <2>3. master'.at = "push"
    BY <1>1, <1>4 DEF MasterOK
  <2>. QED  BY <1>1, <2>1, <2>2, <2>3, ThreadsSame, CountsSame, QueueSame
<1>. QED  BY <1>1, <1>3, <1>4

LEMMA ScanKeeps ==
    ASSUME PoolInv, Pool!Scan
    PROVE  PoolInv'
<1>. USE DEF PoolInv
<1>1. /\ master.at = "scan"
      /\ UNCHANGED <<list, pc, status, held, handled, sem, fifo, num_queued, active, exited,
                     last_cleaned, last_spawned, now, stop_flag, child_state, stopped, freed>>
  BY DEF Pool!Scan, Pool!poolVars, Pool!queueVars, Pool!timeVars, Pool!reqVars
<1>2. \/ master' = [master EXCEPT !.at = "push"]
      \/ /\ master.i <= Len(list) /\ status[list[master.i]] = "RUNNING"
         /\ master' = [master EXCEPT !.at = "cancel"]
      \/ master.i <= Len(list) /\ master' = [master EXCEPT !.i = @ + 1]
  <2>1. master.i \in Int /\ Len(list) \in Int
    BY PoolConstants DEF MasterOK, ThreadsOK
  <2>. QED  BY <2>1 DEF Pool!Scan, Pool!total_threads
<1>3. Len(list) \in 0..MaxThreads /\ master.i \in 1..Len(list) + 1 /\ MaxThreads \in Nat
  BY <1>1, ListLength, PoolConstants DEF ThreadsOK, MasterOK
<1>4. MasterOK' /\ master'.at \in {"push", "cancel", "scan"}
  <2>1. CASE master' = [master EXCEPT !.at = "push"]
    BY <1>1, <2>1 DEF MasterOK, Pool!MasterAt
  <2>2. CASE /\ master.i <= Len(list) /\ status[list[master.i]] = "RUNNING"
             /\ master' = [master EXCEPT !.at = "cancel"]
    BY <1>1, <1>3, <2>2 DEF MasterOK, Pool!MasterAt
  <2>3. CASE master.i <= Len(list) /\ master' = [master EXCEPT !.i = @ + 1]
    BY <1>1, <1>3, <2>3 DEF MasterOK, Pool!MasterAt
  <2>. QED  BY <1>2, <2>1, <2>2, <2>3
<1>. QED  BY <1>1, <1>4, ThreadsSame, CountsSame, QueueSame, TimesSame

LEMMA CancelKeeps ==
    ASSUME PoolInv, Pool!Cancel
    PROVE  PoolInv'
<1>. USE DEF PoolInv
<1>. DEFINE c == list[master.i]
<1>1. /\ master.at = "cancel" /\ status' = [status EXCEPT ![c] = "CANCELLED"]
      /\ sem' = sem + 1 /\ master' = [master EXCEPT !.at = "push"]
      /\ UNCHANGED <<list, pc, held, handled, fifo, num_queued, active, exited,
                     last_cleaned, last_spawned, now, stop_flag, child_state, stopped, freed>>
  BY DEF Pool!Cancel, Pool!Goto, Pool!timeVars, Pool!reqVars
<1>2. c \in Pool!Thread /\ (MaxPerThread = 0 => status[c] = "RUNNING" /\ pc[c] # "gone")
  BY <1>1 DEF MasterOK, ThreadsOK
<1>. HIDE DEF c
<1>3. ThreadsOK'
  BY <1>1, <1>2 DEF ThreadsOK
<1>4. MasterOK' /\ master'.at = "push"
  BY <1>1 DEF MasterOK, Pool!MasterAt
<1>5. CountsOK'
  <2>1. /\ N(pc, {"woken"}) \in Nat /\ N(pc, Serving) \in Nat /\ num_queued \in Int
        /\ ~stop_flag
    BY <1>1, CountsInt, PoolConstants DEF QueueOK, MasterOK
  <2>. QED  BY <1>1, <1>4, <2>1 DEF CountsOK
<1>. QED  BY <1>1, <1>3, <1>4, <1>5, QueueSame, TimesSame

LEMMA PostKeeps ==
    ASSUME PoolInv, Pool!Post
    PROVE  PoolInv'
<1>. USE DEF PoolInv
<1>1. /\ master.at = "post" /\ sem' = sem + 1
      /\ master' = [at |-> "idle", req |-> NoPacket, spare |-> 0, i |-> 0]
      /\ UNCHANGED <<list, pc, status, held, handled, fifo, num_queued, active, exited,
                     last_cleaned, last_spawned, now, stop_flag, child_state, stopped, freed>>
  BY DEF Pool!Post, Pool!Idle, Pool!poolVars, Pool!timeVars, Pool!reqVars
<1>2. MasterOK' /\ master'.at = "idle" /\ ~stop_flag
  BY <1>1, PoolConstants DEF MasterOK, Pool!MasterAt
<1>3. CountsOK'
  <2>1. N(pc, {"woken"}) \in Nat /\ num_queued \in Int
    BY CountsInt, PoolConstants DEF QueueOK
  <2>. QED  BY <1>1, <1>2, <2>1 DEF CountsOK
<1>. QED  BY <1>1, <1>2, <1>3, ThreadsSame, QueueSame, TimesSame

\* A request at the end of its fifo.
LEMMA AppendFacts ==
    ASSUME NEW q, Tidy(q), NEW r \in Job, r \notin Pool!Elements(q)
    PROVE  LET w == [q EXCEPT ![PriorityOf[r]] = Append(@, r)] IN
           /\ Tidy(w) /\ Pool!Elements(w) = Pool!Elements(q) \cup {r}
           /\ Cardinality(Pool!Elements(w)) = Cardinality(Pool!Elements(q)) + 1
<1>. DEFINE o == PriorityOf[r]
            w == [q EXCEPT ![o] = Append(@, r)]
<1>1. o \in Pool!Priority /\ q[o] \in Seq(Job) /\ r \notin Elems(q[o])
  BY PoolConstants, QueuedWhere DEF Tidy
<1>2. /\ Append(q[o], r) \in Seq(Job) /\ Len(Append(q[o], r)) = Len(q[o]) + 1
      /\ \A k \in 1..Len(q[o]) : Append(q[o], r)[k] = q[o][k]
      /\ Append(q[o], r)[Len(q[o]) + 1] = r /\ Len(q[o]) \in Nat
  BY <1>1
<1>3. Elems(Append(q[o], r)) = Elems(q[o]) \cup {r}
  <2>. DEFINE a == Append(q[o], r)
  <2>1. \A k \in 1..Len(q[o]) + 1 : a[k] \in Elems(q[o]) \cup {r}
    BY <1>2 DEF Elems
  <2>2. \A k \in 1..Len(q[o]) : k \in 1..Len(a) /\ a[k] = q[o][k]
    BY <1>2
  <2>3. Len(q[o]) + 1 \in 1..Len(a) /\ a[Len(q[o]) + 1] = r /\ Len(a) = Len(q[o]) + 1
    BY <1>2
  <2>. HIDE DEF a
  <2>. QED  BY <2>1, <2>2, <2>3 DEF Elems
<1>4. Injective(Append(q[o], r))
  BY <1>1, <1>2 DEF Injective, Elems, Tidy
<1>5. \A p \in Pool!Priority : w[p] = IF p = o THEN Append(q[o], r) ELSE q[p]
  BY DEF Tidy
<1>6. w \in [Pool!Priority -> Seq(Job)]
  BY <1>2 DEF Tidy
<1>. HIDE DEF w
<1>7. Tidy(w)
  <2>1. \A p \in Pool!Priority :
           Injective(w[p]) /\ \A x \in Elems(w[p]) : PriorityOf[x] = p
    BY <1>3, <1>4, <1>5 DEF Tidy
  <2>. QED  BY <1>6, <2>1 DEF Tidy
<1>8. Pool!Elements(w) = Pool!Elements(q) \cup {r}
  <2>1. \A x : x \in Pool!Elements(w) <=> \E p \in Pool!Priority : x \in Elems(w[p])
    BY <1>6, QueuedWhere
  <2>2. \A x : x \in Pool!Elements(q) <=> \E p \in Pool!Priority : x \in Elems(q[p])
    BY QueuedWhere DEF Tidy
  <2>3. \A x : \A p \in Pool!Priority :
            x \in Elems(w[p]) <=> x \in Elems(q[p]) \/ (p = o /\ x = r)
    BY <1>3, <1>5
  <2>4. \A x : x \in Pool!Elements(w) <=> x \in Pool!Elements(q) \/ x = r
    BY <1>1, <2>1, <2>2, <2>3
  <2>. QED  BY <2>4
<1>9. IsFiniteSet(Pool!Elements(q))
  BY QueuedWhere DEF Tidy
<1>10. Cardinality(Pool!Elements(w)) = Cardinality(Pool!Elements(q)) + 1
  BY <1>8, <1>9, FS_AddElement
<1>. QED  BY <1>7, <1>8, <1>10 DEF w

LEMMA PushKeeps ==
    ASSUME PoolInv, Pool!Push
    PROVE  PoolInv'
<1>. USE DEF PoolInv
<1>. DEFINE r == master.req
<1>1. /\ master.at = "push"
      /\ UNCHANGED <<list, pc, status, held, handled, sem, active, exited, last_cleaned,
                     last_spawned, now, stop_flag, stopped, freed>>
  BY DEF Pool!Push, Pool!poolVars, Pool!timeVars
<1>2. \/ /\ num_queued < MaxQueue /\ num_queued' = num_queued + 1
         /\ fifo' = [fifo EXCEPT ![PriorityOf[r]] = Append(@, r)]
         /\ child_state' = [child_state EXCEPT ![r] = "queued"]
         /\ master' = [master EXCEPT !.at = "post"]
      \/ /\ child_state' = [child_state EXCEPT ![r] = "refused"]
         /\ master' = [at |-> "idle", req |-> NoPacket, spare |-> 0, i |-> 0]
         /\ UNCHANGED <<fifo, num_queued>>
  BY DEF Pool!Push, Pool!Goto, Pool!Idle
<1>3. r \in Job /\ child_state[r] = "new" /\ ~stop_flag
  BY <1>1 DEF MasterOK
<1>4. \A t \in Pool!Thread : pc[t] = "run" => held[t] \in Job /\ held[t] # r
  BY <1>3 DEF QueueOK
<1>5. r \notin Pool!Elements(fifo) /\ r \notin freed /\ Pool!Elements(fifo) \subseteq Job
  BY <1>3, QueuedWhere DEF QueueOK, Tidy
<1>6. num_queued = Cardinality(Pool!Elements(fifo)) /\ num_queued \in 0..MaxQueue
  BY <1>1 DEF QueueOK
<1>. HIDE DEF r
<1>7. ASSUME num_queued < MaxQueue, num_queued' = num_queued + 1,
             fifo' = [fifo EXCEPT ![PriorityOf[r]] = Append(@, r)],
             child_state' = [child_state EXCEPT ![r] = "queued"],
             master' = [master EXCEPT !.at = "post"]
      PROVE  PoolInv'
  <2>. DEFINE w == [fifo EXCEPT ![PriorityOf[r]] = Append(@, r)]
  <2>1. /\ Tidy(w) /\ Pool!Elements(w) = Pool!Elements(fifo) \cup {r}
        /\ Cardinality(Pool!Elements(w)) = Cardinality(Pool!Elements(fifo)) + 1
    BY <1>3, <1>5, AppendFacts DEF QueueOK
  <2>. HIDE DEF w
  <2>2. fifo' = w
    BY <1>7 DEF w
  <2>3. Tidy(fifo)' /\ Pool!Elements(fifo)' = Pool!Elements(fifo) \cup {r}
        /\ num_queued' = Cardinality(Pool!Elements(fifo)')
    <3>1. Pool!Elements(fifo)' = Pool!Elements(w)
      BY <2>2 DEF Pool!Elements, Pool!ToSet
    <3>2. Tidy(fifo)'
      BY <2>1, <2>2 DEF Tidy
    <3>. QED  BY <1>6, <1>7, <2>1, <3>1, <3>2
  <2>4. \A x \in Job : child_state'[x] = IF x = r THEN "queued" ELSE child_state[x]
    BY <1>7 DEF QueueOK
  <2>5. child_state' \in [Job -> {"new", "queued", "running", "done", "refused"}]
    BY <1>7 DEF QueueOK
  <2>6. master'.at = "post" /\ MasterOK'
    BY <1>1, <1>3, <1>7 DEF MasterOK, Pool!MasterAt
  <2>7. QueueOK'
    <3>1. \A x \in Pool!Elements(fifo)' : child_state'[x] = "queued"
      BY <1>3, <1>5, <2>3, <2>4 DEF QueueOK
    <3>2. \A t \in Pool!Thread : pc'[t] = "run" =>
              held'[t] \in Job /\ child_state'[held'[t]] = "running"
      BY <1>1, <1>4, <2>4 DEF QueueOK
    <3>3. \A x \in freed' : child_state'[x] = "done"
      BY <1>1, <1>5, <2>4 DEF QueueOK
    <3>4. num_queued' \in 0..MaxQueue
      BY <1>6, <1>7, PoolConstants
    <3>. QED  BY <1>1, <2>3, <2>5, <3>1, <3>2, <3>3, <3>4 DEF QueueOK
  <2>8. CountsOK'
    <3>1. N(pc, {"woken"}) \in Nat /\ num_queued \in Int /\ master.at # "post"
      BY <1>1, <1>6, CountsInt, PoolConstants
    <3>. QED  BY <1>1, <1>3, <1>7, <2>6, <3>1 DEF CountsOK
  <2>. QED  BY <1>1, <2>6, <2>7, <2>8, ThreadsSame, TimesSame
<1>8. ASSUME child_state' = [child_state EXCEPT ![r] = "refused"],
             master' = [at |-> "idle", req |-> NoPacket, spare |-> 0, i |-> 0],
             UNCHANGED <<fifo, num_queued>>
      PROVE  PoolInv'
  <2>1. \A x \in Job : child_state'[x] = IF x = r THEN "refused" ELSE child_state[x]
    BY <1>8 DEF QueueOK
  <2>2. child_state' \in [Job -> {"new", "queued", "running", "done", "refused"}]
    BY <1>8 DEF QueueOK
  <2>3. MasterOK' /\ master'.at = "idle"
    BY <1>1, <1>3, <1>8, PoolConstants DEF MasterOK, Pool!MasterAt
  <2>4. Tidy(fifo)' /\ Pool!Elements(fifo)' = Pool!Elements(fifo)
    BY <1>8 DEF QueueOK, Tidy, Pool!Elements, Pool!ToSet
  <2>5. QueueOK'
    <3>1. \A x \in Pool!Elements(fifo)' : child_state'[x] = "queued"
      BY <1>5, <2>1, <2>4 DEF QueueOK
    <3>2. \A t \in Pool!Thread : pc'[t] = "run" =>
              held'[t] \in Job /\ child_state'[held'[t]] = "running"
      BY <1>1, <1>4, <2>1 DEF QueueOK
    <3>3. \A x \in freed' : child_state'[x] = "done"
      BY <1>1, <1>5, <2>1 DEF QueueOK
    <3>. QED  BY <1>1, <1>6, <1>8, <2>2, <2>4, <3>1, <3>2, <3>3 DEF QueueOK
  <2>6. CountsOK'
    <3>1. master.at # "post"
      BY <1>1
    <3>. QED  BY <1>1, <1>8, <2>3, <3>1, CountsSame
  <2>. QED  BY <1>1, <2>3, <2>5, <2>6, ThreadsSame, TimesSame
<1>. QED  BY <1>2, <1>7, <1>8

LEMMA StopKeeps ==
    ASSUME PoolInv, NEW r \in Job, Pool!StopRequest(r)
    PROVE  PoolInv'
<1>. USE DEF PoolInv
<1>1. /\ stopped' = stopped \cup {r}
      /\ UNCHANGED <<list, pc, status, held, handled, sem, fifo, num_queued, active, exited,
                     last_cleaned, last_spawned, now, stop_flag, master, child_state, freed>>
  BY DEF Pool!StopRequest, Pool!poolVars, Pool!queueVars, Pool!timeVars
<1>2. QueueOK'
  BY <1>1 DEF QueueOK, Tidy, Pool!Elements, Pool!ToSet
<1>. QED  BY <1>1, <1>2, ThreadsSame, CountsSame, MasterSame, TimesSame

LEMMA FreeKeeps ==
    ASSUME PoolInv, NEW r \in Job, Pool!request_free(r)
    PROVE  PoolInv'
<1>. USE DEF PoolInv
<1>1. /\ freed' = freed \cup {r} /\ child_state[r] = "done"
      /\ UNCHANGED <<list, pc, status, held, handled, sem, fifo, num_queued, active, exited,
                     last_cleaned, last_spawned, now, stop_flag, master, child_state, stopped>>
  BY DEF Pool!request_free, Pool!poolVars, Pool!queueVars, Pool!timeVars
<1>2. QueueOK'
  BY <1>1 DEF QueueOK, Tidy, Pool!Elements, Pool!ToSet
<1>. QED  BY <1>1, <1>2, ThreadsSame, CountsSame, MasterSame, TimesSame

LEMMA PoolStopKeeps ==
    ASSUME PoolInv, Pool!thread_pool_stop
    PROVE  PoolInv'
<1>. USE DEF PoolInv
<1>1. /\ master.at = "idle" /\ stop_flag' = TRUE /\ sem' = sem + Len(list)
      /\ master' = [master EXCEPT !.at = "join"]
      /\ UNCHANGED <<list, pc, status, held, handled, fifo, num_queued, active, exited,
                     last_cleaned, last_spawned, now, child_state, stopped, freed>>
  BY DEF Pool!thread_pool_stop, Pool!total_threads, Pool!Goto, Pool!poolVars, Pool!timeVars,
         Pool!reqVars
<1>2. ~stop_flag /\ master'.at = "join" /\ MasterOK'
  BY <1>1 DEF MasterOK, Pool!MasterAt
<1>3. ThreadsOK' /\ TimesOK' /\ QueueOK'
  BY <1>1, <1>2, ThreadsSame, QueueSame, TimesSame
<1>4. N(pc, {"leave", "gone"}) + N(pc, Looping) <= MaxThreads
  <2>. DEFINE A == Occ(pc, {"leave", "gone"})
              B == Occ(pc, Looping)
  <2>1. A \cap B = {} /\ A \cup B \subseteq Pool!Thread
    BY DEF Occ, Looping
  <2>2. /\ IsFiniteSet(A) /\ IsFiniteSet(B) /\ Cardinality(A) \in Nat /\ Cardinality(B) \in Nat
    BY OccFacts DEF N
  <2>. HIDE DEF A, B
  <2>3. Cardinality(A \cup B) = Cardinality(A) + Cardinality(B)
    <3>1. Cardinality(A \cup B) = Cardinality(A) + Cardinality(B) - Cardinality(A \cap B)
      BY <2>2, FS_Union
    <3>2. A \cap B = {}
      BY <2>1
    <3>3. Cardinality(A \cap B) = 0
      BY <3>2, FS_EmptySet, Zenon
    <3>. QED  BY <2>2, <3>1, <3>3
  <2>4. Cardinality(A \cup B) <= MaxThreads
    BY <2>1, PoolConstants, FS_Subset
  <2>. QED  BY <2>3, <2>4 DEF A, B, N
<1>5. N(pc, Serving) <= Len(list) /\ Len(list) \in Nat
  <2>1. list \in Seq(Pool!Thread) /\ Injective(list) /\ pc \in [Pool!Thread -> Sites]
        /\ Elems(list) = {t \in Pool!Thread : pc[t] # "none"}
    BY DEF ThreadsOK
  <2>. QED  BY <2>1, ListLength
<1>6. CountsOK'
  <2>1. /\ N(pc, {"woken"}) \in Nat /\ N(pc, Serving) \in Nat /\ num_queued \in Int
    BY CountsInt, PoolConstants DEF QueueOK
  <2>2. /\ exited = N(pc, {"leave", "gone"}) /\ exited \in Nat /\ sem \in Nat
        /\ active = N(pc, {"run", "after"})
        /\ num_queued <= sem + N(pc, {"woken"})
    BY <1>1, <1>2, <2>1 DEF CountsOK
  <2>3. /\ sem' = sem + Len(list) /\ stop_flag' /\ master'.at # "post"
        /\ UNCHANGED <<pc, num_queued, exited, active>>
    BY <1>1, <1>2
  <2>4. exited + N(pc, Looping) <= MaxThreads
    BY <1>4, <2>2
  <2>5. num_queued + N(pc, Serving) <= sem' + N(pc, {"woken"}) /\ sem' \in Nat
    BY <1>5, <2>1, <2>2, <2>3
  <2>6. /\ N(pc', {"run", "after"}) = N(pc, {"run", "after"})
        /\ N(pc', {"woken"}) = N(pc, {"woken"})
        /\ N(pc', Serving) = N(pc, Serving) /\ N(pc', Looping) = N(pc, Looping)
    BY <2>3
  <2>7. num_queued' + N(pc', Serving) <= sem' + N(pc', {"woken"}) + 0
    BY <2>1, <2>3, <2>5, <2>6
  <2>8. /\ sem' \in Nat /\ exited' \in Nat /\ active' = N(pc', {"run", "after"})
        /\ exited' + N(pc', Looping) <= MaxThreads
    BY <2>2, <2>3, <2>4, <2>5, <2>6
  <2>9. (stop_flag = TRUE)' /\ (master.at # "post")'
    BY <1>1, <2>3
  <2>. QED  BY <2>7, <2>8, <2>9 DEF CountsOK
<1>. QED  BY <1>2, <1>3, <1>6

LEMMA JoinKeeps ==
    ASSUME PoolInv, Pool!Join
    PROVE  PoolInv'
<1>. USE DEF PoolInv
<1>1. /\ master.at = "join"
      /\ UNCHANGED <<status, held, handled, sem, num_queued, active, exited, last_cleaned,
                     last_spawned, now, stop_flag, child_state, stopped, freed>>
  BY DEF Pool!Join, Pool!timeVars, Pool!reqVars
<1>2. stop_flag
  BY <1>1 DEF MasterOK
<1>3. ASSUME list # <<>>, pc[Head(list)] = "gone", list' = Tail(list),
             pc' = [pc EXCEPT ![Head(list)] = "none"], UNCHANGED <<fifo, master>>
      PROVE  PoolInv'
  <2>. DEFINE h == Head(list)
  <2>1. /\ Tail(list) \in Seq(Pool!Thread) /\ Injective(Tail(list)) /\ h \in Elems(list)
        /\ Elems(list) = Elems(Tail(list)) \cup {h} /\ h \notin Elems(Tail(list))
    BY <1>3, TailFacts DEF ThreadsOK
  <2>2. h \in Pool!Thread /\ pc[h] = "gone" /\ pc' = [pc EXCEPT ![h] = "none"]
    BY <1>3, <2>1 DEF ThreadsOK
  <2>. HIDE DEF h
  <2>3. pc \in [Pool!Thread -> Sites] /\ "none" \in Sites \ {"run"}
    BY DEF ThreadsOK, Sites
  <2>4. ThreadsOK'
    <3>1. \A t \in Pool!Thread : pc'[t] = IF t = h THEN "none" ELSE pc[t]
      BY <2>2, <2>3
    <3>2. pc' \in [Pool!Thread -> Sites]
      BY <2>2, <2>3
    <3>3. Elems(list') = {t \in Pool!Thread : pc'[t] # "none"}
      BY <1>3, <2>1, <3>1 DEF ThreadsOK
    <3>4. list' \in Seq(Pool!Thread) /\ Injective(list')
      BY <1>3, <2>1
    <3>5. \A t \in Pool!Thread :
            /\ pc'[t] \in Looping \cup {"leave"} => status[t] # "EXITED"
            /\ MaxPerThread = 0 /\ pc'[t] = "gone" => status[t] = "EXITED"
            /\ MaxPerThread = 0 /\ pc'[t] \in {"exit", "leave"} /\ ~stop_flag
                 => status[t] = "CANCELLED"
      BY <3>1 DEF ThreadsOK, Looping
    <3>. QED  BY <1>1, <3>2, <3>3, <3>4, <3>5 DEF ThreadsOK
  <2>5. QueueOK'
    BY <1>1, <1>3, <2>2, <2>3, ChildQueue
  <2>6. CountsOK'
    <3>1. /\ N(pc', {"run", "after"})
               = N(pc, {"run", "after"}) + By("gone", "none", {"run", "after"})
          /\ N(pc', {"woken"}) = N(pc, {"woken"}) + By("gone", "none", {"woken"})
          /\ N(pc', Serving) = N(pc, Serving) + By("gone", "none", Serving)
          /\ N(pc', Looping) = N(pc, Looping) + By("gone", "none", Looping)
      BY <2>2, <2>3, MovedCounts
    <3>2. /\ N(pc', {"run", "after"}) = N(pc, {"run", "after"})
          /\ N(pc', {"woken"}) = N(pc, {"woken"})
          /\ N(pc', Serving) = N(pc, Serving) /\ N(pc', Looping) = N(pc, Looping)
      BY <3>1, CountsInt DEF By, Serving, Looping
    <3>3. UNCHANGED <<sem, exited, active, num_queued, stop_flag, master>> /\ stop_flag
      BY <1>1, <1>2, <1>3
    <3>. QED  BY <3>2, <3>3 DEF CountsOK
  <2>7. MasterOK'
    BY <1>1, <1>3 DEF MasterOK
  <2>. QED  BY <1>1, <2>4, <2>5, <2>6, <2>7, TimesSame
<1>4. ASSUME list = <<>>, fifo' = [p \in Pool!Priority |-> <<>>],
             master' = [master EXCEPT !.at = "gone"], UNCHANGED <<list, pc>>
      PROVE  PoolInv'
  <2>1. Tidy(fifo') /\ Pool!Elements(fifo') = {}
    <3>1. fifo' \in [Pool!Priority -> Seq(Job)] /\ \A p \in Pool!Priority : fifo'[p] = <<>>
      BY <1>4
    <3>2. \A p \in Pool!Priority : Elems(fifo'[p]) = {} /\ Injective(fifo'[p])
      BY <3>1 DEF Elems, Injective
    <3>3. Tidy(fifo')
      BY <3>1, <3>2 DEF Tidy
    <3>4. \A x : x \in Pool!Elements(fifo') <=> \E p \in Pool!Priority : x \in Elems(fifo'[p])
      BY <3>1, QueuedWhere
    <3>. QED  BY <3>2, <3>3, <3>4
  <2>2. Tidy(fifo)' /\ Pool!Elements(fifo)' = {}
    BY <2>1 DEF Tidy, Pool!Elements, Pool!ToSet
  <2>3. master'.at = "gone" /\ MasterOK'
    BY <1>1, <1>2, <1>4 DEF MasterOK, Pool!MasterAt
  <2>4. QueueOK'
    BY <1>1, <1>4, <2>2, <2>3 DEF QueueOK
  <2>5. CountsOK'
    BY <1>1, <1>4, <2>3, CountsSame
  <2>. QED  BY <1>1, <1>4, <2>3, <2>4, <2>5, ThreadsSame, TimesSame
<1>. QED  BY <1>3, <1>4 DEF Pool!Join, Pool!Goto

LEMMA TickKeeps ==
    ASSUME PoolInv, Pool!Tick
    PROVE  PoolInv'
<1>. USE DEF PoolInv
<1>1. /\ now < MaxTime /\ now' = now + 1
      /\ UNCHANGED <<list, pc, status, held, handled, sem, fifo, num_queued, active, exited,
                     last_cleaned, last_spawned, stop_flag, master, child_state, stopped, freed>>
  BY DEF Pool!Tick, Pool!poolVars, Pool!queueVars, Pool!reqVars
<1>2. TimesOK'
  BY <1>1, PoolConstants DEF TimesOK
<1>. QED  BY <1>1, <1>2, ThreadsSame, CountsSame, QueueSame, MasterSame

-----------------------------------------------------------------------------
(* The thread pool: the theorems *)

LEMMA PoolStarts == ASSUME Pool!Init PROVE PoolInv
<1>1. /\ list = [k \in 1..StartThreads |-> k]
      /\ pc = [t \in Pool!Thread |-> IF t <= StartThreads THEN "wait" ELSE "none"]
      /\ status = [t \in Pool!Thread |-> "RUNNING"] /\ held = [t \in Pool!Thread |-> NoPacket]
      /\ handled = [t \in Pool!Thread |-> 0]
      /\ sem = 0 /\ fifo = [p \in Pool!Priority |-> <<>>] /\ num_queued = 0
      /\ active = 0 /\ exited = 0 /\ last_cleaned = 0 /\ last_spawned = 1 /\ now = 1
      /\ stop_flag = FALSE /\ master = [at |-> "idle", req |-> NoPacket, spare |-> 0, i |-> 0]
      /\ child_state = [r \in Job |-> "new"] /\ stopped = {} /\ freed = {}
  BY DEF Pool!Init, Pool!Idle
<1>2. /\ StartThreads \in Nat /\ StartThreads <= MaxThreads /\ MaxThreads \in Nat
      /\ MaxThreads > 0 /\ MaxTime \in Nat /\ MaxTime > 0 /\ MaxQueue \in Nat
  BY PoolConstants
<1>3. ThreadsOK
  <2>1. list \in Seq(Pool!Thread) /\ Len(list) = StartThreads
        /\ \A k \in 1..StartThreads : list[k] = k
    BY <1>1, <1>2 DEF Pool!Thread
  <2>2. Injective(list)
    BY <2>1 DEF Injective
  <2>3. Elems(list) = {t \in Pool!Thread : pc[t] # "none"}
    <3>1. Elems(list) = 1..StartThreads
      BY <2>1 DEF Elems
    <3>2. \A t \in Pool!Thread : pc[t] # "none" <=> t <= StartThreads
      BY <1>1
    <3>. QED  BY <1>2, <3>1, <3>2 DEF Pool!Thread
  <2>4. pc \in [Pool!Thread -> Sites] /\ \A t \in Pool!Thread : pc[t] \in {"wait", "none"}
    BY <1>1 DEF Sites
  <2>5. status \in [Pool!Thread -> {"RUNNING", "CANCELLED", "EXITED"}]
        /\ held \in [Pool!Thread -> Job \cup {NoPacket}] /\ handled \in [Pool!Thread -> 0..MaxPerThread]
        /\ \A t \in Pool!Thread : status[t] = "RUNNING"
    BY <1>1, PoolConstants
  <2>6. \A t \in Pool!Thread :
          /\ pc[t] \in Looping \cup {"leave"} => status[t] # "EXITED"
          /\ MaxPerThread = 0 /\ pc[t] = "gone" => status[t] = "EXITED"
          /\ MaxPerThread = 0 /\ pc[t] \in {"exit", "leave"} /\ ~stop_flag
               => status[t] = "CANCELLED"
    BY <2>4, <2>5
  <2>. QED  BY <2>1, <2>2, <2>3, <2>4, <2>5, <2>6 DEF ThreadsOK
<1>4. MasterOK
  <2>1. 0 \in 0..MaxThreads /\ 0 \in 0..MaxThreads + 1
    BY <1>2
  <2>2. master \in [at: Pool!MasterAt, req: Job \cup {NoPacket}, spare: 0..MaxThreads,
                   i: 0..MaxThreads + 1]
        /\ master.at = "idle"
    BY <1>1, <2>1 DEF Pool!MasterAt
  <2>. QED  BY <1>1, <2>2 DEF MasterOK
<1>5. CountsOK
  <2>1. \A S : "wait" \notin S /\ "none" \notin S => Occ(pc, S) = {}
    BY <1>1 DEF Occ
  <2>2. /\ N(pc, {"run", "after"}) = 0 /\ N(pc, {"leave", "gone"}) = 0
        /\ N(pc, {"woken"}) = 0
    BY <2>1, FS_EmptySet DEF N
  <2>. QED  BY <1>1, <2>2 DEF CountsOK
<1>6. QueueOK
  <2>1. fifo \in [Pool!Priority -> Seq(Job)] /\ \A p \in Pool!Priority : fifo[p] = <<>>
    BY <1>1
  <2>2. \A p \in Pool!Priority : Elems(fifo[p]) = {} /\ Injective(fifo[p])
    BY <2>1 DEF Elems, Injective
  <2>3. Tidy(fifo)
    BY <2>1, <2>2 DEF Tidy
  <2>4. Pool!Elements(fifo) = {}
    BY <2>1, <2>2, QueuedWhere
  <2>5. Cardinality(Pool!Elements(fifo)) = 0
    BY <2>4, FS_EmptySet
  <2>6. \A t \in Pool!Thread : pc[t] # "run"
    BY <1>1
  <2>. QED  BY <1>1, <1>2, <2>3, <2>4, <2>5, <2>6 DEF QueueOK
<1>7. TimesOK
  BY <1>1, <1>2 DEF TimesOK
<1>. QED  BY <1>3, <1>4, <1>5, <1>6, <1>7 DEF PoolInv

LEMMA PoolKeeps == ASSUME PoolInv, [Pool!Next]_Pool!vars PROVE PoolInv'
<1>1. CASE Pool!Next
  <2>1. CASE Pool!Master
    BY <2>1, ReapKeeps, SpawnKeeps, CleanKeeps, ScanKeeps, CancelKeeps, PushKeeps, PostKeeps,
       JoinKeeps DEF Pool!Master, Pool!Manage
  <2>2. ASSUME NEW t \in Pool!Thread, Pool!Child(t) PROVE PoolInv'
    BY <2>2, WakeKeeps, SeeStopKeeps, DequeueKeeps, RunKeeps, AfterKeeps, CountExitKeeps,
       LeaveKeeps DEF Pool!Child
  <2>3. ASSUME NEW r \in Job,
               Pool!request_enqueue(r) \/ Pool!StopRequest(r) \/ Pool!request_free(r)
        PROVE  PoolInv'
    BY <2>3, EnqueueKeeps, StopKeeps, FreeKeeps
  <2>. QED  BY <1>1, <2>1, <2>2, <2>3, PoolStopKeeps, TickKeeps DEF Pool!Next
<1>2. CASE UNCHANGED Pool!vars
  <2>1. UNCHANGED <<list, pc, status, held, handled, sem, fifo, num_queued, active, exited,
                    last_cleaned, last_spawned, now, stop_flag, master, child_state, stopped,
                    freed>>
    BY <1>2 DEF Pool!vars
  <2>. QED
    BY <2>1, ThreadsSame, CountsSame, QueueSame, MasterSame, TimesSame DEF PoolInv
<1>. QED  BY <1>1, <1>2

LEMMA AlwaysPoolInv == Pool!Spec => []PoolInv
<1>1. Pool!Init => PoolInv
  BY PoolStarts
<1>2. PoolInv /\ [Pool!Next]_Pool!vars => PoolInv'
  BY PoolKeeps
<1>. QED  BY <1>1, <1>2, PTL DEF Pool!Spec

\* The master frees a request only when its child acknowledged it, so no freed
\* request is in a fifo or in a thread's hands, and a request runs once: for
\* any number of threads, requests and fifos.
THEOREM RequestsStaySafe == Pool!Spec => []PoolRequestsSafe
<1>1. PoolInv => PoolRequestsSafe
  <2>. SUFFICES ASSUME PoolInv PROVE PoolRequestsSafe
    OBVIOUS
  <2>1. Pool!NotFreedInUse
    BY DEF PoolInv, QueueOK, Pool!NotFreedInUse
  <2>2. Pool!RunOnce
    BY DEF PoolInv, QueueOK, Pool!RunOnce
  <2>. QED  BY <2>1, <2>2 DEF PoolRequestsSafe
<1>2. QED  BY <1>1, AlwaysPoolInv, PTL

\* The semaphore and the counters fit the threads and the fifos, whatever the
\* interleaving: no wake-up is lost, the spare count does not wrap, the queue
\* limit is that of the fifos together, and a thread that is gone gets reaped
\* if threads have no limit of requests.
THEOREM CountsStayExact == Pool!Spec => []PoolCountsFit
<1>1. PoolInv => PoolCountsFit
  <2>. SUFFICES ASSUME PoolInv PROVE PoolCountsFit
    OBVIOUS
  <2>. USE DEF PoolInv
  <2>1. \A S : N(pc, S) \in 0..MaxThreads
    BY OccFacts
  <2>2. /\ Pool!Cardinality(Pool!At("woken")) = N(pc, {"woken"})
        /\ Pool!Cardinality(Pool!At("run") \cup Pool!At("after")) = N(pc, {"run", "after"})
        /\ Pool!Cardinality(Pool!At("leave") \cup Pool!At("gone")) = N(pc, {"leave", "gone"})
    <3>1. /\ Pool!At("woken") = Occ(pc, {"woken"})
          /\ Pool!At("run") \cup Pool!At("after") = Occ(pc, {"run", "after"})
          /\ Pool!At("leave") \cup Pool!At("gone") = Occ(pc, {"leave", "gone"})
      BY DEF Pool!At, Occ
    <3>. QED  BY <3>1, SameCount DEF N
  <2>3. exited \in 0..MaxThreads /\ active \in 0..MaxThreads
    <3>1. N(pc, Looping) \in Nat /\ N(pc, {"leave", "gone"}) \in 0..MaxThreads
          /\ N(pc, {"run", "after"}) \in 0..MaxThreads
      BY <2>1, CountsInt
    <3>2. stop_flag \in BOOLEAN /\ exited \in Nat
      BY DEF MasterOK, CountsOK
    <3>. QED  BY <3>1, <3>2, PoolConstants DEF CountsOK
  <2>4. Pool!TypeOK
    <3>1. Pool!IsInjective(list)
      BY SeqWords DEF ThreadsOK
    <3>2. fifo \in [Pool!Priority -> Seq(Job)]
      BY DEF QueueOK, Tidy
    <3>. QED
      BY <2>3, <3>1, <3>2 DEF ThreadsOK, MasterOK, CountsOK, QueueOK, TimesOK, Sites, Pool!TypeOK
  <2>5. Pool!NoLostWakeup
    <3>1. N(pc, Serving) \in Nat /\ N(pc, {"woken"}) \in Nat /\ num_queued \in Int /\ sem \in Nat
      BY CountsInt, PoolConstants DEF QueueOK, CountsOK
    <3>. QED  BY <2>2, <3>1 DEF CountsOK, Pool!NoLostWakeup
  <2>6. Pool!CountersExact
    <3>1. active <= Len(list)
      BY ListLength DEF ThreadsOK, CountsOK
    <3>2. Pool!Cardinality(Pool!Elements(fifo)) = Cardinality(Pool!Elements(fifo))
      BY SameCount
    <3>. QED  BY <2>2, <3>1, <3>2 DEF CountsOK, QueueOK, Pool!CountersExact, Pool!total_threads
  <2>7. MaxPerThread = 0 => Pool!GoneIsReaped
    BY DEF ThreadsOK, Pool!GoneIsReaped
  <2>. QED  BY <2>4, <2>5, <2>6, <2>7 DEF PoolCountsFit
<1>2. QED  BY <1>1, AlwaysPoolInv, PTL
=============================================================================
