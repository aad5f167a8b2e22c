--------------------------- MODULE AtomicQueueProofs ---------------------------
(***************************************************************************)
(* Proofs about the queue of lib/atomic_queue.c for any number of threads  *)
(* and values and any size above one: positions and entries stay in step,  *)
(* an entry has one owner, and the queue is a bounded FIFO queue.  Then    *)
(* about the table of descriptors of lib/event.c for any size, and about   *)
(* the heap of its timers (lib/heap.c) for any number of timers and times. *)
(***************************************************************************)
EXTENDS Library, SequenceTheorems, FiniteSetTheorems, WellFoundedInduction, TLAPS

-----------------------------------------------------------------------------
(* Positions and entries *)

\* A position is a number of rounds and an entry.
LEMMA DivMod ==
    ASSUME NEW p \in Nat
    PROVE  /\ p = Size * (p \div Size) + (p % Size)
           /\ p \div Size \in Nat
           /\ p % Size \in Index
BY QueueAssumption, Z3 DEF Index

\* One round more is at least Size positions more.
LEMMA Rounds ==
    ASSUME NEW a \in Int, NEW b \in Int, a < b
    PROVE  Size * b >= Size * a + Size
<1>1. Size * (b - a - 1) >= 0
  BY QueueAssumption, Z3
<1>2. Size * (b - a - 1) = Size * b - Size * a - Size
  BY QueueAssumption, Z3
<1>. QED  BY <1>1, <1>2, QueueAssumption, Z3

\* Positions less than a round apart have different entries.
LEMMA Near ==
    ASSUME NEW p \in Nat, NEW q \in Nat, p < q, q < p + Size
    PROVE  Slot(p) # Slot(q)
<1>. DEFINE a == p \div Size
            b == q \div Size
<1>1. /\ p = Size * a + (p % Size) /\ a \in Nat /\ p % Size \in Index
      /\ q = Size * b + (q % Size) /\ b \in Nat /\ q % Size \in Index
  BY DivMod
<1>2. CASE a < b
  <2>1. Size * b >= Size * a + Size
    BY <1>1, <1>2, Rounds
  <2>. QED  BY <2>1, <1>1, QueueAssumption, Z3 DEF Slot, Index
<1>3. CASE b < a
  <2>1. Size * a >= Size * b + Size
    BY <1>1, <1>3, Rounds
  <2>. QED  BY <2>1, <1>1, QueueAssumption, Z3 DEF Slot, Index
<1>4. CASE a = b
  BY <1>1, <1>4, QueueAssumption, Z3 DEF Slot, Index
<1>. QED  BY <1>1, <1>2, <1>3, <1>4

\* A round later it is the same entry.
LEMMA NextRound ==
    ASSUME NEW p \in Nat
    PROVE  Slot(p + Size) = Slot(p)
<1>. DEFINE a == p \div Size
            b == (p + Size) \div Size
<1>1. /\ p = Size * a + (p % Size) /\ a \in Nat /\ p % Size \in Index
      /\ p + Size = Size * b + ((p + Size) % Size) /\ b \in Nat /\ (p + Size) % Size \in Index
  <2>1. p + Size \in Nat
    BY QueueAssumption
  <2>. QED  BY <2>1, DivMod
<1>2. Size * (a + 1) = Size * a + Size
  BY <1>1, QueueAssumption, Z3
<1>3. CASE a + 1 < b
  <2>1. Size * b >= Size * (a + 1) + Size
    BY <1>1, <1>3, Rounds
  <2>. QED  BY <2>1, <1>1, <1>2, QueueAssumption, Z3 DEF Slot, Index
<1>4. CASE b < a + 1
  <2>1. Size * (a + 1) >= Size * b + Size
    BY <1>1, <1>4, Rounds
  <2>. QED  BY <2>1, <1>1, <1>2, QueueAssumption, Z3 DEF Slot, Index
<1>5. CASE a + 1 = b
  BY <1>1, <1>2, <1>5, QueueAssumption, Z3 DEF Slot, Index
<1>. QED  BY <1>1, <1>3, <1>4, <1>5

LEMMA SlotType ==
    ASSUME NEW p \in Nat
    PROVE  Slot(p) \in Index
BY DivMod DEF Slot

\* The first Size positions are the entries themselves.
LEMMA FirstRound ==
    ASSUME NEW p \in Index
    PROVE  Slot(p) = p
BY QueueAssumption, Z3 DEF Slot, Index

-----------------------------------------------------------------------------
(* The inductive invariant *)

IInv == TypeOK /\ PositionsOK /\ SeenOK /\ OneOwner

LEMMA InitInv == ASSUME Init PROVE IInv
<1>1. TypeOK
  BY QueueAssumption DEF Init, TypeOK, At, Index
<1>2. PositionsOK
  <2>1. \A p \in 0..(Size - 1) : Slot(p) = p /\ p \in Index
    BY FirstRound DEF Index
  <2>. QED  BY <2>1, QueueAssumption DEF Init, PositionsOK, FreeAt, FullAt, Writing, Reading
<1>3. SeenOK /\ OneOwner
  BY DEF Init, SeenOK, OneOwner, Writing, Reading
<1>. QED  BY <1>1, <1>2, <1>3 DEF IInv

LEMMA TypeStep == ASSUME TypeOK, [Next]_vars PROVE TypeOK'
<1>. USE DEF TypeOK
<1>1. CASE UNCHANGED vars
  BY <1>1 DEF vars
<1>. SUFFICES ASSUME NEW t \in Thread, Begin(t) \/ Step(t) PROVE TypeOK'
  BY <1>1 DEF Next
<1>2. pos[t] \in Nat /\ Slot(pos[t]) \in Index /\ Size \in Nat \ {0}
  BY SlotType, QueueAssumption
<1>3. CASE \E v \in Value : PushBegin(t, v)
  BY <1>3 DEF PushBegin, Goto, At
<1>4. CASE PushLook(t)
  BY <1>2, <1>4 DEF PushLook, Goto, At
<1>5. CASE PushReload(t)
  BY <1>2, <1>5 DEF PushReload, Goto, At
<1>6. CASE PushCas(t)
  <2>1. CASE head = pos[t]
    <3>1. head' = head + 1 /\ pc' = [pc EXCEPT ![t] = "push_data"]
      BY <2>1, <1>6 DEF PushCas, Goto
    <3>2. head' \in Nat
      BY <3>1
    <3>4. pc' \in [Thread -> At]
      BY <3>1, "push_data" \in At DEF At
    <3>3. UNCHANGED <<tail, entry, pos, val>>
      BY <2>1, <1>6 DEF PushCas
    <3>. QED  BY <3>2, <3>3, <3>4
  <2>2. CASE head # pos[t]
    BY <2>2, <1>2, <1>6 DEF PushCas, Goto, At
  <2>. QED  BY <2>1, <2>2
<1>7. CASE PushData(t)
  BY <1>2, <1>7 DEF PushData, Goto, At
<1>8. CASE PushPublish(t)
  <2>1. pos[t] + 1 \in Nat
    BY <1>2
  <2>2. entry' \in [Index -> [seq: Nat, data: Value \cup {None}]]
    BY <2>1, <1>2, <1>8 DEF PushPublish
  <2>3. val' \in [Thread -> Value \cup {None}] /\ pc' \in [Thread -> At]
    BY <1>8 DEF PushPublish, Goto, At
  <2>. QED  BY <2>2, <2>3, <1>8 DEF PushPublish
<1>9. CASE PopBegin(t)
  BY <1>2, <1>9 DEF PopBegin, Goto, At
<1>10. CASE PopLook(t)
  BY <1>2, <1>10 DEF PopLook, Goto, At
<1>11. CASE PopReload(t)
  BY <1>2, <1>11 DEF PopReload, Goto, At
<1>12. CASE PopCas(t)
  <2>1. CASE tail = pos[t]
    <3>1. tail' = tail + 1 /\ pc' = [pc EXCEPT ![t] = "pop_data"]
      BY <2>1, <1>12 DEF PopCas, Goto
    <3>2. tail' \in Nat
      BY <3>1
    <3>4. pc' \in [Thread -> At]
      BY <3>1, "pop_data" \in At DEF At
    <3>3. UNCHANGED <<head, entry, pos, val>>
      BY <2>1, <1>12 DEF PopCas
    <3>. QED  BY <3>2, <3>3, <3>4
  <2>2. CASE tail # pos[t]
    BY <2>2, <1>2, <1>12 DEF PopCas, Goto, At
  <2>. QED  BY <2>1, <2>2
<1>13. CASE PopData(t)
  BY <1>2, <1>13 DEF PopData, Goto, At
<1>14. CASE PopRelease(t)
  <2>1. pos[t] + Size \in Nat
    BY <1>2
  <2>2. entry' \in [Index -> [seq: Nat, data: Value \cup {None}]]
    BY <2>1, <1>2, <1>14 DEF PopRelease
  <2>. QED  BY <2>2, <1>14 DEF PopRelease, Goto, At
<1>. QED
  BY <1>3, <1>4, <1>5, <1>6, <1>7, <1>8, <1>9, <1>10, <1>11, <1>12, <1>13, <1>14 DEF Begin, Step

-----------------------------------------------------------------------------
(* One thread's step preserves the invariant *)

\* Steps that read: nothing is won or given up.
Reads(t) ==
    /\ UNCHANGED <<head, tail, entry>>
    /\ ~Writing(t) /\ ~Reading(t) /\ ~Writing(t)' /\ ~Reading(t)'
    /\ \A u \in Thread \ {t} : pc'[u] = pc[u] /\ pos'[u] = pos[u]

LEMMA ReadsKeep ==
    ASSUME IInv, NEW t \in Thread, Reads(t)
    PROVE  PositionsOK' /\ OneOwner'
<1>1. ASSUME NEW u \in Thread
      PROVE  /\ Writing(u)' <=> Writing(u)
             /\ Reading(u)' <=> Reading(u)
             /\ (Writing(u) \/ Reading(u)) => pos'[u] = pos[u]
  <2>1. CASE u = t
    BY <2>1 DEF Reads
  <2>2. CASE u # t
    BY <2>2 DEF Reads, Writing, Reading
  <2>. QED  BY <2>1, <2>2
<1>2. \A p : (FreeAt(p)' <=> FreeAt(p)) /\ (FullAt(p)' <=> FullAt(p))
  BY DEF Reads, FreeAt, FullAt
<1>3. PositionsOK'
  BY <1>1, <1>2 DEF IInv, PositionsOK, Reads
<1>4. OneOwner'
  BY <1>1 DEF IInv, OneOwner
<1>. QED  BY <1>3, <1>4

\* The compare-and-exchange of a push succeeds only on an entry that is
\* still free, and then the queue has room.
LEMMA PushWins ==
    ASSUME IInv, NEW t \in Thread, pc[t] = "push_cas", head = pos[t], Size > 1
    PROVE  /\ head < tail + Size
           /\ FreeAt(head)
           /\ \A u \in Thread : Reading(u) => head < pos[u] + Size
<1>. USE QueueAssumption DEF IInv, TypeOK
<1>1. entry[Slot(head)].seq >= head
  BY DEF SeenOK
<1>2. head # tail + Size
  <2>1. SUFFICES ASSUME head = tail + Size PROVE FALSE
    OBVIOUS
  <2>2. Slot(head) = Slot(tail)
    BY <2>1, NextRound
  <2>3. tail \in tail..(head - 1)
    BY <2>1
  <2>4. FullAt(tail) \/ \E u \in Thread : Writing(u) /\ pos[u] = tail
    BY <2>3 DEF PositionsOK
  <2>5. entry[Slot(tail)].seq <= tail + 1
    BY <2>4 DEF PositionsOK, FullAt, FreeAt
  <2>6. entry[Slot(tail)].seq \in Nat
    BY SlotType
  <2>. QED  BY <2>1, <2>2, <2>5, <2>6, <1>1
<1>3. ASSUME NEW u \in Thread, Reading(u) PROVE head # pos[u] + Size
  <2>1. FullAt(pos[u]) /\ pos[u] \in Nat
    BY <1>3 DEF PositionsOK
  <2>2. Slot(pos[u] + Size) = Slot(pos[u])
    BY <2>1, NextRound
  <2>3. entry[Slot(pos[u])].seq = pos[u] + 1
    BY <2>1 DEF FullAt
  <2>. QED  BY <2>1, <2>2, <2>3, <1>1
<1>4. head < tail + Size
  <2>1. head <= tail + Size
    BY DEF PositionsOK
  <2>. QED  BY <2>1, <1>2
<1>5. FreeAt(head)
  <2>1. head \in head..(tail + Size - 1)
    BY <1>4
  <2>2. FreeAt(head) \/ \E u \in Thread : Reading(u) /\ pos[u] + Size = head
    BY <2>1 DEF PositionsOK
  <2>. QED  BY <2>2, <1>3
<1>6. ASSUME NEW u \in Thread, Reading(u) PROVE head < pos[u] + Size
  <2>1. head <= pos[u] + Size /\ pos[u] \in Nat
    BY <1>6 DEF PositionsOK
  <2>. QED  BY <2>1, <1>3, <1>6
<1>. QED  BY <1>4, <1>5, <1>6

\* The compare-and-exchange of a pop succeeds only on a published entry.
LEMMA PopWins ==
    ASSUME IInv, NEW t \in Thread, pc[t] = "pop_cas", tail = pos[t], Size > 1
    PROVE  /\ tail < head
           /\ FullAt(tail)
           /\ \A u \in Thread : Writing(u) => tail < pos[u]
<1>. USE QueueAssumption DEF IInv, TypeOK
<1>1. entry[Slot(tail)].seq >= tail + 1
  BY DEF SeenOK
<1>2. tail # head
  <2>1. SUFFICES ASSUME tail = head PROVE FALSE
    OBVIOUS
  <2>2. tail \in head..(tail + Size - 1)
    BY <2>1
  <2>3. FreeAt(tail) \/ \E u \in Thread : Reading(u) /\ pos[u] + Size = tail
    BY <2>2 DEF PositionsOK
  <2>4. CASE FreeAt(tail)
    BY <2>4, <1>1 DEF FreeAt
  <2>5. ASSUME NEW u \in Thread, Reading(u), pos[u] + Size = tail PROVE FALSE
    <3>1. FullAt(pos[u]) /\ Slot(pos[u]) = Slot(tail)
      BY <2>5, NextRound DEF PositionsOK
    <3>. QED  BY <3>1, <2>5, <1>1 DEF FullAt
  <2>. QED  BY <2>3, <2>4, <2>5
<1>3. ASSUME NEW u \in Thread, Writing(u) PROVE tail # pos[u]
  BY <1>3, <1>1 DEF PositionsOK, FreeAt
<1>4. tail < head
  <2>1. tail <= head
    BY DEF PositionsOK
  <2>. QED  BY <2>1, <1>2
<1>5. FullAt(tail)
  <2>1. tail \in tail..(head - 1)
    BY <1>4
  <2>. QED  BY <2>1, <1>3 DEF PositionsOK
<1>. QED  BY <1>3, <1>4, <1>5 DEF PositionsOK

\* Positions of one round have entries of their own.
LEMMA Window ==
    ASSUME NEW p \in Nat, NEW q \in Nat, p # q, p < q + Size, q < p + Size
    PROVE  Slot(p) # Slot(q)
BY Near, QueueAssumption

LEMMA PushCasStep ==
    ASSUME IInv, NEW t \in Thread, PushCas(t), Size > 1
    PROVE  PositionsOK' /\ SeenOK' /\ OneOwner'
<1>. USE QueueAssumption DEF IInv, TypeOK
<1>1. CASE head # pos[t]
  <2>1. Reads(t)
    BY <1>1 DEF PushCas, Goto, Reads, Writing, Reading
  <2>2. SeenOK'
    BY <1>1 DEF SeenOK, PushCas, Goto
  <2>. QED  BY <2>1, <2>2, ReadsKeep
<1>2. CASE head = pos[t]
  <2>. pc[t] = "push_cas"
    BY DEF PushCas
  <2>1. /\ head < tail + Size /\ FreeAt(head)
        /\ \A u \in Thread : Reading(u) => head < pos[u] + Size
    BY <1>2, PushWins
  <2>2. head' = head + 1 /\ UNCHANGED <<tail, entry, pos>> /\ pc' = [pc EXCEPT ![t] = "push_data"]
    BY <1>2 DEF PushCas, Goto
  <2>3. ASSUME NEW u \in Thread
        PROVE  /\ Reading(u)' <=> Reading(u)
               /\ u # t => (Writing(u)' <=> Writing(u))
               /\ Writing(t)' /\ ~Writing(t) /\ ~Reading(t)
    BY <2>2 DEF Reading, Writing
  <2>4. \A p : (FreeAt(p)' <=> FreeAt(p)) /\ (FullAt(p)' <=> FullAt(p))
    BY <2>2 DEF FreeAt, FullAt
  <2>5. PositionsOK'
    <3>1. (tail <= head /\ head <= tail + Size)'
      BY <2>1, <2>2 DEF PositionsOK
    <3>2. ASSUME NEW u \in Thread, Writing(u)'
          PROVE  (pos[u] < head /\ tail <= pos[u] /\ FreeAt(pos[u]))'
      <4>1. CASE u = t
        BY <4>1, <1>2, <2>1, <2>2 DEF PositionsOK, FreeAt
      <4>2. CASE u # t
        BY <4>2, <3>2, <2>2, <2>3 DEF PositionsOK, FreeAt
      <4>. QED  BY <4>1, <4>2
    <3>3. ASSUME NEW u \in Thread, Reading(u)'
          PROVE  (pos[u] < tail /\ head <= pos[u] + Size /\ FullAt(pos[u]))'
      BY <3>3, <2>1, <2>2, <2>3 DEF PositionsOK, FullAt
    <3>4. ASSUME NEW p \in (tail..(head - 1))'
          PROVE  FullAt(p)' \/ \E u \in Thread : Writing(u)' /\ pos'[u] = p
      <4>1. CASE p = head
        BY <4>1, <1>2, <2>2, <2>3
      <4>2. CASE p # head
        <5>1. p \in tail..(head - 1)
          BY <4>2, <2>2
        <5>2. FullAt(p) \/ \E u \in Thread : Writing(u) /\ pos[u] = p
          BY <5>1 DEF PositionsOK
        <5>. QED  BY <5>2, <2>2, <2>3, <2>4
      <4>. QED  BY <4>1, <4>2
    <3>5. ASSUME NEW p \in (head..(tail + Size - 1))'
          PROVE  FreeAt(p)' \/ \E u \in Thread : Reading(u)' /\ pos'[u] + Size = p
      <4>1. p \in head..(tail + Size - 1)
        BY <2>2
      <4>2. FreeAt(p) \/ \E u \in Thread : Reading(u) /\ pos[u] + Size = p
        BY <4>1 DEF PositionsOK
      <4>. QED  BY <4>2, <2>2, <2>3, <2>4
    <3>. QED  BY <3>1, <3>2, <3>3, <3>4, <3>5 DEF PositionsOK
  <2>6. SeenOK'
    BY <1>2, <2>2 DEF SeenOK
  <2>7. OneOwner'
    <3>1. ASSUME NEW u \in Thread, u # t, Writing(u) \/ Reading(u) PROVE Slot(pos[u]) # Slot(head)
      <4>1. CASE Writing(u)
        <5>1. pos[u] < head /\ head < pos[u] + Size /\ pos[u] \in Nat
          BY <4>1, <2>1 DEF PositionsOK
        <5>. QED  BY <5>1, Near
      <4>2. CASE Reading(u)
        <5>1. pos[u] < head /\ head < pos[u] + Size /\ pos[u] \in Nat
          BY <4>2, <2>1 DEF PositionsOK
        <5>. QED  BY <5>1, Near
      <4>. QED  BY <3>1, <4>1, <4>2
    <3>. QED  BY <1>2, <2>2, <2>3, <3>1 DEF OneOwner
  <2>. QED  BY <2>5, <2>6, <2>7
<1>. QED  BY <1>1, <1>2

LEMMA PopCasStep ==
    ASSUME IInv, NEW t \in Thread, PopCas(t), Size > 1
    PROVE  PositionsOK' /\ SeenOK' /\ OneOwner'
<1>. USE QueueAssumption DEF IInv, TypeOK
<1>1. CASE tail # pos[t]
  <2>1. Reads(t)
    BY <1>1 DEF PopCas, Goto, Reads, Writing, Reading
  <2>2. SeenOK'
    BY <1>1 DEF SeenOK, PopCas, Goto
  <2>. QED  BY <2>1, <2>2, ReadsKeep
<1>2. CASE tail = pos[t]
  <2>. pc[t] = "pop_cas"
    BY DEF PopCas
  <2>1. /\ tail < head /\ FullAt(tail)
        /\ \A u \in Thread : Writing(u) => tail < pos[u]
    BY <1>2, PopWins
  <2>2. tail' = tail + 1 /\ UNCHANGED <<head, entry, pos>> /\ pc' = [pc EXCEPT ![t] = "pop_data"]
    BY <1>2 DEF PopCas, Goto
  <2>3. ASSUME NEW u \in Thread
        PROVE  /\ Writing(u)' <=> Writing(u)
               /\ u # t => (Reading(u)' <=> Reading(u))
               /\ Reading(t)' /\ ~Writing(t) /\ ~Reading(t)
    BY <2>2 DEF Reading, Writing
  <2>4. \A p : (FreeAt(p)' <=> FreeAt(p)) /\ (FullAt(p)' <=> FullAt(p))
    BY <2>2 DEF FreeAt, FullAt
  <2>5. PositionsOK'
    <3>1. (tail <= head /\ head <= tail + Size)'
      BY <2>1, <2>2 DEF PositionsOK
    <3>2. ASSUME NEW u \in Thread, Writing(u)'
          PROVE  (pos[u] < head /\ tail <= pos[u] /\ FreeAt(pos[u]))'
      BY <3>2, <2>1, <2>2, <2>3 DEF PositionsOK, FreeAt
    <3>3. ASSUME NEW u \in Thread, Reading(u)'
          PROVE  (pos[u] < tail /\ head <= pos[u] + Size /\ FullAt(pos[u]))'
      <4>1. CASE u = t
        BY <4>1, <1>2, <2>1, <2>2 DEF PositionsOK, FullAt
      <4>2. CASE u # t
        BY <4>2, <3>3, <2>2, <2>3 DEF PositionsOK, FullAt
      <4>. QED  BY <4>1, <4>2
    <3>4. ASSUME NEW p \in (tail..(head - 1))'
          PROVE  FullAt(p)' \/ \E u \in Thread : Writing(u)' /\ pos'[u] = p
      <4>1. p \in tail..(head - 1)
        BY <2>2
      <4>2. FullAt(p) \/ \E u \in Thread : Writing(u) /\ pos[u] = p
        BY <4>1 DEF PositionsOK
      <4>. QED  BY <4>2, <2>2, <2>3, <2>4
    <3>5. ASSUME NEW p \in (head..(tail + Size - 1))'
          PROVE  FreeAt(p)' \/ \E u \in Thread : Reading(u)' /\ pos'[u] + Size = p
      <4>1. CASE p = tail + Size
        BY <4>1, <1>2, <2>2, <2>3
      <4>2. CASE p # tail + Size
        <5>1. p \in head..(tail + Size - 1)
          BY <4>2, <2>2
        <5>2. FreeAt(p) \/ \E u \in Thread : Reading(u) /\ pos[u] + Size = p
          BY <5>1 DEF PositionsOK
        <5>. QED  BY <5>2, <2>2, <2>3, <2>4
      <4>. QED  BY <4>1, <4>2
    <3>. QED  BY <3>1, <3>2, <3>3, <3>4, <3>5 DEF PositionsOK
  <2>6. SeenOK'
    BY <1>2, <2>2 DEF SeenOK
  <2>7. OneOwner'
    <3>1. ASSUME NEW u \in Thread, u # t, Writing(u) \/ Reading(u) PROVE Slot(pos[u]) # Slot(tail)
      <4>1. CASE Writing(u)
        <5>1. tail < pos[u] /\ pos[u] < tail + Size /\ pos[u] \in Nat
          BY <4>1, <2>1 DEF PositionsOK
        <5>. QED  BY <5>1, Near
      <4>2. CASE Reading(u)
        <5>1. pos[u] < tail /\ tail < pos[u] + Size /\ pos[u] \in Nat
          BY <4>2, <2>1 DEF PositionsOK
        <5>. QED  BY <5>1, Near
      <4>. QED  BY <3>1, <4>1, <4>2
    <3>. QED  BY <1>2, <2>2, <2>3, <3>1 DEF OneOwner
  <2>. QED  BY <2>5, <2>6, <2>7
<1>. QED  BY <1>1, <1>2

\* Copying data in or out disturbs no seq and no position.
LEMMA DataStep ==
    ASSUME IInv, NEW t \in Thread, PushData(t) \/ PopData(t)
    PROVE  PositionsOK' /\ SeenOK' /\ OneOwner'
<1>. USE DEF IInv, TypeOK
<1>1. UNCHANGED <<head, tail, pos>>
  BY DEF PushData, PopData
<1>2. ASSUME NEW i \in Index PROVE entry'[i].seq = entry[i].seq
  <2>1. Slot(pos[t]) \in Index
    BY SlotType
  <2>. QED  BY <2>1 DEF PushData, PopData
<1>3. ASSUME NEW u \in Thread
      PROVE  /\ Writing(u)' <=> Writing(u)
             /\ Reading(u)' <=> Reading(u)
             /\ pc[u] \notin {"push_data", "pop_data"} => pc'[u] = pc[u]
             /\ pc'[u] \notin {"push_publish", "pop_release"} => pc'[u] = pc[u]
  BY DEF Writing, Reading, PushData, PopData, Goto
<1>4. \A p \in Nat : (FreeAt(p)' <=> FreeAt(p)) /\ (FullAt(p)' <=> FullAt(p))
  BY <1>2, SlotType DEF FreeAt, FullAt
<1>5. PositionsOK'
  <2>1. \A u \in Thread : /\ FreeAt(pos[u])' <=> FreeAt(pos[u])
                          /\ FullAt(pos[u])' <=> FullAt(pos[u])
    BY <1>1, <1>2, SlotType DEF FreeAt, FullAt
  <2>2. tail..(head - 1) \subseteq Nat /\ head..(tail + Size - 1) \subseteq Nat
    BY QueueAssumption
  <2>. QED  BY <1>1, <1>3, <1>4, <2>1, <2>2 DEF PositionsOK
<1>6. SeenOK'
  <2>1. \A u \in Thread : entry'[Slot(pos'[u])].seq = entry[Slot(pos[u])].seq
    BY <1>1, <1>2, SlotType
  <2>. QED  BY <1>1, <1>3, <2>1 DEF SeenOK
<1>7. OneOwner'
  BY <1>1, <1>3 DEF OneOwner
<1>. QED  BY <1>5, <1>6, <1>7

\* A step that ends a call and sets the seq of the entry it owned to n.
Gives(t, n) ==
    /\ n \in Nat
    /\ UNCHANGED <<head, tail, pos>>
    /\ pc' = [pc EXCEPT ![t] = "idle"]
    /\ entry'[Slot(pos[t])].seq = n
    /\ \A i \in Index \ {Slot(pos[t])} : entry'[i].seq = entry[i].seq

\* What such a step leaves as it was.
LEMMA GivesKeep ==
    ASSUME IInv, NEW t \in Thread, NEW n, Gives(t, n), Writing(t) \/ Reading(t),
           entry[Slot(pos[t])].seq <= n
    PROVE  /\ SeenOK' /\ OneOwner'
           /\ \A u \in Thread : u # t => (Writing(u)' <=> Writing(u)) /\ (Reading(u)' <=> Reading(u))
           /\ ~Writing(t)' /\ ~Reading(t)'
           /\ \A u \in Thread \ {t} : Writing(u) => FreeAt(pos[u])'
           /\ \A u \in Thread \ {t} : Reading(u) => FullAt(pos[u])'
           /\ \A p \in Nat : Slot(p) # Slot(pos[t]) => (FreeAt(p)' <=> FreeAt(p)) /\ (FullAt(p)' <=> FullAt(p))
<1>. USE DEF IInv, TypeOK
<1>1. \A u \in Thread : pos[u] \in Nat /\ Slot(pos[u]) \in Index
  BY SlotType
<1>2. ASSUME NEW u \in Thread, u # t
      PROVE  /\ pc'[u] = pc[u]
             /\ Writing(u)' <=> Writing(u)
             /\ Reading(u)' <=> Reading(u)
  BY <1>2 DEF Gives, Writing, Reading
<1>3. pc'[t] = "idle" /\ ~Writing(t)' /\ ~Reading(t)'
  BY DEF Gives, Writing, Reading
<1>4. OneOwner'
  BY <1>2, <1>3 DEF OneOwner, Gives
<1>5. SeenOK'
  <2>1. ASSUME NEW u \in Thread PROVE entry[Slot(pos[u])].seq <= entry'[Slot(pos[u])].seq
    <3>1. entry[Slot(pos[u])].seq \in Nat
      BY <1>1
    <3>2. CASE Slot(pos[u]) = Slot(pos[t])
      BY <3>2 DEF Gives
    <3>3. CASE Slot(pos[u]) # Slot(pos[t])
      BY <3>1, <3>3, <1>1 DEF Gives
    <3>. QED  BY <3>2, <3>3
  <2>2. ASSUME NEW u \in Thread
        PROVE  entry[Slot(pos[u])].seq \in Nat /\ entry'[Slot(pos[u])].seq \in Nat
    BY <1>1 DEF Gives
  <2>3. ASSUME NEW u \in Thread, u # t
        PROVE  /\ pc[u] = "push_cas" => pos[u] <= entry'[Slot(pos[u])].seq
               /\ pc[u] = "pop_cas" => pos[u] + 1 <= entry'[Slot(pos[u])].seq
    BY <2>1, <2>2, <1>1 DEF SeenOK
  <2>. QED  BY <1>2, <1>3, <2>3 DEF SeenOK, Gives
<1>6. ASSUME NEW u \in Thread \ {t}, Writing(u) \/ Reading(u)
      PROVE  entry'[Slot(pos[u])].seq = entry[Slot(pos[u])].seq
  <2>1. Slot(pos[u]) # Slot(pos[t])
    BY <1>6 DEF OneOwner
  <2>. QED  BY <2>1, <1>1 DEF Gives
<1>7. \A u \in Thread \ {t} : Writing(u) => FreeAt(pos[u])'
  BY <1>6 DEF PositionsOK, FreeAt, Gives
<1>8. \A u \in Thread \ {t} : Reading(u) => FullAt(pos[u])'
  BY <1>6 DEF PositionsOK, FullAt, Gives
<1>9. \A p \in Nat : Slot(p) # Slot(pos[t]) => (FreeAt(p)' <=> FreeAt(p)) /\ (FullAt(p)' <=> FullAt(p))
  BY SlotType DEF Gives, FreeAt, FullAt
<1>10. \A u \in Thread : u # t => (Writing(u)' <=> Writing(u)) /\ (Reading(u)' <=> Reading(u))
  BY <1>2
<1>. HIDE DEF IInv, TypeOK
<1>. QED  BY <1>3, <1>4, <1>5, <1>7, <1>8, <1>9, <1>10

LEMMA PublishStep ==
    ASSUME IInv, NEW t \in Thread, PushPublish(t), Size > 1
    PROVE  PositionsOK' /\ SeenOK' /\ OneOwner'
<1>. USE QueueAssumption DEF IInv, TypeOK
<1>. DEFINE q == pos[t]
<1>1. q \in Nat /\ Slot(q) \in Index /\ Writing(t)
  BY SlotType DEF PushPublish, Writing
<1>2. tail <= q /\ q < head /\ entry[Slot(q)].seq = q
  BY <1>1 DEF PositionsOK, FreeAt
<1>3. Gives(t, q + 1)
  BY <1>1 DEF Gives, PushPublish, Goto
<1>4. entry[Slot(q)].seq <= q + 1
  BY <1>1, <1>2
<1>. HIDE DEF q
<1>5. /\ SeenOK' /\ OneOwner'
      /\ \A u \in Thread : u # t => (Writing(u)' <=> Writing(u)) /\ (Reading(u)' <=> Reading(u))
      /\ ~Writing(t)' /\ ~Reading(t)'
      /\ \A u \in Thread \ {t} : Writing(u) => FreeAt(pos[u])'
      /\ \A u \in Thread \ {t} : Reading(u) => FullAt(pos[u])'
      /\ \A p \in Nat : Slot(p) # Slot(q) => (FreeAt(p)' <=> FreeAt(p)) /\ (FullAt(p)' <=> FullAt(p))
  BY <1>1, <1>3, <1>4, GivesKeep DEF q
<1>6. UNCHANGED <<head, tail, pos>> /\ entry'[Slot(q)].seq = q + 1
  BY <1>3 DEF Gives, q
<1>7. ASSUME NEW p \in tail..(tail + Size - 1), p # q PROVE p \in Nat /\ Slot(p) # Slot(q)
  <2>1. p \in Nat /\ p < q + Size /\ q < p + Size
    BY <1>1, <1>2, <1>7 DEF PositionsOK
  <2>. QED  BY <2>1, <1>1, <1>7, Window
<1>8. ASSUME NEW p \in tail..(head - 1) PROVE FullAt(p)' \/ \E u \in Thread : Writing(u)' /\ pos'[u] = p
  <2>1. CASE p = q
    BY <2>1, <1>6 DEF FullAt
  <2>2. CASE p # q
    <3>1. FullAt(p) \/ \E u \in Thread : Writing(u) /\ pos[u] = p
      BY DEF PositionsOK
    <3>2. p \in tail..(tail + Size - 1)
      BY DEF PositionsOK
    <3>3. \A u \in Thread : pos[u] = p => u # t
      BY <2>2 DEF q
    <3>. QED  BY <3>1, <3>2, <3>3, <2>2, <1>5, <1>6, <1>7
  <2>. QED  BY <2>1, <2>2
<1>9. ASSUME NEW p \in head..(tail + Size - 1)
      PROVE  FreeAt(p)' \/ \E u \in Thread : Reading(u)' /\ pos'[u] + Size = p
  <2>1. FreeAt(p) \/ \E u \in Thread : Reading(u) /\ pos[u] + Size = p
    BY DEF PositionsOK
  <2>2. p \in tail..(tail + Size - 1) /\ p # q
    BY <1>2 DEF PositionsOK
  <2>3. ~Reading(t)
    BY <1>1 DEF Writing, Reading
  <2>. QED  BY <2>1, <2>2, <2>3, <1>5, <1>6, <1>7
<1>10. PositionsOK'
  BY <1>5, <1>6, <1>8, <1>9 DEF PositionsOK
<1>. QED  BY <1>5, <1>10

LEMMA ReleaseStep ==
    ASSUME IInv, NEW t \in Thread, PopRelease(t), Size > 1
    PROVE  PositionsOK' /\ SeenOK' /\ OneOwner'
<1>. USE QueueAssumption DEF IInv, TypeOK
<1>. DEFINE q == pos[t]
<1>1. q \in Nat /\ Slot(q) \in Index /\ Reading(t)
  BY SlotType DEF PopRelease, Reading
<1>2. q < tail /\ head <= q + Size /\ entry[Slot(q)].seq = q + 1
  BY <1>1 DEF PositionsOK, FullAt
<1>3. Gives(t, q + Size)
  BY <1>1 DEF Gives, PopRelease, Goto
<1>4. entry[Slot(q)].seq <= q + Size
  BY <1>1, <1>2
<1>. HIDE DEF q
<1>5. /\ SeenOK' /\ OneOwner'
      /\ \A u \in Thread : u # t => (Writing(u)' <=> Writing(u)) /\ (Reading(u)' <=> Reading(u))
      /\ ~Writing(t)' /\ ~Reading(t)'
      /\ \A u \in Thread \ {t} : Writing(u) => FreeAt(pos[u])'
      /\ \A u \in Thread \ {t} : Reading(u) => FullAt(pos[u])'
      /\ \A p \in Nat : Slot(p) # Slot(q) => (FreeAt(p)' <=> FreeAt(p)) /\ (FullAt(p)' <=> FullAt(p))
  BY <1>1, <1>3, <1>4, GivesKeep DEF q
<1>6. UNCHANGED <<head, tail, pos>> /\ Slot(q + Size) = Slot(q)
  BY <1>1, <1>3, NextRound DEF Gives
<1>7. entry'[Slot(q + Size)].seq = q + Size
  BY <1>3, <1>6 DEF Gives, q
<1>8. ASSUME NEW p \in tail..(tail + Size - 1), p # q + Size PROVE p \in Nat /\ Slot(p) # Slot(q)
  <2>1. p \in Nat /\ q + Size \in Nat /\ p < (q + Size) + Size /\ q + Size < p + Size
    BY <1>1, <1>2, <1>8 DEF PositionsOK
  <2>2. Slot(p) # Slot(q + Size)
    BY <2>1, <1>8, Window
  <2>. QED  BY <2>1, <2>2, <1>6
<1>9. ASSUME NEW p \in tail..(head - 1) PROVE FullAt(p)' \/ \E u \in Thread : Writing(u)' /\ pos'[u] = p
  <2>1. FullAt(p) \/ \E u \in Thread : Writing(u) /\ pos[u] = p
    BY DEF PositionsOK
  <2>2. p \in tail..(tail + Size - 1) /\ p # q + Size
    BY <1>1, <1>2 DEF PositionsOK
  <2>3. ~Writing(t)
    BY <1>1 DEF Writing, Reading
  <2>. QED  BY <2>1, <2>2, <2>3, <1>5, <1>6, <1>8
<1>10. ASSUME NEW p \in head..(tail + Size - 1)
       PROVE  FreeAt(p)' \/ \E u \in Thread : Reading(u)' /\ pos'[u] + Size = p
  <2>1. CASE p = q + Size
    BY <2>1, <1>7 DEF FreeAt
  <2>2. CASE p # q + Size
    <3>1. FreeAt(p) \/ \E u \in Thread : Reading(u) /\ pos[u] + Size = p
      BY DEF PositionsOK
    <3>2. p \in tail..(tail + Size - 1)
      BY DEF PositionsOK
    <3>3. \A u \in Thread : pos[u] + Size = p => u # t
      BY <2>2 DEF q
    <3>. QED  BY <3>1, <3>2, <3>3, <2>2, <1>5, <1>6, <1>8
  <2>. QED  BY <2>1, <2>2
<1>11. PositionsOK'
  BY <1>5, <1>6, <1>9, <1>10 DEF PositionsOK
<1>. QED  BY <1>5, <1>11

-----------------------------------------------------------------------------
(* Theorems *)

LEMMA StepInv == ASSUME IInv, [Next]_vars, Size > 1 PROVE IInv'
<1>1. TypeOK'
  BY TypeStep DEF IInv
<1>2. PositionsOK' /\ SeenOK' /\ OneOwner'
  <2>1. CASE UNCHANGED vars
    BY <2>1 DEF vars, IInv, PositionsOK, SeenOK, OneOwner, FreeAt, FullAt, Writing, Reading
  <2>. SUFFICES ASSUME NEW t \in Thread, Begin(t) \/ Step(t) PROVE PositionsOK' /\ SeenOK' /\ OneOwner'
    BY <2>1 DEF Next
  <2>2. CASE \/ Begin(t) \/ PushLook(t) \/ PushReload(t) \/ PopLook(t) \/ PopReload(t)
    <3>1. Reads(t)
      BY <2>2 DEF Begin, PushBegin, PopBegin, PushLook, PushReload, PopLook, PopReload, Goto,
                  Reads, Writing, Reading, IInv, TypeOK
    <3>2. SeenOK'
      <4>1. head \in Nat /\ tail \in Nat /\ pos[t] \in Nat /\ entry[Slot(pos[t])].seq \in Nat
        BY SlotType DEF IInv, TypeOK
      <4>2. CASE Begin(t) \/ PushReload(t) \/ PopReload(t)
        BY <4>1, <4>2 DEF Begin, PushBegin, PopBegin, PushReload, PopReload, Goto, SeenOK, IInv, TypeOK
      <4>3. CASE PushLook(t)
        BY <4>1, <4>3 DEF PushLook, Goto, SeenOK, IInv, TypeOK
      <4>4. CASE PopLook(t)
        BY <4>1, <4>4 DEF PopLook, Goto, SeenOK, IInv, TypeOK
      <4>. QED  BY <2>2, <4>2, <4>3, <4>4
    <3>. QED  BY <3>1, <3>2, ReadsKeep
  <2>3. CASE PushCas(t)
    BY <2>3, PushCasStep
  <2>4. CASE PopCas(t)
    BY <2>4, PopCasStep
  <2>5. CASE PushData(t) \/ PopData(t)
    BY <2>5, DataStep
  <2>6. CASE PushPublish(t)
    BY <2>6, PublishStep
  <2>7. CASE PopRelease(t)
    BY <2>7, ReleaseStep
  <2>. QED  BY <2>2, <2>3, <2>4, <2>5, <2>6, <2>7 DEF Step
<1>. QED  BY <1>1, <1>2 DEF IInv

LEMMA QueueInvariant == ASSUME Size > 1 PROVE Spec => []IInv
<1>1. Init => IInv
  BY InitInv
<1>2. IInv /\ [Next]_vars => IInv'
  BY StepInv
<1>. QED  BY <1>1, <1>2, PTL DEF Spec

\* head, tail, the entries and the threads' places keep their types.
THEOREM QueueTypes == ASSUME Size > 1 PROVE Spec => []TypeOK
<1>1. IInv => TypeOK
  BY DEF IInv
<1>. QED  BY <1>1, QueueInvariant, PTL

\* Positions and the seq numbers of the entries stay in step, whatever the
\* threads do: what fr_atomic_queue_push and _pop compare is what they mean.
THEOREM PositionsAgree == ASSUME Size > 1 PROVE Spec => []PositionsOK
<1>1. IInv => PositionsOK
  BY DEF IInv
<1>. QED  BY <1>1, QueueInvariant, PTL

\* A compare-and-exchange that succeeds acts on what the thread saw.
THEOREM SeenStays == ASSUME Size > 1 PROVE Spec => []SeenOK
<1>1. IInv => SeenOK
  BY DEF IInv
<1>. QED  BY <1>1, QueueInvariant, PTL

\* No two threads copy data into or out of one entry at the same time.
THEOREM EntriesOwned == ASSUME Size > 1 PROVE Spec => []OneOwner
<1>1. IInv => OneOwner
  BY DEF IInv
<1>. QED  BY <1>1, QueueInvariant, PTL

-----------------------------------------------------------------------------
(* The queue implements BoundedQueue *)

LEMMA FunSeq ==
    ASSUME NEW S, NEW n \in Nat, NEW f \in [1..n -> S]
    PROVE  f \in Seq(S) /\ Len(f) = n
OBVIOUS

LEMMA AppendFun ==
    ASSUME NEW S, NEW n \in Nat, NEW f \in [1..n -> S], NEW v \in S,
           NEW g \in [1..(n + 1) -> S], g[n + 1] = v, \A i \in 1..n : g[i] = f[i]
    PROVE  g = Append(f, v)
<1>1. f \in Seq(S) /\ Len(f) = n
  BY FunSeq
<1>2. g \in Seq(S) /\ Len(g) = n + 1
  BY FunSeq
<1>3. Append(f, v) \in Seq(S) /\ Len(Append(f, v)) = n + 1
  BY <1>1
<1>4. \A i \in 1..(n + 1) : g[i] = Append(f, v)[i]
  BY <1>1
<1>. QED  BY <1>2, <1>3, <1>4, SeqEqual

LEMMA TailFun ==
    ASSUME NEW S, NEW n \in Nat, NEW f \in [1..(n + 1) -> S],
           NEW g \in [1..n -> S], \A i \in 1..n : g[i] = f[i + 1]
    PROVE  f # <<>> /\ g = Tail(f) /\ Head(f) = f[1]
<1>1. f \in Seq(S) /\ Len(f) = n + 1
  BY FunSeq
<1>2. g \in Seq(S) /\ Len(g) = n
  BY FunSeq
<1>3. f # <<>>
  BY <1>1
<1>4. /\ Tail(f) \in Seq(S) /\ Len(Tail(f)) = n
      /\ \A i \in 1..n : Tail(f)[i] = f[i + 1]
  BY <1>1, <1>3, HeadTailProperties
<1>5. g = Tail(f)
  BY <1>2, <1>4, SeqEqual
<1>. QED  BY <1>3, <1>5, <1>1

\* Pushes keep their value until it is published, and pops have none yet.
DataOK ==
    \A t \in Thread :
        /\ pc[t] \in {"pop", "pop_reload", "pop_cas", "pop_data"} => val[t] = None
        /\ pc[t] \in {"push", "push_reload", "push_cas", "push_data", "push_publish"} => val[t] \in Value
        /\ pc[t] = "push_publish" => entry[Slot(pos[t])].data = val[t]

LEMMA DataInit == ASSUME Init PROVE DataOK
BY DEF Init, DataOK

LEMMA DataNext == ASSUME IInv, DataOK, [Next]_vars PROVE DataOK'
<1>1. CASE UNCHANGED vars
  BY <1>1 DEF vars, DataOK
<1>. SUFFICES ASSUME NEW t \in Thread, Begin(t) \/ Step(t) PROVE DataOK'
  BY <1>1 DEF Next
<1>. USE DEF IInv, TypeOK
<1>2. \A u \in Thread : Slot(pos[u]) \in Index
  BY SlotType
<1>3. ASSUME NEW u \in Thread \ {t}
      PROVE  /\ pc'[u] = pc[u] /\ val'[u] = val[u]
             /\ pc[u] = "push_publish" => entry'[Slot(pos'[u])].data = entry[Slot(pos[u])].data
  <2>1. pc'[u] = pc[u] /\ val'[u] = val[u] /\ pos'[u] = pos[u]
    BY DEF Begin, Step, PushBegin, PopBegin, PushLook, PushReload, PushCas, PushData, PushPublish,
           PopLook, PopReload, PopCas, PopData, PopRelease, Goto
  <2>2. CASE UNCHANGED entry
    BY <2>1, <2>2
  <2>3. CASE PushData(t) \/ PushPublish(t) \/ PopRelease(t)
    <3>1. pc[u] = "push_publish" => Slot(pos[u]) # Slot(pos[t])
      BY <2>3 DEF OneOwner, Writing, Reading, PushData, PushPublish, PopRelease
    <3>. QED  BY <2>1, <2>3, <3>1, <1>2 DEF PushData, PushPublish, PopRelease
  <2>. QED
    BY <2>2, <2>3 DEF Begin, Step, PushBegin, PopBegin, PushLook, PushReload, PushCas, PopLook,
                      PopReload, PopCas, PopData
<1>4. /\ pc'[t] \in {"pop", "pop_reload", "pop_cas", "pop_data"} => val'[t] = None
      /\ pc'[t] \in {"push", "push_reload", "push_cas", "push_data", "push_publish"} => val'[t] \in Value
      /\ pc'[t] = "push_publish" => entry'[Slot(pos'[t])].data = val'[t]
  BY <1>2 DEF DataOK, Begin, Step, PushBegin, PopBegin, PushLook, PushReload, PushCas, PushData,
              PushPublish, PopLook, PopReload, PopCas, PopData, PopRelease, Goto
<1>. QED  BY <1>3, <1>4 DEF DataOK

\* The position of a push in progress has one writer, so ValueAt is its value.
LEMMA Pushing ==
    ASSUME IInv, NEW t \in Thread, Writing(t)
    PROVE  Pending(pos[t]) = {t} /\ ValueAt(pos[t]) = val[t]
<1>1. ASSUME NEW u \in Pending(pos[t]) PROVE u = t
  BY DEF Pending, IInv, OneOwner
<1>2. Pending(pos[t]) = {t}
  BY <1>1 DEF Pending
<1>. QED  BY <1>2 DEF ValueAt

LEMMA Published ==
    ASSUME NEW p, \A t \in Thread : Writing(t) => pos[t] # p
    PROVE  Pending(p) = {} /\ ValueAt(p) = entry[Slot(p)].data
<1>1. Pending(p) = {}
  BY DEF Pending
<1>. QED  BY <1>1 DEF ValueAt

\* The queue is a sequence of values and of NULL.
LEMMA QueueType ==
    ASSUME IInv
    PROVE  /\ \A p \in Nat : ValueAt(p) \in Value \cup {None}
           /\ head - tail \in Nat
           /\ Queue \in [1..(head - tail) -> Value \cup {None}]
<1>. USE DEF IInv, TypeOK
<1>1. ASSUME NEW p \in Nat PROVE ValueAt(p) \in Value \cup {None}
  <2>1. CASE Pending(p) = {}
    <3>1. Slot(p) \in Index
      BY SlotType
    <3>. QED  BY <2>1, <3>1 DEF ValueAt
  <2>2. CASE Pending(p) # {}
    <3>1. (CHOOSE t \in Pending(p) : TRUE) \in Thread
      BY <2>2 DEF Pending
    <3>. QED  BY <2>2, <3>1 DEF ValueAt
  <2>. QED  BY <2>1, <2>2
<1>2. head - tail \in Nat
  BY DEF PositionsOK
<1>3. \A i \in 1..(head - tail) : tail + i - 1 \in Nat
  OBVIOUS
<1>. QED  BY <1>1, <1>2, <1>3 DEF Queue

\* A step that keeps head, tail and every value keeps the queue.
LEMMA SameQueue ==
    ASSUME IInv, UNCHANGED <<head, tail>>,
           \A p \in tail..(head - 1) : ValueAt(p)' = ValueAt(p)
    PROVE  Queue' = Queue
<1>1. head \in Nat /\ tail \in Nat
  BY DEF IInv, TypeOK
<1>2. \A i \in 1..(head - tail) : tail + i - 1 \in tail..(head - 1)
  BY <1>1
<1>3. ASSUME NEW i \in 1..(head - tail) PROVE ValueAt(tail + i - 1)' = ValueAt(tail + i - 1)
  <2>1. PICK p \in tail..(head - 1) : p = tail + i - 1
    BY <1>2
  <2>2. ValueAt(p)' = ValueAt(p)
    OBVIOUS
  <2>. QED  BY <2>1, <2>2 DEF ValueAt, Pending, Writing
<1>. QED  BY <1>3 DEF Queue

\* Steps in which no thread begins or ends to write, and no data moves.
LEMMA ReadsQueue ==
    ASSUME IInv, NEW t \in Thread, Reads(t), \A u \in Thread \ {t} : val'[u] = val[u]
    PROVE  Queue' = Queue
<1>1. ASSUME NEW p PROVE Pending(p)' = Pending(p)
  BY DEF Pending, Reads, Writing, Reading
<1>2. ASSUME NEW p PROVE t \notin Pending(p)
  BY DEF Pending, Reads
<1>3. ASSUME NEW p PROVE ValueAt(p)' = ValueAt(p)
  <2>1. CASE Pending(p) = {}
    BY <1>1, <2>1 DEF ValueAt, Reads
  <2>2. CASE Pending(p) # {}
    <3>1. (CHOOSE u \in Pending(p) : TRUE) \in Thread \ {t}
      BY <1>2, <2>2 DEF Pending
    <3>. QED  BY <1>1, <2>2, <3>1 DEF ValueAt
  <2>. QED  BY <2>1, <2>2
<1>. QED  BY <1>3, SameQueue DEF Reads

\* A push that wins head appends its value.
LEMMA SimPush ==
    ASSUME IInv, DataOK, IInv', NEW t \in Thread, PushCas(t), head = pos[t], Size > 1
    PROVE  Len(Queue) < Size /\ Queue' = Append(Queue, val[t]) /\ val[t] \in Value /\ Taken' = Taken
<1>. DEFINE n == head - tail
            W == Value \cup {None}
<1>1. pc[t] = "push_cas" /\ val[t] \in Value
  BY DEF PushCas, DataOK
<1>2. head' = head + 1 /\ UNCHANGED <<tail, entry, pos, val>> /\ pc' = [pc EXCEPT ![t] = "push_data"]
  BY DEF PushCas, Goto
<1>3. head < tail + Size
  BY <1>1, PushWins
<1>4. head \in Nat /\ tail \in Nat /\ Size \in Nat /\ pc \in [Thread -> At]
  BY QueueAssumption DEF IInv, TypeOK
<1>5. n \in Nat /\ Queue \in [1..n -> W]
  BY QueueType
<1>6. ASSUME NEW u \in Thread, u # t PROVE Writing(u)' <=> Writing(u)
  BY <1>2, <1>4, <1>6 DEF Writing
<1>7. Writing(t)' /\ ~Writing(t)
  BY <1>1, <1>2, <1>4 DEF Writing
<1>8. ASSUME NEW p \in tail..(head - 1) PROVE ValueAt(p)' = ValueAt(p)
  <2>1. p # pos[t]
    BY <1>4
  <2>2. Pending(p)' = Pending(p)
    BY <2>1, <1>2, <1>6, <1>7 DEF Pending
  <2>. QED  BY <2>2, <1>2 DEF ValueAt
<1>9. ASSUME NEW p, p = pos[t] PROVE ValueAt(p)' = val[t]
  <2>1. \A u \in Thread : Writing(u) => pos[u] # p
    BY <1>9, <1>4 DEF IInv, PositionsOK, TypeOK
  <2>2. Pending(p)' = {t}
    BY <2>1, <1>2, <1>6, <1>7, <1>9 DEF Pending
  <2>. QED  BY <2>2, <1>2 DEF ValueAt
<1>10. Queue' = [i \in 1..(n + 1) |-> ValueAt(tail + i - 1)']
  <2>1. head' - tail' = n + 1
    BY <1>2, <1>4
  <2>. QED  BY <2>1 DEF Queue
<1>11. Queue'[n + 1] = val[t] /\ n + 1 \in 1..(n + 1)
  <2>1. PICK p : p = pos[t]
    OBVIOUS
  <2>2. n + 1 \in 1..(n + 1) /\ tail' + (n + 1) - 1 = p
    BY <2>1, <1>2, <1>4, <1>5
  <2>3. ValueAt(p)' = val[t]
    BY <2>1, <1>9
  <2>. QED  BY <1>10, <2>2, <2>3 DEF ValueAt, Pending, Writing
<1>12. \A i \in 1..n : Queue'[i] = Queue[i]
  <2>1. ASSUME NEW i \in 1..n PROVE ValueAt(tail + i - 1)' = ValueAt(tail + i - 1)
    <3>1. PICK p \in tail..(head - 1) : p = tail + i - 1
      BY <1>4
    <3>2. ValueAt(p)' = ValueAt(p)
      BY <1>8
    <3>. QED  BY <3>1, <3>2, <1>2 DEF ValueAt, Pending, Writing
  <2>2. \A i \in 1..n : Queue[i] = ValueAt(tail + i - 1)
    BY DEF Queue
  <2>3. \A i \in 1..n : i \in 1..(n + 1)
    BY <1>5
  <2>. QED  BY <2>1, <2>2, <2>3, <1>10
<1>16. Queue' \in [1..(n + 1) -> W]
  <2>1. ASSUME NEW i \in 1..(n + 1) PROVE Queue'[i] \in W
    <3>1. CASE i = n + 1
      BY <3>1, <1>1, <1>11
    <3>2. CASE i # n + 1
      <4>1. i \in 1..n
        BY <3>2, <1>5
      <4>. QED  BY <4>1, <1>5, <1>12
    <3>. QED  BY <3>1, <3>2
  <2>. QED  BY <2>1, <1>10
<1>13. Queue' = Append(Queue, val[t])
  <2>. HIDE DEF n
  <2>. QED  BY <1>1, <1>5, <1>16, <1>11, <1>12, AppendFun
<1>14. Len(Queue) < Size
  <2>1. Len(Queue) = n
    BY <1>5, FunSeq
  <2>. QED  BY <2>1, <1>3, <1>4
<1>15. Taken' = Taken
  BY <1>1, <1>2, <1>4 DEF Taken
<1>. QED  BY <1>1, <1>13, <1>14, <1>15

\* A pop that wins tail takes the first value.
LEMMA SimPop ==
    ASSUME IInv, IInv', NEW t \in Thread, PopCas(t), tail = pos[t], Size > 1
    PROVE  Queue # <<>> /\ Queue' = Tail(Queue) /\ Taken' = [Taken EXCEPT ![t] = Head(Queue)]
<1>. DEFINE n == head - tail - 1
            W == Value \cup {None}
<1>1. pc[t] = "pop_cas"
  BY DEF PopCas
<1>2. tail' = tail + 1 /\ UNCHANGED <<head, entry, pos, val>> /\ pc' = [pc EXCEPT ![t] = "pop_data"]
  BY DEF PopCas, Goto
<1>3. tail < head /\ \A u \in Thread : Writing(u) => tail < pos[u]
  BY <1>1, PopWins
<1>4. head \in Nat /\ tail \in Nat /\ pc \in [Thread -> At] /\ pos \in [Thread -> Nat]
  BY DEF IInv, TypeOK
<1>5. n \in Nat /\ head - tail = n + 1 /\ (head - tail)' = n
  BY <1>2, <1>3, <1>4
<1>6. Queue \in [1..(n + 1) -> W]
  BY <1>5, QueueType
<1>7. \A u \in Thread : Writing(u)' <=> Writing(u)
  BY <1>1, <1>2, <1>4 DEF Writing
<1>8. ASSUME NEW p PROVE ValueAt(p)' = ValueAt(p)
  <2>1. Pending(p)' = Pending(p)
    BY <1>2, <1>7 DEF Pending
  <2>. QED  BY <2>1, <1>2 DEF ValueAt
<1>9. \A i \in 1..n : i + 1 \in 1..(n + 1)
  BY <1>5
<1>10. \A i \in 1..n : Queue'[i] = Queue[i + 1]
  <2>1. \A i \in 1..(n + 1) : Queue[i] = ValueAt(tail + i - 1)
    BY <1>5 DEF Queue
  <2>2. \A i \in 1..n : Queue'[i] = ValueAt(tail + i - 1)'
    BY <1>5 DEF Queue
  <2>3. ASSUME NEW i \in 1..n PROVE ValueAt(tail + i - 1)' = ValueAt(tail + (i + 1) - 1)
    <3>1. PICK p : p = tail' + i - 1
      OBVIOUS
    <3>2. p = tail + (i + 1) - 1
      BY <3>1, <1>2, <1>4
    <3>3. ValueAt(tail + i - 1)' = ValueAt(p)'
      BY <3>1 DEF ValueAt, Pending, Writing
    <3>. QED  BY <3>2, <3>3, <1>8
  <2>. QED  BY <2>1, <2>2, <2>3, <1>9
<1>14. Queue' \in [1..n -> W]
  <2>1. Queue' = [i \in 1..n |-> ValueAt(tail + i - 1)']
    BY <1>5 DEF Queue
  <2>. QED  BY <2>1, <1>6, <1>9, <1>10
<1>11. Queue # <<>> /\ Queue' = Tail(Queue) /\ Head(Queue) = Queue[1]
  <2>. HIDE DEF n
  <2>. QED  BY <1>5, <1>6, <1>14, <1>10, TailFun
<1>12. Head(Queue) = entry[Slot(pos[t])].data
  <2>1. Queue[1] = ValueAt(tail)
    <3>1. 1 \in 1..(head - tail) /\ tail + 1 - 1 = tail
      BY <1>3, <1>4
    <3>. QED  BY <3>1 DEF Queue
  <2>2. ValueAt(tail) = entry[Slot(tail)].data
    BY <1>3, <1>4, Published
  <2>. QED  BY <2>1, <2>2, <1>11
<1>13. Taken' = [Taken EXCEPT ![t] = Head(Queue)]
  BY <1>1, <1>2, <1>4, <1>12 DEF Taken
<1>. QED  BY <1>11, <1>13

\* The steps that write data or give an entry back keep queue and results.
LEMMA SimWrite ==
    ASSUME IInv, DataOK, NEW t \in Thread, PushData(t) \/ PushPublish(t) \/ PopRelease(t)
    PROVE  Queue' = Queue /\ Taken' = Taken
<1>. USE DEF IInv, TypeOK
<1>1. UNCHANGED <<head, tail, pos>> /\ (Writing(t) \/ Reading(t))
  BY DEF PushData, PushPublish, PopRelease, Writing, Reading
<1>2. \A u \in Thread : pos[u] \in Nat /\ Slot(pos[u]) \in Index
  BY SlotType
<1>3. ASSUME NEW u \in Thread \ {t}
      PROVE  /\ pc'[u] = pc[u] /\ val'[u] = val[u]
             /\ (Writing(u)' <=> Writing(u)) /\ (Reading(u)' <=> Reading(u))
  BY DEF PushData, PushPublish, PopRelease, Goto, Writing, Reading
<1>4. ASSUME NEW i \in Index \ {Slot(pos[t])} PROVE entry'[i] = entry[i]
  BY <1>2 DEF PushData, PushPublish, PopRelease
<1>5. Taken' = Taken
  <2>1. ASSUME NEW u \in Thread, pc[u] = "pop_data" PROVE u # t /\ entry'[Slot(pos[u])] = entry[Slot(pos[u])]
    <3>1. u # t
      BY <2>1 DEF PushData, PushPublish, PopRelease
    <3>2. Slot(pos[u]) # Slot(pos[t])
      BY <3>1, <2>1, <1>1 DEF OneOwner, Writing, Reading
    <3>. QED  BY <3>1, <3>2, <1>2, <1>4
  <2>2. pc[t] # "pop_data" /\ pc'[t] # "pop_data"
    BY DEF PushData, PushPublish, PopRelease, Goto
  <2>3. (IF pc'[t] \in {"idle", "pop_release"} THEN val'[t] ELSE None)
        = (IF pc[t] \in {"idle", "pop_release"} THEN val[t] ELSE None)
    BY DEF PushData, PushPublish, PopRelease, Goto
  <2>. QED  BY <1>1, <1>3, <2>1, <2>2, <2>3 DEF Taken
<1>6. ASSUME NEW p \in tail..(head - 1) PROVE ValueAt(p)' = ValueAt(p)
  <2>. p \in Nat
    OBVIOUS
  <2>1. CASE p = pos[t] /\ Writing(t)
    <3>1. ValueAt(p) = val[t] /\ Pending(p) = {t}
      BY <2>1, Pushing
    <3>2. CASE PushData(t)
      <4>1. Pending(p)' = {t}
        <5>1. Writing(t)'
          BY <3>2 DEF PushData, Goto, Writing
        <5>. QED  BY <3>1, <5>1, <1>1, <1>3 DEF Pending
      <4>. QED  BY <3>1, <3>2, <4>1 DEF ValueAt, PushData
    <3>3. CASE PushPublish(t)
      <4>1. Pending(p)' = {}
        <5>1. ~Writing(t)'
          BY <3>3 DEF PushPublish, Goto, Writing
        <5>. QED  BY <3>1, <5>1, <1>1, <1>3 DEF Pending
      <4>2. entry'[Slot(p)].data = val[t]
        BY <2>1, <3>3, <1>2 DEF PushPublish, DataOK
      <4>. QED  BY <3>1, <4>1, <4>2 DEF ValueAt
    <3>4. ~PopRelease(t)
      BY <2>1 DEF PopRelease, Writing
    <3>. QED  BY <3>2, <3>3, <3>4
  <2>2. CASE ~(p = pos[t] /\ Writing(t))
    <3>1. Pending(p)' = Pending(p) /\ t \notin Pending(p)
      <4>1. Writing(t)' => Writing(t)
        BY DEF PushData, PushPublish, PopRelease, Goto, Writing
      <4>. QED  BY <2>2, <4>1, <1>1, <1>3 DEF Pending
    <3>2. CASE Pending(p) # {}
      <4>1. (CHOOSE u \in Pending(p) : TRUE) \in Thread \ {t}
        BY <3>1, <3>2 DEF Pending
      <4>. QED  BY <3>1, <3>2, <4>1, <1>3 DEF ValueAt
    <3>3. CASE Pending(p) = {}
      <4>1. CASE PopRelease(t)
        BY <3>1, <3>3, <4>1, <1>2 DEF ValueAt, PopRelease
      <4>2. CASE Writing(t)
        <5>1. pos[t] \in Nat /\ p # pos[t] /\ p < pos[t] + Size /\ pos[t] < p + Size
          BY <2>2, <4>2, <1>2, QueueAssumption DEF PositionsOK
        <5>2. Slot(p) # Slot(pos[t]) /\ Slot(p) \in Index
          BY <5>1, Window, SlotType
        <5>. QED  BY <3>1, <3>3, <5>2, <1>4 DEF ValueAt
      <4>. QED  BY <4>1, <4>2 DEF PushData, PushPublish, Writing
    <3>. QED  BY <3>2, <3>3
  <2>. QED  BY <2>1, <2>2
<1>. QED  BY <1>1, <1>5, <1>6, SameQueue

LEMMA SimStep ==
    ASSUME IInv, DataOK, IInv', [Next]_vars, Size > 1
    PROVE  [B!Next]_(B!vars)
<1>. USE DEF B!vars
<1>1. CASE UNCHANGED vars
  <2>1. Queue' = Queue
    BY <1>1 DEF vars, Queue, ValueAt, Pending, Writing
  <2>2. Taken' = Taken
    BY <1>1 DEF vars, Taken
  <2>. QED  BY <2>1, <2>2
<1>. SUFFICES ASSUME NEW t \in Thread, Begin(t) \/ Step(t) PROVE [B!Next]_(B!vars)
  BY <1>1 DEF Next
<1>2. CASE \E v \in Value : PushBegin(t, v)
  <2>1. Reads(t) /\ \A u \in Thread \ {t} : val'[u] = val[u]
    BY <1>2 DEF PushBegin, Goto, Reads, Writing, Reading, IInv, TypeOK
  <2>2. Queue' = Queue
    BY <2>1, ReadsQueue
  <2>3. Taken' = [Taken EXCEPT ![t] = None]
    BY <1>2 DEF PushBegin, Goto, Taken, IInv, TypeOK
  <2>. QED  BY <2>2, <2>3 DEF B!Next, B!Forget
<1>3. CASE PopBegin(t)
  <2>1. Reads(t) /\ \A u \in Thread \ {t} : val'[u] = val[u]
    BY <1>3 DEF PopBegin, Goto, Reads, Writing, Reading, IInv, TypeOK
  <2>2. Queue' = Queue
    BY <2>1, ReadsQueue
  <2>3. Taken' = [Taken EXCEPT ![t] = None]
    BY <1>3 DEF PopBegin, Goto, Taken, IInv, TypeOK
  <2>. QED  BY <2>2, <2>3 DEF B!Next, B!Forget
<1>4. CASE \/ PushLook(t) \/ PushReload(t) \/ PopLook(t) \/ PopReload(t)
           \/ (PushCas(t) /\ head # pos[t]) \/ (PopCas(t) /\ tail # pos[t])
  <2>1. Reads(t) /\ \A u \in Thread \ {t} : val'[u] = val[u]
    BY <1>4 DEF PushLook, PushReload, PopLook, PopReload, PushCas, PopCas, Goto, Reads, Writing, Reading, IInv, TypeOK
  <2>2. Queue' = Queue
    BY <2>1, ReadsQueue
  <2>3. Taken' = Taken
    BY <1>4 DEF PushLook, PushReload, PopLook, PopReload, PushCas, PopCas, Goto, Taken, DataOK, IInv, TypeOK
  <2>. QED  BY <2>2, <2>3
<1>5. CASE PushCas(t) /\ head = pos[t]
  BY <1>5, SimPush DEF B!Next, B!Push
<1>6. CASE PopCas(t) /\ tail = pos[t]
  BY <1>6, SimPop DEF B!Next, B!Pop
<1>7. CASE PushData(t) \/ PushPublish(t) \/ PopRelease(t)
  BY <1>7, SimWrite
<1>8. CASE PopData(t)
  <2>1. Queue' = Queue
    <3>1. \A u \in Thread : (Writing(u)' <=> Writing(u)) /\ (Writing(u) => val'[u] = val[u])
      BY <1>8 DEF PopData, Goto, Writing, IInv, TypeOK
    <3>2. ASSUME NEW p PROVE ValueAt(p)' = ValueAt(p)
      <4>1. Pending(p)' = Pending(p)
        BY <1>8, <3>1 DEF Pending, PopData
      <4>2. CASE Pending(p) # {}
        <5>1. (CHOOSE u \in Pending(p) : TRUE) \in Pending(p)
          BY <4>2
        <5>. QED  BY <3>1, <4>1, <4>2, <5>1 DEF ValueAt, Pending
      <4>3. CASE Pending(p) = {}
        BY <1>8, <4>1, <4>3 DEF ValueAt, PopData
      <4>. QED  BY <4>2, <4>3
    <3>. QED  BY <1>8, <3>2, SameQueue DEF PopData
  <2>2. Taken' = Taken
    BY <1>8 DEF PopData, Goto, Taken, IInv, TypeOK
  <2>. QED  BY <2>1, <2>2
<1>. QED
  BY <1>2, <1>3, <1>4, <1>5, <1>6, <1>7, <1>8 DEF Begin, Step, PushCas, PopCas

LEMMA SimInit == ASSUME Init PROVE B!Init
<1>1. Taken = [t \in Thread |-> None]
  BY DEF Init, Taken
<1>2. Queue = <<>>
  <2>1. head - tail = 0
    BY DEF Init
  <2>2. Queue \in Seq({}) /\ Len(Queue) = 0
    <3>1. Queue \in [1..0 -> {}]
      BY <2>1 DEF Queue
    <3>. QED  BY <3>1, FunSeq
  <2>. QED  BY <2>2, EmptySeq
<1>. QED  BY <1>1, <1>2 DEF B!Init

\* fr_atomic_queue_push and fr_atomic_queue_pop implement a bounded FIFO
\* queue, for any number of threads that call them at the same time.
THEOREM QueueRefines == ASSUME Size > 1 PROVE Spec => Refines
<1>1. Init => B!Init /\ IInv /\ DataOK
  BY SimInit, InitInv, DataInit
<1>2. IInv /\ DataOK /\ [Next]_vars => IInv' /\ DataOK'
  BY StepInv, DataNext
<1>3. IInv /\ DataOK /\ IInv' /\ [Next]_vars => [B!Next]_(B!vars)
  BY SimStep
<1>. QED  BY <1>1, <1>2, <1>3, PTL DEF Spec, Refines, B!Spec

-----------------------------------------------------------------------------
(* The event loop *)

\* EventLoop's operators of FiniteSets are those of this module.
LEMMA SameCount ==
    ASSUME NEW S
    PROVE  Loop!IsFiniteSet(S) = IsFiniteSet(S) /\ Loop!Cardinality(S) = Cardinality(S)
BY DEF Loop!IsFiniteSet, IsFiniteSet, Loop!Cardinality, Cardinality

\* A set of numbers that is not empty has a least one, and Min is it.
LEMMA MinIsLeast ==
    ASSUME NEW S \in SUBSET Nat, S # {}
    PROVE  Loop!Min(S) \in S /\ \A y \in S : Loop!Min(S) <= y
<1>. DEFINE T == {0..x : x \in S}
<1>1. T \subseteq FiniteSubsetsOf(Nat) /\ T # {}
  <2>1. ASSUME NEW x \in S
        PROVE  0..x \in SUBSET Nat /\ IsFiniteSet(0..x)
    BY FS_Interval
  <2>. QED  BY <2>1 DEF FiniteSubsetsOf
<1>2. PICK A \in T : \A B0 \in T : ~(<<B0, A>> \in StrictSubsetOrdering(Nat))
  <2>. HIDE DEF T
  <2>. QED  BY <1>1, FS_StrictSubsetOrderingWellFounded, WFMin
<1>3. PICK x \in S : A = 0..x
  OBVIOUS
<1>4. ASSUME NEW y \in S, y < x PROVE FALSE
  <2>1. 0..y \in T /\ 0..y \subseteq 0..x /\ 0..y # 0..x
    BY <1>4
  <2>2. 0..y \in SUBSET Nat /\ 0..x \in SUBSET Nat
    OBVIOUS
  <2>3. <<0..y, 0..x>> \in StrictSubsetOrdering(Nat)
    BY <2>1, <2>2 DEF StrictSubsetOrdering
  <2>. QED  BY <1>2, <1>3, <2>1, <2>3
<1>5. \A y \in S : x <= y
  BY <1>4
<1>. QED  BY <1>5 DEF Loop!Min

LEMMA LoopConstants ==
    /\ IsFiniteSet(Fds) /\ Fds \subseteq Nat \ {0}
    /\ Slots \in Nat /\ Slots > 0
    /\ 0 \notin Fds
BY LoopAssumption, SameCount DEF Loop!EventAssumption

Reader == [fd : Fds \cup {0}, write : BOOLEAN]

\* What the callbacks keep of the table.
TableTypes ==
    /\ readers \in [Loop!Index -> Reader]
    /\ maxReaders \in 0..Slots /\ numReaders \in 0..Slots
    /\ rset \subseteq Fds /\ wset \subseteq Fds

Agreed ==
    /\ \A j, k \in Loop!Index : readers[j].fd # 0 /\ readers[j].fd = readers[k].fd => j = k
    /\ \A j \in Loop!Index : readers[j].fd # 0 => j < maxReaders
    /\ rset = Loop!Registered
    /\ wset \subseteq Loop!Registered
    /\ numReaders = Cardinality(Loop!Registered)

\* Where the pass is: the read handler is looked for in a slot that is taken,
\* and stays in the table's range when the table shrinks under a handler.
PassOK ==
    /\ loop = "read" => slot \in Loop!Index /\ readers[slot].fd # 0
    /\ loop = "handler" => slot \in Loop!Index
    /\ call.ready = TRUE

LoopInv == Loop!TypeOK /\ TableTypes /\ Agreed /\ PassOK

LEMMA RegisteredFinite ==
    ASSUME TableTypes
    PROVE  /\ Loop!Registered \subseteq Fds /\ IsFiniteSet(Loop!Registered)
           /\ Cardinality(Loop!Registered) \in Nat
<1>1. Loop!Registered \subseteq Fds
  BY DEF TableTypes, Reader, Loop!Registered, Loop!NoFd
<1>. QED  BY <1>1, LoopConstants, FS_Subset, FS_CardinalityType

\* Distinct descriptors in all slots are as many as the slots.
LEMMA FreeSlot ==
    ASSUME TableTypes, Agreed, numReaders < Slots
    PROVE  \E k \in Loop!Index : k <= maxReaders /\ readers[k].fd = 0
<1>1. CASE maxReaders < Slots
  BY <1>1, LoopConstants DEF TableTypes, Agreed, Loop!Index, Reader
<1>2. CASE maxReaders = Slots
  <2>. SUFFICES ASSUME \A k \in Loop!Index : readers[k].fd # 0
                PROVE  FALSE
    BY <1>2, LoopConstants DEF Loop!Index
  <2>. DEFINE f == [k \in Loop!Index |-> readers[k].fd]
  <2>1. f \in [Loop!Index -> Loop!Registered]
    BY DEF Loop!Registered, Loop!NoFd
  <2>2. f \in Injection(Loop!Index, Loop!Registered)
    BY <2>1 DEF Agreed, Injection, IsInjective
  <2>3. Cardinality(Loop!Index) <= Cardinality(Loop!Registered)
    BY <2>2, RegisteredFinite, FS_Injection
  <2>4. Cardinality(Loop!Index) = Slots
    BY LoopConstants, FS_Interval DEF Loop!Index
  <2>5. Slots <= numReaders
    BY <2>3, <2>4 DEF Agreed
  <2>. QED  BY <2>5, LoopConstants DEF TableTypes
<1>. QED  BY <1>1, <1>2, LoopConstants DEF TableTypes

\* A descriptor is written into slot j, which had none or loses its own.
LEMMA SlotWritten ==
    ASSUME TableTypes, NEW j \in Loop!Index, NEW f \in Fds \cup {0},
           readers' = [readers EXCEPT ![j].fd = f]
    PROVE  /\ readers' \in [Loop!Index -> Reader]
           /\ readers'[j].fd = f
           /\ \A k \in Loop!Index \ {j} : readers'[k] = readers[k]
BY DEF TableTypes, Reader

\* fr_event_fd_insert: the first slot that is free or the descriptor's own.
LEMMA InsertKeeps ==
    ASSUME TableTypes, Agreed, NEW f \in Fds, f \notin Loop!Registered, Loop!Insert(f)
    PROVE  TableTypes' /\ Agreed'
<1>. DEFINE S == {k \in Loop!Index : k <= maxReaders /\ readers[k].fd \in {f, Loop!NoFd}}
            j == Loop!Min(S)
<1>1. S # {} /\ S \subseteq Nat
  BY FreeSlot, LoopConstants DEF Loop!Insert, Loop!NoFd, Loop!Index
<1>2. j \in S
  BY <1>1, MinIsLeast
<1>3. j \in Loop!Index /\ j <= maxReaders /\ readers[j].fd = 0 /\ f # 0
  BY <1>2, LoopConstants DEF Loop!Registered, Loop!NoFd
<1>4. /\ numReaders < Slots
      /\ readers' = [readers EXCEPT ![j].fd = f]
      /\ maxReaders' = IF j = maxReaders THEN j + 1 ELSE maxReaders
      /\ numReaders' = numReaders + 1
      /\ rset' = rset \cup {f} /\ wset' = wset
  BY <1>3 DEF Loop!Insert
<1>. HIDE DEF S, j
<1>5. /\ readers' \in [Loop!Index -> Reader]
      /\ readers'[j].fd = f
      /\ \A k \in Loop!Index \ {j} : readers'[k] = readers[k]
  BY <1>3, <1>4, SlotWritten
<1>6. TableTypes'
  BY <1>3, <1>4, <1>5, LoopConstants DEF TableTypes, Loop!Index, Reader
<1>7. Loop!Registered' = Loop!Registered \cup {f}
  BY <1>3, <1>5 DEF Loop!Registered, Loop!NoFd
<1>8. Cardinality(Loop!Registered') = numReaders'
  BY <1>4, <1>7, RegisteredFinite, FS_AddElement DEF Agreed
<1>9. \A k \in Loop!Index \ {j} : readers[k].fd # f
  BY LoopConstants DEF Loop!Registered, Loop!NoFd
<1>10. \A k \in Loop!Index : readers'[k].fd # 0 => k < maxReaders'
  BY <1>3, <1>4, <1>5, LoopConstants DEF Agreed, TableTypes, Loop!Index
<1>11. \A k, l \in Loop!Index : readers'[k].fd # 0 /\ readers'[k].fd = readers'[l].fd => k = l
  BY <1>3, <1>5, <1>9 DEF Agreed
<1>. QED  BY <1>4, <1>6, <1>7, <1>8, <1>10, <1>11 DEF Agreed

\* The search for a registered descriptor ends at its slot.
LEMMA SearchEnds ==
    ASSUME TableTypes, Agreed, NEW f \in Fds, Loop!At(f) # {}
    PROVE  LET j == Loop!Min(Loop!At(f))
           IN  j \in Loop!Index /\ j < maxReaders /\ readers[j].fd = f
<1>1. Loop!At(f) \subseteq Nat
  BY DEF Loop!At
<1>2. Loop!Min(Loop!At(f)) \in Loop!At(f)
  BY <1>1, MinIsLeast
<1>. QED  BY <1>2, LoopConstants DEF Loop!At, TableTypes, Loop!Index

\* fr_event_fd_delete
LEMMA DeleteKeeps ==
    ASSUME TableTypes, Agreed, NEW f \in Fds, Loop!Delete(f)
    PROVE  TableTypes' /\ Agreed'
<1>. DEFINE j == Loop!Min(Loop!At(f))
<1>1. j \in Loop!Index /\ j < maxReaders /\ readers[j].fd = f /\ f # 0
  BY SearchEnds, LoopConstants DEF Loop!Delete
<1>2. /\ readers' = [readers EXCEPT ![j].fd = 0]
      /\ maxReaders' = IF j + 1 = maxReaders THEN j ELSE maxReaders
      /\ numReaders' = numReaders - 1
      /\ rset' = rset \ {f} /\ wset' = wset \ {f}
  BY DEF Loop!Delete, Loop!NoFd
<1>. HIDE DEF j
<1>3. /\ readers' \in [Loop!Index -> Reader]
      /\ readers'[j].fd = 0
      /\ \A k \in Loop!Index \ {j} : readers'[k] = readers[k]
  BY <1>1, <1>2, SlotWritten
<1>4. \A k \in Loop!Index \ {j} : readers[k].fd # f
  BY <1>1 DEF Agreed
<1>5. Loop!Registered' = Loop!Registered \ {f} /\ f \in Loop!Registered
  BY <1>1, <1>3, <1>4 DEF Loop!Registered, Loop!NoFd
<1>6. /\ Cardinality(Loop!Registered') = numReaders'
      /\ Cardinality(Loop!Registered') \in Nat
  <2>1. IsFiniteSet(Loop!Registered')
    BY <1>5, RegisteredFinite, FS_Subset
  <2>. QED  BY <1>2, <1>5, <2>1, RegisteredFinite, FS_RemoveElement, FS_CardinalityType
            DEF Agreed
<1>7. TableTypes'
  BY <1>1, <1>2, <1>3, <1>6, LoopConstants DEF TableTypes, Loop!Index
<1>8. \A k \in Loop!Index : readers'[k].fd # 0 => k < maxReaders'
  BY <1>1, <1>2, <1>3, LoopConstants DEF Agreed, TableTypes, Loop!Index
<1>9. \A k, l \in Loop!Index : readers'[k].fd # 0 /\ readers'[k].fd = readers'[l].fd => k = l
  BY <1>1, <1>3 DEF Agreed
<1>. QED  BY <1>2, <1>5, <1>6, <1>7, <1>8, <1>9 DEF Agreed

\* fr_event_fd_write_handler leaves the descriptors where they are.
LEMMA WriteHandlerKeeps ==
    ASSUME TableTypes, Agreed, NEW f \in Fds, NEW on \in BOOLEAN, Loop!WriteHandler(f, on)
    PROVE  /\ TableTypes' /\ Agreed'
           /\ \A k \in Loop!Index : readers'[k].fd = readers[k].fd
<1>. DEFINE j == Loop!Min(Loop!At(f))
<1>1. j \in Loop!Index /\ readers[j].fd = f /\ f # 0
  BY SearchEnds, LoopConstants DEF Loop!WriteHandler
<1>2. /\ readers' = [readers EXCEPT ![j].write = on]
      /\ maxReaders' = maxReaders /\ numReaders' = numReaders /\ rset' = rset
      /\ wset' = wset \cup {f}
  BY DEF Loop!WriteHandler
<1>. HIDE DEF j
<1>3. /\ readers' \in [Loop!Index -> Reader]
      /\ \A k \in Loop!Index : readers'[k].fd = readers[k].fd
  BY <1>1, <1>2 DEF TableTypes, Reader
<1>4. Loop!Registered' = Loop!Registered /\ f \in Loop!Registered
  BY <1>1, <1>3 DEF Loop!Registered, Loop!NoFd
<1>. QED  BY <1>2, <1>3, <1>4 DEF TableTypes, Agreed

\* Types follow from those of the table and of the pass.
LEMMA LoopTypes ==
    /\ Loop!TypeOK => /\ rsnap \subseteq Fds /\ wsnap \subseteq Fds
                      /\ loop \in {"select", "timers", "write", "read", "handler"}
                      /\ slot \in 0..Slots
                      /\ call \in [fd : Fds \cup {0}, ready : BOOLEAN]
    /\ TableTypes /\ rsnap \subseteq Fds /\ wsnap \subseteq Fds
         /\ loop \in {"select", "timers", "write", "read", "handler"}
         /\ slot \in 0..Slots /\ call \in [fd : Fds \cup {0}, ready : BOOLEAN]
       => Loop!TypeOK
BY DEF Loop!TypeOK, TableTypes, Reader, Loop!NoFd

LEMMA LoopBegin == Loop!Init => LoopInv
<1>. SUFFICES ASSUME Loop!Init PROVE LoopInv
  OBVIOUS
<1>1. TableTypes /\ Loop!TypeOK
  BY LoopConstants DEF Loop!Init, Loop!TypeOK, TableTypes, Reader, Loop!NoFd,
     Loop!NoCall, Loop!Index
<1>2. Loop!Registered = {}
  BY DEF Loop!Init, Loop!Registered, Loop!NoFd
<1>3. Agreed
  BY <1>2, FS_EmptySet DEF Loop!Init, Agreed, Loop!NoFd
<1>4. PassOK
  BY DEF Loop!Init, PassOK, Loop!NoCall
<1>. QED  BY <1>1, <1>3, <1>4 DEF LoopInv

\* A callback runs where the pass is not at a slot, or under a handler.
LEMMA CallbackKeeps ==
    ASSUME LoopInv, Loop!Callback
    PROVE  LoopInv'
<1>1. TableTypes' /\ Agreed'
  BY InsertKeeps, DeleteKeeps DEF Loop!Callback, LoopInv
<1>2. /\ loop \in {"timers", "handler"}
      /\ UNCHANGED <<rsnap, wsnap, loop, slot, call>>
  BY DEF Loop!Callback
<1>3. Loop!TypeOK'
  BY <1>1, <1>2, LoopTypes DEF LoopInv, Loop!TypeOK, TableTypes, Reader, Loop!NoFd
<1>4. PassOK'
  BY <1>2 DEF LoopInv, PassOK, Loop!Index
<1>. QED  BY <1>1, <1>3, <1>4 DEF LoopInv

LEMMA FreezeKeeps ==
    ASSUME LoopInv, Loop!Freeze
    PROVE  LoopInv'
<1>1. PICK f \in Fds : Loop!WriteHandler(f, TRUE)
  BY DEF Loop!Freeze
<1>2. /\ TableTypes' /\ Agreed'
      /\ \A k \in Loop!Index : readers'[k].fd = readers[k].fd
  BY <1>1, WriteHandlerKeeps DEF LoopInv
<1>3. UNCHANGED <<rsnap, wsnap, loop, slot, call>>
  BY DEF Loop!Freeze
<1>4. Loop!TypeOK'
  BY <1>2, <1>3 DEF LoopInv, Loop!TypeOK, TableTypes, Reader, Loop!NoFd
<1>5. PassOK'
  BY <1>2, <1>3 DEF LoopInv, PassOK, Loop!Index
<1>. QED  BY <1>2, <1>4, <1>5 DEF LoopInv

\* The steps of fr_event_loop that leave the table alone.
LEMMA WalkKeeps ==
    ASSUME LoopInv, UNCHANGED <<readers, maxReaders, numReaders, rset, wset>>,
           Loop!TypeOK', PassOK'
    PROVE  LoopInv'
BY DEF LoopInv, TableTypes, Agreed, Loop!Registered, Loop!Index, Loop!NoFd, Reader

LEMMA SelectKeeps ==
    ASSUME LoopInv, Loop!Select \/ Loop!TimersDone \/ Loop!EndPass \/ Loop!Return
    PROVE  LoopInv'
<1>1. UNCHANGED <<readers, maxReaders, numReaders, rset, wset>>
  BY DEF Loop!Select, Loop!TimersDone, Loop!EndPass, Loop!Return, Loop!table
<1>2. TableTypes'
  BY <1>1 DEF LoopInv, TableTypes, Reader, Loop!Index
<1>3. CASE Loop!Select
  <2>1. rsnap' \subseteq Fds /\ wsnap' \subseteq Fds
    BY <1>3 DEF Loop!Select, LoopInv, TableTypes
  <2>2. loop' = "timers" /\ slot' = slot /\ call' = [fd |-> 0, ready |-> TRUE]
    BY <1>3 DEF Loop!Select, Loop!NoCall, Loop!NoFd
  <2>3. Loop!TypeOK' /\ PassOK'
    BY <1>2, <2>1, <2>2 DEF LoopInv, Loop!TypeOK, TableTypes, Reader, Loop!NoFd, PassOK
  <2>. QED  BY <1>1, <2>3, WalkKeeps
<1>4. CASE Loop!TimersDone
  <2>1. Loop!TypeOK' /\ PassOK'
    BY <1>2, <1>4, LoopConstants
       DEF LoopInv, Loop!TypeOK, TableTypes, Reader, Loop!NoFd, PassOK, Loop!TimersDone
  <2>. QED  BY <1>1, <2>1, WalkKeeps
<1>5. CASE Loop!EndPass
  <2>1. Loop!TypeOK' /\ PassOK'
    BY <1>2, <1>5
       DEF LoopInv, Loop!TypeOK, TableTypes, Reader, Loop!NoFd, PassOK, Loop!EndPass
  <2>. QED  BY <1>1, <2>1, WalkKeeps
<1>6. CASE Loop!Return
  <2>1. slot' \in 0..Slots
    BY <1>6, LoopConstants DEF LoopInv, PassOK, Loop!Return, Loop!Index
  <2>2. Loop!TypeOK' /\ PassOK'
    BY <1>2, <1>6, <2>1
       DEF LoopInv, Loop!TypeOK, TableTypes, Reader, Loop!NoFd, PassOK, Loop!Return
  <2>. QED  BY <1>1, <2>2, WalkKeeps
<1>. QED  BY <1>3, <1>4, <1>5, <1>6

LEMMA NoWriteKeeps ==
    ASSUME LoopInv, Loop!NoWrite
    PROVE  LoopInv'
<1>1. UNCHANGED <<readers, maxReaders, numReaders, rset, wset, rsnap, wsnap, call>>
  BY DEF Loop!NoWrite, Loop!table
<1>2. slot \in Loop!Index
  BY LoopConstants DEF Loop!NoWrite, Loop!PassLeft, LoopInv, Loop!TypeOK, TableTypes,
     Loop!Index
<1>3. /\ loop' \in {"write", "read"} /\ slot' \in 0..Slots
      /\ loop' = "read" => slot' = slot /\ readers[slot].fd # 0
  BY <1>2, LoopConstants DEF Loop!NoWrite, Loop!NoFd, Loop!Index
<1>4. Loop!TypeOK'
  BY <1>1, <1>3 DEF LoopInv, Loop!TypeOK, Loop!Index, Loop!NoFd
<1>5. PassOK'
  BY <1>1, <1>2, <1>3 DEF LoopInv, PassOK, Loop!Index
<1>. QED  BY <1>1, <1>4, <1>5, WalkKeeps

\* tls_write_available: the socket stays in its slot.
LEMMA WriteKeeps ==
    ASSUME LoopInv, Loop!Write
    PROVE  LoopInv'
<1>1. /\ UNCHANGED <<rsnap, wsnap, slot, call>> /\ loop' = "read"
      /\ readers[slot].fd \in wsnap
  BY DEF Loop!Write
<1>2. /\ slot \in Loop!Index /\ readers[slot].fd \in Fds /\ readers[slot].fd # 0
  <2>1. wsnap \subseteq Fds /\ slot \in 0..Slots /\ maxReaders \in 0..Slots
    BY LoopTypes DEF LoopInv, TableTypes
  <2>2. slot < maxReaders
    BY DEF Loop!Write, Loop!PassLeft
  <2>3. slot \in Loop!Index
    BY <2>1, <2>2, LoopConstants DEF Loop!Index
  <2>4. readers[slot].fd \in Fds /\ 0 \notin Fds
    BY <1>1, <2>1, LoopConstants
  <2>. QED  BY <2>3, <2>4
<1>3. /\ TableTypes' /\ Agreed'
      /\ \A k \in Loop!Index : readers'[k].fd = readers[k].fd
  <2>1. CASE Loop!WriteHandler(readers[slot].fd, FALSE)
    BY <1>2, <2>1, WriteHandlerKeeps DEF LoopInv
  <2>2. CASE UNCHANGED Loop!table
    BY <2>2 DEF Loop!table, LoopInv, TableTypes, Agreed, Loop!Registered, Loop!Index,
       Loop!NoFd, Reader
  <2>. QED  BY <2>1, <2>2 DEF Loop!Write
<1>4. Loop!TypeOK'
  BY <1>1, <1>3 DEF LoopInv, Loop!TypeOK, TableTypes, Reader, Loop!NoFd
<1>5. PassOK'
  BY <1>1, <1>2, <1>3 DEF LoopInv, PassOK, Loop!Index
<1>. QED  BY <1>3, <1>4, <1>5 DEF LoopInv

\* The descriptor that is found readable is still registered.
LEMMA ReadKeeps ==
    ASSUME LoopInv, Loop!Read
    PROVE  LoopInv'
<1>. DEFINE f == readers[slot].fd
<1>1. /\ UNCHANGED <<readers, maxReaders, numReaders, rset, wset, rsnap, wsnap>>
      /\ loop = "read"
  BY DEF Loop!Read, Loop!table
<1>2. slot \in Loop!Index /\ f # 0 /\ f \in Fds /\ f \in rset
  BY <1>1, LoopConstants DEF LoopInv, PassOK, TableTypes, Reader, Agreed,
     Loop!Registered, Loop!NoFd
<1>3. CASE loop' = "handler" /\ call' = [fd |-> f, ready |-> f \in rsnap \cap rset]
           /\ slot' = slot /\ f \in rsnap
  <2>1. call' = [fd |-> f, ready |-> TRUE]
    BY <1>2, <1>3
  <2>2. Loop!TypeOK'
    BY <1>1, <1>2, <1>3, <2>1 DEF LoopInv, Loop!TypeOK, Loop!Index, Loop!NoFd
  <2>3. PassOK'
    BY <1>2, <1>3, <2>1 DEF PassOK, Loop!Index
  <2>. QED  BY <1>1, <2>2, <2>3, WalkKeeps
<1>4. CASE loop' = "write" /\ slot' = slot + 1 /\ call' = call
  <2>1. slot' \in 0..Slots
    BY <1>2, <1>4, LoopConstants DEF Loop!Index
  <2>2. Loop!TypeOK'
    BY <1>1, <1>4, <2>1 DEF LoopInv, Loop!TypeOK, Loop!Index, Loop!NoFd
  <2>3. PassOK'
    BY <1>4 DEF LoopInv, PassOK
  <2>. QED  BY <1>1, <2>2, <2>3, WalkKeeps
<1>. QED  BY <1>2, <1>3, <1>4 DEF Loop!Read, Loop!NoFd

LEMMA LoopSteps == LoopInv /\ [Loop!Next]_loopState => LoopInv'
<1>. SUFFICES ASSUME LoopInv, [Loop!Next]_loopState PROVE LoopInv'
  OBVIOUS
<1>1. CASE UNCHANGED loopState
  BY <1>1, WalkKeeps DEF loopState, LoopInv, Loop!TypeOK, PassOK, Loop!Index, Loop!NoFd
<1>2. CASE Loop!Loop
  BY <1>2, SelectKeeps, NoWriteKeeps, WriteKeeps, ReadKeeps DEF Loop!Loop
<1>3. CASE Loop!Callback \/ Loop!Freeze
  BY <1>3, CallbackKeeps, FreezeKeeps
<1>. QED  BY <1>1, <1>2, <1>3 DEF Loop!Next

\* The event loop, for any descriptors and any size of the table: what
\* fr_event_fd_insert, fr_event_fd_delete and fr_event_fd_write_handler record of
\* a descriptor agrees at any time, and fr_event_loop calls a read handler only
\* for a socket that is registered and was found readable.
THEOREM TableStaysSound == Loop!Spec => []TableAgrees
<1>1. LoopInv => TableAgrees
  <2>. SUFFICES ASSUME LoopInv PROVE TableAgrees
    OBVIOUS
  <2>1. Loop!TableAgrees
    BY SameCount DEF LoopInv, Agreed, Loop!TableAgrees, Loop!NoFd
  <2>2. Loop!OnlyReadySockets
    BY DEF LoopInv, PassOK, Loop!OnlyReadySockets
  <2>. QED  BY <2>1, <2>2 DEF TableAgrees, LoopInv
<1>2. UNCHANGED Loop!vars <=> UNCHANGED loopState
  BY DEF Loop!vars, Loop!table, loopState
<1>3. LoopInv /\ [Loop!Next]_(Loop!vars) => LoopInv'
  BY <1>2, LoopSteps
<1>. QED  BY <1>1, <1>3, LoopBegin, PTL DEF Loop!Spec

-----------------------------------------------------------------------------
(* The heap of timers: its invariant *)

\* Where the call under way is.
Phase == IF op = Timers!Idle THEN "idle" ELSE op.at
Sinking == Phase = "sink"
Bubbling == Phase \in {"refill", "rise"}

Pos == 0..(num_elements - 1)

\* The events that are in the array, and the positions that hold one that knows
\* where it is: not the hole of fr_heap_extract, nor that of the element
\* fr_heap_bubble moves.
Held == IF Phase \in {"sink", "refill", "out"} THEN Timers!SetEvents \ {op.event}
        ELSE Timers!SetEvents
Placed == IF Sinking \/ Bubbling THEN Pos \ {op.node} ELSE Pos

OpOK ==
    /\ Sinking \/ Bubbling => op.node \in Pos
    /\ Phase = "rise" => op.time \in Times /\ when[op.event] = op.time /\ ~ op.call
    /\ op # Timers!Idle => op.time = Timers!Unset \/ ~ op.call

\* Events and positions are in step but for the element that moves.
Exact ==
    /\ \A j \in Placed : heap[j] \in Held /\ offset[heap[j]] = j
    /\ \A e \in Held : (Bubbling /\ e = heap[op.node]) \/ (offset[e] \in Placed /\ heap[offset[e]] = e)
    /\ Bubbling => heap[op.node] \in Held /\ \A j \in Placed : heap[j] # heap[op.node]
    /\ \A e \in Events \ Held : offset[e] = Timers!NotIn

Below(j, k) == when[heap[j]] <= when[heap[k]]

\* No element is before its parent, but for the element that moves and its parent,
\* and across the hole its children are after its parent.
Ordered ==
    /\ \A j \in Placed \ {0} : Timers!Parent(j) \in Placed => Below(Timers!Parent(j), j)
    /\ \A j \in Placed \ {0} : Bubbling /\ Timers!Parent(j) = op.node => Below(op.node, j)
    /\ \A j \in Placed \ {0} : (Sinking \/ Bubbling) /\ op.node > 0 /\ Timers!Parent(j) = op.node
                                  => Below(Timers!Parent(op.node), j)

HeapInv == Timers!TypeOK /\ OpOK /\ Exact /\ Ordered

-----------------------------------------------------------------------------
(* Positions and times *)

\* HEAP_PARENT and HEAP_LEFT are inverse, and a parent comes before its children.
LEMMA ParentChild ==
    ASSUME NEW j \in Nat, j > 0
    PROVE  /\ Timers!Parent(j) \in Nat /\ Timers!Parent(j) < j
           /\ \A k \in Nat : Timers!Parent(j) = k <=> j \in {Timers!Left(k), Timers!Left(k) + 1}
BY Z3 DEF Timers!Parent, Timers!Left

LEMMA TimesAreNumbers ==
    ASSUME Timers!TypeOK
    PROVE  /\ \A e \in Events : when[e] \in Int
           /\ \A j \in Pos : heap[j] \in Events /\ when[heap[j]] \in Int
           /\ Timers!Unset \notin Times /\ Timers!NotIn \notin Nat
<1>1. Times \subseteq Nat
  BY TimersAssumption DEF Timers!HeapAssumption
<1>2. \A e \in Events : when[e] \in Int
  <2>1. \A e \in Events : when[e] \in Times \cup {Timers!Unset}
    BY DEF Timers!TypeOK
  <2>2. Times \cup {Timers!Unset} \subseteq Int
    BY <1>1 DEF Timers!Unset
  <2>. QED  BY <2>1, <2>2
<1>3. \A j \in Pos : heap[j] \in Events
  BY DEF Timers!TypeOK, Pos
<1>. QED  BY <1>1, <1>2, <1>3 DEF Timers!Unset, Timers!NotIn

\* A call that is under way is not over.
LEMMA BusyOp ==
    ASSUME op \in Timers!Op
    PROVE  op # Timers!Idle /\ Phase = op.at /\ Phase # "idle"
BY DEF Timers!Op, Timers!Idle, Phase

LEMMA IdlePhase ==
    ASSUME Timers!TypeOK
    PROVE  /\ Phase = "idle" <=> op = Timers!Idle
           /\ Phase # "idle" => op \in Timers!Op /\ op.at = Phase
BY BusyOp DEF Timers!TypeOK, Phase

\* What Goto leaves as it is.
LEMMA GotoOp ==
    ASSUME op \in Timers!Op, NEW a \in {"sink", "refill", "out", "rise"}, NEW n \in Nat,
           Timers!Goto(a, n)
    PROVE  /\ op' \in Timers!Op /\ Phase' = a /\ op' # Timers!Idle
           /\ op'.node = n /\ op'.event = op.event /\ op'.time = op.time /\ op'.call = op.call
<1>1. /\ op' \in Timers!Op /\ op'.at = a
      /\ op'.node = n /\ op'.event = op.event /\ op'.time = op.time /\ op'.call = op.call
  BY DEF Timers!Goto, Timers!Op
<1>2. op' # Timers!Idle
  BY <1>1 DEF Timers!Op, Timers!Idle
<1>. QED  BY <1>1, <1>2 DEF Phase

LEMMA HeapBegin == Timers!Init => HeapInv
<1>. SUFFICES ASSUME Timers!Init PROVE HeapInv
  OBVIOUS
<1>1. Phase = "idle" /\ Pos = {} /\ Timers!SetEvents = {} /\ Placed = {} /\ Held = {}
  BY DEF Timers!Init, Phase, Pos, Timers!SetEvents, Placed, Held, Sinking, Bubbling
<1>2. Timers!TypeOK
  BY DEF Timers!Init, Timers!TypeOK, Timers!NotIn
<1>. QED  BY <1>1, <1>2 DEF HeapInv, OpOK, Exact, Ordered, Sinking, Bubbling, Timers!Init

-----------------------------------------------------------------------------
(* The steps of fr_heap_extract *)

LEMMA ExtractKeeps ==
    ASSUME HeapInv, op = Timers!Idle, NEW e \in Timers!SetEvents,
           NEW t \in Times \cup {Timers!Unset}, NEW c \in BOOLEAN, c => t = Timers!Unset,
           Timers!Extract(e, t, c)
    PROVE  HeapInv'
<1>. DEFINE h == offset[e]
<1>1. Phase = "idle" /\ Held = Timers!SetEvents /\ Placed = Pos /\ ~ Bubbling /\ ~ Sinking
  BY DEF Phase, Held, Placed, Sinking, Bubbling
<1>2. e \in Events /\ h \in Pos /\ heap[h] = e
  BY <1>1 DEF HeapInv, Exact, Timers!SetEvents
<1>3. /\ offset' = [offset EXCEPT ![e] = Timers!NotIn]
      /\ op' = [at |-> "sink", node |-> h, event |-> e, time |-> t, call |-> c]
      /\ UNCHANGED <<heap, num_elements, when>>
  BY <1>2 DEF Timers!Extract, Pos
<1>4. h \in Nat
  BY <1>2 DEF Pos, HeapInv, Timers!TypeOK
<1>5. /\ op' \in Timers!Op /\ op'.at = "sink" /\ op'.node = h /\ op'.event = e
      /\ op'.time = t /\ op'.call = c
  BY <1>2, <1>3, <1>4 DEF Timers!Op
<1>6. op' # Timers!Idle /\ Phase' = "sink" /\ Sinking' /\ ~ Bubbling'
  BY <1>5 DEF Timers!Op, Timers!Idle, Phase, Sinking, Bubbling
<1>7. Pos' = Pos /\ Timers!SetEvents' = Timers!SetEvents
  BY <1>3 DEF Pos, Timers!SetEvents
<1>8. Placed' = Pos \ {h} /\ Held' = Timers!SetEvents \ {e}
  BY <1>5, <1>6, <1>7 DEF Placed, Held
<1>9. Timers!TypeOK'
  BY <1>2, <1>3, <1>5 DEF HeapInv, Timers!TypeOK
<1>10. OpOK'
  BY <1>2, <1>5, <1>6, <1>7 DEF OpOK
<1>11. Exact'
  <2>1. \A f \in Events : offset'[f] = IF f = e THEN Timers!NotIn ELSE offset[f]
    BY <1>3 DEF HeapInv, Timers!TypeOK
  <2>2. \A j \in Pos \ {h} : heap[j] \in Timers!SetEvents \ {e} /\ offset'[heap[j]] = j
    BY <1>1, <1>2, <2>1 DEF HeapInv, Exact, Timers!SetEvents
  <2>3. \A f \in Timers!SetEvents \ {e} : offset'[f] \in Pos \ {h} /\ heap[offset'[f]] = f
    BY <1>1, <1>2, <2>1 DEF HeapInv, Exact, Timers!SetEvents
  <2>4. \A f \in Events \ Held' : offset'[f] = Timers!NotIn
    BY <1>1, <1>8, <2>1 DEF HeapInv, Exact, Timers!SetEvents
  <2>. QED  BY <1>3, <1>6, <1>8, <2>2, <2>3, <2>4 DEF Exact
<1>12. Ordered'
  <2>1. \A j \in Pos \ {0} : Timers!Parent(j) \in Pos /\ Below(Timers!Parent(j), j)
    <3>. TAKE j \in Pos \ {0}
    <3>1. Timers!Parent(j) \in Pos
      BY ParentChild DEF Pos, HeapInv, Timers!TypeOK
    <3>. QED  BY <1>1, <3>1 DEF HeapInv, Ordered
  <2>3. ASSUME h > 0, NEW j \in Pos \ {0, h}, Timers!Parent(j) = h
        PROVE  Below(Timers!Parent(h), j)
    <3>1. Below(Timers!Parent(h), h) /\ Below(h, j) /\ Timers!Parent(h) \in Pos
      BY <1>2, <2>1, <2>3
    <3>. QED  BY <1>2, <3>1, TimesAreNumbers DEF Below, HeapInv
  <2>4. \A j \in Placed' \ {0} : Timers!Parent(j) \in Placed'
            => when'[heap'[Timers!Parent(j)]] <= when'[heap'[j]]
    BY <1>3, <1>8, <2>1 DEF Below
  <2>5. \A j \in Placed' \ {0} : op'.node > 0 /\ Timers!Parent(j) = op'.node
            => when'[heap'[Timers!Parent(op'.node)]] <= when'[heap'[j]]
    BY <1>3, <1>5, <1>8, <2>3 DEF Below
  <2>. QED  BY <1>6, <2>4, <2>5 DEF Ordered, Below
<1>. QED  BY <1>9, <1>10, <1>11, <1>12 DEF HeapInv

\* One iteration of the loop: the smaller child fills the hole and leaves one.
LEMMA SinkKeeps ==
    ASSUME HeapInv, Timers!Sink
    PROVE  HeapInv'
<1>. DEFINE h == op.node
            c == Timers!SmallerChild(Timers!Left(h))
            x == heap[c]
<1>1. op \in Timers!Op /\ Phase = "sink" /\ Sinking /\ ~ Bubbling
  BY BusyOp DEF HeapInv, Timers!TypeOK, Timers!Sink, Timers!Idle, Phase, Sinking, Bubbling
<1>2. h \in Pos /\ h \in Nat /\ num_elements \in Nat
  BY <1>1 DEF HeapInv, OpOK, Pos, Timers!TypeOK
<1>3. /\ heap' = [heap EXCEPT ![h] = x]
      /\ offset' = [offset EXCEPT ![x] = h]
      /\ Timers!Goto("sink", c)
      /\ UNCHANGED <<num_elements, when>>
  BY DEF Timers!Sink
<1>4. c \in Pos /\ c > h /\ Timers!Parent(c) = h /\ c \in Nat
  <2>1. c \in {Timers!Left(h), Timers!Left(h) + 1} /\ c < num_elements
    BY <1>2 DEF Timers!Sink, Timers!SmallerChild, Timers!Left
  <2>2. c \in Nat /\ c > 0 /\ c > h
    BY <1>2, <2>1 DEF Timers!Left
  <2>. QED  BY <1>2, <2>1, <2>2, ParentChild DEF Pos
<1>5. Placed = Pos \ {h} /\ Held = Timers!SetEvents \ {op.event}
  BY <1>1 DEF Placed, Held
<1>6. /\ op' \in Timers!Op /\ Phase' = "sink" /\ Sinking' /\ ~ Bubbling' /\ op' # Timers!Idle
      /\ op'.node = c /\ op'.event = op.event /\ op'.time = op.time /\ op'.call = op.call
  BY <1>1, <1>3, <1>4, GotoOp DEF Sinking, Bubbling
<1>7. Pos' = Pos /\ Timers!SetEvents' = Timers!SetEvents
  BY <1>3 DEF Pos, Timers!SetEvents
<1>8. Placed' = Pos \ {c} /\ Held' = Held
  BY <1>5, <1>6, <1>7 DEF Placed, Held
<1>9. x \in Held /\ x \in Events /\ offset[x] = c
  BY <1>4, <1>5 DEF HeapInv, Exact, Held, Timers!SetEvents
<1>10. /\ \A j \in Pos : heap'[j] = IF j = h THEN x ELSE heap[j]
       /\ \A f \in Events : offset'[f] = IF f = x THEN h ELSE offset[f]
  BY <1>2, <1>3 DEF HeapInv, Timers!TypeOK, Pos
<1>11. Timers!TypeOK'
  BY <1>2, <1>3, <1>6, <1>9 DEF HeapInv, Timers!TypeOK
<1>12. OpOK'
  BY <1>3, <1>4, <1>6, <1>7, <1>1, BusyOp DEF HeapInv, OpOK
<1>13. Exact'
  <2>1. ASSUME NEW j \in Pos \ {c}
        PROVE  heap'[j] \in Held /\ offset'[heap'[j]] = j
    <3>1. CASE j = h
      BY <1>9, <1>10, <3>1
    <3>2. CASE j # h
      <4>1. heap[j] \in Held /\ heap[j] \in Events /\ offset[heap[j]] = j
        BY <1>5, <3>2 DEF HeapInv, Exact, Held, Timers!SetEvents
      <4>. QED  BY <1>9, <1>10, <3>2, <4>1
    <3>. QED  BY <3>1, <3>2
  <2>2. \A f \in Held : offset'[f] \in Pos \ {c} /\ heap'[offset'[f]] = f
    BY <1>1, <1>2, <1>4, <1>5, <1>9, <1>10 DEF HeapInv, Exact, Held, Timers!SetEvents
  <2>3. \A f \in Events \ Held : offset'[f] = Timers!NotIn
    BY <1>9, <1>10 DEF HeapInv, Exact
  <2>. QED  BY <1>6, <1>8, <2>1, <2>2, <2>3 DEF Exact
<1>14. Ordered'
  <2>. DEFINE w(j) == when[heap[j]]
  <2>1. \A j \in Pos : w(j) \in Int /\ when'[heap'[j]] = IF j = h THEN w(c) ELSE w(j)
    BY <1>2, <1>3, <1>10, TimesAreNumbers DEF HeapInv
  <2>2. \A j \in Pos \ {0} : Timers!Parent(j) \in Pos /\ Timers!Parent(j) < j
    BY <1>2, ParentChild DEF Pos
  <2>3. \A j \in Pos \ {0, h} : Timers!Parent(j) # h => w(Timers!Parent(j)) <= w(j)
    BY <1>5, <2>2 DEF HeapInv, Ordered, Below
  <2>4. \A j \in Pos \ {0, h} : Timers!Parent(j) = h /\ h > 0 => w(Timers!Parent(h)) <= w(j)
    BY <1>1, <1>5 DEF HeapInv, Ordered, Below
  <2>5. \A j \in Pos \ {0} : Timers!Parent(j) = h => w(c) <= w(j)
    <3>. SUFFICES ASSUME NEW j \in Pos \ {0}, Timers!Parent(j) = h PROVE w(c) <= w(j)
      OBVIOUS
    <3>1. j \in {Timers!Left(h), Timers!Left(h) + 1}
      BY <1>2, ParentChild DEF Pos
    <3>2. Timers!Left(h) \in Pos /\ w(Timers!Left(h)) \in Int
      BY <1>2, <2>1 DEF Timers!Sink, Timers!Left, Pos
    <3>3. j = Timers!Left(h) + 1 => Timers!Left(h) # num_elements - 1
      BY <1>2 DEF Pos, Timers!Left
    <3>4. c = IF Timers!Left(h) # num_elements - 1 /\ w(Timers!Left(h) + 1) < w(Timers!Left(h))
              THEN Timers!Left(h) + 1 ELSE Timers!Left(h)
      BY DEF Timers!SmallerChild, Timers!Earlier
    <3>5. w(j) \in Int
      BY <2>1
    <3>6. CASE Timers!Left(h) # num_elements - 1 /\ w(Timers!Left(h) + 1) < w(Timers!Left(h))
      <4>1. c = Timers!Left(h) + 1
        BY <3>4, <3>6
      <4>. HIDE DEF w, c
      <4>2. w(c) < w(Timers!Left(h))
        BY <3>6, <4>1
      <4>3. w(c) \in Int
        BY <2>1, <1>4
      <4>. QED  BY <3>1, <3>2, <4>1, <4>2, <4>3
    <3>7. CASE ~ (Timers!Left(h) # num_elements - 1 /\ w(Timers!Left(h) + 1) < w(Timers!Left(h)))
      <4>1. c = Timers!Left(h)
        BY <3>4, <3>7
      <4>. HIDE DEF w, c
      <4>2. CASE j = Timers!Left(h)
        BY <3>2, <4>1, <4>2
      <4>3. CASE j = Timers!Left(h) + 1
        <5>1. ~ (w(j) < w(Timers!Left(h)))
          BY <3>3, <3>7, <4>3
        <5>. QED  BY <3>2, <3>5, <4>1, <5>1
      <4>. QED  BY <3>1, <4>2, <4>3
    <3>. QED  BY <3>6, <3>7
  <2>. HIDE DEF w
  <2>6. \A j \in Pos \ {0, c} : Timers!Parent(j) # c => when'[heap'[Timers!Parent(j)]] <= when'[heap'[j]]
    <3>. SUFFICES ASSUME NEW j \in Pos \ {0, c}, Timers!Parent(j) # c
                  PROVE  when'[heap'[Timers!Parent(j)]] <= when'[heap'[j]]
      OBVIOUS
    <3>1. CASE j = h
      <4>1. h > 0 /\ Timers!Parent(h) \in Pos /\ Timers!Parent(h) # h
        BY <1>2, <2>2, <3>1
      <4>2. w(Timers!Parent(h)) <= w(c)
        BY <1>2, <1>4, <2>4, <4>1
      <4>. QED  BY <2>1, <3>1, <4>1, <4>2
    <3>2. CASE j # h /\ Timers!Parent(j) = h
      BY <2>1, <2>5, <3>2, <1>2
    <3>3. CASE j # h /\ Timers!Parent(j) # h
      BY <2>1, <2>2, <2>3, <3>3
    <3>. QED  BY <3>1, <3>2, <3>3
  <2>7. \A j \in Pos \ {0, c} : Timers!Parent(j) = c
            => when'[heap'[Timers!Parent(c)]] <= when'[heap'[j]]
    BY <1>2, <1>4, <2>1, <2>3
  <2>. QED  BY <1>4, <1>6, <1>8, <2>6, <2>7 DEF Ordered, Below
<1>. QED  BY <1>11, <1>12, <1>13, <1>14 DEF HeapInv

\* The hole at a leaf is filled with the last element, or was its place.
LEMMA FillKeeps ==
    ASSUME HeapInv, Timers!Fill
    PROVE  HeapInv'
<1>. DEFINE h == op.node
            max == num_elements - 1
            x == heap[max]
<1>1. op \in Timers!Op /\ Phase = "sink" /\ Sinking /\ ~ Bubbling
  BY BusyOp DEF HeapInv, Timers!TypeOK, Timers!Fill, Timers!Idle, Phase, Sinking, Bubbling
<1>2. h \in Pos /\ h \in Nat /\ num_elements \in Nat /\ max \in Nat /\ max \in Pos /\ h <= max
  BY <1>1 DEF HeapInv, OpOK, Pos, Timers!TypeOK
<1>3. /\ num_elements' = max
      /\ heap' = Timers!Short([heap EXCEPT ![h] = x])
      /\ IF h = max THEN Timers!Goto("out", 0) ELSE Timers!Goto("refill", h)
      /\ UNCHANGED <<offset, when>>
  BY DEF Timers!Fill
<1>4. Placed = Pos \ {h} /\ Held = Timers!SetEvents \ {op.event}
  BY <1>1 DEF Placed, Held
<1>5. /\ op' \in Timers!Op /\ op' # Timers!Idle /\ ~ Sinking'
      /\ Phase' = IF h = max THEN "out" ELSE "refill"
      /\ Bubbling' <=> h # max
      /\ op'.node = IF h = max THEN 0 ELSE h
      /\ op'.event = op.event /\ op'.time = op.time /\ op'.call = op.call
  <2>1. CASE h = max
    BY <1>1, <1>3, <2>1, GotoOp DEF Sinking, Bubbling
  <2>2. CASE h # max
    BY <1>1, <1>2, <1>3, <2>2, GotoOp DEF Sinking, Bubbling
  <2>. QED  BY <2>1, <2>2
<1>6. Pos' = Pos \ {max} /\ Timers!SetEvents' = Timers!SetEvents
  BY <1>2, <1>3 DEF Pos, Timers!SetEvents
<1>7. Placed' = Pos \ {h, max} /\ Held' = Held
  BY <1>4, <1>5, <1>6 DEF Placed, Held
<1>8. /\ heap' \in [0..(max - 1) -> Events]
      /\ \A j \in Pos \ {max} : heap'[j] = IF j = h THEN x ELSE heap[j]
  BY <1>2, <1>3 DEF HeapInv, Timers!TypeOK, Pos, Timers!Short
<1>9. Timers!TypeOK'
  BY <1>2, <1>3, <1>5, <1>8 DEF HeapInv, Timers!TypeOK
<1>10. OpOK'
  BY <1>1, <1>2, <1>3, <1>5, <1>6, BusyOp DEF HeapInv, OpOK
<1>11. h # max => x \in Held /\ offset[x] = max
  BY <1>2, <1>4 DEF HeapInv, Exact
<1>12. Exact'
  <2>1. \A j \in Pos \ {h, max} : heap'[j] = heap[j] /\ heap[j] \in Held /\ offset'[heap[j]] = j
    BY <1>3, <1>4, <1>8 DEF HeapInv, Exact
  <2>2. \A f \in Held : (h # max /\ f = x) \/ (offset'[f] \in Pos \ {h, max} /\ heap'[offset'[f]] = f)
    BY <1>1, <1>3, <1>4, <1>8 DEF HeapInv, Exact
  <2>3. h # max => heap'[h] = x /\ h \in Pos \ {max}
    BY <1>2, <1>8
  <2>4. h # max => \A j \in Pos \ {h, max} : heap'[j] # x
    BY <1>3, <1>11, <2>1
  <2>5. \A f \in Events \ Held : offset'[f] = Timers!NotIn
    BY <1>3 DEF HeapInv, Exact
  <2>. QED  BY <1>5, <1>7, <1>11, <2>1, <2>2, <2>3, <2>4, <2>5 DEF Exact
<1>13. Ordered'
  <2>. DEFINE w(j) == when[heap[j]]
  <2>1. \A j \in Pos \ {max} : when'[heap'[j]] = IF j = h THEN w(max) ELSE w(j)
    BY <1>3, <1>8
  <2>2. \A j \in Pos \ {0} : Timers!Parent(j) # h
    <3>. SUFFICES ASSUME NEW j \in Pos \ {0}, Timers!Parent(j) = h PROVE FALSE
      OBVIOUS
    <3>1. j \in {Timers!Left(h), Timers!Left(h) + 1}
      BY <1>2, ParentChild DEF Pos
    <3>. QED  BY <1>2, <3>1 DEF Timers!Fill, Timers!Left, Pos
  <2>3. \A j \in Pos \ {0, h} : Timers!Parent(j) \in Pos \ {h} => w(Timers!Parent(j)) <= w(j)
    BY <1>4 DEF HeapInv, Ordered, Below
  <2>. HIDE DEF w
  <2>4. \A j \in Placed' \ {0} : Timers!Parent(j) \in Placed'
            => when'[heap'[Timers!Parent(j)]] <= when'[heap'[j]]
    BY <1>7, <2>1, <2>3
  <2>5. \A j \in Placed' \ {0} : Bubbling' => Timers!Parent(j) # op'.node
    BY <1>5, <1>7, <2>2
  <2>. QED  BY <1>5, <2>4, <2>5 DEF Ordered, Below
<1>. QED  BY <1>9, <1>10, <1>12, <1>13 DEF HeapInv

-----------------------------------------------------------------------------
(* The steps of fr_heap_bubble *)

\* One iteration of the loop: the element and its parent change places.
LEMMA SwapUpKeeps ==
    ASSUME HeapInv, Timers!SwapUp
    PROVE  HeapInv'
<1>. DEFINE c == op.node
            q == Timers!Parent(c)
            x == heap[c]
            y == heap[q]
<1>1. op \in Timers!Op /\ Phase = op.at /\ Bubbling /\ ~ Sinking /\ op.at \in {"refill", "rise"}
  BY BusyOp DEF HeapInv, Timers!TypeOK, Timers!SwapUp, Timers!Idle, Phase, Sinking, Bubbling
<1>2. c \in Pos /\ c \in Nat /\ num_elements \in Nat /\ c > 0
  BY <1>1 DEF HeapInv, OpOK, Pos, Timers!TypeOK, Timers!SwapUp, Timers!Rises
<1>3. q \in Pos /\ q \in Nat /\ q < c
  BY <1>2, ParentChild DEF Pos
<1>4. /\ heap' = [heap EXCEPT ![c] = y, ![q] = x]
      /\ offset' = [offset EXCEPT ![y] = c]
      /\ Timers!Goto(op.at, q)
      /\ UNCHANGED <<num_elements, when>>
  BY DEF Timers!SwapUp
<1>5. Placed = Pos \ {c}
  BY <1>1 DEF Placed
<1>6. /\ op' \in Timers!Op /\ Phase' = Phase /\ ~ Sinking' /\ Bubbling' /\ op' # Timers!Idle
      /\ op'.node = q /\ op'.event = op.event /\ op'.time = op.time /\ op'.call = op.call
  BY <1>1, <1>3, <1>4, GotoOp DEF Sinking, Bubbling
<1>7. Pos' = Pos /\ Timers!SetEvents' = Timers!SetEvents
  BY <1>4 DEF Pos, Timers!SetEvents
<1>8. Placed' = Pos \ {q} /\ Held' = Held
  BY <1>6, <1>7 DEF Placed, Held
<1>9. /\ x \in Held /\ y \in Held /\ x \in Events /\ y \in Events /\ x # y /\ offset[y] = q
  BY <1>1, <1>3, <1>5 DEF HeapInv, Exact, Held, Timers!SetEvents
<1>10. /\ \A j \in Pos : heap'[j] = IF j = c THEN y ELSE IF j = q THEN x ELSE heap[j]
       /\ \A f \in Events : offset'[f] = IF f = y THEN c ELSE offset[f]
  BY <1>2, <1>3, <1>4 DEF HeapInv, Timers!TypeOK, Pos
<1>11. Timers!TypeOK'
  BY <1>2, <1>4, <1>6, <1>9 DEF HeapInv, Timers!TypeOK
<1>12. OpOK'
  BY <1>1, <1>3, <1>4, <1>6, <1>7, BusyOp DEF HeapInv, OpOK
<1>13. Exact'
  <2>1. ASSUME NEW j \in Pos \ {q}
        PROVE  heap'[j] \in Held /\ offset'[heap'[j]] = j /\ heap'[j] # x
    <3>1. CASE j = c
      BY <1>9, <1>10, <3>1
    <3>2. CASE j # c
      <4>1. heap[j] \in Held /\ heap[j] \in Events /\ offset[heap[j]] = j /\ heap[j] # x
        BY <1>1, <1>5, <3>2 DEF HeapInv, Exact, Held, Timers!SetEvents
      <4>. QED  BY <1>9, <1>10, <3>2, <4>1
    <3>. QED  BY <3>1, <3>2
  <2>2. heap'[q] = x
    BY <1>3, <1>10
  <2>3. ASSUME NEW f \in Held, f # x
        PROVE  offset'[f] \in Pos \ {q} /\ heap'[offset'[f]] = f
    <3>1. f \in Events /\ offset[f] \in Pos \ {c} /\ heap[offset[f]] = f
      BY <1>1, <1>5, <2>3 DEF HeapInv, Exact, Held, Timers!SetEvents
    <3>. QED  BY <1>2, <1>3, <1>10, <3>1
  <2>4. \A f \in Events \ Held : offset'[f] = Timers!NotIn
    BY <1>9, <1>10 DEF HeapInv, Exact
  <2>. HIDE DEF q, x
  <2>. QED  BY <1>6, <1>8, <1>9, <2>1, <2>2, <2>3, <2>4 DEF Exact
<1>14. Ordered'
  <2>. DEFINE w == [j \in Pos |-> when[heap[j]]]
  <2>1. \A j \in Pos : /\ w[j] = when[heap[j]] /\ w[j] \in Int
                       /\ when'[heap'[j]] = IF j = c THEN w[q] ELSE IF j = q THEN w[c] ELSE w[j]
    <3>1. \A j \in Pos : w[j] = when[heap[j]] /\ w[j] \in Int
      BY TimesAreNumbers DEF HeapInv
    <3>2. w[c] = when[x] /\ w[q] = when[y]
      BY <1>2, <1>3
    <3>. HIDE DEF w, q, x, y
    <3>. QED  BY <1>4, <1>10, <3>1, <3>2
  <2>2. \A j \in Pos \ {0} : Timers!Parent(j) \in Pos /\ Timers!Parent(j) < j
    BY <1>2, ParentChild DEF Pos
  <2>3. \A j \in Pos \ {0, c} : w[Timers!Parent(j)] <= w[j]
    BY <1>1, <1>5, <2>1, <2>2 DEF HeapInv, Ordered, Below
  <2>4. \A j \in Pos \ {0, c} : Timers!Parent(j) = c => w[q] <= w[j]
    BY <1>1, <1>2, <1>3, <1>5, <2>1 DEF HeapInv, Ordered, Below
  <2>5. w[c] <= w[q]
    BY <1>2, <1>3, <2>1 DEF Timers!SwapUp, Timers!Rises, Timers!Earlier
  <2>. HIDE DEF w
  <2>6. ASSUME NEW j \in Pos \ {0, q}
        PROVE  when'[heap'[Timers!Parent(j)]] <= when'[heap'[j]]
    <3>1. Timers!Parent(j) \in Pos /\ Timers!Parent(j) # j /\ w[j] \in Int /\ w[c] \in Int /\ w[q] \in Int
      BY <1>2, <1>3, <2>1, <2>2 DEF Pos
    <3>2. CASE j = c
      BY <1>2, <1>3, <2>1, <2>5, <3>2
    <3>3. CASE j # c /\ Timers!Parent(j) = c
      BY <1>2, <1>3, <2>1, <2>4, <3>3
    <3>4. CASE j # c /\ Timers!Parent(j) = q
      <4>1. w[q] <= w[j]
        BY <2>3, <3>4
      <4>2. when'[heap'[Timers!Parent(j)]] = w[c] /\ when'[heap'[j]] = w[j]
        BY <1>3, <2>1, <3>4
      <4>. QED  BY <2>5, <3>1, <4>1, <4>2
    <3>5. CASE j # c /\ Timers!Parent(j) # c /\ Timers!Parent(j) # q
      BY <2>1, <2>3, <3>1, <3>5
    <3>. QED  BY <3>2, <3>3, <3>4, <3>5
  <2>7. ASSUME NEW j \in Pos \ {0, q}, q > 0, Timers!Parent(j) = q
        PROVE  when'[heap'[Timers!Parent(q)]] <= when'[heap'[j]]
    <3>1. /\ Timers!Parent(q) \in Pos /\ Timers!Parent(q) # q /\ Timers!Parent(q) # c
          /\ w[Timers!Parent(q)] <= w[q] /\ w[Timers!Parent(q)] \in Int /\ w[q] \in Int
      BY <1>2, <1>3, <2>1, <2>2, <2>3, <2>7
    <3>2. when'[heap'[Timers!Parent(q)]] = w[Timers!Parent(q)]
      BY <2>1, <3>1
    <3>3. CASE j = c
      BY <2>1, <3>1, <3>2, <3>3, <1>2
    <3>4. CASE j # c
      <4>1. when'[heap'[j]] = w[j] /\ w[j] \in Int /\ w[q] <= w[j]
        BY <2>1, <2>3, <2>7, <3>4
      <4>. QED  BY <3>1, <3>2, <4>1
    <3>. QED  BY <3>3, <3>4
  <2>8. ASSUME NEW j \in Pos \ {0, q}, Timers!Parent(j) = q
        PROVE  when'[heap'[q]] <= when'[heap'[j]]
    BY <2>6, <2>8
  <2>. HIDE DEF q
  <2>. QED  BY <1>6, <1>8, <2>6, <2>7, <2>8 DEF Ordered, Below
<1>. QED  BY <1>11, <1>12, <1>13, <1>14 DEF HeapInv

\* The element stays where it has come to, below an earlier one or at the top.
LEMMA SettleKeeps ==
    ASSUME HeapInv, Timers!Settle
    PROVE  HeapInv'
<1>. DEFINE c == op.node
            x == heap[c]
<1>1. op \in Timers!Op /\ Phase = op.at /\ Bubbling /\ ~ Sinking /\ op.at \in {"refill", "rise"}
  BY BusyOp DEF HeapInv, Timers!TypeOK, Timers!Settle, Timers!Idle, Phase, Sinking, Bubbling
<1>2. c \in Pos /\ c \in Nat /\ num_elements \in Nat
  BY <1>1 DEF HeapInv, OpOK, Pos, Timers!TypeOK
<1>3. /\ offset' = [offset EXCEPT ![x] = c]
      /\ IF op.at = "refill" THEN Timers!Goto("out", 0) ELSE op' = Timers!Idle
      /\ UNCHANGED <<heap, num_elements, when>>
  BY DEF Timers!Settle
<1>4. /\ op' \in Timers!Op \cup {Timers!Idle} /\ ~ Sinking' /\ ~ Bubbling'
      /\ op.at = "refill" => Phase' = "out" /\ op'.event = op.event /\ op'.time = op.time
                             /\ op'.call = op.call
      /\ op.at = "rise" => Phase' = "idle" /\ op' = Timers!Idle
  <2>1. CASE op.at = "refill"
    BY <1>1, <1>3, <2>1, GotoOp DEF Sinking, Bubbling
  <2>2. CASE op.at = "rise"
    BY <1>3, <2>2 DEF Sinking, Bubbling, Phase
  <2>. QED  BY <1>1, <2>1, <2>2
<1>5. Placed = Pos \ {c} /\ x \in Held /\ x \in Events
  BY <1>1 DEF Placed, HeapInv, Exact, Held, Timers!SetEvents
<1>6. Pos' = Pos /\ Timers!SetEvents' = Timers!SetEvents
  BY <1>3 DEF Pos, Timers!SetEvents
<1>7. Placed' = Pos /\ Held' = Held
  BY <1>1, <1>4, <1>6 DEF Placed, Held
<1>8. \A f \in Events : offset'[f] = IF f = x THEN c ELSE offset[f]
  BY <1>3 DEF HeapInv, Timers!TypeOK
<1>9. Timers!TypeOK'
  BY <1>2, <1>3, <1>4, <1>5 DEF HeapInv, Timers!TypeOK
<1>10. OpOK'
  BY <1>1, <1>4, IdlePhase, BusyOp DEF HeapInv, OpOK
<1>11. Exact'
  <2>1. \A j \in Pos : heap'[j] \in Held /\ offset'[heap'[j]] = j
    <3>. TAKE j \in Pos
    <3>1. CASE j = c
      BY <1>3, <1>5, <1>8, <3>1
    <3>2. CASE j # c
      <4>1. heap[j] \in Held /\ heap[j] \in Events /\ offset[heap[j]] = j /\ heap[j] # x
        BY <1>1, <1>5, <3>2 DEF HeapInv, Exact, Held, Timers!SetEvents
      <4>. QED  BY <1>3, <1>8, <4>1
    <3>. QED  BY <3>1, <3>2
  <2>2. \A f \in Held : offset'[f] \in Pos /\ heap'[offset'[f]] = f
    BY <1>2, <1>3, <1>5, <1>8 DEF HeapInv, Exact, Held, Timers!SetEvents
  <2>3. \A f \in Events \ Held : offset'[f] = Timers!NotIn
    BY <1>5, <1>8 DEF HeapInv, Exact
  <2>. QED  BY <1>4, <1>7, <2>1, <2>2, <2>3 DEF Exact
<1>12. Ordered'
  <2>1. ASSUME NEW j \in Pos \ {0}
        PROVE  Below(Timers!Parent(j), j)
    <3>1. Timers!Parent(j) \in Pos /\ Timers!Parent(j) # j
      BY <1>2, ParentChild DEF Pos
    <3>2. CASE j = c
      BY <1>2, <3>1, <3>2, TimesAreNumbers DEF Timers!Settle, Timers!Rises, Timers!Earlier, Below, HeapInv
    <3>3. CASE j # c
      BY <1>1, <1>5, <3>1, <3>3 DEF HeapInv, Ordered
    <3>. QED  BY <3>2, <3>3
  <2>. QED  BY <1>3, <1>4, <1>7, <2>1 DEF Ordered, Below
<1>. QED  BY <1>9, <1>10, <1>11, <1>12 DEF HeapInv

-----------------------------------------------------------------------------
(* The steps of fr_event_insert, fr_event_delete and fr_event_run *)

\* The event of a call that has nothing left to extract is not in the array, and
\* the others are in order.
LEMMA OutOfHeap ==
    ASSUME HeapInv, op # Timers!Idle, op.at = "out"
    PROVE  /\ op \in Timers!Op /\ Phase = "out" /\ ~ Sinking /\ ~ Bubbling
           /\ Placed = Pos /\ Held = Timers!SetEvents \ {op.event} /\ op.event \in Events
           /\ \A j \in Pos : heap[j] \in Held /\ heap[j] # op.event /\ heap[j] \in Events
<1>1. op \in Timers!Op /\ Phase = "out" /\ ~ Sinking /\ ~ Bubbling
  BY BusyOp DEF HeapInv, Timers!TypeOK, Sinking, Bubbling
<1>2. Placed = Pos /\ Held = Timers!SetEvents \ {op.event} /\ op.event \in Events
  BY <1>1 DEF Placed, Held, Timers!Op
<1>. QED  BY <1>1, <1>2 DEF HeapInv, Exact, Timers!SetEvents

LEMMA HeapInsertKeeps ==
    ASSUME HeapInv, Timers!HeapInsert
    PROVE  HeapInv'
<1>. DEFINE e == op.event
            n == num_elements
<1>1. op # Timers!Idle /\ op.at = "out"
  BY DEF HeapInv, Timers!TypeOK, Timers!HeapInsert, Timers!Idle
<1>2. /\ op \in Timers!Op /\ Phase = "out" /\ ~ Sinking /\ ~ Bubbling
      /\ Placed = Pos /\ Held = Timers!SetEvents \ {e} /\ e \in Events
      /\ \A j \in Pos : heap[j] \in Held /\ heap[j] # e /\ heap[j] \in Events
  BY <1>1, OutOfHeap
<1>3. n \in Nat /\ op.time \in Times /\ op.time # Timers!Unset /\ ~ op.call
  BY <1>1, <1>2 DEF HeapInv, Timers!TypeOK, Timers!HeapInsert, Timers!Op, OpOK
<1>4. /\ when' = [when EXCEPT ![e] = op.time]
      /\ num_elements' = n + 1
      /\ heap' = [i \in 0..n |-> IF i = n THEN e ELSE heap[i]]
      /\ Timers!Goto("rise", n)
      /\ offset' = offset
  BY DEF Timers!HeapInsert
<1>5. /\ op' \in Timers!Op /\ Phase' = "rise" /\ ~ Sinking' /\ Bubbling' /\ op' # Timers!Idle
      /\ op'.node = n /\ op'.event = e /\ op'.time = op.time /\ op'.call = op.call
  BY <1>2, <1>3, <1>4, GotoOp DEF Sinking, Bubbling
<1>6. /\ \A f \in Events : when'[f] = IF f = e THEN op.time ELSE when[f]
      /\ when' \in [Events -> Times \cup {Timers!Unset}]
  BY <1>2, <1>3, <1>4 DEF HeapInv, Timers!TypeOK
<1>7. /\ \A j \in Pos : heap'[j] = heap[j]
      /\ heap'[n] = e
      /\ heap' \in [0..n -> Events]
  <2>1. \A j \in 0..n : j = n \/ j \in Pos
    BY <1>3 DEF Pos
  <2>2. \A j \in Pos : j \in 0..n /\ j # n
    BY <1>3 DEF Pos
  <2>. QED  BY <1>2, <1>3, <1>4, <2>1, <2>2
<1>8. Pos' = Pos \cup {n} /\ n \notin Pos
  BY <1>3, <1>4 DEF Pos
<1>9. Timers!SetEvents' = Timers!SetEvents \cup {e}
  BY <1>2, <1>3, <1>6 DEF Timers!SetEvents
<1>10. Placed' = Pos /\ Held' = Held \cup {e} /\ e \notin Held
  BY <1>2, <1>5, <1>8, <1>9 DEF Placed, Held
<1>11. Timers!TypeOK'
  <2>1. 0..(num_elements' - 1) = 0..n /\ num_elements' \in Nat
    BY <1>3, <1>4
  <2>. QED  BY <1>4, <1>5, <1>6, <1>7, <2>1 DEF HeapInv, Timers!TypeOK
<1>12. OpOK'
  BY <1>2, <1>3, <1>5, <1>6, <1>8 DEF OpOK
<1>13. Exact'
  <2>1. \A j \in Pos : heap'[j] \in Held /\ offset'[heap'[j]] = j /\ heap'[j] # e
    BY <1>2, <1>4, <1>7 DEF HeapInv, Exact
  <2>2. \A f \in Held : offset'[f] \in Pos /\ heap'[offset'[f]] = f
    BY <1>2, <1>4, <1>7 DEF HeapInv, Exact
  <2>3. \A f \in Events \ Held : offset'[f] = Timers!NotIn
    BY <1>4 DEF HeapInv, Exact
  <2>. HIDE DEF n, e
  <2>. QED  BY <1>5, <1>7, <1>10, <2>1, <2>2, <2>3 DEF Exact
<1>14. Ordered'
  <2>1. ASSUME NEW j \in Pos \ {0}
        PROVE  /\ Timers!Parent(j) # n
               /\ Timers!Parent(j) \in Pos => when'[heap'[Timers!Parent(j)]] <= when'[heap'[j]]
    <3>1. Timers!Parent(j) # n
      BY <1>3, ParentChild DEF Pos
    <3>2. Timers!Parent(j) \in Pos => Below(Timers!Parent(j), j)
      BY <1>2 DEF HeapInv, Ordered
    <3>. QED  BY <1>2, <1>6, <1>7, <3>1, <3>2 DEF Below
  <2>. HIDE DEF n
  <2>. QED  BY <1>5, <1>10, <2>1 DEF Ordered, Below
<1>. QED  BY <1>11, <1>12, <1>13, <1>14 DEF HeapInv

LEMMA FreeKeeps ==
    ASSUME HeapInv, Timers!Free
    PROVE  HeapInv'
<1>. DEFINE e == op.event
<1>1. op # Timers!Idle /\ op.at = "out"
  BY DEF HeapInv, Timers!TypeOK, Timers!Free, Timers!Idle
<1>2. /\ op \in Timers!Op /\ Phase = "out" /\ ~ Sinking /\ ~ Bubbling
      /\ Placed = Pos /\ Held = Timers!SetEvents \ {e} /\ e \in Events
      /\ \A j \in Pos : heap[j] \in Held /\ heap[j] # e /\ heap[j] \in Events
  BY <1>1, OutOfHeap
<1>3. /\ when' = [when EXCEPT ![e] = Timers!Unset]
      /\ op' = Timers!Idle
      /\ UNCHANGED <<heap, num_elements, offset>>
  BY DEF Timers!Free
<1>4. Phase' = "idle" /\ ~ Sinking' /\ ~ Bubbling'
  BY <1>3 DEF Phase, Sinking, Bubbling
<1>5. /\ \A f \in Events : when'[f] = IF f = e THEN Timers!Unset ELSE when[f]
      /\ when' \in [Events -> Times \cup {Timers!Unset}]
  BY <1>2, <1>3 DEF HeapInv, Timers!TypeOK
<1>6. Pos' = Pos /\ Timers!SetEvents' = Timers!SetEvents \ {e}
  BY <1>3, <1>5 DEF Pos, Timers!SetEvents
<1>7. Placed' = Pos /\ Held' = Held
  BY <1>2, <1>4, <1>6 DEF Placed, Held
<1>8. Timers!TypeOK'
  BY <1>3, <1>5 DEF HeapInv, Timers!TypeOK
<1>9. OpOK'
  BY <1>3, <1>4 DEF OpOK
<1>10. Exact'
  BY <1>2, <1>3, <1>4, <1>7 DEF HeapInv, Exact
<1>11. Ordered'
  <2>1. \A j \in Pos \ {0} : Timers!Parent(j) \in Pos
            => when'[heap'[Timers!Parent(j)]] <= when'[heap'[j]]
    BY <1>2, <1>3, <1>5 DEF HeapInv, Ordered, Below
  <2>. QED  BY <1>4, <1>7, <2>1 DEF Ordered, Below
<1>. QED  BY <1>8, <1>9, <1>10, <1>11 DEF HeapInv

\* fr_event_insert of an event that is not set yet: nothing to take out.
LEMMA AllocateKeeps ==
    ASSUME HeapInv, op = Timers!Idle, NEW e \in Events \ Timers!SetEvents, NEW t \in Times,
           op' = [at |-> "out", node |-> 0, event |-> e, time |-> t, call |-> FALSE],
           UNCHANGED <<heap, num_elements, offset, when>>
    PROVE  HeapInv'
<1>1. Phase = "idle" /\ Held = Timers!SetEvents /\ Placed = Pos /\ ~ Bubbling /\ ~ Sinking
  BY DEF Phase, Held, Placed, Sinking, Bubbling
<1>2. op' \in Timers!Op /\ op'.at = "out" /\ op'.event = e /\ ~ op'.call
  BY DEF Timers!Op
<1>3. op' # Timers!Idle /\ Phase' = "out" /\ ~ Sinking' /\ ~ Bubbling'
  BY <1>2 DEF Timers!Op, Timers!Idle, Phase, Sinking, Bubbling
<1>4. Pos' = Pos /\ Timers!SetEvents' = Timers!SetEvents
  BY DEF Pos, Timers!SetEvents
<1>5. Placed' = Placed /\ Held' = Held
  BY <1>1, <1>2, <1>3, <1>4 DEF Placed, Held
<1>6. Timers!TypeOK' /\ OpOK'
  BY <1>2, <1>3 DEF HeapInv, Timers!TypeOK, OpOK
<1>7. Exact' /\ Ordered'
  BY <1>1, <1>3, <1>5 DEF HeapInv, Exact, Ordered, Below
<1>. QED  BY <1>6, <1>7 DEF HeapInv

LEMMA HeapUnchanged == ASSUME HeapInv, UNCHANGED heapState PROVE HeapInv'
BY DEF heapState, HeapInv, Timers!TypeOK, OpOK, Exact, Ordered, Below, Placed, Held, Pos,
   Phase, Sinking, Bubbling, Timers!SetEvents

\* What fr_event_run peeks at is set: the array is not empty and knows it.
LEMMA FirstIsSet ==
    ASSUME HeapInv, op = Timers!Idle, num_elements > 0
    PROVE  heap[0] \in Timers!SetEvents
<1>1. Phase = "idle" /\ Held = Timers!SetEvents /\ Placed = Pos
  BY DEF Phase, Held, Placed, Sinking, Bubbling
<1>2. 0 \in Pos
  BY DEF HeapInv, Timers!TypeOK, Pos
<1>. QED  BY <1>1, <1>2 DEF HeapInv, Exact

LEMMA HeapSteps == HeapInv /\ [Timers!Next]_heapState => HeapInv'
<1>. SUFFICES ASSUME HeapInv, [Timers!Next]_heapState PROVE HeapInv'
  OBVIOUS
<1>1. CASE UNCHANGED heapState
  BY <1>1, HeapUnchanged
<1>2. ASSUME NEW e \in Events, NEW t \in Times, Timers!EventInsert(e, t) PROVE HeapInv'
  BY <1>2, ExtractKeeps, AllocateKeeps DEF Timers!EventInsert
<1>3. ASSUME NEW e \in Events, Timers!EventDelete(e) PROVE HeapInv'
  BY <1>3, ExtractKeeps DEF Timers!EventDelete
<1>4. CASE Timers!EventRun
  BY <1>4, ExtractKeeps, FirstIsSet DEF Timers!EventRun
<1>. QED  BY <1>1, <1>2, <1>3, <1>4, SinkKeeps, FillKeeps, SwapUpKeeps, SettleKeeps,
             HeapInsertKeeps, FreeKeeps DEF Timers!Next

-----------------------------------------------------------------------------
(* What the invariant gives the callers *)

\* No event is before the one at the top: of the positions whose event is, the
\* least would have a parent whose event is as well.
LEMMA TopIsFirst ==
    ASSUME HeapInv, op = Timers!Idle, NEW k \in Pos
    PROVE  0 \in Pos /\ Below(0, k)
<1>. DEFINE S == {j \in Pos : ~ Below(0, j)}
            m == Loop!Min(S)
<1>1. Phase = "idle" /\ Placed = Pos /\ num_elements \in Nat
  BY DEF HeapInv, Timers!TypeOK, Phase, Placed, Sinking, Bubbling
<1>2. 0 \in Pos
  BY <1>1 DEF Pos
<1>3. CASE S = {}
  BY <1>2, <1>3
<1>4. CASE S # {}
  <2>1. m \in S /\ \A y \in S : m <= y
    <3>1. S \in SUBSET Nat
      BY <1>1 DEF Pos
    <3>. HIDE DEF S
    <3>. QED  BY <1>4, <3>1, MinIsLeast
  <2>2. m \in Pos /\ m \in Nat /\ m # 0
    BY <1>1, <1>2, <2>1, TimesAreNumbers DEF Pos, Below, HeapInv
  <2>. HIDE DEF m
  <2>3. Timers!Parent(m) \in Pos /\ Timers!Parent(m) < m
    BY <1>1, <2>2, ParentChild DEF Pos
  <2>4. Below(0, Timers!Parent(m))
    BY <2>1, <2>2, <2>3 DEF Pos
  <2>5. Below(Timers!Parent(m), m)
    BY <1>1, <2>2, <2>3 DEF HeapInv, Ordered
  <2>6. Below(0, m)
    <3>1. /\ when[heap[0]] \in Int /\ when[heap[m]] \in Int
          /\ when[heap[Timers!Parent(m)]] \in Int
      BY <1>2, <2>2, <2>3, TimesAreNumbers DEF HeapInv
    <3>2. /\ when[heap[0]] <= when[heap[Timers!Parent(m)]]
          /\ when[heap[Timers!Parent(m)]] <= when[heap[m]]
      BY <2>4, <2>5 DEF Below
    <3>. QED  BY <3>1, <3>2 DEF Below
  <2>. QED  BY <2>1, <2>6
<1>. QED  BY <1>3, <1>4

LEMMA IdleInOrder ==
    ASSUME HeapInv, op = Timers!Idle
    PROVE  Timers!OffsetsExact /\ Timers!EarliestFirst
<1>1. Phase = "idle" /\ Held = Timers!SetEvents /\ Placed = Pos /\ ~ Bubbling
  BY DEF Phase, Held, Placed, Sinking, Bubbling
<1>2. Timers!OffsetsExact
  BY <1>1 DEF HeapInv, Exact, Timers!OffsetsExact, Pos
<1>3. ASSUME NEW e \in Timers!SetEvents
      PROVE  num_elements > 0 /\ when[heap[0]] <= when[e]
  <2>1. offset[e] \in Pos /\ heap[offset[e]] = e
    BY <1>1 DEF HeapInv, Exact
  <2>2. 0 \in Pos /\ Below(0, offset[e])
    BY <2>1, TopIsFirst
  <2>. QED  BY <2>1, <2>2 DEF Below, Pos, HeapInv, Timers!TypeOK
<1>. QED  BY <1>2, <1>3 DEF Timers!EarliestFirst

LEMMA HeapAlways == Timers!Spec => []HeapInv
<1>1. UNCHANGED Timers!vars <=> UNCHANGED heapState
  BY DEF Timers!vars, heapState
<1>2. HeapInv /\ [Timers!Next]_(Timers!vars) => HeapInv'
  BY <1>1, HeapSteps
<1>. QED  BY <1>2, HeapBegin, PTL DEF Timers!Spec

\* The heap of timers, for any number of them and any times: whenever no call of
\* fr_event_insert, fr_event_delete or fr_event_run is under way, the array holds
\* the timers that are set and no other, each at the position it holds, and
\* fr_heap_peek gives one of the earliest.
THEOREM TimersStayInOrder == Timers!Spec => []TimersInOrder
<1>1. HeapInv => TimersInOrder
  BY IdleInOrder DEF TimersInOrder, HeapInv
<1>. QED  BY <1>1, HeapAlways, PTL

-----------------------------------------------------------------------------
(* The heap implements a set of timers *)

\* When each timer is due, and the one that is called.
Due == IF op = Timers!Idle THEN when ELSE [when EXCEPT ![op.event] = op.time]
Called == IF op # Timers!Idle /\ op.call THEN {op.event} ELSE {}

\* A call changes at its start when its event is due.
LEMMA StartsCall ==
    ASSUME HeapInv, op = Timers!Idle, NEW e \in Timers!SetEvents,
           NEW t \in Times \cup {Timers!Unset}, NEW c \in BOOLEAN, Timers!Extract(e, t, c)
    PROVE  /\ Due = when /\ Called = {}
           /\ Due' = [when EXCEPT ![e] = t] /\ Called' = IF c THEN {e} ELSE {}
<1>1. \E a, n : op' = [at |-> a, node |-> n, event |-> e, time |-> t, call |-> c]
      /\ a \in {"sink", "out"}
  BY DEF Timers!Extract
<1>2. op'.event = e /\ op'.time = t /\ op'.call = c /\ op'.at # "idle"
  BY <1>1
<1>3. op' # Timers!Idle
  BY <1>2 DEF Timers!Idle
<1>4. when' = when
  BY DEF Timers!Extract
<1>. QED  BY <1>2, <1>3, <1>4 DEF Due, Called

\* The steps in the middle of a call change neither.
LEMMA StaysDue ==
    ASSUME HeapInv, op # Timers!Idle, op' # Timers!Idle, UNCHANGED when,
           op'.event = op.event, op'.time = op.time, op'.call = op.call
    PROVE  UNCHANGED <<Due, Called>>
BY DEF Due, Called

LEMMA StepSimulates ==
    ASSUME HeapInv, [Timers!Next]_heapState
    PROVE  [Timers!Queue!Next]_<<Due, Called>>
<1>1. CASE UNCHANGED heapState
  BY <1>1 DEF heapState, Due, Called
<1>2. ASSUME NEW e \in Events, NEW t \in Times, Timers!EventInsert(e, t)
      PROVE  Timers!Queue!Next
  <2>1. /\ Due = when /\ Called = {} /\ Called' = {}
        /\ Due' = [when EXCEPT ![e] = t]
    <3>1. CASE e \in Timers!SetEvents /\ Timers!Extract(e, t, FALSE)
      BY <1>2, <3>1, StartsCall DEF Timers!EventInsert
    <3>2. CASE op' = [at |-> "out", node |-> 0, event |-> e, time |-> t, call |-> FALSE]
               /\ UNCHANGED <<heap, num_elements, offset, when>>
      <4>1. op' # Timers!Idle
        <5>1. op'.at # "idle"
          BY <3>2
        <5>. QED  BY <5>1 DEF Timers!Idle
      <4>. QED  BY <1>2, <3>2, <4>1 DEF Due, Called, Timers!EventInsert
    <3>. QED  BY <1>2, <3>1, <3>2 DEF Timers!EventInsert
  <2>2. Timers!Queue!Set(e, t)
    BY <2>1 DEF Timers!Queue!Set, Due, Called
  <2>. QED  BY <2>2 DEF Timers!Queue!Next
<1>3. ASSUME NEW e \in Events, Timers!EventDelete(e) PROVE Timers!Queue!Next
  <2>1. /\ Due = when /\ Called = {} /\ Called' = {} /\ e \in Timers!SetEvents
        /\ Due' = [when EXCEPT ![e] = Timers!Unset]
    BY <1>3, StartsCall DEF Timers!EventDelete
  <2>2. Timers!Queue!Delete(e)
    BY <2>1 DEF Timers!Queue!Delete, Timers!Queue!Waiting, Timers!Queue!Unset, Timers!Unset,
       Timers!SetEvents, Due, Called
  <2>. QED  BY <2>2 DEF Timers!Queue!Next
<1>4. CASE Timers!EventRun
  <2>. DEFINE e == heap[0]
  <2>1. op = Timers!Idle /\ e \in Timers!SetEvents /\ e \in Events
    BY <1>4, FirstIsSet DEF Timers!EventRun, Timers!SetEvents
  <2>2. /\ Due = when /\ Called = {} /\ Called' = {e}
        /\ Due' = [when EXCEPT ![e] = Timers!Unset]
    BY <1>4, <2>1, StartsCall DEF Timers!EventRun
  <2>3. \A f \in Timers!SetEvents : when[e] <= when[f]
    BY <2>1, IdleInOrder DEF Timers!EarliestFirst
  <2>. HIDE DEF e
  <2>4. Timers!Queue!Run(e)
    BY <2>1, <2>2, <2>3 DEF Timers!Queue!Run, Timers!Queue!Waiting, Timers!Queue!Unset,
       Timers!Unset, Timers!SetEvents, Due, Called
  <2>. QED  BY <2>1, <2>4 DEF Timers!Queue!Next
<1>5. CASE Timers!Sink \/ Timers!Fill \/ Timers!SwapUp \/ (Timers!Settle /\ op.at = "refill")
  <2>1. op # Timers!Idle /\ op \in Timers!Op
    BY <1>5 DEF Timers!Sink, Timers!Fill, Timers!SwapUp, Timers!Settle, Timers!Idle,
       HeapInv, Timers!TypeOK
  <2>2. /\ when' = when
        /\ \E a \in {"sink", "refill", "out", "rise"} : \E n :
             op' = [op EXCEPT !.at = a, !.node = n]
    BY <1>5 DEF Timers!Sink, Timers!Fill, Timers!SwapUp, Timers!Settle, Timers!Goto
  <2>3. op'.event = op.event /\ op'.time = op.time /\ op'.call = op.call /\ op'.at # "idle"
    BY <2>1, <2>2 DEF Timers!Op
  <2>4. op' # Timers!Idle
    BY <2>3 DEF Timers!Idle
  <2>. QED  BY <2>1, <2>2, <2>3, <2>4, StaysDue
<1>6. CASE Timers!Settle /\ op.at = "rise"
  <2>1. op # Timers!Idle /\ op \in Timers!Op /\ Phase = "rise"
    BY <1>6, BusyOp DEF Timers!Idle, HeapInv, Timers!TypeOK
  <2>2. when[op.event] = op.time /\ ~ op.call
    BY <2>1 DEF HeapInv, OpOK
  <2>3. op' = Timers!Idle /\ when' = when
    BY <1>6 DEF Timers!Settle
  <2>4. [when EXCEPT ![op.event] = op.time] = when
    BY <2>2 DEF HeapInv, Timers!TypeOK
  <2>. QED  BY <2>1, <2>2, <2>3, <2>4 DEF Due, Called
<1>7. CASE Timers!HeapInsert
  <2>1. op # Timers!Idle /\ op \in Timers!Op
    BY <1>7 DEF Timers!HeapInsert, Timers!Idle, HeapInv, Timers!TypeOK
  <2>2. when' = [when EXCEPT ![op.event] = op.time]
    BY <1>7 DEF Timers!HeapInsert
  <2>3. op'.event = op.event /\ op'.time = op.time /\ op'.call = op.call /\ op'.at = "rise"
    BY <1>7, <2>1 DEF Timers!HeapInsert, Timers!Goto, Timers!Op
  <2>4. op' # Timers!Idle
    BY <2>3 DEF Timers!Idle
  <2>5. [when' EXCEPT ![op.event] = op.time] = [when EXCEPT ![op.event] = op.time]
    BY <2>2 DEF HeapInv, Timers!TypeOK
  <2>6. Due' = Due /\ Called' = Called
    BY <2>1, <2>3, <2>4, <2>5 DEF Due, Called
  <2>. QED  BY <2>6
<1>8. CASE Timers!Free
  <2>1. op # Timers!Idle /\ op.time = Timers!Unset
    BY <1>8 DEF Timers!Free, Timers!Idle, HeapInv, Timers!TypeOK
  <2>2. op' = Timers!Idle /\ when' = [when EXCEPT ![op.event] = Timers!Unset]
    BY <1>8 DEF Timers!Free
  <2>3. Due' = Due /\ Called' = {}
    BY <2>1, <2>2 DEF Due, Called
  <2>4. Timers!Queue!Call
    BY <2>3 DEF Timers!Queue!Call, Due, Called
  <2>. QED  BY <2>4 DEF Timers!Queue!Next
<1>9. Timers!Settle => op.at \in {"refill", "rise"}
  BY DEF Timers!Settle
<1>. QED  BY <1>1, <1>2, <1>3, <1>4, <1>5, <1>6, <1>7, <1>8, <1>9 DEF Timers!Next

\* fr_event_insert, fr_event_delete and fr_event_run keep a set of timers, for any
\* number of them and any times: each is due at the time it was last set for until
\* it is deleted or called, no other is lost or comes back with it, and the one
\* fr_event_run calls is one of the earliest.
THEOREM TimersAreKept == Timers!Spec => TimersKept
<1>1. Timers!Init => Timers!Queue!Init
  BY DEF Timers!Init, Timers!Queue!Init, Timers!Unset, Timers!Queue!Unset
<1>2. HeapInv /\ [Timers!Next]_(Timers!vars) => [Timers!Queue!Next]_<<Due, Called>>
  BY StepSimulates DEF Timers!vars, heapState
<1>. QED  BY <1>1, <1>2, HeapAlways, PTL DEF Timers!Spec, TimersKept, Timers!Queue!Spec, Due, Called
=============================================================================
