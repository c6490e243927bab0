--------------------------- MODULE LLMClient_proofs ---------------------------
(***************************************************************************)
(* The LLM client, for every number of concurrent calls, slots, retries    *)
(* and every bucket: the semaphore conserves its slots, every attempt pays *)
(* a token of its own, an error means a spent budget, and a call that has  *)
(* ended stays ended.                                                      *)
(***************************************************************************)
EXTENDS LLMClient, FiniteSetTheorems, SequenceTheorems, TLAPS

States == {"idle"} \cup Active \cup Ended

(* TypeOK without the upper bounds on free and paid, which follow from     *)
(* the count of the calls in flight and from what each attempt has paid.   *)
TypeInv ==
  /\ pc \in [Calls -> States]
  /\ attempt \in [Calls -> 0..Attempts]
  /\ credit \in 0..Capacity
  /\ gate \in Seq(Calls)
  /\ free \in Nat
  /\ line \in Seq(Calls)
  /\ paid \in [Calls -> Nat]
  /\ inner \in [Calls -> 0..(1 + MaxRetries)]

(* The queue q holds calls that stand at the await place, none of them     *)
(* twice: p says where each call stands.                                   *)
Waiting(q, p, place) ==
  /\ \A k \in 1..Len(q) : p[q[k]] = place
  /\ \A j, k \in 1..Len(q) : q[j] = q[k] => j = k

QueuesRight == Waiting(gate, pc, "gate") /\ Waiting(line, pc, "line")

(* An attempt that has passed the limiter has paid for itself, one that    *)
(* has not has not: AttemptsPaid, and the same for the calls that wait for *)
(* the semaphore, which AttemptsPaid leaves out.                           *)
PaidRight == \A c \in Calls :
  /\ pc[c] \in {"line", "flight"} => paid[c] = attempt[c] + 1
  /\ pc[c] \in {"gate", "backoff"} => paid[c] = attempt[c]
  /\ pc[c] \notin Active => paid[c] <= Attempts

ClientInv == /\ TypeInv
             /\ QueuesRight
             /\ PaidRight
             /\ FailedMeansBudgetSpent
             /\ SlotsConserved

----------------------------------------------------------------------------
(* Queues: asyncio's lock and semaphore let their waiters in first come,   *)
(* first served, and drop a waiter that is cancelled.                      *)

\* A step of a call that waits elsewhere leaves the queue right.
LEMMA QueueStays ==
  ASSUME NEW q \in Seq(Calls), NEW p \in [Calls -> States], NEW place,
         Waiting(q, p, place), NEW c \in Calls, p[c] # place, NEW s
  PROVE  Waiting(q, [p EXCEPT ![c] = s], place)
<1>1. \A k \in 1..Len(q) : q[k] \in Calls /\ q[k] # c
  BY ElementOfSeq DEF Waiting
<1> QED
  BY <1>1 DEF Waiting

\* A call that comes to wait joins the queue at its end.
LEMMA QueueJoined ==
  ASSUME NEW q \in Seq(Calls), NEW p \in [Calls -> States], NEW place,
         Waiting(q, p, place), NEW c \in Calls, p[c] # place
  PROVE  /\ Append(q, c) \in Seq(Calls)
         /\ Waiting(Append(q, c), [p EXCEPT ![c] = place], place)
<1> DEFINE r == Append(q, c)
<1>1. /\ r \in Seq(Calls) /\ Len(r) = Len(q) + 1 /\ r[Len(q) + 1] = c
      /\ \A k \in 1..Len(q) : r[k] = q[k]
  BY AppendProperties
<1>2. Len(q) \in Nat /\ \A k \in 1..Len(q) : q[k] \in Calls /\ q[k] # c
  BY ElementOfSeq, LenProperties DEF Waiting
<1> HIDE DEF r
<1>3. \A k \in 1..Len(r) : [p EXCEPT ![c] = place][r[k]] = place
  <2>1. ASSUME NEW k \in 1..Len(r) PROVE k \in 1..Len(q) \/ k = Len(q) + 1
    BY <1>1, <1>2
  <2> QED
    BY <1>1, <1>2, <2>1 DEF Waiting
<1>4. \A j, k \in 1..Len(r) : r[j] = r[k] => j = k
  BY <1>1, <1>2 DEF Waiting
<1> QED
  BY <1>1, <1>3, <1>4 DEF Waiting, r

\* The first call of the queue leaves it, wherever it goes.
LEMMA QueueServed ==
  ASSUME NEW q \in Seq(Calls), q # <<>>, NEW p \in [Calls -> States], NEW place,
         Waiting(q, p, place), NEW s
  PROVE  /\ Head(q) \in Calls /\ p[Head(q)] = place
         /\ Tail(q) \in Seq(Calls)
         /\ Waiting(Tail(q), [p EXCEPT ![Head(q)] = s], place)
<1> DEFINE r == Tail(q)
<1>1. /\ Head(q) \in Calls /\ r \in Seq(Calls) /\ Len(r) = Len(q) - 1
      /\ \A k \in 1..Len(r) : r[k] = q[k + 1]
  BY HeadTailProperties
<1>2. Len(q) \in Nat /\ Len(q) > 0 /\ Head(q) = q[1]
  BY EmptySeq, LenProperties
<1>3. p[Head(q)] = place
  BY <1>2 DEF Waiting
<1> HIDE DEF r
<1>4. ASSUME NEW k \in 1..Len(r)
      PROVE  r[k] \in Calls /\ r[k] # Head(q) /\ p[r[k]] = place
  <2>1. k + 1 \in 1..Len(q) /\ 1 \in 1..Len(q) /\ k + 1 # 1 /\ r[k] = q[k + 1]
    BY <1>1, <1>2
  <2>2. q[k + 1] \in Calls
    BY <2>1, ElementOfSeq
  <2> QED
    BY <1>2, <2>1, <2>2 DEF Waiting
<1>5. \A k \in 1..Len(r) : [p EXCEPT ![Head(q)] = s][r[k]] = place
  BY <1>4
<1>6. \A j, k \in 1..Len(r) : r[j] = r[k] => j = k
  BY <1>1, <1>2 DEF Waiting
<1> QED
  BY <1>1, <1>3, <1>5, <1>6 DEF Waiting, r

(* A call that is cancelled leaves the queue it may be in: what remains    *)
(* are the others, in some order, none of them twice.                      *)
LEMMA QueueLeft ==
  ASSUME NEW q \in Seq(Calls), NEW p \in [Calls -> States], NEW place,
         Waiting(q, p, place), NEW c \in Calls, NEW s
  PROVE  /\ Leave(q, c) \in Seq(Calls)
         /\ Waiting(Leave(q, c), [p EXCEPT ![c] = s], place)
<1>1. Len(q) \in Nat /\ \A k \in 1..Len(q) : q[k] \in Calls
  BY ElementOfSeq, LenProperties
<1>2. CASE ~\E i \in 1..Len(q) : q[i] = c
  <2>1. Leave(q, c) = q
    BY <1>2 DEF Leave
  <2> QED
    BY <1>1, <1>2, <2>1 DEF Waiting
<1>3. CASE \E i \in 1..Len(q) : q[i] = c
  <2> DEFINE at == CHOOSE i \in 1..Len(q) : q[i] = c
             before == SubSeq(q, 1, at - 1)
             after == SubSeq(q, at + 1, Len(q))
             r == before \o after
  <2>1. at \in 1..Len(q) /\ q[at] = c
    BY <1>3
  <2>2. Leave(q, c) = r
    BY <1>3 DEF Leave
  <2> HIDE DEF at
  <2>3. /\ before \in Seq(Calls) /\ Len(before) = at - 1
        /\ \A k \in 1..(at - 1) : before[k] = q[k]
    BY <1>1, <2>1, SubSeqProperties
  <2>4. /\ after \in Seq(Calls) /\ Len(after) = Len(q) - at
        /\ \A k \in 1..(Len(q) - at) : after[k] = q[k + at]
    BY <1>1, <2>1, SubSeqProperties
  <2> HIDE DEF before, after
  <2>5. /\ r \in Seq(Calls) /\ Len(r) = Len(q) - 1
        /\ \A k \in 1..Len(r) : r[k] = IF k < at THEN q[k] ELSE q[k + 1]
    <3>1. r \in Seq(Calls) /\ Len(r) = Len(before) + Len(after)
      BY <2>3, <2>4, ConcatProperties
    <3>2. r \in Seq(Calls) /\ Len(r) = Len(q) - 1
      BY <1>1, <2>1, <2>3, <2>4, <3>1
    <3>3. ASSUME NEW k \in 1..Len(r)
          PROVE  r[k] = IF k < at THEN q[k] ELSE q[k + 1]
      <4>1. r[k] = IF k <= at - 1 THEN before[k] ELSE after[k - (at - 1)]
        BY <1>1, <2>1, <2>3, <2>4, <3>2, ConcatProperties
      <4>2. CASE k < at
        BY <1>1, <2>1, <2>3, <4>1, <4>2
      <4>3. CASE ~(k < at)
        <5>1. k - (at - 1) \in 1..(Len(q) - at) /\ k - (at - 1) + at = k + 1
          BY <1>1, <2>1, <3>2, <4>3
        <5> QED
          BY <2>1, <2>4, <4>1, <4>3, <5>1
      <4> QED
        BY <4>2, <4>3
    <3> QED
      BY <3>2, <3>3
  <2> HIDE DEF r
  <2>6. ASSUME NEW k \in 1..Len(r)
        PROVE  r[k] \in Calls /\ r[k] # c /\ p[r[k]] = place
    <3> DEFINE j == IF k < at THEN k ELSE k + 1
    <3>1. j \in 1..Len(q) /\ j # at /\ r[k] = q[j]
      BY <1>1, <2>1, <2>5
    <3> HIDE DEF j
    <3> QED
      BY <1>1, <2>1, <3>1 DEF Waiting
  <2>7. \A k \in 1..Len(r) : [p EXCEPT ![c] = s][r[k]] = place
    BY <2>6
  <2>8. \A j, k \in 1..Len(r) : r[j] = r[k] => j = k
    BY <1>1, <2>1, <2>5 DEF Waiting
  <2> QED
    BY <2>2, <2>5, <2>7, <2>8 DEF Waiting
<1> QED
  BY <1>2, <1>3

----------------------------------------------------------------------------
(* Slots.  InFlight is a subset of the finite set of calls, so taking or   *)
(* giving back one slot moves its size and the semaphore's value together. *)

\* There are finitely many calls, so those in flight can be counted.
LEMMA InFlightFinite == IsFiniteSet(InFlight) /\ Cardinality(InFlight) \in Nat
<1>1. IsFiniteSet(Calls) /\ InFlight \in SUBSET Calls
  BY ClientAssumption DEF InFlight, ClientAssumption
<1> QED
  BY <1>1, FS_Subset, FS_CardinalityType

\* create() is entered with a slot of the semaphore.
LEMMA Enters ==
  ASSUME TypeInv, SlotsConserved, NEW c \in Calls, pc[c] # "flight",
         pc' = [pc EXCEPT ![c] = "flight"], free' = free - 1
  PROVE  SlotsConserved'
<1>1. InFlight' = InFlight \cup {c} /\ c \notin InFlight
  BY DEF TypeInv, InFlight
<1>2. Cardinality(InFlight') = Cardinality(InFlight) + 1
  BY <1>1, InFlightFinite, FS_AddElement
<1> QED
  BY <1>2, InFlightFinite, ClientAssumption DEF SlotsConserved, TypeInv, ClientAssumption

\* create() is left, however it ends: the slot goes back.
LEMMA Leaves ==
  ASSUME TypeInv, SlotsConserved, NEW c \in Calls, pc[c] = "flight", NEW s,
         s # "flight", pc' = [pc EXCEPT ![c] = s], free' = free + 1
  PROVE  SlotsConserved'
<1>1. InFlight' = InFlight \ {c} /\ c \in InFlight
  BY DEF TypeInv, InFlight
<1>2. Cardinality(InFlight') = Cardinality(InFlight) - 1
  BY <1>1, InFlightFinite, FS_RemoveElement
<1> QED
  BY <1>2, InFlightFinite, ClientAssumption DEF SlotsConserved, TypeInv, ClientAssumption

\* A step outside create() moves no slot.
LEMMA SlotsUntouched ==
  ASSUME TypeInv, SlotsConserved, NEW c \in Calls, pc[c] # "flight", NEW s,
         s # "flight", pc' = [pc EXCEPT ![c] = s], free' = free
  PROVE  SlotsConserved'
<1>1. InFlight' = InFlight
  BY DEF TypeInv, InFlight
<1> QED
  BY <1>1 DEF SlotsConserved

----------------------------------------------------------------------------
(* One lemma per action: it keeps the inductive invariant.                 *)

\* The attempt budget is at least one, whatever llm_max_retries says.
LEMMA AttemptsPositive == Attempts \in Nat \ {0}
  BY ClientAssumption DEF ClientAssumption, Attempts

\* complete() starts with fresh locals and joins the line of the limiter.
LEMMA BeginKeeps ==
  ASSUME ClientInv, NEW c \in Calls, Begin(c)
  PROVE  ClientInv'
<1> USE DEF ClientInv
<1>1. pc[c] \notin {"gate", "line", "flight", "backoff"}
  BY DEF Begin, Active
<1>2. gate' \in Seq(Calls) /\ QueuesRight'
  BY <1>1, QueueJoined, QueueStays DEF Begin, TypeInv, QueuesRight
<1>3. TypeInv'
  BY <1>2, AttemptsPositive, ClientAssumption
     DEF Begin, TypeInv, States, Active, ClientAssumption
<1>4. PaidRight'
  BY <1>1 DEF Begin, TypeInv, PaidRight, Active
<1>5. FailedMeansBudgetSpent'
  BY <1>1, AttemptsPositive DEF Begin, TypeInv, FailedMeansBudgetSpent, Active
<1>6. SlotsConserved'
  BY <1>1, SlotsUntouched DEF Begin
<1> QED
  BY <1>2, <1>3, <1>4, <1>5, <1>6

\* The head of the limiter's line pays and goes on, to a slot or to wait.
LEMMA PassGateKeeps ==
  ASSUME ClientInv, NEW c \in Calls, PassGate(c)
  PROVE  ClientInv'
<1> USE DEF ClientInv
<1>1. gate # <<>> /\ c = Head(gate) /\ gate' = Tail(gate)
  BY DEF PassGate
<1>2. pc[c] = "gate" /\ gate' \in Seq(Calls)
  BY <1>1, QueueServed DEF TypeInv, QueuesRight
<1>3. credit' \in 0..Capacity
  BY ClientAssumption DEF PassGate, TypeInv, ClientAssumption
<1>4. paid' = [paid EXCEPT ![c] = @ + 1] /\ attempt' = attempt
  BY DEF PassGate
<1>5. ASSUME NEW s \in {"line", "flight"}, pc' = [pc EXCEPT ![c] = s]
      PROVE  PaidRight' /\ FailedMeansBudgetSpent'
  BY <1>2, <1>4, <1>5 DEF TypeInv, PaidRight, FailedMeansBudgetSpent, Active
<1>6. CASE free > 0 /\ line = <<>> /\ Launch(c) /\ line' = line
  <2>1. /\ pc' = [pc EXCEPT ![c] = "flight"] /\ free' = free - 1
        /\ inner' = [inner EXCEPT ![c] = 1]
    BY <1>6 DEF Launch
  <2>2. TypeInv'
    BY <1>2, <1>3, <1>4, <1>6, <2>1, ClientAssumption
       DEF TypeInv, States, Active, ClientAssumption
  <2>3. QueuesRight'
    BY <1>1, <1>2, <1>6, <2>1, QueueServed, QueueStays DEF TypeInv, QueuesRight
  <2>4. SlotsConserved'
    BY <1>2, <2>1, Enters
  <2> QED
    BY <1>5, <2>1, <2>2, <2>3, <2>4
<1>7. CASE /\ pc' = [pc EXCEPT ![c] = "line"] /\ line' = Append(line, c)
           /\ UNCHANGED <<free, inner>>
  <2>1. line' \in Seq(Calls) /\ QueuesRight'
    <3>1. Waiting(gate', pc', "gate")
      BY <1>1, <1>7, QueueServed DEF TypeInv, QueuesRight
    <3>2. line' \in Seq(Calls) /\ Waiting(line', pc', "line")
      <4>1. pc[c] # "line" /\ Waiting(line, pc, "line")
        BY <1>2 DEF QueuesRight
      <4> QED
        BY <1>1, <1>2, <1>7, <4>1, QueueJoined DEF TypeInv
    <3> QED
      BY <3>1, <3>2 DEF QueuesRight
  <2>2. TypeInv'
    BY <1>2, <1>3, <1>4, <1>7, <2>1 DEF TypeInv, States, Active
  <2>3. SlotsConserved'
    BY <1>2, <1>7, SlotsUntouched
  <2> QED
    BY <1>5, <1>7, <2>1, <2>2, <2>3
<1> QED
  BY <1>6, <1>7 DEF PassGate

\* The call that has waited longest takes the slot that came free.
LEMMA TakeSlotKeeps ==
  ASSUME ClientInv, NEW c \in Calls, TakeSlot(c)
  PROVE  ClientInv'
<1> USE DEF ClientInv
<1>1. /\ line # <<>> /\ c = Head(line) /\ line' = Tail(line) /\ free > 0
      /\ pc' = [pc EXCEPT ![c] = "flight"] /\ free' = free - 1
      /\ inner' = [inner EXCEPT ![c] = 1]
      /\ UNCHANGED <<attempt, credit, gate, paid>>
  BY DEF TakeSlot, Launch
<1>2. pc[c] = "line" /\ line' \in Seq(Calls) /\ QueuesRight'
  BY <1>1, QueueServed, QueueStays DEF TypeInv, QueuesRight
<1>3. TypeInv'
  BY <1>1, <1>2, ClientAssumption DEF TypeInv, States, Active, ClientAssumption
<1>4. PaidRight' /\ FailedMeansBudgetSpent'
  BY <1>1, <1>2 DEF TypeInv, PaidRight, FailedMeansBudgetSpent, Active
<1>5. SlotsConserved'
  BY <1>1, <1>2, Enters
<1> QED
  BY <1>2, <1>3, <1>4, <1>5

\* The SDK's own retry is invisible to the client.
LEMMA SdkRetryKeeps ==
  ASSUME ClientInv, NEW c \in Calls, SdkRetry(c)
  PROVE  ClientInv'
<1> USE DEF ClientInv
<1>1. TypeInv'
  BY ClientAssumption DEF SdkRetry, TypeInv, ClientAssumption
<1>2. UNCHANGED <<pc, attempt, credit, gate, free, line, paid>>
  BY DEF SdkRetry
<1> QED
  BY <1>1, <1>2 DEF QueuesRight, PaidRight, FailedMeansBudgetSpent, SlotsConserved, InFlight

\* An answer ends the call and gives its slot back.
LEMMA RespondKeeps ==
  ASSUME ClientInv, NEW c \in Calls, Respond(c)
  PROVE  ClientInv'
<1> USE DEF ClientInv
<1>1. /\ pc[c] = "flight" /\ pc' = [pc EXCEPT ![c] = "answered"] /\ free' = free + 1
      /\ UNCHANGED <<credit, gate, line>> /\ Forget(c)
  BY DEF Respond
<1>2. TypeInv'
  BY <1>1, AttemptsPositive, ClientAssumption
     DEF Forget, TypeInv, States, Ended, ClientAssumption
<1>3. QueuesRight'
  BY <1>1, QueueStays DEF TypeInv, QueuesRight
<1>4. PaidRight' /\ FailedMeansBudgetSpent'
  BY <1>1, AttemptsPositive
     DEF Forget, TypeInv, PaidRight, FailedMeansBudgetSpent, Active
<1>5. SlotsConserved'
  BY <1>1, Leaves
<1> QED
  BY <1>2, <1>3, <1>4, <1>5

\* A failed attempt gives its slot back; the budget decides what follows.
LEMMA FailKeeps ==
  ASSUME ClientInv, NEW c \in Calls, Fail(c)
  PROVE  ClientInv'
<1> USE DEF ClientInv
<1>1. PICK s \in {"backoff", "failed"} :
        /\ pc' = [pc EXCEPT ![c] = s]
        /\ s = "backoff" <=> attempt[c] + 1 < Attempts
  BY DEF Fail
<1>2. /\ pc[c] = "flight" /\ free' = free + 1 /\ inner' = [inner EXCEPT ![c] = 0]
      /\ attempt' = [attempt EXCEPT ![c] = @ + 1]
      /\ UNCHANGED <<credit, gate, line, paid>>
  BY DEF Fail
<1>3. attempt[c] \in 0..Attempts /\ attempt[c] < Attempts /\ paid[c] = attempt[c] + 1
  BY <1>2 DEF TypeInv, FailedMeansBudgetSpent, PaidRight, Active
<1>4. TypeInv'
  BY <1>1, <1>2, <1>3, AttemptsPositive, ClientAssumption
     DEF TypeInv, States, Active, Ended, ClientAssumption
<1>5. QueuesRight'
  BY <1>1, <1>2, QueueStays DEF TypeInv, QueuesRight
<1>6. PaidRight'
  BY <1>1, <1>2, <1>3, AttemptsPositive DEF TypeInv, PaidRight, Active
<1>7. FailedMeansBudgetSpent'
  BY <1>1, <1>2, <1>3, AttemptsPositive DEF TypeInv, FailedMeansBudgetSpent, Active
<1>8. SlotsConserved'
  BY <1>1, <1>2, Leaves
<1> QED
  BY <1>4, <1>5, <1>6, <1>7, <1>8

\* A retry goes back to the limiter, with the attempts it has left.
LEMMA BackoffOverKeeps ==
  ASSUME ClientInv, NEW c \in Calls, BackoffOver(c)
  PROVE  ClientInv'
<1> USE DEF ClientInv
<1>1. /\ pc[c] = "backoff" /\ pc' = [pc EXCEPT ![c] = "gate"] /\ gate' = Append(gate, c)
      /\ UNCHANGED <<attempt, credit, free, line, paid, inner>>
  BY DEF BackoffOver
<1>2. gate' \in Seq(Calls) /\ QueuesRight'
  <2>1. gate' \in Seq(Calls) /\ Waiting(gate', pc', "gate")
    <3>1. pc[c] # "gate" /\ Waiting(gate, pc, "gate")
      BY <1>1 DEF QueuesRight
    <3> QED
      BY <1>1, <3>1, QueueJoined DEF TypeInv
  <2>2. Waiting(line', pc', "line")
    BY <1>1, QueueStays DEF TypeInv, QueuesRight
  <2> QED
    BY <2>1, <2>2 DEF QueuesRight
<1>3. TypeInv'
  BY <1>1, <1>2 DEF TypeInv, States, Active
<1>4. PaidRight' /\ FailedMeansBudgetSpent'
  BY <1>1 DEF TypeInv, PaidRight, FailedMeansBudgetSpent, Active
<1>5. SlotsConserved'
  BY <1>1, SlotsUntouched
<1> QED
  BY <1>2, <1>3, <1>4, <1>5

(* A cancellation at any await takes the call out of the queue it may be   *)
(* in, and gives back the slot it may hold.                                *)
LEMMA CancelKeeps ==
  ASSUME ClientInv, NEW c \in Calls, Cancel(c)
  PROVE  ClientInv'
<1> USE DEF ClientInv
<1>1. /\ pc' = [pc EXCEPT ![c] = "cancelled"] /\ credit' = credit
      /\ gate' = Leave(gate, c) /\ line' = Leave(line, c) /\ Forget(c)
      /\ free' = IF pc[c] = "flight" THEN free + 1 ELSE free
  BY DEF Cancel
<1>2. gate' \in Seq(Calls) /\ line' \in Seq(Calls) /\ QueuesRight'
  BY <1>1, QueueLeft DEF TypeInv, QueuesRight
<1>3. TypeInv'
  BY <1>1, <1>2, AttemptsPositive, ClientAssumption
     DEF Forget, TypeInv, States, Ended, ClientAssumption
<1>4. PaidRight' /\ FailedMeansBudgetSpent'
  BY <1>1, AttemptsPositive
     DEF Forget, TypeInv, PaidRight, FailedMeansBudgetSpent, Active
<1>5. SlotsConserved'
  BY <1>1, Leaves, SlotsUntouched
<1> QED
  BY <1>2, <1>3, <1>4, <1>5

----------------------------------------------------------------------------
(* The theorems.                                                           *)

\* Every step keeps the inductive invariant.
LEMMA StepKeeps == ClientInv /\ [Next]_vars => ClientInv'
<1> SUFFICES ASSUME ClientInv, [Next]_vars PROVE ClientInv'
  OBVIOUS
<1>1. CASE Refill
  <2>1. credit' \in 0..Capacity
    BY <1>1, ClientAssumption DEF Refill, ClientInv, TypeInv, ClientAssumption
  <2>2. UNCHANGED <<pc, attempt, gate, free, line, paid, inner>>
    BY <1>1 DEF Refill
  <2> QED
    BY <2>1, <2>2 DEF ClientInv, TypeInv, QueuesRight, PaidRight,
                      FailedMeansBudgetSpent, SlotsConserved, InFlight
<1>2. CASE UNCHANGED vars
  BY <1>2 DEF vars, ClientInv, TypeInv, QueuesRight, PaidRight,
              FailedMeansBudgetSpent, SlotsConserved, InFlight
<1> QED
  BY <1>1, <1>2, BeginKeeps, PassGateKeeps, TakeSlotKeeps, SdkRetryKeeps, RespondKeeps,
     FailKeeps, BackoffOverKeeps, CancelKeeps DEF Next

\* The inductive invariant holds in every reachable state.
LEMMA ClientInvariant == Spec => []ClientInv
<1>1. Init => ClientInv
  <2> SUFFICES ASSUME Init PROVE ClientInv
    OBVIOUS
  <2>1. TypeInv
    BY AttemptsPositive, ClientAssumption DEF Init, TypeInv, States, ClientAssumption
  <2>2. QueuesRight
    BY DEF Init, QueuesRight, Waiting
  <2>3. PaidRight /\ FailedMeansBudgetSpent
    BY AttemptsPositive DEF Init, PaidRight, FailedMeansBudgetSpent, Active
  <2>4. SlotsConserved
    <3>1. InFlight = {}
      BY DEF Init, InFlight
    <3> QED
      BY <3>1, FS_EmptySet, ClientAssumption DEF Init, SlotsConserved, ClientAssumption
  <2> QED
    BY <2>1, <2>2, <2>3, <2>4 DEF ClientInv
<1> QED
  BY <1>1, StepKeeps, PTL DEF Spec

(* Type correctness: in particular the semaphore's value stays between 0   *)
(* and its size, and no call pays for more attempts than its budget allows *)
(* (llm_client.py:92-190).                                                 *)
THEOREM TypeCorrect == Spec => []TypeOK
<1>1. ClientInv => TypeOK
  <2> SUFFICES ASSUME ClientInv PROVE TypeOK
    OBVIOUS
  <2>1. free \in 0..Slots
    BY InFlightFinite, ClientAssumption
       DEF ClientInv, TypeInv, SlotsConserved, ClientAssumption
  <2>2. paid \in [Calls -> 0..Attempts]
    <3> SUFFICES ASSUME NEW c \in Calls PROVE paid[c] \in 0..Attempts
      BY DEF ClientInv, TypeInv
    <3>1. paid[c] \in Nat /\ attempt[c] \in 0..Attempts /\ pc[c] \in States
      BY DEF ClientInv, TypeInv
    <3>2. CASE pc[c] \in Active
      BY <3>1, <3>2, AttemptsPositive
         DEF ClientInv, PaidRight, FailedMeansBudgetSpent, Active
    <3>3. CASE pc[c] \notin Active
      BY <3>1, <3>3, AttemptsPositive DEF ClientInv, PaidRight
    <3> QED
      BY <3>2, <3>3
  <2> QED
    BY <2>1, <2>2 DEF ClientInv, TypeInv, TypeOK, States
<1> QED
  BY <1>1, ClientInvariant, PTL

(* The semaphore: slots are conserved, so at most llm_max_concurrency      *)
(* calls are in flight, whatever ends an attempt or cancels a call.        *)
THEOREM SlotsKept == Spec => []SlotsConserved
<1>1. ClientInv => SlotsConserved
  BY DEF ClientInv
<1> QED
  BY <1>1, ClientInvariant, PTL

(* The limiter gates every attempt: no create() is entered, and none is    *)
(* waited for, on the token of an earlier attempt.                         *)
THEOREM EveryAttemptPays == Spec => []AttemptsPaid
<1>1. ClientInv => AttemptsPaid
  BY DEF ClientInv, PaidRight, AttemptsPaid
<1> QED
  BY <1>1, ClientInvariant, PTL

(* LLMUnavailableError is raised exactly when all attempts have failed.    *)
THEOREM BudgetSpent == Spec => []FailedMeansBudgetSpent
<1>1. ClientInv => FailedMeansBudgetSpent
  BY DEF ClientInv
<1> QED
  BY <1>1, ClientInvariant, PTL

(* A call that has ended is not brought back by a late token, a late slot  *)
(* or a late timer: the heads of both lines are calls that still wait.     *)
THEOREM EndedStaysEnded == Spec => NoResurrection
<1> DEFINE Stays == \A c \in Calls : pc[c] \in Ended /\ pc'[c] # pc[c] => pc'[c] = "gate"
<1>1. ClientInv /\ [Next]_vars => [Stays]_vars
  <2> SUFFICES ASSUME ClientInv, Next, NEW c \in Calls, pc[c] \in Ended, pc'[c] # pc[c]
               PROVE  pc'[c] = "gate"
    OBVIOUS
  <2>1. pc \in [Calls -> States]
    BY DEF ClientInv, TypeInv
  <2>2. ASSUME NEW d \in Calls, d # c, NEW s, pc' = [pc EXCEPT ![d] = s] PROVE FALSE
    BY <2>1, <2>2
  <2>3. ASSUME gate # <<>> PROVE Head(gate) # c
    BY <2>3, QueueServed DEF ClientInv, TypeInv, QueuesRight, Ended
  <2>4. ASSUME line # <<>> PROVE Head(line) # c
    BY <2>4, QueueServed DEF ClientInv, TypeInv, QueuesRight, Ended
  <2>5. PICK d \in Calls :
          \/ Begin(d) \/ PassGate(d) \/ TakeSlot(d) \/ SdkRetry(d)
          \/ Respond(d) \/ Fail(d) \/ BackoffOver(d) \/ Cancel(d)
    BY DEF Next, Refill
  <2>6. ASSUME ~Begin(d) PROVE FALSE
    <3>1. d # c
      BY <2>3, <2>4, <2>5, <2>6
         DEF PassGate, TakeSlot, SdkRetry, Respond, Fail, BackoffOver, Cancel, Active, Ended
    <3>2. pc' = pc \/ \E s : pc' = [pc EXCEPT ![d] = s]
      BY <2>5, <2>6 DEF PassGate, TakeSlot, Launch, SdkRetry, Respond, Fail, BackoffOver, Cancel
    <3> QED
      BY <2>2, <3>1, <3>2
  <2> QED
    BY <2>1, <2>2, <2>5, <2>6 DEF Begin
<1> QED
  BY <1>1, ClientInvariant, PTL DEF Spec, NoResurrection

============================================================================
