---------------------------- MODULE Caller_proofs ----------------------------
(***************************************************************************)
(* Type correctness, the semaphore, and the circuit breaker of the eval    *)
(* caller, for every number of items, slots, retries and every threshold.  *)
(***************************************************************************)
EXTENDS Caller, FiniteSetTheorems, SequenceTheorems, TLAPS

States == {"new", "line", "flight", "backoff", "ok", "error", "skipped", "raised"}

(* TypeOK without the upper bound on free, which only the count of the     *)
(* busy items yields.                                                      *)
TypeInv ==
  /\ pc \in [Items -> States]
  /\ attempt \in [Items -> 0..MaxRetries]
  /\ free \in Nat
  /\ line \in Seq(Items)
  /\ streak \in Nat
  /\ breaker \in {"shut", "open"}
  /\ log \in Seq({"ok", "error"})
  /\ run \in {"calling", "returned", "raised"}

\* An item's result is counted, and its slot is released.
LEMMA EndItemType ==
  ASSUME TypeInv, NEW i \in Items, NEW outcome \in {"ok", "error"}, EndItem(i, outcome)
  PROVE  TypeInv'
<1>1. pc' \in [Items -> States] /\ free' \in Nat
  BY DEF EndItem, TypeInv, States
<1>2. streak' \in Nat /\ breaker' \in {"shut", "open"}
  BY DEF EndItem, Count, TypeInv
<1>3. log' \in Seq({"ok", "error"})
  BY AppendProperties DEF EndItem, Count, TypeInv
<1> QED
  BY <1>1, <1>2, <1>3 DEF EndItem, TypeInv

\* The type invariant but for the bound on free.
LEMMA TypeInvariant == Spec => []TypeInv
<1>1. Init => TypeInv
  BY CallerAssumption DEF Init, TypeInv, States
<1>2. TypeInv /\ [Next]_vars => TypeInv'
  <2> SUFFICES ASSUME TypeInv, [Next]_vars PROVE TypeInv'
    OBVIOUS
  <2>1. ASSUME NEW i \in Items, Start(i) PROVE TypeInv'
    <3>1. pc' \in [Items -> States]
      BY <2>1 DEF Start, TypeInv, States
    <3>2. free' \in Nat
      <4>1. free' = free \/ (free > 0 /\ free' = free - 1)
        BY <2>1 DEF Start
      <4>2. free \in Nat
        BY DEF TypeInv
      <4> QED
        BY <4>1, <4>2
    <3>3. line' \in Seq(Items)
      <4>1. line' = line \/ line' = Append(line, i)
        BY <2>1 DEF Start
      <4>2. line \in Seq(Items)
        BY DEF TypeInv
      <4> QED
        BY <4>1, <4>2, AppendProperties
    <3> QED
      BY <2>1, <3>1, <3>2, <3>3 DEF Start, TypeInv
  <2>2. ASSUME NEW i \in Items, TakeSlot(i) PROVE TypeInv'
    <3>1. line' \in Seq(Items)
      BY <2>2, HeadTailProperties DEF TakeSlot, TypeInv
    <3>2. pc' \in [Items -> States]
      BY <2>2 DEF TakeSlot, TypeInv, States
    <3>3. free' \in Nat
      BY <2>2 DEF TakeSlot, TypeInv
    <3> QED
      BY <2>2, <3>1, <3>2, <3>3 DEF TakeSlot, TypeInv
  <2>3. ASSUME NEW i \in Items, Succeed(i) PROVE TypeInv'
    BY <2>3, EndItemType DEF Succeed
  <2>4. ASSUME NEW i \in Items, Reject(i) PROVE TypeInv'
    BY <2>4, EndItemType DEF Reject
  <2>5. ASSUME NEW i \in Items, Falter(i) PROVE TypeInv'
    <3>1. CASE attempt[i] = MaxRetries /\ EndItem(i, "error")
      BY <3>1, EndItemType
    <3>2. CASE attempt[i] < MaxRetries
      <4>1. attempt[i] + 1 \in 0..MaxRetries
        BY <3>2, CallerAssumption DEF TypeInv
      <4>2. /\ attempt' = [attempt EXCEPT ![i] = @ + 1]
            /\ pc' = [pc EXCEPT ![i] = "backoff"]
            /\ UNCHANGED <<free, line, streak, breaker, log, run>>
        BY <2>5, <3>2, CallerAssumption DEF Falter, TypeInv
      <4>3. attempt' \in [Items -> 0..MaxRetries]
        BY <4>1, <4>2 DEF TypeInv
      <4>4. pc' \in [Items -> States]
        BY <4>2 DEF TypeInv, States
      <4> QED
        BY <4>2, <4>3, <4>4 DEF TypeInv
    <3> QED
      BY <2>5, <3>1, <3>2 DEF Falter
  <2>6. ASSUME NEW i \in Items, Resend(i) PROVE TypeInv'
    BY <2>6 DEF Resend, TypeInv, States
  <2>7. ASSUME NEW i \in Items, BadBody(i) PROVE TypeInv'
    BY <2>7 DEF BadBody, TypeInv, States
  <2>8. CASE Return
    BY <2>8 DEF Return, TypeInv
  <2>9. CASE UNCHANGED vars
    BY <2>9 DEF vars, TypeInv
  <2> QED
    BY <2>1, <2>2, <2>3, <2>4, <2>5, <2>6, <2>7, <2>8, <2>9 DEF Next
<1> QED
  BY <1>1, <1>2, PTL DEF Spec

----------------------------------------------------------------------------
(* The breaker.  What it must remember of the log is how many failures it  *)
(* ends with: streak says so, and a success stands before them.            *)
StreakIsTail ==
  /\ streak <= Len(log)
  /\ \A j \in (Len(log) - streak + 1)..Len(log) : log[j] = "error"
  /\ Threshold > 0 /\ streak < Len(log) => log[Len(log) - streak] = "ok"

BreakerInv == StreakIsTail /\ BreakerExact

\* Counting one more result keeps both: streak is the tail, the breaker exact.
LEMMA CountKeepsBreaker ==
  ASSUME TypeInv, BreakerInv, NEW outcome \in {"ok", "error"}, Count(outcome)
  PROVE  BreakerInv'
<1> USE CallerAssumption DEF TypeInv, CallerAssumption
<1> DEFINE L == Len(log)
<1>1. /\ L \in Nat /\ Len(log') = L + 1
      /\ log'[L + 1] = outcome /\ \A j \in 1..L : log'[j] = log[j]
  BY AppendProperties DEF Count
<1>2. StreakIsTail'
  <2>1. CASE outcome = "error" /\ Threshold > 0
    BY <1>1, <2>1 DEF Count, BreakerInv, StreakIsTail
  <2>2. CASE ~(outcome = "error" /\ Threshold > 0)
    BY <1>1, <2>2 DEF Count, BreakerInv, StreakIsTail
  <2> QED
    BY <2>1, <2>2
<1>3. ASSUME breaker' = "open" PROVE Threshold > 0 /\ \E k \in 0..(L + 1 - Threshold) :
                              \A j \in (k + 1)..(k + Threshold) : log'[j] = "error"
  <2>1. CASE breaker = "open"
    <3>1. PICK k \in 0..(L - Threshold) :
            \A j \in (k + 1)..(k + Threshold) : log[j] = "error"
      BY <2>1 DEF BreakerInv, BreakerExact
    <3>2. Threshold > 0 /\ k \in 0..(L + 1 - Threshold)
      BY <1>1, <2>1 DEF BreakerInv, BreakerExact
    <3>3. ASSUME NEW j \in (k + 1)..(k + Threshold) PROVE log'[j] = "error"
      <4>1. j \in 1..L
        BY <1>1, <2>1 DEF BreakerInv, BreakerExact
      <4> QED
        BY <1>1, <3>1, <4>1
    <3> QED
      BY <3>2, <3>3
  <2>2. CASE breaker = "shut"
    <3>1. Threshold > 0 /\ outcome = "error" /\ streak + 1 >= Threshold
      BY <1>3, <2>2 DEF Count
    <3>2. L + 1 - Threshold \in 0..(L + 1 - Threshold)
      BY <1>1, <3>1 DEF BreakerInv, StreakIsTail
    <3>3. \A j \in (L + 1 - Threshold + 1)..(L + 1 - Threshold + Threshold) : log'[j] = "error"
      BY <1>1, <3>1 DEF BreakerInv, StreakIsTail
    <3> QED
      BY <3>1, <3>2, <3>3
  <2> QED
    BY <2>1, <2>2
<1>4. ASSUME Threshold > 0, NEW k \in 0..(L + 1 - Threshold),
             \A j \in (k + 1)..(k + Threshold) : log'[j] = "error"
      PROVE  breaker' = "open"
  <2>1. CASE k <= L - Threshold
    <3>1. \A j \in (k + 1)..(k + Threshold) : log[j] = "error"
      BY <1>1, <1>4, <2>1
    <3>2. k \in 0..(L - Threshold)
      BY <1>1, <2>1
    <3> QED
      BY <1>4, <3>1, <3>2 DEF BreakerInv, BreakerExact, Count
  <2>2. CASE k = L + 1 - Threshold
    <3>1. outcome = "error"
      BY <1>1, <1>4, <2>2
    <3>2. streak + 1 >= Threshold
      <4> SUFFICES ASSUME streak + 1 < Threshold PROVE FALSE
        OBVIOUS
      <4>1. streak < L /\ log[L - streak] = "ok"
        BY <1>1, <1>4, <2>2 DEF BreakerInv, StreakIsTail
      <4>2. L - streak \in (k + 1)..(k + Threshold) /\ L - streak \in 1..L
        BY <1>1, <2>2, <4>1
      <4>3. log'[L - streak] = "error" /\ log'[L - streak] = log[L - streak]
        BY <1>1, <1>4, <4>2
      <4> QED
        BY <4>1, <4>3
    <3> QED
      BY <1>4, <3>1, <3>2 DEF Count
  <2> QED
    BY <1>1, <1>4, <2>1, <2>2
<1>5. BreakerExact'
  <2>1. ASSUME Threshold > 0, \E k \in 0..(L + 1 - Threshold) :
                                \A j \in (k + 1)..(k + Threshold) : log'[j] = "error"
        PROVE  breaker' = "open"
    BY <1>4, <2>1
  <2>2. breaker' = "open" <=>
          /\ Threshold > 0
          /\ \E k \in 0..(L + 1 - Threshold) :
               \A j \in (k + 1)..(k + Threshold) : log'[j] = "error"
    BY <1>3, <2>1
  <2> HIDE DEF L
  <2> QED
    BY <1>1, <2>2 DEF BreakerExact
<1> QED
  BY <1>2, <1>5 DEF BreakerInv

(* The breaker opens exactly when Threshold results in a row were          *)
(* failures, in the order in which the items ended (K/caller.py:218-230).  *)
THEOREM BreakerCorrect == Spec => []BreakerExact
<1> USE CallerAssumption DEF CallerAssumption
<1>1. Init => BreakerInv
  BY DEF Init, BreakerInv, StreakIsTail, BreakerExact
<1>2. TypeInv /\ BreakerInv /\ [Next]_vars => BreakerInv'
  <2> SUFFICES ASSUME TypeInv, BreakerInv, [Next]_vars PROVE BreakerInv'
    OBVIOUS
  <2>1. ASSUME NEW i \in Items, NEW outcome \in {"ok", "error"}, EndItem(i, outcome)
        PROVE  BreakerInv'
    BY <2>1, CountKeepsBreaker DEF EndItem
  <2>2. CASE UNCHANGED <<streak, breaker, log>>
    BY <2>2 DEF BreakerInv, StreakIsTail, BreakerExact
  <2>3. ASSUME Next
        PROVE  \/ \E i \in Items, outcome \in {"ok", "error"} : EndItem(i, outcome)
               \/ UNCHANGED <<streak, breaker, log>>
    BY <2>3 DEF Next, Start, TakeSlot, Succeed, Reject, Falter, Resend, BadBody, Return
  <2> QED
    BY <2>1, <2>2, <2>3 DEF vars
<1>3. BreakerInv => BreakerExact
  BY DEF BreakerInv
<1> QED
  BY <1>1, <1>2, <1>3, TypeInvariant, PTL DEF Spec

----------------------------------------------------------------------------
(* The semaphore.  Conservation alone does not tell that the item at the   *)
(* head of the line holds no slot yet: the line holds waiting items only,  *)
(* none of them twice.                                                     *)
LineInv ==
  /\ \A k \in 1..Len(line) : pc[line[k]] = "line"
  /\ \A j, k \in 1..Len(line) : line[j] = line[k] => j = k

SlotInv == /\ SlotsConserved
           /\ LineInv
           /\ breaker = "open" => free > 0

\* There are finitely many items, so the busy ones can be counted.
LEMMA BusyFinite == IsFiniteSet(Busy) /\ Cardinality(Busy) \in Nat
<1>1. IsFiniteSet(Items)
  BY CallerAssumption, FS_Interval DEF Items, CallerAssumption
<1>2. Busy \in SUBSET Items
  BY DEF Busy
<1> QED
  BY <1>1, <1>2, FS_Subset, FS_CardinalityType

\* An item that takes a slot.
LEMMA Enters ==
  ASSUME TypeInv, SlotsConserved, NEW i \in Items, i \notin Busy,
         Busy' = Busy \cup {i}, free' = free - 1
  PROVE  SlotsConserved'
<1>1. Cardinality(Busy') = Cardinality(Busy) + 1
  BY BusyFinite, FS_AddElement
<1> QED
  BY <1>1, BusyFinite, CallerAssumption DEF SlotsConserved, TypeInv, CallerAssumption

\* An item that gives its slot back.
LEMMA Leaves ==
  ASSUME TypeInv, SlotsConserved, NEW i \in Busy,
         Busy' = Busy \ {i}, free' = free + 1
  PROVE  SlotsConserved'
<1>1. Cardinality(Busy') = Cardinality(Busy) - 1
  BY BusyFinite, FS_RemoveElement
<1> QED
  BY <1>1, BusyFinite, CallerAssumption DEF SlotsConserved, TypeInv, CallerAssumption

\* A step of an item that is not in the line leaves the line as it was.
LEMMA LineUntouched ==
  ASSUME TypeInv, LineInv, NEW i \in Items, NEW s, pc[i] # "line",
         pc' = [pc EXCEPT ![i] = s], line' = line
  PROVE  LineInv'
<1>1. \A k \in 1..Len(line) : line[k] \in Items
  BY ElementOfSeq DEF TypeInv
<1> QED
  BY <1>1 DEF LineInv, TypeInv

\* An item that ends gives its slot back, whatever its result.
LEMMA EndItemSlots ==
  ASSUME TypeInv, SlotInv, NEW i \in Items, NEW outcome \in {"ok", "error"},
         pc[i] = "flight", EndItem(i, outcome)
  PROVE  SlotInv'
<1>1. Busy' = Busy \ {i} /\ i \in Busy
  BY DEF EndItem, TypeInv, Busy
<1>2. SlotsConserved'
  BY <1>1, Leaves DEF EndItem, SlotInv
<1>3. LineInv'
  BY LineUntouched DEF EndItem, SlotInv
<1>4. free' > 0
  BY DEF EndItem, TypeInv
<1> QED
  BY <1>2, <1>3, <1>4 DEF SlotInv

\* Every step keeps the slots and the line.
LEMMA StepKeepsSlots ==
  ASSUME TypeInv, SlotInv, [Next]_vars
  PROVE  SlotInv'
<1>1. ASSUME NEW i \in Items, Start(i) PROVE SlotInv'
  <2>1. CASE breaker = "open"
    <3>1. pc[i] = "new" /\ pc' = [pc EXCEPT ![i] = "skipped"]
          /\ UNCHANGED <<free, line, breaker>>
      BY <1>1, <2>1 DEF Start
    <3>2. Busy' = Busy
      BY <3>1 DEF TypeInv, Busy
    <3> QED
      BY <3>1, <3>2, LineUntouched DEF SlotInv, SlotsConserved
  <2>2. CASE breaker = "shut" /\ free > 0 /\ line = <<>>
    <3>1. pc[i] = "new" /\ pc' = [pc EXCEPT ![i] = "flight"]
          /\ free' = free - 1 /\ UNCHANGED <<line, breaker>>
      BY <1>1, <2>2 DEF Start, TypeInv
    <3>2. Busy' = Busy \cup {i} /\ i \notin Busy
      BY <3>1 DEF TypeInv, Busy
    <3> QED
      BY <2>2, <3>1, <3>2, Enters, LineUntouched DEF SlotInv
  <2>3. CASE breaker = "shut" /\ (free = 0 \/ line # <<>>)
    <3>1. pc[i] = "new" /\ pc' = [pc EXCEPT ![i] = "line"]
          /\ line' = Append(line, i) /\ UNCHANGED <<free, breaker>>
      BY <1>1, <2>3 DEF Start, TypeInv
    <3>2. Busy' = Busy
      BY <3>1 DEF TypeInv, Busy
    <3>3. LineInv'
      <4>1. /\ Len(line') = Len(line) + 1 /\ line'[Len(line) + 1] = i
            /\ \A k \in 1..Len(line) : line'[k] = line[k]
        BY <3>1, AppendProperties DEF TypeInv
      <4>2. Len(line) \in Nat /\ \A k \in 1..Len(line) : line[k] \in Items
        BY ElementOfSeq, LenProperties DEF TypeInv
      <4>3. \A k \in 1..Len(line) : line[k] # i
        BY <3>1 DEF SlotInv, LineInv
      <4>4. \A k \in 1..(Len(line) + 1) : pc'[line'[k]] = "line"
        <5>1. ASSUME NEW k \in 1..Len(line) PROVE pc'[line'[k]] = "line"
          <6>1. line'[k] = line[k] /\ line[k] \in Items /\ line[k] # i
            BY <4>1, <4>2, <4>3
          <6> QED
            BY <3>1, <6>1 DEF SlotInv, LineInv, TypeInv
        <5>2. pc'[line'[Len(line) + 1]] = "line"
          BY <3>1, <4>1 DEF TypeInv
        <5> QED
          BY <4>2, <5>1, <5>2
      <4>5. \A j, k \in 1..(Len(line) + 1) : line'[j] = line'[k] => j = k
        BY <4>1, <4>2, <4>3 DEF SlotInv, LineInv
      <4> QED
        BY <4>1, <4>4, <4>5 DEF LineInv
    <3> QED
      BY <3>1, <3>2, <3>3 DEF SlotInv, SlotsConserved
  <2> QED
    BY <1>1, <2>1, <2>2, <2>3 DEF Start
<1>2. ASSUME NEW i \in Items, TakeSlot(i) PROVE SlotInv'
  <2>1. /\ line \in Seq(Items) /\ line # <<>> /\ i = line[1]
        /\ line' = Tail(line) /\ free > 0 /\ breaker' = breaker
    BY <1>2 DEF TakeSlot, TypeInv
  <2>2. /\ Len(line) \in Nat /\ Len(line) > 0 /\ Len(line') = Len(line) - 1
        /\ \A k \in 1..Len(line') : line'[k] = line[k + 1]
    BY <2>1, HeadTailProperties, LenProperties, EmptySeq
  <2>3. pc[i] = "line"
    BY <2>1, <2>2 DEF SlotInv, LineInv
  <2>4. PICK s \in {"skipped", "flight"} : pc' = [pc EXCEPT ![i] = s]
    BY <1>2 DEF TakeSlot
  <2>5. LineInv'
    <3>1. ASSUME NEW k \in 1..Len(line')
          PROVE  k + 1 \in 1..Len(line) /\ line'[k] \in Items /\ line'[k] # i
      <4>1. k + 1 \in 1..Len(line) /\ 1 \in 1..Len(line) /\ k + 1 # 1
        BY <2>2
      <4>2. line'[k] = line[k + 1]
        BY <2>2, <3>1
      <4>3. line[k + 1] \in Items
        BY <2>1, <4>1, ElementOfSeq
      <4>4. line[k + 1] # line[1]
        BY <4>1 DEF SlotInv, LineInv
      <4> QED
        BY <2>1, <4>1, <4>2, <4>3, <4>4
    <3>2. \A k \in 1..Len(line') : pc'[line'[k]] = "line"
      BY <2>2, <2>4, <3>1 DEF SlotInv, LineInv, TypeInv
    <3>3. \A j, k \in 1..Len(line') : line'[j] = line'[k] => j = k
      BY <2>2, <3>1 DEF SlotInv, LineInv
    <3> QED
      BY <3>2, <3>3 DEF LineInv
  <2>6. CASE breaker = "open"
    <3>1. pc' = [pc EXCEPT ![i] = "skipped"] /\ free' = free
      BY <1>2, <2>6 DEF TakeSlot
    <3>2. Busy' = Busy
      BY <2>3, <3>1 DEF TypeInv, Busy
    <3> QED
      BY <2>1, <2>5, <3>1, <3>2 DEF SlotInv, SlotsConserved
  <2>7. CASE breaker = "shut"
    <3>1. pc' = [pc EXCEPT ![i] = "flight"] /\ free' = free - 1
      BY <1>2, <2>7 DEF TakeSlot
    <3>2. Busy' = Busy \cup {i} /\ i \notin Busy
      BY <2>3, <3>1 DEF TypeInv, Busy
    <3> QED
      BY <2>1, <2>5, <2>7, <3>1, <3>2, Enters DEF SlotInv
  <2> QED
    BY <2>6, <2>7 DEF TypeInv
<1>3. ASSUME NEW i \in Items, Succeed(i) \/ Reject(i) PROVE SlotInv'
  BY <1>3, EndItemSlots DEF Succeed, Reject
<1>4. ASSUME NEW i \in Items, pc[i] \in {"flight", "backoff"},
             NEW s \in {"flight", "backoff"}, pc' = [pc EXCEPT ![i] = s],
             UNCHANGED <<free, line, breaker>>
      PROVE  SlotInv'
  <2>1. Busy' = Busy
    BY <1>4 DEF TypeInv, Busy
  <2> QED
    BY <1>4, <2>1, LineUntouched DEF SlotInv, SlotsConserved
<1>5. ASSUME NEW i \in Items, Falter(i) PROVE SlotInv'
  <2>1. CASE EndItem(i, "error")
    BY <1>5, <2>1, EndItemSlots DEF Falter
  <2>2. CASE pc' = [pc EXCEPT ![i] = "backoff"] /\ UNCHANGED <<free, line, breaker>>
    BY <1>4, <1>5, <2>2 DEF Falter
  <2> QED
    BY <1>5, <2>1, <2>2 DEF Falter
<1>6. ASSUME NEW i \in Items, Resend(i) PROVE SlotInv'
  BY <1>4, <1>6 DEF Resend
<1>7. ASSUME NEW i \in Items, BadBody(i) PROVE SlotInv'
  <2>1. Busy' = Busy \ {i} /\ i \in Busy
    BY <1>7 DEF BadBody, TypeInv, Busy
  <2>2. SlotsConserved'
    BY <1>7, <2>1, Leaves DEF BadBody, SlotInv
  <2>3. LineInv'
    BY <1>7, LineUntouched DEF BadBody, SlotInv
  <2>4. free' > 0
    BY <1>7 DEF BadBody, TypeInv
  <2> QED
    BY <2>2, <2>3, <2>4 DEF SlotInv
<1>8. CASE Return
  BY <1>8 DEF Return, SlotInv, SlotsConserved, LineInv, Busy
<1>9. CASE UNCHANGED vars
  BY <1>9 DEF vars, SlotInv, SlotsConserved, LineInv, Busy
<1> QED
  BY <1>1, <1>2, <1>3, <1>5, <1>6, <1>7, <1>8, <1>9 DEF Next

\* The invariant behind the three theorems below.
LEMMA SlotInvariant == Spec => []SlotInv
<1>1. Init => SlotInv
  <2> SUFFICES ASSUME Init PROVE SlotInv
    OBVIOUS
  <2>1. Busy = {}
    BY DEF Init, Busy
  <2>2. Cardinality(Busy) = 0
    BY <2>1, FS_EmptySet
  <2> QED
    BY <2>2, CallerAssumption DEF Init, SlotInv, SlotsConserved, LineInv, CallerAssumption
<1> QED
  BY <1>1, StepKeepsSlots, TypeInvariant, PTL DEF Spec

(* A slot is never lost, on any path out of an item (K/caller.py:278-342). *)
THEOREM SlotsKept == Spec => []SlotsConserved
<1>1. SlotInv => SlotsConserved
  BY DEF SlotInv
<1> QED
  BY <1>1, SlotInvariant, PTL

\* The type invariant, with the semaphore's value within its bounds.
THEOREM TypeCorrect == Spec => []TypeOK
<1>1. TypeInv /\ SlotInv => TypeOK
  BY BusyFinite, CallerAssumption
     DEF TypeInv, SlotInv, SlotsConserved, TypeOK, States, CallerAssumption
<1> QED
  BY <1>1, TypeInvariant, SlotInvariant, PTL

(* With the breaker open fewer than Concurrency items are under way and no *)
(* waiting item joins them (K/caller.py:274-282).                          *)
THEOREM BreakerDrains == Spec => OpenBreakerDrains
<1>1. ASSUME TypeInv, SlotInv, [Next]_vars, breaker = "open"
      PROVE  Cardinality(Busy) < Concurrency /\ Fresh \cap Busy' = {}
  <2>1. Cardinality(Busy) < Concurrency
    BY <1>1, BusyFinite, CallerAssumption
       DEF SlotInv, SlotsConserved, TypeInv, CallerAssumption
  <2>2. ASSUME NEW i \in Items, NEW s, pc' = [pc EXCEPT ![i] = s],
               pc[i] \in {"flight", "backoff"} \/ s = "skipped"
        PROVE  Fresh \cap Busy' = {}
    BY <1>1, <2>2 DEF Fresh, Busy, TypeInv
  <2>3. ASSUME UNCHANGED pc PROVE Fresh \cap Busy' = {}
    BY <2>3 DEF Fresh, Busy
  <2>4. ASSUME NEW i \in Items, Start(i) \/ TakeSlot(i) PROVE Fresh \cap Busy' = {}
    BY <1>1, <2>2, <2>4 DEF Start, TakeSlot
  <2>5. ASSUME NEW i \in Items,
               Succeed(i) \/ Reject(i) \/ Falter(i) \/ Resend(i) \/ BadBody(i)
        PROVE  Fresh \cap Busy' = {}
    <3>1. PICK s : pc' = [pc EXCEPT ![i] = s]
      BY <2>5 DEF Succeed, Reject, Falter, Resend, BadBody, EndItem
    <3>2. pc[i] \in {"flight", "backoff"}
      BY <2>5 DEF Succeed, Reject, Falter, Resend, BadBody
    <3> QED
      BY <2>2, <3>1, <3>2
  <2>6. ASSUME Return \/ UNCHANGED vars PROVE Fresh \cap Busy' = {}
    BY <2>3, <2>6 DEF Return, vars
  <2> QED
    BY <1>1, <2>1, <2>4, <2>5, <2>6 DEF Next
<1>2. TypeInv /\ SlotInv /\ [Next]_vars =>
        [breaker = "open" => /\ Cardinality(Busy) < Concurrency
                             /\ Fresh \cap Busy' = {}]_vars
  BY <1>1
<1> QED
  BY <1>2, TypeInvariant, SlotInvariant, PTL DEF Spec, OpenBreakerDrains

=============================================================================
