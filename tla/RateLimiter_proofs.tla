------------------------- MODULE RateLimiter_proofs -------------------------
(***************************************************************************)
(* Type correctness, the quota, the one-sleep promise and the refinement   *)
(* of the token bucket, for every number of callers, every capacity and    *)
(* price, and every lateness of the event loop.                            *)
(***************************************************************************)
EXTENDS RateLimiter, SequenceTheorems, TLAPS

(* What one pass of the loop needs to know of its caller and leaves        *)
(* behind: the facts of TypeOK that TryTake touches.                       *)
LEMMA TryTakeType ==
  ASSUME TypeOK, NEW c \in Callers, TryTake(c), now' = now
  PROVE  /\ tokens' \in 0..Capacity
         /\ updatedAt' \in 0..now'
         /\ sleeper' \in Callers \cup {NoCaller}
         /\ wakeAt' \in Nat
         /\ naps' \in Nat
         /\ grants' \in Seq(Nat)
<1>1. Refilled \in 0..Capacity
  BY LimiterAssumption DEF TypeOK, Refilled, Least
<1>2. CASE Refilled >= Cost
  <2>1. Refilled - Cost \in 0..Capacity
    BY <1>1, <1>2, LimiterAssumption
  <2>2. Append(grants, now) \in Seq(Nat)
    BY AppendProperties DEF TypeOK
  <2>3. /\ updatedAt' = now /\ tokens' = Refilled - Cost
        /\ sleeper' = NoCaller /\ wakeAt' = 0 /\ naps' = 0
        /\ grants' = Append(grants, now)
    BY <1>2 DEF TryTake
  <2>4. now \in Nat
    BY DEF TypeOK
  <2> QED
    BY <2>1, <2>2, <2>3, <2>4
<1>3. CASE ~(Refilled >= Cost)
  <2>1. now + (Cost - Refilled) \in Nat /\ naps + 1 \in Nat
    BY <1>1, <1>3, LimiterAssumption DEF TypeOK
  <2>2. /\ updatedAt' = now /\ tokens' = Refilled /\ sleeper' = c
        /\ wakeAt' = now + (Cost - Refilled) /\ naps' = naps + 1
        /\ grants' = grants
    BY <1>3 DEF TryTake
  <2>3. now \in Nat /\ grants \in Seq(Nat)
    BY DEF TypeOK
  <2> QED
    BY <1>1, <2>1, <2>2, <2>3
<1> QED
  BY <1>2, <1>3

\* The product of two naturals is one.
LEMMA ProductType ==
  ASSUME NEW m \in Nat, NEW n \in Nat
  PROVE  m * n \in Nat
  OBVIOUS

\* Taking one element out of a sequence leaves a sequence of the same type.
LEMMA WithoutType ==
  ASSUME NEW S, NEW s \in Seq(S), NEW i \in 1..Len(s)
  PROVE  Without(s, i) \in Seq(S)
<1>1. /\ Len(s) \in Nat
      /\ \A k \in 1..(i - 1) : s[k] \in S
      /\ \A k \in (i + 1)..Len(s) : s[k] \in S
  BY LenProperties, ElementOfSeq
<1>2. SubSeq(s, 1, i - 1) \in Seq(S)
  BY <1>1, SubSeqProperties
<1>3. SubSeq(s, i + 1, Len(s)) \in Seq(S)
  BY <1>1, SubSeqProperties
<1> QED
  BY <1>2, <1>3, ConcatProperties DEF Without

(* Type correctness of the limiter: in particular the bucket is never      *)
(* overdrawn and never fuller than its capacity.                           *)
THEOREM TypeCorrect == Spec => []TypeOK
<1>1. Init => TypeOK
  BY LimiterAssumption DEF Init, TypeOK
<1>2. TypeOK /\ [Next]_vars => TypeOK'
  <2> SUFFICES ASSUME TypeOK, [Next]_vars PROVE TypeOK'
    OBVIOUS
  <2>1. ASSUME NEW c \in Callers, Acquire(c) PROVE TypeOK'
    <3>1. due' \in [Callers -> Nat]
      <4>1. Position \in Nat
        BY LenProperties DEF TypeOK, Position
      <4>2. now + Position * (Cost + Late) \in Nat
        <5>1. Cost + Late \in Nat
          BY LimiterAssumption
        <5>2. Position * (Cost + Late) \in Nat
          BY <4>1, <5>1, ProductType
        <5> QED
          BY <5>2 DEF TypeOK
      <4> QED
        BY <2>1, <4>2 DEF TypeOK, Acquire
    <3>2. CASE sleeper = NoCaller /\ queue = <<>>
      BY <2>1, <3>1, <3>2, TryTakeType DEF TypeOK, Acquire
    <3>3. CASE ~(sleeper = NoCaller /\ queue = <<>>)
      <4>1. Append(queue, c) \in Seq(Callers)
        BY AppendProperties DEF TypeOK
      <4>2. /\ queue' = Append(queue, c)
            /\ UNCHANGED <<now, tokens, updatedAt, sleeper, wakeAt, naps, grants>>
        BY <2>1, <3>3 DEF Acquire
      <4> QED
        BY <3>1, <4>1, <4>2 DEF TypeOK
    <3> QED
      BY <3>2, <3>3
  <2>2. ASSUME NEW c \in Callers, Cancel(c) PROVE TypeOK'
    <3>1. queue' \in Seq(Callers)
      <4>1. CASE UNCHANGED queue
        BY <4>1 DEF TypeOK
      <4>2. ASSUME NEW i \in 1..Len(queue), queue' = Without(queue, i)
            PROVE  queue' \in Seq(Callers)
        BY <4>2, WithoutType DEF TypeOK
      <4> QED
        BY <2>2, <4>1, <4>2 DEF Cancel
    <3>2. UNCHANGED <<now, tokens, updatedAt, grants, due>>
      BY <2>2 DEF Cancel
    <3>3. /\ sleeper' \in Callers \cup {NoCaller}
          /\ wakeAt' \in Nat /\ naps' \in Nat
      BY <2>2 DEF TypeOK, Cancel
    <3> QED
      BY <3>1, <3>2, <3>3 DEF TypeOK
  <2>3. CASE TakeLock
    <3>1. Head(queue) \in Callers /\ Tail(queue) \in Seq(Callers)
      BY <2>3 DEF TypeOK, TakeLock
    <3> QED
      BY <2>3, <3>1, TryTakeType DEF TypeOK, TakeLock
  <2>4. CASE WakeUp
    <3>1. sleeper \in Callers
      BY <2>4 DEF TypeOK, WakeUp
    <3> QED
      BY <2>4, <3>1, TryTakeType DEF TypeOK, WakeUp
  <2>5. CASE Tick
    BY <2>5 DEF TypeOK, Tick
  <2>6. CASE UNCHANGED vars
    BY <2>6 DEF TypeOK, vars
  <2> QED
    BY <2>1, <2>2, <2>3, <2>4, <2>5, <2>6 DEF Next
<1> QED
  BY <1>1, <1>2, PTL DEF Spec

----------------------------------------------------------------------------
(* The quota.  WindowBound speaks of two grants and says nothing of what   *)
(* is left in the bucket, so it is not inductive.  What is: the cost of    *)
(* every grant since the i-th, together with the tokens still there, never *)
(* exceeds a full bucket and the time that has been credited since.        *)
Spent == \A i \in 1..Len(grants) :
           /\ grants[i] <= updatedAt
           /\ (Len(grants) - i + 1) * Cost + tokens
                <= Capacity + (updatedAt - grants[i])

QuotaInv == Spent /\ WindowBound

\* One more grant costs one more token.
LEMMA OneMore ==
  ASSUME NEW n \in Int, NEW k \in Int
  PROVE  (n + 1) * k = n * k + k
  OBVIOUS

(* A pass of the loop preserves the quota: a refill credits at most the    *)
(* time it accounts for, and a grant spends what it adds.                  *)
LEMMA TryTakeQuota ==
  ASSUME TypeOK, QuotaInv, NEW c \in Callers, TryTake(c)
  PROVE  QuotaInv'
<1> DEFINE n == Len(grants)
           elapsed == now - updatedAt
<1>1. /\ n \in Nat /\ now \in Nat /\ tokens \in Nat /\ updatedAt \in Nat
      /\ elapsed \in Nat /\ Cost \in Nat /\ Capacity \in Nat
      /\ \A i \in 1..n : grants[i] \in Nat
  BY LimiterAssumption, ElementOfSeq, LenProperties DEF TypeOK
<1>2. /\ Refilled \in Nat
      /\ Refilled <= tokens + elapsed
      /\ Refilled <= Capacity
  BY <1>1 DEF Refilled, Least
<1>3. \A i \in 1..n : /\ grants[i] <= now
                      /\ (n - i + 1) * Cost + Refilled
                           <= Capacity + (now - grants[i])
  <2> SUFFICES ASSUME NEW i \in 1..n
               PROVE  /\ grants[i] <= now
                      /\ (n - i + 1) * Cost + Refilled
                           <= Capacity + (now - grants[i])
    OBVIOUS
  <2>1. (n - i + 1) * Cost \in Int
    BY <1>1
  <2>2. /\ grants[i] <= updatedAt
        /\ (n - i + 1) * Cost + tokens <= Capacity + (updatedAt - grants[i])
    BY DEF QuotaInv, Spent
  <2> HIDE DEF n
  <2> QED
    BY <1>1, <1>2, <2>1, <2>2
<1>4. CASE Refilled >= Cost
  <2>1. /\ tokens' = Refilled - Cost /\ updatedAt' = now
        /\ grants' = Append(grants, now)
    BY <1>4 DEF TryTake
  <2>2. /\ Len(grants') = n + 1 /\ grants'[n + 1] = now
        /\ \A i \in 1..n : grants'[i] = grants[i]
    BY <1>1, <2>1 DEF TypeOK
  <2>3. ASSUME NEW i \in 1..(n + 1)
        PROVE  /\ grants'[i] <= now
               /\ (n + 1 - i + 1) * Cost + (Refilled - Cost)
                    <= Capacity + (now - grants'[i])
    <3>1. CASE i = n + 1
      <4>1. (n + 1 - i + 1) * Cost = Cost
        BY <1>1, <3>1
      <4> QED
        BY <1>1, <1>2, <2>2, <3>1, <4>1
    <3>2. CASE i \in 1..n
      <4>1. n - i + 1 \in Int /\ n + 1 - i + 1 = (n - i + 1) + 1
        BY <1>1, <3>2
      <4>2. (n + 1 - i + 1) * Cost = (n - i + 1) * Cost + Cost
        BY <1>1, <4>1, OneMore
      <4>3. (n - i + 1) * Cost \in Int
        BY <1>1, <4>1
      <4>4. /\ grants'[i] = grants[i] /\ grants[i] \in Nat /\ grants[i] <= now
            /\ (n - i + 1) * Cost + Refilled <= Capacity + (now - grants[i])
        BY <1>1, <1>3, <2>2, <3>2
      <4> HIDE DEF n
      <4> QED
        BY <1>1, <1>2, <4>2, <4>3, <4>4
    <3> QED
      BY <1>1, <3>1, <3>2
  <2>4. Spent'
    BY <2>1, <2>2, <2>3 DEF Spent
  <2>5. ASSUME NEW i \in 1..(n + 1), NEW j \in 1..(n + 1), i <= j
        PROVE  (j - i + 1) * Cost <= Capacity + (grants'[j] - grants'[i])
    <3>1. CASE j = n + 1
      <4>1. (j - i + 1) * Cost + (Refilled - Cost) <= Capacity + (now - grants'[i])
        BY <2>3, <3>1
      <4>2. (j - i + 1) * Cost \in Int /\ grants'[i] \in Nat
        BY <1>1, <2>2
      <4>3. grants'[j] = now
        BY <2>2, <3>1
      <4> HIDE DEF n
      <4> QED
        BY <1>1, <1>2, <1>4, <4>1, <4>2, <4>3
    <3>2. CASE j \in 1..n
      <4>1. i \in 1..n
        BY <1>1, <2>5, <3>2
      <4> QED
        BY <2>2, <2>5, <3>2, <4>1 DEF QuotaInv, WindowBound
    <3> QED
      BY <1>1, <3>1, <3>2
  <2>6. WindowBound'
    BY <2>2, <2>5 DEF WindowBound
  <2> QED
    BY <2>4, <2>6 DEF QuotaInv
<1>5. CASE ~(Refilled >= Cost)
  <2>1. tokens' = Refilled /\ updatedAt' = now /\ grants' = grants
    BY <1>5 DEF TryTake
  <2> QED
    BY <1>3, <2>1 DEF QuotaInv, Spent, WindowBound
<1> QED
  BY <1>4, <1>5

(* The quota holds in every run: callers, cancellations and late timers    *)
(* cannot make acquire() grant more than the bucket pays for.              *)
THEOREM QuotaHolds == Spec => []WindowBound
<1>1. Init => QuotaInv
  BY DEF Init, QuotaInv, Spent, WindowBound
<1>2. TypeOK /\ QuotaInv /\ [Next]_vars => QuotaInv'
  <2> SUFFICES ASSUME TypeOK, QuotaInv, [Next]_vars PROVE QuotaInv'
    OBVIOUS
  <2>1. ASSUME NEW c \in Callers, TryTake(c) PROVE QuotaInv'
    BY <2>1, TryTakeQuota
  <2>2. CASE UNCHANGED <<tokens, updatedAt, grants>>
    BY <2>2 DEF QuotaInv, Spent, WindowBound
  <2>3. ASSUME NEW c \in Callers, Acquire(c) PROVE QuotaInv'
    BY <2>1, <2>2, <2>3 DEF Acquire
  <2>4. ASSUME NEW c \in Callers, Cancel(c) PROVE QuotaInv'
    BY <2>2, <2>4 DEF Cancel
  <2>5. CASE TakeLock
    <3>1. Head(queue) \in Callers
      BY <2>5 DEF TypeOK, TakeLock
    <3> QED
      BY <2>1, <2>5, <3>1 DEF TakeLock
  <2>6. CASE WakeUp
    BY <2>1, <2>6 DEF TypeOK, WakeUp
  <2>7. CASE Tick
    BY <2>2, <2>7 DEF Tick
  <2>8. CASE UNCHANGED vars
    BY <2>2, <2>8 DEF vars
  <2> QED
    BY <2>3, <2>4, <2>5, <2>6, <2>7, <2>8 DEF Next
<1>3. QuotaInv => WindowBound
  BY DEF QuotaInv
<1> QED
  BY <1>1, <1>2, <1>3, TypeCorrect, PTL DEF Spec

----------------------------------------------------------------------------
(* One sleep.  A sleeper's alarm is set for the very moment at which the   *)
(* bucket will hold a token.  The constructor does not ask for the         *)
(* capacity of one token this rests on.                                    *)
SleepInv ==
  /\ sleeper = NoCaller => naps = 0
  /\ sleeper # NoCaller => /\ naps = 1
                           /\ wakeAt = updatedAt + (Cost - tokens)

LEMMA TryTakeSleep ==
  ASSUME TypeOK, NEW c \in Callers, TryTake(c), naps = 0 \/ Refilled >= Cost
  PROVE  SleepInv'
<1>1. CASE Refilled >= Cost
  BY <1>1 DEF SleepInv, TryTake
<1>2. CASE ~(Refilled >= Cost)
  BY <1>2, LimiterAssumption DEF SleepInv, TryTake
<1> QED
  BY <1>1, <1>2

\* The alarm is exact, provided the bucket can hold one token.
LEMMA SleepInvariant ==
  ASSUME Capacity >= Cost
  PROVE  Spec => []SleepInv
<1>1. Init => SleepInv
  BY DEF Init, SleepInv
<1>2. TypeOK /\ SleepInv /\ [Next]_vars => SleepInv'
  <2> SUFFICES ASSUME TypeOK, SleepInv, [Next]_vars PROVE SleepInv'
    OBVIOUS
  <2>1. CASE UNCHANGED <<tokens, updatedAt, sleeper, wakeAt, naps>>
    BY <2>1 DEF SleepInv
  <2>2. ASSUME NEW c \in Callers, Acquire(c) PROVE SleepInv'
    <3>1. CASE sleeper = NoCaller /\ queue = <<>>
      BY <2>2, <3>1, TryTakeSleep DEF Acquire, SleepInv
    <3>2. CASE ~(sleeper = NoCaller /\ queue = <<>>)
      BY <2>1, <2>2, <3>2 DEF Acquire
    <3> QED
      BY <3>1, <3>2
  <2>3. ASSUME NEW c \in Callers, Cancel(c) PROVE SleepInv'
    BY <2>1, <2>3 DEF Cancel, SleepInv
  <2>4. CASE TakeLock
    <3>1. Head(queue) \in Callers
      BY <2>4 DEF TypeOK, TakeLock
    <3> QED
      BY <2>4, <3>1, TryTakeSleep DEF TakeLock, SleepInv
  <2>5. CASE WakeUp
    <3>1. sleeper \in Callers
      BY <2>5 DEF TypeOK, WakeUp
    <3>2. now >= updatedAt + (Cost - tokens)
      BY <2>5 DEF WakeUp, SleepInv
    <3>3. Refilled >= Cost
      BY <3>2, LimiterAssumption DEF TypeOK, Refilled, Least
    <3> QED
      BY <2>5, <3>1, <3>3, TryTakeSleep DEF WakeUp
  <2>6. CASE Tick
    BY <2>1, <2>6 DEF Tick
  <2>7. CASE UNCHANGED vars
    BY <2>1, <2>7 DEF vars
  <2> QED
    BY <2>2, <2>3, <2>4, <2>5, <2>6, <2>7 DEF Next
<1> QED
  BY <1>1, <1>2, TypeCorrect, PTL DEF Spec

(* No acquire() sleeps twice, provided the bucket can hold one token: the  *)
(* sleep is exact and a late alarm only adds to the bucket.                *)
THEOREM OneSleepSuffices ==
  ASSUME Capacity >= Cost
  PROVE  Spec => []SingleSleep
<1>1. SleepInv => SingleSleep
  BY DEF SleepInv, SingleSleep
<1> QED
  BY <1>1, SleepInvariant, PTL

(* The constructor accepts a capacity below one token, and then acquire()  *)
(* never returns: the bucket is cut off at its capacity however long the   *)
(* caller sleeps, so every pass sleeps again, with the lock held.  The     *)
(* hypothesis of OneSleepSuffices cannot be dropped.                       *)
THEOREM BelowOneTokenNobodyReturns ==
  ASSUME Capacity < Cost
  PROVE  Spec => [](grants = <<>>)
<1>1. TypeOK => ~(Refilled >= Cost)
  BY LimiterAssumption DEF TypeOK, Refilled, Least
<1>2. ASSUME TypeOK, NEW c, TryTake(c) PROVE grants' = grants
  BY <1>1, <1>2 DEF TryTake
<1>3. TypeOK /\ grants = <<>> /\ [Next]_vars => (grants = <<>>)'
  BY <1>2 DEF Next, Acquire, Cancel, TakeLock, WakeUp, Tick, vars
<1>4. Init => grants = <<>>
  BY DEF Init
<1> QED
  BY <1>3, <1>4, TypeCorrect, PTL DEF Spec

----------------------------------------------------------------------------
(* Refinement.  The bucket's credit at any moment is what a refill would   *)
(* find; a pass that sleeps accounts for time without changing it.         *)
LEMMA TryTakeRefines ==
  ASSUME TypeOK, NEW c \in Callers, TryTake(c), now' = now
  PROVE  Bucket!Grant \/ UNCHANGED <<now, Refilled, grants>>
<1>1. Refilled \in 0..Capacity
  BY LimiterAssumption DEF TypeOK, Refilled, Least
<1>2. CASE Refilled >= Cost
  <2>1. Refilled' = Refilled - Cost
    <3>1. tokens' = Refilled - Cost /\ updatedAt' = now
      BY <1>2 DEF TryTake
    <3>2. tokens' + (now' - updatedAt') = Refilled - Cost
      BY <1>1, <3>1, LimiterAssumption DEF TypeOK
    <3>3. Refilled' = Least(Capacity, Refilled - Cost)
      BY <3>2 DEF Refilled
    <3> QED
      BY <1>1, <3>3, LimiterAssumption DEF Least
  <2> QED
    BY <1>2, <2>1 DEF TryTake, Bucket!Grant
<1>3. CASE ~(Refilled >= Cost)
  <2>1. tokens' = Refilled /\ updatedAt' = now /\ grants' = grants
    BY <1>3 DEF TryTake
  <2>2. tokens' + (now' - updatedAt') = Refilled
    BY <1>1, <2>1 DEF TypeOK
  <2>3. Refilled' = Least(Capacity, Refilled)
    BY <2>2 DEF Refilled
  <2>4. Refilled' = Refilled
    BY <1>1, <2>3, LimiterAssumption DEF Least
  <2> QED
    BY <2>1, <2>4
<1> QED
  BY <1>2, <1>3

(* The limiter implements the token bucket: each of its steps is a tick, a *)
(* grant the bucket allows, or a step the bucket does not see.             *)
THEOREM ImplementsBucket == Spec => RefinesBucket
<1>1. Init => Bucket!Init
  BY LimiterAssumption DEF Init, Bucket!Init, Refilled, Least
<1>2. TypeOK /\ [Next]_vars => [Bucket!Next]_Bucket!vars
  <2> SUFFICES ASSUME TypeOK, [Next]_vars
               PROVE  Bucket!Next \/ UNCHANGED <<now, Refilled, grants>>
    BY DEF Bucket!vars
  <2>1. CASE UNCHANGED <<now, tokens, updatedAt, grants>>
    BY <2>1 DEF Refilled
  <2>2. ASSUME NEW c \in Callers, Acquire(c)
        PROVE  Bucket!Next \/ UNCHANGED <<now, Refilled, grants>>
    BY <2>1, <2>2, TryTakeRefines DEF Acquire, Bucket!Next
  <2>3. ASSUME NEW c \in Callers, Cancel(c)
        PROVE  Bucket!Next \/ UNCHANGED <<now, Refilled, grants>>
    BY <2>1, <2>3 DEF Cancel
  <2>4. CASE TakeLock
    <3>1. Head(queue) \in Callers
      BY <2>4 DEF TypeOK, TakeLock
    <3> QED
      BY <2>4, <3>1, TryTakeRefines DEF TakeLock, Bucket!Next
  <2>5. CASE WakeUp
    BY <2>5, TryTakeRefines DEF TypeOK, WakeUp, Bucket!Next
  <2>6. CASE Tick
    <3>1. /\ now' = now + 1 /\ tokens' = tokens /\ updatedAt' = updatedAt
          /\ grants' = grants
      BY <2>6 DEF Tick
    <3>2. Refilled' = Least(Capacity, tokens + (now - updatedAt) + 1)
      BY <3>1 DEF TypeOK, Refilled
    <3>3. Refilled' = Least(Capacity, Refilled + 1)
      BY <3>2, LimiterAssumption DEF TypeOK, Refilled, Least
    <3> QED
      BY <3>1, <3>3 DEF Bucket!Next, Bucket!Tick, Bucket!Least, Least
  <2>7. CASE UNCHANGED vars
    BY <2>1, <2>7 DEF vars
  <2> QED
    BY <2>2, <2>3, <2>4, <2>5, <2>6, <2>7 DEF Next
<1> QED
  BY <1>1, <1>2, TypeCorrect, PTL DEF Spec, RefinesBucket, Bucket!Spec

----------------------------------------------------------------------------
(* The wait.  BoundedWait compares a deadline, fixed on arrival, with the  *)
(* clock; what holds from step to step is that every place in line keeps a *)
(* turn for each caller ahead of it, a turn being the time to refill one   *)
(* token and the loop's lateness.                                          *)

Turns(k) == k * (Cost + Late)

\* When the lock is free again: now, or at the latest when the sleeper may still sleep.
Horizon == IF sleeper = NoCaller THEN now ELSE wakeAt + Late

\* From h on, the deadlines d leave a turn for every place in the queue q.
InTime(h, q, d) == \A k \in 1..Len(q) : h + Turns(k) <= d[q[k]]

WaitInv ==
  /\ sleeper # NoCaller => /\ now <= wakeAt + Late
                           /\ wakeAt <= now + Cost
                           /\ wakeAt + Late <= due[sleeper]
  /\ InTime(Horizon, queue, due)

\* Turns add up.
LEMMA TurnsAddUp ==
  ASSUME NEW k \in Nat
  PROVE  Turns(k) \in Nat /\ Turns(k + 1) = Turns(k) + (Cost + Late)
<1>1. Cost + Late \in Nat
  BY LimiterAssumption
<1>2. Turns(k) \in Nat
  BY <1>1, ProductType DEF Turns
<1>3. \A n \in Nat : (k + 1) * n = k * n + n
  OBVIOUS
<1> QED
  BY <1>1, <1>2, <1>3 DEF Turns

\* One place in line is one turn.
LEMMA OneTurn == Turns(0) = 0 /\ Turns(1) = Cost + Late /\ Cost + Late \in Nat
<1>1. Cost + Late \in Nat
  BY LimiterAssumption
<1>2. \A n \in Nat : 0 * n = 0 /\ 1 * n = n
  OBVIOUS
<1> QED
  BY <1>1, <1>2 DEF Turns

\* The first in line has its turn, and everybody else moves up by one.
LEMMA InTimeServed ==
  ASSUME NEW q \in Seq(Callers), q # <<>>, NEW d \in [Callers -> Nat], NEW h \in Nat,
         InTime(h, q, d)
  PROVE  /\ h + (Cost + Late) <= d[Head(q)]
         /\ InTime(h + (Cost + Late), Tail(q), d)
<1>1. /\ Len(q) \in Nat /\ Len(q) > 0 /\ Head(q) = q[1]
      /\ Len(Tail(q)) = Len(q) - 1 /\ \A k \in 1..Len(Tail(q)) : Tail(q)[k] = q[k + 1]
  BY EmptySeq, LenProperties, HeadTailProperties
<1>2. h + Turns(1) <= d[q[1]]
  BY <1>1 DEF InTime
<1>3. ASSUME NEW k \in 1..Len(Tail(q))
      PROVE  (h + (Cost + Late)) + Turns(k) <= d[Tail(q)[k]]
  <2>1. k + 1 \in 1..Len(q) /\ k \in Nat /\ Tail(q)[k] = q[k + 1]
    BY <1>1
  <2>2. h + Turns(k + 1) <= d[q[k + 1]]
    BY <2>1 DEF InTime
  <2>3. Turns(k) \in Nat /\ Turns(k + 1) = Turns(k) + (Cost + Late)
    BY <2>1, TurnsAddUp
  <2>4. d[q[k + 1]] \in Nat
    BY <2>1, ElementOfSeq
  <2> QED
    BY <2>1, <2>2, <2>3, <2>4, OneTurn
<1> QED
  BY <1>1, <1>2, <1>3, OneTurn DEF InTime

\* A lock that is free earlier leaves everybody in time.
LEMMA InTimeEarlier ==
  ASSUME NEW q \in Seq(Callers), NEW d \in [Callers -> Nat], NEW h \in Nat,
         InTime(h, q, d), NEW g \in Nat, g <= h
  PROVE  InTime(g, q, d)
<1> SUFFICES ASSUME NEW k \in 1..Len(q) PROVE g + Turns(k) <= d[q[k]]
  BY DEF InTime
<1>1. h + Turns(k) <= d[q[k]] /\ d[q[k]] \in Nat
  BY ElementOfSeq DEF InTime
<1>2. Turns(k) \in Nat
  BY TurnsAddUp
<1> QED
  BY <1>1, <1>2

\* A newcomer's deadline is for the end of the line.
LEMMA InTimeJoined ==
  ASSUME NEW q \in Seq(Callers), NEW d \in [Callers -> Nat], NEW h \in Nat,
         InTime(h, q, d), NEW c \in Callers, \A k \in 1..Len(q) : q[k] # c,
         NEW v \in Nat, h + Turns(Len(q) + 1) <= v
  PROVE  InTime(h, Append(q, c), [d EXCEPT ![c] = v])
<1> DEFINE r == Append(q, c)
<1>1. /\ Len(q) \in Nat /\ Len(r) = Len(q) + 1 /\ r[Len(q) + 1] = c
      /\ \A k \in 1..Len(q) : r[k] = q[k]
  BY LenProperties, AppendProperties
<1> HIDE DEF r
<1>2. ASSUME NEW k \in 1..Len(r) PROVE h + Turns(k) <= [d EXCEPT ![c] = v][r[k]]
  <2>1. CASE k = Len(q) + 1
    BY <1>1, <2>1
  <2>2. CASE k # Len(q) + 1
    <3>1. k \in 1..Len(q) /\ r[k] = q[k] /\ q[k] # c
      BY <1>1, <2>2
    <3>2. q[k] \in Callers
      BY <3>1, ElementOfSeq
    <3> QED
      BY <3>1, <3>2 DEF InTime
  <2> QED
    BY <2>1, <2>2
<1> QED
  BY <1>2 DEF InTime, r

\* Taking one element out moves those behind it up by one.
LEMMA WithoutElements ==
  ASSUME NEW S, NEW s \in Seq(S), NEW i \in 1..Len(s)
  PROVE  /\ Len(Without(s, i)) = Len(s) - 1
         /\ \A k \in 1..(Len(s) - 1) : Without(s, i)[k] = IF k < i THEN s[k] ELSE s[k + 1]
<1> DEFINE before == SubSeq(s, 1, i - 1)
           after == SubSeq(s, i + 1, Len(s))
<1>1. /\ Len(s) \in Nat
      /\ \A k \in 1..(i - 1) : s[k] \in S
      /\ \A k \in (i + 1)..Len(s) : s[k] \in S
  BY LenProperties, ElementOfSeq
<1>2. /\ before \in Seq(S) /\ Len(before) = i - 1
      /\ \A k \in 1..(i - 1) : before[k] = s[k]
  BY <1>1, SubSeqProperties
<1>3. /\ after \in Seq(S) /\ Len(after) = Len(s) - i
      /\ \A k \in 1..(Len(s) - i) : after[k] = s[k + i]
  BY <1>1, SubSeqProperties
<1>4. Without(s, i) = before \o after
  BY DEF Without
<1> HIDE DEF before, after
<1>5. Len(before \o after) = Len(s) - 1
  <2>1. Len(before \o after) = Len(before) + Len(after)
    BY <1>2, <1>3, ConcatProperties
  <2> QED
    BY <1>1, <1>2, <1>3, <2>1
<1>6. ASSUME NEW k \in 1..(Len(s) - 1)
      PROVE  (before \o after)[k] = IF k < i THEN s[k] ELSE s[k + 1]
  <2>1. (before \o after)[k] = IF k <= i - 1 THEN before[k] ELSE after[k - (i - 1)]
    <3>1. k \in 1..(Len(before) + Len(after))
      BY <1>1, <1>2, <1>3
    <3> QED
      BY <1>2, <1>3, <3>1, ConcatProperties
  <2>2. CASE k < i
    BY <1>1, <1>2, <2>1, <2>2
  <2>3. CASE ~(k < i)
    <3>1. k - (i - 1) \in 1..(Len(s) - i) /\ k - (i - 1) + i = k + 1
      BY <1>1, <2>3
    <3> QED
      BY <1>3, <2>1, <2>3, <3>1
  <2> QED
    BY <2>2, <2>3
<1> QED
  BY <1>4, <1>5, <1>6

\* A waiter that leaves the line makes nobody late.
LEMMA InTimeLeft ==
  ASSUME NEW q \in Seq(Callers), NEW d \in [Callers -> Nat], NEW h \in Nat,
         InTime(h, q, d), NEW i \in 1..Len(q)
  PROVE  InTime(h, Without(q, i), d)
<1>1. Len(q) \in Nat
  BY LenProperties
<1>2. /\ Len(Without(q, i)) = Len(q) - 1
      /\ \A k \in 1..(Len(q) - 1) : Without(q, i)[k] = IF k < i THEN q[k] ELSE q[k + 1]
  BY WithoutElements
<1> SUFFICES ASSUME NEW k \in 1..(Len(q) - 1) PROVE h + Turns(k) <= d[Without(q, i)[k]]
  BY <1>2 DEF InTime
<1>3. k \in 1..Len(q) /\ k + 1 \in 1..Len(q) /\ k \in Nat
  BY <1>1
<1>4. h + Turns(k) <= d[q[k]] /\ h + Turns(k + 1) <= d[q[k + 1]]
  BY <1>3 DEF InTime
<1>5. Turns(k) \in Nat /\ Turns(k) <= Turns(k + 1) /\ Turns(k + 1) \in Nat
  <2>1. Turns(k) \in Nat /\ Turns(k + 1) = Turns(k) + (Cost + Late) /\ Cost + Late \in Nat
    BY <1>3, TurnsAddUp, OneTurn
  <2> QED
    BY <2>1
<1>6. d[q[k]] \in Nat /\ d[q[k + 1]] \in Nat
  BY <1>3, ElementOfSeq
<1>7. h + Turns(k) <= d[q[k + 1]]
  BY <1>4, <1>5, <1>6
<1>8. Without(q, i)[k] \in {q[k], q[k + 1]}
  BY <1>2
<1> QED
  BY <1>4, <1>7, <1>8

\* A pass by a caller whose deadline is a turn away ends in a grant or in a sleep in time.
LEMMA TryTakeInTime ==
  ASSUME TypeOK, NEW c \in Callers, TryTake(c), now' = now
  PROVE  /\ Horizon' \in Nat /\ Horizon' <= now + (Cost + Late)
         /\ Refilled >= Cost => Horizon' = now
         /\ sleeper' # NoCaller => /\ sleeper' = c /\ Horizon' = wakeAt' + Late
                                   /\ now <= wakeAt' + Late /\ wakeAt' <= now + Cost
<1>1. Refilled \in 0..Capacity /\ now \in Nat
  BY LimiterAssumption DEF TypeOK, Refilled, Least
<1>2. CASE Refilled >= Cost
  <2>1. sleeper' = NoCaller /\ Horizon' = now
    BY <1>2 DEF TryTake, Horizon
  <2> QED
    BY <1>1, <2>1, OneTurn
<1>3. CASE ~(Refilled >= Cost)
  <2>1. sleeper' = c /\ sleeper' # NoCaller /\ wakeAt' = now + (Cost - Refilled)
    BY <1>3, LimiterAssumption DEF TryTake
  <2>2. Horizon' = wakeAt' + Late
    BY <2>1 DEF Horizon
  <2> QED
    BY <1>1, <1>3, <2>1, <2>2, LimiterAssumption
<1> QED
  BY <1>2, <1>3

\* The state of the wait after a pass, given what the rest of the line is left.
LEMMA PassKeepsWait ==
  ASSUME TypeOK, NEW c \in Callers, TryTake(c), now' = now,
         due' \in [Callers -> Nat], queue' \in Seq(Callers),
         now + (Cost + Late) <= due'[c],
         InTime(now + (Cost + Late), queue', due')
  PROVE  WaitInv'
<1>1. /\ Horizon' \in Nat /\ Horizon' <= now + (Cost + Late)
      /\ sleeper' # NoCaller => /\ sleeper' = c /\ Horizon' = wakeAt' + Late
                                /\ now <= wakeAt' + Late /\ wakeAt' <= now + Cost
  BY TryTakeInTime
<1>2. InTime(Horizon', queue', due')
  <2>1. now + (Cost + Late) \in Nat
    BY OneTurn DEF TypeOK
  <2> QED
    BY <1>1, <2>1, InTimeEarlier
<1>3. sleeper' # NoCaller => wakeAt' + Late <= due'[sleeper']
  BY <1>1, OneTurn DEF TypeOK
<1> QED
  BY <1>1, <1>2, <1>3 DEF WaitInv

\* Every step keeps the wait, provided the bucket can hold one token.
LEMMA StepKeepsWait ==
  ASSUME Capacity >= Cost, TypeOK, TypeOK', SleepInv, WaitInv, [Next]_vars
  PROVE  WaitInv'
<1> USE DEF TypeOK
<1>0. Horizon \in Nat /\ now <= Horizon
  BY LimiterAssumption DEF Horizon, WaitInv
<1>1. CASE UNCHANGED <<now, sleeper, wakeAt, queue, due>>
  BY <1>1 DEF WaitInv, Horizon, InTime
<1>2. ASSUME NEW c \in Callers, Acquire(c) PROVE WaitInv'
  <2>1. now' = now /\ due' = [due EXCEPT ![c] = now + Turns(Position)] /\ c \notin Waiting
    BY <1>2 DEF Acquire, Turns
  <2>2. CASE sleeper = NoCaller /\ queue = <<>> /\ TryTake(c) /\ queue' = queue
    <3>1. Position = 1
      BY <2>2, EmptySeq DEF Position
    <3>2. now + (Cost + Late) <= due'[c]
      BY <2>1, <3>1, OneTurn
    <3>3. InTime(now + (Cost + Late), queue', due')
      BY <2>2, EmptySeq DEF InTime
    <3> QED
      BY <2>1, <2>2, <3>2, <3>3, PassKeepsWait
  <2>3. CASE /\ sleeper # NoCaller \/ queue # <<>>
             /\ queue' = Append(queue, c)
             /\ UNCHANGED <<tokens, updatedAt, sleeper, wakeAt, naps, grants>>
    <3>1. Len(queue) \in Nat /\ \A k \in 1..Len(queue) : queue[k] # c
      BY <2>1, LenProperties DEF Waiting
    <3>2. sleeper # NoCaller => sleeper # c
      BY <2>1 DEF Waiting
    <3>3. Horizon + Turns(Len(queue) + 1) <= now + Turns(Position)
      <4>1. CASE sleeper = NoCaller
        <5>1. Horizon = now /\ Position = Len(queue) + 1 /\ Len(queue) + 1 \in Nat
          BY <3>1, <4>1 DEF Horizon, Position
        <5>2. Turns(Len(queue) + 1) \in Nat
          BY <5>1, TurnsAddUp
        <5> QED
          BY <5>1, <5>2
      <4>2. CASE sleeper # NoCaller
        <5>1. Horizon = wakeAt + Late /\ wakeAt <= now + Cost
          BY <4>2 DEF Horizon, WaitInv
        <5>2. Len(queue) + 1 \in Nat /\ Position = (Len(queue) + 1) + 1
          BY <3>1, <4>2 DEF Position
        <5>3. /\ Turns(Len(queue) + 1) \in Nat
              /\ Turns(Position) = Turns(Len(queue) + 1) + (Cost + Late)
          BY <5>2, TurnsAddUp
        <5>4. now + Turns(Position) = now + Cost + Late + Turns(Len(queue) + 1)
          BY <5>3, LimiterAssumption
        <5>5. Horizon <= now + Cost + Late /\ Horizon \in Nat
          BY <5>1, LimiterAssumption
        <5> QED
          BY <5>3, <5>4, <5>5, LimiterAssumption
      <4> QED
        BY <4>1, <4>2
    <3>4. now + Turns(Position) \in Nat
      <4>1. Position \in Nat
        BY <3>1 DEF Position
      <4>2. Turns(Position) \in Nat
        BY <4>1, TurnsAddUp
      <4>3. now \in Nat
        OBVIOUS
      <4> HIDE DEF TypeOK
      <4> QED
        BY <4>2, <4>3
    <3>5. InTime(Horizon, queue', due')
      BY <1>0, <2>1, <2>3, <3>1, <3>3, <3>4, InTimeJoined DEF WaitInv
    <3>6. sleeper # NoCaller => due'[sleeper] = due[sleeper]
      BY <2>1, <3>2
    <3> QED
      BY <2>1, <2>3, <3>5, <3>6 DEF WaitInv, Horizon
  <2> QED
    BY <1>2, <2>2, <2>3 DEF Acquire
<1>3. ASSUME NEW c \in Callers, Cancel(c) PROVE WaitInv'
  <2>1. now' = now /\ due' = due
    BY <1>3 DEF Cancel
  <2>2. CASE sleeper' = NoCaller /\ queue' = queue
    <3>1. Horizon' = now
      BY <2>1, <2>2 DEF Horizon
    <3>2. InTime(now, queue, due)
      BY <1>0, InTimeEarlier DEF WaitInv
    <3> QED
      BY <2>1, <2>2, <3>1, <3>2 DEF WaitInv
  <2>3. ASSUME NEW i \in 1..Len(queue), queue' = Without(queue, i),
               UNCHANGED <<sleeper, wakeAt>>
        PROVE  WaitInv'
    <3>1. InTime(Horizon, Without(queue, i), due)
      BY <1>0, InTimeLeft DEF WaitInv
    <3> QED
      BY <2>1, <2>3, <3>1 DEF WaitInv, Horizon
  <2> QED
    BY <1>3, <2>2, <2>3 DEF Cancel
<1>4. CASE TakeLock
  <2>1. /\ sleeper = NoCaller /\ queue # <<>> /\ TryTake(Head(queue))
        /\ queue' = Tail(queue) /\ now' = now /\ due' = due
    BY <1>4 DEF TakeLock
  <2>2. Head(queue) \in Callers
    BY <2>1, HeadTailProperties
  <2>3. InTime(now, queue, due)
    BY <2>1 DEF WaitInv, Horizon
  <2>4. /\ now + (Cost + Late) <= due[Head(queue)]
        /\ InTime(now + (Cost + Late), Tail(queue), due)
    BY <2>1, <2>3, InTimeServed
  <2> QED
    BY <2>1, <2>2, <2>4, PassKeepsWait
<1>5. CASE WakeUp
  <2>1. /\ sleeper # NoCaller /\ now >= wakeAt /\ TryTake(sleeper)
        /\ UNCHANGED <<now, queue, due>>
    BY <1>5 DEF WakeUp
  <2>2. Refilled >= Cost
    BY <2>1, LimiterAssumption DEF SleepInv, Refilled, Least
  <2>3. sleeper' = NoCaller /\ Horizon' = now
    BY <2>1, <2>2 DEF TryTake, Horizon
  <2>4. InTime(now, queue, due)
    BY <1>0, InTimeEarlier DEF WaitInv
  <2> QED
    BY <2>1, <2>3, <2>4 DEF WaitInv
<1>6. CASE Tick
  <2>1. /\ now' = now + 1 /\ UNCHANGED <<sleeper, wakeAt, queue, due>>
        /\ sleeper = NoCaller => queue = <<>>
        /\ sleeper # NoCaller => now < wakeAt + Late
    BY <1>6 DEF Tick
  <2>2. CASE sleeper = NoCaller
    BY <2>1, <2>2, EmptySeq DEF WaitInv, InTime
  <2>3. CASE sleeper # NoCaller
    BY <2>1, <2>3, LimiterAssumption DEF WaitInv, Horizon
  <2> QED
    BY <2>2, <2>3
<1>7. CASE UNCHANGED vars
  BY <1>1, <1>7 DEF vars
<1> QED
  BY <1>2, <1>3, <1>4, <1>5, <1>6, <1>7 DEF Next

\* Every caller in line keeps its deadline.
LEMMA WaitInvMeetsDeadlines ==
  ASSUME TypeOK, WaitInv
  PROVE  BoundedWait
<1> SUFFICES ASSUME NEW c \in Waiting PROVE now <= due[c]
  BY DEF BoundedWait
<1>1. now \in Nat /\ now <= Horizon /\ Horizon \in Nat
  BY LimiterAssumption DEF TypeOK, WaitInv, Horizon
<1>2. CASE c = sleeper /\ sleeper # NoCaller
  <2>1. Horizon <= due[c] /\ due[c] \in Nat
    BY <1>2 DEF TypeOK, WaitInv, Horizon
  <2> QED
    BY <1>1, <2>1
<1>3. ASSUME NEW k \in 1..Len(queue), c = queue[k] PROVE now <= due[c]
  <2>1. Horizon + Turns(k) <= due[c]
    BY <1>3 DEF WaitInv, InTime
  <2>2. Turns(k) \in Nat
    BY TurnsAddUp
  <2>3. due[c] \in Nat
    BY <1>3, ElementOfSeq DEF TypeOK
  <2> QED
    BY <1>1, <2>1, <2>2, <2>3
<1> QED
  BY <1>2, <1>3 DEF Waiting

(* Holding the lock while asleep starves nobody: the k-th in line is       *)
(* served within k turns of its arrival, whoever joins, cancels or is      *)
(* resumed late (rate_limiter.py:58-72), provided the bucket can hold a    *)
(* token: otherwise no acquire ever returns.                               *)
THEOREM WaitIsBounded ==
  ASSUME Capacity >= Cost
  PROVE  Spec => []BoundedWait
<1>1. Init => SleepInv /\ WaitInv
  BY EmptySeq DEF Init, SleepInv, WaitInv, InTime
<1>2. TypeOK /\ TypeOK' /\ SleepInv /\ WaitInv /\ [Next]_vars => WaitInv'
  BY StepKeepsWait
<1>3. TypeOK /\ WaitInv => BoundedWait
  BY WaitInvMeetsDeadlines
<1>4. Spec => []SleepInv
  BY SleepInvariant
<1> QED
  BY <1>1, <1>2, <1>3, <1>4, TypeCorrect, PTL DEF Spec

============================================================================
