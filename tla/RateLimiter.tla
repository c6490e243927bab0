---------------------------- MODULE RateLimiter ----------------------------
(***************************************************************************)
(* AsyncRateLimiter, the token bucket every LLM request is paced through.  *)
(*                                                                         *)
(* Time advances in ticks.  The unit of the bucket is what refills in one  *)
(* tick, so a token is Cost units and rate_per_second is 1/Cost per tick;  *)
(* the arithmetic is exact, so _TOKEN_EPSILON is 0.  Between two awaits a  *)
(* coroutine runs alone: one pass of acquire's loop is one step.  The lock *)
(* is held across a step only by the caller that sleeps off its deficit.   *)
(***************************************************************************)
EXTENDS Integers, Sequences, FiniteSets

CONSTANTS Callers,   (* the coroutines that call acquire()                    *)
          NoCaller,  (* nobody                                                *)
          Capacity,  (* burst budget, in units                                *)
          Cost,      (* units of one token: ticks to refill one               *)
          Late,      (* how late the event loop may resume a sleeper          *)
          MaxTime    (* bound: the clock stops here                           *)

(* The constructor's checks (rate and capacity positive) and no more: it   *)
(* accepts a capacity below one token.                                     *)
ASSUME LimiterAssumption ==
  /\ NoCaller \notin Callers
  /\ Capacity \in Nat \ {0}
  /\ Cost \in Nat \ {0}
  /\ Late \in Nat
  /\ MaxTime \in Nat

VARIABLES now,        (* what time_func returns                                  *)
          tokens,     (* _tokens, as of updatedAt                                *)
          updatedAt,  (* _updated_at                                             *)
          sleeper,    (* the holder of _lock, asleep in acquire, or NoCaller     *)
          wakeAt,     (* when its sleep ends                                     *)
          naps,       (* how many sleeps this acquire has needed (history)       *)
          queue,      (* waiters of _lock, first come first served               *)
          grants,     (* times at which acquire returned (history)               *)
          due         (* the latest time a waiter should be served at (history)  *)

vars == <<now, tokens, updatedAt, sleeper, wakeAt, naps, queue, grants, due>>

----------------------------------------------------------------------------
(* Helpers                                                                 *)

Least(a, b) == IF a <= b THEN a ELSE b

Waiting == {queue[i] : i \in 1..Len(queue)} \cup ({sleeper} \ {NoCaller})

\* A refill that forgets the cap.
RefilledUncapped == tokens + (now - updatedAt)

\* What the bucket holds once the time since updatedAt is accounted for.
Refilled == Least(Capacity, tokens + (now - updatedAt))

\* The sequence s without its i-th element.
Without(s, i) == SubSeq(s, 1, i - 1) \o SubSeq(s, i + 1, Len(s))

\* Callers ahead of a newcomer, and the newcomer itself.
Position == Len(queue) + (IF sleeper = NoCaller THEN 1 ELSE 2)

----------------------------------------------------------------------------
Init == /\ now = 0 /\ tokens = Capacity /\ updatedAt = 0
        /\ sleeper = NoCaller /\ wakeAt = 0 /\ naps = 0
        /\ queue = <<>> /\ grants = <<>>
        /\ due = [c \in Callers |-> 0]

\* A pass that grants without moving updatedAt, so that time counts twice.
TryTakeStale(c) ==
  IF Refilled >= Cost
    THEN /\ tokens' = Refilled - Cost
         /\ sleeper' = NoCaller /\ wakeAt' = 0 /\ naps' = 0
         /\ grants' = Append(grants, now)
         /\ UNCHANGED updatedAt
    ELSE /\ tokens' = Refilled /\ updatedAt' = now
         /\ sleeper' = c /\ wakeAt' = now + (Cost - Refilled)
         /\ naps' = naps + 1
         /\ UNCHANGED grants

\* A pass that sleeps one tick less than the deficit.
TryTakeShort(c) ==
  /\ updatedAt' = now
  /\ IF Refilled >= Cost
       THEN /\ tokens' = Refilled - Cost
            /\ sleeper' = NoCaller /\ wakeAt' = 0 /\ naps' = 0
            /\ grants' = Append(grants, now)
       ELSE /\ tokens' = Refilled
            /\ sleeper' = c /\ wakeAt' = now + (Cost - Refilled) - 1
            /\ naps' = naps + 1
            /\ UNCHANGED grants

(* One pass of acquire's loop, by the caller that holds the lock: refill,  *)
(* then either take a token and release the lock, or sleep for exactly the *)
(* missing fraction with the lock held.                                    *)
TryTake(c) ==
  /\ updatedAt' = now
  /\ IF Refilled >= Cost
       THEN /\ tokens' = Refilled - Cost
            /\ sleeper' = NoCaller /\ wakeAt' = 0 /\ naps' = 0
            /\ grants' = Append(grants, now)
       ELSE /\ tokens' = Refilled
            /\ sleeper' = c /\ wakeAt' = now + (Cost - Refilled)
            /\ naps' = naps + 1
            /\ UNCHANGED grants

(* acquire() is called.  A free lock nobody waits for is taken and the     *)
(* first pass runs at once; otherwise the caller queues for the lock.      *)
Acquire(c) ==
  /\ c \notin Waiting
  /\ due' = [due EXCEPT ![c] = now + Position * (Cost + Late)]
  /\ \/ /\ sleeper = NoCaller /\ queue = <<>>
        /\ TryTake(c)
        /\ UNCHANGED queue
     \/ /\ sleeper # NoCaller \/ queue # <<>>
        /\ queue' = Append(queue, c)
        /\ UNCHANGED <<tokens, updatedAt, sleeper, wakeAt, naps, grants>>
  /\ UNCHANGED now

\* The lock goes to the newest waiter instead of the oldest.
TakeLockNewest ==
  /\ sleeper = NoCaller /\ queue # <<>>
  /\ TryTake(queue[Len(queue)])
  /\ queue' = SubSeq(queue, 1, Len(queue) - 1)
  /\ UNCHANGED <<now, due>>

\* The released lock wakes its oldest waiter, which makes its first pass.
TakeLock ==
  /\ sleeper = NoCaller /\ queue # <<>>
  /\ TryTake(Head(queue))
  /\ queue' = Tail(queue)
  /\ UNCHANGED <<now, due>>

\* The sleep is over: the loop goes round again, the lock still held.
WakeUp ==
  /\ sleeper # NoCaller /\ now >= wakeAt
  /\ TryTake(sleeper)
  /\ UNCHANGED <<now, queue, due>>

(* The caller's task is cancelled (a workflow timed out): a waiter leaves  *)
(* the queue, a sleeper leaves the lock.  Neither has taken a token.       *)
Cancel(c) ==
  /\ \/ /\ c = sleeper
        /\ sleeper' = NoCaller /\ wakeAt' = 0 /\ naps' = 0
        /\ UNCHANGED queue
     \/ /\ \E i \in 1..Len(queue) :
             queue[i] = c /\ queue' = Without(queue, i)
        /\ UNCHANGED <<sleeper, wakeAt, naps>>
  /\ UNCHANGED <<now, tokens, updatedAt, grants, due>>

(* Time passes.  The event loop resumes what is ready: a woken waiter of   *)
(* the lock within the tick, a sleeper at most Late ticks after its time.  *)
Tick ==
  /\ now < MaxTime
  /\ sleeper = NoCaller => queue = <<>>
  /\ sleeper # NoCaller => now < wakeAt + Late
  /\ now' = now + 1
  /\ UNCHANGED <<tokens, updatedAt, sleeper, wakeAt, naps, queue, grants, due>>

Next == \/ \E c \in Callers : Acquire(c) \/ Cancel(c)
        \/ TakeLock
        \/ WakeUp
        \/ Tick

Spec == Init /\ [][Next]_vars

----------------------------------------------------------------------------
(* Properties                                                              *)

TypeOK ==
  /\ now \in Nat
  /\ tokens \in 0..Capacity
  /\ updatedAt \in 0..now
  /\ sleeper \in Callers \cup {NoCaller}
  /\ wakeAt \in Nat
  /\ naps \in Nat
  /\ queue \in Seq(Callers)
  /\ grants \in Seq(Nat)
  /\ due \in [Callers -> Nat]

(* The quota acquire() enforces whatever the order of callers, late timers *)
(* and cancellations: the grants of any window cost no more than a full    *)
(* bucket and what refilled within it.                                     *)
WindowBound ==
  \A i, j \in 1..Len(grants) :
    i <= j => (j - i + 1) * Cost <= Capacity + (grants[j] - grants[i])

(* "a single sleep covers the exact deficit": no acquire() sleeps twice.   *)
SingleSleep == naps <= 1

(* Sleeping with the lock held starves nobody: the k-th in line is served  *)
(* within k token times (and the loop's lateness), cancellations included. *)
BoundedWait == \A c \in Waiting : now <= due[c]

(* The lazily refilled bucket behind a lock implements the bucket that     *)
(* refills by itself: no step grants what that bucket would refuse.        *)
Bucket == INSTANCE TokenBucket WITH credit <- Refilled
RefinesBucket == Bucket!Spec

============================================================================
