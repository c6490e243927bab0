----------------------------- MODULE LLMClient -----------------------------
(***************************************************************************)
(* LLMClient._create_with_retry and complete: concurrent LLM calls that    *)
(* share one token bucket and one semaphore, each with an attempt budget,  *)
(* a per-attempt timeout and a backoff.                                    *)
(*                                                                         *)
(* The limiter appears as the bucket RateLimiter implements (TokenBucket)  *)
(* with its first-come-first-served line in front; timers are untimed: a   *)
(* timeout or a backoff may end at any moment.                             *)
(***************************************************************************)
EXTENDS Integers, Sequences, FiniteSets

CONSTANTS Calls,       (* lanes of concurrent complete() calls              *)
          MaxRetries,  (* settings.llm_max_retries                          *)
          Slots,       (* settings.llm_max_concurrency                      *)
          Capacity,    (* of the limiter's bucket, in units                 *)
          Cost         (* units of one token                                *)

ASSUME ClientAssumption ==
  /\ IsFiniteSet(Calls)
  /\ MaxRetries \in Nat
  /\ Slots \in Nat \ {0}
  /\ Capacity \in Nat \ {0} /\ Cost \in Nat \ {0}
  /\ Cost <= Capacity

VARIABLES pc,      (* where each call stands                                *)
          attempt, (* attempts that have ended in failure                   *)
          credit,  (* units in the limiter's bucket                         *)
          gate,    (* calls in AsyncRateLimiter.acquire, in order           *)
          free,    (* the semaphore's value                                 *)
          line,    (* calls waiting for the semaphore, in order             *)
          paid,    (* tokens each call has taken (history)                  *)
          inner    (* HTTP requests the SDK has sent in the current create() *)

vars == <<pc, attempt, credit, gate, free, line, paid, inner>>

Attempts == IF MaxRetries < 1 THEN 1 ELSE MaxRetries

Ended  == {"answered", "failed", "cancelled"}
Active == {"gate", "line", "flight", "backoff"}
InFlight == {c \in Calls : pc[c] = "flight"}

\* The queue s without call c, which is in it at most once.
Leave(s, c) ==
  IF \E i \in 1..Len(s) : s[i] = c
  THEN LET i == CHOOSE i \in 1..Len(s) : s[i] = c
       IN  SubSeq(s, 1, i - 1) \o SubSeq(s, i + 1, Len(s))
  ELSE s

----------------------------------------------------------------------------
Init == /\ pc = [c \in Calls |-> "idle"]
        /\ attempt = [c \in Calls |-> 0]
        /\ credit = Capacity /\ gate = <<>>
        /\ free = Slots /\ line = <<>>
        /\ paid = [c \in Calls |-> 0]
        /\ inner = [c \in Calls |-> 0]

(* complete() is called: a fresh attempt budget, and off to the limiter.   *)
Begin(c) ==
  /\ pc[c] \notin Active
  /\ pc' = [pc EXCEPT ![c] = "gate"]
  /\ attempt' = [attempt EXCEPT ![c] = 0]
  /\ paid' = [paid EXCEPT ![c] = 0]
  /\ inner' = [inner EXCEPT ![c] = 0]
  /\ gate' = Append(gate, c)
  /\ UNCHANGED <<credit, free, line>>

\* The bucket refills, up to its capacity.
Refill ==
  /\ credit < Capacity
  /\ credit' = credit + 1
  /\ UNCHANGED <<pc, attempt, gate, free, line, paid, inner>>

\* create() is entered: the SDK sends its first request.
Launch(c) ==
  /\ pc' = [pc EXCEPT ![c] = "flight"]
  /\ free' = free - 1
  /\ inner' = [inner EXCEPT ![c] = 1]

\* A semaphore that lets in whoever comes, full or not.
PassGateUnbounded(c) ==
  /\ gate # <<>> /\ c = Head(gate) /\ credit >= Cost
  /\ credit' = credit - Cost
  /\ paid' = [paid EXCEPT ![c] = @ + 1]
  /\ gate' = Tail(gate)
  /\ Launch(c)
  /\ UNCHANGED <<attempt, line>>

(* The first call at the gate gets its token and goes on to the semaphore, *)
(* entered in the same step if it is free and nobody waits for it.         *)
PassGate(c) ==
  /\ gate # <<>> /\ c = Head(gate) /\ credit >= Cost
  /\ credit' = credit - Cost
  /\ paid' = [paid EXCEPT ![c] = @ + 1]
  /\ gate' = Tail(gate)
  /\ \/ /\ free > 0 /\ line = <<>>
        /\ Launch(c)
        /\ UNCHANGED line
     \/ /\ free = 0 \/ line # <<>>
        /\ pc' = [pc EXCEPT ![c] = "line"]
        /\ line' = Append(line, c)
        /\ UNCHANGED <<free, inner>>
  /\ UNCHANGED attempt

\* A released semaphore lets in the call that has waited longest.
TakeSlot(c) ==
  /\ line # <<>> /\ c = Head(line) /\ free > 0
  /\ line' = Tail(line)
  /\ Launch(c)
  /\ UNCHANGED <<attempt, credit, gate, paid>>

(* A retryable answer (429, 5xx, a broken connection) inside create(): the *)
(* SDK, built with max_retries, sends the request again by itself.         *)
SdkRetry(c) ==
  /\ pc[c] = "flight"
  /\ inner[c] < 1 + MaxRetries
  /\ inner' = [inner EXCEPT ![c] = @ + 1]
  /\ UNCHANGED <<pc, attempt, credit, gate, free, line, paid>>

\* The locals of a call that has returned or was cancelled are gone.
Forget(c) ==
  /\ attempt' = [attempt EXCEPT ![c] = 0]
  /\ paid' = [paid EXCEPT ![c] = 0]
  /\ inner' = [inner EXCEPT ![c] = 0]

(* create() returns within its timeout.  complete() then parses what came, *)
(* and hands it over or raises LLMError: neither touches what is shared.   *)
Respond(c) ==
  /\ pc[c] = "flight"
  /\ pc' = [pc EXCEPT ![c] = "answered"]
  /\ free' = free + 1
  /\ Forget(c)
  /\ UNCHANGED <<credit, gate, line>>

\* A failed attempt that keeps its slot through the backoff.
FailHolding(c) ==
  /\ pc[c] = "flight"
  /\ attempt' = [attempt EXCEPT ![c] = @ + 1]
  /\ pc' = [pc EXCEPT ![c] = IF attempt[c] + 1 < Attempts THEN "backoff" ELSE "failed"]
  /\ inner' = [inner EXCEPT ![c] = 0]
  /\ UNCHANGED <<free, credit, gate, line, paid>>

\* A budget of one attempt too many.
FailOnceMore(c) ==
  /\ pc[c] = "flight"
  /\ attempt' = [attempt EXCEPT ![c] = @ + 1]
  /\ free' = free + 1
  /\ pc' = [pc EXCEPT ![c] = IF attempt[c] < Attempts THEN "backoff" ELSE "failed"]
  /\ inner' = [inner EXCEPT ![c] = 0]
  /\ UNCHANGED <<credit, gate, line, paid>>

(* create() raises or runs into the timeout: the semaphore is released and *)
(* the call backs off or, its budget spent, raises LLMUnavailableError.    *)
Fail(c) ==
  /\ pc[c] = "flight"
  /\ attempt' = [attempt EXCEPT ![c] = @ + 1]
  /\ free' = free + 1
  /\ pc' = [pc EXCEPT ![c] = IF attempt[c] + 1 < Attempts THEN "backoff" ELSE "failed"]
  /\ inner' = [inner EXCEPT ![c] = 0]
  /\ UNCHANGED <<credit, gate, line, paid>>

\* A retry that goes straight back to the semaphore, past the limiter.
BackoffOverUngated(c) ==
  /\ pc[c] = "backoff"
  /\ pc' = [pc EXCEPT ![c] = "line"]
  /\ line' = Append(line, c)
  /\ UNCHANGED <<attempt, credit, gate, free, paid, inner>>

\* The wait is over and the next attempt starts, at the limiter again.
BackoffOver(c) ==
  /\ pc[c] = "backoff"
  /\ pc' = [pc EXCEPT ![c] = "gate"]
  /\ gate' = Append(gate, c)
  /\ UNCHANGED <<attempt, credit, free, line, paid, inner>>

\* A cancellation that leaves the call in the line for the semaphore.
CancelLingering(c) ==
  /\ pc[c] \in Active
  /\ pc' = [pc EXCEPT ![c] = "cancelled"]
  /\ gate' = Leave(gate, c)
  /\ free' = IF pc[c] = "flight" THEN free + 1 ELSE free
  /\ Forget(c)
  /\ UNCHANGED <<credit, line>>

\* A cancellation that forgets the slot of a call in flight.
CancelLeaking(c) ==
  /\ pc[c] \in Active
  /\ pc' = [pc EXCEPT ![c] = "cancelled"]
  /\ gate' = Leave(gate, c)
  /\ line' = Leave(line, c)
  /\ Forget(c)
  /\ UNCHANGED <<credit, free>>

(* The task is cancelled (the workflow ran out of time) at whatever await  *)
(* it is in.  CancelledError is no Exception: it is not retried.           *)
Cancel(c) ==
  /\ pc[c] \in Active
  /\ pc' = [pc EXCEPT ![c] = "cancelled"]
  /\ gate' = Leave(gate, c)
  /\ line' = Leave(line, c)
  /\ free' = IF pc[c] = "flight" THEN free + 1 ELSE free
  /\ Forget(c)
  /\ UNCHANGED credit

Next == \/ Refill
        \/ \E c \in Calls :
             \/ Begin(c) \/ PassGate(c) \/ TakeSlot(c) \/ SdkRetry(c)
             \/ Respond(c) \/ Fail(c) \/ BackoffOver(c) \/ Cancel(c)

(* The clock runs, the event loop resumes whoever is ready, and the timer  *)
(* of wait_for and the backoff's sleep fire.  Nothing is asked of the      *)
(* upstream: it may never answer.  A positive Retry-After is slept as it   *)
(* comes, so that a backoff is over presumes that it is finite.            *)
Fairness ==
  /\ WF_vars(Refill)
  /\ \A c \in Calls : /\ WF_vars(PassGate(c))
                      /\ WF_vars(TakeSlot(c))
                      /\ WF_vars(Fail(c))
                      /\ WF_vars(BackoffOver(c))

Spec == Init /\ [][Next]_vars /\ Fairness

----------------------------------------------------------------------------
(* Properties                                                              *)

TypeOK ==
  /\ pc \in [Calls -> {"idle"} \cup Active \cup Ended]
  /\ attempt \in [Calls -> 0..Attempts]
  /\ credit \in 0..Capacity
  /\ gate \in Seq(Calls)
  /\ free \in 0..Slots
  /\ line \in Seq(Calls)
  /\ paid \in [Calls -> 0..Attempts]
  /\ inner \in [Calls -> 0..(1 + MaxRetries)]

(* llm_max_concurrency bounds the calls in flight and no slot is lost or   *)
(* released twice, whether an attempt is answered, fails, runs into its    *)
(* timeout or is cancelled at any of its awaits.                           *)
SlotsConserved == free + Cardinality(InFlight) = Slots

(* "Every attempt is gated through the process-global rate limiter": each  *)
(* attempt in flight, retries included, has taken a token of its own.      *)
AttemptsPaid == \A c \in Calls :
  /\ pc[c] = "flight" => paid[c] = attempt[c] + 1
  /\ pc[c] \in {"gate", "backoff"} => paid[c] = attempt[c]

(* LLMUnavailableError means what it says: raised only when the whole      *)
(* budget of attempts has failed, and as soon as it has.                   *)
FailedMeansBudgetSpent == \A c \in Calls :
  /\ pc[c] = "failed" => attempt[c] = Attempts
  /\ pc[c] \in Active => attempt[c] < Attempts

(* A call that has ended stays ended: no late token, late slot or late     *)
(* answer brings back a call that was cancelled or already answered.       *)
NoResurrection ==
  [][\A c \in Calls : pc[c] \in Ended /\ pc'[c] # pc[c] => pc'[c] = "gate"]_vars

(* Every call ends, even if the upstream never answers anybody: timeouts   *)
(* free the slots and the bucket refills for those behind.                 *)
EveryCallEnds == \A c \in Calls : pc[c] \in Active ~> pc[c] \in Ended

(* "every LLM request start is paced": no HTTP request without a token of  *)
(* its own.  The SDK's own retries spend none.                             *)
RequestsPaced == \A c \in InFlight : inner[c] <= 1

============================================================================
