------------------------------- MODULE Caller -------------------------------
(***************************************************************************)
(* fdebenchkit's call_endpoint: one task per eval item, a semaphore around *)
(* each item with all its retries, and a circuit breaker that skips the    *)
(* items not begun once Threshold items in a row have failed.              *)
(*                                                                         *)
(* The warm-up before it runs the same _call_single with no breaker and    *)
(* leaves the semaphore full: it is Threshold = 0.                         *)
(***************************************************************************)
EXTENDS Integers, Sequences, FiniteSets

CONSTANTS N,            (* number of items                           *)
          Concurrency,  (* the semaphore's initial value             *)
          MaxRetries,   (* max_retries                               *)
          Threshold     (* circuit_breaker_threshold; 0: no breaker  *)

ASSUME CallerAssumption ==
  /\ N \in Nat /\ MaxRetries \in Nat /\ Threshold \in Nat
  /\ Concurrency \in Nat \ {0}

Items == 1..N

VARIABLES pc,       (* where each item stands                              *)
          attempt,  (* failed attempts of each item                        *)
          free,     (* the semaphore's value                               *)
          line,     (* items waiting for the semaphore, in order           *)
          streak,   (* consecutive_failures[0]                             *)
          breaker,  (* abort_event: open once it is set                    *)
          log,      (* outcomes the breaker has counted, in order (history) *)
          run       (* call_endpoint is calling, has returned or raised    *)

vars == <<pc, attempt, free, line, streak, breaker, log, run>>

Busy  == {i \in Items : pc[i] \in {"flight", "backoff"}}
Fresh == {i \in Items : pc[i] \in {"new", "line"}}
Ended == {i \in Items : pc[i] \in {"ok", "error", "skipped"}}

\* The tasks' first steps all run before any answer can be read.
AllStarted == \A i \in Items : pc[i] # "new"

----------------------------------------------------------------------------
Init == /\ pc = [i \in Items |-> "new"]
        /\ attempt = [i \in Items |-> 0]
        /\ free = Concurrency /\ line = <<>>
        /\ streak = 0 /\ breaker = "shut" /\ log = <<>>
        /\ run = "calling"

\* A breaker whose count a success does not reset.
CountNoReset(outcome) ==
  /\ streak' = IF outcome = "error" /\ Threshold > 0 THEN streak + 1 ELSE streak
  /\ breaker' = IF Threshold > 0 /\ streak' >= Threshold THEN "open" ELSE breaker
  /\ log' = Append(log, outcome)

(* The breaker counts an item's result; a success resets the count, but    *)
(* nothing clears abort_event.                                             *)
Count(outcome) ==
  /\ streak' = IF outcome = "error" /\ Threshold > 0 THEN streak + 1 ELSE 0
  /\ breaker' = IF Threshold > 0 /\ streak' >= Threshold THEN "open" ELSE breaker
  /\ log' = Append(log, outcome)

\* The task of item i makes its first step, the tasks in order.
Start(i) ==
  /\ run = "calling" /\ pc[i] = "new" /\ \A j \in 1..(i - 1) : pc[j] # "new"
  /\ \/ /\ breaker = "open"
        /\ pc' = [pc EXCEPT ![i] = "skipped"]
        /\ UNCHANGED <<free, line>>
     \/ /\ breaker = "shut" /\ free > 0 /\ line = <<>>
        /\ pc' = [pc EXCEPT ![i] = "flight"]
        /\ free' = free - 1
        /\ UNCHANGED line
     \/ /\ breaker = "shut" /\ (free = 0 \/ line # <<>>)
        /\ pc' = [pc EXCEPT ![i] = "line"]
        /\ line' = Append(line, i)
        /\ UNCHANGED free
  /\ UNCHANGED <<attempt, streak, breaker, log, run>>

\* An item that has its slot goes on, whatever became of the breaker meanwhile.
TakeSlotUnchecked(i) ==
  /\ run = "calling" /\ AllStarted
  /\ line # <<>> /\ i = Head(line) /\ free > 0
  /\ line' = Tail(line)
  /\ pc' = [pc EXCEPT ![i] = "flight"]
  /\ free' = free - 1
  /\ UNCHANGED <<attempt, streak, breaker, log, run>>

\* An item that finds the breaker open keeps the slot it was given.
TakeSlotLeaking(i) ==
  /\ run = "calling" /\ AllStarted
  /\ line # <<>> /\ i = Head(line) /\ free > 0
  /\ line' = Tail(line)
  /\ pc' = [pc EXCEPT ![i] = IF breaker = "open" THEN "skipped" ELSE "flight"]
  /\ free' = free - 1
  /\ UNCHANGED <<attempt, streak, breaker, log, run>>

(* The item that has waited longest gets the slot, looks at the breaker    *)
(* once more, and sends its request or gives the slot back.                *)
TakeSlot(i) ==
  /\ run = "calling" /\ AllStarted
  /\ line # <<>> /\ i = Head(line) /\ free > 0
  /\ line' = Tail(line)
  /\ \/ /\ breaker = "open"
        /\ pc' = [pc EXCEPT ![i] = "skipped"]
        /\ UNCHANGED free
     \/ /\ breaker = "shut"
        /\ pc' = [pc EXCEPT ![i] = "flight"]
        /\ free' = free - 1
  /\ UNCHANGED <<attempt, streak, breaker, log, run>>

\* Item i has its result: the slot is released and the breaker counts it.
EndItem(i, outcome) ==
  /\ pc' = [pc EXCEPT ![i] = outcome]
  /\ free' = free + 1
  /\ Count(outcome)
  /\ UNCHANGED <<attempt, line, run>>

\* A 200 with a JSON body of acceptable size.
Succeed(i) ==
  /\ run = "calling" /\ AllStarted /\ pc[i] = "flight"
  /\ EndItem(i, "ok")

(* An error that is not retried: another status, a body too large, or no   *)
(* connection, which a bad URL yields at once, before the others start.    *)
Reject(i) ==
  /\ run = "calling" /\ pc[i] = "flight"
  /\ EndItem(i, "error")

\* A retry that gives its slot back for the length of the backoff.
FalterReleasing(i) ==
  /\ run = "calling" /\ AllStarted /\ pc[i] = "flight"
  /\ \/ /\ attempt[i] < MaxRetries
        /\ attempt' = [attempt EXCEPT ![i] = @ + 1]
        /\ pc' = [pc EXCEPT ![i] = "backoff"]
        /\ free' = free + 1
        /\ UNCHANGED <<line, streak, breaker, log, run>>
     \/ /\ attempt[i] = MaxRetries
        /\ EndItem(i, "error")

(* A timeout, a 5xx or a 429: retried after a backoff, slot in hand, until *)
(* the retries are spent.                                                  *)
Falter(i) ==
  /\ run = "calling" /\ AllStarted /\ pc[i] = "flight"
  /\ \/ /\ attempt[i] < MaxRetries
        /\ attempt' = [attempt EXCEPT ![i] = @ + 1]
        /\ pc' = [pc EXCEPT ![i] = "backoff"]
        /\ UNCHANGED <<free, line, streak, breaker, log, run>>
     \/ /\ attempt[i] = MaxRetries
        /\ EndItem(i, "error")

\* The backoff is over: the request goes out again, the breaker unheard.
Resend(i) ==
  /\ run = "calling" /\ pc[i] = "backoff"
  /\ pc' = [pc EXCEPT ![i] = "flight"]
  /\ UNCHANGED <<attempt, free, line, streak, breaker, log, run>>

(* A 200 whose body is no JSON: resp.json() raises past every handler,     *)
(* through gather, and call_endpoint itself fails with all its results.    *)
BadBody(i) ==
  /\ run = "calling" /\ AllStarted /\ pc[i] = "flight"
  /\ pc' = [pc EXCEPT ![i] = "raised"]
  /\ free' = free + 1
  /\ run' = "raised"
  /\ UNCHANGED <<attempt, line, streak, breaker, log>>

\* gather has all results.
Return ==
  /\ run = "calling" /\ Ended = Items
  /\ run' = "returned"
  /\ UNCHANGED <<pc, attempt, free, line, streak, breaker, log>>

Next == \/ \E i \in Items :
             \/ Start(i) \/ TakeSlot(i) \/ Succeed(i) \/ Reject(i)
             \/ Falter(i) \/ Resend(i) \/ BadBody(i)
        \/ Return

(* The event loop runs what is ready; a request ends by its timeout at the *)
(* latest, a backoff when its sleep is over.                               *)
Fairness ==
  /\ WF_vars(Return)
  /\ \A i \in Items : /\ WF_vars(Start(i)) /\ WF_vars(TakeSlot(i))
                      /\ WF_vars(Falter(i)) /\ WF_vars(Resend(i))

Spec == Init /\ [][Next]_vars /\ Fairness

----------------------------------------------------------------------------
(* Properties                                                              *)

TypeOK ==
  /\ pc \in [Items -> {"new", "line", "flight", "backoff",
                       "ok", "error", "skipped", "raised"}]
  /\ attempt \in [Items -> 0..MaxRetries]
  /\ free \in 0..Concurrency
  /\ line \in Seq(Items)
  /\ streak \in Nat
  /\ breaker \in {"shut", "open"}
  /\ log \in Seq({"ok", "error"})
  /\ run \in {"calling", "returned", "raised"}

(* Never more than Concurrency items under way, retries and backoffs       *)
(* included, and no slot lost on any path out of an item, skipping too.    *)
SlotsConserved == free + Cardinality(Busy) = Concurrency

(* The breaker opens exactly when Threshold results in a row, in the order *)
(* in which the items ended, were failures; concurrent items that end      *)
(* between two failures with success keep it shut.                         *)
BreakerExact ==
  breaker = "open" <=>
    /\ Threshold > 0
    /\ \E k \in 0..(Len(log) - Threshold) :
         \A j \in (k + 1)..(k + Threshold) : log[j] = "error"

(* Once the breaker is open fewer than Concurrency items are under way,    *)
(* and no item that was waiting joins them.                                *)
OpenBreakerDrains ==
  [][breaker = "open" => /\ Cardinality(Busy) < Concurrency
                         /\ Fresh \cap Busy' = {}]_vars

(* call_endpoint ends, though the endpoint may never answer: a slot is     *)
(* never held for longer than the retries of one item.                     *)
CallEnds == <>(run # "calling")

============================================================================
