---------------------------- MODULE Orchestrate ----------------------------
(***************************************************************************)
(* One /orchestrate request: the plan, execute, observe loop of            *)
(* executor.orchestrate, the tool client's retries under it, and the       *)
(* endpoint's workflow timeout and fallback envelope above it.             *)
(*                                                                         *)
(* The planner is the LLM: it may return any batch of Batches, any number  *)
(* of times, or fail.  A tool call is known by its name and parameters;    *)
(* the tool service applies it before it answers, and may do so twice when *)
(* an answer is lost and the client sends the request again.               *)
(***************************************************************************)
EXTENDS Integers, Sequences, FiniteSets

CONSTANTS
  Batches,         (* what a planner may return: sequences of [tool, args]       *)
  Statuses,        (* the statuses a planner may report with it                  *)
  Rejected,        (* calls that make no request: unknown tool, malformed        *)
                   (* parameters_json, or an endpoint that is no http(s) URL     *)
  Poison,          (* calls whose parameters httpx refuses to encode (NaN)       *)
  MaxRounds,       (* min(settings.orchestrate_max_rounds, _MAX_PLANNING_ROUNDS) *)
  MaxToolCalls,    (* settings.orchestrate_max_tool_calls                        *)
  MaxToolRetries   (* settings.tool_max_retries                                  *)

ASSUME OrchestrateAssumption ==
  /\ \A b \in Batches : b \in Seq([tool : STRING, args : STRING])
  /\ Statuses \subseteq {"completed", "partial", "failed"}
  /\ MaxRounds \in Nat \ {0} /\ MaxToolCalls \in Nat \ {0}
  /\ MaxToolRetries \in Nat

VARIABLES
  phase,     (* awaiting the planner, executing a batch, or answered             *)
  round,     (* planning rounds begun                                            *)
  seen,      (* seen_call_batches                                                *)
  decision,  (* latest_decision: its status, whether it said workflow_complete,  *)
             (* and whether its batch was cut at the cap (hit_tool_cap)          *)
  planned,   (* the calls of all batches executed so far, in order (history)     *)
  call,      (* where each planned call stands                                   *)
  tries,     (* failed attempts of each planned call                             *)
  effects,   (* how often the tool service has applied it (history)              *)
  steps,     (* the success flag of each executed step, in order                 *)
  answer     (* the response: its status, its steps, and what produced it        *)

vars == <<phase, round, seen, decision, planned, call, tries, effects, steps, answer>>

NoAnswer == [status |-> "none", steps |-> <<>>, by |-> "none"]

\* A call with no result yet ("stuck": waiting without end); one with a result, good or bad.
Pending  == {"ready", "sent", "applied", "backoff", "stuck"}
Resolved == {"ok", "bad"}

\* Indices of the calls of the current batch that have no step yet.
Left == (Len(steps) + 1)..Len(planned)

(* A batch executed all at once, whatever its tools.                       *)
GroupAll == Left

(* The current group: the longest run of calls to one tool, from the first *)
(* call that has no step (itertools.groupby over the batch).               *)
Group == {i \in Left : \A j \in (Len(steps) + 1)..i :
                         planned[j].tool = planned[Len(steps) + 1].tool}

GroupStarted == Left # {} /\ \A i \in Group : call[i] # "ready"

\* A call of the workflow has ended in an exception.
SomeRaised == \E i \in 1..Len(call) : call[i] = "raised"

\* The coroutine is suspended where only the planner's call is awaited.
AwaitingPlanner == phase = "planning"

\* The coroutine is suspended: in the planner's call or in gather.
Awaiting == phase = "planning" \/ (phase = "executing" /\ GroupStarted)

----------------------------------------------------------------------------
Init == /\ phase = "planning" /\ round = 0 /\ seen = {}
        /\ decision = [status |-> "partial", complete |-> FALSE, capped |-> FALSE]
        /\ planned = <<>> /\ call = <<>> /\ tries = <<>> /\ effects = <<>>
        /\ steps = <<>> /\ answer = NoAnswer

\* A final status that trusts the planner even when the loop was cut short.
FinalStatusTrusting(status, natural) == IF steps = <<>> THEN "failed" ELSE status

\* _finalize_status.
FinalStatus(status, natural) ==
  CASE steps = <<>> -> "failed"
    [] steps # <<>> /\ ~natural -> "partial"
    [] OTHER -> status

\* The loop is left and the envelope built.
Finish(status, natural) ==
  /\ phase' = "answered"
  /\ answer' = [status |-> FinalStatus(status, natural), steps |-> steps, by |-> "loop"]

\* A batch that ignores the calls already made when it is cut to the cap.
AdmittedPerBatch(b) == SubSeq(b, 1, IF Len(b) <= MaxToolCalls THEN Len(b) ELSE MaxToolCalls)

\* The part of batch b that the tool-call cap leaves room for.
Admitted(b) ==
  LET room == MaxToolCalls - Len(steps)
  IN SubSeq(b, 1, IF Len(b) <= room THEN Len(b) ELSE room)

(* The planner's decision arrives: a repeated batch that does not complete *)
(* the workflow ends the loop, any other is cut to the cap and begun.      *)
Decide(b, s, complete) ==
  /\ phase = "planning"
  /\ round' = round + 1
  /\ decision' = [status |-> s, complete |-> complete, capped |-> Len(Admitted(b)) < Len(b)]
  /\ \/ /\ ~complete /\ b \in seen
        /\ Finish(s, FALSE)
        /\ UNCHANGED <<seen, planned, call, tries, effects>>
     \/ /\ complete \/ b \notin seen
        /\ seen' = seen \cup {b}
        /\ phase' = "executing"
        /\ LET new == Admitted(b)
               fill(v) == [i \in 1..Len(new) |-> v]
           IN /\ planned' = planned \o new
              /\ call' = call \o fill("ready")
              /\ tries' = tries \o fill(0)
              /\ effects' = effects \o fill(0)
        /\ UNCHANGED answer
  /\ UNCHANGED steps

\* The endpoint answers with _fallback_orchestrate.
Fallback(why) ==
  /\ phase' = "answered"
  /\ answer' = [status |-> "failed", steps |-> <<>>, by |-> why]
  /\ UNCHANGED <<round, seen, decision, planned, tries, effects, steps>>

\* The planner's LLM call fails for good, or returns no valid decision.
PlannerFails ==
  /\ phase = "planning"
  /\ Fallback("planner")
  /\ UNCHANGED call

(* gather starts every call of the group; what cannot be sent fails at     *)
(* once, as a result or, for what httpx cannot encode, as an exception.    *)
Dispatch ==
  /\ phase = "executing" /\ Left # {} /\ ~GroupStarted
  /\ call' = [i \in 1..Len(call) |->
                CASE i \notin Group -> call[i]
                  [] i \in Group /\ planned[i] \in Rejected -> "bad"
                  [] i \in Group /\ planned[i] \in Poison \ Rejected -> "raised"
                  [] OTHER -> "sent"]
  /\ UNCHANGED <<phase, round, seen, decision, planned, tries, effects, steps, answer>>

CallMoves(i, to) == call' = [call EXCEPT ![i] = to]

(* The tool service applies a request; one whose task was cancelled        *)
(* meanwhile may be on the wire still.                                     *)
Apply(i) ==
  /\ call[i] \in {"sent", "wire"}
  /\ CallMoves(i, IF call[i] = "sent" THEN "applied" ELSE "gone")
  /\ effects' = [effects EXCEPT ![i] = @ + 1]
  /\ UNCHANGED <<phase, round, seen, decision, planned, tries, steps, answer>>

\* A 2xx answer to a request that was applied.
Succeed(i) ==
  /\ call[i] = "applied"
  /\ CallMoves(i, "ok")
  /\ UNCHANGED <<phase, round, seen, decision, planned, tries, effects, steps, answer>>

\* Any answer that is not retried counts as a success.
RefuseAsSuccess(i) ==
  /\ call[i] \in {"sent", "applied"}
  /\ CallMoves(i, "ok")
  /\ UNCHANGED <<phase, round, seen, decision, planned, tries, effects, steps, answer>>

\* An answer that is no success and not worth a retry, or a broken connection.
Refuse(i) ==
  /\ call[i] \in {"sent", "applied"}
  /\ CallMoves(i, "bad")
  /\ UNCHANGED <<phase, round, seen, decision, planned, tries, effects, steps, answer>>

(* Where a failed attempt leaves its call.  While there are retries the    *)
(* client sleeps: its own backoff, or the answer's Retry-After as it       *)
(* comes, which is not over for ever if that is infinite, and may raise if *)
(* it is not a number.                                                     *)
AfterFailure(i) ==
  IF tries[i] + 1 > MaxToolRetries THEN {"bad"} ELSE {"backoff", "stuck", "raised"}

\* A retry that is not counted.
FalterUncounted(i) ==
  /\ call[i] \in {"sent", "applied"}
  /\ \E to \in AfterFailure(i) : CallMoves(i, to)
  /\ UNCHANGED <<phase, round, seen, decision, planned, tries, effects, steps, answer>>

(* A timeout, 429 or 5xx, before or after the request was applied: one     *)
(* more try after a sleep, until the retries are spent.                    *)
Falter(i) ==
  /\ call[i] \in {"sent", "applied"}
  /\ tries' = [tries EXCEPT ![i] = @ + 1]
  /\ \E to \in AfterFailure(i) : CallMoves(i, to)
  /\ UNCHANGED <<phase, round, seen, decision, planned, effects, steps, answer>>

(* An answer that comes in drop by drop for ever: httpx times each read,   *)
(* never the whole.                                                        *)
Stall(i) ==
  /\ call[i] \in {"sent", "applied"}
  /\ CallMoves(i, "stuck")
  /\ UNCHANGED <<phase, round, seen, decision, planned, tries, effects, steps, answer>>

\* The backoff is over: the request is sent again.
Resend(i) ==
  /\ call[i] = "backoff"
  /\ CallMoves(i, "sent")
  /\ UNCHANGED <<phase, round, seen, decision, planned, tries, effects, steps, answer>>

\* Each result is recorded as soon as it is in, in the order of arrival.
CollectEager ==
  /\ phase = "executing" /\ GroupStarted
  /\ \E i \in Group : /\ call[i] \in Resolved
                      /\ steps' = Append(steps, call[i] = "ok")
  /\ UNCHANGED <<phase, round, seen, decision, planned, call, tries, effects, answer>>

(* gather returns: one step per call of the group, in the planner's order. *)
Collect ==
  /\ phase = "executing" /\ GroupStarted
  /\ \A i \in Group : call[i] \in Resolved
  /\ steps' = steps \o [k \in 1..Cardinality(Group) |-> call[Len(steps) + k] = "ok"]
  /\ UNCHANGED <<phase, round, seen, decision, planned, call, tries, effects, answer>>

(* gather raises: the exception leaves orchestrate and the endpoint falls  *)
(* back.  The other calls of the group are not cancelled.                  *)
Crash ==
  /\ phase = "executing" /\ SomeRaised
  /\ Fallback("crash")
  /\ UNCHANGED call

(* The batch is done: stop at the cap, when the planner said the workflow  *)
(* is complete, or after the last round; otherwise plan again.             *)
EndBatch ==
  /\ phase = "executing" /\ Left = {}
  /\ \/ /\ decision.capped
        /\ Finish(decision.status, FALSE)
     \/ /\ ~decision.capped /\ decision.complete
        /\ Finish(decision.status, TRUE)
     \/ /\ ~decision.capped /\ ~decision.complete
        /\ Len(steps) >= MaxToolCalls \/ round >= MaxRounds
        /\ Finish(decision.status, FALSE)
     \/ /\ ~decision.capped /\ ~decision.complete
        /\ Len(steps) < MaxToolCalls /\ round < MaxRounds
        /\ phase' = "planning"
        /\ UNCHANGED answer
  /\ UNCHANGED <<round, seen, decision, planned, call, tries, effects, steps>>

\* A timeout that answers but lets the workflow's tool calls run on.
TimeOutDetached ==
  /\ Awaiting
  /\ Fallback("timeout")
  /\ UNCHANGED call

(* The client's side of every call that is under way is gone; a request    *)
(* already sent may still reach the tool service.                          *)
CancelCalls ==
  call' = [i \in 1..Len(call) |->
             CASE call[i] = "sent" -> "wire"
               [] call[i] \in {"applied", "backoff", "stuck"} -> "gone"
               [] OTHER -> call[i]]

(* The workflow timeout cancels what the coroutine awaits, and with it the *)
(* calls of the group.  After a call has raised this depends on whether    *)
(* gather knows: if so it is done, its other calls are out of reach, and   *)
(* the coroutine ends by the timeout; if not they are cancelled, and the   *)
(* coroutine ends by the exception.                                        *)
TimeOut ==
  /\ Awaiting
  /\ \/ ~SomeRaised /\ Fallback("timeout") /\ CancelCalls
     \/ SomeRaised /\ Fallback("timeout") /\ UNCHANGED call
     \/ SomeRaised /\ Fallback("crash") /\ CancelCalls

Plan == \E b \in Batches, s \in Statuses, complete \in BOOLEAN : Decide(b, s, complete)

Next == \/ Plan \/ PlannerFails \/ Dispatch \/ Collect \/ Crash \/ EndBatch \/ TimeOut
        \/ \E i \in 1..Len(call) :
             Apply(i) \/ Succeed(i) \/ Refuse(i) \/ Falter(i) \/ Stall(i) \/ Resend(i)

(* The event loop resumes a coroutine that is ready.  A request runs into  *)
(* a timeout of httpx at the latest, or it is stuck; a sleep that is not   *)
(* stuck is over some time.  Nothing is asked of the planner, whose call   *)
(* may last, nor of the workflow timeout.                                  *)
Fairness ==
  /\ WF_vars(Dispatch) /\ WF_vars(Collect) /\ WF_vars(Crash) /\ WF_vars(EndBatch)
  /\ \A i \in 1..(MaxRounds * MaxToolCalls) :
       WF_vars(i <= Len(call) /\ (Falter(i) \/ Resend(i)))

Spec == Init /\ [][Next]_vars /\ Fairness

----------------------------------------------------------------------------
(* Properties                                                              *)

TypeOK ==
  /\ phase \in {"planning", "executing", "answered"}
  /\ round \in 0..MaxRounds
  /\ seen \subseteq Batches
  /\ decision \in [status : {"completed", "partial", "failed"},
                   complete : BOOLEAN, capped : BOOLEAN]
  /\ call \in Seq(Pending \cup Resolved \cup {"raised", "wire", "gone"})
  /\ Len(call) = Len(planned) /\ Len(tries) = Len(planned)
  /\ Len(effects) = Len(planned)
  /\ Len(steps) <= Len(planned) /\ Len(planned) <= MaxToolCalls
  /\ \A i \in 1..Len(tries) : tries[i] \in 0..(MaxToolRetries + 1)
  /\ answer.status \in {"none", "completed", "partial", "failed"}

(* Whatever the order in which parallel calls return, the k-th step tells  *)
(* of the k-th planned call, and nobody is left without a result before.   *)
StepsFollowPlan ==
  \A k \in 1..Len(steps) : call[k] \in Resolved /\ steps[k] = (call[k] = "ok")

(* "cross-tool order is preserved so lookups still complete before the     *)
(* calls that depend on them": no call starts while an earlier call of     *)
(* another tool is without result, its retries included.                   *)
ToolOrder ==
  \A i, j \in 1..Len(call) :
    /\ i < j /\ planned[i].tool # planned[j].tool
    /\ call[j] \notin {"ready"} /\ phase = "executing"
    => call[i] \in Resolved

(* A workflow is reported completed only if the planner said so in its     *)
(* last decision and every call it planned, cut by no cap, has its step.   *)
CompletedIsWhole ==
  answer.status = "completed" =>
    /\ decision.complete /\ decision.status = "completed" /\ ~decision.capped
    /\ Len(answer.steps) = Len(planned)

(* The answer of a loop that ran to its end hides nothing: every request   *)
(* the tool service applied has its step, and a step reported successful   *)
(* was applied.                                                            *)
LoopAnswersAreHonest ==
  answer.by = "loop" =>
    \A i \in 1..Len(planned) :
      /\ effects[i] > 0 => i <= Len(answer.steps)
      /\ i <= Len(answer.steps) => (answer.steps[i] => effects[i] > 0)

(* A retry may apply a call twice, never more often than it was sent, and  *)
(* a call the executor rejected is never applied.                          *)
EffectsBounded ==
  \A i \in 1..Len(effects) :
    /\ effects[i] <= tries[i] + 1
    /\ planned[i] \in Rejected \cup Poison => effects[i] = 0

(* Once the workflow is answered, by the loop, the planner's failure or    *)
(* the workflow timeout, the client sends no request any more: no backoff  *)
(* is left to end and no group to start.  The exception is a workflow one  *)
(* of whose calls has raised: its other calls may run on.                  *)
AnsweredIsSilent ==
  [][phase = "answered" /\ ~SomeRaised =>
       \A i \in 1..Len(call) : call'[i] = "sent" => call[i] = "sent"]_vars

(* The loop's own bounds end it, with no help from the workflow timeout,   *)
(* unless a single wait has no end: of the planner's call, or of one tool  *)
(* call.  Rounds, cap, cycle detection and tool retries are all finite.    *)
(* If the workflow timeout elapses, every workflow is answered, whatever   *)
(* has no end: a call that never returns, a Retry-After that is infinite,  *)
(* a reply that comes in for ever.                                         *)
LoopEnds ==
  /\ \/ <>(phase = "answered")
     \/ <>[](phase = "planning")
     \/ <>(\E i \in 1..Len(call) : call[i] = "stuck")
  /\ WF_vars(TimeOut) => <>(phase = "answered")

(* "Final status ... derived from the recorded step trace, not from the    *)
(* model": the planner states its status before its calls are made, so     *)
(* the trace of a completed workflow holds at least one successful step.   *)
StatusFromTrace ==
  answer.status = "completed" => \E k \in 1..Len(answer.steps) : answer.steps[k]

============================================================================
