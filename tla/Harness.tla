------------------------------- MODULE Harness -------------------------------
(***************************************************************************)
(* One run of the evaluation driver (eval/run_eval.py) and of fdebenchkit's*)
(* run_scoring: the mock tool service is started or found running, reset,  *)
(* the endpoint preflighted, then each task probed, warmed up, called for  *)
(* all its items, scored and, if too much failed, the others aborted.      *)
(*                                                                         *)
(* The endpoint under evaluation may do anything: while it works on an     *)
(* item it calls that item's tools, and a request the harness has given up *)
(* may still be worked on ("stray").  How call_endpoint spreads the items  *)
(* over its slots is module Caller; how an answer is scored is in          *)
(* TriageScore, ExtractScore and WorkflowScore: here an answer with its    *)
(* item's id earns One and everything else nothing.                        *)
(***************************************************************************)
EXTENDS MockTools, Weights

CONSTANTS TaskRuns,    (* the tasks in order: the ids of their items, those
                          that are adversarial, whether a mock is needed    *)
          Probes,      (* the names of the probes, in order                 *)
          MaxRetries,  (* retries of a request                              *)
          BreakerRate, (* _TASK_CIRCUIT_BREAKER_ERROR_RATE in percent       *)
          OtherKeys,   (* the scenarios others call, and in what session    *)
          MaxCalls     (* bound: calls of one tool in one scenario          *)

Tasks == DOMAIN TaskRuns
ItemsOf(k) == TaskRuns[k].items
Items == UNION {ToSet(ItemsOf(k)) : k \in Tasks}
Mocked == {k \in Tasks : TaskRuns[k].mocked}
Smoke(k) == Head(ItemsOf(k))

\* What run_probes tries, in this order.
ProbeNames == {"malformed_json", "empty_body", "missing_fields", "huge_payload",
               "wrong_content_type", "concurrent_burst", "slow_followup"}

(* A task has at least one item, among the tasks of a run only the         *)
(* workflows need a mock, and each probe is tried once a task.             *)
ASSUME HarnessAssumption ==
  /\ TaskRuns \in Seq([items : Seq(Items) \ {<<>>}, adversarial : SUBSET Items,
                       mocked : BOOLEAN]) \ {<<>>}
  /\ \A k \in Mocked : ToSet(ItemsOf(k)) \subseteq Scenarios /\ Mocked = {k}
  /\ Probes \in Seq(ProbeNames) \ {<<>>} /\ IsInjective(Probes)
  /\ MaxRetries \in Nat /\ MaxCalls \in Nat \ {0}
  /\ BreakerRate \in 0..100 /\ "own" \in Sessions
  /\ OtherKeys \subseteq Keys /\ \A k \in OtherKeys : k[1] # "own"

VARIABLES
  phase,      \* where the run stands
  port,       \* who listens on the mock's port: "free", "child", "foreign"
  child,      \* the subprocess: "none", "spawned", "up", "dead"
  wiped,      \* whether the last reset left no count (history)
  task,       \* number of the task at hand
  passed,     \* outcomes of its probes so far
  failed,     \* probes that some task failed: the AND of all, negated
  status,     \* of each item: "todo", "flight", "answered", "misnamed", "error"
  attempt,    \* failed attempts of each item
  got,        \* tool responses the item's attempt under way has had, by tool
  stray,      \* items an abandoned request may still be worked on
  summaries,  \* what task_summaries is computed from, by task
  aborted,    \* aborted_task_ids, by number
  code        \* exit status; -1 while running

vars == <<counters, phase, port, child, wiped, task, passed, failed, status, attempt, got,
          stray, summaries, aborted, code>>

service == <<counters, port, child, wiped>>
progress == <<task, passed, failed, summaries, aborted>>
calls == <<status, attempt, got, stray>>

Current == ToSet(ItemsOf(task))
Nothing == [t \in Tools |-> <<>>]

Over == phase \in {"exited", "failed"}
\* Tool calls after the last task are not looked at.
Calling == ~Over /\ phase \notin {"report", "stopping"}

Counts(n) == [k \in Keys |-> [t \in Tools |-> n]]

\* A mock service that someone else started may have counted calls before.
Init == /\ \/ port = "free" /\ counters = Counts(0)
           \/ port = "foreign" /\ \E n \in 0..MaxCalls : counters = Counts(n)
        /\ phase = "start" /\ child = "none" /\ wiped = FALSE
        /\ task = 1 /\ passed = <<>> /\ failed = {} /\ summaries = <<>> /\ aborted = {}
        /\ status = [i \in Items |-> "todo"] /\ attempt = [i \in Items |-> 0]
        /\ got = [i \in Items |-> Nothing] /\ stray = {} /\ code = -1

----------------------------------------------------------------------------
(* The mock service: run_eval.py.                                          *)

\* Without recorded responses, or when the port is taken, nothing is started.
start_mock_service ==
  /\ phase = "start"
  /\ \/ /\ Mocked # {} /\ port = "free"
        /\ child' = "spawned" /\ phase' = "waiting"
     \/ phase' = "reset" /\ UNCHANGED child
  /\ UNCHANGED <<counters, port, wiped, progress, calls, code>>

\* The child listens, with no calls counted, unless the port was taken meanwhile.
ChildBinds ==
  /\ child = "spawned" /\ ~Over
  /\ \/ /\ port = "free"
        /\ port' = "child" /\ child' = "up" /\ reset_all
     \/ /\ port = "foreign"
        /\ child' = "dead" /\ UNCHANGED <<port, counters>>
  /\ UNCHANGED <<phase, wiped, progress, calls, code>>

\* Somebody starts a mock service while the child is starting.
ForeignBinds ==
  /\ phase = "waiting" /\ port = "free"
  /\ port' = "foreign"
  /\ \E n \in 0..MaxCalls : counters' = Counts(n)
  /\ UNCHANGED <<phase, child, wiped, progress, calls, code>>

\* Somebody listens, or 5 seconds are over.
Ready ==
  /\ phase = "waiting"
  /\ phase' = "reset"
  /\ UNCHANGED <<service, progress, calls, code>>

\* A reset that does not arrive is only logged.
reset_mock_services(from, to) ==
  /\ phase = from /\ phase' = to
  /\ \/ /\ port # "free" /\ Mocked # {}
        /\ reset_all /\ wiped' = TRUE
     \/ /\ UNCHANGED counters
        /\ wiped' = (port = "free")
  /\ UNCHANGED <<port, child, progress, calls, code>>

\* Others use the service under a session of their own, and reset that.
OthersCall(key, tool) ==
  /\ Calling /\ port # "free" /\ counters[key][tool] = 0
  /\ call_tool(key, tool)
  /\ UNCHANGED <<phase, port, child, wiped, progress, calls, code>>

OthersReset(key) ==
  /\ Calling /\ port # "free"
  /\ reset_session(key[1]) \/ reset_scenario(key)
  /\ UNCHANGED <<phase, port, child, wiped, progress, calls, code>>

----------------------------------------------------------------------------
(* The endpoint calls tools.                                               *)

\* For an item's attempt under way.
Draw(i, tool) ==
  /\ phase = "calls" /\ status[i] = "flight" /\ port # "free" /\ task \in Mocked
  /\ counters[<<"own", i>>][tool] < MaxCalls
  /\ call_tool(<<"own", i>>, tool)
  /\ got' = [got EXCEPT ![i][tool] =
               Append(@, Response(i, tool, counters[<<"own", i>>][tool]))]
  /\ UNCHANGED <<phase, port, child, wiped, progress, status, attempt, stray, code>>

\* For a preflight, probe or warm-up request, or one the harness gave up.
DrawUnheard(i, tool) ==
  /\ Calling /\ port # "free"
  /\ \/ i \in stray
     \/ phase \in {"preflight", "probes", "warmup"} /\ task \in Mocked /\ i = Smoke(task)
  /\ counters[<<"own", i>>][tool] < MaxCalls
  /\ call_tool(<<"own", i>>, tool)
  /\ UNCHANGED <<phase, port, child, wiped, progress, calls, code>>

\* A request with the smoke item may be given up and still be worked on.
Abandons == \/ UNCHANGED stray
            \/ task \in Mocked /\ stray' = stray \cup {Smoke(task)}

----------------------------------------------------------------------------
(* run_scoring: runner.py.                                                 *)

\* The task's smoke request is answered 200 with an object that has its keys.
PreflightPasses ==
  /\ phase = "preflight"
  /\ IF task < Len(TaskRuns) THEN task' = task + 1 /\ UNCHANGED phase
                             ELSE task' = 1 /\ phase' = "reset again"
  /\ UNCHANGED <<service, passed, failed, summaries, aborted, calls, code>>

\* PreflightValidationError: main exits at once, the child is not stopped.
PreflightFails ==
  /\ phase = "preflight"
  /\ phase' = "failed" /\ code' = 1
  /\ UNCHANGED <<service, progress, calls>>

\* A probe's reply: no reply, a status, and whether a 200 has a JSON body; the
\* burst's is how many of its 20 requests were answered with a 200 and JSON.
ReplyTo(probe) ==
  IF probe = "concurrent_burst" THEN {0, 17, 18, 20}
  ELSE {"none", "200", "200 no json", "400", "413", "415", "422", "500"}

BURST_MIN_PASS == 18

passes(probe, reply) ==
  CASE probe \in {"malformed_json", "empty_body"} -> reply \in {"400", "422"}
    [] probe = "missing_fields"     -> reply \in {"400", "422", "200"}
    [] probe = "huge_payload"       -> reply \in {"200", "200 no json", "400", "413", "422"}
    [] probe = "wrong_content_type" -> reply \in {"415", "400", "422", "200"}
    [] probe = "concurrent_burst"   -> reply >= BURST_MIN_PASS
    [] probe = "slow_followup"      -> reply = "200"

\* The next probe.
run_probe ==
  /\ phase = "probes" /\ Len(passed) < Len(Probes)
  /\ LET probe == Probes[Len(passed) + 1]
     IN  \E reply \in ReplyTo(probe) :
           /\ passed' = Append(passed, passes(probe, reply))
           /\ failed' = IF passes(probe, reply) THEN failed ELSE failed \cup {probe}
  /\ Abandons
  /\ UNCHANGED <<service, phase, task, summaries, aborted, status, attempt, got, code>>

ProbesDone ==
  /\ phase = "probes" /\ Len(passed) = Len(Probes)
  /\ phase' = "warmup"
  /\ UNCHANGED <<service, progress, calls, code>>

\* The warm-up's answers are not looked at.
WarmedUp ==
  /\ phase = "warmup"
  /\ phase' = "calls"
  /\ Abandons
  /\ UNCHANGED <<service, progress, status, attempt, got, code>>

Begin(i) ==
  /\ phase = "calls" /\ i \in Current /\ status[i] = "todo"
  /\ status' = [status EXCEPT ![i] = "flight"]
  /\ UNCHANGED <<service, progress, phase, attempt, got, stray, code>>

\* Item i has its result.
Ends(i, outcome) == /\ status' = [status EXCEPT ![i] = outcome]
                    /\ attempt' = [attempt EXCEPT ![i] = 0]
                    /\ got' = [got EXCEPT ![i] = Nothing]

\* An answer, which may have another id or none; or an error that is not retried.
EndItem(i, outcome) ==
  /\ phase = "calls" /\ i \in Current /\ status[i] = "flight"
  /\ Ends(i, outcome)
  /\ UNCHANGED <<service, progress, phase, stray, code>>

\* One attempt too many.
AttemptsInclusive(i) == attempt[i] <= MaxRetries
AttemptsLeft(i) == attempt[i] < MaxRetries

\* A timeout or a 5xx: the next attempt, or an error when there is none left.
Falter(i) ==
  /\ phase = "calls" /\ i \in Current /\ status[i] = "flight"
  /\ \/ UNCHANGED stray
     \/ task \in Mocked /\ stray' = stray \cup {i}
  /\ IF AttemptsLeft(i)
     THEN /\ attempt' = [attempt EXCEPT ![i] = @ + 1]
          /\ got' = [got EXCEPT ![i] = Nothing]
          /\ UNCHANGED status
     ELSE Ends(i, "error")
  /\ UNCHANGED <<service, progress, phase, code>>

\* The caller's breaker, opened by errors of other items, skips this one.
Skip(i) ==
  /\ phase = "calls" /\ i \in Current /\ status[i] = "todo"
  /\ \E j \in Current : status[j] = "error"
  /\ status' = [status EXCEPT ![i] = "error"]
  /\ UNCHANGED <<service, progress, phase, attempt, got, stray, code>>

\* A 200 that is no JSON, or no object, raises through run_scoring and main.
Crash(i) ==
  /\ phase = "calls" /\ status[i] = "flight" /\ i \in Current
  /\ phase' = "failed" /\ code' = 1
  /\ UNCHANGED <<service, progress, calls>>

----------------------------------------------------------------------------
TooManyErrors ==
  100 * Cardinality({i \in Current : status[i] = "error"}) > BreakerRate * Cardinality(Current)

AllEnded == phase = "calls" /\ \A i \in Current : status[i] \notin {"todo", "flight"}
Later == {k \in Tasks : k > task}

\* What the task's summary is computed from: its results and its probes.
Outcome == [status |-> Restrict(status, Current), probes |-> passed]

\* The call results are the iteration's own.
NewCalls == status' = [i \in Items |-> "todo"] /\ UNCHANGED <<attempt, got, stray>>

\* Out of the loop, or on to the next task.
LeaveLoop == phase' = "report" /\ UNCHANGED <<task, passed>>
NextTask == IF Later = {} THEN LeaveLoop
            ELSE phase' = "probes" /\ task' = task + 1 /\ passed' = <<>>

\* Leaving the loop before the failing task's summary is kept.
ScoreTaskBreakingFirst ==
  /\ AllEnded
  /\ NewCalls
  /\ \/ TooManyErrors /\ LeaveLoop /\ aborted' = Later /\ UNCHANGED summaries
     \/ ~TooManyErrors /\ NextTask /\ summaries' = Append(summaries, Outcome)
        /\ UNCHANGED aborted
  /\ UNCHANGED <<service, failed, code>>

(* The task's summary; then the next task, unless it was the last one or   *)
(* too many of its items failed.                                           *)
ScoreTask ==
  /\ AllEnded
  /\ NewCalls
  /\ \/ TooManyErrors /\ LeaveLoop /\ aborted' = Later
     \/ ~TooManyErrors /\ NextTask /\ UNCHANGED aborted
  /\ summaries' = Append(summaries, Outcome)
  /\ UNCHANGED <<service, failed, code>>

\* A scorer that cannot read an answer raises through run_scoring and main.
ScorerCrashes ==
  /\ AllEnded /\ \E i \in Current : status[i] \in {"answered", "misnamed"}
  /\ phase' = "failed" /\ code' = 1
  /\ UNCHANGED <<service, progress, calls>>

----------------------------------------------------------------------------
\* The summary of task k.  All answers are alike in time and in model; a failed
\* call is scored as an answer that has nothing but its item's id.
Thresholds == [best50 |-> 500, worst50 |-> 2000, best95 |-> 1500, worst95 |-> 4200]
Having(k, items, outcomes) ==
  Cardinality({i \in items : summaries[k].status[i] \in outcomes})

summary(k) ==
  LET items == ToSet(ItemsOf(k))
      adversarial == TaskRuns[k].adversarial
      Earned(some) == Frac(Having(k, some, {"answered"}), Cardinality(some))
      results == [n \in DOMAIN ItemsOf(k) |->
                    [ok |-> summaries[k].status[ItemsOf(k)[n]] # "error",
                     ms |-> 1000, model |-> <<"gpt-5">>]]
      passing == api_resilience(summaries[k].probes)
      efficiency == compute_efficiency(compute_latency_score(results, Thresholds),
                                       cost_score(results))
      accuracy == Earned(IF adversarial = {} THEN items ELSE adversarial)
  IN  [tier1 |-> compute_tier1(Earned(items), efficiency,
                               compute_robustness(accuracy, passing)),
       api_resilience |-> passing]

\* Over the tasks that ran: the mean is the composite, the counts are sums.
Ran == DOMAIN summaries
Counted(outcomes) == SumFunction([k \in Ran |-> Having(k, ToSet(ItemsOf(k)), outcomes)])
total == compute_fdebench_composite([k \in Ran |-> summary(k).tier1])
items_scored == Counted({"answered", "error"})
items_errored == Counted({"misnamed"})
resilience == Frac(Len(Probes) - Cardinality(failed), Len(Probes))

\* A failed call counts as scored: nothing is scored only when every answer has a wrong id.
ExitCode == IF items_scored = 0 THEN 1 ELSE 0

\* An exit status given before the child is seen to.
stop_unless_failed ==
  /\ phase = "report"
  /\ IF child \in {"none", "dead"} \/ items_scored = 0
     THEN phase' = "exited" /\ code' = ExitCode
     ELSE phase' = "stopping" /\ UNCHANGED code
  /\ UNCHANGED <<service, progress, calls>>

\* The report is printed and the child, if there is one, told to end.
stop_mock_service ==
  /\ phase = "report"
  /\ IF child \in {"none", "dead"} THEN phase' = "exited" /\ code' = ExitCode
                                   ELSE phase' = "stopping" /\ UNCHANGED code
  /\ UNCHANGED <<service, progress, calls>>

EndChild == child' = "dead" /\ port' = IF child = "up" THEN "free" ELSE port

ChildEnds ==
  /\ phase = "stopping" /\ child # "dead"
  /\ EndChild
  /\ UNCHANGED <<counters, wiped, phase, progress, calls, code>>

\* Waiting for as long as the child takes.
ChildAwaited ==
  /\ phase = "stopping" /\ child = "dead"
  /\ phase' = "exited" /\ code' = ExitCode
  /\ UNCHANGED <<service, progress, calls>>

(* The child has ended, or is killed after 3 seconds.                      *)
ChildStopped ==
  /\ phase = "stopping"
  /\ IF child = "dead" THEN UNCHANGED <<child, port>> ELSE EndChild
  /\ phase' = "exited" /\ code' = ExitCode
  /\ UNCHANGED <<counters, wiped, progress, calls>>

----------------------------------------------------------------------------
Runs == \/ start_mock_service \/ Ready
        \/ reset_mock_services("reset", "preflight")
        \/ PreflightPasses \/ PreflightFails
        \/ reset_mock_services("reset again", "probes")
        \/ run_probe \/ ProbesDone \/ WarmedUp
        \/ \E i \in Items : \/ Begin(i) \/ Falter(i) \/ Skip(i) \/ Crash(i)
                            \/ \E o \in {"answered", "misnamed", "error"} : EndItem(i, o)
        \/ ScoreTask \/ ScorerCrashes \/ stop_mock_service \/ ChildStopped

Next == \/ Runs
        \/ ChildBinds \/ ForeignBinds \/ ChildEnds
        \/ \E tool \in Tools : \/ \E i \in Scenarios : Draw(i, tool) \/ DrawUnheard(i, tool)
                               \/ \E key \in OtherKeys : OthersCall(key, tool)
        \/ \E key \in OtherKeys : OthersReset(key)

(* The harness itself goes on: every wait of its own has a timeout.        *)
Spec == Init /\ [][Next]_vars /\ WF_vars(Runs)

----------------------------------------------------------------------------
(* Properties                                                              *)

TypeOK ==
  /\ counters \in [Keys -> [Tools -> 0..MaxCalls]]
  /\ phase \in {"start", "waiting", "reset", "preflight", "reset again", "probes", "warmup",
                "calls", "report", "stopping", "exited", "failed"}
  /\ port \in {"free", "child", "foreign"} /\ child \in {"none", "spawned", "up", "dead"}
  /\ wiped \in BOOLEAN /\ task \in Tasks
  /\ passed \in Seq(BOOLEAN) /\ Len(passed) <= Len(Probes) /\ failed \subseteq ToSet(Probes)
  /\ status \in [Items -> {"todo", "flight", "answered", "misnamed", "error"}]
  /\ attempt \in [Items -> 0..MaxRetries]
  /\ \A i \in Items : got[i] \in [Tools -> Seq(0..MaxCalls)]
  /\ stray \subseteq Items /\ aborted \subseteq Tasks
  /\ Len(summaries) <= Len(TaskRuns) /\ code \in {-1, 0, 1}

\* The first attempt at an item has had the recorded responses in order.
Replayed(i) ==
  wiped /\ attempt[i] = 0 =>
    \A t \in Tools : got[i][t] = [n \in DOMAIN got[i][t] |-> Response(i, t, n - 1)]

(* Whatever the probes, the other items and other sessions made of the     *)
(* mock service, started here or found running with any counts: the first  *)
(* attempt at an item that is not the task's smoke request gets the tools' *)
(* responses from the first one on, provided the last reset was heard.     *)
LaterItemsReplayed ==
  \A k \in Mocked : \A i \in ToSet(ItemsOf(k)) \ {Smoke(k)} : Replayed(i)

(* "The local mock service replays it byte-for-byte" to each task: here    *)
(* the smoke request too, which the probes and the warm-up sent before.    *)
SmokeReplayed == \A k \in Mocked : Replayed(Smoke(k))

\* Too many items of a summarised task have no answer.
Failing(k) ==
  100 * Having(k, ToSet(ItemsOf(k)), {"error"}) > BreakerRate * Cardinality(ToSet(ItemsOf(k)))

(* A report has at least one task, and every task is in it, either by its  *)
(* summary or as aborted: only the last one summarised may have too many   *)
(* errors, and it has when others were aborted.                            *)
TasksAccounted ==
  phase \in {"report", "stopping", "exited"} =>
    /\ Len(summaries) > 0 /\ aborted = (Len(summaries) + 1)..Len(TaskRuns)
    /\ \A k \in Ran : Failing(k) => k = Len(summaries)
    /\ aborted # {} => Failing(Len(summaries))

(* In the report every task is accounted for, each item of the tasks that  *)
(* ran is counted once, the total lies between their scores, and no task   *)
(* has less resilience than all of them together.                          *)
ReportAccounts ==
  /\ TasksAccounted
  /\ phase \in {"report", "stopping", "exited"} =>
       LET ItemsIn(k) == ToSet(ItemsOf(k))
           tier1s == {summary(k).tier1 : k \in Ran}
       IN  /\ items_scored + items_errored = Cardinality(UNION {{k} \X ItemsIn(k) : k \in Ran})
           /\ Min(tier1s) <= total /\ total <= Max(tier1s)
           /\ \A k \in Ran : resilience <= summary(k).api_resilience

(* A service the run did not start is never stopped, and a run that ends   *)
(* with its report leaves none of its own behind.                          *)
MockLeftAsFound ==
  [][/\ port = "foreign" => port' = "foreign"
     /\ phase' = "exited" => child' \in {"none", "dead"} /\ port' # "child"]_vars

(* The run ends, though the endpoint may never answer, the mock service    *)
(* never listen and its process never end.                                 *)
RunEnds == <>Over

=============================================================================
