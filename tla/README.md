# A TLA+ project for fde-for-a-day

The repository holds a small FastAPI service with three LLM-backed endpoints
(`/triage`, `/extract`, `/orchestrate`) and the benchmark kit that calls and
scores it (`fdebenchkit`, driven by `py/apps/eval/run_eval.py`). These modules
model the parts whose correctness depends on the order of events (what shares
the LLM quota, what executes a workflow, what calls the service and runs the
evaluation) and the pure functions that decide a score.

Paths below are relative to `src/py/apps/sample/` unless they say otherwise;
`K/` stands for `src/py/common/libs/fdebenchkit/src/ms/common/fdebenchkit/`.

## 1. Inventory

Everything runs in one asyncio event loop per process: a coroutine runs alone
between two awaits, and concurrency hazards live at the awaits.

| Component | State it keeps | Operations | Interacts with | What makes it correct |
|---|---|---|---|---|
| Rate limiter `rate_limiter.py` | tokens, time of last refill, a lock and its queue | `acquire` | awaited by every LLM attempt | the quota in every window; one sleep per grant; nobody starves; cancellation loses nothing |
| LLM client `llm_client.py` | limiter, semaphore, HTTP pool (one client per process) | `complete`, `_create_with_retry`, `aclose` | all endpoints call it; it calls Azure through the SDK | slots conserved; every attempt pays a token; exact attempt budget; every call ends |
| Orchestrator `orchestrate/executor.py` | steps, observations, batches seen, latest decision | `orchestrate`, `_execute_batch` | LLM client (planner), tool client | trace in plan order; cross-tool order; honest status; it ends |
| Tool client `orchestrate/tool_client.py` | HTTP pool of `max_tool_concurrency` | `call` | tool services over HTTP | bounded retries; a result, never an exception |
| Triage `triage/` | none | `classify`, `apply_guardrails` | LLM client | must-escalate signals escalate; team agrees with category; filter blocks get the safe default only |
| Extraction `extract/` | none | `extract_document`, `normalize_output` | LLM client | every declared property emitted, extras pruned, numbers coerced |
| Endpoint contract `web.py`, `main.py` | request id context | middleware, `run_endpoint`, fallbacks, workflow timeout | wraps the three tasks | one status and header contract for every failure |
| Caller `K/caller.py` | semaphore, consecutive failures, abort event | `call_endpoint`, `_call_single` | calls the service under test | the breaker opens exactly when it should, drains, and no item is lost |
| Runner `K/runner.py`, probes `K/probes.py` | summaries, aggregate errors | `run_scoring`, preflight, resets | caller, scorers, mock service | every task and item is accounted for; scored calls meet fresh counters |
| Scorers `K/scorers/`, `K/weights.py` | none | pure scoring functions | runner | a better answer never scores less; harmless differences cost nothing; two ways to score one gold agree |
| Mock tools `src/py/apps/eval/mock_tool_service.py` | call counters per task and tool | `call_tool`, resets | called by the service's tool client | a workflow sees the recorded sequence of its own task |
| Eval driver `src/py/apps/eval/run_eval.py` | mock service subprocess | `main` | runner, mock service | the process is stopped; exit code |

Not components of their own: settings, prompts, text helpers, declarative
models, shared thin libraries, and the Pulumi program under `src/infra`.

**Hard behaviours.** Callers queue on a lock whose holder sleeps
(`rate_limiter.py:60-71`); a workflow timeout may cancel a task at any await
(`main.py:142`); two retry loops are nested (`llm_client.py:85` and `:113`); a tool
call that timed out may have been applied (`tool_client.py:113`); parallel calls
return in any order (`executor.py:136`); an exception escapes `gather` and leaves
siblings running; a circuit breaker is read before and after a wait, and not
during retries (`K/caller.py:274-319`); counters of the mock service are shared by
concurrent workflows. `PROJECT.json` lists every hazard at its line.

## 2. Modules

| Module | Models | Actions and the code they stand for |
|---|---|---|
| `TokenBucket` | what the limiter promises: a bucket that refills by itself | `Tick`, `Grant` |
| `RateLimiter` | `AsyncRateLimiter` | `Acquire` a call that finds the lock free or queues; `TakeLock` the next waiter's first pass; `WakeUp` the pass after the sleep; `Cancel` at either await; `Tick` the clock |
| `MCRateLimiter` | the small instance (symmetric callers, bounded clock) | |
| `RateLimiter_proofs` | the theorems about it | |
| `LLMClient` | `complete` and `_create_with_retry` | `Begin`, `PassGate` (limiter, then semaphore), `TakeSlot`, `SdkRetry`, `Respond`, `Fail`, `BackoffOver`, `Cancel`, `Refill` |
| `LLMClient_proofs` | the theorems about it | |
| `Orchestrate` | `orchestrate`, the tool client under it, the endpoint's timeout above it | `Plan`/`Decide`, `PlannerFails`, `Dispatch`, `Apply`, `Succeed`, `Refuse`, `Falter`, `Stall`, `Resend`, `Collect`, `Crash`, `EndBatch`, `TimeOut` |
| `MCOrchestrate` | its small instance | |
| `Orchestrate_proofs` | the theorems about it | |
| `Service` | one request, from the middleware to the reply: `web.py`, the endpoints of `main.py`, `triage/`, the steps of `extract/` | `RejectType`, `Validate`, `Begin` (the task starts), `EndWorkflow`; `TryFails` one attempt of an LLM call, `Useless` and `Mismatch` answers that `complete` refuses, `Decide` a triage decision with guardrails, `Extract` a document and its rendering |
| `Service_proofs` | the theorems about it | |
| `Caller` | `call_endpoint` and `_call_single` | `Start`, `TakeSlot`, `Succeed`, `Reject`, `Falter`, `Resend`, `BadBody`, `Return` |
| `Caller_proofs` | the theorems about it | |
| `MockTools` | the mock tool service | `call_tool`, `reset_scenario`, `reset_all`, `reset_session` on its counters |
| `Harness` | one evaluation: `main` and `run_scoring`, over `MockTools` and `Weights` | the driver: `start_mock_service`, `Ready`, `stop_mock_service`, `ChildStopped`; its child and others at the port: `ChildBinds`, `ForeignBinds`, `ChildEnds`, `OthersCall`, `OthersReset`; the runner: `reset_mock_services`, `PreflightPasses`, `PreflightFails`, `run_probe`, `ProbesDone`, `WarmedUp`, `ScoreTask`, `ScorerCrashes`; an item's requests: `Begin`, `EndItem`, `Falter`, `Skip`, `Crash`; the endpoint's tool calls: `Draw`, `DrawUnheard` |
| `MCHarness` | its small instance | |
| `Harness_proofs` | the theorems about it | |
| `Json` | the values the scorers and the post-processing read | |
| `ScoreUtils` | `K/scorers/_utils.py` | operators named as the functions |
| `Weights` | `K/weights.py`, the percentiles of `K/caller.py`, the price tiers of `K/runner.py` | operators |
| `TriageScore`, `ExtractScore`, `WorkflowScore` | the three scorers | operators |
| `Normalize` | `extract/normalize.py` | operators |
| `Scoring` | an input of a scorer and its outcome | `ScoreTriage` (`score_submission`), `Measure` (the percentiles of `CallResults`, latency, cost and efficiency), `NormalizeDocument` (`normalize_output`), `ScorePlan` (a plan as it stands and in another order), `ScoreTemplate` (a goal by assertions and by its template's checks) |
| `MCScoring` | its small instance, and the two properties of documents that need `ExtractScore` or that the code does not have | |
| `Scores_proofs` | lemmas: finite sums and means, the F1 scores, sorting by rank, percentiles, the weights | |
| `Scoring_proofs` | the theorems about `Scoring` | |

Definitions named after a flaw (`TryTakeShort`, `CancelLeaking`, `GroupAll`, `call_tool_shared`, ...)
are mutations of the definition that follows them. They are used by no
specification; with one in place of the original, the property named in
`PROJECT.json` is violated.

**Abstractions.** In `RateLimiter` a tick is the time in which one unit refills and a
token costs `Cost` units, so the code's float arithmetic is exact and its
epsilon is 0. One pass of `acquire`'s loop is one step, because nothing in it
awaits. `LLMClient` has the limiter as its bucket and first-come-first-served
line (what `RateLimiter` is shown to implement) and untimed timeouts and backoffs: they
may end at any moment, which covers every length. A call lane may begin again
once it has ended. In `Orchestrate` a tool call is its name and parameters; the
planner may return any batch of `Batches`, or fail; the tool service applies a
request before it answers, and the answer may be lost. `Rejected` calls make no
request; `Poison` stands for parameters that `json.loads` accepts and httpx
refuses to encode. A call is `stuck` when its wait has no end: an infinite `Retry-After`,
which `tool_client.py:54` sleeps as it comes, or a reply that comes in drop by drop, as httpx
times each read only. A `Retry-After` that is not a number may raise out of the sleep, as
`Poison` does out of the request. After a call has raised, what a timeout can reach depends
on whether `gather` has learned of it: if so `gather` is done and the call's siblings run on, if not
they are cancelled; `TimeOut` has both. `Caller` has an item's retries as a count and its backoff
untimed. `Service` follows one request, because requests share nothing but the LLM
client; of a signal it keeps where an alarm phrase stands (subject, the 400
characters of the clamped description, the rest of the prompt, or beyond it), of a
decision the category, the team and the escalation, and of a failed call whether
Azure blocked it and whether the exception's text says so. Queueing within the
client is `LLMClient`'s, the workflow `Orchestrate`'s.

`Harness` reduces an answer to whether it has its item's id: it then earns `One`, else
nothing (how answers are scored is the scorers' modules), and all answers are
alike in time and model. A request the harness gave up may go on calling tools for
ever ("stray"); a tool of a scenario is called at most `MaxCalls` times, another
session calls it at most once between its resets. Calls after the last task are not
looked at. A mock service found at the port has made the same number of calls of every
tool. How `call_endpoint` spreads its items is `Caller`'s; `Skip` lets its breaker skip
an item whenever another one failed.

In the scoring modules a text is a sequence of words, each its bare letters and
the form they are written in (plain, with capitals or outer white space, with
punctuation at the edge, with currency or grouping marks): what the normalisations
of the code tell apart. Numbers are whole, except that scores are whole parts of
`One`, rounded down where the code has floats; `One` is chosen so that
the fractions of the instance are exact. The code rounds the parts of a task's score to
one decimal before it adds them; `Weights` does not. A template's expected
outcome is a record with the keys that its checks read. The order of a
multiset or of a dictionary that the code depends on (first of the best) is the
order of the sequence in the model.

Three scoring modules recurse over data. `ExtractScore` does it with `RECURSIVE`
operators, about which nothing can be proved. In `Normalize` and `WorkflowScore` the inner
call is a constant instead (`NormalizeValue` inside `normalize_value`, `ParamMatch` inside
`param_value_match`, ...), and a named assumption says that on the values and schemas
considered (`Values`, `Schemas`, each deeper than its parts) the constant is the operator. By
induction over depth there is one such function, the one the code computes. TLC evaluates the assumption on
every value and schema that occurs in the run, where the constant is the operator itself.

## 3. Runs

| Run | Instance | Shows |
|---|---|---|
| `limiter` | 3 callers, capacity 5, cost 2, lateness 1, 7 ticks | quota, single sleep, bounded wait, refinement of `TokenBucket` |
| `client` | 3 calls, 2 slots, 3 attempts, a bucket of one token and a half | slots, tokens, budgets, no resurrection, every call ends |
| `client_sdk` | the same | **violated** `RequestsPaced`: the SDK's retries take no token |
| `orchestrate` | 3 rounds, cap 3, 1 retry, 5 batches | trace, order, status, effects, silence after the answer, end of the loop |
| `orchestrate_status` | no poison | **violated** `StatusFromTrace`: the planner's status precedes its batch |
| `service` | every kind of request, every decision, 3 tries | alarms, teams, the safe default, a reply for every request |
| `service_default` | the same | **violated** `SafeDefaultMeansBlocked`: a reply that does not validate and speaks of a jailbreak counts as a block |
| `caller` | 5 items, 2 slots, 1 retry, breaker at 2 | slots, exact breaker, draining, end of the batch |
| `harness` | a task of one document, a task of two workflows, one tool with two responses, another session, 1 retry, 1 probe | recorded responses for every item but the smoke request, a report that accounts for everything, nothing left running, the end of the run |
| `harness_smoke` | the same | **violated** `SmokeReplayed`: probes and warm-up use the smoke item's responses |
| `scoring` | see below | corrections, normalisation, reorderings, assertions against templates, percentiles |
| `scoring_checkbox` | the same | **violated** `CheckboxNeverNull`: an unreadable checkbox becomes null |

**Why the bounds are enough.** The limiter's instance has more callers than the
bucket has tokens, a capacity that is no multiple of the cost (so that a
fraction is left over), a timer one tick late, and enough ticks for a drained
bucket to fill again. The client's has fewer slots than calls and less than two
tokens, so that each of the two lines forms, and an attempt budget with a first,
a middle and a last attempt. The workflow's batches contain a dependent group
after a lookup, a parallel group, a call that is rejected and one that raises; a
cap of 3 falls at the end of one batch, within the next and between rounds; 3
rounds is the code's own limit. `Service` has the code's own tables and number of tries. The caller has more items than slots plus
threshold, so that items wait when the breaker opens. `Harness` has a task without and one
with a mock service, an item that is the smoke request and one that is not, as many responses
as calls, so that the first, a later and the repeated last response occur, and the
code's rate of 80 %, which one item or two of two exceed; the one probe has replies that pass and
that fail, and the verdicts of the others differ only in `passes`. The inputs of
`scoring` are 3 signals of two categories, each with no answer or one of several; a
document with every combination of right, differently written, crossed, unreadable and missing
fields; forms with checkboxes in an object and in a list, also against a schema without properties
and against none; 4 plans of 4 or 5 steps, without and with assertions, template checks, alternatives and
dependencies of their own, in all orders; each template's gold with traces short of, at and beyond what it asks, and latencies of 0
to 4, 20 and 41 calls (the trim cuts nothing, one, two from each end).
Deadlock is checked in
`client`; the other systems stop, each by design: the clock at its bound, a
workflow when it is answered, a batch when it has returned, an evaluation when it has exited,
an input when it has its score.

**Fairness** is weak and asked only of what the event loop and its timers do:
the clock and refill, the resumption of a coroutine that is ready, a timeout
(`Fail`, `Falter`), the end of a backoff. In `Service` an attempt times
out if nothing else ends it, which assumes that it starts: `LLMClient!EveryCallEnds`
shows that no call waits for ever for its token or slot. Nothing is asked of the upstream model,
of the tools or of the service under test, which may never answer. `LLMClient`'s backoffs
end only if a `Retry-After` is finite, as `llm_client.py:150` sleeps any positive one. `LoopEnds`
has two parts. Without the workflow timeout, the loop's own bounds end it, unless a single wait has no
end: of the planner's call, or of a tool call that is stuck. If the timeout elapses (`WF_vars(TimeOut)`, the
hypothesis of the second part), every workflow is answered, whatever lasts for ever. A mutant breaks each part. That a
workflow ends is what `Service` takes from it. In `Harness` every wait of
the driver has a timeout (5 s for the port, the HTTP timeouts of resets, preflight, probes and
calls, 3 s for the child before it is killed), so its own steps, `Runs`, are weakly fair as a
whole; nothing is asked of the endpoint, the child or the others at the port.

## 4. Proofs

`RateLimiter_proofs` proves for every number of callers, capacity, cost and
lateness, and with no bound on time:

- `TypeCorrect`: the type invariant.
- `QuotaHolds`: `WindowBound`. It is not inductive: that a window of past grants
  was cheap says nothing of the next. The invariant adds `Spent`, the
  account of the bucket: for each past grant, what has been spent since it and what the bucket
  holds is at most a full bucket plus the time since. A grant then appends one
  more window, whose bound is that fact less the token.
- `OneSleepSuffices`: `SingleSleep`, assuming the bucket can hold a token
  (`Cost <= Capacity`). The code does not enforce it (`rate_limiter.py:50` checks
  only `capacity > 0`). The invariant is that a
  sleeper's wake-up time is the time at which the refilled bucket holds a token.
- `BelowOneTokenNobodyReturns`: why that assumption is there. With less capacity than a token
  `acquire` never returns, as the refill is cut off at the capacity.
- `ImplementsBucket`: every step maps to a step of `TokenBucket` or to a stutter
  under `credit <- Refilled`.
- `WaitIsBounded`: `BoundedWait`, with the same assumption as `OneSleepSuffices`. The
  property compares a waiter's deadline with the clock; `WaitInv` says why it will
  be met: from the moment the lock is free again, each place in line has a turn (the
  time to refill a token, and the loop's lateness) for every caller ahead of it. A
  cancellation moves the callers behind it forward, so it can only help.

`LLMClient_proofs` proves for every number of calls, slots and retries and for every bucket:

- `SlotsKept` (`SlotsConserved`), `EveryAttemptPays` (`AttemptsPaid`), `BudgetSpent`
  (`FailedMeansBudgetSpent`) and the action property `EndedStaysEnded` (`NoResurrection`).
  `ClientInv` adds to them `QueuesRight`, that each line holds calls that stand in it, each once
  (else the head of a line could be a call that was cancelled, or holds a slot), and
  `PaidRight`, which says what a call has paid in every state: `AttemptsPaid` speaks of
  calls in flight only, and a call in flight came from the semaphore's line.
- `TypeCorrect`: the upper bounds of `free` and `paid` follow from these.

`Orchestrate_proofs` proves for every planner, set of calls, cap and retry budget:

- `StepsMatchPlan` (`StepsFollowPlan`), `CompletedMeansWhole` (`CompletedIsWhole`): inductive
  with the facts of `PhaseRight` on when the planner is asked.
- `ToolsInOrder` (`ToolOrder`): by `GroupsRight`, the calls behind the current group have
  not begun, so whatever is under way is of one tool; what is before the group has its result.
- `EffectsAreBounded` (`EffectsBounded`) and `LoopAnswersHonestly` (`LoopAnswersAreHonest`):
  `CallRight` accounts for each call's effects by the requests that failed and
  the one that is out; an answer of the loop comes when no request is out.
- `SilentOnceAnswered` (`AnsweredIsSilent`): an answer of the loop, a planner's failure and a
  timeout leave nothing of the client that could send. Workflows one of whose calls raised are
  excepted, and must be: its siblings send on (section 5).
- `TypeCorrect`: in particular, rounds, calls and tries stay within their bounds.

`Caller_proofs` proves for every number of items, slots and retries and for every
threshold:

- `BreakerCorrect`: `BreakerExact`. The counter `streak` decides, and the property
  speaks of the whole log; `StreakIsTail` ties them: the last `streak` results
  are errors and a success stands before them.
- `SlotsKept`: `SlotsConserved`. To know that the item at the head of the line holds
  no slot yet, the invariant `SlotInv` adds that the line holds waiting items only
  and each of them once.
- `BreakerDrains`: `OpenBreakerDrains`. `SlotInv` also says that an open breaker
  leaves a slot free: the item whose failure opened it gave its slot back, and an
  item that then takes one returns it in the same step.
- `TypeCorrect`: the type invariant; the upper bound of `free` follows from
  `SlotInv`.

`Service_proofs` proves for every number of tries `AlarmHeard` (`AlarmEscalates`), `TeamRight`
(`TeamAgrees`), `DefaultEarned` (`SafeDefaultEarned`) and `TypeCorrect`. The
properties speak of answers only; `PathInv` adds what is known on the way: before an
answer there is no reply, a call with the whole description has no failure before it, and
a clamped one exactly one, which looked like a block. `GuardedTeam` and `GuardedAlarm`
are the facts about the guardrails on which the others rest.

`Harness_proofs` proves for every list of tasks, any probes, retries, breaker rate, tools and
recorded responses, and whatever others do at the mock's port:

- `LaterItemsReplay` (`LaterItemsReplayed`): `ItemRight` follows one item. Once the counters have been
  wiped and until the item is sent, nobody has called a tool for its scenario in the
  run's session; while its first attempt is in flight the counters are the lengths of
  what that attempt has got. `ServiceRight` and `StageRight` say when wiping has
  happened and who listens at the port.
- `ReportIsSound` (`ReportAccounts`): the composite lies between the scores of the tasks
  because it is a mean; no task is less resilient than the run because every probe that
  failed for a task is among those of the run (`SummariesRight`). Items are counted per task.
- `EveryTaskAccounted`: a part of that property, `TasksAccounted`, on its own.
- `MockLeft` (`MockLeftAsFound`), an action property, and `TypeCorrect`.

`Scoring_proofs` proves, for all golden signals, submissions, batches, schemas, documents, plans
and traces:

- `CorrectingHelps` (`CorrectingNeverHurts`). Per dimension: a mean of scores that
  are best for the right answer cannot fall. The F1 of a class cannot fall when answers become right
  (`CorrectedCounts`: hits do not fall, and mistakes do not grow). The macro average is the hard part:
  it is taken over the classes somebody mentions, and a correction can remove a class from it. A class that
  goes has no gold ticket, so it had F1 zero (`SeenClasses`), and a mean without zeros is no less.
  `Improves` is the relation between the two submissions that makes this precise.
- `PercentilesInRank` (`PercentileRanks`). `Sorted` gives for every rank the value with that
  rank (`SortedRight`, which needs that such a value exists, `RankExists`); cutting the same number of
  values at both ends then only moves the rank that is read (`PercentileAtRank`), and what remains is
  integer arithmetic on that rank.
- `TemplatesGiveTheSame` (`TemplatesAgree`). Seven templates, and for each the checks of the
  scorer against the assertions of the public golds: a `CountIs` assertion counts the calls that a check
  counts (`CountOfWord`, and `CountQuotes` for the plan inside the variables of a mail), and where the score is a
  share of checks met, both have the same checks in the same places. The checks of a renewal raise on a quote
  whose variables are no object (`goal_raises`), which the theorem states as the one exception; the
  assertions do not raise there and give a score (`BareRaises`, `AssertedNeverRaises`).
- `ReorderingIsRecognised` (`ReorderingCostsOnlyDependencies`). The scorer matches calls with steps greedily,
  each turn taking the best place left. A value matches itself fully (`MatchSelf`) and nothing matches it
  more than that (`MatchBetween`), both by induction over the depth of a value; so when no other step is a full match, a
  turn takes the step the call was made from (`TurnsAt`), and the calls sit where the order
  put them. Every count over the calls is the count over the steps (`CountMoved` and what follows it), so
  constraints and checked goals keep their score, and what remains is the dependencies (`OrderingMoved`).
- `NormalizingSettles` (`NormalizedConforms`). One induction over the depth of a schema shows that a third
  normalisation does what the second did (`ValuesSettle`), another that a value the schema's defaults gave
  is not changed (`DefaultSettled`). For the parts at every depth, `Repeated` is the relation between a part
  of the first answer and the same part of the second; it is handed down from a part to its parts
  (`RepeatedParts`), and it says that the part follows its schema and that only a checkbox may differ. The
  proof showed that the model's cases for an object and for an array overlapped, and the code
  takes the first: `normalize_value` is now the chain of conditions the code has.

`Scores_proofs` holds the lemmas. Induction over finite sets is done on a set of
counterexamples: the library's induction theorems take an operator as argument, which
the provers cannot instantiate. Some say more of the scores than the theorems need: every F1 score, percentile score,
tier and blend lies between 0 and `One`, and `best_token_f1` and `HarmonicMean` too.

**Assumptions.** Each module's constants have a named assumption that TLC evaluates in its run:
numbers are naturals, sets of calls are finite. Those that say more: `Cost <= Capacity` for the two theorems
above (a hypothesis of theirs, not of the module); `HarnessAssumption`, that the probes of a list are
different ones (they are the keys of a dictionary, `K/probes.py:211`), that every task
has an item and that others use sessions of their own; `TiersAssumption`, that tier scores
are percentages; `ScoringAssumption`, that golden signals have different ids, known priorities,
finite lists and, somewhere, a category and a team of the closed sets: without the last the
macro average of the right answers is 0; `ValuesAssumption`, `RecursionAssumption` and
`SchemasAssumption`, that values and schemas are finitely deep and that inner calls are calls of the operators (section 2);
`DocumentsAssumption`, that what the model returned consists of values; `PlansAssumption`, that a step depends on earlier ones and
that no other step has all the parameters of a step of its tool, and that the variables of a quote are an
object; `TemplatesAssumption`, that a gold has steps, that its assertions are those of its template, and that the
plan a renewal expects is neither empty nor the word `none`, as which a missing plan could be read. The 50 public golds satisfy the last two, and without the former a
reordering can lose points (section 5).

**Only model-checked.** Liveness under fairness is out of the prover's reach: `EveryCallEnds`, `LoopEnds`,
`CallEnds`, `ReplyComes`, `RunEnds`. So is what `RECURSIVE` operators compute: `NormalizingCostsOnlyWhere` compares
scores of `ExtractScore`. Every other property of a passing run is stated by a theorem.

## 5. Where documents and code differ

The violation runs above are the ones a document contradicts and a run shows;
`PROJECT.json` quotes the lines. These are listed there too, without a run:

- a timeout or a planner failure in a later round drops the recorded steps (`main.py:125`);
- parameters that httpx refuses to encode end the whole workflow (`executor.py:136`);
- an item in its backoff posts again after the breaker opened (`K/caller.py:283`);
- a number JSON cannot carry ends an extraction in a bare 500 (`extract/normalize.py:43`);
- a failed call is scored as an answer that has only its id (`K/runner.py:580`), so
  that the exit status is 0 when every call failed;
- a failed preflight leaves the mock service running (`run_eval.py:485`);
- the `missing_fields` probe drops a key of the answer, not of the request (`K/probes.py:80`);
- aborted tasks drop out of the mean (`K/runner.py:884`);
- a reordering that keeps the dependencies may lose all points for ordering, when steps of one
  tool differ in having parameters (`K/scorers/workflow_orchestration.py:395`). `PlansAssumption`,
  that no step has all the parameters of another of its tool, is what
  `ReorderingCostsOnlyDependencies` needs;
- a substitute that the plan has as well counts twice, and tool selection exceeds 1
  (`K/scorers/workflow_orchestration.py:271`).

Noted only here: a batch repeated with `workflow_complete` is executed again
(`executor.py:93`); a token may be taken long before the request starts
(`llm_client.py:116-118`); a capacity below one token is accepted (section 4); a 200 with
a body that is no JSON aborts a whole evaluation (`K/caller.py:301`), and so does an answer to a
renewal without goal assertions (the public ones have them) that mails a quote whose variables are null or a
text (`K/scorers/workflow_orchestration.py:704`, `K/runner.py:791`); the other calls of a group one of which
raised send on after the workflow is answered (`executor.py:136`), also when the timeout strikes
before the coroutine resumes; an infinite `Retry-After` is slept for ever by the LLM client and, until the
workflow timeout, by the tool client (`llm_client.py:150`, `tool_client.py:54`); a 415 carries no
`X-Request-ID` (`web.py:83-84`); a block in an earlier attempt followed by another failure in
the last is not recognised as a block (`classifier.py:40`, `llm_client.py:142`); the
alarm phrase `decompress` matches as a whole word only, so not `decompression`
(`guardrails.py:29, 41`); the extraction's worst case exceeds the 60 s that
`settings.py:56` asks for; a task with no answered call has percentiles 0 and so the full
score for latency (`K/caller.py:98`); the malformed probe accepts a 422 where its docstring asks for
400; a missing ticket is a match, not a "guaranteed mismatch"
(`K/scorers/ticket_triage.py:265`), when the gold asks for no escalation; two public churn
golds, TASK-0460 and TASK-0510, do not satisfy their own assertions.

Normalisation may cost points in four cases, which `NormalizingCostsOnlyWhere` names: a number
for a flag or a flag for a number, a gold that is null where the schema has another
default, and items of a list whose missing keys are filled with nulls.

## 6. Not modelled, and the plan

Next, in this order:

1. Proofs: `ExtractScore` with its inner calls as constants, as `Normalize` and `WorkflowScore` have them,
   and `NormalizingCostsOnlyWhere` as a theorem; that `Caller`'s batch implements what `Harness` takes of it.
2. `Orchestrate`: the derived report fields (`executor.py:217-264`) and the tool client's pool.

Left out: `validate_resolution_result` (its verdict is only logged) and the legacy aggregation by
minimum, which nothing calls; `check_health` and the token sums of the caller; the driver's
arguments, dataset loading, inlining of images and printed report; lengths of backoffs and of the
timeouts. Left out for good: prompts, logging, formatting, credentials, pydantic's
declarative validation, the Pulumi program (declarations of cloud resources).
