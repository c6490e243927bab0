--------------------------- MODULE Harness_proofs ---------------------------
(***************************************************************************)
(* One run of the evaluation driver, for every list of tasks, every number *)
(* of probes, retries and tool calls, and every use others make of the     *)
(* mock service: the replay reaches all but the smoke item, a service the  *)
(* run did not start is left alone, and no task is missing in the report.  *)
(***************************************************************************)
EXTENDS Harness, Scores_proofs

Statuses  == {"todo", "flight", "answered", "misnamed", "error"}
Responses == [Tools -> Seq(0..MaxCalls)]
Summaries == [status : UNION {[X -> Statuses] : X \in SUBSET Items}, probes : Seq(BOOLEAN)]
Early     == {"start", "waiting", "reset", "preflight", "reset again"}
Looping   == {"probes", "warmup", "calls"}
Reported  == {"report", "stopping", "exited"}

\* Every variable has its type.
TypeInv == /\ TypeOK
           /\ got \in [Items -> Responses]
           /\ summaries \in Seq(Summaries)

(* The tasks before the one at hand have been summarised and let the loop  *)
(* go on; nothing is aborted before the loop is left, and all that was not *)
(* reached is when it is.                                                  *)
StageRight ==
  /\ phase \in Early => summaries = <<>> /\ stray = {}
  /\ phase \in Early \cup Looping => aborted = {}
  /\ phase = "reset again" => task = 1
  /\ phase \in Looping => Len(summaries) = task - 1
  /\ phase \in Reported =>
       Len(summaries) = task /\ aborted = Later /\ (aborted # {} => Failing(task))
  /\ \A k \in Ran : k < task => ~Failing(k)

(* The child listens when it is up and only then; nobody listened before,  *)
(* nothing is counted.                                                     *)
ServiceRight ==
  /\ child = "up" <=> port = "child"
  /\ port = "free" /\ phase \notin {"stopping", "exited"} => counters = Counts(0)

Own(i) == counters[<<"own", i>>]

(* Item i of the mocked task m, which is not the smoke item.  Until it is  *)
(* sent nobody has called its tools in the run's own session; then its     *)
(* first attempt alone has, so the counters are the lengths of what the    *)
(* attempt has got.  Only an item in flight has got anything.              *)
ItemRight(m, i) ==
  /\ wiped /\ phase \in Looping /\ (task < m \/ (task = m /\ status[i] = "todo")) =>
       i \notin stray /\ Own(i) = Unused
  /\ wiped /\ phase = "calls" /\ task = m /\ status[i] = "flight" /\ attempt[i] = 0 =>
       i \notin stray /\ \A t \in Tools : Own(i)[t] = Len(got[i][t])
  /\ status[i] # "flight" => got[i] = Nothing
  /\ status[i] = "flight" => phase \in {"calls", "failed"} /\ i \in Current
  /\ phase \notin {"calls", "failed"} => status[i] = "todo"
  /\ Replayed(i)

Ended == {"answered", "misnamed", "error"}

(* A summary has an outcome of every item and a result of every probe, and *)
(* a probe that failed for some task is among those that did.              *)
SummariesRight ==
  /\ \A p \in DOMAIN passed : ~passed[p] => Probes[p] \in failed
  /\ phase \in {"warmup", "calls"} => Len(passed) = Len(Probes)
  /\ \A k \in Ran :
       /\ \A i \in ToSet(ItemsOf(k)) : summaries[k].status[i] \in Ended
       /\ Len(summaries[k].probes) = Len(Probes)
       /\ \A p \in DOMAIN summaries[k].probes : ~summaries[k].probes[p] => Probes[p] \in failed

HarnessInv ==
  /\ TypeInv
  /\ StageRight
  /\ ServiceRight
  /\ SummariesRight
  /\ \A m \in Mocked : \A i \in ToSet(ItemsOf(m)) \ {Smoke(m)} : ItemRight(m, i)

----------------------------------------------------------------------------
(* The tasks, the probes and the mock's tools.                             *)

\* A task's items are some of all, and its smoke request is one of its own.
LEMMA TaskFacts ==
  /\ Len(TaskRuns) \in Nat \ {0} /\ Tasks = 1..Len(TaskRuns)
  /\ \A k \in Tasks : /\ ToSet(ItemsOf(k)) \subseteq Items
                      /\ Smoke(k) \in ToSet(ItemsOf(k))
<1> DEFINE Run == [items : Seq(Items) \ {<<>>}, adversarial : SUBSET Items, mocked : BOOLEAN]
<1>1. TaskRuns \in Seq(Run) /\ TaskRuns # <<>>
  BY HarnessAssumption
<1>2. Len(TaskRuns) \in Nat \ {0} /\ Tasks = 1..Len(TaskRuns)
  BY <1>1, EmptySeq, LenProperties DEF Tasks
<1>3. ASSUME NEW k \in Tasks PROVE ItemsOf(k) \in Seq(Items) /\ ItemsOf(k) # <<>>
  <2>1. TaskRuns[k] \in Run
    BY <1>1, <1>2, <1>3, ElementOfSeq
  <2> QED
    BY <2>1 DEF ItemsOf
<1>4. ASSUME NEW k \in Tasks PROVE ToSet(ItemsOf(k)) \subseteq Items
  BY <1>4 DEF Items
<1>5. ASSUME NEW k \in Tasks PROVE Smoke(k) \in ToSet(ItemsOf(k))
  <2>1. Smoke(k) = ItemsOf(k)[1] /\ 1 \in DOMAIN ItemsOf(k)
    BY <1>3, EmptySeq, LenProperties DEF Smoke
  <2> QED
    BY <2>1 DEF ToSet
<1> QED
  BY <1>2, <1>4, <1>5

\* A probe passes or it does not.
LEMMA ProbePassesOrNot ==
  ASSUME NEW probe \in ProbeNames, NEW reply \in ReplyTo(probe)
  PROVE  passes(probe, reply) \in BOOLEAN
<1>1. CASE probe = "concurrent_burst"
  <2>1. passes(probe, reply) = (reply >= BURST_MIN_PASS)
    BY <1>1 DEF passes
  <2> QED
    BY <2>1, <1>1 DEF ReplyTo, BURST_MIN_PASS
<1>2. ASSUME NEW accepted, passes(probe, reply) = (reply \in accepted)
      PROVE  passes(probe, reply) \in BOOLEAN
  BY <1>2
<1>3. CASE probe \in {"malformed_json", "empty_body"}
  <2>1. passes(probe, reply) = (reply \in {"400", "422"})
    BY <1>3 DEF passes
  <2> QED
    BY <1>2, <2>1
<1>4. CASE probe = "missing_fields"
  <2>1. passes(probe, reply) = (reply \in {"400", "422", "200"})
    BY <1>4 DEF passes
  <2> QED
    BY <1>2, <2>1
<1>5. CASE probe = "huge_payload"
  <2>1. passes(probe, reply) = (reply \in {"200", "200 no json", "400", "413", "422"})
    BY <1>5 DEF passes
  <2> QED
    BY <1>2, <2>1, Zenon
<1>6. CASE probe = "wrong_content_type"
  <2>1. passes(probe, reply) = (reply \in {"415", "400", "422", "200"})
    BY <1>6 DEF passes
  <2> QED
    BY <1>2, <2>1
<1>7. CASE probe = "slow_followup"
  <2>1. passes(probe, reply) = (reply \in {"200"})
    BY <1>7 DEF passes
  <2> QED
    BY <1>2, <2>1
<1> QED
  BY <1>1, <1>3, <1>4, <1>5, <1>6, <1>7 DEF ProbeNames

\* A call is counted for its own key and tool.
LEMMA CallIsCounted ==
  ASSUME TypeInv, NEW key \in Keys, NEW tool \in Tools,
         counters[key][tool] < MaxCalls, call_tool(key, tool)
  PROVE  /\ counters' \in [Keys -> [Tools -> 0..MaxCalls]]
         /\ \A k \in Keys : k # key => counters'[k] = counters[k]
         /\ \A t \in Tools : counters'[key][t] =
                              IF t = tool THEN counters[key][t] + 1 ELSE counters[key][t]
<1>1. counters \in [Keys -> [Tools -> 0..MaxCalls]] /\ MaxCalls \in Nat
  BY HarnessAssumption DEF TypeInv, TypeOK
<1>2. counters' = [counters EXCEPT ![key] = [counters[key] EXCEPT ![tool] = @ + 1]]
  BY DEF call_tool
<1>3. [counters[key] EXCEPT ![tool] = @ + 1] \in [Tools -> 0..MaxCalls]
  BY <1>1
<1> QED
  BY <1>1, <1>2, <1>3

\* A recorded response is one of those the bound on calls allows for.
LEMMA ResponseInRange ==
  ASSUME NEW i \in Scenarios, NEW tool \in Tools, Recorded[i][tool] > 0,
         NEW n \in 0..MaxCalls
  PROVE  Response(i, tool, n) \in 0..MaxCalls
<1>1. Recorded[i][tool] \in Nat /\ MaxCalls \in Nat
  BY MockAssumption, HarnessAssumption
<1> QED
  BY <1>1 DEF Response

\* Nothing is counted after a reset.
LEMMA NothingCounted ==
  /\ [k \in Keys |-> Unused] = Counts(0)
  /\ \A n \in 0..MaxCalls : Counts(n) \in [Keys -> [Tools -> 0..MaxCalls]]
  /\ Counts(0) \in [Keys -> [Tools -> 0..MaxCalls]]
<1>1. 0 \in 0..MaxCalls
  BY HarnessAssumption
<1>2. \A n \in 0..MaxCalls : Counts(n) \in [Keys -> [Tools -> 0..MaxCalls]]
  BY DEF Counts
<1> QED
  BY <1>1, <1>2 DEF Counts, Unused

\* The summary of the task at hand.
LEMMA OutcomeTyped == ASSUME TypeInv PROVE Outcome \in Summaries
<1>1. Current \subseteq Items /\ passed \in Seq(BOOLEAN) /\ status \in [Items -> Statuses]
  BY TaskFacts DEF TypeInv, TypeOK, Current, Statuses
<1>2. Restrict(status, Current) \in [Current -> Statuses]
  BY <1>1 DEF Restrict
<1> QED
  BY <1>1, <1>2 DEF Outcome, Summaries

----------------------------------------------------------------------------
(* Types.                                                                  *)

LEMMA InitTyped == Init => TypeInv
<1> SUFFICES ASSUME Init PROVE TypeInv
  OBVIOUS
<1>1. counters \in [Keys -> [Tools -> 0..MaxCalls]]
  BY NothingCounted DEF Init
<1>2. task \in Tasks /\ passed \in Seq(BOOLEAN) /\ Len(passed) <= Len(Probes)
  BY TaskFacts, HarnessAssumption, EmptySeq, LenProperties DEF Init
<1>3. got \in [Items -> Responses]
  BY EmptySeq DEF Init, Nothing, Responses
<1>4. summaries \in Seq(Summaries) /\ Len(summaries) <= Len(TaskRuns)
  BY TaskFacts, EmptySeq DEF Init
<1>5. attempt \in [Items -> 0..MaxRetries]
  BY HarnessAssumption DEF Init
<1> QED
  BY <1>1, <1>2, <1>3, <1>4, <1>5 DEF Init, TypeInv, TypeOK, Responses

LEMMA StepTyped == ASSUME TypeInv, StageRight, [Next]_vars PROVE TypeInv'
<1> USE DEF service, progress, calls
<1>1. CASE UNCHANGED vars
  BY <1>1 DEF TypeInv, TypeOK, vars
<1>2. CASE start_mock_service
  BY <1>2 DEF TypeInv, TypeOK, start_mock_service
<1>3. CASE Ready
  BY <1>3 DEF TypeInv, TypeOK, Ready
<1>4. ASSUME NEW from, NEW to \in {"preflight", "probes"}, reset_mock_services(from, to)
      PROVE  TypeInv'
  <2>1. counters' \in [Keys -> [Tools -> 0..MaxCalls]] /\ wiped' \in BOOLEAN
    BY <1>4, NothingCounted DEF TypeInv, TypeOK, reset_mock_services, reset_all
  <2> QED
    BY <1>4, <2>1 DEF TypeInv, TypeOK, reset_mock_services
<1>5. CASE PreflightPasses
  <2>1. task' \in Tasks
    <3>1. task \in 1..Len(TaskRuns) /\ Len(TaskRuns) \in Nat \ {0}
      BY TaskFacts DEF TypeInv, TypeOK
    <3>2. task' = 1 \/ (task < Len(TaskRuns) /\ task' = task + 1)
      BY <1>5 DEF PreflightPasses
    <3> QED
      BY <3>1, <3>2, TaskFacts
  <2> QED
    BY <1>5, <2>1 DEF TypeInv, TypeOK, PreflightPasses
<1>6. CASE PreflightFails
  BY <1>6 DEF TypeInv, TypeOK, PreflightFails
<1>7. CASE run_probe
  <2>1. stray' \subseteq Items
    BY <1>7, TaskFacts DEF TypeInv, TypeOK, run_probe, Abandons, Mocked
  <2> DEFINE probe == Probes[Len(passed) + 1]
  <2>2. probe \in ProbeNames /\ probe \in ToSet(Probes) /\ Len(passed) + 1 <= Len(Probes)
    <3>1. Len(passed) \in Nat /\ Len(passed) < Len(Probes) /\ Len(Probes) \in Nat
      BY <1>7, HarnessAssumption, LenProperties DEF TypeInv, TypeOK, run_probe
    <3> QED
      BY <3>1, HarnessAssumption, ElementOfSeq, LenProperties DEF ToSet
  <2>3. PICK reply \in ReplyTo(probe) :
          /\ passed' = Append(passed, passes(probe, reply))
          /\ failed' = IF passes(probe, reply) THEN failed ELSE failed \cup {probe}
    BY <1>7 DEF run_probe
  <2> DEFINE b == passes(probe, reply)
  <2>4. b \in BOOLEAN
    BY <2>2, ProbePassesOrNot
  <2> HIDE DEF probe, b
  <2>5. passed' \in Seq(BOOLEAN) /\ Len(passed') = Len(passed) + 1
    <3>1. passed' = Append(passed, b) /\ passed \in Seq(BOOLEAN)
      BY <2>3 DEF TypeInv, TypeOK, b
    <3> QED
      BY <2>4, <3>1, AppendProperties
  <2>6. failed' \subseteq ToSet(Probes)
    BY <2>2, <2>3 DEF TypeInv, TypeOK
  <2> QED
    BY <1>7, <2>1, <2>2, <2>5, <2>6 DEF TypeInv, TypeOK, run_probe
<1>8. CASE ProbesDone
  BY <1>8 DEF TypeInv, TypeOK, ProbesDone
<1>9. CASE WarmedUp
  <2>1. stray' \subseteq Items
    BY <1>9, TaskFacts DEF TypeInv, TypeOK, WarmedUp, Abandons, Mocked
  <2> QED
    BY <1>9, <2>1 DEF TypeInv, TypeOK, WarmedUp
<1>10. Nothing \in Responses
  BY EmptySeq DEF Nothing, Responses
<1>11. ASSUME NEW i \in Items, Begin(i) PROVE TypeInv'
  BY <1>11 DEF TypeInv, TypeOK, Begin
<1>12. ASSUME NEW i \in Items, Falter(i) PROVE TypeInv'
  <2>1. stray' \subseteq Items
    BY <1>12 DEF TypeInv, TypeOK, Falter
  <2>2. attempt' \in [Items -> 0..MaxRetries]
    <3>1. attempt \in [Items -> 0..MaxRetries] /\ MaxRetries \in Nat
      BY HarnessAssumption DEF TypeInv, TypeOK
    <3>2. \/ attempt[i] < MaxRetries /\ attempt' = [attempt EXCEPT ![i] = @ + 1]
          \/ attempt' = [attempt EXCEPT ![i] = 0]
      BY <1>12 DEF Falter, AttemptsLeft, Ends
    <3> QED
      BY <3>1, <3>2
  <2>3. got' \in [Items -> Responses]
    BY <1>10, <1>12 DEF TypeInv, Falter, Ends
  <2>4. status' \in [Items -> Statuses]
    BY <1>12 DEF TypeInv, TypeOK, Falter, Ends, Statuses
  <2> QED
    BY <1>12, <2>1, <2>2, <2>3, <2>4 DEF TypeInv, TypeOK, Falter, Responses, Statuses
<1>13. ASSUME NEW i \in Items, Skip(i) PROVE TypeInv'
  BY <1>13 DEF TypeInv, TypeOK, Skip
<1>14. ASSUME NEW i \in Items, Crash(i) PROVE TypeInv'
  BY <1>14 DEF TypeInv, TypeOK, Crash
<1>15. ASSUME NEW i \in Items, NEW o \in {"answered", "misnamed", "error"}, EndItem(i, o)
       PROVE  TypeInv'
  <2>1. got' \in [Items -> Responses]
    BY <1>10, <1>15 DEF TypeInv, EndItem, Ends
  <2>2. status' \in [Items -> Statuses] /\ attempt' \in [Items -> 0..MaxRetries]
    BY <1>15, HarnessAssumption DEF TypeInv, TypeOK, EndItem, Ends, Statuses
  <2> QED
    BY <1>15, <2>1, <2>2 DEF TypeInv, TypeOK, EndItem, Responses, Statuses
<1>16. CASE ScoreTask
  <2>1. summaries' \in Seq(Summaries) /\ Len(summaries') = Len(summaries) + 1
    BY <1>16, OutcomeTyped, AppendProperties DEF TypeInv, ScoreTask
  <2>2. Len(summaries) = task - 1 /\ task \in 1..Len(TaskRuns) /\ Len(TaskRuns) \in Nat
    BY <1>16, TaskFacts DEF ScoreTask, AllEnded, StageRight, Looping, TypeInv, TypeOK
  <2>3. task' \in Tasks
    <3>1. task' = task \/ (task' = task + 1 /\ \E k \in Tasks : k > task)
      BY <1>16 DEF ScoreTask, NextTask, LeaveLoop, Later
    <3> QED
      BY <2>2, <3>1, TaskFacts
  <2>4. passed' \in Seq(BOOLEAN) /\ Len(passed') <= Len(Probes)
    <3>1. passed' = passed \/ passed' = <<>>
      BY <1>16 DEF ScoreTask, NextTask, LeaveLoop
    <3>2. Len(Probes) \in Nat
      BY HarnessAssumption, LenProperties
    <3>3. <<>> \in Seq(BOOLEAN) /\ Len(<<>>) = 0
      BY EmptySeq
    <3>4. CASE passed' = passed
      BY <3>4 DEF TypeInv, TypeOK
    <3>5. CASE passed' = <<>>
      BY <3>2, <3>3, <3>5
    <3> QED
      BY <3>1, <3>4, <3>5
  <2>5. aborted' \subseteq Tasks
    BY <1>16 DEF ScoreTask, Later, TypeInv, TypeOK
  <2>6. status' \in [Items -> Statuses]
    BY <1>16 DEF ScoreTask, NewCalls, Statuses
  <2>7. phase' \in {"report", "probes"} /\ UNCHANGED <<attempt, got, stray>>
    BY <1>16 DEF ScoreTask, NewCalls, NextTask, LeaveLoop
  <2>8. UNCHANGED <<service, failed, code>>
    BY <1>16 DEF ScoreTask
  <2>9. Len(summaries') <= Len(TaskRuns)
    BY <2>1, <2>2
  <2> QED
    BY <2>1, <2>3, <2>4, <2>5, <2>6, <2>7, <2>8, <2>9
       DEF TypeInv, TypeOK, Statuses
<1>17. ExitCode \in {0, 1}
  BY DEF ExitCode
<1>18. CASE stop_mock_service
  BY <1>17, <1>18 DEF TypeInv, TypeOK, stop_mock_service
<1>19. CASE ChildStopped
  BY <1>17, <1>19 DEF TypeInv, TypeOK, ChildStopped, EndChild
<1>20. CASE ChildBinds
  <2>1. counters' \in [Keys -> [Tools -> 0..MaxCalls]]
    BY <1>20, NothingCounted DEF TypeInv, TypeOK, ChildBinds, reset_all
  <2> QED
    BY <1>20, <2>1 DEF TypeInv, TypeOK, ChildBinds
<1>21. CASE ForeignBinds
  <2>1. counters' \in [Keys -> [Tools -> 0..MaxCalls]]
    BY <1>21, NothingCounted DEF ForeignBinds
  <2> QED
    BY <1>21, <2>1 DEF TypeInv, TypeOK, ForeignBinds
<1>22. CASE ChildEnds
  BY <1>22 DEF TypeInv, TypeOK, ChildEnds, EndChild
<1>23. ASSUME NEW i \in Scenarios, NEW tool \in Tools, Draw(i, tool) PROVE TypeInv'
  <2> DEFINE n == counters[<<"own", i>>][tool]
  <2>1. <<"own", i>> \in Keys
    BY HarnessAssumption DEF Keys
  <2>2. counters' \in [Keys -> [Tools -> 0..MaxCalls]] /\ n \in 0..MaxCalls
    BY <1>23, <2>1, CallIsCounted DEF Draw, TypeInv, TypeOK
  <2>3. Response(i, tool, n) \in 0..MaxCalls
    BY <1>23, <2>2, ResponseInRange DEF Draw, call_tool
  <2>4. got' = [got EXCEPT ![i][tool] = Append(@, Response(i, tool, n))]
    BY <1>23 DEF Draw
  <2> DEFINE more == Append(got[i][tool], Response(i, tool, n))
  <2>5. got \in [Items -> [Tools -> Seq(0..MaxCalls)]]
    BY DEF TypeInv, Responses
  <2>6. i \in Items => more \in Seq(0..MaxCalls)
    BY <2>3, <2>5, AppendProperties
  <2> HIDE DEF n
  <2>7. got' = [got EXCEPT ![i] = [got[i] EXCEPT ![tool] = more]]
    BY <2>4
  <2> HIDE DEF more
  <2>8. got' \in [Items -> Responses]
    BY <2>5, <2>6, <2>7 DEF Responses
  <2> QED
    BY <1>23, <2>2, <2>8 DEF TypeInv, TypeOK, Draw, Responses
<1>24. ASSUME NEW i \in Scenarios, NEW tool \in Tools, DrawUnheard(i, tool) PROVE TypeInv'
  <2>1. <<"own", i>> \in Keys
    BY HarnessAssumption DEF Keys
  <2>2. counters' \in [Keys -> [Tools -> 0..MaxCalls]]
    BY <1>24, <2>1, CallIsCounted DEF DrawUnheard
  <2> QED
    BY <1>24, <2>2 DEF TypeInv, TypeOK, DrawUnheard
<1>25. ASSUME NEW key \in OtherKeys, NEW tool \in Tools, OthersCall(key, tool) PROVE TypeInv'
  <2>1. key \in Keys /\ counters[key][tool] < MaxCalls
    BY <1>25, HarnessAssumption DEF OthersCall
  <2>2. counters' \in [Keys -> [Tools -> 0..MaxCalls]]
    BY <1>25, <2>1, CallIsCounted DEF OthersCall
  <2> QED
    BY <1>25, <2>2 DEF TypeInv, TypeOK, OthersCall
<1>26. ASSUME NEW key \in OtherKeys, OthersReset(key) PROVE TypeInv'
  <2>1. Unused \in [Tools -> 0..MaxCalls]
    BY HarnessAssumption DEF Unused
  <2>2. counters' \in [Keys -> [Tools -> 0..MaxCalls]]
    BY <1>26, <2>1 DEF OthersReset, reset_session, reset_scenario, TypeInv, TypeOK
  <2> QED
    BY <1>26, <2>2 DEF TypeInv, TypeOK, OthersReset
<1>27. CASE ScorerCrashes
  BY <1>27 DEF TypeInv, TypeOK, ScorerCrashes
<1> QED
  BY <1>1, <1>2, <1>3, <1>4, <1>5, <1>6, <1>7, <1>8, <1>9, <1>11, <1>12, <1>13, <1>14,
     <1>15, <1>16, <1>18, <1>19, <1>20, <1>21, <1>22, <1>23, <1>24, <1>25, <1>26, <1>27
     DEF Next, Runs

----------------------------------------------------------------------------
(* Which tasks have been summarised, and which have not.                   *)

\* What a task was judged by does not change while the summaries do not.
LEMMA JudgedAlike == ASSUME UNCHANGED summaries PROVE \A k : Failing(k)' <=> Failing(k)
<1>1. \A k, items, outcomes : Having(k, items, outcomes)' = Having(k, items, outcomes)
  BY DEF Having
<1> QED
  BY <1>1 DEF Failing

\* A step that leaves the loop's own variables alone.
LEMMA StageKept ==
  ASSUME StageRight, UNCHANGED <<phase, task, summaries, aborted>>,
         phase \in Early => stray' = stray
  PROVE  StageRight'
<1>1. \A k : Failing(k)' <=> Failing(k)
  BY JudgedAlike
<1> QED
  BY <1>1 DEF StageRight, Ran, Later

LEMMA InitStage == Init => StageRight
<1> SUFFICES ASSUME Init PROVE StageRight
  OBVIOUS
<1> QED
  BY EmptySeq DEF Init, StageRight, Early, Looping, Reported, Ran

\* The task at hand is judged when its summary is kept.
LEMMA JudgedWhenScored ==
  ASSUME TypeInv, StageRight, ScoreTask
  PROVE  /\ Ran = 1..(task - 1) /\ Ran' = 1..task /\ Len(summaries') = task
         /\ \A k \in Ran : Failing(k)' <=> Failing(k)
         /\ \A k : k = task => (Failing(k)' <=> TooManyErrors)
<1>1. /\ summaries \in Seq(Summaries) /\ Outcome \in Summaries
      /\ summaries' = Append(summaries, Outcome)
  BY OutcomeTyped DEF ScoreTask, TypeInv
<1>2. Len(summaries) = task - 1 /\ task \in Nat \ {0}
  BY TaskFacts DEF ScoreTask, AllEnded, StageRight, Looping, TypeInv, TypeOK
<1>3. /\ Len(summaries') = task /\ summaries' \in Seq(Summaries)
      /\ \A k \in 1..(task - 1) : summaries'[k] = summaries[k]
      /\ summaries'[task] = Outcome
  BY <1>1, <1>2, AppendProperties
<1>4. Ran = 1..(task - 1) /\ Ran' = 1..task
  BY <1>1, <1>2, <1>3, LenProperties DEF Ran
<1>5. ASSUME NEW k \in Ran PROVE Failing(k)' <=> Failing(k)
  <2>1. Having(k, ToSet(ItemsOf(k)), {"error"})' = Having(k, ToSet(ItemsOf(k)), {"error"})
    BY <1>3, <1>4, <1>5 DEF Having
  <2> QED
    BY <2>1 DEF Failing
<1>6. ASSUME NEW k, k = task PROVE Failing(k)' <=> TooManyErrors
  <2>1. Current = ToSet(ItemsOf(k))
    BY <1>6 DEF Current
  <2>2. \A i \in Current : summaries'[k].status[i] = status[i]
    BY <1>3, <1>6 DEF Outcome, Restrict
  <2>3. {i \in Current : summaries'[k].status[i] \in {"error"}}
          = {i \in Current : status[i] = "error"}
    BY <2>2
  <2> QED
    BY <2>1, <2>3 DEF TooManyErrors, Failing, Having
<1> QED
  BY <1>3, <1>4, <1>5, <1>6

LEMMA StepStage ==
  ASSUME TypeInv, StageRight, ServiceRight, [Next]_vars
  PROVE  StageRight'
<1> USE DEF service, progress, calls
<1>1. CASE UNCHANGED summaries /\ UNCHANGED aborted
  <2>1. \A k : Failing(k)' <=> Failing(k)
    BY <1>1, JudgedAlike
  <2>2. CASE UNCHANGED <<phase, task>> /\ (phase \in Early => stray' = stray)
    BY <1>1, <2>2, StageKept
  <2>3. CASE /\ UNCHANGED <<task, stray>> /\ phase \in Early
             /\ phase' \in {"waiting", "reset", "preflight", "failed"}
    BY <1>1, <2>1, <2>3 DEF StageRight, Ran, Early, Looping, Reported
  <2>4. CASE PreflightPasses
    <3>1. summaries = <<>> /\ stray = {} /\ aborted = {} /\ phase' \in Early
      BY <2>4 DEF PreflightPasses, StageRight, Early
    <3>2. summaries' = <<>> /\ stray' = {} /\ aborted' = {}
      BY <2>4, <3>1 DEF PreflightPasses
    <3>3. phase' = "reset again" => task' = 1
      BY <2>4 DEF PreflightPasses
    <3>4. Ran' = {}
      BY <3>2, EmptySeq DEF Ran
    <3> QED
      BY <3>1, <3>2, <3>3, <3>4 DEF StageRight, Early, Looping, Reported
  <2>5. CASE reset_mock_services("reset again", "probes")
    <3>1. phase = "reset again" /\ phase' = "probes" /\ UNCHANGED task
      BY <2>5 DEF reset_mock_services
    <3>2. summaries = <<>> /\ task = 1 /\ aborted = {}
      BY <3>1 DEF StageRight, Early
    <3>3. summaries' = <<>> /\ Len(summaries') = 0 /\ Ran' = {}
      BY <1>1, <3>2, EmptySeq DEF Ran
    <3>4. \A k \in Ran' : k < task' => ~Failing(k)'
      BY <3>3
    <3>5. aborted' = {} /\ phase' = "probes"
      BY <1>1, <3>1, <3>2
    <3>6. task' = 1 /\ Len(summaries') = 0
      BY <3>1, <3>2, <3>3
    <3>7. Len(summaries') = task' - 1
      BY <3>6
    <3> QED
      BY <3>4, <3>5, <3>7 DEF StageRight, Early, Looping, Reported
  <2>6. CASE /\ UNCHANGED task /\ phase \in Looping
             /\ phase' \in {"probes", "warmup", "calls", "failed"}
    BY <1>1, <2>1, <2>6 DEF StageRight, Ran, Early, Looping, Reported
  <2>7. CASE /\ UNCHANGED task /\ phase \in Reported /\ phase' \in Reported
    BY <1>1, <2>1, <2>7 DEF StageRight, Ran, Later, Early, Looping, Reported
  <2>8. CASE UNCHANGED vars
    BY <2>2, <2>8 DEF vars
  <2>9. CASE start_mock_service \/ Ready \/ PreflightFails
    BY <2>3, <2>9 DEF start_mock_service, Ready, PreflightFails, Early
  <2>10. CASE reset_mock_services("reset", "preflight")
    BY <2>3, <2>10 DEF reset_mock_services, Early
  <2>11. CASE run_probe \/ ProbesDone \/ WarmedUp
    BY <2>6, <2>11 DEF run_probe, ProbesDone, WarmedUp, Looping
  <2>12. ASSUME NEW i \in Items,
                \/ Begin(i) \/ Falter(i) \/ Skip(i) \/ Crash(i)
                \/ \E o \in {"answered", "misnamed", "error"} : EndItem(i, o)
         PROVE  StageRight'
    <3>1. UNCHANGED task /\ phase = "calls" /\ phase' \in {"calls", "failed"}
      BY <2>12 DEF Begin, Falter, Skip, Crash, EndItem
    <3> QED
      BY <2>6, <3>1 DEF Looping
  <2>13. CASE stop_mock_service \/ ChildStopped
    BY <2>7, <2>13 DEF stop_mock_service, ChildStopped, Reported
  <2>14. CASE ChildBinds \/ ForeignBinds \/ ChildEnds
    BY <2>2, <2>14 DEF ChildBinds, ForeignBinds, ChildEnds
  <2>15. ASSUME NEW tool \in Tools,
                \/ \E i \in Scenarios : Draw(i, tool) \/ DrawUnheard(i, tool)
                \/ \E key \in OtherKeys : OthersCall(key, tool)
         PROVE  StageRight'
    <3>1. UNCHANGED <<phase, task, stray>>
      BY <2>15 DEF Draw, DrawUnheard, OthersCall
    <3> QED
      BY <2>2, <3>1
  <2>16. ASSUME NEW key \in OtherKeys, OthersReset(key) PROVE StageRight'
    BY <2>2, <2>16 DEF OthersReset
  <2>17. ~ScoreTask
    <3>1. SUFFICES ASSUME ScoreTask PROVE FALSE
      OBVIOUS
    <3>2. Len(summaries') = task /\ Ran = 1..(task - 1) /\ Ran' = 1..task
      BY <3>1, JudgedWhenScored
    <3>3. task \in Nat \ {0}
      <4>1. task \in Tasks
        BY DEF TypeInv, TypeOK
      <4> QED
        BY <4>1, TaskFacts
    <3>4. Ran' = Ran
      BY <1>1 DEF Ran
    <3> QED
      BY <3>2, <3>3, <3>4
  <2>18. CASE ScorerCrashes
    BY <2>6, <2>18 DEF ScorerCrashes, AllEnded, Looping
  <2> QED
    BY <2>4, <2>5, <2>8, <2>9, <2>10, <2>11, <2>12, <2>13, <2>14, <2>15, <2>16, <2>17, <2>18
       DEF Next, Runs
<1>2. CASE ScoreTask
  <2>1. /\ Ran = 1..(task - 1) /\ Ran' = 1..task /\ Len(summaries') = task
        /\ \A k \in Ran : Failing(k)' <=> Failing(k)
        /\ \A k : k = task => (Failing(k)' <=> TooManyErrors)
    BY <1>2, JudgedWhenScored
  <2>2. task \in Nat \ {0} /\ task \in Tasks /\ aborted = {}
    BY <1>2, TaskFacts DEF ScoreTask, AllEnded, StageRight, Early, Looping, TypeInv, TypeOK
  <2>3. \A k \in Ran : k < task => ~Failing(k)
    BY DEF StageRight
  <2>4. \A k \in 1..(task - 1) : ~Failing(k)'
    BY <2>1, <2>2, <2>3
  <2>5. CASE TooManyErrors /\ LeaveLoop /\ aborted' = Later
    <3>1. phase' = "report" /\ task' = task /\ Later' = Later
      BY <2>5 DEF LeaveLoop, Later
    <3>2. Failing(task)'
      BY <2>1, <2>5, <3>1
    <3>3. \A k \in Ran' : k < task' => ~Failing(k)'
      BY <2>1, <2>2, <2>4, <3>1
    <3>4. Len(summaries') = task' /\ aborted' = Later'
      BY <2>1, <2>5, <3>1
    <3> QED
      BY <3>1, <3>2, <3>3, <3>4 DEF StageRight, Early, Looping, Reported
  <2>6. CASE ~TooManyErrors /\ NextTask /\ UNCHANGED aborted /\ Later = {}
    <3>1. phase' = "report" /\ task' = task /\ Later' = {} /\ aborted' = {}
      BY <2>2, <2>6 DEF NextTask, LeaveLoop, Later
    <3>2. \A k \in Ran' : k < task' => ~Failing(k)'
      BY <2>1, <2>2, <2>4, <3>1
    <3>3. Len(summaries') = task' /\ aborted' = Later'
      BY <2>1, <3>1
    <3> QED
      BY <3>1, <3>2, <3>3 DEF StageRight, Early, Looping, Reported
  <2>7. CASE ~TooManyErrors /\ NextTask /\ UNCHANGED aborted /\ Later # {}
    <3>1. phase' = "probes" /\ task' = task + 1 /\ aborted' = {}
      BY <2>2, <2>7 DEF NextTask
    <3>2. \A k \in 1..task : ~Failing(k)'
      BY <2>1, <2>2, <2>4, <2>7
    <3>3. \A k \in Ran' : k < task' => ~Failing(k)'
      BY <2>1, <2>2, <3>1, <3>2
    <3>4. Len(summaries') = task' - 1
      BY <2>1, <2>2, <3>1
    <3> QED
      BY <3>1, <3>3, <3>4 DEF StageRight, Early, Looping, Reported
  <2> QED
    BY <1>2, <2>5, <2>6, <2>7 DEF ScoreTask
<1> QED
  <2>1. ScoreTask \/ UNCHANGED <<summaries, aborted>>
    BY DEF Next, Runs, vars, start_mock_service, Ready, reset_mock_services, PreflightPasses,
           PreflightFails, run_probe, ProbesDone, WarmedUp, Begin, Falter, Skip, Crash,
           ScorerCrashes, EndItem, stop_mock_service, ChildStopped, ChildBinds, ForeignBinds, ChildEnds,
           Draw, DrawUnheard, OthersCall, OthersReset
  <2> QED
    BY <1>1, <1>2, <2>1

----------------------------------------------------------------------------
(* What is in the summaries.                                               *)

LEMMA InitSummaries == Init => SummariesRight
<1> SUFFICES ASSUME Init PROVE SummariesRight
  OBVIOUS
<1> QED
  BY EmptySeq DEF Init, SummariesRight, Ran

\* A step that leaves the probes' results and the summaries alone.
LEMMA SummariesKept ==
  ASSUME SummariesRight, UNCHANGED <<passed, summaries, failed>>,
         phase' \in {"warmup", "calls"} => phase \in {"warmup", "calls"}
  PROVE  SummariesRight'
  BY DEF SummariesRight, Ran

LEMMA StepSummaries ==
  ASSUME TypeInv, StageRight, SummariesRight, [Next]_vars
  PROVE  SummariesRight'
<1> USE DEF service, progress, calls
<1>1. Len(Probes) \in Nat /\ passed \in Seq(BOOLEAN) /\ Len(passed) \in Nat
      /\ DOMAIN passed = 1..Len(passed) /\ Len(passed) <= Len(Probes)
  <2>1. passed \in Seq(BOOLEAN) /\ Len(passed) <= Len(Probes)
    BY DEF TypeInv, TypeOK
  <2>2. Probes \in Seq(ProbeNames)
    BY HarnessAssumption
  <2> QED
    BY <2>1, <2>2, LenProperties
<1>2. CASE run_probe
  <2> DEFINE n == Len(passed) + 1
  <2>1. PICK v : /\ passed' = Append(passed, v)
                 /\ failed' = IF v THEN failed ELSE failed \cup {Probes[n]}
    BY <1>2 DEF run_probe
  <2>2. phase' = "probes" /\ summaries' = summaries /\ failed \subseteq failed'
    BY <1>2, <2>1 DEF run_probe
  <2>3. v \in BOOLEAN
    <3>1. PICK reply \in ReplyTo(Probes[n]) : passed' = Append(passed, passes(Probes[n], reply))
      BY <1>2 DEF run_probe
    <3>2. Probes[n] \in ProbeNames
      <4>1. n \in 1..Len(Probes)
        BY <1>1, <1>2 DEF run_probe
      <4> QED
        BY <4>1, HarnessAssumption, ElementOfSeq
    <3>3. passes(Probes[n], reply) \in BOOLEAN
      BY <3>2, ProbePassesOrNot
    <3> DEFINE u == passes(Probes[n], reply)
    <3> HIDE DEF u
    <3>4. Append(passed, v) = Append(passed, u)
      BY <2>1, <3>1 DEF u
    <3>5. v = u
      BY <1>1, <3>4, AppendInjective
    <3> QED
      BY <3>3, <3>5 DEF u
  <2>4. /\ DOMAIN passed' = 1..n /\ passed'[n] = v
        /\ \A p \in 1..Len(passed) : passed'[p] = passed[p]
    <3>1. passed' \in Seq(BOOLEAN) /\ Len(passed') = n
      BY <1>1, <2>1, <2>3, AppendProperties
    <3> QED
      BY <1>1, <2>1, <2>3, <3>1, AppendProperties, LenProperties
  <2>5. ASSUME NEW p \in DOMAIN passed', ~passed'[p] PROVE Probes[p] \in failed'
    <3>1. CASE p = n
      BY <2>1, <2>4, <2>5, <3>1
    <3>2. CASE p # n
      <4>1. p \in 1..Len(passed) /\ ~passed[p]
        BY <1>1, <2>4, <2>5, <3>2
      <4> QED
        BY <1>1, <2>2, <4>1 DEF SummariesRight
    <3> QED
      BY <3>1, <3>2
  <2> QED
    BY <2>2, <2>5 DEF SummariesRight, Ran
<1>3. CASE ProbesDone
  BY <1>3 DEF ProbesDone, SummariesRight, Ran
<1>4. CASE ScoreTask
  <2>1. /\ summaries \in Seq(Summaries) /\ summaries' = Append(summaries, Outcome)
        /\ Outcome \in Summaries
    BY <1>4, OutcomeTyped DEF ScoreTask, TypeInv
  <2>2. Len(summaries) = task - 1 /\ task \in Nat \ {0}
    BY <1>4, TaskFacts DEF ScoreTask, AllEnded, StageRight, Looping, TypeInv, TypeOK
  <2>3. /\ Ran = 1..(task - 1) /\ Ran' = 1..task
        /\ \A k \in 1..(task - 1) : summaries'[k] = summaries[k]
        /\ summaries'[task] = Outcome
    BY <2>1, <2>2, AppendProperties, LenProperties DEF Ran
  <2>4. phase = "calls" /\ failed' = failed /\ phase' \in {"report", "probes"}
    BY <1>4 DEF ScoreTask, AllEnded, LeaveLoop, NextTask
  <2>5. passed' = passed \/ passed' = <<>>
    BY <1>4 DEF ScoreTask, LeaveLoop, NextTask
  <2>6. \A p \in DOMAIN passed' : ~passed'[p] => Probes[p] \in failed'
    BY <2>4, <2>5, EmptySeq DEF SummariesRight
  <2>7. ASSUME NEW i \in Current PROVE Outcome.status[i] \in Ended
    <3>1. status[i] \in Statuses
      <4>1. status \in [Items -> Statuses] /\ Current \subseteq Items
        BY TaskFacts DEF TypeInv, TypeOK, Statuses, Current
      <4> QED
        BY <4>1
    <3>2. status[i] \notin {"todo", "flight"}
      BY <1>4 DEF ScoreTask, AllEnded
    <3> QED
      BY <3>1, <3>2 DEF Outcome, Restrict, Statuses, Ended
  <2>8. ASSUME NEW k \in 1..task
        PROVE  /\ \A i \in ToSet(ItemsOf(k)) : summaries'[k].status[i] \in Ended
               /\ Len(summaries'[k].probes) = Len(Probes)
               /\ \A p \in DOMAIN summaries'[k].probes :
                    ~summaries'[k].probes[p] => Probes[p] \in failed
    <3>1. CASE k = task
      BY <2>3, <2>4, <2>7, <3>1 DEF Outcome, Current, SummariesRight
    <3>2. CASE k # task
      <4>1. k \in Ran /\ summaries'[k] = summaries[k]
        BY <2>2, <2>3, <3>2
      <4> QED
        BY <4>1 DEF SummariesRight
    <3> QED
      BY <3>1, <3>2
  <2> QED
    BY <2>3, <2>4, <2>6, <2>8 DEF SummariesRight
<1>5. CASE ~(run_probe \/ ProbesDone \/ ScoreTask)
  <2>1. UNCHANGED <<passed, summaries, failed>>
    BY <1>5 DEF Next, Runs, vars, start_mock_service, Ready, reset_mock_services,
       PreflightPasses, PreflightFails, WarmedUp, Begin, Falter, Skip, Crash,
       ScorerCrashes, EndItem, stop_mock_service, ChildStopped, ChildBinds, ForeignBinds, ChildEnds,
       Draw, DrawUnheard, OthersCall, OthersReset
  <2>2. phase' \in {"warmup", "calls"} => phase \in {"warmup", "calls"}
    BY <1>5 DEF Next, Runs, vars, start_mock_service, Ready, reset_mock_services,
       PreflightPasses, PreflightFails, WarmedUp, Begin, Falter, Skip, Crash,
       ScorerCrashes, EndItem, stop_mock_service, ChildStopped, ChildBinds, ForeignBinds, ChildEnds,
       Draw, DrawUnheard, OthersCall, OthersReset
  <2> QED
    BY <2>1, <2>2, SummariesKept
<1> QED
  BY <1>2, <1>3, <1>4, <1>5

----------------------------------------------------------------------------
(* Who listens on the mock's port.                                         *)

LEMMA InitService == Init => ServiceRight
  BY DEF Init, ServiceRight

LEMMA StepService ==
  ASSUME TypeInv, ServiceRight, [Next]_vars
  PROVE  ServiceRight'
<1> USE DEF service, progress, calls, ServiceRight
<1>1. CASE UNCHANGED <<counters, port, child>> /\ (phase \in Reported => phase' \in Reported)
                                               /\ phase \notin {"stopping", "exited"}
  BY <1>1
<1>2. CASE UNCHANGED <<counters, port, child, phase>>
  BY <1>2
<1>3. CASE start_mock_service
  BY <1>3 DEF start_mock_service
<1>4. ASSUME NEW from, NEW to, reset_mock_services(from, to), from \notin Reported
      PROVE  ServiceRight'
  <2>1. UNCHANGED <<port, child>> /\ (port = "free" => counters' = counters)
    BY <1>4 DEF reset_mock_services
  <2>2. phase = from
    BY <1>4 DEF reset_mock_services
  <2> QED
    BY <1>4, <2>1, <2>2 DEF Reported
<1>5. CASE stop_mock_service
  BY <1>5 DEF stop_mock_service
<1>6. CASE ChildStopped
  BY <1>6 DEF ChildStopped, EndChild
<1>7. CASE ChildBinds
  BY <1>7 DEF ChildBinds
<1>8. CASE ForeignBinds
  BY <1>8 DEF ForeignBinds
<1>9. CASE ChildEnds
  BY <1>9 DEF ChildEnds, EndChild
<1>10. CASE UNCHANGED <<port, child>> /\ port # "free"
  BY <1>10
<1>11. ASSUME NEW i \in Items,
              \/ Begin(i) \/ Falter(i) \/ Skip(i) \/ Crash(i)
              \/ \E o \in {"answered", "misnamed", "error"} : EndItem(i, o)
       PROVE  ServiceRight'
  BY <1>1, <1>11 DEF Begin, Falter, Skip, Crash, EndItem, Reported
<1>12. CASE Ready \/ PreflightPasses \/ PreflightFails \/ run_probe \/ ProbesDone \/ WarmedUp
  BY <1>1, <1>12 DEF Ready, PreflightPasses, PreflightFails, run_probe, ProbesDone, WarmedUp,
                     Reported
<1>13. CASE ScoreTask
  BY <1>1, <1>13 DEF ScoreTask, AllEnded, Reported
<1>14. ASSUME NEW tool \in Tools,
              \/ \E i \in Scenarios : Draw(i, tool) \/ DrawUnheard(i, tool)
              \/ \E key \in OtherKeys : OthersCall(key, tool)
       PROVE  ServiceRight'
  BY <1>10, <1>14 DEF Draw, DrawUnheard, OthersCall
<1>15. ASSUME NEW key \in OtherKeys, OthersReset(key) PROVE ServiceRight'
  BY <1>10, <1>15 DEF OthersReset
<1>16. CASE UNCHANGED vars
  BY <1>2, <1>16 DEF vars
<1>17. CASE ScorerCrashes
  BY <1>1, <1>17 DEF ScorerCrashes, AllEnded, Reported
<1> QED
  BY <1>3, <1>4, <1>5, <1>6, <1>7, <1>8, <1>9, <1>11, <1>12, <1>13, <1>14, <1>15, <1>16, <1>17
     DEF Next, Runs, Reported

----------------------------------------------------------------------------
(* The replay.                                                             *)

\* The responses recorded for tool t in scenario i, from the first on.
InOrder(s, i, t) == s = [n \in DOMAIN s |-> Response(i, t, n - 1)]

LEMMA OneByOne ==
  ASSUME NEW s \in Seq(0..MaxCalls), NEW i, NEW t
  PROVE  InOrder(s, i, t) <=> \A n \in 1..Len(s) : s[n] = Response(i, t, n - 1)
<1>1. DOMAIN s = 1..Len(s) /\ s = [n \in 1..Len(s) |-> s[n]]
  BY LenProperties
<1> QED
  BY <1>1 DEF InOrder

\* Nothing had is nothing out of order.
LEMMA NothingReplayed ==
  ASSUME TypeInv', NEW i \in Items, got'[i] = Nothing
  PROVE  Replayed(i)'
<1>1. ASSUME NEW t \in Tools
      PROVE  InOrder(got'[i][t], i, t)
  <2>1. <<>> \in Seq(0..MaxCalls) /\ Len(<<>>) = 0
    BY EmptySeq
  <2>2. \A n \in 1..Len(<<>>) : <<>>[n] = Response(i, t, n - 1)
    BY <2>1
  <2>3. InOrder(<<>>, i, t)
    BY <2>1, <2>2, OneByOne
  <2>4. got'[i][t] = <<>>
    BY DEF Nothing
  <2> QED
    BY <2>3, <2>4
<1> QED
  BY <1>1 DEF Replayed, InOrder

\* A step that does not touch the item leaves it right.
LEMMA ItemKept ==
  ASSUME NEW m, NEW i, ItemRight(m, i), UNCHANGED <<wiped, task, phase>>,
         status'[i] = status[i], attempt'[i] = attempt[i], got'[i] = got[i],
         Own(i)' = Own(i), i \in stray' => i \in stray
  PROVE  ItemRight(m, i)'
<1>1. Replayed(i)' <=> Replayed(i)
  BY DEF Replayed
<1> QED
  BY <1>1 DEF ItemRight, Current

\* Whatever is not sent outside the calls of its task.
LEMMA ItemAtRest ==
  ASSUME TypeInv', NEW m, NEW i \in Items, status'[i] # "flight", got'[i] = Nothing,
         phase' \notin {"calls", "failed"} => status'[i] = "todo",
         wiped' /\ phase' \in Looping /\ (task' < m \/ (task' = m /\ status'[i] = "todo")) =>
           i \notin stray' /\ Own(i)' = Unused
  PROVE  ItemRight(m, i)'
<1>1. Replayed(i)'
  BY NothingReplayed
<1> QED
  BY <1>1 DEF ItemRight

\* The items the replay is about are items of the one mocked task.
LEMMA ItemFacts ==
  ASSUME NEW m \in Mocked, NEW i \in ToSet(ItemsOf(m)) \ {Smoke(m)}
  PROVE  /\ i \in Items /\ i \in Scenarios /\ <<"own", i>> \in Keys
         /\ m \in Tasks /\ m \in Nat /\ Mocked = {m} /\ i # Smoke(m)
<1>1. m \in Tasks /\ Mocked = {m} /\ ToSet(ItemsOf(m)) \subseteq Scenarios
  BY HarnessAssumption DEF Mocked
<1>2. m \in Nat
  BY <1>1, TaskFacts
<1> QED
  BY <1>1, <1>2, TaskFacts, HarnessAssumption DEF Keys

\* Nobody but the endpoint, for the item itself, calls the item's tools.
LEMMA OthersDrawElsewhere ==
  ASSUME TypeInv, NEW i \in Scenarios, NEW key \in Keys, NEW tool \in Tools,
         counters[key][tool] < MaxCalls, call_tool(key, tool), key # <<"own", i>>
  PROVE  Own(i)' = Own(i)
<1>1. <<"own", i>> \in Keys
  BY HarnessAssumption DEF Keys
<1> QED
  BY <1>1, CallIsCounted DEF Own

\* The endpoint calls a tool for the item.
LEMMA DrawKeepsItem ==
  ASSUME TypeInv, TypeInv', NEW m \in Mocked, NEW i \in ToSet(ItemsOf(m)) \ {Smoke(m)},
         ItemRight(m, i), NEW tool \in Tools, Draw(i, tool)
  PROVE  ItemRight(m, i)'
<1> USE DEF progress
<1> DEFINE n == Own(i)[tool]
           s == got[i][tool]
<1>1. i \in Items /\ <<"own", i>> \in Keys /\ i \in Scenarios
  BY ItemFacts
<1>2. /\ phase = "calls" /\ status[i] = "flight"
      /\ UNCHANGED <<phase, wiped, task, status, attempt, stray>>
      /\ n < MaxCalls /\ call_tool(<<"own", i>>, tool)
  BY DEF Draw, Own
<1>3. \A t \in Tools : Own(i)'[t] = IF t = tool THEN Own(i)[t] + 1 ELSE Own(i)[t]
  BY <1>1, <1>2, CallIsCounted DEF Own
<1>4. got \in [Items -> [Tools -> Seq(0..MaxCalls)]] /\ n \in 0..MaxCalls
  BY <1>1 DEF TypeInv, TypeOK, Responses, Own
<1>5. Response(i, tool, n) \in 0..MaxCalls
  BY <1>1, <1>2, <1>4, ResponseInRange DEF call_tool
<1>6. got'[i] = [got[i] EXCEPT ![tool] = Append(s, Response(i, tool, n))]
  BY <1>1, <1>4 DEF Draw, Own
<1>7. s \in Seq(0..MaxCalls)
  BY <1>1, <1>4
<1> DEFINE r == Response(i, tool, n)
<1>8. r \in 0..MaxCalls /\ got'[i] = [got[i] EXCEPT ![tool] = Append(s, r)]
  BY <1>5, <1>6
<1> HIDE DEF s, n, r
<1>9. /\ Append(s, r) \in Seq(0..MaxCalls) /\ Len(Append(s, r)) = Len(s) + 1
      /\ \A k \in 1..Len(s) : Append(s, r)[k] = s[k]
      /\ Append(s, r)[Len(s) + 1] = r
      /\ Len(s) \in Nat
  BY <1>7, <1>8, AppendProperties, LenProperties
<1>10. got'[i][tool] = Append(s, r) /\ \A t \in Tools : t # tool => got'[i][t] = got[i][t]
  BY <1>1, <1>4, <1>8
<1>11. CASE wiped /\ attempt[i] = 0
  <2>1. \A t \in Tools : InOrder(got[i][t], i, t)
    BY <1>11 DEF ItemRight, Replayed, InOrder
  <2>2. \A k \in 1..Len(s) : s[k] = Response(i, tool, k - 1)
    <3>1. InOrder(s, i, tool)
      BY <2>1 DEF s
    <3> QED
      BY <1>7, <3>1, OneByOne
  <2>3. task = m => i \notin stray /\ \A t \in Tools : Own(i)[t] = Len(got[i][t])
    BY <1>2, <1>11 DEF ItemRight
  <2>4. task = m
    BY ItemFacts DEF Draw
  <2>5. n = Len(s)
    BY <2>3, <2>4 DEF n, s
  <2>6. \A k \in 1..Len(Append(s, r)) : Append(s, r)[k] = Response(i, tool, k - 1)
    <3>1. \A k \in 1..Len(Append(s, r)) : k \in 1..Len(s) \/ k = Len(s) + 1
      BY <1>9
    <3>2. r = Response(i, tool, (Len(s) + 1) - 1)
      BY <1>9, <2>5 DEF r
    <3> QED
      BY <1>9, <2>2, <3>1, <3>2
  <2>7. InOrder(Append(s, r), i, tool)
    BY <1>9, <2>6, OneByOne
  <2>8. Replayed(i)'
    <3>1. \A t \in Tools : InOrder(got'[i][t], i, t)
      BY <1>10, <2>1, <2>7
    <3> QED
      BY <3>1 DEF Replayed, InOrder
  <2>9. \A t \in Tools : Own(i)'[t] = Len(got'[i][t])
    <3>1. Own(i)'[tool] = Len(got'[i][tool])
      BY <1>3, <1>9, <1>10, <2>5 DEF n
    <3>2. \A t \in Tools : t # tool => Own(i)'[t] = Len(got'[i][t])
      BY <1>3, <1>10, <2>3, <2>4
    <3> QED
      BY <3>1, <3>2
  <2>10. m \in Nat /\ i \in Current
    BY <1>2, ItemFacts DEF ItemRight
  <2>11. /\ phase' = "calls" /\ task' = m /\ ~(task' < m) /\ status'[i] = "flight"
         /\ i \notin stray' /\ i \in Current'
    BY <1>2, <2>3, <2>4, <2>10 DEF Current
  <2> QED
    BY <2>8, <2>9, <2>11 DEF ItemRight
<1>12. CASE ~(wiped /\ attempt[i] = 0)
  <2>1. Replayed(i)'
    BY <1>2, <1>12 DEF Replayed
  <2>2. status[i] # "todo" /\ i \in Current
    BY <1>2 DEF ItemRight
  <2>3. task = m
    BY ItemFacts DEF Draw
  <2>4. m \in Nat
    BY ItemFacts
  <2>5. ~(task' < m)
    BY <1>2, <2>3, <2>4
  <2> QED
    BY <1>2, <1>12, <2>1, <2>2, <2>5 DEF ItemRight, Current
<1> QED
  BY <1>11, <1>12

LEMMA StepItem ==
  ASSUME HarnessInv, TypeInv', [Next]_vars,
         NEW m \in Mocked, NEW i \in ToSet(ItemsOf(m)) \ {Smoke(m)}
  PROVE  ItemRight(m, i)'
<1> USE DEF service, progress, calls
<1>1. /\ i \in Items /\ i \in Scenarios /\ <<"own", i>> \in Keys
      /\ m \in Tasks /\ m \in Nat /\ Mocked = {m} /\ i # Smoke(m)
  BY ItemFacts
<1>2. TypeInv /\ StageRight /\ ServiceRight /\ ItemRight(m, i)
  BY DEF HarnessInv
<1>3. /\ status \in [Items -> Statuses] /\ attempt \in [Items -> 0..MaxRetries]
      /\ got \in [Items -> Responses] /\ task \in Nat
  <2>1. task \in Nat
    <3>1. task \in Tasks
      BY <1>2 DEF TypeInv, TypeOK
    <3> QED
      BY <3>1, TaskFacts
  <2> QED
    BY <1>2, <2>1 DEF TypeInv, TypeOK, Statuses
<1>4. task \in Mocked => task = m
  BY <1>1
<1>5. i \in stray' => i \in stray \/ phase = "calls"
  BY <1>1, <1>4 DEF Next, Runs, vars, start_mock_service, Ready, reset_mock_services,
     PreflightPasses, PreflightFails, run_probe, ProbesDone, WarmedUp, Abandons, Begin,
     Falter, Skip, Crash, ScorerCrashes, EndItem, ScoreTask, NewCalls, stop_mock_service,
     ChildStopped, ChildBinds, ForeignBinds, ChildEnds, Draw, DrawUnheard, OthersCall, OthersReset
<1>6. CASE UNCHANGED vars
  BY <1>2, <1>6, ItemKept DEF vars, Own
<1>7. CASE /\ phase \notin {"calls", "failed"} /\ UNCHANGED <<status, got>>
           /\ wiped' /\ phase' \in Looping /\ (task' < m \/ task' = m) =>
                i \notin stray' /\ Own(i)' = Unused
  <2>1. status[i] = "todo" /\ got[i] = Nothing
    BY <1>2, <1>7 DEF ItemRight
  <2> QED
    BY <1>1, <1>7, <2>1, ItemAtRest
<1>8. CASE /\ start_mock_service \/ Ready \/ PreflightPasses \/ PreflightFails
           \/ reset_mock_services("reset", "preflight") \/ ForeignBinds
           \/ stop_mock_service \/ ChildStopped
  <2>1. phase' \notin Looping
    BY <1>8 DEF start_mock_service, Ready, PreflightPasses, PreflightFails,
                reset_mock_services, ForeignBinds, stop_mock_service, ChildStopped, Looping
  <2> QED
    BY <1>7, <1>8, <2>1
       DEF start_mock_service, Ready, PreflightPasses, PreflightFails,
           reset_mock_services, ForeignBinds, stop_mock_service, ChildStopped
<1>9. CASE reset_mock_services("reset again", "probes")
  <2>1. phase = "reset again" /\ UNCHANGED <<status, got, stray, port>> /\ stray = {}
    BY <1>2, <1>9 DEF reset_mock_services, StageRight, Early
  <2>2. wiped' => counters' = Counts(0)
    BY <1>2, <1>9, <2>1, NothingCounted DEF reset_mock_services, reset_all, ServiceRight
  <2>3. wiped' => Own(i)' = Unused
    BY <1>1, <2>2 DEF Own, Counts, Unused
  <2> QED
    BY <1>7, <2>1, <2>3
<1>10. CASE run_probe \/ ProbesDone \/ WarmedUp
  <2>1. /\ phase \in {"probes", "warmup"}
        /\ UNCHANGED <<counters, wiped, task, status, attempt, got>>
    BY <1>10 DEF run_probe, ProbesDone, WarmedUp
  <2>2. status[i] = "todo"
    BY <1>2, <2>1 DEF ItemRight
  <2>3. wiped /\ (task < m \/ task = m) => i \notin stray /\ Own(i) = Unused
    BY <1>2, <2>1, <2>2 DEF ItemRight, Looping
  <2>4. Own(i)' = Own(i)
    BY <2>1 DEF Own
  <2> QED
    BY <1>5, <1>7, <2>1, <2>3, <2>4
<1>11. ASSUME NEW j \in Items \ {i},
              \/ Begin(j) \/ Falter(j) \/ Skip(j)
              \/ \E o \in {"answered", "misnamed", "error"} : EndItem(j, o)
       PROVE  ItemRight(m, i)'
  <2>1. /\ UNCHANGED <<counters, wiped, phase, task>>
        /\ status'[i] = status[i] /\ attempt'[i] = attempt[i] /\ got'[i] = got[i]
    BY <1>1, <1>3, <1>11 DEF Begin, Falter, Skip, EndItem, Ends
  <2>2. i \in stray' => i \in stray
    BY <1>11 DEF Begin, Falter, Skip, EndItem
  <2>3. Own(i)' = Own(i)
    BY <2>1 DEF Own
  <2> QED
    BY <1>2, <2>1, <2>2, <2>3, ItemKept
<1>12. CASE Begin(i)
  <2>1. /\ UNCHANGED <<counters, wiped, phase, task, attempt, got, stray>>
        /\ phase = "calls" /\ status[i] = "todo" /\ status'[i] = "flight" /\ i \in Current
    BY <1>1, <1>3, <1>12 DEF Begin
  <2>2. got[i] = Nothing /\ got'[i] = Nothing
    BY <1>2, <2>1 DEF ItemRight
  <2>3. Replayed(i)'
    BY <1>1, <2>2, NothingReplayed
  <2>4. Own(i)' = Own(i) /\ Current' = Current
    BY <2>1 DEF Own, Current
  <2>5. wiped /\ task <= m => i \notin stray /\ Own(i) = Unused
    BY <1>1, <1>2, <1>3, <2>1 DEF ItemRight, Looping
  <2>6. wiped /\ task = m => \A t \in Tools : Own(i)[t] = Len(got'[i][t])
    <3>1. \A t \in Tools : Len(got'[i][t]) = 0
      BY <2>2, EmptySeq DEF Nothing
    <3>2. \A t \in Tools : Unused[t] = 0
      BY DEF Unused
    <3> QED
      BY <1>1, <2>5, <3>1, <3>2
  <2>7. task' < m => task <= m
    BY <1>1, <1>3, <2>1
  <2>8. task = m => task <= m
    BY <1>1
  <2> QED
    BY <2>1, <2>3, <2>4, <2>5, <2>6, <2>7, <2>8 DEF ItemRight
<1>13. CASE /\ phase = "calls" /\ UNCHANGED <<counters, wiped, phase, task, stray>>
            /\ status'[i] \notin {"todo", "flight"} /\ got'[i] = Nothing
  <2>1. Own(i)' = Own(i)
    BY <1>13 DEF Own
  <2>2. wiped /\ task < m => i \notin stray /\ Own(i) = Unused
    BY <1>2, <1>13 DEF ItemRight, Looping
  <2> QED
    BY <1>1, <1>13, <2>1, <2>2, ItemAtRest
<1>14. CASE \E o \in {"answered", "misnamed", "error"} : EndItem(i, o)
  BY <1>1, <1>3, <1>13, <1>14 DEF EndItem, Ends
<1>15. CASE Skip(i)
  <2>1. got[i] = Nothing
    BY <1>2, <1>15 DEF Skip, ItemRight
  <2> QED
    BY <1>1, <1>3, <1>13, <1>15, <2>1 DEF Skip
<1>16. CASE Falter(i)
  <2>1. /\ UNCHANGED <<counters, wiped, phase, task>> /\ phase = "calls" /\ i \in Current
        /\ status[i] = "flight"
    BY <1>16 DEF Falter
  <2>2. task # m => stray' = stray
    BY <1>1, <1>16 DEF Falter
  <2>3. Own(i)' = Own(i) /\ Current' = Current
    BY <2>1 DEF Own, Current
  <2>4. wiped /\ task < m => i \notin stray' /\ Own(i)' = Unused
    BY <1>1, <1>2, <2>1, <2>2, <2>3 DEF ItemRight, Looping
  <2>5. got'[i] = Nothing
    BY <1>1, <1>3, <1>16 DEF Falter, Ends
  <2>6. CASE status'[i] = "flight" /\ attempt'[i] # 0
    <3>1. Replayed(i)'
      BY <2>6 DEF Replayed
    <3> QED
      BY <2>1, <2>3, <2>4, <2>6, <3>1 DEF ItemRight
  <2>7. CASE status'[i] = "error"
    BY <1>1, <2>1, <2>4, <2>5, <2>7, ItemAtRest
  <2>8. \/ status'[i] = "flight" /\ attempt'[i] # 0
        \/ status'[i] = "error"
    <3>1. CASE AttemptsLeft(i)
      <4>1. attempt'[i] = attempt[i] + 1 /\ attempt[i] \in Nat /\ status' = status
        BY <1>1, <1>3, <1>16, <3>1, HarnessAssumption DEF Falter
      <4> QED
        BY <2>1, <4>1
    <3>2. CASE ~AttemptsLeft(i)
      BY <1>1, <1>3, <1>16, <3>2 DEF Falter, Ends
    <3> QED
      BY <3>1, <3>2
  <2> QED
    BY <2>6, <2>7, <2>8
<1>17. ASSUME NEW j \in Items, Crash(j) PROVE ItemRight(m, i)'
  <2>1. /\ phase = "calls" /\ phase' = "failed"
        /\ UNCHANGED <<wiped, task, status, attempt, got>>
    BY <1>17 DEF Crash
  <2>2. Replayed(i)'
    BY <1>2, <2>1 DEF ItemRight, Replayed
  <2> QED
    BY <1>2, <2>1, <2>2 DEF ItemRight, Current, Looping
<1>18. CASE ScoreTask
  <2>1. /\ phase = "calls" /\ status[i] # "flight"
        /\ UNCHANGED <<counters, wiped, got, stray>> /\ status'[i] = "todo"
    BY <1>1, <1>2, <1>18 DEF ScoreTask, AllEnded, NewCalls, ItemRight
  <2>2. got'[i] = Nothing
    BY <1>2, <2>1 DEF ItemRight
  <2>3. phase' = "report" \/ (phase' = "probes" /\ task' = task + 1)
    BY <1>18 DEF ScoreTask, NextTask, LeaveLoop
  <2>4. wiped /\ task < m => i \notin stray /\ Own(i) = Unused
    BY <1>2, <2>1 DEF ItemRight, Looping
  <2>5. phase' = "probes" /\ (task' < m \/ task' = m) => task < m
    BY <1>1, <1>3, <2>3
  <2>6. Own(i)' = Own(i)
    BY <2>1 DEF Own
  <2>7. wiped' /\ phase' \in Looping /\ (task' < m \/ task' = m) =>
          i \notin stray' /\ Own(i)' = Unused
    BY <2>1, <2>3, <2>4, <2>5, <2>6 DEF Looping
  <2> QED
    BY <1>1, <2>1, <2>2, <2>7, ItemAtRest
<1>19. CASE ChildBinds
  <2>1. /\ UNCHANGED <<wiped, phase, task, status, attempt, got, stray>>
        /\ counters' = counters \/ (port = "free" /\ counters' = Counts(0))
    BY <1>19, NothingCounted DEF ChildBinds, reset_all
  <2>2. CASE counters' = counters
    BY <1>2, <2>1, <2>2, ItemKept DEF Own
  <2>3. CASE port = "free" /\ phase \notin {"stopping", "exited"} /\ counters' = Counts(0)
    BY <1>2, <2>1, <2>3, <2>2 DEF ServiceRight
  <2>4. CASE phase \in {"stopping", "exited"}
    BY <1>7, <2>1, <2>4 DEF Looping
  <2> QED
    BY <2>1, <2>2, <2>3, <2>4
<1>20. CASE ChildEnds
  BY <1>2, <1>20, ItemKept DEF ChildEnds, Own
<1>21. ASSUME NEW j \in Scenarios, NEW tool \in Tools, Draw(j, tool)
       PROVE  ItemRight(m, i)'
  <2>1. CASE j = i
    BY <1>2, <1>21, <2>1, DrawKeepsItem
  <2>2. CASE j # i
    <3>1. <<"own", j>> \in Keys /\ <<"own", j>> # <<"own", i>>
      BY <2>2, HarnessAssumption DEF Keys
    <3>2. Own(i)' = Own(i)
      BY <1>1, <1>2, <1>21, <3>1, OthersDrawElsewhere DEF Draw
    <3>3. got'[i] = got[i]
      BY <1>1, <1>3, <1>21, <2>2 DEF Draw
    <3> QED
      BY <1>2, <1>21, <3>2, <3>3, ItemKept DEF Draw
  <2> QED
    BY <2>1, <2>2
<1>22. ASSUME NEW j \in Scenarios, NEW tool \in Tools, DrawUnheard(j, tool)
       PROVE  ItemRight(m, i)'
  <2>1. UNCHANGED <<wiped, phase, task, status, attempt, got, stray>>
    BY <1>22 DEF DrawUnheard
  <2>2. CASE i \in stray
    <3>1. Replayed(i)'
      BY <1>2, <2>1 DEF ItemRight, Replayed
    <3> QED
      BY <1>2, <2>1, <2>2, <3>1 DEF ItemRight, Current
  <2>3. CASE j # i
    <3>1. <<"own", j>> \in Keys /\ <<"own", j>> # <<"own", i>>
      BY <2>3, HarnessAssumption DEF Keys
    <3>2. Own(i)' = Own(i)
      BY <1>1, <1>2, <1>22, <3>1, OthersDrawElsewhere DEF DrawUnheard
    <3> QED
      BY <1>2, <2>1, <3>2, ItemKept
  <2>4. j = i => i \in stray
    BY <1>1, <1>4, <1>22 DEF DrawUnheard
  <2> QED
    BY <2>2, <2>3, <2>4
<1>23. ASSUME NEW key \in OtherKeys,
              OthersReset(key) \/ \E tool \in Tools : OthersCall(key, tool)
       PROVE  ItemRight(m, i)'
  <2>1. key \in Keys /\ key[1] # "own" /\ key # <<"own", i>>
    BY HarnessAssumption
  <2>2. UNCHANGED <<wiped, phase, task, status, attempt, got, stray>>
    BY <1>23 DEF OthersCall, OthersReset
  <2>3. CASE OthersReset(key)
    <3>1. Own(i)' = Own(i)
      BY <1>1, <1>2, <2>1, <2>3
         DEF OthersReset, reset_session, reset_scenario, Own, TypeInv, TypeOK
    <3> QED
      BY <1>2, <2>2, <3>1, ItemKept
  <2>4. ASSUME NEW tool \in Tools, OthersCall(key, tool) PROVE ItemRight(m, i)'
    <3>1. counters[key][tool] < MaxCalls
      BY <2>4, HarnessAssumption DEF OthersCall
    <3>2. Own(i)' = Own(i)
      BY <1>1, <1>2, <2>1, <2>4, <3>1, OthersDrawElsewhere DEF OthersCall
    <3> QED
      BY <1>2, <2>2, <3>2, ItemKept
  <2> QED
    BY <1>23, <2>3, <2>4
<1>24. CASE ScorerCrashes
  <2>1. /\ phase = "calls" /\ phase' = "failed"
        /\ UNCHANGED <<wiped, task, status, attempt, got>>
    BY <1>24 DEF ScorerCrashes, AllEnded
  <2>2. Replayed(i)'
    BY <1>2, <2>1 DEF ItemRight, Replayed
  <2> QED
    BY <1>2, <2>1, <2>2 DEF ItemRight, Current, Looping
<1> QED
  BY <1>6, <1>8, <1>9, <1>10, <1>11, <1>12, <1>14, <1>15, <1>16, <1>17, <1>18, <1>19,
     <1>20, <1>21, <1>22, <1>23, <1>24
     DEF Next, Runs

LEMMA InitItem ==
  ASSUME Init, NEW m \in Mocked, NEW i \in ToSet(ItemsOf(m)) \ {Smoke(m)}
  PROVE  ItemRight(m, i)
<1>1. i \in Items
  BY ItemFacts
<1> QED
  BY <1>1 DEF Init, ItemRight, Looping, Replayed

----------------------------------------------------------------------------
(* The theorems.                                                           *)

LEMMA HarnessInvariant == Spec => []HarnessInv
<1>1. Init => HarnessInv
  BY InitTyped, InitStage, InitService, InitSummaries, InitItem DEF HarnessInv
<1>2. HarnessInv /\ [Next]_vars => HarnessInv'
  <2> SUFFICES ASSUME HarnessInv, [Next]_vars PROVE HarnessInv'
    OBVIOUS
  <2>1. TypeInv' /\ StageRight' /\ ServiceRight' /\ SummariesRight'
    BY StepTyped, StepStage, StepService, StepSummaries DEF HarnessInv
  <2>2. ASSUME NEW m \in Mocked, NEW i \in ToSet(ItemsOf(m)) \ {Smoke(m)}
        PROVE  ItemRight(m, i)'
    BY <2>1, <2>2, StepItem
  <2> QED
    BY <2>1, <2>2 DEF HarnessInv
<1> QED
  BY <1>1, <1>2, PTL DEF Spec

(* The driver and the mock service keep their variables in their types:    *)
(* no tool is counted past the bound, no summary is kept without a task.   *)
THEOREM TypeCorrect == Spec => []TypeOK
<1>1. HarnessInv => TypeOK
  BY DEF HarnessInv, TypeInv
<1> QED
  BY <1>1, HarnessInvariant, PTL

(* Whoever else calls the mock service, whenever its process comes up, and *)
(* whatever was given up before: the first attempt at every item but the   *)
(* smoke request has the recorded responses from the first one on.         *)
THEOREM LaterItemsReplay == Spec => []LaterItemsReplayed
<1>1. HarnessInv => LaterItemsReplayed
  BY DEF HarnessInv, LaterItemsReplayed, ItemRight
<1> QED
  BY <1>1, HarnessInvariant, PTL

(* Every task is in the report or among the aborted ones, and only the     *)
(* last one that ran may have had too many errors.                         *)
THEOREM EveryTaskAccounted == Spec => []TasksAccounted
<1>1. ASSUME HarnessInv, phase \in Reported PROVE TasksAccounted
  <2>1. /\ Len(summaries) = task /\ aborted = Later /\ (aborted # {} => Failing(task))
        /\ \A k \in Ran : k < task => ~Failing(k)
    BY <1>1 DEF HarnessInv, StageRight
  <2>2. task \in 1..Len(TaskRuns) /\ Tasks = 1..Len(TaskRuns) /\ Len(TaskRuns) \in Nat
    <3>1. task \in Tasks
      BY <1>1 DEF HarnessInv, TypeInv, TypeOK
    <3> QED
      BY <3>1, TaskFacts
  <2>3. Ran = 1..task
    BY <1>1, <2>1, LenProperties DEF HarnessInv, TypeInv, Ran
  <2>4. Later = (task + 1)..Len(TaskRuns)
    BY <2>2 DEF Later
  <2>5. \A k \in Ran : Failing(k) => k = task
    BY <2>1, <2>2, <2>3
  <2> QED
    BY <2>1, <2>2, <2>4, <2>5 DEF TasksAccounted
<1>2. HarnessInv => TasksAccounted
  BY <1>1 DEF TasksAccounted, Reported
<1> QED
  BY <1>2, HarnessInvariant, PTL

----------------------------------------------------------------------------
(* The numbers of the report.                                              *)

LEMMA FiniteItems ==
  /\ IsFiniteSet(Items)
  /\ \A k \in Tasks : /\ IsFiniteSet(ToSet(ItemsOf(k))) /\ ToSet(ItemsOf(k)) # {}
                      /\ IsFiniteSet(DOMAIN ItemsOf(k)) /\ DOMAIN ItemsOf(k) \in SUBSET Int
                      /\ TaskRuns[k].adversarial \in SUBSET Items
<1> DEFINE Run == [items : Seq(Items) \ {<<>>}, adversarial : SUBSET Items, mocked : BOOLEAN]
<1>1. Tasks = 1..Len(TaskRuns) /\ Len(TaskRuns) \in Nat
  BY TaskFacts
<1>2. ASSUME NEW k \in Tasks PROVE TaskRuns[k] \in Run
  BY <1>1, HarnessAssumption, ElementOfSeq
<1>3. ASSUME NEW k \in Tasks
      PROVE  /\ IsFiniteSet(DOMAIN ItemsOf(k)) /\ DOMAIN ItemsOf(k) \in SUBSET Int
             /\ IsFiniteSet(ToSet(ItemsOf(k)))
  <2>1. ItemsOf(k) \in Seq(Items)
    BY <1>2 DEF ItemsOf
  <2>2. DOMAIN ItemsOf(k) = 1..Len(ItemsOf(k)) /\ Len(ItemsOf(k)) \in Nat
    BY <2>1, LenProperties
  <2>3. IsFiniteSet(DOMAIN ItemsOf(k)) /\ DOMAIN ItemsOf(k) \in SUBSET Int
    BY <2>2, FS_Interval
  <2> QED
    BY <2>3, ImageFinite DEF ToSet
<1>4. IsFiniteSet(Items)
  <2> DEFINE f == [k \in Tasks |-> ToSet(ItemsOf(k))]
             F == {f[k] : k \in Tasks}
  <2>1. IsFiniteSet(Tasks)
    BY <1>1, FS_Interval
  <2>2. IsFiniteSet(F)
    BY <2>1, ImageFinite
  <2>3. \A S \in F : IsFiniteSet(S)
    BY <1>3
  <2>4. Items = UNION F
    BY DEF Items
  <2> QED
    BY <2>2, <2>3, <2>4, FS_UNION
<1>5. \A k \in Tasks : ToSet(ItemsOf(k)) # {}
  BY TaskFacts
<1>6. \A k \in Tasks : TaskRuns[k].adversarial \in SUBSET Items
  BY <1>2
<1> QED
  BY <1>3, <1>4, <1>5, <1>6

\* The tasks that ran are tasks.
LEMMA RanFacts ==
  ASSUME HarnessInv
  PROVE  Ran \in SUBSET Tasks /\ Ran = 1..Len(summaries) /\ Len(summaries) \in Nat /\ IsFiniteSet(Ran)
<1>1. summaries \in Seq(Summaries) /\ Len(summaries) <= Len(TaskRuns)
  BY DEF HarnessInv, TypeInv, TypeOK
<1>2. Ran = 1..Len(summaries) /\ Len(summaries) \in Nat
  BY <1>1, LenProperties DEF Ran
<1>3. IsFiniteSet(Ran)
  BY <1>2, FS_Interval
<1> QED
  BY <1>1, <1>2, <1>3, TaskFacts

LEMMA HavingCounts ==
  ASSUME NEW k, NEW S, IsFiniteSet(S), NEW outcomes
  PROVE  Having(k, S, outcomes) \in Nat /\ Having(k, S, outcomes) <= Cardinality(S)
<1> DEFINE H == {i \in S : summaries[k].status[i] \in outcomes}
<1>1. H \in SUBSET S
  OBVIOUS
<1> HIDE DEF H
<1>2. Cardinality(H) \in Nat /\ Cardinality(H) <= Cardinality(S)
  BY <1>1, FS_Subset, FS_CardinalityType
<1> QED
  BY <1>2 DEF Having, H

\* A task's score is one, and its resilience the share of the probes it passed.
LEMMA SummaryBetween ==
  ASSUME HarnessInv, NEW k \in Ran
  PROVE  /\ summary(k).tier1 \in 0..One
         /\ summary(k).api_resilience = api_resilience(summaries[k].probes)
<1> DEFINE items == ToSet(ItemsOf(k))
           adversarial == TaskRuns[k].adversarial
           Earned(some) == Frac(Having(k, some, {"answered"}), Cardinality(some))
           results == [n \in DOMAIN ItemsOf(k) |->
                         [ok |-> summaries[k].status[ItemsOf(k)[n]] # "error",
                          ms |-> 1000, model |-> <<"gpt-5">>]]
           passing == api_resilience(summaries[k].probes)
           efficiency == compute_efficiency(compute_latency_score(results, Thresholds),
                                            cost_score(results))
           accuracy == Earned(IF adversarial = {} THEN items ELSE adversarial)
<1>1. k \in Tasks
  BY RanFacts
<1>2. ASSUME NEW S, IsFiniteSet(S), S # {} PROVE Earned(S) \in 0..One
  <2>1. /\ Having(k, S, {"answered"}) \in Nat
        /\ Having(k, S, {"answered"}) <= Cardinality(S)
    BY <1>2, HavingCounts
  <2>2. Cardinality(S) \in Nat \ {0}
    BY <1>2, FS_CardinalityType, FS_EmptySet
  <2> QED
    BY <2>1, <2>2, FracBetween
<1>3. Earned(items) \in 0..One
  BY <1>1, <1>2, FiniteItems
<1>4. accuracy \in 0..One
  <2>1. IsFiniteSet(adversarial)
    BY <1>1, FiniteItems, FS_Subset
  <2> QED
    BY <1>2, <1>3, <2>1
<1>5. efficiency \in 0..One
  <2>1. DOMAIN results = DOMAIN ItemsOf(k)
    OBVIOUS
  <2>2. IsFiniteSet(DOMAIN results) /\ DOMAIN results \in SUBSET Int
    BY <1>1, <2>1, FiniteItems
  <2>3. \A n \in DOMAIN results : results[n].ms \in Int /\ results[n].model = <<"gpt-5">>
    OBVIOUS
  <2> HIDE DEF results
  <2>4. compute_latency_score(results, Thresholds) \in 0..One
    <3> DEFINE th == Thresholds
    <3>1. /\ th.best50 \in Int /\ th.worst50 \in Int /\ th.best50 <= th.worst50
          /\ th.best95 \in Int /\ th.worst95 \in Int /\ th.best95 <= th.worst95
      BY DEF Thresholds
    <3> HIDE DEF th
    <3>2. compute_latency_score(results, th) \in 0..One
      BY <2>2, <2>3, <3>1, LatencyBetween
    <3> QED
      BY <3>2 DEF th
  <2>5. cost_score(results) \in 0..One
    <3>1. ASSUME NEW piece PROVE <<piece>> \in Seq({piece})
      OBVIOUS
    <3>2. \A n \in DOMAIN results : results[n].model \in Seq({"gpt-5"})
      BY <2>3, <3>1
    <3> QED
      BY <2>2, <3>2, CostBetween
  <2> QED
    BY <2>4, <2>5, LayersBetween
<1>6. passing \in 0..One
  <2>1. IsFiniteSet(DOMAIN summaries[k].probes)
    <3>1. summaries[k].probes \in Seq(BOOLEAN)
      <4>1. summaries \in Seq(Summaries)
        BY DEF HarnessInv, TypeInv
      <4>2. summaries[k] \in Summaries
        BY <4>1, RanFacts, ElementOfSeq
      <4> QED
        BY <4>2 DEF Summaries
    <3> QED
      BY <3>1, LenProperties, FS_Interval
  <2> QED
    BY <2>1, ResilienceShare
<1>7. summary(k) = [tier1 |-> compute_tier1(Earned(items), efficiency,
                                            compute_robustness(accuracy, passing)),
                    api_resilience |-> passing]
  BY DEF summary
<1> HIDE DEF Earned, efficiency, accuracy, passing
<1>8. compute_robustness(accuracy, passing) \in 0..One
  BY <1>4, <1>6, LayersBetween
<1>9. compute_tier1(Earned(items), efficiency, compute_robustness(accuracy, passing)) \in 0..One
  BY <1>3, <1>5, <1>8, LayersBetween
<1> QED
  BY <1>7, <1>9 DEF passing

\* Each item of a task that ran is counted once, under either heading.
LEMMA ItemsCounted ==
  ASSUME HarnessInv
  PROVE  items_scored + items_errored
           = Cardinality(UNION {{k} \X ToSet(ItemsOf(k)) : k \in Ran})
<1> DEFINE ItemsIn(k) == ToSet(ItemsOf(k))
           u == [k \in Ran |-> Having(k, ItemsIn(k), {"answered", "error"})]
           v == [k \in Ran |-> Having(k, ItemsIn(k), {"misnamed"})]
           w == [k \in Ran |-> u[k] + v[k]]
           F == [k \in Ran |-> {k} \X ItemsIn(k)]
<1>1. \A k \in Ran : IsFiniteSet(ItemsIn(k))
  BY RanFacts, FiniteItems
<1>2. IsFiniteSet(Ran)
  BY RanFacts
<1>3. Summable(u, Ran) /\ Summable(v, Ran)
  <2>1. \A k \in Ran : u[k] \in Nat /\ v[k] \in Nat
    BY <1>1, HavingCounts
  <2> QED
    BY <1>2, <2>1 DEF Summable
<1>4. ASSUME NEW k \in Ran
      PROVE  IsFiniteSet(F[k]) /\ w[k] = Cardinality(F[k])
  <2> DEFINE S == ItemsIn(k)
             A == {i \in S : summaries[k].status[i] \in {"answered", "error"}}
             M == {i \in S : summaries[k].status[i] \in {"misnamed"}}
  <2>1. IsFiniteSet(S) /\ A \in SUBSET S /\ M \in SUBSET S
    BY <1>1
  <2>2. IsFiniteSet(A) /\ IsFiniteSet(M)
    BY <2>1, FS_Subset
  <2>3. A \cup M = S /\ A \cap M = {}
    BY DEF HarnessInv, SummariesRight, Ended
  <2>4. w[k] = Cardinality(A) + Cardinality(M)
    BY DEF Having
  <2>5. F[k] = {k} \X S
    OBVIOUS
  <2>6. IsFiniteSet({k}) /\ Cardinality({k}) = 1
    BY FS_Singleton
  <2> HIDE DEF S, A, M, w, F
  <2>7. IsFiniteSet(F[k]) /\ Cardinality(F[k]) = 1 * Cardinality(S)
    BY <2>1, <2>5, <2>6, FS_Product
  <2>8. Cardinality(S) = Cardinality(A) + Cardinality(M) - Cardinality(A \cap M)
    BY <2>2, <2>3, FS_Union
  <2>9. Cardinality(A \cap M) = 0
    BY <2>3, FS_EmptySet
  <2>10. Cardinality(A) \in Nat /\ Cardinality(M) \in Nat
    BY <2>2, FS_CardinalityType
  <2> DEFINE a == Cardinality(A)
             m == Cardinality(M)
             o == Cardinality(A \cap M)
             s == Cardinality(S)
  <2>11. s = a + m - o /\ o = 0 /\ a \in Nat /\ m \in Nat
    BY <2>8, <2>9, <2>10
  <2>12. w[k] = a + m /\ Cardinality(F[k]) = 1 * s
    BY <2>4, <2>7
  <2> HIDE DEF a, m, o, s
  <2>13. w[k] = Cardinality(F[k])
    BY <2>11, <2>12
  <2> QED
    BY <2>7, <2>13
<1>5. \A j, k \in Ran : j # k => F[j] \cap F[k] = {}
  OBVIOUS
<1>6. SumFunctionOnSet(w, Ran) = SumFunctionOnSet(u, Ran) + SumFunctionOnSet(v, Ran)
  <2>1. \A k \in Ran : w[k] = u[k] + v[k]
    OBVIOUS
  <2> HIDE DEF u, v, w
  <2> QED
    BY <1>3, <2>1, SumPlus
<1>7. SumFunctionOnSet(w, Ran) = Cardinality(UNION {F[k] : k \in Ran})
  <2> HIDE DEF w, F
  <2> QED
    BY <1>2, <1>4, <1>5, SumCounts
<1>8. {F[k] : k \in Ran} = {{k} \X ItemsIn(k) : k \in Ran}
  OBVIOUS
<1>9. /\ items_scored = SumFunctionOnSet(u, Ran)
      /\ items_errored = SumFunctionOnSet(v, Ran)
  BY DEF items_scored, items_errored, Counted, SumFunction
<1> HIDE DEF u, v, w, F
<1>10. Cardinality(UNION {{k} \X ItemsIn(k) : k \in Ran})
         = SumFunctionOnSet(u, Ran) + SumFunctionOnSet(v, Ran)
  BY <1>6, <1>7, <1>8
<1> QED
  BY <1>9, <1>10

\* The composite lies between the best and the worst of the tasks that ran.
LEMMA TotalBetween ==
  ASSUME HarnessInv, Ran # {}
  PROVE  LET tier1s == {summary(k).tier1 : k \in Ran}
         IN  Min(tier1s) <= total /\ total <= Max(tier1s)
<1> DEFINE w == [k \in Ran |-> summary(k).tier1]
           tier1s == {w[k] : k \in Ran}
<1>1. IsFiniteSet(Ran)
  BY RanFacts
<1>2. \A k \in Ran : w[k] \in Int
  <2>1. \A k \in Ran : w[k] \in 0..One
    BY SummaryBetween
  <2> QED
    BY <2>1, ScoreAssumption
<1>3. DOMAIN w = Ran /\ total = MeanOf(w)
  BY DEF total, compute_fdebench_composite
<1>4. tier1s = {summary(k).tier1 : k \in Ran}
  OBVIOUS
<1> HIDE DEF w
<1>5. Summable(w, DOMAIN w)
  BY <1>1, <1>2, <1>3 DEF Summable
<1>6. IsFiniteSet(tier1s) /\ tier1s \in SUBSET Int /\ tier1s # {}
  <2>1. IsFiniteSet(tier1s)
    BY <1>1, ImageFinite
  <2> QED
    BY <1>2, <2>1
<1>7. /\ Max(tier1s) \in Int /\ Min(tier1s) \in Int
      /\ \A y \in tier1s : Min(tier1s) <= y /\ y <= Max(tier1s)
  BY <1>6, MaxMin
<1>8. \A k \in DOMAIN w : Min(tier1s) <= w[k] /\ w[k] <= Max(tier1s)
  BY <1>3, <1>7
<1> DEFINE lo == Min(tier1s)
           hi == Max(tier1s)
<1>9. lo \in Int /\ hi \in Int /\ \A k \in DOMAIN w : lo <= w[k] /\ w[k] <= hi
  BY <1>7, <1>8
<1> HIDE DEF lo, hi
<1>10. lo <= MeanOf(w) /\ MeanOf(w) <= hi
  BY <1>3, <1>5, <1>9, MeanBetween
<1> QED
  BY <1>3, <1>4, <1>10 DEF lo, hi

\* What failed for one task failed for the run, and no more than that.
LEMMA ResilienceLeast ==
  ASSUME HarnessInv, NEW k \in Ran
  PROVE  resilience <= summary(k).api_resilience
<1> DEFINE probes == summaries[k].probes
           N == Len(Probes)
           P == {p \in DOMAIN probes : probes[p]}
           X == {p \in DOMAIN probes : ~probes[p]}
<1>1. probes \in Seq(BOOLEAN) /\ Len(probes) = N
  <2>1. summaries \in Seq(Summaries)
    BY DEF HarnessInv, TypeInv
  <2>2. summaries[k] \in Summaries
    BY <2>1, RanFacts, ElementOfSeq
  <2> QED
    BY <2>2 DEF Summaries, HarnessInv, SummariesRight
<1>2. N \in Nat \ {0} /\ DOMAIN Probes = 1..N
  <2>1. Probes \in Seq(ProbeNames) /\ Probes # <<>>
    BY HarnessAssumption
  <2> QED
    BY <2>1, LenProperties, EmptySeq
<1>3. DOMAIN probes = 1..N /\ IsFiniteSet(1..N) /\ Cardinality(1..N) = N
  <2>1. DOMAIN probes = 1..N
    BY <1>1, LenProperties
  <2>2. IsFiniteSet(1..N) /\ Cardinality(1..N) = N
    BY <1>2, FS_Interval
  <2> QED
    BY <2>1, <2>2
<1> HIDE DEF N
<1>4. P \in SUBSET (1..N) /\ X \in SUBSET (1..N) /\ P \cup X = 1..N /\ P \cap X = {}
  BY <1>3
<1>5. IsFiniteSet(P) /\ IsFiniteSet(X)
  BY <1>3, <1>4, FS_Subset
<1>6. IsFiniteSet(failed) /\ Cardinality(failed) <= N
  <2>1. failed \subseteq ToSet(Probes)
    BY DEF HarnessInv, TypeInv, TypeOK
  <2>2. IsFiniteSet(ToSet(Probes)) /\ Cardinality(ToSet(Probes)) <= Cardinality(1..N)
    BY <1>2, <1>3, ImageFinite DEF ToSet
  <2>3. /\ Cardinality(failed) \in Nat /\ Cardinality(ToSet(Probes)) \in Nat
        /\ IsFiniteSet(failed) /\ Cardinality(failed) <= Cardinality(ToSet(Probes))
    BY <2>1, <2>2, FS_Subset, FS_CardinalityType
  <2> QED
    BY <1>2, <1>3, <2>2, <2>3
<1>7. Cardinality(X) <= Cardinality(failed)
  <2> DEFINE f == [p \in X |-> Probes[p]]
  <2>1. \A p \in X : Probes[p] \in failed
    BY DEF HarnessInv, SummariesRight
  <2>2. \A p, q \in X : Probes[p] = Probes[q] => p = q
    BY <1>2, <1>4, HarnessAssumption DEF IsInjective
  <2>3. f \in [X -> failed]
    BY <2>1
  <2>4. IsInjective(f)
    BY <2>2 DEF IsInjective
  <2>5. f \in Injection(X, failed)
    BY <2>3, <2>4 DEF Injection
  <2> QED
    BY <1>6, <2>5, FS_Injection
<1> DEFINE a == Cardinality(P)
           b == Cardinality(X)
           c == Cardinality(failed)
           o == Cardinality(P \cap X)
<1>8. /\ a \in Nat /\ b \in Nat /\ c \in Nat /\ b <= c /\ c <= N /\ o = 0
      /\ N = a + b - o
  <2> HIDE DEF P, X
  <2>1. Cardinality(1..N) = Cardinality(P) + Cardinality(X) - Cardinality(P \cap X)
    BY <1>4, <1>5, FS_Union
  <2> QED
    BY <1>3, <1>4, <1>5, <1>6, <1>7, <2>1, FS_CardinalityType, FS_EmptySet
<1>9. api_resilience(probes) = Frac(a, N)
  <2>1. IsFiniteSet(DOMAIN probes) /\ Cardinality(DOMAIN probes) = N
    BY <1>3
  <2>2. N # 0
    BY <1>2
  <2> QED
    BY <2>1, <2>2, ResilienceShare
<1>10. resilience = Frac(N - c, N)
  BY DEF resilience, N
<1> HIDE DEF a, b, c, o, P, X
<1>11. N - c \in Nat /\ N - c <= a
  BY <1>2, <1>8
<1>12. (N - c) * N <= a * N
  BY <1>2, <1>8, <1>11
<1>13. Frac(N - c, N) <= Frac(a, N)
  BY <1>2, <1>8, <1>11, <1>12, FracMonotone
<1> QED
  BY <1>9, <1>10, <1>13, SummaryBetween DEF a, P

(* Every task is accounted for in the report, each item of those that ran  *)
(* is counted once, the composite lies between the tasks' scores and no    *)
(* task is less resilient than the run.                                    *)
THEOREM ReportIsSound == Spec => []ReportAccounts
<1>1. HarnessInv /\ TasksAccounted => ReportAccounts
  <2> SUFFICES ASSUME HarnessInv, TasksAccounted, phase \in Reported PROVE ReportAccounts
    BY DEF ReportAccounts, Reported
  <2>1. Ran # {}
    BY RanFacts DEF TasksAccounted, Reported
  <2>2. items_scored + items_errored
          = Cardinality(UNION {{k} \X ToSet(ItemsOf(k)) : k \in Ran})
    BY ItemsCounted
  <2>3. LET tier1s == {summary(k).tier1 : k \in Ran}
        IN  Min(tier1s) <= total /\ total <= Max(tier1s)
    BY <2>1, TotalBetween
  <2>4. \A k \in Ran : resilience <= summary(k).api_resilience
    BY ResilienceLeast
  <2> QED
    BY <2>2, <2>3, <2>4 DEF ReportAccounts
<1> QED
  BY <1>1, HarnessInvariant, EveryTaskAccounted, PTL

(* Somebody else's mock service is never stopped, and a run that ends with *)
(* its report leaves none of its own.                                      *)
THEOREM MockLeft == Spec => MockLeftAsFound
<1> DEFINE Left == /\ port = "foreign" => port' = "foreign"
                   /\ phase' = "exited" => child' \in {"none", "dead"} /\ port' # "child"
<1>1. HarnessInv /\ [Next]_vars => [Left]_vars
  <2> USE DEF service, progress, calls
  <2> SUFFICES ASSUME HarnessInv, Next PROVE Left
    OBVIOUS
  <2>1. child = "up" <=> port = "child"
    BY DEF HarnessInv, ServiceRight
  <2>2. port = "foreign" => port' = "foreign"
    BY <2>1 DEF Next, Runs, start_mock_service, Ready, reset_mock_services,
       PreflightPasses, PreflightFails, run_probe, ProbesDone, WarmedUp, Begin,
       Falter, Skip, Crash, ScorerCrashes, EndItem, ScoreTask, stop_mock_service, ChildStopped, EndChild,
       ChildBinds, ForeignBinds, ChildEnds, Draw, DrawUnheard, OthersCall, OthersReset
  <2>3. phase' = "exited" => stop_mock_service \/ ChildStopped
    BY DEF Next, Runs, start_mock_service, Ready, reset_mock_services,
       PreflightPasses, PreflightFails, run_probe, ProbesDone, WarmedUp, Begin,
       Falter, Skip, Crash, ScorerCrashes, EndItem, ScoreTask, AllEnded, NextTask, LeaveLoop,
       ChildBinds, ForeignBinds, ChildEnds, Draw, DrawUnheard, OthersCall, OthersReset,
       Calling, Over
  <2>4. CASE stop_mock_service
    BY <2>1, <2>2, <2>4 DEF stop_mock_service
  <2>5. CASE ChildStopped
    BY <2>1, <2>2, <2>5 DEF ChildStopped, EndChild
  <2> QED
    BY <2>2, <2>3, <2>4, <2>5
<1> QED
  BY <1>1, HarnessInvariant, PTL DEF Spec, MockLeftAsFound

=============================================================================
