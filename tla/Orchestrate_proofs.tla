-------------------------- MODULE Orchestrate_proofs --------------------------
(***************************************************************************)
(* The orchestration loop, for every planner, every set of calls and every *)
(* cap and retry budget: steps follow the plan, tools follow each other,   *)
(* the answer of a loop that ran to its end tells the truth, and a         *)
(* workflow that is answered sends nothing more unless a call has raised.  *)
(***************************************************************************)
EXTENDS Orchestrate, FiniteSetTheorems, SequenceTheorems, TLAPS

ToolCalls  == [tool : STRING, args : STRING]
CallStates == Pending \cup Resolved \cup {"raised", "wire", "gone"}

\* Every variable has its type, and there is one entry for each planned call.
TypeInv ==
  /\ phase \in {"planning", "executing", "answered"}
  /\ round \in 0..MaxRounds
  /\ seen \subseteq Batches
  /\ decision \in [status : {"completed", "partial", "failed"},
                   complete : BOOLEAN, capped : BOOLEAN]
  /\ planned \in Seq(ToolCalls)
  /\ call \in [1..Len(planned) -> CallStates]
  /\ tries \in [1..Len(planned) -> 0..(MaxToolRetries + 1)]
  /\ effects \in [1..Len(planned) -> Nat]
  /\ steps \in Seq(BOOLEAN)
  /\ Len(steps) <= Len(planned) /\ Len(planned) <= MaxToolCalls
  /\ answer \in [status : {"none", "completed", "partial", "failed"},
                 steps : Seq(BOOLEAN),
                 by : {"none", "loop", "planner", "crash", "timeout"}]

(* One planned call.  Every request but the last one has failed and been   *)
(* counted, so the tool service has applied the call at most once for each *)
(* failed attempt, and once more if the last request got that far.         *)
CallRight(i) ==
  /\ call[i] = "ready" => effects[i] = 0
  /\ call[i] \in Pending => tries[i] <= MaxToolRetries
  /\ call[i] \in {"applied", "ok"} => effects[i] > 0
  /\ effects[i] <= tries[i] + 1
  /\ call[i] \in {"sent", "wire", "backoff"} => effects[i] <= tries[i]
  /\ planned[i] \in Rejected \cup Poison =>
       effects[i] = 0 /\ call[i] \in {"ready", "bad", "raised"}

(* The calls behind the current group have not begun, and those of the     *)
(* group begin together.                                                   *)
GroupsRight == phase = "executing" =>
  /\ \A i \in Left \ Group : call[i] = "ready"
  /\ (\A i \in Group : call[i] = "ready") \/ (\A i \in Group : call[i] # "ready")

\* Where a call stands that the client has still in hand.
Live == {"sent", "applied", "backoff", "stuck"}

(* The planner is asked only while rounds and calls are left and nothing   *)
(* is outstanding; the loop's own answer is its trace, whole; any other    *)
(* answer is a failure; and if no call has raised, an answer leaves        *)
(* nothing of the client behind.                                           *)
PhaseRight ==
  /\ phase = "planning" =>
       round < MaxRounds /\ Len(steps) = Len(planned) /\ Len(planned) < MaxToolCalls
  /\ phase # "answered" => answer = NoAnswer
  /\ answer.by = "loop" => answer.steps = steps /\ Len(steps) = Len(planned)
  /\ answer.by # "loop" => answer.status # "completed"
  /\ phase = "answered" =>
       \/ \E i \in 1..Len(planned) : call[i] = "raised"
       \/ \A i \in 1..Len(planned) : call[i] \notin Live

LoopInv == /\ TypeInv
           /\ \A i \in 1..Len(planned) : CallRight(i)
           /\ StepsFollowPlan
           /\ GroupsRight
           /\ PhaseRight
           /\ CompletedIsWhole

----------------------------------------------------------------------------
(* What the proofs need of numbers and sequences.                          *)

\* A set of naturals that is not empty has a least element.
LEMMA LeastNatural ==
  ASSUME NEW T, T \subseteq Nat, T # {}
  PROVE  \E m \in T : \A k \in T : m <= k
<1>1. PICK m \in T : \A k \in T : ~ (<<k, m>> \in OpToRel(<, Nat))
  BY NatLessThanWellFounded, WFMin
<1>2. \A k \in T : ~(k < m)
  BY <1>1 DEF OpToRel
<1> QED
  BY <1>2

\* A function on 1..n is a sequence of length n.
LEMMA FunctionIsSeq ==
  ASSUME NEW S, NEW n \in Nat, NEW f \in [1..n -> S]
  PROVE  f \in Seq(S) /\ Len(f) = n
  OBVIOUS

\* One value n times over.
Fill(n, v) == [i \in 1..n |-> v]

\* f has an entry in S for each of n planned calls.
Table(f, n, S) == f \in [1..n -> S]

\* g repeats the n entries of f and has m more, all of them v.
Grown(g, f, n, m, v) ==
  /\ \A i \in 1..n : g[i] = f[i]
  /\ \A i \in (n + 1)..(n + m) : g[i] = v

\* Entries appended for newly planned calls leave those of the others alone.
LEMMA Extended ==
  ASSUME NEW S, NEW n \in Nat, NEW f, Table(f, n, S), NEW m \in Nat, NEW v \in S
  PROVE  /\ Table(f \o Fill(m, v), n + m, S)
         /\ Grown(f \o Fill(m, v), f, n, m, v)
<1> DEFINE h == Fill(m, v)
<1>1. f \in Seq(S) /\ Len(f) = n
  BY FunctionIsSeq DEF Table
<1>2. h \in Seq(S) /\ Len(h) = m /\ \A i \in 1..m : h[i] = v
  BY FunctionIsSeq DEF Fill
<1> HIDE DEF h
<1>3. /\ f \o h \in Seq(S) /\ Len(f \o h) = n + m
      /\ \A i \in 1..(n + m) : (f \o h)[i] = IF i <= n THEN f[i] ELSE h[i - n]
  BY <1>1, <1>2, ConcatProperties
<1>4. Table(f \o h, n + m, S)
  BY <1>3, LenProperties DEF Table
<1>5. \A i \in 1..n : (f \o h)[i] = f[i]
  BY <1>3
<1>6. ASSUME NEW i \in (n + 1)..(n + m) PROVE (f \o h)[i] = v
  <2>1. i \in 1..(n + m) /\ ~(i <= n) /\ i - n \in 1..m
    BY <1>6
  <2> QED
    BY <1>2, <1>3, <2>1
<1> QED
  BY <1>4, <1>5, <1>6 DEF h, Grown

(* The group is a stretch of the plan that begins with the first call that *)
(* has no step: Collect, which counts the group, appends one step for each *)
(* of its calls.                                                           *)
LEMMA GroupIsStretch ==
  ASSUME TypeInv
  PROVE  \E n \in 0..(Len(planned) - Len(steps)) :
           /\ Group = (Len(steps) + 1)..(Len(steps) + n)
           /\ Cardinality(Group) = n
           /\ Left # {} => n > 0
<1> DEFINE L == Len(steps)
           N == Len(planned)
           Others == Left \ Group
<1>1. L \in Nat /\ N \in Nat /\ L <= N
  BY LenProperties DEF TypeInv
<1>2. Left = (L + 1)..N /\ Group \subseteq Left
  BY DEF Left, Group
<1>3. ASSUME NEW i \in Group, NEW j \in (L + 1)..i PROVE j \in Group
  <2>1. j \in Left
    BY <1>1, <1>2, <1>3
  <2>2. \A k \in (L + 1)..j : k \in (L + 1)..i
    BY <1>1, <1>2, <1>3
  <2> QED
    BY <1>3, <2>1, <2>2 DEF Group
<1>4. Left # {} => L + 1 \in Group
  <2>1. Left # {} => L + 1 \in Left
    BY <1>1, <1>2
  <2>2. \A j \in (L + 1)..(L + 1) : j = L + 1
    BY <1>1
  <2> QED
    BY <2>1, <2>2 DEF Group
<1> HIDE DEF L, N
<1>5. \E n \in 0..(N - L) : Group = (L + 1)..(L + n)
  <2>1. CASE Others = {}
    <3>1. Group = (L + 1)..N
      BY <1>2, <2>1
    <3>2. N - L \in 0..(N - L) /\ L + (N - L) = N
      BY <1>1
    <3> QED
      BY <3>1, <3>2
  <2>2. CASE Others # {}
    <3>1. Others \subseteq Nat
      BY <1>1, <1>2
    <3>2. PICK m \in Others : \A k \in Others : m <= k
      BY <2>2, <3>1, LeastNatural
    <3>3. m \in (L + 1)..N /\ m \notin Group
      BY <1>2, <3>2
    <3>4. Group = (L + 1)..(m - 1)
      <4>1. ASSUME NEW i \in (L + 1)..(m - 1) PROVE i \in Group
        <5>1. i \in Left /\ ~(m <= i)
          BY <1>1, <1>2, <3>3, <4>1
        <5> QED
          BY <3>2, <5>1
      <4>2. ASSUME NEW i \in Group PROVE i \in (L + 1)..(m - 1)
        <5>1. i \in (L + 1)..N
          BY <1>2
        <5>2. ~(m <= i)
          BY <1>1, <1>3, <3>3, <5>1
        <5> QED
          BY <1>1, <3>3, <5>1, <5>2
      <4> QED
        BY <4>1, <4>2
    <3>5. m - 1 - L \in 0..(N - L) /\ L + (m - 1 - L) = m - 1
      BY <1>1, <3>3
    <3> QED
      BY <3>4, <3>5
  <2> QED
    BY <2>1, <2>2
<1>6. PICK n \in 0..(N - L) : Group = (L + 1)..(L + n)
  BY <1>5
<1>7. Cardinality(Group) = n
  BY <1>1, <1>6, FS_Interval
<1>8. Left # {} => n > 0
  BY <1>1, <1>4, <1>6
<1> QED
  BY <1>6, <1>7, <1>8 DEF L, N

----------------------------------------------------------------------------
(* One lemma per kind of step: it keeps the inductive invariant.           *)

\* There is one entry for each planned call.
LEMMA CallLength == TypeInv => Len(call) = Len(planned) /\ Len(planned) \in Nat /\ Len(steps) \in Nat
  BY LenProperties, FunctionIsSeq DEF TypeInv

\* What is counted of a planned call is a number.
LEMMA CallCounts ==
  ASSUME TypeInv, NEW i \in 1..Len(planned)
  PROVE  tries[i] \in Nat /\ tries[i] <= MaxToolRetries + 1 /\ effects[i] \in Nat
<1>1. tries[i] \in 0..(MaxToolRetries + 1) /\ effects[i] \in Nat
  BY DEF TypeInv
<1>2. MaxToolRetries \in Nat
  BY OrchestrateAssumption DEF OrchestrateAssumption
<1> QED
  BY <1>1, <1>2

\* What the cap lets in of a batch are tool calls, and no more than it has room for.
LEMMA AdmittedFits ==
  ASSUME TypeInv, NEW b \in Batches
  PROVE  /\ Admitted(b) \in Seq(ToolCalls)
         /\ Len(Admitted(b)) <= MaxToolCalls - Len(steps)
<1>1. b \in Seq(ToolCalls) /\ Len(b) \in Nat
  BY OrchestrateAssumption, LenProperties DEF OrchestrateAssumption, ToolCalls
<1> DEFINE room == MaxToolCalls - Len(steps)
           n == IF Len(b) <= room THEN Len(b) ELSE room
<1>2. room \in Nat
  BY CallLength, OrchestrateAssumption DEF TypeInv, OrchestrateAssumption
<1>3. n \in 0..Len(b) /\ n <= room
  BY <1>1, <1>2
<1>4. \A k \in 1..n : b[k] \in ToolCalls
  BY <1>1, <1>3, ElementOfSeq
<1>5. Admitted(b) = SubSeq(b, 1, n)
  BY DEF Admitted
<1> HIDE DEF n, room
<1>6. SubSeq(b, 1, n) \in Seq(ToolCalls) /\ Len(SubSeq(b, 1, n)) = n
  BY <1>3, <1>4, SubSeqProperties
<1> QED
  BY <1>3, <1>5, <1>6 DEF room

\* The loop is left: the answer is the trace, and it is whole.
LEMMA FinishKeeps ==
  ASSUME LoopInv, NEW status \in {"completed", "partial", "failed"}, NEW natural \in BOOLEAN,
         Finish(status, natural), Len(steps) = Len(planned),
         round' \in 0..MaxRounds,
         decision' \in [status : {"completed", "partial", "failed"},
                        complete : BOOLEAN, capped : BOOLEAN],
         natural => decision'.complete /\ ~decision'.capped /\ decision'.status = status,
         UNCHANGED <<seen, planned, call, tries, effects, steps>>
  PROVE  LoopInv'
<1> USE DEF LoopInv
<1>1. answer' = [status |-> FinalStatus(status, natural), steps |-> steps, by |-> "loop"]
      /\ phase' = "answered"
  BY DEF Finish
<1>2. FinalStatus(status, natural) \in {"completed", "partial", "failed"}
      /\ (FinalStatus(status, natural) = "completed" => natural /\ status = "completed")
  BY DEF FinalStatus
<1>3. TypeInv'
  BY <1>1, <1>2 DEF TypeInv
<1>4. (\A i \in 1..Len(planned) : CallRight(i))' /\ StepsFollowPlan'
  BY DEF CallRight, StepsFollowPlan
<1>5. GroupsRight'
  BY <1>1 DEF GroupsRight
<1>6. PhaseRight'
  <2>1. \A i \in 1..Len(planned) : call[i] \notin Live
    BY DEF StepsFollowPlan, Resolved, Live
  <2> QED
    BY <1>1, <2>1 DEF PhaseRight
<1>7. CompletedIsWhole'
  BY <1>1, <1>2 DEF CompletedIsWhole
<1> QED
  BY <1>3, <1>4, <1>5, <1>6, <1>7

(* The endpoint falls back and the calls are left as they are: the planner *)
(* was asked, so none is in hand, or one of them has raised.               *)
LEMMA FallbackKeeps ==
  ASSUME LoopInv, phase # "answered", phase = "planning" \/ SomeRaised,
         NEW why \in {"planner", "crash", "timeout"}, Fallback(why), call' = call
  PROVE  LoopInv'
<1> USE DEF LoopInv
<1>1. /\ answer' = [status |-> "failed", steps |-> <<>>, by |-> why] /\ phase' = "answered"
      /\ UNCHANGED <<round, seen, decision, planned, call, tries, effects, steps>>
  BY DEF Fallback
<1>2. TypeInv'
  BY <1>1, EmptySeq DEF TypeInv
<1>3. (\A i \in 1..Len(planned) : CallRight(i))' /\ StepsFollowPlan'
  BY <1>1 DEF CallRight, StepsFollowPlan
<1>4. GroupsRight' /\ CompletedIsWhole'
  BY <1>1 DEF GroupsRight, CompletedIsWhole
<1>5. PhaseRight'
  <2>1. \/ \E i \in 1..Len(planned) : call[i] = "raised"
        \/ \A i \in 1..Len(planned) : call[i] \notin Live
    <3>1. CASE phase = "planning"
      BY <3>1 DEF PhaseRight, StepsFollowPlan, Resolved, Live
    <3>2. CASE SomeRaised
      BY <3>2, CallLength DEF SomeRaised
    <3> QED
      BY <3>1, <3>2
  <2> QED
    BY <1>1, <2>1 DEF PhaseRight
<1> QED
  BY <1>2, <1>3, <1>4, <1>5

(* The planner's decision: a repeated batch ends the loop; any other is    *)
(* cut to the cap, and its calls join the plan, none of them begun.        *)
LEMMA DecideKeeps ==
  ASSUME LoopInv, NEW b \in Batches, NEW s \in Statuses, NEW complete \in BOOLEAN,
         Decide(b, s, complete)
  PROVE  LoopInv'
<1> USE DEF LoopInv
<1>1. s \in {"completed", "partial", "failed"}
  BY OrchestrateAssumption DEF OrchestrateAssumption
<1>2. /\ phase = "planning" /\ round < MaxRounds
      /\ Len(steps) = Len(planned) /\ Len(planned) < MaxToolCalls
  BY DEF Decide, PhaseRight
<1>3. round' \in 0..MaxRounds
  BY <1>2, OrchestrateAssumption DEF Decide, TypeInv, OrchestrateAssumption
<1>4. decision' \in [status : {"completed", "partial", "failed"},
                     complete : BOOLEAN, capped : BOOLEAN]
  BY <1>1 DEF Decide
<1>5. CASE ~complete /\ b \in seen /\ Finish(s, FALSE) /\ UNCHANGED <<seen, planned, call, tries, effects>>
  BY <1>1, <1>2, <1>3, <1>4, <1>5, FinishKeeps DEF Decide
<1>6. CASE ~(~complete /\ b \in seen)
  <2> DEFINE N == Len(planned)
             new == Admitted(b)
             m == Len(new)
  <2>1. /\ seen' = seen \cup {b} /\ phase' = "executing"
        /\ planned' = planned \o new
        /\ call' = call \o Fill(m, "ready")
        /\ tries' = tries \o Fill(m, 0)
        /\ effects' = effects \o Fill(m, 0)
        /\ steps' = steps /\ answer' = answer
    BY <1>6 DEF Decide, Fill
  <2>2. N \in Nat /\ m \in Nat /\ new \in Seq(ToolCalls) /\ N + m <= MaxToolCalls
    <3>1. new \in Seq(ToolCalls) /\ m <= MaxToolCalls - N
      BY <1>2, AdmittedFits
    <3>2. m \in Nat /\ N \in Nat
      BY <3>1, LenProperties, CallLength
    <3> QED
      BY <3>1, <3>2, OrchestrateAssumption DEF OrchestrateAssumption
  <2> HIDE DEF new, m
  <2>3. /\ planned' \in Seq(ToolCalls) /\ Len(planned') = N + m
        /\ \A i \in 1..N : planned'[i] = planned[i]
    <3>1. planned \in Seq(ToolCalls) /\ m = Len(new)
      BY DEF TypeInv, m
    <3>2. /\ planned \o new \in Seq(ToolCalls) /\ Len(planned \o new) = N + m
          /\ \A i \in 1..(N + m) : (planned \o new)[i] = IF i <= N THEN planned[i] ELSE new[i - N]
      BY <2>2, <3>1, ConcatProperties
    <3>3. \A i \in 1..N : i \in 1..(N + m) /\ i <= N
      BY <2>2
    <3> QED
      BY <2>1, <3>2, <3>3
  <2> HIDE DEF N
  <2>4. /\ Table(call', N + m, CallStates)
        /\ Grown(call', call, N, m, "ready")
    <3>1. Table(call, N, CallStates) /\ "ready" \in CallStates
      BY DEF TypeInv, CallStates, Pending, N, Table
    <3>2. N \in Nat /\ m \in Nat
      BY <2>2
    <3> QED
      BY <2>1, <3>1, <3>2, Extended
  <2>5. /\ Table(tries', N + m, 0..(MaxToolRetries + 1))
        /\ Grown(tries', tries, N, m, 0)
    <3>1. Table(tries, N, 0..(MaxToolRetries + 1)) /\ 0 \in 0..(MaxToolRetries + 1)
      BY OrchestrateAssumption DEF OrchestrateAssumption, TypeInv, N, Table
    <3>2. N \in Nat /\ m \in Nat
      BY <2>2
    <3> QED
      BY <2>1, <3>1, <3>2, Extended
  <2>6. /\ Table(effects', N + m, Nat)
        /\ Grown(effects', effects, N, m, 0)
    <3>1. Table(effects, N, Nat) /\ 0 \in Nat
      BY DEF TypeInv, N, Table
    <3>2. N \in Nat /\ m \in Nat
      BY <2>2
    <3> QED
      BY <2>1, <3>1, <3>2, Extended
  <2>7. TypeInv'
    <3>1. phase' \in {"planning", "executing", "answered"} /\ seen' \subseteq Batches
      BY <2>1 DEF TypeInv
    <3>2. Len(steps') <= Len(planned') /\ Len(planned') <= MaxToolCalls
      BY <1>2, <2>1, <2>2, <2>3 DEF N
    <3>3. steps' \in Seq(BOOLEAN) /\ UNCHANGED answer
      BY <2>1 DEF TypeInv
    <3> QED
      BY <1>3, <1>4, <2>3, <2>4, <2>5, <2>6, <3>1, <3>2, <3>3 DEF TypeInv, Table
  <2>8. ASSUME NEW i \in 1..(N + m) PROVE CallRight(i)'
    <3>1. CASE i \in 1..N
      <4>1. CallRight(i)
        BY <3>1 DEF N
      <4> QED
        BY <2>3, <2>4, <2>5, <2>6, <3>1, <4>1 DEF CallRight, Grown
    <3>2. CASE i \in (N + 1)..(N + m)
      BY <2>4, <2>5, <2>6, <3>2, OrchestrateAssumption
         DEF CallRight, Pending, Grown, OrchestrateAssumption
    <3> QED
      BY <2>2, <3>1, <3>2
  <2>9. StepsFollowPlan'
    BY <1>2, <2>1, <2>4 DEF StepsFollowPlan, Grown, N
  <2>10. GroupsRight'
    <3>1. Left' = (N + 1)..(N + m) /\ Group' \subseteq Left'
      BY <1>2, <2>1, <2>3 DEF Left, Group, N
    <3> QED
      BY <2>4, <3>1 DEF GroupsRight, Grown
  <2>11. PhaseRight' /\ CompletedIsWhole'
    BY <1>2, <2>1 DEF PhaseRight, CompletedIsWhole, NoAnswer
  <2> QED
    BY <2>3, <2>7, <2>8, <2>9, <2>10, <2>11
<1> QED
  BY <1>5, <1>6 DEF Decide

\* gather starts the calls of the group, all of them and no others.
LEMMA DispatchKeeps ==
  ASSUME LoopInv, Dispatch
  PROVE  LoopInv'
<1> USE DEF LoopInv
<1> DEFINE N == Len(planned)
<1>1. /\ phase = "executing" /\ Left # {} /\ ~GroupStarted
      /\ UNCHANGED <<phase, round, seen, decision, planned, tries, effects, steps, answer>>
  BY DEF Dispatch
<1>2. \A i \in Group : call[i] = "ready"
  BY <1>1 DEF GroupStarted, GroupsRight
<1>3. Len(call) = N /\ N \in Nat /\ Len(steps) \in Nat
  BY CallLength
<1>4. Group \subseteq Left /\ Left = (Len(steps) + 1)..N
  BY DEF Group, Left
<1>5. ASSUME NEW i \in 1..N
      PROVE  /\ i \notin Group => call'[i] = call[i]
             /\ i \in Group => /\ call'[i] \in {"bad", "raised", "sent"}
                               /\ planned[i] \in Rejected \cup Poison => call'[i] # "sent"
  BY <1>3 DEF Dispatch
<1>6. call' \in [1..N -> CallStates]
  <2>1. \A i \in 1..N : call'[i] \in CallStates
    BY <1>5 DEF TypeInv, CallStates, Pending, Resolved
  <2>2. call' = [i \in 1..N |-> call'[i]]
    BY <1>3 DEF Dispatch
  <2> HIDE DEF N
  <2> QED
    BY <2>1, <2>2
<1>7. TypeInv'
  BY <1>1, <1>6 DEF TypeInv
<1>8. ASSUME NEW i \in 1..N PROVE CallRight(i)'
  <2>1. CASE i \in Group
    <3>1. effects[i] = 0 /\ tries[i] \in Nat /\ tries[i] <= MaxToolRetries
      <4>1. call[i] = "ready" /\ CallRight(i)
        BY <1>2, <2>1
      <4>2. tries[i] \in 0..(MaxToolRetries + 1)
        BY <1>8 DEF TypeInv
      <4> QED
        BY <4>1, <4>2, OrchestrateAssumption DEF CallRight, Pending, OrchestrateAssumption
    <3>2. tries'[i] = tries[i] /\ effects'[i] = effects[i] /\ planned'[i] = planned[i]
      BY <1>1
    <3> QED
      BY <1>5, <2>1, <3>1, <3>2 DEF CallRight
  <2>2. CASE i \notin Group
    BY <1>1, <1>5, <2>2 DEF CallRight
  <2> QED
    BY <2>1, <2>2
<1>9. StepsFollowPlan'
  BY <1>1, <1>3, <1>4, <1>5 DEF StepsFollowPlan, TypeInv
<1>10. GroupsRight'
  <2>1. Group' = Group /\ Left' = Left
    BY <1>1 DEF Group, Left
  <2>2. \A i \in Left \ Group : i \in 1..N
    BY <1>3, <1>4
  <2>3. \A i \in Group : call'[i] # "ready"
    BY <1>3, <1>4, <1>5
  <2> QED
    BY <1>1, <1>5, <2>1, <2>2, <2>3 DEF GroupsRight
<1>11. PhaseRight' /\ CompletedIsWhole'
  BY <1>1 DEF PhaseRight, CompletedIsWhole, NoAnswer
<1> QED
  BY <1>1, <1>7, <1>8, <1>9, <1>10, <1>11

(* One request of one call moves, in parallel with the others of its group *)
(* or, after the endpoint has answered, with nobody waiting for it.        *)
LEMMA CallStepKeeps ==
  ASSUME LoopInv, NEW i \in 1..Len(planned), NEW to \in CallStates,
         call[i] \in {"sent", "applied", "backoff", "wire"},
         to \in {"sent", "applied", "backoff", "stuck", "ok", "bad", "raised", "gone"},
         call[i] = "wire" => to = "gone",
         CallMoves(i, to),
         tries' \in [1..Len(planned) -> 0..(MaxToolRetries + 1)],
         effects' \in [1..Len(planned) -> Nat],
         \A j \in 1..Len(planned) : j # i => tries'[j] = tries[j] /\ effects'[j] = effects[j],
         CallRight(i)',
         UNCHANGED <<phase, round, seen, decision, planned, steps, answer>>
  PROVE  LoopInv'
<1> USE DEF LoopInv
<1> DEFINE N == Len(planned)
<1>1. N \in Nat /\ Len(steps) \in Nat /\ Len(steps) <= N
  BY CallLength DEF TypeInv
<1>2. call' = [call EXCEPT ![i] = to] /\ call' \in [1..N -> CallStates] /\ call'[i] = to
      /\ \A j \in 1..N : j # i => call'[j] = call[j]
  BY DEF CallMoves, TypeInv
<1>3. ~(i <= Len(steps))
  BY <1>1 DEF StepsFollowPlan, Resolved
<1>4. TypeInv'
  BY <1>2 DEF TypeInv
<1>5. ASSUME NEW j \in 1..N PROVE CallRight(j)'
  <2>1. CASE j = i
    BY <2>1
  <2>2. CASE j # i
    <3>1. CallRight(j)
      BY DEF LoopInv
    <3> QED
      BY <1>2, <2>2, <3>1 DEF CallRight
  <2> QED
    BY <2>1, <2>2
<1>6. StepsFollowPlan'
  <2>1. \A k \in 1..Len(steps) : k \in 1..N /\ k # i
    BY <1>1, <1>3
  <2> QED
    BY <1>2, <2>1 DEF StepsFollowPlan
<1>7. GroupsRight'
  <2>1. Group' = Group /\ Left' = Left
    BY DEF Group, Left
  <2>2. \A j \in Left : j \in 1..N
    BY <1>1 DEF Left
  <2>3. Group \subseteq Left
    BY DEF Group
  <2> QED
    BY <1>2, <2>1, <2>2, <2>3 DEF GroupsRight
<1>8. PhaseRight'
  <2>1. ASSUME phase = "answered"
        PROVE  \/ \E j \in 1..N : call'[j] = "raised"
               \/ \A j \in 1..N : call'[j] \notin Live
    <3>1. CASE \E j \in 1..N : call[j] = "raised"
      BY <1>2, <3>1
    <3>2. CASE \A j \in 1..N : call[j] \notin Live
      <4>1. to = "gone"
        BY <3>2 DEF Live
      <4> QED
        BY <1>2, <3>2, <4>1 DEF Live
    <3> QED
      BY <2>1, <3>1, <3>2 DEF PhaseRight
  <2> QED
    BY <2>1 DEF PhaseRight, NoAnswer
<1>9. CompletedIsWhole'
  BY DEF CompletedIsWhole
<1> QED
  BY <1>4, <1>5, <1>6, <1>7, <1>8, <1>9

\* The tool service applies a request it has been sent.
LEMMA ApplyKeeps ==
  ASSUME LoopInv, NEW i \in 1..Len(planned), Apply(i)
  PROVE  LoopInv'
<1> DEFINE to == IF call[i] = "sent" THEN "applied" ELSE "gone"
<1>1. /\ call[i] \in {"sent", "wire"} /\ CallMoves(i, to)
      /\ effects' = [effects EXCEPT ![i] = @ + 1] /\ tries' = tries
      /\ UNCHANGED <<phase, round, seen, decision, planned, steps, answer>>
  BY DEF Apply
<1>2. call'[i] = to /\ effects'[i] = effects[i] + 1 /\ effects[i] \in Nat
      /\ tries[i] \in 0..(MaxToolRetries + 1)
  BY <1>1 DEF LoopInv, TypeInv, CallMoves
<1>3. CallRight(i)'
  BY <1>1, <1>2 DEF LoopInv, CallRight, Pending
<1>4. effects' \in [1..Len(planned) -> Nat]
      /\ \A j \in 1..Len(planned) : j # i => effects'[j] = effects[j]
  BY <1>1 DEF LoopInv, TypeInv
<1> QED
  BY <1>1, <1>3, <1>4, CallStepKeeps DEF LoopInv, TypeInv, CallStates, Pending

\* An answer resolves its call: a success only if the request was applied.
LEMMA AnswerKeeps ==
  ASSUME LoopInv, NEW i \in 1..Len(planned), Succeed(i) \/ Refuse(i)
  PROVE  LoopInv'
<1>1. PICK to \in {"ok", "bad"} :
        /\ CallMoves(i, to) /\ call[i] \in {"sent", "applied"}
        /\ to = "ok" => call[i] = "applied"
        /\ UNCHANGED <<phase, round, seen, decision, planned, tries, effects, steps, answer>>
  BY DEF Succeed, Refuse
<1>2. call'[i] = to
  BY <1>1 DEF LoopInv, TypeInv, CallMoves
<1>3. CallRight(i)'
  BY <1>1, <1>2 DEF LoopInv, TypeInv, CallRight, Pending
<1> QED
  BY <1>1, <1>3, CallStepKeeps DEF LoopInv, TypeInv, CallStates, Resolved

\* A failed attempt is counted, whether its request was applied or not.
LEMMA FalterKeeps ==
  ASSUME LoopInv, NEW i \in 1..Len(planned), Falter(i)
  PROVE  LoopInv'
<1>1. PICK to \in {"bad", "backoff", "stuck", "raised"} :
      /\ to # "bad" => tries[i] + 1 <= MaxToolRetries
      /\ call[i] \in {"sent", "applied"} /\ CallMoves(i, to)
      /\ tries' = [tries EXCEPT ![i] = @ + 1] /\ effects' = effects
      /\ UNCHANGED <<phase, round, seen, decision, planned, steps, answer>>
  <2>1. tries[i] \in Nat /\ MaxToolRetries \in Nat
    BY CallCounts, OrchestrateAssumption DEF LoopInv, OrchestrateAssumption
  <2> QED
    BY <2>1 DEF Falter, AfterFailure
<1>2. /\ call'[i] = to /\ tries'[i] = tries[i] + 1
      /\ tries[i] \in 0..(MaxToolRetries + 1) /\ effects[i] \in Nat
  BY <1>1 DEF LoopInv, TypeInv, CallMoves
<1>3. tries[i] <= MaxToolRetries
  BY <1>1 DEF LoopInv, CallRight, Pending
<1>4. tries' \in [1..Len(planned) -> 0..(MaxToolRetries + 1)]
      /\ \A j \in 1..Len(planned) : j # i => tries'[j] = tries[j]
  <2>1. tries[i] + 1 \in 0..(MaxToolRetries + 1)
    BY <1>2, <1>3, OrchestrateAssumption DEF OrchestrateAssumption
  <2> QED
    BY <1>1, <2>1 DEF LoopInv, TypeInv
<1>5. CallRight(i)'
  BY <1>1, <1>2, <1>3, OrchestrateAssumption
     DEF LoopInv, CallRight, Pending, OrchestrateAssumption
<1> QED
  BY <1>1, <1>4, <1>5, CallStepKeeps
     DEF LoopInv, TypeInv, CallStates, Pending, Resolved

\* A reply that never ends leaves its call waiting.
LEMMA StallKeeps ==
  ASSUME LoopInv, NEW i \in 1..Len(planned), Stall(i)
  PROVE  LoopInv'
<1>1. /\ CallMoves(i, "stuck") /\ call[i] \in {"sent", "applied"}
      /\ UNCHANGED <<phase, round, seen, decision, planned, tries, effects, steps, answer>>
  BY DEF Stall
<1>2. call'[i] = "stuck"
  BY <1>1 DEF LoopInv, TypeInv, CallMoves
<1>3. CallRight(i)'
  BY <1>1, <1>2 DEF LoopInv, TypeInv, CallRight, Pending
<1> QED
  BY <1>1, <1>3, CallStepKeeps DEF LoopInv, TypeInv, CallStates, Pending

\* The request is sent again.
LEMMA ResendKeeps ==
  ASSUME LoopInv, NEW i \in 1..Len(planned), Resend(i)
  PROVE  LoopInv'
<1>1. /\ CallMoves(i, "sent") /\ call[i] = "backoff"
      /\ UNCHANGED <<phase, round, seen, decision, planned, tries, effects, steps, answer>>
  BY DEF Resend
<1>2. call'[i] = "sent"
  BY <1>1 DEF LoopInv, TypeInv, CallMoves
<1>3. CallRight(i)'
  BY <1>1, <1>2 DEF LoopInv, TypeInv, CallRight, Pending
<1> QED
  BY <1>1, <1>3, CallStepKeeps DEF LoopInv, TypeInv, CallStates, Pending

\* gather returns: a step for each call of the group, in the planner's order.
LEMMA CollectKeeps ==
  ASSUME LoopInv, Collect
  PROVE  LoopInv'
<1> USE DEF LoopInv
<1> DEFINE L == Len(steps)
           N == Len(planned)
<1>1. /\ phase = "executing" /\ \A i \in Group : call[i] \in Resolved
      /\ steps' = steps \o [k \in 1..Cardinality(Group) |-> call[L + k] = "ok"]
      /\ UNCHANGED <<phase, round, seen, decision, planned, call, tries, effects, answer>>
  BY DEF Collect
<1>2. L \in Nat /\ N \in Nat
  BY CallLength
<1>3. PICK n \in 0..(N - L) : Group = (L + 1)..(L + n) /\ Cardinality(Group) = n
  BY GroupIsStretch
<1> DEFINE new == [k \in 1..n |-> call[L + k] = "ok"]
<1>4. new \in Seq(BOOLEAN) /\ Len(new) = n
  BY <1>2, <1>3, FunctionIsSeq
<1>5. \A k \in 1..n : new[k] = (call[L + k] = "ok")
  OBVIOUS
<1>6. steps' = steps \o new
  BY <1>1, <1>3
<1> HIDE DEF new
<1>7. /\ steps' \in Seq(BOOLEAN) /\ Len(steps') = L + n
      /\ \A k \in 1..(L + n) : steps'[k] = IF k <= L THEN steps[k] ELSE new[k - L]
  <2>1. steps \in Seq(BOOLEAN) /\ L = Len(steps)
    BY DEF TypeInv
  <2> HIDE DEF L
  <2>2. /\ steps \o new \in Seq(BOOLEAN) /\ Len(steps \o new) = L + n
        /\ \A k \in 1..(L + n) : (steps \o new)[k] = IF k <= L THEN steps[k] ELSE new[k - L]
    BY <1>4, <2>1, ConcatProperties
  <2> QED
    BY <1>6, <2>2
<1> HIDE DEF L, N
<1>8. TypeInv'
  BY <1>1, <1>2, <1>3, <1>7 DEF TypeInv, N
<1>9. (\A i \in 1..Len(planned) : CallRight(i))'
  BY <1>1 DEF CallRight
<1>10. StepsFollowPlan'
  <2> SUFFICES ASSUME NEW k \in 1..(L + n)
               PROVE  call[k] \in Resolved /\ steps'[k] = (call[k] = "ok")
    BY <1>1, <1>7 DEF StepsFollowPlan
  <2>1. CASE k <= L
    <3>1. k \in 1..L
      BY <1>2, <2>1
    <3>2. call[k] \in Resolved /\ steps[k] = (call[k] = "ok")
      BY <3>1 DEF StepsFollowPlan, L
    <3> QED
      BY <1>7, <2>1, <3>2
  <2>2. CASE ~(k <= L)
    <3>1. k \in Group /\ k - L \in 1..n /\ L + (k - L) = k
      BY <1>2, <1>3, <2>2
    <3>2. steps'[k] = new[k - L]
      BY <1>7, <2>2
    <3>3. new[k - L] = (call[k] = "ok")
      BY <1>5, <3>1
    <3> QED
      BY <1>1, <3>1, <3>2, <3>3
  <2> QED
    BY <2>1, <2>2
<1>11. GroupsRight'
  <2>1. Left' \subseteq Left \ Group /\ Group' \subseteq Left'
    <3>1. Left' = (L + n + 1)..N
      BY <1>1, <1>7 DEF Left, N
    <3>2. Left = (L + 1)..N
      BY DEF Left, L, N
    <3>3. Group' \subseteq Left'
      BY DEF Group
    <3> QED
      BY <1>2, <1>3, <3>1, <3>2, <3>3
  <2>2. \A i \in Left' : call'[i] = "ready"
    BY <1>1, <2>1 DEF GroupsRight
  <2> QED
    BY <2>1, <2>2 DEF GroupsRight
<1>12. PhaseRight' /\ CompletedIsWhole'
  BY <1>1 DEF PhaseRight, CompletedIsWhole, NoAnswer
<1> QED
  BY <1>1, <1>8, <1>9, <1>10, <1>11, <1>12

\* The batch is done: the loop is left for one of its reasons, or goes on.
LEMMA EndBatchKeeps ==
  ASSUME LoopInv, EndBatch
  PROVE  LoopInv'
<1> USE DEF LoopInv
<1>1. /\ phase = "executing" /\ Left = {}
      /\ UNCHANGED <<round, seen, decision, planned, call, tries, effects, steps>>
  BY DEF EndBatch
<1>2. Len(steps) = Len(planned)
  <2>1. /\ Len(steps) \in Nat /\ Len(planned) \in Nat /\ Len(steps) <= Len(planned)
        /\ ~(Len(steps) + 1 \in (Len(steps) + 1)..Len(planned))
    BY <1>1, CallLength DEF Left, TypeInv
  <2> QED
    BY <2>1
<1>3. decision.status \in {"completed", "partial", "failed"}
  BY DEF TypeInv
<1>4. ASSUME Finish(decision.status, FALSE) PROVE LoopInv'
  BY <1>1, <1>2, <1>3, <1>4, FinishKeeps DEF TypeInv
<1>5. ASSUME ~decision.capped, decision.complete, Finish(decision.status, TRUE)
      PROVE  LoopInv'
  <2>1. decision'.complete /\ ~decision'.capped /\ decision'.status = decision.status
    BY <1>1, <1>5
  <2>2. round' \in 0..MaxRounds
        /\ decision' \in [status : {"completed", "partial", "failed"},
                          complete : BOOLEAN, capped : BOOLEAN]
    BY <1>1 DEF TypeInv
  <2> QED
    BY <1>1, <1>2, <1>3, <1>5, <2>1, <2>2, FinishKeeps
<1>6. CASE /\ Len(steps) < MaxToolCalls /\ round < MaxRounds
           /\ phase' = "planning" /\ answer' = answer
  <2>1. TypeInv'
    BY <1>1, <1>6 DEF TypeInv
  <2>2. (\A i \in 1..Len(planned) : CallRight(i))' /\ StepsFollowPlan'
    BY <1>1 DEF CallRight, StepsFollowPlan
  <2>3. GroupsRight' /\ PhaseRight' /\ CompletedIsWhole'
    BY <1>1, <1>2, <1>6 DEF GroupsRight, PhaseRight, CompletedIsWhole, NoAnswer
  <2> QED
    BY <2>1, <2>2, <2>3
<1> QED
  BY <1>4, <1>5, <1>6 DEF EndBatch

(* The endpoint falls back after a timeout that reached the calls: the     *)
(* client has none of them in hand.                                        *)
LEMMA CancelKeeps ==
  ASSUME LoopInv, Awaiting, CancelCalls,
         NEW why \in {"timeout", "crash"}, Fallback(why)
  PROVE  LoopInv'
<1> USE DEF LoopInv
<1> DEFINE N == Len(planned)
<1>1. /\ answer' = [status |-> "failed", steps |-> <<>>, by |-> why]
      /\ phase' = "answered"
      /\ UNCHANGED <<round, seen, decision, planned, tries, effects, steps>>
  BY DEF Fallback
<1>2. Len(call) = N /\ N \in Nat /\ Len(steps) \in Nat /\ Len(steps) <= N
  BY CallLength DEF TypeInv
<1>3. ASSUME NEW i \in 1..N
      PROVE  \/ call[i] = "sent" /\ call'[i] = "wire"
             \/ call[i] \in {"applied", "backoff", "stuck"} /\ call'[i] = "gone"
             \/ call[i] \notin {"sent", "applied", "backoff", "stuck"} /\ call'[i] = call[i]
  BY <1>2 DEF CancelCalls
<1>4. call' \in [1..N -> CallStates]
  <2>1. \A i \in 1..N : call'[i] \in CallStates
    BY <1>3 DEF TypeInv, CallStates
  <2>2. call' = [i \in 1..N |-> call'[i]]
    BY <1>2 DEF CancelCalls
  <2> HIDE DEF N
  <2> QED
    BY <2>1, <2>2
<1>5. TypeInv'
  BY <1>1, <1>4, EmptySeq DEF TypeInv
<1>6. ASSUME NEW i \in 1..N PROVE CallRight(i)'
  <2>1. CallRight(i) /\ tries[i] \in Nat /\ effects[i] \in Nat
    BY CallCounts
  <2>2. tries'[i] = tries[i] /\ effects'[i] = effects[i] /\ planned'[i] = planned[i]
    BY <1>1
  <2> QED
    BY <1>3, <2>1, <2>2 DEF CallRight, Pending
<1>7. StepsFollowPlan'
  BY <1>1, <1>2, <1>3 DEF StepsFollowPlan, Resolved
<1>8. GroupsRight'
  BY <1>1 DEF GroupsRight
<1>9. PhaseRight' /\ CompletedIsWhole'
  BY <1>1, <1>3 DEF PhaseRight, CompletedIsWhole, Live
<1> QED
  BY <1>1, <1>5, <1>6, <1>7, <1>8, <1>9

(* The workflow timeout: the calls are cancelled, or one of them has raised *)
(* and they are left as they are.                                           *)
LEMMA TimeOutKeeps ==
  ASSUME LoopInv, TimeOut
  PROVE  LoopInv'
<1>1. phase # "answered" /\ Awaiting
  BY DEF TimeOut, Awaiting
<1>2. CASE SomeRaised /\ Fallback("timeout") /\ UNCHANGED call
  BY <1>1, <1>2, FallbackKeeps
<1>3. CASE Fallback("timeout") /\ CancelCalls
  BY <1>1, <1>3, CancelKeeps
<1>4. CASE Fallback("crash") /\ CancelCalls
  BY <1>1, <1>4, CancelKeeps
<1> QED
  BY <1>2, <1>3, <1>4 DEF TimeOut

----------------------------------------------------------------------------
(* The theorems.                                                           *)

\* Every step keeps the inductive invariant.
LEMMA StepKeeps == LoopInv /\ [Next]_vars => LoopInv'
<1> SUFFICES ASSUME LoopInv, [Next]_vars PROVE LoopInv'
  OBVIOUS
<1>1. CASE Plan
  BY <1>1, DecideKeeps DEF Plan
<1>2. CASE PlannerFails
  BY <1>2, FallbackKeeps DEF PlannerFails
<1>3. CASE Crash
  BY <1>3, FallbackKeeps DEF Crash
<1>4. ASSUME NEW i \in 1..Len(call),
             Apply(i) \/ Succeed(i) \/ Refuse(i) \/ Falter(i) \/ Stall(i) \/ Resend(i)
      PROVE  LoopInv'
  <2>1. i \in 1..Len(planned)
    BY CallLength DEF LoopInv
  <2> QED
    BY <1>4, <2>1, ApplyKeeps, AnswerKeeps, FalterKeeps, StallKeeps, ResendKeeps
<1>5. CASE UNCHANGED vars
  <2>1. TypeInv' /\ \A i \in 1..Len(planned)' : CallRight(i)'
    BY <1>5 DEF vars, LoopInv, TypeInv, CallRight
  <2>2. StepsFollowPlan' /\ GroupsRight'
    BY <1>5 DEF vars, LoopInv, StepsFollowPlan, GroupsRight, Group, Left
  <2>3. PhaseRight' /\ CompletedIsWhole'
    BY <1>5 DEF vars, LoopInv, PhaseRight, CompletedIsWhole, Live
  <2> QED
    BY <2>1, <2>2, <2>3 DEF LoopInv
<1> QED
  BY <1>1, <1>2, <1>3, <1>4, <1>5, DispatchKeeps, CollectKeeps, EndBatchKeeps, TimeOutKeeps
     DEF Next

\* The inductive invariant holds in every reachable state.
LEMMA LoopInvariant == Spec => []LoopInv
<1>1. Init => LoopInv
  <2> SUFFICES ASSUME Init PROVE LoopInv
    OBVIOUS
  <2>1. /\ planned \in Seq(ToolCalls) /\ steps \in Seq(BOOLEAN) /\ <<>> \in Seq(BOOLEAN)
        /\ Len(planned) = 0 /\ Len(steps) = 0
    BY EmptySeq DEF Init
  <2>2. /\ call \in [1..Len(planned) -> CallStates]
        /\ tries \in [1..Len(planned) -> 0..(MaxToolRetries + 1)]
        /\ effects \in [1..Len(planned) -> Nat]
    BY <2>1 DEF Init
  <2>3. TypeInv
    BY <2>1, <2>2, OrchestrateAssumption DEF Init, TypeInv, NoAnswer, OrchestrateAssumption
  <2>4. StepsFollowPlan /\ \A i \in 1..Len(planned) : CallRight(i)
    BY <2>1 DEF StepsFollowPlan
  <2>5. GroupsRight /\ PhaseRight /\ CompletedIsWhole
    BY <2>1, OrchestrateAssumption
       DEF Init, NoAnswer, GroupsRight, PhaseRight, CompletedIsWhole, OrchestrateAssumption
  <2> QED
    BY <2>3, <2>4, <2>5 DEF LoopInv
<1> QED
  BY <1>1, StepKeeps, PTL DEF Spec

(* Type correctness: the rounds and the tool calls stay within their caps  *)
(* and the tries of a call within its retries (orchestrate/executor.py).   *)
THEOREM TypeCorrect == Spec => []TypeOK
<1>1. LoopInv => TypeOK
  <2> SUFFICES ASSUME LoopInv PROVE TypeOK
    OBVIOUS
  <2>1. Len(planned) \in Nat
    BY CallLength DEF LoopInv
  <2>2. call \in Seq(CallStates) /\ Len(call) = Len(planned)
    BY <2>1, FunctionIsSeq DEF LoopInv, TypeInv
  <2>3. Len(tries) = Len(planned) /\ Len(effects) = Len(planned)
    BY <2>1, FunctionIsSeq DEF LoopInv, TypeInv
  <2> QED
    BY <2>2, <2>3 DEF LoopInv, TypeInv, TypeOK, CallStates
<1> QED
  BY <1>1, LoopInvariant, PTL

(* The k-th step tells of the k-th planned call, in whatever order the     *)
(* parallel calls returned (asyncio.gather keeps the order of its          *)
(* arguments).                                                             *)
THEOREM StepsMatchPlan == Spec => []StepsFollowPlan
<1>1. LoopInv => StepsFollowPlan
  BY DEF LoopInv
<1> QED
  BY <1>1, LoopInvariant, PTL

(* Cross-tool order: a call starts only when every earlier call of another *)
(* tool has its result, retries included.                                  *)
THEOREM ToolsInOrder == Spec => []ToolOrder
<1>1. LoopInv => ToolOrder
  <2> SUFFICES ASSUME LoopInv, phase = "executing",
                      NEW i \in 1..Len(call), NEW j \in 1..Len(call), i < j,
                      planned[i].tool # planned[j].tool, call[j] # "ready"
               PROVE  call[i] \in Resolved
    BY DEF ToolOrder
  <2> DEFINE L == Len(steps)
  <2>1. Len(call) = Len(planned) /\ Len(planned) \in Nat /\ L \in Nat
    BY CallLength DEF LoopInv
  <2>2. CASE i <= L
    BY <2>1, <2>2 DEF LoopInv, StepsFollowPlan
  <2>3. CASE ~(i <= L)
    <3>1. i \in Left /\ j \in Left /\ i \in (L + 1)..j /\ j \in (L + 1)..j
      BY <2>1, <2>3 DEF Left
    <3>2. j \in Group
      BY <3>1 DEF LoopInv, GroupsRight
    <3>3. planned[i].tool = planned[L + 1].tool /\ planned[j].tool = planned[L + 1].tool
      BY <3>1, <3>2 DEF Group
    <3> QED
      BY <3>3
  <2> QED
    BY <2>2, <2>3
<1> QED
  BY <1>1, LoopInvariant, PTL

(* A workflow is reported completed only if the planner's last decision    *)
(* said so and no call of the plan was cut off.                            *)
THEOREM CompletedMeansWhole == Spec => []CompletedIsWhole
<1>1. LoopInv => CompletedIsWhole
  BY DEF LoopInv
<1> QED
  BY <1>1, LoopInvariant, PTL

(* The loop's own answer hides no effect of its calls, and reports no      *)
(* success without one.                                                    *)
THEOREM LoopAnswersHonestly == Spec => []LoopAnswersAreHonest
<1>1. LoopInv => LoopAnswersAreHonest
  <2> SUFFICES ASSUME LoopInv, answer.by = "loop", NEW i \in 1..Len(planned)
               PROVE  /\ effects[i] > 0 => i <= Len(answer.steps)
                      /\ i <= Len(answer.steps) => (answer.steps[i] => effects[i] > 0)
    BY DEF LoopAnswersAreHonest
  <2>1. answer.steps = steps /\ Len(steps) = Len(planned)
    BY DEF LoopInv, PhaseRight
  <2>2. steps[i] = (call[i] = "ok")
    BY <2>1 DEF LoopInv, StepsFollowPlan
  <2>3. call[i] = "ok" => effects[i] > 0
    BY DEF LoopInv, CallRight
  <2>4. i <= Len(answer.steps)
    BY <2>1, CallLength DEF LoopInv
  <2>5. answer.steps[i] => effects[i] > 0
    BY <2>1, <2>2, <2>3
  <2> QED
    BY <2>4, <2>5
<1> QED
  BY <1>1, LoopInvariant, PTL

(* No call is applied more often than it was sent, and one the executor    *)
(* rejects is never applied.                                               *)
THEOREM EffectsAreBounded == Spec => []EffectsBounded
<1>1. LoopInv => EffectsBounded
  <2> SUFFICES ASSUME LoopInv, NEW i \in 1..Len(effects)
               PROVE  /\ effects[i] <= tries[i] + 1
                      /\ planned[i] \in Rejected \cup Poison => effects[i] = 0
    BY DEF EffectsBounded
  <2>1. i \in 1..Len(planned)
    BY CallLength, FunctionIsSeq DEF LoopInv, TypeInv
  <2> QED
    BY <2>1 DEF LoopInv, CallRight
<1> QED
  BY <1>1, LoopInvariant, PTL

(* Once the workflow is answered the client sends no request, unless one   *)
(* of its calls has raised: what is in hand has been resolved, or was      *)
(* cancelled by the workflow timeout (main.py, orchestrate_endpoint).      *)
THEOREM SilentOnceAnswered == Spec => AnsweredIsSilent
<1> DEFINE Silent == phase = "answered" /\ ~SomeRaised =>
                       \A i \in 1..Len(call) : call'[i] = "sent" => call[i] = "sent"
<1>1. LoopInv /\ [Next]_vars => [Silent]_vars
  <2> SUFFICES ASSUME LoopInv, Next, phase = "answered", ~SomeRaised,
                      NEW i \in 1..Len(call), call'[i] = "sent"
               PROVE  call[i] = "sent"
    OBVIOUS
  <2>1. \A j \in 1..Len(call) : call[j] \notin Live
    BY CallLength DEF LoopInv, PhaseRight, SomeRaised
  <2>2. PICK j \in 1..Len(call) : Apply(j)
    BY <2>1 DEF Live, Next, Plan, Decide, PlannerFails, Dispatch, Collect, Crash, EndBatch,
                TimeOut, Awaiting, Succeed, Refuse, Falter, Stall, Resend
  <2>3. call' = [call EXCEPT ![j] = "gone"]
    BY <2>1, <2>2 DEF Live, Apply, CallMoves
  <2> QED
    BY <2>3
<1> QED
  BY <1>1, LoopInvariant, PTL DEF Spec, AnsweredIsSilent

============================================================================
