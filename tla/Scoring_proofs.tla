--------------------------- MODULE Scoring_proofs ---------------------------
(***************************************************************************)
(* What module Scoring states, for every input: putting a ticket right     *)
(* never lowers the resolution, the percentiles of the latencies are where *)
(* their names say, a reordered plan is recognised and loses only what the *)
(* dependencies it breaks are worth, a gold's assertions and its           *)
(* template's checks agree, and normalizing settles.                       *)
(***************************************************************************)
EXTENDS Scoring, Scores_proofs

----------------------------------------------------------------------------
(* The scores of single answers.                                           *)

LEMMA LevelType == ASSUME NEW v PROVE Level(v) \in 0..4
<1> DEFINE named == {p \in 1..4 : /\ Len(StrOf(v)) = 1
                                  /\ StrOf(v)[1].core = <<"p1", "p2", "p3", "p4">>[p]
                                  /\ StrOf(v)[1].form \in {"plain", "case"}}
<1>1. Level(v) = IF named = {} THEN 0 ELSE CHOOSE p \in named : TRUE
  BY DEF Level
<1>2. named \in SUBSET (1..4)
  OBVIOUS
<1> HIDE DEF named
<1>3. named # {} => (CHOOSE p \in named : TRUE) \in named
  OBVIOUS
<1>4. 0..4 = {0} \cup 1..4
  OBVIOUS
<1> QED
  BY <1>1, <1>2, <1>3, <1>4

\* No answer has a better priority than the right one.
LEMMA PriorityBest ==
  ASSUME NEW c, NEW g
  PROVE  /\ score_priority(c, g) \in 0..One
         /\ score_priority(c, g) <= score_priority(g, g)
         /\ Level(g) # 0 => score_priority(g, g) = One
<1>1. One \in Nat
  BY ScoreAssumption
<1>2. Frac(67, 100) \in 0..One
  BY FracBetween
<1>3. Level(c) \in 0..4 /\ Level(g) \in 0..4
  BY LevelType
<1>4. Level(g) - Level(g) = 0 /\ 0 \notin {-1, 1}
  BY <1>3
<1>5. score_priority(c, g) \in 0..One
  BY <1>1, <1>2 DEF score_priority
<1>6. Level(g) # 0 => score_priority(g, g) = One
  BY DEF score_priority
<1>7. Level(g) = 0 => score_priority(c, g) = 0 /\ score_priority(g, g) = 0
  BY DEF score_priority
<1> QED
  BY <1>1, <1>5, <1>6, <1>7

LEMMA TermsFinite == ASSUME NEW v, Bounded(v) PROVE IsFiniteSet(Terms(v))
<1>1. CASE v.kind # "list"
  BY <1>1, FS_EmptySet DEF Terms
<1>2. CASE v.kind = "list"
  <2> DEFINE f == [i \in DOMAIN v.items |-> IF v.items[i] = Null THEN <<>>
                                      ELSE normalize_text(StrOf(v.items[i]))]
  <2>1. IsFiniteSet(DOMAIN v.items)
    BY <1>2 DEF Bounded
  <2>2. IsFiniteSet({f[i] : i \in DOMAIN v.items})
    BY <2>1, ImageFinite
  <2>3. Terms(v) = {f[i] : i \in DOMAIN v.items}
    BY <1>2 DEF Terms, ToSet
  <2> QED
    BY <2>2, <2>3
<1> QED
  BY <1>1, <1>2

\* Nor a better list of what is missing.
LEMMA MissingBest ==
  ASSUME NEW c, NEW g, Bounded(c), Bounded(g)
  PROVE  score_missing_info(c, g) \in 0..One /\ score_missing_info(g, g) = One
  BY TermsFinite, SetF1 DEF score_missing_info

----------------------------------------------------------------------------
(* The dimensions of a submission, as functions of the tickets.            *)

Signals == DOMAIN GoldSignals
At(answers, i) == Answer(answers, GoldSignals[i])

Categories(answers) ==
  [i \in Signals |-> IF At(answers, i) = 0 THEN <<>> ELSE Text(answers[At(answers, i)].category)]
RightCategories == [i \in Signals |-> Text(GoldSignals[i].category)]

Routes(answers) ==
  [i \in Signals |-> IF At(answers, i) = 0 THEN <<>> ELSE Text(answers[At(answers, i)].assigned_team)]
RightRoutes == [i \in Signals |-> Text(GoldSignals[i].assigned_team)]

Alarms(answers) ==
  [i \in Signals |-> IF At(answers, i) = 0 THEN FALSE
                     ELSE coerce_escalation(answers[At(answers, i)].needs_escalation)]
RightAlarms == [i \in Signals |-> coerce_escalation(GoldSignals[i].needs_escalation)]

Priorities(answers) ==
  [i \in Signals |-> IF At(answers, i) = 0 THEN 0
                     ELSE score_priority(answers[At(answers, i)].priority, GoldSignals[i].priority)]

Missing(answers) ==
  [i \in Signals |-> IF At(answers, i) = 0 THEN 0
                     ELSE score_missing_info(answers[At(answers, i)].missing_information,
                                             GoldSignals[i].missing_information)]

LEMMA Dimensions ==
  ASSUME NEW answers
  PROVE  triage_dimensions(answers, GoldSignals) =
           [category |-> macro_f1(Categories(answers), RightCategories, CATEGORIES),
            priority |-> MeanOf(Priorities(answers)),
            routing |-> macro_f1(Routes(answers), RightRoutes, TEAMS),
            missing_info |-> MeanOf(Missing(answers)),
            escalation |-> binary_f1(Alarms(answers), RightAlarms)]
  BY DEF triage_dimensions, At, Signals, Categories, RightCategories, Routes, RightRoutes,
         Alarms, RightAlarms, Priorities, Missing

\* A submission is a sequence of answers with finite lists.
WellFormed(answers) ==
  /\ answers \in Seq(ToSet(answers))
  /\ \A i \in DOMAIN answers : Bounded(answers[i].missing_information)

LEMMA GoldFacts ==
  /\ Len(GoldSignals) \in Nat /\ Signals = 1..Len(GoldSignals)
  /\ Signals # {} /\ IsFiniteSet(Signals)
  /\ GoldSignals \in Seq(ToSet(GoldSignals))
  /\ \A i, j \in Signals : GoldSignals[i].ticket_id = GoldSignals[j].ticket_id => i = j
  /\ \A i \in Signals : /\ Level(GoldSignals[i].priority) # 0
                        /\ Bounded(GoldSignals[i].missing_information)
<1>1. /\ GoldSignals \in Seq(ToSet(GoldSignals))
      /\ \A i, j \in Signals : GoldSignals[i].ticket_id = GoldSignals[j].ticket_id => i = j
      /\ \A i \in Signals : /\ Level(GoldSignals[i].priority) # 0
                            /\ Bounded(GoldSignals[i].missing_information)
      /\ Signals # {}
  BY ScoringAssumption DEF Signals
<1>2. Len(GoldSignals) \in Nat /\ Signals = 1..Len(GoldSignals)
  BY <1>1, LenProperties DEF Signals
<1>3. IsFiniteSet(Signals)
  BY <1>2, FS_Interval
<1> QED
  BY <1>1, <1>2, <1>3

\* The answer that counts is the first with the ticket's id.
LEMMA AnswerFirst ==
  ASSUME NEW answers, WellFormed(answers), NEW i \in Signals
  PROVE  /\ At(answers, i) \in 0..Len(answers)
         /\ At(answers, i) = 0 <=>
              \A k \in DOMAIN answers : answers[k].ticket_id # GoldSignals[i].ticket_id
         /\ At(answers, i) # 0 =>
              /\ At(answers, i) \in DOMAIN answers
              /\ answers[At(answers, i)].ticket_id = GoldSignals[i].ticket_id
              /\ \A k \in DOMAIN answers :
                   answers[k].ticket_id = GoldSignals[i].ticket_id => At(answers, i) <= k
<1> DEFINE same == {k \in DOMAIN answers : answers[k].ticket_id = GoldSignals[i].ticket_id}
<1>1. Len(answers) \in Nat /\ DOMAIN answers = 1..Len(answers)
  BY LenProperties DEF WellFormed
<1>2. At(answers, i) = IF same = {} THEN 0 ELSE Min(same)
  BY DEF At, Answer
<1>3. CASE same = {}
  BY <1>1, <1>2, <1>3
<1>4. CASE same # {}
  <2>1. same \in SUBSET (1..Len(answers)) /\ IsFiniteSet(1..Len(answers))
    BY <1>1, FS_Interval
  <2>2. same \in SUBSET Int /\ IsFiniteSet(same)
    BY <2>1, FS_Subset
  <2>3. Min(same) \in same /\ \A k \in same : Min(same) <= k
    BY <1>4, <2>2, MaxMin
  <2> QED
    BY <1>1, <1>2, <1>4, <2>3
<1> QED
  BY <1>3, <1>4

----------------------------------------------------------------------------
(* Better submissions.                                                     *)

\* Ticket i has the right answer.
Right(answers, i) == At(answers, i) # 0 /\ answers[At(answers, i)] = GoldSignals[i]

\* Ticket i has the same answer in both submissions, or none in either.
Alike(before, after, i) ==
  \/ At(before, i) = 0 /\ At(after, i) = 0
  \/ /\ At(before, i) # 0 /\ At(after, i) # 0
     /\ after[At(after, i)] = before[At(before, i)]

\* Some tickets have been put right and the others left alone.
Improves(before, after) == \A i \in Signals : Alike(before, after, i) \/ Right(after, i)

\* What the two means are taken over.
LEMMA MeansTyped ==
  ASSUME NEW answers, WellFormed(answers)
  PROVE  /\ Summable(Priorities(answers), Signals) /\ Summable(Missing(answers), Signals)
         /\ DOMAIN Priorities(answers) = Signals /\ DOMAIN Missing(answers) = Signals
         /\ \A i \in Signals : Priorities(answers)[i] \in 0..One /\ Missing(answers)[i] \in 0..One
         /\ \A i \in Signals : Right(answers, i) =>
              Priorities(answers)[i] = One /\ Missing(answers)[i] = One
<1>1. DOMAIN Priorities(answers) = Signals /\ DOMAIN Missing(answers) = Signals
  BY DEF Priorities, Missing
<1>2. One \in Nat /\ 0..One \subseteq Int /\ 0 \in 0..One
  BY ScoreAssumption
<1>3. ASSUME NEW i \in Signals
      PROVE  /\ Priorities(answers)[i] \in 0..One /\ Missing(answers)[i] \in 0..One
             /\ Right(answers, i) => Priorities(answers)[i] = One /\ Missing(answers)[i] = One
  <2> DEFINE a == answers[At(answers, i)]
             g == GoldSignals[i]
  <2>1. Level(g.priority) # 0 /\ Bounded(g.missing_information)
    BY GoldFacts
  <2>2. CASE At(answers, i) = 0
    BY <1>2, <2>2 DEF Priorities, Missing, Right
  <2>3. CASE At(answers, i) # 0
    <3>1. Bounded(a.missing_information)
      BY <2>3, AnswerFirst DEF WellFormed
    <3>2. /\ Priorities(answers)[i] = score_priority(a.priority, g.priority)
          /\ Missing(answers)[i] = score_missing_info(a.missing_information, g.missing_information)
      BY <2>3 DEF Priorities, Missing
    <3>3. score_priority(a.priority, g.priority) \in 0..One
      BY PriorityBest
    <3>4. score_missing_info(a.missing_information, g.missing_information) \in 0..One
      BY <2>1, <3>1, MissingBest
    <3>5. /\ score_priority(g.priority, g.priority) = One
          /\ score_missing_info(g.missing_information, g.missing_information) = One
      BY <2>1, PriorityBest, MissingBest
    <3>6. Right(answers, i) => a = g
      BY DEF Right
    <3> HIDE DEF a, g
    <3> QED
      BY <3>2, <3>3, <3>4, <3>5, <3>6
  <2> QED
    BY <2>2, <2>3
<1>4. Summable(Priorities(answers), Signals) /\ Summable(Missing(answers), Signals)
  BY <1>2, <1>3, GoldFacts DEF Summable
<1> QED
  BY <1>1, <1>3, <1>4

\* Each dimension of an improved submission is at least as good.
LEMMA DimensionsImprove ==
  ASSUME NEW before, NEW after, WellFormed(before), WellFormed(after), Improves(before, after)
  PROVE  /\ macro_f1(Categories(before), RightCategories, CATEGORIES)
              <= macro_f1(Categories(after), RightCategories, CATEGORIES)
         /\ MeanOf(Priorities(before)) <= MeanOf(Priorities(after))
         /\ macro_f1(Routes(before), RightRoutes, TEAMS)
              <= macro_f1(Routes(after), RightRoutes, TEAMS)
         /\ MeanOf(Missing(before)) <= MeanOf(Missing(after))
         /\ binary_f1(Alarms(before), RightAlarms) <= binary_f1(Alarms(after), RightAlarms)
<1>1. IsFiniteSet(Signals) /\ Signals # {}
  BY GoldFacts
<1>2. /\ DOMAIN RightCategories = Signals /\ DOMAIN RightRoutes = Signals
      /\ DOMAIN RightAlarms = Signals
      /\ \A a : /\ DOMAIN Categories(a) = Signals /\ DOMAIN Routes(a) = Signals
                /\ DOMAIN Alarms(a) = Signals
  BY DEF RightCategories, RightRoutes, RightAlarms, Categories, Routes, Alarms
<1>3. ASSUME NEW i \in Signals
      PROVE  /\ Categories(after)[i] = Categories(before)[i]
                \/ Categories(after)[i] = RightCategories[i]
             /\ Routes(after)[i] = Routes(before)[i] \/ Routes(after)[i] = RightRoutes[i]
             /\ Alarms(after)[i] = Alarms(before)[i] \/ Alarms(after)[i] = RightAlarms[i]
             /\ Priorities(before)[i] <= Priorities(after)[i]
             /\ Missing(before)[i] <= Missing(after)[i]
  <2>1. CASE Alike(before, after, i)
    <3>1. /\ Categories(after)[i] = Categories(before)[i]
          /\ Routes(after)[i] = Routes(before)[i]
          /\ Alarms(after)[i] = Alarms(before)[i]
          /\ Priorities(after)[i] = Priorities(before)[i]
          /\ Missing(after)[i] = Missing(before)[i]
      BY <2>1 DEF Alike, Categories, Routes, Alarms, Priorities, Missing
    <3>2. /\ Priorities(before)[i] \in 0..One /\ Missing(before)[i] \in 0..One
      BY MeansTyped
    <3> QED
      BY <3>1, <3>2, ScoreAssumption
  <2>2. CASE Right(after, i)
    <3>1. /\ Categories(after)[i] = RightCategories[i]
          /\ Routes(after)[i] = RightRoutes[i]
          /\ Alarms(after)[i] = RightAlarms[i]
      BY <2>2 DEF Right, Categories, Routes, Alarms, RightCategories, RightRoutes, RightAlarms
    <3>2. Priorities(after)[i] = One /\ Missing(after)[i] = One
      BY <2>2, MeansTyped
    <3>3. Priorities(before)[i] \in 0..One /\ Missing(before)[i] \in 0..One
      BY MeansTyped
    <3> QED
      BY <3>1, <3>2, <3>3, ScoreAssumption
  <2> QED
    BY <2>1, <2>2 DEF Improves
<1>4. /\ Corrected(Signals, Categories(before), Categories(after), RightCategories)
      /\ Corrected(Signals, Routes(before), Routes(after), RightRoutes)
      /\ Corrected(Signals, Alarms(before), Alarms(after), RightAlarms)
  BY <1>3, Zenon DEF Corrected
<1>5. MeanOf(Priorities(before)) <= MeanOf(Priorities(after))
  <2>1. /\ DOMAIN Priorities(before) = Signals /\ DOMAIN Priorities(after) = Signals
        /\ Summable(Priorities(before), Signals) /\ Summable(Priorities(after), Signals)
    BY MeansTyped
  <2>2. \A i \in Signals : Priorities(before)[i] <= Priorities(after)[i]
    BY <1>3
  <2> QED
    BY <1>1, <2>1, <2>2, MeanAtMost
<1>6. MeanOf(Missing(before)) <= MeanOf(Missing(after))
  <2>1. /\ DOMAIN Missing(before) = Signals /\ DOMAIN Missing(after) = Signals
        /\ Summable(Missing(before), Signals) /\ Summable(Missing(after), Signals)
    BY MeansTyped
  <2>2. \A i \in Signals : Missing(before)[i] <= Missing(after)[i]
    BY <1>3
  <2> QED
    BY <1>1, <2>1, <2>2, MeanAtMost
<1>7. /\ macro_f1(Categories(before), RightCategories, CATEGORIES)
           <= macro_f1(Categories(after), RightCategories, CATEGORIES)
      /\ macro_f1(Routes(before), RightRoutes, TEAMS) <= macro_f1(Routes(after), RightRoutes, TEAMS)
  BY <1>1, <1>2, <1>4, CorrectingMacroF1
<1>8. binary_f1(Alarms(before), RightAlarms) <= binary_f1(Alarms(after), RightAlarms)
  BY <1>1, <1>2, <1>4, CorrectingBinaryF1
<1> QED
  BY <1>5, <1>6, <1>7, <1>8

\* Where each ticket has the right answer, each dimension is One.
LEMMA DimensionsRight ==
  ASSUME NEW answers, WellFormed(answers), \A i \in Signals : Right(answers, i)
  PROVE  /\ macro_f1(Categories(answers), RightCategories, CATEGORIES) = One
         /\ MeanOf(Priorities(answers)) = One
         /\ macro_f1(Routes(answers), RightRoutes, TEAMS) = One
         /\ MeanOf(Missing(answers)) = One
         /\ binary_f1(Alarms(answers), RightAlarms) = One
<1>1. IsFiniteSet(Signals) /\ Signals # {}
  BY GoldFacts
<1>2. One \in Int
  BY ScoreAssumption
<1>3. /\ DOMAIN RightCategories = Signals /\ DOMAIN RightRoutes = Signals
      /\ DOMAIN RightAlarms = Signals
      /\ DOMAIN Categories(answers) = Signals /\ DOMAIN Routes(answers) = Signals
  BY DEF RightCategories, RightRoutes, RightAlarms, Categories, Routes
<1>4. ASSUME NEW i \in Signals
      PROVE  /\ Categories(answers)[i] = RightCategories[i]
             /\ Routes(answers)[i] = RightRoutes[i]
             /\ Alarms(answers)[i] = RightAlarms[i]
  BY <1>4 DEF Right, Categories, Routes, Alarms, RightCategories, RightRoutes, RightAlarms
<1>5. MeanOf(Priorities(answers)) = One /\ MeanOf(Missing(answers)) = One
  <2>1. ASSUME NEW w, DOMAIN w = Signals, Summable(w, Signals), \A i \in Signals : w[i] = One
        PROVE  MeanOf(w) = One
    <3>1. \A i \in DOMAIN w : One <= w[i] /\ w[i] <= One
      BY <1>2, <2>1
    <3>2. MeanOf(w) \in Int /\ One <= MeanOf(w) /\ MeanOf(w) <= One
      BY <1>1, <1>2, <2>1, <3>1, MeanBetween
    <3> QED
      BY <1>2, <3>2
  <2>2. /\ DOMAIN Priorities(answers) = Signals /\ Summable(Priorities(answers), Signals)
        /\ DOMAIN Missing(answers) = Signals /\ Summable(Missing(answers), Signals)
        /\ \A i \in Signals : Priorities(answers)[i] = One /\ Missing(answers)[i] = One
    BY MeansTyped
  <2> QED
    BY <2>1, <2>2
<1>6. (\E i \in Signals : RightCategories[i] \in CATEGORIES)
      /\ (\E i \in Signals : RightRoutes[i] \in TEAMS)
  BY ScoringAssumption DEF Signals, RightCategories, RightRoutes
<1>7. /\ macro_f1(Categories(answers), RightCategories, CATEGORIES) = One
      /\ macro_f1(Routes(answers), RightRoutes, TEAMS) = One
  BY <1>1, <1>3, <1>4, <1>6, MacroF1
<1>8. binary_f1(Alarms(answers), RightAlarms) = One
  BY <1>1, <1>3, <1>4, BinaryF1
<1> QED
  BY <1>5, <1>7, <1>8

----------------------------------------------------------------------------
(* The resolution.                                                         *)

LEMMA DimensionsBetween ==
  ASSUME NEW answers, WellFormed(answers)
  PROVE  \A d \in DOMAIN WEIGHTS : triage_dimensions(answers, GoldSignals)[d] \in 0..One
<1>1. IsFiniteSet(Signals) /\ Signals # {} /\ 0 \in Int /\ One \in Int
  BY GoldFacts, ScoreAssumption
<1>2. /\ DOMAIN RightCategories = Signals /\ DOMAIN RightRoutes = Signals
      /\ DOMAIN RightAlarms = Signals
      /\ DOMAIN Categories(answers) = Signals /\ DOMAIN Routes(answers) = Signals
  BY DEF RightCategories, RightRoutes, RightAlarms, Categories, Routes
<1>3. /\ macro_f1(Categories(answers), RightCategories, CATEGORIES) \in 0..One
      /\ macro_f1(Routes(answers), RightRoutes, TEAMS) \in 0..One
  BY <1>1, <1>2, MacroF1
<1>4. binary_f1(Alarms(answers), RightAlarms) \in 0..One
  BY <1>1, <1>2, BinaryF1
<1>5. ASSUME NEW w, DOMAIN w = Signals, Summable(w, Signals), \A i \in Signals : w[i] \in 0..One
      PROVE  MeanOf(w) \in 0..One
  <2>1. \A i \in DOMAIN w : 0 <= w[i] /\ w[i] <= One
    BY <1>1, <1>5
  <2>2. MeanOf(w) \in Int /\ 0 <= MeanOf(w) /\ MeanOf(w) <= One
    BY <1>1, <1>5, <2>1, MeanBetween
  <2> QED
    BY <1>1, <2>2
<1>6. MeanOf(Priorities(answers)) \in 0..One /\ MeanOf(Missing(answers)) \in 0..One
  BY <1>5, MeansTyped
<1> QED
  BY <1>3, <1>4, <1>6, Dimensions DEF WEIGHTS

LEMMA WeightFacts ==
  /\ DOMAIN WEIGHTS = {"category", "priority", "routing", "missing_info", "escalation"}
  /\ IsFiniteSet(DOMAIN WEIGHTS)
  /\ \A d \in DOMAIN WEIGHTS : WEIGHTS[d] \in Nat
  /\ SumFunctionOnSet(WEIGHTS, DOMAIN WEIGHTS) = 100
<1>1. \A d \in DOMAIN WEIGHTS : WEIGHTS[d] \in Nat
  BY DEF WEIGHTS
<1>2. ASSUME NEW S, IsFiniteSet(S), NEW x \in DOMAIN WEIGHTS, x \notin S, S \subseteq DOMAIN WEIGHTS
      PROVE  /\ IsFiniteSet(S \cup {x})
             /\ SumFunctionOnSet(WEIGHTS, S \cup {x}) = WEIGHTS[x] + SumFunctionOnSet(WEIGHTS, S)
  <2>1. IsFiniteSet(S \cup {x})
    BY <1>2, FS_AddElement
  <2>2. Summable(WEIGHTS, S \cup {x})
    BY <1>1, <1>2, <2>1 DEF Summable
  <2> QED
    BY <1>2, <2>1, <2>2, SumAdd
<1> DEFINE S0 == {}
           S1 == S0 \cup {"category"}
           S2 == S1 \cup {"priority"}
           S3 == S2 \cup {"routing"}
           S4 == S3 \cup {"missing_info"}
           S5 == S4 \cup {"escalation"}
           D  == DOMAIN WEIGHTS
           Sum(S) == SumFunctionOnSet(WEIGHTS, S)
<1>3. D = {"category", "priority", "routing", "missing_info", "escalation"}
  BY DEF WEIGHTS
<1>4. S5 = D
  BY <1>3
<1>5. IsFiniteSet(S0) /\ Sum(S0) = 0
  BY FS_EmptySet, SumEmpty
<1>6. IsFiniteSet(S1) /\ Sum(S1) = 24
  <2>1. "category" \in D /\ "category" \notin S0 /\ S0 \subseteq D /\ WEIGHTS["category"] = 24
    BY <1>3 DEF WEIGHTS
  <2> HIDE DEF S0, D
  <2> QED
    BY <1>2, <1>5, <2>1 DEF D
<1>7. IsFiniteSet(S2) /\ Sum(S2) = 48
  <2>1. "priority" \in D /\ "priority" \notin S1 /\ S1 \subseteq D /\ WEIGHTS["priority"] = 24
    BY <1>3 DEF WEIGHTS
  <2> HIDE DEF S1, D
  <2> QED
    BY <1>2, <1>6, <2>1 DEF D
<1>8. IsFiniteSet(S3) /\ Sum(S3) = 72
  <2>1. "routing" \in D /\ "routing" \notin S2 /\ S2 \subseteq D /\ WEIGHTS["routing"] = 24
    BY <1>3 DEF WEIGHTS
  <2> HIDE DEF S2, D
  <2> QED
    BY <1>2, <1>7, <2>1 DEF D
<1>9. IsFiniteSet(S4) /\ Sum(S4) = 89
  <2>1. /\ "missing_info" \in D /\ "missing_info" \notin S3 /\ S3 \subseteq D
        /\ WEIGHTS["missing_info"] = 17
    BY <1>3 DEF WEIGHTS
  <2> HIDE DEF S3, D
  <2> QED
    BY <1>2, <1>8, <2>1 DEF D
<1>10. IsFiniteSet(S5) /\ Sum(S5) = 100
  <2>1. /\ "escalation" \in D /\ "escalation" \notin S4 /\ S4 \subseteq D
        /\ WEIGHTS["escalation"] = 11
    BY <1>3 DEF WEIGHTS
  <2> HIDE DEF S4, D
  <2> QED
    BY <1>2, <1>9, <2>1 DEF D
<1> QED
  BY <1>1, <1>3, <1>4, <1>10

\* An improved submission has at least the resolution it had before.
LEMMA ResolutionImproves ==
  ASSUME NEW before, NEW after, WellFormed(before), WellFormed(after), Improves(before, after)
  PROVE  triage_resolution(before, GoldSignals) <= triage_resolution(after, GoldSignals)
<1> DEFINE D == DOMAIN WEIGHTS
           Of(answers) == triage_dimensions(answers, GoldSignals)
           w(answers) == [d \in D |-> WEIGHTS[d] * Of(answers)[d]]
<1>1. IsFiniteSet(D) /\ \A d \in D : WEIGHTS[d] \in Nat
  BY WeightFacts
<1>2. \A d \in D : Of(before)[d] \in Int /\ Of(after)[d] \in Int
  <2>1. 0..One \subseteq Int
    BY ScoreAssumption
  <2> QED
    BY <2>1, DimensionsBetween
<1>3. \A d \in D : Of(before)[d] <= Of(after)[d]
  BY Dimensions, DimensionsImprove DEF WEIGHTS
<1> DEFINE u == w(before)
           v == w(after)
<1>4. \A d \in D : u[d] \in Int /\ v[d] \in Int /\ u[d] <= v[d]
  <2> SUFFICES ASSUME NEW d \in D PROVE u[d] \in Int /\ v[d] \in Int /\ u[d] <= v[d]
    OBVIOUS
  <2> DEFINE k == WEIGHTS[d]
             a == Of(before)[d]
             b == Of(after)[d]
  <2>1. k \in Nat /\ a \in Int /\ b \in Int /\ a <= b
    BY <1>1, <1>2, <1>3
  <2>2. u[d] = k * a /\ v[d] = k * b
    OBVIOUS
  <2> HIDE DEF k, a, b, u, v
  <2> QED
    BY <2>1, <2>2
<1>5. DOMAIN u = D /\ DOMAIN v = D
  OBVIOUS
<1>6. /\ triage_resolution(before, GoldSignals) = SumFunctionOnSet(u, D) \div 100
      /\ triage_resolution(after, GoldSignals) = SumFunctionOnSet(v, D) \div 100
  BY DEF triage_resolution, Weighted, SumFunction
<1> HIDE DEF u, v, D
<1>7. Summable(u, D) /\ Summable(v, D)
  BY <1>1, <1>4 DEF Summable
<1> DEFINE p == SumFunctionOnSet(u, D)
           q == SumFunctionOnSet(v, D)
<1>8. p \in Int /\ q \in Int /\ p <= q
  BY <1>4, <1>7, SumFirst, SumAtMost
<1> HIDE DEF p, q
<1>9. p \div 100 <= q \div 100
  BY <1>8
<1> QED
  BY <1>6, <1>9 DEF p, q

\* A submission that is right about each ticket earns One.
LEMMA ResolutionRight ==
  ASSUME NEW answers, WellFormed(answers), \A i \in Signals : Right(answers, i)
  PROVE  triage_resolution(answers, GoldSignals) = One
<1> DEFINE D == DOMAIN WEIGHTS
           Of == triage_dimensions(answers, GoldSignals)
           w == [d \in D |-> WEIGHTS[d] * Of[d]]
<1>1. \A d \in D : Of[d] = One
  BY Dimensions, DimensionsRight DEF WEIGHTS
<1>2. One \in Nat /\ \A d \in D : WEIGHTS[d] \in Nat
  BY WeightFacts, ScoreAssumption
<1>3. \A d \in D : w[d] = One * WEIGHTS[d]
  BY <1>1, <1>2
<1>4. triage_resolution(answers, GoldSignals) = SumFunctionOnSet(w, D) \div 100
  BY DEF triage_resolution, Weighted, SumFunction
<1> HIDE DEF w
<1>5. SumFunctionOnSet(w, D) = One * 100
  <2>1. Summable(WEIGHTS, D) /\ SumFunctionOnSet(WEIGHTS, D) = 100
    BY WeightFacts DEF Summable
  <2>2. One \in Int
    BY <1>2
  <2> HIDE DEF D
  <2>3. ASSUME NEW u, Summable(u, D), \A d \in D : w[d] = One * u[d]
        PROVE  SumFunctionOnSet(w, D) = One * SumFunctionOnSet(u, D)
    BY <2>2, <2>3, SumTimes
  <2>4. SumFunctionOnSet(w, D) = One * SumFunctionOnSet(WEIGHTS, D)
    BY <1>3, <2>1, <2>3
  <2> QED
    BY <2>1, <2>4
<1> DEFINE p == SumFunctionOnSet(w, D)
<1>6. p = One * 100
  BY <1>5
<1> HIDE DEF p
<1>7. p \div 100 = One
  BY <1>2, <1>6
<1> QED
  BY <1>4, <1>7 DEF p

----------------------------------------------------------------------------
(* Right answers put before the others.                                    *)

LEMMA AnswersJoined ==
  ASSUME NEW s, NEW t, WellFormed(s), WellFormed(t)
  PROVE  /\ WellFormed(s \o t)
         /\ Len(s) \in Nat /\ Len(t) \in Nat
         /\ DOMAIN s = 1..Len(s) /\ DOMAIN t = 1..Len(t)
         /\ DOMAIN (s \o t) = 1..(Len(s) + Len(t))
         /\ \A k \in 1..Len(s) : (s \o t)[k] = s[k]
         /\ \A k \in 1..Len(t) : (s \o t)[Len(s) + k] = t[k]
<1> DEFINE S == ToSet(s) \cup ToSet(t)
           both == s \o t
<1>1. /\ Len(s) \in Nat /\ DOMAIN s = 1..Len(s)
      /\ Len(t) \in Nat /\ DOMAIN t = 1..Len(t)
  BY LenProperties DEF WellFormed
<1>2. s \in Seq(S) /\ t \in Seq(S)
  <2>1. s \in Seq(ToSet(s)) /\ t \in Seq(ToSet(t))
    BY DEF WellFormed
  <2>2. ToSet(s) \subseteq S /\ ToSet(t) \subseteq S
    OBVIOUS
  <2> HIDE DEF S
  <2> QED
    BY <2>1, <2>2, SeqMonotonic
<1> HIDE DEF S
<1>3. /\ both \in Seq(S) /\ Len(both) = Len(s) + Len(t)
      /\ \A k \in 1..(Len(s) + Len(t)) :
           both[k] = IF k <= Len(s) THEN s[k] ELSE t[k - Len(s)]
  BY <1>2, ConcatProperties
<1>4. DOMAIN both = 1..(Len(s) + Len(t)) /\ both \in [1..(Len(s) + Len(t)) -> S]
  BY <1>3, LenProperties
<1> HIDE DEF both
<1>5. \A k \in 1..Len(s) : both[k] = s[k]
  BY <1>1, <1>3
<1>6. \A k \in 1..Len(t) : both[Len(s) + k] = t[k]
  <2> SUFFICES ASSUME NEW k \in 1..Len(t) PROVE both[Len(s) + k] = t[k]
    OBVIOUS
  <2>1. Len(s) + k \in 1..(Len(s) + Len(t)) /\ ~(Len(s) + k <= Len(s)) /\ (Len(s) + k) - Len(s) = k
    BY <1>1
  <2> QED
    BY <1>3, <2>1
<1>7. both \in Seq(ToSet(both))
  <2>1. both \in [1..(Len(s) + Len(t)) -> ToSet(both)]
    BY <1>4 DEF ToSet
  <2>2. Len(s) + Len(t) \in Nat
    BY <1>1
  <2> QED
    BY <2>1, <2>2, SeqDef
<1>8. ASSUME NEW k \in DOMAIN both PROVE Bounded(both[k].missing_information)
  <2>1. CASE k <= Len(s)
    BY <1>1, <1>4, <1>5, <2>1 DEF WellFormed
  <2>2. CASE ~(k <= Len(s))
    <3>1. k - Len(s) \in DOMAIN t /\ both[k] = t[k - Len(s)]
      BY <1>1, <1>3, <1>4, <2>2
    <3> QED
      BY <3>1 DEF WellFormed
  <2> QED
    BY <2>1, <2>2
<1> QED
  BY <1>1, <1>4, <1>5, <1>6, <1>7, <1>8 DEF WellFormed, both

\* Where the first answer with a ticket's id is.
LEMMA AnswerIs ==
  ASSUME NEW answers, WellFormed(answers), NEW i \in Signals, NEW k \in DOMAIN answers,
         answers[k].ticket_id = GoldSignals[i].ticket_id,
         \A j \in DOMAIN answers :
           answers[j].ticket_id = GoldSignals[i].ticket_id => k <= j
  PROVE  At(answers, i) = k
<1>1. DOMAIN answers = 1..Len(answers) /\ Len(answers) \in Nat
  BY LenProperties DEF WellFormed
<1>2. At(answers, i) # 0
  BY AnswerFirst
<1>3. At(answers, i) \in DOMAIN answers /\ At(answers, i) <= k /\ k <= At(answers, i)
  BY <1>2, AnswerFirst
<1> QED
  BY <1>1, <1>3

\* The right answer to one ticket improves any submission.
LEMMA OneRight ==
  ASSUME NEW answers, WellFormed(answers), NEW i \in Signals
  PROVE  /\ WellFormed(<<GoldSignals[i]>> \o answers)
         /\ Improves(answers, <<GoldSignals[i]>> \o answers)
<1> DEFINE first == <<GoldSignals[i]>>
           after == first \o answers
<1>1. WellFormed(first) /\ Len(first) = 1 /\ first[1] = GoldSignals[i]
  BY GoldFacts DEF WellFormed, ToSet
<1> HIDE DEF first
<1>2. /\ WellFormed(after)
      /\ Len(answers) \in Nat /\ DOMAIN answers = 1..Len(answers)
      /\ DOMAIN after = 1..(1 + Len(answers))
      /\ after[1] = GoldSignals[i]
      /\ \A k \in 1..Len(answers) : after[1 + k] = answers[k]
  <2>1. /\ WellFormed(after)
        /\ Len(answers) \in Nat /\ DOMAIN answers = 1..Len(answers)
        /\ DOMAIN after = 1..(Len(first) + Len(answers))
        /\ \A k \in 1..Len(first) : after[k] = first[k]
        /\ \A k \in 1..Len(answers) : after[Len(first) + k] = answers[k]
    <3>1. WellFormed(first) /\ WellFormed(answers)
      BY <1>1
    <3> QED
      BY <3>1, AnswersJoined
  <2> HIDE DEF after
  <2> QED
    BY <1>1, <2>1
<1> HIDE DEF after
<1>3. Right(after, i)
  <2>1. 1 \in DOMAIN after /\ \A j \in DOMAIN after : 1 <= j
    BY <1>2
  <2>2. At(after, i) = 1
    BY <1>2, <2>1, AnswerIs
  <2> QED
    BY <1>2, <2>2 DEF Right
<1>4. ASSUME NEW j \in Signals, j # i PROVE Alike(answers, after, j)
  <2>1. GoldSignals[i].ticket_id # GoldSignals[j].ticket_id
    BY <1>4, GoldFacts
  <2>2. CASE At(answers, j) = 0
    <3>1. \A k \in DOMAIN answers : answers[k].ticket_id # GoldSignals[j].ticket_id
      BY <2>2, AnswerFirst
    <3>2. ASSUME NEW k \in DOMAIN after PROVE after[k].ticket_id # GoldSignals[j].ticket_id
      <4>1. CASE k = 1
        BY <1>2, <2>1, <4>1
      <4>2. CASE k # 1
        <5>1. k - 1 \in DOMAIN answers /\ 1 + (k - 1) = k
          BY <1>2, <4>2
        <5>2. after[k] = answers[k - 1]
          BY <1>2, <5>1
        <5> QED
          BY <3>1, <5>1, <5>2
      <4> QED
        BY <4>1, <4>2
    <3>3. At(after, j) = 0
      BY <1>2, <3>2, AnswerFirst
    <3> QED
      BY <2>2, <3>3 DEF Alike
  <2>3. CASE At(answers, j) # 0
    <3> DEFINE k == At(answers, j)
    <3>1. /\ k \in DOMAIN answers /\ answers[k].ticket_id = GoldSignals[j].ticket_id
          /\ \A l \in DOMAIN answers :
               answers[l].ticket_id = GoldSignals[j].ticket_id => k <= l
      BY <2>3, AnswerFirst
    <3> HIDE DEF k
    <3>2. 1 + k \in DOMAIN after /\ after[1 + k] = answers[k] /\ 1 + k # 0
      BY <1>2, <3>1
    <3>3. ASSUME NEW l \in DOMAIN after, after[l].ticket_id = GoldSignals[j].ticket_id
          PROVE  1 + k <= l
      <4>1. l # 1
        BY <1>2, <2>1, <3>3
      <4>2. l - 1 \in DOMAIN answers /\ 1 + (l - 1) = l
        BY <1>2, <4>1
      <4>3. after[l] = answers[l - 1]
        BY <1>2, <4>2
      <4>4. k <= l - 1
        BY <3>1, <3>3, <4>2, <4>3
      <4> QED
        BY <1>2, <3>1, <4>2, <4>4
    <3>4. At(after, j) = 1 + k
      BY <1>2, <3>1, <3>2, <3>3, AnswerIs
    <3> QED
      BY <2>3, <3>2, <3>4 DEF Alike, k
  <2> QED
    BY <2>2, <2>3
<1> QED
  BY <1>2, <1>3, <1>4 DEF Improves, after, first

\* The golden signals before it make any submission right.
LEMMA AllRight ==
  ASSUME NEW answers, WellFormed(answers)
  PROVE  /\ WellFormed(GoldSignals \o answers)
         /\ \A i \in Signals : Right(GoldSignals \o answers, i)
<1> DEFINE after == GoldSignals \o answers
<1>1. WellFormed(GoldSignals) /\ Signals = 1..Len(GoldSignals) /\ Len(GoldSignals) \in Nat
  BY GoldFacts DEF WellFormed, Signals
<1>2. /\ WellFormed(after)
      /\ Len(answers) \in Nat
      /\ DOMAIN after = 1..(Len(GoldSignals) + Len(answers))
      /\ \A k \in Signals : after[k] = GoldSignals[k]
  BY <1>1, AnswersJoined
<1> HIDE DEF after
<1>3. ASSUME NEW i \in Signals PROVE Right(after, i)
  <2>1. i \in DOMAIN after /\ after[i] = GoldSignals[i] /\ i # 0
    BY <1>1, <1>2
  <2>2. ASSUME NEW j \in DOMAIN after, after[j].ticket_id = GoldSignals[i].ticket_id
        PROVE  i <= j
    <3>1. CASE j \in Signals
      <4>1. j = i
        BY <1>2, <2>2, <3>1, GoldFacts
      <4> QED
        BY <1>1, <4>1
    <3>2. CASE j \notin Signals
      BY <1>1, <1>2, <3>2
    <3> QED
      BY <3>1, <3>2
  <2>3. At(after, i) = i
    BY <1>2, <2>1, <2>2, AnswerIs
  <2> QED
    BY <2>1, <2>3 DEF Right
<1> QED
  BY <1>2, <1>3 DEF after

----------------------------------------------------------------------------
(* Workflows: what a gold's assertions count.                              *)

\* A value matches a text when it reads as that text.
LEMMA TextMatch ==
  ASSUME NEW v, NEW text
  PROVE  param_value_match(v, Str(text)) = One <=>
           v.kind # "null" /\ normalize_text(StrOf(v)) = normalize_text(text)
<1> DEFINE kinds == {v.kind, "str"}
<1>1. One # 0
  BY ScoreAssumption
<1>2. Str(text).kind = "str" /\ StrOf(Str(text)) = text
  BY DEF Str, StrOf
<1>3. CASE v.kind = "null"
  <2>1. param_value_match(v, Str(text)) = Is(kinds = {"null"})
    BY <1>2, <1>3 DEF param_value_match
  <2>2. kinds # {"null"}
    OBVIOUS
  <2> QED
    BY <1>1, <1>3, <2>1, <2>2 DEF Is
<1>4. CASE v.kind # "null"
  <2>1. "null" \notin kinds /\ kinds # {"dict"} /\ kinds # {"list"} /\ ~(kinds \subseteq {"num", "bool"})
    BY <1>4
  <2>2. param_value_match(v, Str(text)) = Is(normalize_text(StrOf(v)) = normalize_text(text))
    BY <1>2, <2>1 DEF param_value_match
  <2> QED
    BY <1>1, <1>4, <2>2 DEF Is
<1> QED
  BY <1>3, <1>4

LEMMA PlainText ==
  ASSUME NEW core
  PROVE  normalize_text(<<Plain(core)>>) = <<Plain(core)>> /\ <<Plain(core)>> # <<>>
<1>1. Plain(core).form = "plain"
  BY DEF Plain
<1>2. [Plain(core) EXCEPT !.form = IF @ \in {"case", "edge"} THEN "plain" ELSE @] = Plain(core)
  BY <1>1 DEF Plain
<1> QED
  BY <1>2 DEF normalize_text

LEMMA WordMatch ==
  ASSUME NEW v, NEW word
  PROVE  param_value_match(v, Str(<<Plain(word)>>)) = One <=> Reads(v, word)
  BY TextMatch, PlainText DEF Reads

\* Without parameters to match all calls of the tool count,
LEMMA CountTool ==
  ASSUME NEW calls, NEW tool
  PROVE  count_matching_calls(calls, <<Plain(tool)>>, <<>>) = Number(calls, tool)
<1>1. \A params : mapping_matches(params, <<>>)
  BY DEF mapping_matches
<1>2. {i \in DOMAIN calls : /\ <<Plain(tool)>> = <<>> \/ Tool(calls[i]) = normalize_text(<<Plain(tool)>>)
                            /\ mapping_matches(calls[i].params, <<>>)}
        = {i \in DOMAIN calls : Tool(calls[i]) = <<Plain(tool)>>}
  BY <1>1, PlainText
<1> QED
  BY <1>2 DEF count_matching_calls, Number, Tally

\* with one those that have its word,
LEMMA CountWord ==
  ASSUME NEW calls, NEW tool, NEW key, NEW word
  PROVE  count_matching_calls(calls, <<Plain(tool)>>, [k \in {key} |-> Str(<<Plain(word)>>)])
           = Sent(calls, tool, key, word)
<1> DEFINE match == [k \in {key} |-> Str(<<Plain(word)>>)]
<1>1. ASSUME NEW params
      PROVE  mapping_matches(params, match) <=> Reads(Get(params, key), word)
  <2>1. DOMAIN match = {key} /\ match[key] = Str(<<Plain(word)>>) /\ match[key].kind # "dict"
    BY DEF Str
  <2> HIDE DEF match
  <2>2. mapping_matches(params, match) <=> param_value_match(Get(params, key), match[key]) = One
    BY <2>1 DEF mapping_matches
  <2> QED
    BY <2>1, <2>2, WordMatch
<1> HIDE DEF match
<1>2. count_matching_calls(calls, <<Plain(tool)>>, match)
        = Cardinality({i \in DOMAIN calls : /\ IsTool(calls[i], tool)
                                            /\ mapping_matches(calls[i].params, match)})
  BY PlainText DEF count_matching_calls, IsTool
<1>3. {i \in DOMAIN calls : IsTool(calls[i], tool) /\ mapping_matches(calls[i].params, match)}
        = {i \in DOMAIN calls : IsTool(calls[i], tool) /\ Reads(Get(calls[i].params, key), word)}
  BY <1>1
<1> QED
  BY <1>2, <1>3 DEF Sent, match

\* and of a quote the nested plan is compared as a text.
LEMMA CountQuotes ==
  ASSUME NEW calls, \A i \in DOMAIN calls : \A k \in DOMAIN calls[i].params :
                      calls[i].params[k] \in Values,
         NEW plan, normalize_text(plan) \notin {<<>>, <<Plain("none")>>},
         Dict([plan |-> Str(plan)]) \in Values
  PROVE  count_matching_calls(calls, <<Plain("email_send")>>,
                              [template |-> Str(<<Plain("renewal_quote")>>),
                               variables |-> Dict([k \in {"plan"} |-> Str(plan)])])
           = Quoted(calls, plan)
<1> DEFINE match == [template |-> Str(<<Plain("renewal_quote")>>),
                     variables |-> Dict([k \in {"plan"} |-> Str(plan)])]
           inner == [k \in {"plan"} |-> Str(plan)]
           Holds(fields) == /\ "plan" \in DOMAIN fields
                            /\ normalize_text(StrOf(fields["plan"])) = normalize_text(plan)
           Asked(params) == /\ Reads(Get(params, "template"), "renewal_quote")
                            /\ Get(params, "variables").kind = "dict"
                            /\ Holds(Get(params, "variables").fields)
<1>1. Dict(inner) = Dict([plan |-> Str(plan)]) /\ Dict(inner).kind = "dict" /\ Dict(inner).fields = inner
  BY DEF Dict
<1>2. ASSUME NEW fields
      PROVE  mapping_matches(fields, inner) <=> Holds(fields)
  <2>1. DOMAIN inner = {"plan"} /\ inner["plan"] = Str(plan) /\ inner["plan"].kind # "dict"
    BY DEF Str
  <2> HIDE DEF inner
  <2>2. mapping_matches(fields, inner) <=> param_value_match(Get(fields, "plan"), Str(plan)) = One
    BY <2>1 DEF mapping_matches
  <2>3. CASE Get(fields, "plan").kind = "null"
    <3>1. ~(param_value_match(Get(fields, "plan"), Str(plan)) = One)
      BY <2>3, TextMatch
    <3>2. ASSUME "plan" \in DOMAIN fields PROVE normalize_text(StrOf(fields["plan"])) = <<Plain("none")>>
      <4>1. fields["plan"].kind = "null"
        BY <2>3, <3>2 DEF Get
      <4>2. StrOf(fields["plan"]) = <<[core |-> "none", form |-> "case"]>>
        BY <4>1 DEF StrOf
      <4>3. normalize_text(<<[core |-> "none", form |-> "case"]>>) = <<Plain("none")>>
        BY DEF normalize_text, Plain
      <4> QED
        BY <4>2, <4>3
    <3> QED
      BY <2>2, <3>1, <3>2
  <2>4. CASE Get(fields, "plan").kind # "null"
    <3>1. "plan" \in DOMAIN fields /\ Get(fields, "plan") = fields["plan"]
      BY <2>4 DEF Get, Null
    <3> QED
      BY <2>2, <2>4, <3>1, TextMatch
  <2> QED
    BY <2>3, <2>4
<1>3. ASSUME NEW i \in DOMAIN calls
      PROVE  mapping_matches(calls[i].params, match) <=> Asked(calls[i].params)
  <2> DEFINE params == calls[i].params
  <2>1. /\ DOMAIN match = {"template", "variables"}
        /\ match["template"] = Str(<<Plain("renewal_quote")>>) /\ match["template"].kind # "dict"
        /\ match["variables"] = Dict(inner)
    BY DEF Str
  <2> HIDE DEF match, inner
  <2>2. mapping_matches(params, match) <=>
          /\ param_value_match(Get(params, "template"), match["template"]) = One
          /\ Get(params, "variables").kind = "dict"
          /\ MappingMatches(params["variables"].fields, inner)
    BY <1>1, <2>1 DEF mapping_matches
  <2>3. CASE Get(params, "variables").kind = "dict"
    <3>1. "variables" \in DOMAIN params /\ Get(params, "variables") = params["variables"]
      BY <2>3 DEF Get, Null
    <3>2. params["variables"] \in Values /\ Dict(inner) \in Values
      BY <1>1, <3>1
    <3>3. MappingMatches(params["variables"].fields, inner)
            <=> mapping_matches(params["variables"].fields, inner)
      BY <1>1, <2>3, <3>1, <3>2, RecursionAssumption
    <3> QED
      BY <1>2, <2>1, <2>2, <2>3, <3>1, <3>3, WordMatch
  <2>4. CASE Get(params, "variables").kind # "dict"
    BY <2>2, <2>4
  <2> QED
    BY <2>3, <2>4
<1> HIDE DEF match
<1>4. count_matching_calls(calls, <<Plain("email_send")>>, match)
        = Cardinality({i \in DOMAIN calls : /\ IsTool(calls[i], "email_send")
                                            /\ mapping_matches(calls[i].params, match)})
  BY PlainText DEF count_matching_calls, IsTool
<1>5. {i \in DOMAIN calls : /\ IsTool(calls[i], "email_send")
                            /\ mapping_matches(calls[i].params, match)}
        = {i \in DOMAIN calls : IsTool(calls[i], "email_send") /\ Asked(calls[i].params)}
  BY <1>3
<1>6. ASSUME NEW i \in DOMAIN calls
      PROVE  IsTool(calls[i], "email_send") /\ Asked(calls[i].params)
               <=> IsQuote(calls[i]) /\ PlanOf(calls[i]) = normalize_text(plan)
  BY DEF IsQuote, PlanOf
<1> HIDE DEF Asked
<1>7. {i \in DOMAIN calls : IsTool(calls[i], "email_send") /\ Asked(calls[i].params)}
        = {i \in DOMAIN calls : IsQuote(calls[i]) /\ PlanOf(calls[i]) = normalize_text(plan)}
  BY <1>6
<1> QED
  BY <1>4, <1>5, <1>7 DEF Quoted, match

\* Whether a trace does what an assertion on calls asks for.
Met(calls, a) ==
  LET count == count_matching_calls(calls, a.tool, a.match)
  IN  /\ "equals" \in DOMAIN a => count = a.equals
      /\ "min" \in DOMAIN a => count >= a.min
      /\ "max" \in DOMAIN a => count <= a.max

LEMMA CheckIs ==
  ASSUME NEW n, NEW tool, NEW match
  PROVE  CountIs(n, tool, match).check = "call_count" /\ CountFrom(n, tool, match).check = "call_count"
  BY DEF CountIs, CountFrom

LEMMA MetIs ==
  ASSUME NEW calls, NEW n, NEW tool, NEW match
  PROVE  Met(calls, CountIs(n, tool, match)) <=>
           count_matching_calls(calls, <<Plain(tool)>>, match) = n
  BY DEF Met, CountIs

LEMMA MetFrom ==
  ASSUME NEW calls, NEW n, NEW tool, NEW match
  PROVE  Met(calls, CountFrom(n, tool, match)) <=>
           count_matching_calls(calls, <<Plain(tool)>>, match) >= n
  BY DEF Met, CountFrom

LEMMA MetTool ==
  ASSUME NEW calls, NEW n, NEW tool
  PROVE  /\ Met(calls, CountIs(n, tool, <<>>)) <=> Number(calls, tool) = n
         /\ Met(calls, CountFrom(n, tool, <<>>)) <=> Number(calls, tool) >= n
<1>1. count_matching_calls(calls, <<Plain(tool)>>, <<>>) = Number(calls, tool)
  BY CountTool
<1> QED
  BY <1>1, MetIs, MetFrom

LEMMA CountOfWord ==
  ASSUME NEW calls, NEW tool, NEW key, NEW word
  PROVE  count_matching_calls(calls, <<Plain(tool)>>, Word(<<Plain(word)>>, key))
           = Sent(calls, tool, key, word)
  BY CountWord DEF Word

LEMMA MetWord ==
  ASSUME NEW calls, NEW n, NEW tool, NEW key, NEW word
  PROVE  Met(calls, CountIs(n, tool, Word(<<Plain(word)>>, key))) <=> Sent(calls, tool, key, word) = n
<1> DEFINE match == Word(<<Plain(word)>>, key)
<1>1. count_matching_calls(calls, <<Plain(tool)>>, match) = Sent(calls, tool, key, word)
  BY CountOfWord
<1> HIDE DEF match
<1>2. Met(calls, CountIs(n, tool, match)) <=> Sent(calls, tool, key, word) = n
  BY <1>1, MetIs
<1> QED
  BY <1>2 DEF match

LEMMA MetFromWord ==
  ASSUME NEW calls, NEW n, NEW tool, NEW key, NEW word
  PROVE  Met(calls, CountFrom(n, tool, Word(<<Plain(word)>>, key))) <=> Sent(calls, tool, key, word) >= n
<1> DEFINE match == Word(<<Plain(word)>>, key)
<1>1. count_matching_calls(calls, <<Plain(tool)>>, match) = Sent(calls, tool, key, word)
  BY CountOfWord
<1> HIDE DEF match
<1>2. Met(calls, CountFrom(n, tool, match)) <=> Sent(calls, tool, key, word) >= n
  BY <1>1, MetFrom
<1> QED
  BY <1>2 DEF match

LEMMA MetLog ==
  ASSUME NEW calls, IsFiniteSet(DOMAIN calls), NEW action
  PROVE  Met(calls, CountFrom(1, "audit_log", Word(<<Plain(action)>>, "action")))
           <=> Logged(calls, action)
<1>1. Sent(calls, "audit_log", "action", action) \in Nat
  BY FS_CardinalityType, FS_Subset DEF Sent
<1>2. Met(calls, CountFrom(1, "audit_log", Word(<<Plain(action)>>, "action")))
        <=> Sent(calls, "audit_log", "action", action) >= 1
  BY MetFromWord
<1> QED
  BY <1>1, <1>2 DEF Logged

LEMMA MetQuote ==
  ASSUME NEW calls, \A i \in DOMAIN calls : \A k \in DOMAIN calls[i].params :
                      calls[i].params[k] \in Values,
         NEW plan, normalize_text(plan) \notin {<<>>, <<Plain("none")>>},
         Dict([plan |-> Str(plan)]) \in Values
  PROVE  Met(calls, CountIs(1, "email_send", [template |-> Str(<<Plain("renewal_quote")>>),
                                              variables |-> Dict(Word(plan, "plan"))]))
           <=> Quoted(calls, plan) = 1
<1> DEFINE match == [template |-> Str(<<Plain("renewal_quote")>>),
                     variables |-> Dict(Word(plan, "plan"))]
<1>1. count_matching_calls(calls, <<Plain("email_send")>>, match) = Quoted(calls, plan)
  BY CountQuotes DEF Word
<1> HIDE DEF match
<1>2. Met(calls, CountIs(1, "email_send", match)) <=> Quoted(calls, plan) = 1
  BY <1>1, MetIs
<1> QED
  BY <1>2 DEF match

LEMMA PassingAgrees ==
  ASSUME NEW f, NEW g, DOMAIN f = DOMAIN g, \A i \in DOMAIN f : f[i] <=> g[i]
  PROVE  Passing(f) = Passing(g)
<1>1. {i \in DOMAIN f : f[i]} = {i \in DOMAIN g : g[i]}
  OBVIOUS
<1> QED
  BY <1>1 DEF Passing

\* Assertions on calls are as good as checks that say the same.
LEMMA AssertionsAsChecks ==
  ASSUME NEW calls, calls # <<>>, NEW assertions, NEW checks, DOMAIN assertions = DOMAIN checks,
         \A i \in DOMAIN assertions : assertions[i].check = "call_count",
         \A i \in DOMAIN assertions : Met(calls, assertions[i]) <=> checks[i]
  PROVE  evaluate_outcome_assertions(calls, assertions) = Passing(checks)
<1> DEFINE met == [i \in DOMAIN assertions |-> Met(calls, assertions[i])]
<1>1. {i \in DOMAIN assertions : assertions[i].check \in {"call_count", "tool_count"}}
        = DOMAIN assertions
  OBVIOUS
<1>2. evaluate_outcome_assertions(calls, assertions) = Passing(met)
  BY <1>1 DEF evaluate_outcome_assertions, Met
<1>3. DOMAIN met = DOMAIN checks /\ \A i \in DOMAIN met : met[i] <=> checks[i]
  OBVIOUS
<1> HIDE DEF met
<1> QED
  BY <1>2, <1>3, PassingAgrees

\* Template by template, the assertions count what the checks count.
LEMMA TemplateAsAssertions ==
  ASSUME NEW gold, gold.template \in Templates, NEW calls, IsFiniteSet(DOMAIN calls),
         \A i \in DOMAIN calls : \A k \in DOMAIN calls[i].params : calls[i].params[k] \in Values,
         gold.template = "contract_renewal" =>
           /\ normalize_text(gold.outcome["plan"]) \notin {<<>>, <<Plain("none")>>}
           /\ Dict([plan |-> Str(gold.outcome["plan"])]) \in Values
  PROVE  /\ template_goal(calls, gold) # <<>> /\ DOMAIN GoalAssertions(gold) # {}
         /\ DOMAIN GoalAssertions(gold) = DOMAIN template_goal(calls, gold)
         /\ \A i \in DOMAIN GoalAssertions(gold) : GoalAssertions(gold)[i].check = "call_count"
         /\ \A i \in DOMAIN GoalAssertions(gold) :
              Met(calls, GoalAssertions(gold)[i]) <=> template_goal(calls, gold)[i]
<1> DEFINE Goal == GoalAssertions(gold)
           Checks == template_goal(calls, gold)
<1>1. CASE gold.template = "re_engagement_campaign"
  <2>1. Goal = <<CountFrom(Planned(gold, "subscription_check"), "subscription_check", <<>>),
                 CountIs(Amount(gold, "emails_sent"), "email_send", <<>>),
                 CountFrom(Amount(gold, "emails_sent"), "audit_log", <<>>)>>
    BY <1>1 DEF GoalAssertions
  <2>2. Checks = <<Number(calls, "subscription_check") >= Planned(gold, "subscription_check"),
                   Number(calls, "email_send") = Amount(gold, "emails_sent"),
                   Number(calls, "audit_log") >= Amount(gold, "emails_sent")>>
    BY <1>1 DEF template_goal
  <2> HIDE DEF Goal, Checks
  <2>3. DOMAIN Goal = 1..3 /\ DOMAIN Checks = 1..3
    BY <2>1, <2>2
  <2>4. Goal[1].check = "call_count" /\ (Met(calls, Goal[1]) <=> Checks[1])
    BY <2>1, <2>2, CheckIs, MetTool
  <2>5. Goal[2].check = "call_count" /\ (Met(calls, Goal[2]) <=> Checks[2])
    BY <2>1, <2>2, CheckIs, MetTool
  <2>6. Goal[3].check = "call_count" /\ (Met(calls, Goal[3]) <=> Checks[3])
    BY <2>1, <2>2, CheckIs, MetTool
  <2> QED
    BY <2>3, <2>4, <2>5, <2>6 DEF Goal, Checks
<1>2. CASE gold.template = "inventory_restock"
  <2>1. Goal = <<CountFrom(Planned(gold, "inventory_query"), "inventory_query", <<>>),
                 CountIs(Amount(gold, "alerts_sent"), "notification_send", <<>>)>>
    BY <1>2 DEF GoalAssertions
  <2>2. Checks = <<Number(calls, "inventory_query") >= Planned(gold, "inventory_query"),
                   Number(calls, "notification_send") = Amount(gold, "alerts_sent")>>
    BY <1>2 DEF template_goal
  <2> HIDE DEF Goal, Checks
  <2>3. DOMAIN Goal = 1..2 /\ DOMAIN Checks = 1..2
    BY <2>1, <2>2
  <2>4. Goal[1].check = "call_count" /\ (Met(calls, Goal[1]) <=> Checks[1])
    BY <2>1, <2>2, CheckIs, MetTool
  <2>5. Goal[2].check = "call_count" /\ (Met(calls, Goal[2]) <=> Checks[2])
    BY <2>1, <2>2, CheckIs, MetTool
  <2> QED
    BY <2>3, <2>4, <2>5 DEF Goal, Checks
<1>3. CASE gold.template = "onboarding_workflow"
  <2> DEFINE started == Flag(gold, "onboarded")
             action == IF started = 1 THEN "onboarding_started" ELSE "onboarding_blocked"
  <2>1. Goal = <<CountIs(started, "email_send", Word(<<Plain("welcome")>>, "template")),
                 CountIs(started, "email_send", Word(<<Plain("kickoff_invite")>>, "template")),
                 CountIs(1 - started, "notification_send", Word(<<Plain("sales_team")>>, "user_id")),
                 CountFrom(1, "audit_log", Word(<<Plain(action)>>, "action"))>>
    BY <1>3 DEF GoalAssertions
  <2>2. Checks = <<Sent(calls, "email_send", "template", "welcome") = started,
                   Sent(calls, "email_send", "template", "kickoff_invite") = started,
                   Sent(calls, "notification_send", "user_id", "sales_team") = 1 - started,
                   Logged(calls, action)>>
    BY <1>3 DEF template_goal
  <2> HIDE DEF Goal, Checks, started, action
  <2>3. DOMAIN Goal = 1..4 /\ DOMAIN Checks = 1..4
    BY <2>1, <2>2
  <2>4. Goal[1].check = "call_count" /\ (Met(calls, Goal[1]) <=> Checks[1])
    <3>1. Met(calls, CountIs(started, "email_send", Word(<<Plain("welcome")>>, "template")))
            <=> Sent(calls, "email_send", "template", "welcome") = started
      BY MetWord
    <3> QED
      BY <2>1, <2>2, <3>1, CheckIs
  <2>5. Goal[2].check = "call_count" /\ (Met(calls, Goal[2]) <=> Checks[2])
    <3>1. Met(calls, CountIs(started, "email_send", Word(<<Plain("kickoff_invite")>>, "template")))
            <=> Sent(calls, "email_send", "template", "kickoff_invite") = started
      BY MetWord
    <3> QED
      BY <2>1, <2>2, <3>1, CheckIs
  <2>6. Goal[3].check = "call_count" /\ (Met(calls, Goal[3]) <=> Checks[3])
    <3>1. Met(calls, CountIs(1 - started, "notification_send", Word(<<Plain("sales_team")>>, "user_id")))
            <=> Sent(calls, "notification_send", "user_id", "sales_team") = 1 - started
      BY MetWord
    <3> QED
      BY <2>1, <2>2, <3>1, CheckIs
  <2>7. Goal[4].check = "call_count" /\ (Met(calls, Goal[4]) <=> Checks[4])
    BY <2>1, <2>2, CheckIs, MetLog
  <2>8. \A i \in DOMAIN Goal : /\ Goal[i].check = "call_count"
                               /\ Met(calls, Goal[i]) <=> Checks[i]
    BY <2>3, <2>4, <2>5, <2>6, <2>7
  <2> QED
    BY <2>3, <2>8 DEF Goal, Checks
<1>4. CASE gold.template = "churn_risk_analysis"
  <2>1. Goal = <<CountIs(Amount(gold, "high_risk"), "notification_send", Word(<<Plain("lead_retention")>>, "user_id")),
                 CountIs(Amount(gold, "medium_risk"), "notification_send", Word(<<Plain("lead_customer_success")>>, "user_id")),
                 CountIs(Amount(gold, "alerts_sent"), "audit_log", <<>>)>>
    BY <1>4 DEF GoalAssertions
  <2>2. Checks = <<Sent(calls, "notification_send", "user_id", "lead_retention") = Amount(gold, "high_risk"),
                   Sent(calls, "notification_send", "user_id", "lead_customer_success") = Amount(gold, "medium_risk"),
                   Number(calls, "audit_log") = Amount(gold, "alerts_sent")>>
    BY <1>4 DEF template_goal
  <2> HIDE DEF Goal, Checks
  <2>3. DOMAIN Goal = 1..3 /\ DOMAIN Checks = 1..3
    BY <2>1, <2>2
  <2>4. Goal[1].check = "call_count" /\ (Met(calls, Goal[1]) <=> Checks[1])
    <3>1. Met(calls, CountIs(Amount(gold, "high_risk"), "notification_send", Word(<<Plain("lead_retention")>>, "user_id")))
            <=> Sent(calls, "notification_send", "user_id", "lead_retention") = Amount(gold, "high_risk")
      BY MetWord
    <3> QED
      BY <2>1, <2>2, <3>1, CheckIs
  <2>5. Goal[2].check = "call_count" /\ (Met(calls, Goal[2]) <=> Checks[2])
    <3>1. Met(calls, CountIs(Amount(gold, "medium_risk"), "notification_send", Word(<<Plain("lead_customer_success")>>, "user_id")))
            <=> Sent(calls, "notification_send", "user_id", "lead_customer_success") = Amount(gold, "medium_risk")
      BY MetWord
    <3> QED
      BY <2>1, <2>2, <3>1, CheckIs
  <2>6. Goal[3].check = "call_count" /\ (Met(calls, Goal[3]) <=> Checks[3])
    BY <2>1, <2>2, CheckIs, MetTool
  <2> QED
    BY <2>3, <2>4, <2>5, <2>6 DEF Goal, Checks
<1>5. CASE gold.template = "meeting_scheduler"
  <2> DEFINE met == Flag(gold, "scheduled")
             action == IF met = 1 THEN "meeting_scheduled" ELSE "meeting_blocked"
  <2>1. Goal = <<CountIs(met, "email_send", Word(<<Plain("meeting_invite")>>, "template")),
                 CountIs(1 - met, "notification_send", <<>>),
                 CountFrom(1, "audit_log", Word(<<Plain(action)>>, "action"))>>
    BY <1>5 DEF GoalAssertions
  <2>2. Checks = <<Sent(calls, "email_send", "template", "meeting_invite") = met,
                   Number(calls, "notification_send") = 1 - met, Logged(calls, action)>>
    BY <1>5 DEF template_goal
  <2> HIDE DEF Goal, Checks, met, action
  <2>3. DOMAIN Goal = 1..3 /\ DOMAIN Checks = 1..3
    BY <2>1, <2>2
  <2>4. Goal[1].check = "call_count" /\ (Met(calls, Goal[1]) <=> Checks[1])
    <3>1. Met(calls, CountIs(met, "email_send", Word(<<Plain("meeting_invite")>>, "template")))
            <=> Sent(calls, "email_send", "template", "meeting_invite") = met
      BY MetWord
    <3> QED
      BY <2>1, <2>2, <3>1, CheckIs
  <2>5. Goal[2].check = "call_count" /\ (Met(calls, Goal[2]) <=> Checks[2])
    BY <2>1, <2>2, CheckIs, MetTool
  <2>6. Goal[3].check = "call_count" /\ (Met(calls, Goal[3]) <=> Checks[3])
    BY <2>1, <2>2, CheckIs, MetLog
  <2> QED
    BY <2>3, <2>4, <2>5, <2>6 DEF Goal, Checks
<1>6. CASE gold.template = "incident_response"
  <2>1. Goal = <<CountFrom(Amount(gold, "warehouses_affected"), "inventory_query", <<>>),
                 CountIs(1, "notification_send", Word(<<Plain("oncall_engineer")>>, "user_id")),
                 CountIs(Flag(gold, "escalated"), "notification_send", Word(<<Plain("engineering_manager")>>, "user_id")),
                 CountFrom(1, "audit_log", Word(<<Plain("incident_response")>>, "action"))>>
    BY <1>6 DEF GoalAssertions
  <2>2. Checks = <<Number(calls, "inventory_query") >= Amount(gold, "warehouses_affected"),
                   Sent(calls, "notification_send", "user_id", "oncall_engineer") = 1,
                   Sent(calls, "notification_send", "user_id", "engineering_manager") = Flag(gold, "escalated"),
                   Logged(calls, "incident_response")>>
    BY <1>6 DEF template_goal
  <2> HIDE DEF Goal, Checks
  <2>3. DOMAIN Goal = 1..4 /\ DOMAIN Checks = 1..4
    BY <2>1, <2>2
  <2>4. Goal[1].check = "call_count" /\ (Met(calls, Goal[1]) <=> Checks[1])
    BY <2>1, <2>2, CheckIs, MetTool
  <2>5. Goal[2].check = "call_count" /\ (Met(calls, Goal[2]) <=> Checks[2])
    <3>1. Met(calls, CountIs(1, "notification_send", Word(<<Plain("oncall_engineer")>>, "user_id")))
            <=> Sent(calls, "notification_send", "user_id", "oncall_engineer") = 1
      BY MetWord
    <3> QED
      BY <2>1, <2>2, <3>1, CheckIs
  <2>6. Goal[3].check = "call_count" /\ (Met(calls, Goal[3]) <=> Checks[3])
    <3>1. Met(calls, CountIs(Flag(gold, "escalated"), "notification_send", Word(<<Plain("engineering_manager")>>, "user_id")))
            <=> Sent(calls, "notification_send", "user_id", "engineering_manager") = Flag(gold, "escalated")
      BY MetWord
    <3> QED
      BY <2>1, <2>2, <3>1, CheckIs
  <2>7. Goal[4].check = "call_count" /\ (Met(calls, Goal[4]) <=> Checks[4])
    BY <2>1, <2>2, CheckIs, MetLog
  <2>8. \A i \in DOMAIN Goal : /\ Goal[i].check = "call_count"
                               /\ Met(calls, Goal[i]) <=> Checks[i]
    BY <2>3, <2>4, <2>5, <2>6, <2>7
  <2> QED
    BY <2>3, <2>8 DEF Goal, Checks
<1>7. CASE gold.template = "contract_renewal"
  <2>1. Goal = <<CountIs(1, "email_send", [template |-> Str(<<Plain("renewal_quote")>>),
                                                   variables |-> Dict(Word(gold.outcome["plan"], "plan"))]),
                 CountIs(Flag(gold, "needs_approval"), "notification_send", Word(<<Plain("finance_approver")>>, "user_id")),
                 CountFrom(1, "audit_log", Word(<<Plain("renewal_initiated")>>, "action"))>>
    BY <1>7 DEF GoalAssertions
  <2>2. Checks = <<Quoted(calls, gold.outcome["plan"]) = 1,
                   Sent(calls, "notification_send", "user_id", "finance_approver") = Flag(gold, "needs_approval"),
                   Logged(calls, "renewal_initiated")>>
    BY <1>7 DEF template_goal
  <2> HIDE DEF Goal, Checks
  <2>3. DOMAIN Goal = 1..3 /\ DOMAIN Checks = 1..3
    BY <2>1, <2>2
  <2>4. Goal[1].check = "call_count" /\ (Met(calls, Goal[1]) <=> Checks[1])
    BY <1>7, <2>1, <2>2, CheckIs, MetQuote
  <2>5. Goal[2].check = "call_count" /\ (Met(calls, Goal[2]) <=> Checks[2])
    <3>1. Met(calls, CountIs(Flag(gold, "needs_approval"), "notification_send", Word(<<Plain("finance_approver")>>, "user_id")))
            <=> Sent(calls, "notification_send", "user_id", "finance_approver") = Flag(gold, "needs_approval")
      BY MetWord
    <3> QED
      BY <2>1, <2>2, <3>1, CheckIs
  <2>6. Goal[3].check = "call_count" /\ (Met(calls, Goal[3]) <=> Checks[3])
    BY <2>1, <2>2, CheckIs, MetLog
  <2> QED
    BY <2>3, <2>4, <2>5, <2>6 DEF Goal, Checks
<1> QED
  BY <1>1, <1>2, <1>3, <1>4, <1>5, <1>6, <1>7 DEF Templates

\* Without its assertions a gold scores the goal by its template.
LEMMA GoalsAgree ==
  ASSUME NEW gold \in TemplateGolds, NEW calls \in TracesFor(gold), NEW completed
  PROVE  score_goal_completion(calls, gold, completed)
           = score_goal_completion(calls, [gold EXCEPT !.assertions = <<>>], completed)
<1> DEFINE bare == [gold EXCEPT !.assertions = <<>>]
           Goal == GoalAssertions(gold)
           Checks == template_goal(calls, gold)
<1>1. /\ gold.template \in Templates /\ About(gold, "goal_completion") = Goal
      /\ gold.template = "contract_renewal" =>
           /\ normalize_text(gold.outcome["plan"]) \notin {<<>>, <<Plain("none")>>}
           /\ Dict([plan |-> Str(gold.outcome["plan"])]) \in Values
      /\ \A i \in DOMAIN calls : \A k \in DOMAIN calls[i].params : calls[i].params[k] \in Values
      /\ calls \in Seq(ToSet(calls))
  BY TemplatesAssumption
<1>2. /\ bare.template = gold.template /\ bare.outcome = gold.outcome
      /\ bare.steps = gold.steps /\ bare.assertions = <<>>
  BY TemplatesAssumption
<1> HIDE DEF bare
<1>3. template_goal(calls, bare) = Checks
  BY <1>2 DEF template_goal, Planned, Amount, Flag
<1>4. DOMAIN About(bare, "goal_completion") = {}
  BY <1>2 DEF About
<1>5. IsFiniteSet(DOMAIN calls)
  BY <1>1, LenProperties, FS_Interval
<1>6. /\ Checks # <<>> /\ DOMAIN Goal # {} /\ DOMAIN Goal = DOMAIN Checks
      /\ \A i \in DOMAIN Goal : Goal[i].check = "call_count"
      /\ \A i \in DOMAIN Goal : Met(calls, Goal[i]) <=> Checks[i]
  BY <1>1, <1>5, TemplateAsAssertions
<1> HIDE DEF Goal, Checks
<1>7. ASSUME calls # <<>> PROVE evaluate_outcome_assertions(calls, Goal) = Passing(Checks)
  BY <1>6, <1>7, AssertionsAsChecks
<1>8. score_goal_completion(calls, gold, completed)
        = IF calls = <<>> \/ ~completed \/ gold.steps = <<>> THEN 0
          ELSE evaluate_outcome_assertions(calls, Goal)
  BY <1>1, <1>6 DEF score_goal_completion
<1>9. score_goal_completion(calls, bare, completed)
        = IF calls = <<>> \/ ~completed \/ gold.steps = <<>> THEN 0 ELSE Passing(Checks)
  BY <1>2, <1>3, <1>4, <1>6 DEF score_goal_completion
<1> QED
  BY <1>7, <1>8, <1>9 DEF bare

\* Its checks raise at a quote that cannot be read,
LEMMA BareRaises ==
  ASSUME NEW gold \in TemplateGolds, NEW calls \in TracesFor(gold), NEW completed, completed
  PROVE  goal_raises(calls, [gold EXCEPT !.assertions = <<>>], completed) <=>
           gold.template = "contract_renewal" /\ \E i \in DOMAIN calls : Unreadable(calls[i])
<1> DEFINE bare == [gold EXCEPT !.assertions = <<>>]
<1>1. bare.template = gold.template /\ bare.steps = gold.steps /\ bare.assertions = <<>>
  BY TemplatesAssumption
<1>2. gold.steps # <<>>
  BY TemplatesAssumption
<1> HIDE DEF bare
<1>3. DOMAIN About(bare, "goal_completion") = {}
  BY <1>1 DEF About
<1>4. goal_raises(calls, bare, completed) <=>
        gold.template = "contract_renewal" /\ \E i \in DOMAIN calls : Unreadable(calls[i])
  BY <1>1, <1>2, <1>3 DEF goal_raises
<1> QED
  BY <1>4 DEF bare

\* which the assertions are not asked about.
LEMMA AssertedNeverRaises ==
  ASSUME NEW gold \in TemplateGolds, NEW calls \in TracesFor(gold), NEW completed
  PROVE  ~goal_raises(calls, gold, completed)
<1>1. /\ gold.template \in Templates /\ About(gold, "goal_completion") = GoalAssertions(gold)
      /\ gold.template = "contract_renewal" =>
           /\ normalize_text(gold.outcome["plan"]) \notin {<<>>, <<Plain("none")>>}
           /\ Dict([plan |-> Str(gold.outcome["plan"])]) \in Values
      /\ \A i \in DOMAIN calls : \A k \in DOMAIN calls[i].params : calls[i].params[k] \in Values
      /\ calls \in Seq(ToSet(calls))
  BY TemplatesAssumption
<1>2. IsFiniteSet(DOMAIN calls)
  BY <1>1, LenProperties, FS_Interval
<1>3. DOMAIN GoalAssertions(gold) # {}
  BY <1>1, <1>2, TemplateAsAssertions
<1> QED
  BY <1>1, <1>3 DEF goal_raises

LEMMA StrongInduction ==
  ASSUME NEW T, T \subseteq Nat, \A n \in Nat : (\A k \in Nat : k < n => k \in T) => n \in T
  PROVE  T = Nat
<1> DEFINE S == {n \in Nat : \A k \in Nat : k < n => k \in T}
<1>1. 0 \in S
  OBVIOUS
<1>2. ASSUME NEW n \in S PROVE n + 1 \in S
  <2>1. n \in T /\ n + 1 \in Nat
    OBVIOUS
  <2>2. \A k \in Nat : k < n + 1 => k < n \/ k = n
    OBVIOUS
  <2> QED
    BY <2>1, <2>2
<1>3. S \subseteq Nat
  OBVIOUS
<1> HIDE DEF S
<1>4. S = Nat
  BY <1>1, <1>2, <1>3, NaturalInduction
<1> QED
  BY <1>4 DEF S

----------------------------------------------------------------------------
(* Taking turns.                                                           *)

\* What the n-th takes after the others.
Turn(worth, n, before) ==
  Best([i \in DOMAIN worth[n] \ ToSet(before) |-> worth[n][i]])

IsTurns(worth, n, h) ==
  h = [k \in 0..n |-> IF k = 0 THEN <<>> ELSE Append(h[k - 1], Turn(worth, k, h[k - 1]))]

LEMMA TurnsExist == ASSUME NEW worth, NEW m \in Nat PROVE \E h : IsTurns(worth, m, h)
<1> DEFINE T == {n \in Nat : \E h : IsTurns(worth, n, h)}
<1>1. 0 \in T
  <2> DEFINE h == [k \in 0..0 |-> <<>>]
  <2>1. h = [k \in 0..0 |-> IF k = 0 THEN <<>> ELSE Append(h[k - 1], Turn(worth, k, h[k - 1]))]
    OBVIOUS
  <2> QED
    BY <2>1, Zenon DEF IsTurns
<1>2. ASSUME NEW n \in T PROVE n + 1 \in T
  <2>1. PICK h : IsTurns(worth, n, h)
    OBVIOUS
  <2> DEFINE next == Append(h[n], Turn(worth, n + 1, h[n]))
             g == [k \in 0..(n + 1) |-> IF k = n + 1 THEN next ELSE h[k]]
             G(f, k) == IF k = 0 THEN <<>> ELSE Append(f[k - 1], Turn(worth, k, f[k - 1]))
  <2>2. ASSUME NEW k \in 0..(n + 1) PROVE g[k] = G(g, k)
    <3>1. CASE k = n + 1
      <4>1. k - 1 = n /\ n \in 0..(n + 1) /\ n # n + 1 /\ k # 0
        BY <3>1
      <4> QED
        BY <3>1, <4>1
    <3>2. CASE k # n + 1
      <4>1. k \in 0..n /\ (k # 0 => k - 1 \in 0..(n + 1) /\ k - 1 # n + 1)
        BY <3>2
      <4>2. h[k] = G(h, k)
        BY <2>1, <4>1 DEF IsTurns
      <4>3. g[k] = h[k] /\ (k # 0 => g[k - 1] = h[k - 1])
        BY <3>2, <4>1
      <4> HIDE DEF g
      <4> QED
        BY <4>2, <4>3
    <3> QED
      BY <3>1, <3>2
  <2>3. g = [k \in 0..(n + 1) |-> g[k]]
    OBVIOUS
  <2> HIDE DEF g
  <2>4. g = [k \in 0..(n + 1) |-> G(g, k)]
    BY <2>2, <2>3
  <2>5. IsTurns(worth, n + 1, g)
    BY <2>4 DEF IsTurns
  <2>6. n + 1 \in Nat
    OBVIOUS
  <2> QED
    BY <2>5, <2>6
<1>3. T \subseteq Nat
  OBVIOUS
<1> HIDE DEF T
<1>4. T = Nat
  BY <1>1, <1>2, <1>3, NaturalInduction
<1> QED
  BY <1>4 DEF T

LEMMA AppendNext ==
  ASSUME NEW n \in Nat, NEW f
  PROVE  Append([k \in 1..n |-> f[k]], f[n + 1]) = [k \in 1..(n + 1) |-> f[k]]
<1> DEFINE s == [k \in 1..n |-> f[k]]
           U == {f[k] : k \in 1..(n + 1)}
           r == Append(s, f[n + 1])
<1>1. 1..n \subseteq 1..(n + 1) /\ n + 1 \in 1..(n + 1) /\ 1..(n + 1) = 1..n \cup {n + 1}
  OBVIOUS
<1>2. s \in Seq(U) /\ Len(s) = n /\ f[n + 1] \in U
  BY <1>1
<1>3. \A k \in 1..n : s[k] = f[k]
  OBVIOUS
<1> HIDE DEF s, U
<1>4. /\ r \in Seq(U) /\ Len(r) = n + 1
      /\ \A k \in 1..n : r[k] = f[k]
      /\ r[n + 1] = f[n + 1]
  BY <1>2, <1>3, AppendProperties
<1> HIDE DEF r
<1>5. DOMAIN r = 1..(n + 1) /\ r = [k \in 1..(n + 1) |-> r[k]]
  BY <1>4
<1> QED
  BY <1>1, <1>4, <1>5 DEF r, s

LEMMA InTurnIs ==
  ASSUME NEW worth
  PROVE  InTurn(worth) = (CHOOSE h : IsTurns(worth, Len(worth), h))[Len(worth)]
  BY DEF InTurn, IsTurns, Turn

\* Each takes the best of what those before it have left.
LEMMA TurnsTaken ==
  ASSUME NEW m \in Nat, NEW worth, Len(worth) = m
  PROVE  LET place == InTurn(worth)
         IN  /\ DOMAIN place = 1..m /\ place = [n \in 1..m |-> place[n]]
             /\ \A n \in 1..m :
                  place[n] = Best([i \in DOMAIN worth[n] \ {place[k] : k \in 1..(n - 1)} |-> worth[n][i]])
<1> DEFINE h == CHOOSE h : IsTurns(worth, m, h)
           place == InTurn(worth)
<1>1. IsTurns(worth, m, h)
  BY TurnsExist
<1>2. place = h[m]
  BY InTurnIs
<1> HIDE DEF h, place
<1> DEFINE f == [n \in 1..m |-> Turn(worth, n, h[n - 1])]
           T == {n \in Nat : n <= m => h[n] = [k \in 1..n |-> f[k]]}
<1>3. ASSUME NEW n \in 0..m
      PROVE  h[n] = IF n = 0 THEN <<>> ELSE Append(h[n - 1], Turn(worth, n, h[n - 1]))
  BY <1>1 DEF IsTurns
<1>4. 0 \in T
  <2>1. h[0] = <<>> /\ <<>> = [k \in 1..0 |-> f[k]]
    BY <1>3
  <2> QED
    BY <2>1
<1>5. ASSUME NEW n \in T PROVE n + 1 \in T
  <2>1. SUFFICES ASSUME n + 1 <= m PROVE h[n + 1] = [k \in 1..(n + 1) |-> f[k]]
    OBVIOUS
  <2>2. n \in Nat /\ n + 1 \in 1..m /\ n + 1 \in 0..m /\ n + 1 # 0 /\ (n + 1) - 1 = n /\ n <= m
    BY <2>1
  <2>3. h[n + 1] = Append(h[n], Turn(worth, n + 1, h[n])) /\ f[n + 1] = Turn(worth, n + 1, h[n])
    BY <1>3, <2>2
  <2>4. h[n] = [k \in 1..n |-> f[k]]
    BY <2>2
  <2> HIDE DEF f
  <2> QED
    BY <2>2, <2>3, <2>4, AppendNext
<1>6. T = Nat
  <2> HIDE DEF T
  <2>1. T \subseteq Nat
    BY DEF T
  <2> QED
    BY <1>4, <1>5, <2>1, NaturalInduction
<1>7. ASSUME NEW n \in 0..m PROVE h[n] = [k \in 1..n |-> f[k]]
  <2>1. n \in Nat /\ n <= m
    OBVIOUS
  <2>2. n \in T
    BY <1>6, <2>1
  <2> HIDE DEF f
  <2> QED
    BY <2>1, <2>2
<1>8. place = [k \in 1..m |-> f[k]]
  BY <1>2, <1>7
<1>9. ASSUME NEW n \in 1..m
      PROVE  place[n] = Best([i \in DOMAIN worth[n] \ {place[k] : k \in 1..(n - 1)} |-> worth[n][i]])
  <2>1. place[n] = Turn(worth, n, h[n - 1]) /\ n - 1 \in 0..m /\ 1..(n - 1) \subseteq 1..m
    BY <1>8
  <2>2. h[n - 1] = [k \in 1..(n - 1) |-> f[k]]
    BY <1>7, <2>1
  <2>3. \A k \in 1..(n - 1) : place[k] = f[k]
    BY <1>8, <2>1
  <2> HIDE DEF f
  <2>4. ToSet(h[n - 1]) = {place[k] : k \in 1..(n - 1)}
    BY <2>2, <2>3 DEF ToSet
  <2> QED
    BY <2>1, <2>4 DEF Turn
<1>10. DOMAIN place = 1..m /\ place = [n \in 1..m |-> place[n]]
  BY <1>8
<1> QED
  BY <1>9, <1>10 DEF place

\* The best place is one of them, as good as any.
LEMMA BestOf ==
  ASSUME NEW D, D \subseteq Nat \ {0}, IsFiniteSet(D), NEW w, \A i \in D : w[i] \in Int
  PROVE  LET b == Best([i \in D |-> w[i]])
         IN  /\ b \in D \cup {0}
             /\ D # {} => b \in D /\ \A j \in D : w[j] <= w[b] /\ (w[j] = w[b] => b <= j)
<1> DEFINE score == [i \in D |-> w[i]]
           best == {i \in D : \A j \in D : w[i] >= w[j]}
           values == {w[i] : i \in D}
<1>1. {i \in DOMAIN score : \A j \in DOMAIN score : score[i] >= score[j]} = best
  OBVIOUS
<1>2. Best(score) = IF best = {} THEN 0 ELSE Min(best)
  BY <1>1 DEF Best
<1>3. D # {} => best # {}
  <2>1. SUFFICES ASSUME D # {} PROVE best # {}
    OBVIOUS
  <2>2. values \in SUBSET Int /\ IsFiniteSet(values) /\ values # {}
    BY <2>1, ImageFinite
  <2>3. Max(values) \in values /\ \A y \in values : y <= Max(values)
    BY <2>2, MaxMin
  <2>4. PICK i \in D : w[i] = Max(values)
    BY <2>3
  <2>5. \A j \in D : w[i] >= w[j]
    BY <2>3, <2>4
  <2> QED
    BY <2>5
<1>4. \A j \in D, i \in best : w[j] <= w[i] /\ (w[j] = w[i] => j \in best)
  OBVIOUS
<1>5. best \in SUBSET D
  OBVIOUS
<1> HIDE DEF best
<1>6. best # {} => Min(best) \in best /\ \A y \in best : Min(best) <= y
  <2>1. IsFiniteSet(best)
    BY <1>5, FS_Subset
  <2>2. best \in SUBSET Int
    BY <1>5
  <2> QED
    BY <2>1, <2>2, MaxMin
<1> QED
  BY <1>2, <1>3, <1>4, <1>5, <1>6

\* What m items make of the places.
Worths(worth, m) ==
  /\ Len(worth) = m
  /\ \A n \in 1..m : /\ DOMAIN worth[n] \subseteq Nat \ {0} /\ IsFiniteSet(DOMAIN worth[n])
                     /\ \A i \in DOMAIN worth[n] : worth[n][i] \in Int

\* Each has a place of its own; all it may find left are worth less, or as much but later.
Favourites(worth, m, at) ==
  /\ \A n \in 1..m : at[n] \in DOMAIN worth[n]
  /\ \A k, n \in 1..m : at[k] = at[n] => k = n
  /\ \A n \in 1..m : \A i \in DOMAIN worth[n] \ {at[k] : k \in 1..n} :
       \/ worth[n][i] < worth[n][at[n]]
       \/ worth[n][i] = worth[n][at[n]] /\ at[n] < i

(* Each turn takes a place of its own, and where every one has a place     *)
(* that is worth more to it than all it may find left, it takes that one.  *)
LEMMA TurnsApart ==
  ASSUME NEW m \in Nat, NEW worth, Worths(worth, m)
  PROVE  LET place == InTurn(worth)
         IN  /\ DOMAIN place = 1..m
             /\ \A n \in 1..m : place[n] \in DOMAIN worth[n] \cup {0}
             /\ \A k, n \in 1..m : place[k] = place[n] /\ k # n => place[n] = 0
<1> DEFINE place == InTurn(worth)
           Left(n) == DOMAIN worth[n] \ {place[k] : k \in 1..(n - 1)}
<1>1. /\ DOMAIN place = 1..m
      /\ \A n \in 1..m : place[n] = Best([i \in Left(n) |-> worth[n][i]])
  BY TurnsTaken DEF Worths
<1> HIDE DEF place
<1>2. ASSUME NEW n \in 1..m PROVE place[n] \in Left(n) \cup {0}
  <2> DEFINE D == Left(n)
             w == worth[n]
  <2>1. D \subseteq Nat \ {0} /\ IsFiniteSet(D) /\ \A i \in D : w[i] \in Int
    <3>1. D \in SUBSET DOMAIN w
      OBVIOUS
    <3> QED
      BY <3>1, FS_Subset DEF Worths
  <2>2. place[n] = Best([i \in D |-> w[i]])
    BY <1>1
  <2> HIDE DEF D, w
  <2>3. place[n] \in D \cup {0}
    BY <2>1, <2>2, BestOf
  <2> QED
    BY <2>3 DEF D
<1>3. \A k, n \in 1..m : k < n => k \in 1..(n - 1)
  OBVIOUS
<1>4. \A k, n \in 1..m : k < n /\ place[k] = place[n] => place[n] = 0
  BY <1>2, <1>3
<1>5. \A k, n \in 1..m : k # n => k < n \/ n < k
  OBVIOUS
<1> QED
  BY <1>1, <1>2, <1>4, <1>5 DEF place

LEMMA TurnsAt ==
  ASSUME NEW m \in Nat, NEW worth, Worths(worth, m), NEW at, Favourites(worth, m, at)
  PROVE  InTurn(worth) = [n \in 1..m |-> at[n]]
<1> DEFINE place == InTurn(worth)
           Left(n) == DOMAIN worth[n] \ {place[k] : k \in 1..(n - 1)}
           T == {n \in Nat : n \in 1..m => place[n] = at[n]}
<1>1. /\ place = [n \in 1..m |-> place[n]]
      /\ \A n \in 1..m : place[n] = Best([i \in Left(n) |-> worth[n][i]])
  BY TurnsTaken DEF Worths
<1>2. ASSUME NEW n \in Nat, \A k \in Nat : k < n => k \in T PROVE n \in T
  <2> SUFFICES ASSUME n \in 1..m PROVE place[n] = at[n]
    OBVIOUS
  <2> DEFINE D == Left(n)
             w == worth[n]
  <2>1. \A k \in 1..(n - 1) : k \in 1..m /\ k # n /\ place[k] = at[k]
    <3> SUFFICES ASSUME NEW k \in 1..(n - 1) PROVE k \in 1..m /\ k # n /\ place[k] = at[k]
      OBVIOUS
    <3>1. k \in Nat /\ k < n /\ k \in 1..m
      OBVIOUS
    <3>2. k \in T
      BY <1>2, <3>1
    <3> QED
      BY <3>1, <3>2
  <2>2. {place[k] : k \in 1..(n - 1)} = {at[k] : k \in 1..(n - 1)}
    BY <2>1
  <2>3. D = DOMAIN w \ {at[k] : k \in 1..(n - 1)}
    BY <2>2
  <2>4. place[n] = Best([i \in D |-> w[i]])
    BY <1>1
  <2>5. DOMAIN w \subseteq Nat \ {0} /\ IsFiniteSet(DOMAIN w) /\ \A i \in DOMAIN w : w[i] \in Int
    BY DEF Worths
  <2>6. at[n] \in DOMAIN w /\ \A k \in 1..(n - 1) : at[k] # at[n]
    BY <2>1 DEF Favourites
  <2>7. 1..n = 1..(n - 1) \cup {n}
    OBVIOUS
  <2>8. \A i \in DOMAIN w \ {at[k] : k \in 1..n} : w[i] < w[at[n]] \/ (w[i] = w[at[n]] /\ at[n] < i)
    BY DEF Favourites
  <2> HIDE DEF D, w, place, T
  <2>9. D \subseteq Nat \ {0} /\ IsFiniteSet(D) /\ \A i \in D : w[i] \in Int
    <3>1. D \in SUBSET DOMAIN w
      BY <2>3
    <3> QED
      BY <2>5, <3>1, FS_Subset
  <2>10. at[n] \in D
    BY <2>3, <2>6
  <2>11. \A i \in D : i = at[n] \/ w[i] < w[at[n]] \/ (w[i] = w[at[n]] /\ at[n] < i)
    BY <2>3, <2>7, <2>8
  <2>12. /\ place[n] \in D
         /\ \A j \in D : w[j] <= w[place[n]] /\ (w[j] = w[place[n]] => place[n] <= j)
    <3> DEFINE b == Best([i \in D |-> w[i]])
    <3>1. b \in D /\ \A j \in D : w[j] <= w[b] /\ (w[j] = w[b] => b <= j)
      BY <2>9, <2>10, BestOf
    <3> HIDE DEF b
    <3> QED
      BY <2>4, <3>1 DEF b
  <2>13. /\ place[n] \in Nat /\ at[n] \in Nat
         /\ w[place[n]] \in Int /\ w[at[n]] \in Int
         /\ w[at[n]] <= w[place[n]] /\ (w[at[n]] = w[place[n]] => place[n] <= at[n])
         /\ \/ place[n] = at[n]
            \/ w[place[n]] < w[at[n]]
            \/ w[place[n]] = w[at[n]] /\ at[n] < place[n]
    BY <2>9, <2>10, <2>11, <2>12
  <2> QED
    BY <2>13
<1>3. T = Nat
  <2> HIDE DEF T
  <2>1. T \subseteq Nat
    BY DEF T
  <2> QED
    BY <1>2, <2>1, StrongInduction
<1>4. ASSUME NEW n \in 1..m PROVE place[n] = at[n]
  <2>1. n \in Nat
    OBVIOUS
  <2>2. n \in T
    BY <1>3, <2>1
  <2> HIDE DEF place
  <2> QED
    BY <2>2
<1> HIDE DEF place
<1> QED
  BY <1>1, <1>4 DEF place

LEMMA UpToSize ==
  ASSUME NEW n \in Nat PROVE IsFiniteSet(1..n) /\ Cardinality(1..n) = n
<1>1. IsFiniteSet(1..n) /\ Cardinality(1..n) = IF 1 > n THEN 0 ELSE n - 1 + 1
  BY FS_Interval
<1> QED
  BY <1>1

Fitting(candidate, gold, g) ==
  {i \in DOMAIN candidate : 10 * ParamMatch(candidate[i], gold[g]) >= 9 * One}

Wanted(candidate, gold) == [g \in DOMAIN gold |-> [i \in Fitting(candidate, gold, g) |-> One]]

LEMMA ItemsMetIs ==
  ASSUME NEW candidate, NEW gold
  PROVE  ItemsMet(candidate, gold)
           = Cardinality({g \in DOMAIN gold : InTurn(Wanted(candidate, gold))[g] # 0})
  BY DEF ItemsMet, Wanted, Fitting

LEMMA WantedWorths ==
  ASSUME NEW candidate, candidate \in Seq(ToSet(candidate)), NEW gold, gold \in Seq(ToSet(gold))
  PROVE  /\ Len(gold) \in Nat /\ DOMAIN gold = 1..Len(gold)
         /\ Len(candidate) \in Nat /\ DOMAIN candidate = 1..Len(candidate)
         /\ Worths(Wanted(candidate, gold), Len(gold))
<1>1. /\ Len(gold) \in Nat /\ DOMAIN gold = 1..Len(gold)
      /\ Len(candidate) \in Nat /\ DOMAIN candidate = 1..Len(candidate)
  BY LenProperties
<1>2. ASSUME NEW n \in 1..Len(gold)
      PROVE  /\ DOMAIN Wanted(candidate, gold)[n] = Fitting(candidate, gold, n)
             /\ \A i \in Fitting(candidate, gold, n) : Wanted(candidate, gold)[n][i] = One
  BY <1>1 DEF Wanted
<1>3. ASSUME NEW n \in 1..Len(gold)
      PROVE  Fitting(candidate, gold, n) \subseteq Nat \ {0} /\ IsFiniteSet(Fitting(candidate, gold, n))
  <2>1. Fitting(candidate, gold, n) \in SUBSET (1..Len(candidate)) /\ IsFiniteSet(1..Len(candidate))
    BY <1>1, FS_Interval DEF Fitting
  <2> QED
    BY <1>1, <2>1, FS_Subset
<1>4. Len(Wanted(candidate, gold)) = Len(gold)
  BY <1>1 DEF Wanted
<1> QED
  BY <1>1, <1>2, <1>3, <1>4, ScoreAssumption DEF Worths

\* No more items are met than there are on either side,
LEMMA ItemsMetAtMost ==
  ASSUME NEW candidate, candidate \in Seq(ToSet(candidate)), NEW gold, gold \in Seq(ToSet(gold))
  PROVE  /\ ItemsMet(candidate, gold) \in Nat
         /\ ItemsMet(candidate, gold) <= Len(candidate) /\ ItemsMet(candidate, gold) <= Len(gold)
<1> DEFINE met == InTurn(Wanted(candidate, gold))
           M == {g \in DOMAIN gold : met[g] # 0}
           f == [g \in M |-> met[g]]
<1>1. /\ Len(gold) \in Nat /\ DOMAIN gold = 1..Len(gold)
      /\ Len(candidate) \in Nat /\ DOMAIN candidate = 1..Len(candidate)
      /\ Worths(Wanted(candidate, gold), Len(gold))
  BY WantedWorths
<1>2. /\ \A n \in 1..Len(gold) : met[n] \in DOMAIN Wanted(candidate, gold)[n] \cup {0}
      /\ \A k, n \in 1..Len(gold) : met[k] = met[n] /\ k # n => met[n] = 0
  BY <1>1, TurnsApart
<1>3. \A n \in DOMAIN gold : DOMAIN Wanted(candidate, gold)[n] \subseteq DOMAIN candidate
  BY DEF Wanted, Fitting
<1>4. ItemsMet(candidate, gold) = Cardinality(M)
  BY ItemsMetIs
<1> HIDE DEF met
<1>5. \A g \in M : met[g] \in 1..Len(candidate)
  BY <1>1, <1>2, <1>3
<1>6. \A j, k \in M : met[j] = met[k] => j = k
  BY <1>1, <1>2
<1>7. M \in SUBSET (1..Len(gold))
  BY <1>1
<1> HIDE DEF M
<1>8. f \in Injection(M, 1..Len(candidate))
  <2>1. f \in [M -> 1..Len(candidate)]
    BY <1>5
  <2>2. \A j, k \in M : f[j] = f[k] => j = k
    BY <1>6
  <2> HIDE DEF f
  <2> QED
    BY <2>1, <2>2 DEF Injection, IsInjective
<1>9. /\ IsFiniteSet(1..Len(gold)) /\ Cardinality(1..Len(gold)) = Len(gold)
      /\ IsFiniteSet(1..Len(candidate)) /\ Cardinality(1..Len(candidate)) = Len(candidate)
  BY <1>1, UpToSize
<1>10. IsFiniteSet(M) /\ Cardinality(M) \in Nat /\ Cardinality(M) <= Len(gold)
  BY <1>7, <1>9, FS_Subset, FS_CardinalityType
<1>11. Cardinality(M) <= Len(candidate)
  BY <1>8, <1>9, FS_Injection DEF ExistsInjection
<1> QED
  BY <1>4, <1>10, <1>11

\* and a list of items that match themselves is met by itself.
LEMMA ItemsMetSelf ==
  ASSUME NEW gold, gold \in Seq(ToSet(gold)), \A i \in DOMAIN gold : ParamMatch(gold[i], gold[i]) = One
  PROVE  ItemsMet(gold, gold) = Len(gold)
<1> DEFINE worth == Wanted(gold, gold)
           met == InTurn(worth)
           at == [n \in 1..Len(gold) |-> n]
<1>1. Len(gold) \in Nat /\ DOMAIN gold = 1..Len(gold) /\ Worths(worth, Len(gold))
  BY WantedWorths
<1>2. One \in Nat /\ 10 * One >= 9 * One
  BY ScoreAssumption
<1>3. ASSUME NEW n \in 1..Len(gold)
      PROVE  n \in DOMAIN worth[n] /\ \A i \in DOMAIN worth[n] : worth[n][i] = One /\ i \in 1..Len(gold)
  BY <1>1, <1>2 DEF Wanted, Fitting
<1> HIDE DEF worth
<1>4. Favourites(worth, Len(gold), at)
  <2>1. ASSUME NEW n \in 1..Len(gold), NEW i \in DOMAIN worth[n] \ {at[k] : k \in 1..n}
        PROVE  worth[n][i] = worth[n][at[n]] /\ at[n] < i
    <3>1. {at[k] : k \in 1..n} = 1..n
      BY <1>1
    <3> QED
      BY <1>1, <1>3, <3>1
  <2> QED
    BY <1>3, <2>1 DEF Favourites
<1>5. met = [n \in 1..Len(gold) |-> at[n]]
  BY <1>1, <1>4, TurnsAt
<1>6. {g \in DOMAIN gold : met[g] # 0} = 1..Len(gold)
  BY <1>1, <1>5
<1>7. ItemsMet(gold, gold) = Cardinality({g \in DOMAIN gold : met[g] # 0})
  BY ItemsMetIs DEF worth
<1> QED
  BY <1>1, <1>6, <1>7, UpToSize

----------------------------------------------------------------------------
(* Matches of parameters: a value matches itself, and no match is worth more *)
(* than One.  By induction over how deep the golden value is.              *)

LEMMA IsBetween == \A b : Is(b) \in 0..One
<1>1. One \in Nat /\ 0 \in 0..One /\ One \in 0..One
  BY ScoreAssumption
<1> QED
  BY <1>1 DEF Is

LEMMA MatchOfDicts ==
  ASSUME NEW c, NEW g, c.kind = "dict", g.kind = "dict"
  PROVE  param_value_match(c, g)
           = IF DOMAIN g.fields = {} THEN Is(DOMAIN c.fields = {})
             ELSE MeanOf([k \in DOMAIN g.fields |->
                            IF k \in DOMAIN c.fields THEN ParamMatch(c.fields[k], g.fields[k]) ELSE 0])
<1>1. {c.kind, g.kind} = {"dict"} /\ "null" \notin {c.kind, g.kind}
      /\ ~({c.kind, g.kind} \subseteq {"num", "bool"})
  OBVIOUS
<1> QED
  BY <1>1 DEF param_value_match

LEMMA MatchOfLists ==
  ASSUME NEW c, NEW g, c.kind = "list", g.kind = "list"
  PROVE  param_value_match(c, g)
           = IF g.items = <<>> THEN Is(c.items = <<>>)
             ELSE Frac(2 * ItemsMet(c.items, g.items), Len(c.items) + Len(g.items))
<1>1. {c.kind, g.kind} = {"list"} /\ "null" \notin {c.kind, g.kind} /\ {c.kind, g.kind} # {"dict"}
      /\ ~({c.kind, g.kind} \subseteq {"num", "bool"})
  OBVIOUS
<1> QED
  BY <1>1 DEF param_value_match

LEMMA MatchOfLeaves ==
  ASSUME NEW c, NEW g, ~(c.kind = "dict" /\ g.kind = "dict"), ~(c.kind = "list" /\ g.kind = "list")
  PROVE  param_value_match(c, g) \in 0..One /\ (c = g => param_value_match(c, g) = One)
<1> DEFINE kinds == {c.kind, g.kind}
<1>1. kinds # {"dict"} /\ kinds # {"list"} /\ (c = g => kinds = {g.kind})
  OBVIOUS
<1>2. Is(kinds = {"null"}) \in 0..One /\ Is(Float(c) = Float(g)) \in 0..One
      /\ Is(normalize_text(StrOf(c)) = normalize_text(StrOf(g))) \in 0..One
  BY IsBetween
<1> HIDE DEF kinds
<1>3. CASE "null" \in kinds
  <2>1. param_value_match(c, g) = Is(kinds = {"null"})
    BY <1>3 DEF param_value_match, kinds
  <2>2. c = g => kinds = {"null"}
    BY <1>1, <1>3
  <2> QED
    BY <1>2, <2>1, <2>2 DEF Is
<1>4. CASE "null" \notin kinds /\ kinds \subseteq {"num", "bool"}
  <2>1. param_value_match(c, g) = Is(Float(c) = Float(g))
    BY <1>4 DEF param_value_match, kinds
  <2> QED
    BY <1>2, <2>1 DEF Is
<1>5. CASE "null" \notin kinds /\ ~(kinds \subseteq {"num", "bool"})
  <2>1. param_value_match(c, g) = Is(normalize_text(StrOf(c)) = normalize_text(StrOf(g)))
    BY <1>1, <1>5 DEF param_value_match, kinds
  <2> QED
    BY <1>2, <2>1 DEF Is
<1> QED
  BY <1>3, <1>4, <1>5

\* A match of dicts whose parts match well or badly does so too.
LEMMA DictsBetween ==
  ASSUME NEW c, NEW g, c.kind = "dict", g.kind = "dict", IsFiniteSet(DOMAIN g.fields),
         \A k \in DOMAIN g.fields \cap DOMAIN c.fields :
           ParamMatch(c.fields[k], g.fields[k]) \in 0..One
  PROVE  param_value_match(c, g) \in 0..One
<1> DEFINE w == [k \in DOMAIN g.fields |->
                   IF k \in DOMAIN c.fields THEN ParamMatch(c.fields[k], g.fields[k]) ELSE 0]
<1>1. One \in Nat /\ One \in Int /\ 0 \in Int /\ 0..One \subseteq Int
  BY ScoreAssumption
<1>2. CASE DOMAIN g.fields = {}
  BY <1>2, MatchOfDicts, IsBetween
<1>3. CASE DOMAIN g.fields # {}
  <2>1. param_value_match(c, g) = MeanOf(w)
    BY <1>3, MatchOfDicts
  <2>2. \A k \in DOMAIN w : w[k] \in 0..One
    BY <1>1
  <2>3. DOMAIN w = DOMAIN g.fields
    OBVIOUS
  <2> HIDE DEF w
  <2>4. Summable(w, DOMAIN w)
    BY <1>1, <2>2, <2>3 DEF Summable
  <2>5. \A k \in DOMAIN w : 0 <= w[k] /\ w[k] <= One
    BY <1>1, <2>2
  <2>6. DOMAIN w # {}
    BY <1>3, <2>3
  <2>7. MeanOf(w) \in Int /\ 0 <= MeanOf(w) /\ MeanOf(w) <= One
    BY <1>1, <2>4, <2>5, <2>6, MeanBetween
  <2> QED
    BY <1>1, <2>1, <2>7
<1> QED
  BY <1>2, <1>3

LEMMA DictsSelf ==
  ASSUME NEW g, g.kind = "dict", IsFiniteSet(DOMAIN g.fields),
         \A k \in DOMAIN g.fields : ParamMatch(g.fields[k], g.fields[k]) = One
  PROVE  param_value_match(g, g) = One
<1> DEFINE w == [k \in DOMAIN g.fields |->
                   IF k \in DOMAIN g.fields THEN ParamMatch(g.fields[k], g.fields[k]) ELSE 0]
<1>1. One \in Int
  BY ScoreAssumption
<1>2. CASE DOMAIN g.fields = {}
  BY <1>2, MatchOfDicts DEF Is
<1>3. CASE DOMAIN g.fields # {}
  <2>1. param_value_match(g, g) = MeanOf(w)
    BY <1>3, MatchOfDicts
  <2>2. \A k \in DOMAIN w : w[k] = One
    OBVIOUS
  <2>3. DOMAIN w = DOMAIN g.fields
    OBVIOUS
  <2> HIDE DEF w
  <2>4. Summable(w, DOMAIN w)
    BY <1>1, <2>2, <2>3 DEF Summable
  <2>5. \A k \in DOMAIN w : One <= w[k] /\ w[k] <= One
    BY <1>1, <2>2
  <2>6. DOMAIN w # {}
    BY <1>3, <2>3
  <2>7. MeanOf(w) \in Int /\ One <= MeanOf(w) /\ MeanOf(w) <= One
    BY <1>1, <2>4, <2>5, <2>6, MeanBetween
  <2> QED
    BY <1>1, <2>1, <2>7
<1> QED
  BY <1>2, <1>3

LEMMA ListsBetween ==
  ASSUME NEW c, NEW g, c.kind = "list", g.kind = "list",
         c.items \in Seq(ToSet(c.items)), g.items \in Seq(ToSet(g.items))
  PROVE  param_value_match(c, g) \in 0..One
<1> DEFINE met == ItemsMet(c.items, g.items)
           a == Len(c.items)
           b == Len(g.items)
<1>1. CASE g.items = <<>>
  BY <1>1, MatchOfLists, IsBetween
<1>2. CASE g.items # <<>>
  <2>1. a \in Nat /\ b \in Nat /\ b # 0
    BY <1>2, LenProperties, EmptySeq
  <2>2. met \in Nat /\ met <= a /\ met <= b
    BY ItemsMetAtMost
  <2>3. param_value_match(c, g) = Frac(2 * met, a + b)
    BY <1>2, MatchOfLists
  <2> HIDE DEF met, a, b
  <2>4. 2 * met \in Nat /\ a + b \in Nat \ {0} /\ 2 * met <= a + b
    BY <2>1, <2>2
  <2> QED
    BY <2>3, <2>4, FracBetween
<1> QED
  BY <1>1, <1>2

LEMMA ListsSelf ==
  ASSUME NEW g, g.kind = "list", g.items \in Seq(ToSet(g.items)),
         \A i \in DOMAIN g.items : ParamMatch(g.items[i], g.items[i]) = One
  PROVE  param_value_match(g, g) = One
<1> DEFINE n == Len(g.items)
<1>1. CASE g.items = <<>>
  BY <1>1, MatchOfLists DEF Is
<1>2. CASE g.items # <<>>
  <2>1. n \in Nat /\ n # 0
    BY <1>2, LenProperties, EmptySeq
  <2>2. ItemsMet(g.items, g.items) = n
    BY ItemsMetSelf
  <2>3. param_value_match(g, g) = Frac(2 * n, n + n)
    BY <1>2, <2>2, MatchOfLists
  <2> HIDE DEF n
  <2>4. 2 * n \in Nat /\ n + n \in Nat \ {0} /\ 2 * n = n + n /\ 2 * n <= n + n
    BY <2>1
  <2> QED
    BY <2>3, <2>4, FracBetween
<1> QED
  BY <1>1, <1>2

(* Both by induction over how deep the gold value is.                      *)
LEMMA MatchBetween == ASSUME NEW c \in Values, NEW g \in Values PROVE param_value_match(c, g) \in 0..One
<1> DEFINE T == {n \in Nat : \A v \in Values : Depth(v) = n =>
                               \A u \in Values : param_value_match(u, v) \in 0..One}
<1>1. ASSUME NEW n \in Nat, \A k \in Nat : k < n => k \in T PROVE n \in T
  <2> SUFFICES ASSUME NEW v \in Values, Depth(v) = n, NEW u \in Values
               PROVE  param_value_match(u, v) \in 0..One
    OBVIOUS
  <2>1. ASSUME NEW w \in Values, Depth(w) < n, NEW x \in Values PROVE ParamMatch(x, w) \in 0..One
    <3>1. Depth(w) \in Nat
      BY ValuesAssumption
    <3>2. Depth(w) \in T
      BY <1>1, <2>1, <3>1
    <3>3. param_value_match(x, w) \in 0..One
      BY <3>2
    <3> QED
      BY <3>3, RecursionAssumption
  <2>2. CASE u.kind = "dict" /\ v.kind = "dict"
    <3>1. /\ IsFiniteSet(DOMAIN v.fields)
          /\ \A k \in DOMAIN v.fields : v.fields[k] \in Values /\ Depth(v.fields[k]) < n
          /\ \A k \in DOMAIN u.fields : u.fields[k] \in Values
      BY <2>2, ValuesAssumption
    <3>2. \A k \in DOMAIN v.fields \cap DOMAIN u.fields :
            ParamMatch(u.fields[k], v.fields[k]) \in 0..One
      BY <2>1, <3>1
    <3> QED
      BY <2>2, <3>1, <3>2, DictsBetween
  <2>3. CASE u.kind = "list" /\ v.kind = "list"
    <3>1. u.items \in Seq(ToSet(u.items)) /\ v.items \in Seq(ToSet(v.items))
      BY <2>3, ValuesAssumption
    <3> QED
      BY <2>3, <3>1, ListsBetween
  <2>4. CASE ~(u.kind = "dict" /\ v.kind = "dict") /\ ~(u.kind = "list" /\ v.kind = "list")
    BY <2>4, MatchOfLeaves
  <2> QED
    BY <2>2, <2>3, <2>4
<1>2. T = Nat
  <2> HIDE DEF T
  <2>1. T \subseteq Nat
    BY DEF T
  <2> QED
    BY <1>1, <2>1, StrongInduction
<1>3. Depth(g) \in Nat
  BY ValuesAssumption
<1>4. Depth(g) \in T
  BY <1>2, <1>3
<1> QED
  BY <1>4

LEMMA MatchSelf == ASSUME NEW g \in Values PROVE param_value_match(g, g) = One
<1> DEFINE T == {n \in Nat : \A v \in Values : Depth(v) = n => param_value_match(v, v) = One}
<1>1. ASSUME NEW n \in Nat, \A k \in Nat : k < n => k \in T PROVE n \in T
  <2> SUFFICES ASSUME NEW v \in Values, Depth(v) = n PROVE param_value_match(v, v) = One
    OBVIOUS
  <2>1. ASSUME NEW w \in Values, Depth(w) < n PROVE ParamMatch(w, w) = One
    <3>1. Depth(w) \in Nat
      BY ValuesAssumption
    <3>2. Depth(w) \in T
      BY <1>1, <2>1, <3>1
    <3>3. param_value_match(w, w) = One
      BY <3>2
    <3> QED
      BY <3>3, RecursionAssumption
  <2>2. CASE v.kind = "dict"
    <3>1. /\ IsFiniteSet(DOMAIN v.fields)
          /\ \A k \in DOMAIN v.fields : v.fields[k] \in Values /\ Depth(v.fields[k]) < n
      BY <2>2, ValuesAssumption
    <3>2. \A k \in DOMAIN v.fields : ParamMatch(v.fields[k], v.fields[k]) = One
      BY <2>1, <3>1
    <3> QED
      BY <2>2, <3>1, <3>2, DictsSelf
  <2>3. CASE v.kind = "list"
    <3>1. /\ v.items \in Seq(ToSet(v.items))
          /\ \A i \in DOMAIN v.items : v.items[i] \in Values /\ Depth(v.items[i]) < n
      BY <2>3, ValuesAssumption
    <3>2. \A i \in DOMAIN v.items : ParamMatch(v.items[i], v.items[i]) = One
      BY <2>1, <3>1
    <3> QED
      BY <2>3, <3>1, <3>2, ListsSelf
  <2>4. CASE v.kind \notin {"dict", "list"}
    BY <2>4, MatchOfLeaves
  <2> QED
    BY <2>2, <2>3, <2>4
<1>2. T = Nat
  <2> HIDE DEF T
  <2>1. T \subseteq Nat
    BY DEF T
  <2> QED
    BY <1>1, <2>1, StrongInduction
<1>3. Depth(g) \in Nat
  BY ValuesAssumption
<1>4. Depth(g) \in T
  BY <1>2, <1>3
<1> QED
  BY <1>4

----------------------------------------------------------------------------
(* The steps of a plan in another order: every count over the calls is that *)
(* over the steps.                                                         *)

\* The calls are the steps, in this order.
Moved(calls, steps, order) ==
  /\ steps \in Seq(ToSet(steps)) /\ steps # <<>>
  /\ order \in Bijection(DOMAIN steps, DOMAIN steps)
  /\ calls = [i \in DOMAIN steps |-> steps[order[i]]]

LEMMA MovedFacts ==
  ASSUME NEW calls, NEW steps, NEW order, Moved(calls, steps, order)
  PROVE  LET m == Len(steps)
         IN  /\ m \in Nat \ {0} /\ DOMAIN steps = 1..m /\ DOMAIN calls = 1..m /\ Len(calls) = m
             /\ calls # <<>>
             /\ \A i \in 1..m : order[i] \in 1..m /\ calls[i] = steps[order[i]]
             /\ \A i, j \in 1..m : order[i] = order[j] => i = j
             /\ \A s \in 1..m : \E i \in 1..m : order[i] = s
<1> DEFINE m == Len(steps)
<1>1. m \in Nat \ {0} /\ DOMAIN steps = 1..m
  BY LenProperties, EmptySeq DEF Moved
<1>2. calls = [i \in 1..m |-> steps[order[i]]] /\ order \in Bijection(1..m, 1..m)
  BY <1>1 DEF Moved
<1> HIDE DEF m
<1>3. DOMAIN calls = 1..m /\ Len(calls) = m /\ \A i \in 1..m : calls[i] = steps[order[i]]
  BY <1>1, <1>2
<1>4. 1 \in DOMAIN calls
  BY <1>1, <1>3
<1>5. calls # <<>>
  BY <1>4
<1>6. /\ order \in [1..m -> 1..m]
      /\ \A i, j \in 1..m : order[i] = order[j] => i = j
      /\ \A s \in 1..m : \E i \in 1..m : order[i] = s
  BY <1>2 DEF Bijection, Injection, Surjection, IsInjective
<1> QED
  BY <1>1, <1>3, <1>5, <1>6 DEF m

LEMMA MovedCalls ==
  ASSUME NEW calls, NEW steps, NEW order, Moved(calls, steps, order)
  PROVE  /\ \A i \in DOMAIN calls : order[i] \in DOMAIN steps /\ calls[i] = steps[order[i]]
         /\ \A s \in DOMAIN steps : \E i \in DOMAIN calls : order[i] = s
<1> DEFINE m == Len(steps)
<1>1. /\ DOMAIN steps = 1..m /\ DOMAIN calls = 1..m
      /\ \A i \in 1..m : order[i] \in 1..m /\ calls[i] = steps[order[i]]
      /\ \A s \in 1..m : \E i \in 1..m : order[i] = s
  BY MovedFacts
<1> HIDE DEF m
<1> QED
  BY <1>1

\* As many calls have a property as steps do.
LEMMA CountMoved ==
  ASSUME NEW calls, NEW steps, NEW order, Moved(calls, steps, order), NEW A \in SUBSET DOMAIN steps
  PROVE  Cardinality({i \in DOMAIN calls : order[i] \in A}) = Cardinality(A)
<1> DEFINE m == Len(steps)
           B == {i \in DOMAIN calls : order[i] \in A}
           f == [i \in B |-> order[i]]
<1>1. /\ m \in Nat /\ DOMAIN steps = 1..m /\ DOMAIN calls = 1..m
      /\ \A i, j \in 1..m : order[i] = order[j] => i = j
      /\ \A s \in 1..m : \E i \in 1..m : order[i] = s
  BY MovedFacts
<1> HIDE DEF m
<1>2. B \in SUBSET (1..m)
  BY <1>1
<1>3. \A i \in B : order[i] \in A
  OBVIOUS
<1>4. \A s \in A : \E i \in B : order[i] = s
  BY <1>1
<1> HIDE DEF B
<1>5. f \in [B -> A] /\ \A i \in B : f[i] = order[i]
  BY <1>3
<1>6. \A i, j \in B : f[i] = f[j] => i = j
  BY <1>1, <1>2, <1>5
<1>7. \A s \in A : \E i \in B : f[i] = s
  BY <1>4, <1>5
<1> HIDE DEF f
<1>8. f \in Bijection(B, A)
  BY <1>5, <1>6, <1>7 DEF Bijection, Injection, Surjection, IsInjective
<1>9. IsFiniteSet(B)
  BY <1>1, <1>2, UpToSize, FS_Subset
<1> QED
  BY <1>8, <1>9, FS_Bijection DEF B, ExistsBijection

\* What the checks count is the same in any order.
LEMMA SentMoved ==
  ASSUME NEW calls, NEW steps, NEW order, Moved(calls, steps, order), NEW name, NEW key, NEW word
  PROVE  Sent(calls, name, key, word) = Sent(steps, name, key, word)
<1> DEFINE A == {s \in DOMAIN steps : /\ IsTool(steps[s], name)
                                      /\ Reads(Get(steps[s].params, key), word)}
<1>1. {i \in DOMAIN calls : IsTool(calls[i], name) /\ Reads(Get(calls[i].params, key), word)}
        = {i \in DOMAIN calls : order[i] \in A}
  BY MovedCalls
<1>2. Cardinality({i \in DOMAIN calls : order[i] \in A}) = Cardinality(A)
  BY CountMoved
<1> QED
  BY <1>1, <1>2 DEF Sent

LEMMA TallyMoved ==
  ASSUME NEW calls, NEW steps, NEW order, Moved(calls, steps, order), NEW tool
  PROVE  Tally(calls, tool) = Tally(steps, tool)
<1> DEFINE A == {s \in DOMAIN steps : Tool(steps[s]) = tool}
<1>1. {i \in DOMAIN calls : Tool(calls[i]) = tool} = {i \in DOMAIN calls : order[i] \in A}
  BY MovedCalls
<1>2. Cardinality({i \in DOMAIN calls : order[i] \in A}) = Cardinality(A)
  BY CountMoved
<1> QED
  BY <1>1, <1>2 DEF Tally

\* How often a tool is written like this.
Written(calls, tool) == Cardinality({i \in DOMAIN calls : calls[i].tool = tool})

LEMMA WrittenMoved ==
  ASSUME NEW calls, NEW steps, NEW order, Moved(calls, steps, order), NEW tool
  PROVE  Written(calls, tool) = Written(steps, tool)
<1> DEFINE A == {s \in DOMAIN steps : steps[s].tool = tool}
<1>1. {i \in DOMAIN calls : calls[i].tool = tool} = {i \in DOMAIN calls : order[i] \in A}
  BY MovedCalls
<1>2. Cardinality({i \in DOMAIN calls : order[i] \in A}) = Cardinality(A)
  BY CountMoved
<1> QED
  BY <1>1, <1>2 DEF Written

LEMMA ToldMoved ==
  ASSUME NEW calls, NEW steps, NEW order, Moved(calls, steps, order), NEW who, NEW channel
  PROVE  Told(calls, who, channel) = Told(steps, who, channel)
<1> DEFINE A == {s \in DOMAIN steps : /\ IsTool(steps[s], "notification_send")
                                      /\ Reads(Get(steps[s].params, "user_id"), who)
                                      /\ Reads(Get(steps[s].params, "channel"), channel)}
<1>1. {i \in DOMAIN calls : /\ IsTool(calls[i], "notification_send")
                            /\ Reads(Get(calls[i].params, "user_id"), who)
                            /\ Reads(Get(calls[i].params, "channel"), channel)}
        = {i \in DOMAIN calls : order[i] \in A}
  BY MovedCalls
<1>2. Cardinality({i \in DOMAIN calls : order[i] \in A}) = Cardinality(A)
  BY CountMoved
<1> QED
  BY <1>1, <1>2 DEF Told

LEMMA QuotedMoved ==
  ASSUME NEW calls, NEW steps, NEW order, Moved(calls, steps, order), NEW plan
  PROVE  Quoted(calls, plan) = Quoted(steps, plan)
<1> DEFINE Quotes(call) == IsQuote(call) /\ PlanOf(call) = normalize_text(plan)
           A == {s \in DOMAIN steps : Quotes(steps[s])}
           B == {i \in DOMAIN calls : Quotes(calls[i])}
<1>1. Quoted(calls, plan) = Cardinality(B) /\ Quoted(steps, plan) = Cardinality(A)
  BY DEF Quoted
<1> HIDE DEF Quotes
<1>2. B = {i \in DOMAIN calls : order[i] \in A}
  BY MovedCalls
<1>3. Cardinality({i \in DOMAIN calls : order[i] \in A}) = Cardinality(A)
  BY CountMoved
<1> QED
  BY <1>1, <1>2, <1>3

LEMMA MatchingMoved ==
  ASSUME NEW calls, NEW steps, NEW order, Moved(calls, steps, order), NEW tool, NEW match
  PROVE  count_matching_calls(calls, tool, match) = count_matching_calls(steps, tool, match)
<1> DEFINE Matches(call) == /\ tool = <<>> \/ Tool(call) = normalize_text(tool)
                            /\ mapping_matches(call.params, match)
           A == {s \in DOMAIN steps : Matches(steps[s])}
           B == {i \in DOMAIN calls : Matches(calls[i])}
<1>1. /\ count_matching_calls(calls, tool, match) = Cardinality(B)
      /\ count_matching_calls(steps, tool, match) = Cardinality(A)
  BY DEF count_matching_calls
<1> HIDE DEF Matches
<1>2. B = {i \in DOMAIN calls : order[i] \in A}
  BY MovedCalls
<1>3. Cardinality({i \in DOMAIN calls : order[i] \in A}) = Cardinality(A)
  BY CountMoved
<1> QED
  BY <1>1, <1>2, <1>3

LEMMA TargetsMoved ==
  ASSUME NEW calls, NEW steps, NEW order, Moved(calls, steps, order), NEW name, NEW key
  PROVE  Targets(calls, name, key) = Targets(steps, name, key)
<1> DEFINE Names(call) == /\ IsTool(call, name)
                          /\ Get(call.params, key) \notin {Null, Str(<<>>)}
           Target(call) == normalize_text(StrOf(call.params[key]))
<1>1. /\ Targets(calls, name, key) = {Target(calls[i]) : i \in {j \in DOMAIN calls : Names(calls[j])}}
      /\ Targets(steps, name, key) = {Target(steps[s]) : s \in {j \in DOMAIN steps : Names(steps[j])}}
  BY DEF Targets
<1> HIDE DEF Names, Target
<1>2. /\ \A i \in DOMAIN calls : order[i] \in DOMAIN steps /\ calls[i] = steps[order[i]]
      /\ \A s \in DOMAIN steps : \E i \in DOMAIN calls : order[i] = s
  BY MovedCalls
<1>3. {Target(calls[i]) : i \in {j \in DOMAIN calls : Names(calls[j])}}
        = {Target(steps[s]) : s \in {j \in DOMAIN steps : Names(steps[j])}}
  BY <1>2
<1> QED
  BY <1>1, <1>3

LEMMA NumberMoved ==
  ASSUME NEW calls, NEW steps, NEW order, Moved(calls, steps, order), NEW name
  PROVE  Number(calls, name) = Number(steps, name)
  BY TallyMoved DEF Number

LEMMA AssertionsMoved ==
  ASSUME NEW calls, NEW steps, NEW order, Moved(calls, steps, order), NEW assertions
  PROVE  evaluate_outcome_assertions(calls, assertions) = evaluate_outcome_assertions(steps, assertions)
<1> DEFINE Count(list, a) == IF a.check = "tool_count" THEN Len(list)
                             ELSE count_matching_calls(list, a.tool, a.match)
           Holds(list, a) == /\ "equals" \in DOMAIN a => Count(list, a) = a.equals
                             /\ "min" \in DOMAIN a => Count(list, a) >= a.min
                             /\ "max" \in DOMAIN a => Count(list, a) <= a.max
           known == {i \in DOMAIN assertions : assertions[i].check \in {"call_count", "tool_count"}}
<1>1. \A list : evaluate_outcome_assertions(list, assertions)
                  = IF DOMAIN assertions # {} /\ list = <<>> THEN 0
                    ELSE Passing([i \in known |-> Holds(list, assertions[i])])
  BY DEF evaluate_outcome_assertions
<1>2. Len(calls) = Len(steps) /\ calls # <<>> /\ steps # <<>>
  BY MovedFacts DEF Moved
<1>3. ASSUME NEW a PROVE Count(calls, a) = Count(steps, a)
  BY <1>2, MatchingMoved
<1> HIDE DEF Count
<1>4. \A a : Holds(calls, a) <=> Holds(steps, a)
  BY <1>3
<1> HIDE DEF Holds, known
<1> DEFINE f == [i \in known |-> Holds(calls, assertions[i])]
           g == [i \in known |-> Holds(steps, assertions[i])]
<1>5. DOMAIN f = DOMAIN g /\ \A i \in DOMAIN f : f[i] <=> g[i]
  BY <1>4
<1> HIDE DEF f, g
<1>6. Passing(f) = Passing(g)
  BY <1>5, PassingAgrees
<1> QED
  BY <1>1, <1>2, <1>6 DEF f, g

LEMMA GoalMoved ==
  ASSUME NEW calls, NEW steps, NEW order, Moved(calls, steps, order), NEW gold
  PROVE  template_goal(calls, gold) = template_goal(steps, gold)
<1>1. \A name, key, word : Sent(calls, name, key, word) = Sent(steps, name, key, word)
  BY SentMoved
<1>2. \A name : Number(calls, name) = Number(steps, name)
  BY NumberMoved
<1>3. \A plan : Quoted(calls, plan) = Quoted(steps, plan)
  BY QuotedMoved
<1> QED
  BY <1>1, <1>2, <1>3 DEF template_goal, Logged

LEMMA ConstraintsMoved ==
  ASSUME NEW calls, NEW steps, NEW order, Moved(calls, steps, order), NEW gold
  PROVE  template_constraints(calls, gold) = template_constraints(steps, gold)
<1>1. \A name, key, word : Sent(calls, name, key, word) = Sent(steps, name, key, word)
  BY SentMoved
<1>2. \A name : Number(calls, name) = Number(steps, name)
  BY NumberMoved
<1>3. \A who, channel : Told(calls, who, channel) = Told(steps, who, channel)
  BY ToldMoved
<1>4. \A name, key : Targets(calls, name, key) = Targets(steps, name, key)
  BY TargetsMoved
<1> QED
  BY <1>1, <1>2, <1>3, <1>4 DEF template_constraints

LEMMA GenericMoved ==
  ASSUME NEW calls, NEW steps, NEW order, Moved(calls, steps, order)
  PROVE  generic_constraints(calls, steps) = generic_constraints(steps, steps)
<1>1. Len(calls) = Len(steps)
  BY MovedFacts
<1>2. \A name : Number(calls, name) = Number(steps, name)
  BY NumberMoved
<1>3. \A name, key : Targets(calls, name, key) = Targets(steps, name, key)
  BY TargetsMoved
<1> QED
  BY <1>1, <1>2, <1>3 DEF generic_constraints

LEMMA ComplianceMoved ==
  ASSUME NEW gold, NEW calls, NEW order, Moved(calls, gold.steps, order)
  PROVE  score_constraint_compliance(calls, gold) = score_constraint_compliance(gold.steps, gold)
<1>1. calls # <<>> /\ gold.steps # <<>>
  BY MovedFacts DEF Moved
<1> QED
  BY <1>1, AssertionsMoved, ConstraintsMoved, GenericMoved DEF score_constraint_compliance

LEMMA MinAlone == ASSUME NEW x \in Int PROVE Min({x}) = x
<1>1. {x} \in SUBSET Int /\ {x} # {}
  OBVIOUS
<1>2. IsFiniteSet({x})
  BY FS_Singleton
<1> QED
  BY <1>1, <1>2, MaxMin

\* A list with every tool as often as the plan has all of the plan.
LEMMA InCommonAll ==
  ASSUME NEW m \in Nat, NEW planned, DOMAIN planned = 1..m, NEW tools,
         \A t : Cardinality({i \in DOMAIN tools : tools[i] = t})
                  = Cardinality({i \in DOMAIN planned : planned[i] = t})
  PROVE  InCommon(tools, planned) = m
<1> DEFINE F == [t \in ToSet(planned) |-> {i \in 1..m : planned[i] = t}]
           w == [t \in ToSet(planned) |->
                   Min({Cardinality({i \in DOMAIN tools : tools[i] = t}),
                        Cardinality({i \in DOMAIN planned : planned[i] = t})})]
           S == ToSet(planned)
<1>1. InCommon(tools, planned) = SumFunctionOnSet(w, S)
  BY DEF InCommon, SumFunction
<1>2. ASSUME NEW t \in S
      PROVE  IsFiniteSet(F[t]) /\ w[t] = Cardinality(F[t])
  <2>1. F[t] = {i \in 1..m : planned[i] = t} /\ F[t] \in SUBSET (1..m)
    OBVIOUS
  <2>2. IsFiniteSet(F[t]) /\ Cardinality(F[t]) \in Int
    BY <2>1, UpToSize, FS_Subset, FS_CardinalityType
  <2>3. w[t] = Min({Cardinality(F[t])})
    <3>1. Cardinality({i \in DOMAIN tools : tools[i] = t}) = Cardinality(F[t])
      BY <2>1
    <3>2. Cardinality({i \in DOMAIN planned : planned[i] = t}) = Cardinality(F[t])
      BY <2>1
    <3>3. w[t] = Min({Cardinality(F[t]), Cardinality(F[t])})
      BY <3>1, <3>2
    <3> QED
      BY <3>3
  <2> HIDE DEF F, w
  <2> QED
    BY <2>2, <2>3, MinAlone
<1>3. IsFiniteSet(S)
  BY UpToSize, ImageFinite DEF ToSet
<1>4. \A t, u \in S : t # u => F[t] \cap F[u] = {}
  OBVIOUS
<1>5. UNION {F[t] : t \in S} = 1..m
  <2>1. \A i \in 1..m : planned[i] \in S /\ i \in F[planned[i]]
    BY DEF ToSet
  <2>2. \A t \in S : F[t] \subseteq 1..m
    OBVIOUS
  <2> HIDE DEF F, S
  <2> QED
    BY <2>1, <2>2
<1> HIDE DEF F, w, S
<1>6. SumFunctionOnSet(w, S) = Cardinality(UNION {F[t] : t \in S})
  BY <1>2, <1>3, <1>4, SumCounts
<1> QED
  BY <1>1, <1>5, <1>6, UpToSize

LEMMA ToolsCounted ==
  ASSUME NEW list, NEW t
  PROVE  Cardinality({i \in DOMAIN Tools(list) : Tools(list)[i] = t}) = Tally(list, t)
<1>1. {i \in DOMAIN Tools(list) : Tools(list)[i] = t} = {i \in DOMAIN list : Tool(list[i]) = t}
  BY DEF Tools
<1> QED
  BY <1>1 DEF Tally

LEMMA NamedCounted ==
  ASSUME NEW list, NEW t
  PROVE  Cardinality({i \in DOMAIN Named(list) : Named(list)[i] = t}) = Written(list, t)
<1>1. {i \in DOMAIN Named(list) : Named(list)[i] = t} = {i \in DOMAIN list : list[i].tool = t}
  BY DEF Named
<1> QED
  BY <1>1 DEF Written

LEMMA ToolsMoved ==
  ASSUME NEW calls, NEW steps, NEW order, Moved(calls, steps, order)
  PROVE  /\ InCommon(Tools(calls), Tools(steps)) = Len(steps)
         /\ InCommon(Named(calls), Named(steps)) = Len(steps)
<1> DEFINE m == Len(steps)
<1>1. m \in Nat /\ DOMAIN steps = 1..m
  BY MovedFacts
<1>2. DOMAIN Tools(steps) = DOMAIN steps /\ DOMAIN Named(steps) = DOMAIN steps
  BY DEF Tools, Named
<1>3. ASSUME NEW t
      PROVE  Cardinality({i \in DOMAIN Tools(calls) : Tools(calls)[i] = t})
               = Cardinality({i \in DOMAIN Tools(steps) : Tools(steps)[i] = t})
  <2>1. Tally(calls, t) = Tally(steps, t)
    BY TallyMoved
  <2> QED
    BY <2>1, ToolsCounted
<1>4. ASSUME NEW t
      PROVE  Cardinality({i \in DOMAIN Named(calls) : Named(calls)[i] = t})
               = Cardinality({i \in DOMAIN Named(steps) : Named(steps)[i] = t})
  <2>1. Written(calls, t) = Written(steps, t)
    BY WrittenMoved
  <2> QED
    BY <2>1, NamedCounted
<1>5. DOMAIN Tools(steps) = 1..m /\ DOMAIN Named(steps) = 1..m
  BY <1>1, <1>2
<1> HIDE DEF m
<1>6. InCommon(Tools(calls), Tools(steps)) = m
  BY <1>1, <1>3, <1>5, InCommonAll
<1>7. InCommon(Named(calls), Named(steps)) = m
  BY <1>1, <1>4, <1>5, InCommonAll
<1> QED
  BY <1>6, <1>7 DEF m

\* Nothing is lacking that could be substituted.
LEMMA NothingSubstituted ==
  ASSUME NEW gold, NEW calls, NEW order, Moved(calls, gold.steps, order)
  PROVE  substituted(calls, gold) = 0
<1> DEFINE alt(i) == normalize_text(gold.alternatives[i].tool)
           primary(i) == Tool(gold.steps[gold.alternatives[i].step])
           Pair(i) == <<alt(i), primary(i)>>
           real == {i \in DOMAIN gold.alternatives : alt(i) # <<>> /\ alt(i) # primary(i)}
           entries == {i \in real : /\ Tally(gold.steps, primary(i)) - Tally(calls, primary(i)) > 0
                                    /\ \A j \in real : Pair(j) = Pair(i) => j <= i}
<1>1. ASSUME NEW tool PROVE ~(Tally(gold.steps, tool) - Tally(calls, tool) > 0)
  <2>1. Tally(calls, tool) = Tally(gold.steps, tool)
    BY TallyMoved
  <2>2. Tally(gold.steps, tool) \in Nat
    <3>1. {i \in DOMAIN gold.steps : Tool(gold.steps[i]) = tool} \in SUBSET (1..Len(gold.steps))
          /\ Len(gold.steps) \in Nat
      BY MovedFacts
    <3> QED
      BY <3>1, UpToSize, FS_Subset, FS_CardinalityType DEF Tally
  <2> QED
    BY <2>1, <2>2
<1>2. entries = {}
  BY <1>1
<1>3. \E f : DOMAIN f = entries /\ substituted(calls, gold) = SumFunction(f)
  BY DEF substituted
<1> HIDE DEF entries
<1> QED
  BY <1>2, <1>3, SumEmpty DEF SumFunction

\* All the tools are there.
LEMMA SelectionMoved ==
  ASSUME NEW gold, NEW calls, NEW order, Moved(calls, gold.steps, order)
  PROVE  score_tool_selection(calls, gold) = One
<1> DEFINE m == Len(gold.steps)
<1>1. /\ m \in Nat \ {0} /\ Len(calls) = m /\ calls # <<>> /\ gold.steps # <<>>
  BY MovedFacts DEF Moved
<1>2. InCommon(Tools(calls), Tools(gold.steps)) = m
  BY ToolsMoved
<1>3. score_tool_selection(calls, gold) = Frac(2 * (100 * m + 0), 100 * (m + m))
  BY <1>1, <1>2, NothingSubstituted DEF score_tool_selection
<1> HIDE DEF m
<1>4. 2 * (100 * m + 0) = 100 * (m + m) /\ 100 * (m + m) \in Nat \ {0}
  BY <1>1
<1> QED
  BY <1>3, <1>4, FracBetween

LEMMA LastMoved ==
  ASSUME NEW gold, NEW calls, NEW order, Moved(calls, gold.steps, order), NEW completed,
         completed, DOMAIN About(gold, "goal_completion") = {}, template_goal(calls, gold) = <<>>
  PROVE  /\ score_goal_completion(calls, gold, completed) \in Int
         /\ 100 * (score_goal_completion(calls, gold, completed) + 1) > 80 * One
         /\ Tool(Last(calls)) = Tool(Last(gold.steps))
              => score_goal_completion(calls, gold, completed) = One
<1> DEFINE m == Len(gold.steps)
           final == Is(Tool(Last(calls)) = Tool(Last(gold.steps)))
           x == 80 * One + 20 * final
<1>1. m \in Nat \ {0} /\ calls # <<>> /\ gold.steps # <<>>
  BY MovedFacts DEF Moved
<1>2. InCommon(Named(calls), Named(gold.steps)) = m
  BY ToolsMoved
<1>3. score_goal_completion(calls, gold, completed) = (80 * Frac(m, m) + 20 * final) \div 100
  BY <1>1, <1>2 DEF score_goal_completion
<1>4. Frac(m, m) = One
  BY <1>1, FracBetween
<1>5. final \in 0..One /\ One \in Nat
  BY IsBetween, ScoreAssumption
<1>6. Tool(Last(calls)) = Tool(Last(gold.steps)) => final = One
  BY DEF Is
<1>7. score_goal_completion(calls, gold, completed) = x \div 100
  BY <1>3, <1>4
<1> HIDE DEF m, final
<1>8. x \in Nat /\ x >= 80 * One /\ (final = One => x = 100 * One)
  BY <1>5
<1> HIDE DEF x
<1>9. x \div 100 \in Nat /\ 100 * (x \div 100 + 1) > x
  BY <1>8
<1>10. x = 100 * One => x \div 100 = One
  BY <1>5
<1> DEFINE q == x \div 100
<1>11. /\ q \in Int /\ 100 * (q + 1) > x /\ x >= 80 * One /\ x \in Int /\ 80 * One \in Int
       /\ final = One => q = One
  BY <1>5, <1>8, <1>9, <1>10
<1> HIDE DEF q
<1>12. 100 * (q + 1) > 80 * One
  BY <1>11
<1> QED
  BY <1>6, <1>7, <1>11, <1>12 DEF q

\* Less than One somewhere is less than One in the mean.
LEMMA SumBelow ==
  ASSUME NEW S, NEW w, Summable(w, S), \A k \in S : 0 <= w[k] /\ w[k] <= One,
         NEW x \in S, w[x] < One
  PROVE  LET n == Cardinality(S)
             sum == SumFunctionOnSet(w, S)
         IN  n \in Nat \ {0} /\ sum \in Nat /\ sum < n * One
<1> DEFINE n == Cardinality(S)
           sum == SumFunctionOnSet(w, S)
           R == S \ {x}
           r == Cardinality(R)
           rest == SumFunctionOnSet(w, R)
           high == [k \in S |-> One]
           low == [k \in S |-> 0]
<1>1. One \in Nat /\ One \in Int /\ 0 \in Int /\ w[x] \in Int
  BY ScoreAssumption DEF Summable
<1>2. IsFiniteSet(S) /\ IsFiniteSet(R) /\ r \in Nat /\ n = r + 1
  <2>1. IsFiniteSet(S)
    BY DEF Summable
  <2>2. IsFiniteSet(R) /\ Cardinality(R) = Cardinality(S) - 1
    BY <2>1, FS_RemoveElement
  <2>3. Cardinality(S) \in Nat /\ Cardinality(R) \in Nat
    BY <2>1, <2>2, FS_CardinalityType
  <2> QED
    BY <2>1, <2>2, <2>3
<1>3. sum = w[x] + rest
  BY SumRemove
<1>4. Summable(w, R) /\ rest \in Int
  <2>1. R \in SUBSET S
    OBVIOUS
  <2> QED
    BY <2>1, SummableSubset
<1>5. rest <= One * r
  <2>1. Summable(high, R) /\ SumFunctionOnSet(high, R) = One * r
    BY <1>1, <1>2, SumConstant
  <2>2. \A k \in R : w[k] <= high[k]
    OBVIOUS
  <2> QED
    BY <1>4, <2>1, <2>2, SumAtMost
<1>6. 0 <= sum
  <2>1. Summable(low, S) /\ SumFunctionOnSet(low, S) = 0 * n
    BY <1>1, <1>2, SumConstant
  <2>2. \A k \in S : low[k] <= w[k]
    OBVIOUS
  <2>3. SumFunctionOnSet(low, S) <= sum
    BY <2>1, <2>2, SumAtMost
  <2> QED
    BY <1>2, <2>1, <2>3
<1>7. (r + 1) * One = One * r + One
  BY <1>1, <1>2
<1> HIDE DEF n, sum, r, rest
<1> QED
  BY <1>1, <1>2, <1>3, <1>4, <1>5, <1>6, <1>7 DEF n, sum

LEMMA DivBelow ==
  ASSUME NEW a \in Nat, NEW d \in Nat \ {0}, a < d * One
  PROVE  a \div d \in 0..One /\ a \div d < One
<1>1. One \in Nat
  BY ScoreAssumption
<1>2. a \div d \in Nat /\ a \div d < One
  BY <1>1
<1> QED
  BY <1>1, <1>2

LEMMA ProductAtMost == ASSUME NEW n \in Nat, NEW u \in Nat, n <= u PROVE n * One <= u * One
<1>1. One \in Nat
  BY ScoreAssumption
<1> QED
  BY <1>1

----------------------------------------------------------------------------
(* How well a step's own call and that of another step match it.           *)

LEMMA PlanFacts ==
  ASSUME NEW gold \in Plans
  PROVE  LET steps == gold.steps
         IN  /\ steps \in Seq(ToSet(steps)) /\ steps # <<>>
             /\ \A s \in DOMAIN steps : /\ IsFiniteSet(DOMAIN steps[s].params)
                                        /\ \A k : Get(steps[s].params, k) \in Values
             /\ \A s, t \in DOMAIN steps :
                  s # t /\ Tool(steps[s]) = Tool(steps[t])
                    => \E k \in DOMAIN steps[t].params :
                         param_value_match(Get(steps[s].params, k), steps[t].params[k]) # One
  BY PlansAssumption, ValuesAssumption DEF Get

Pairs(call, step) ==
  [k \in DOMAIN step.params |-> param_value_match(Get(call.params, k), step.params[k])]

LEMMA PairsFacts ==
  ASSUME NEW gold \in Plans, NEW s \in DOMAIN gold.steps, NEW t \in DOMAIN gold.steps
  PROVE  LET w == Pairs(gold.steps[s], gold.steps[t])
         IN  /\ Summable(w, DOMAIN w) /\ DOMAIN w = DOMAIN gold.steps[t].params
             /\ \A k \in DOMAIN w : 0 <= w[k] /\ w[k] <= One
             /\ s = t => \A k \in DOMAIN w : w[k] = One
             /\ s # t /\ Tool(gold.steps[s]) = Tool(gold.steps[t]) => \E k \in DOMAIN w : w[k] < One
<1> DEFINE call == gold.steps[s]
           step == gold.steps[t]
           w == Pairs(call, step)
<1>1. One \in Nat
  BY ScoreAssumption
<1>2. /\ IsFiniteSet(DOMAIN step.params)
      /\ \A k : Get(call.params, k) \in Values
      /\ \A k : Get(step.params, k) \in Values
      /\ s # t /\ Tool(call) = Tool(step) =>
           \E k \in DOMAIN step.params : param_value_match(Get(call.params, k), step.params[k]) # One
  BY PlanFacts
<1>3. \A k \in DOMAIN step.params : step.params[k] = Get(step.params, k)
  BY DEF Get
<1>4. s = t => call = step
  OBVIOUS
<1> HIDE DEF call, step
<1>5. DOMAIN w = DOMAIN step.params
  BY DEF Pairs
<1>6. ASSUME NEW k \in DOMAIN w
      PROVE  /\ w[k] = param_value_match(Get(call.params, k), step.params[k])
             /\ w[k] \in 0..One /\ (s = t => w[k] = One)
  <2>1. w[k] = param_value_match(Get(call.params, k), step.params[k])
    BY DEF Pairs
  <2>2. step.params[k] = Get(step.params, k) /\ step.params[k] \in Values /\ Get(call.params, k) \in Values
    BY <1>2, <1>3, <1>5
  <2>3. w[k] \in 0..One
    BY <2>1, <2>2, MatchBetween
  <2>4. param_value_match(step.params[k], step.params[k]) = One
    BY <2>2, MatchSelf
  <2> QED
    BY <1>4, <2>1, <2>2, <2>3, <2>4
<1> HIDE DEF w
<1>7. Summable(w, DOMAIN w) /\ \A k \in DOMAIN w : 0 <= w[k] /\ w[k] <= One
  BY <1>1, <1>2, <1>5, <1>6 DEF Summable
<1>8. s # t /\ Tool(call) = Tool(step) => \E k \in DOMAIN w : w[k] < One
  BY <1>1, <1>2, <1>5, <1>6
<1> QED
  BY <1>5, <1>6, <1>7, <1>8 DEF call, step, w

LEMMA SelfMatches ==
  ASSUME NEW gold \in Plans, NEW s \in DOMAIN gold.steps
  PROVE  CallMatch(gold.steps[s], gold.steps[s]) = One /\ StepMatch(gold.steps[s], gold.steps[s]) = One
<1> DEFINE step == gold.steps[s]
           w == Pairs(step, step)
           D == DOMAIN step.params
<1>1. One \in Int
  BY ScoreAssumption
<1>2. Summable(w, D) /\ DOMAIN w = D /\ \A k \in D : w[k] = One
  BY PairsFacts
<1> SUFFICES CallMatch(step, step) = One /\ StepMatch(step, step) = One
  OBVIOUS
<1> HIDE DEF step
<1>3. CASE D = {}
  BY <1>3 DEF CallMatch, StepMatch, Is
<1>4. CASE D # {}
  <2>1. /\ StepMatch(step, step) = MeanOf(w)
        /\ CallMatch(step, step) = SumFunction(w) \div Cardinality(D \cup D)
    BY <1>4 DEF StepMatch, CallMatch, Pairs
  <2>2. D \cup D = D
    OBVIOUS
  <2>3. CallMatch(step, step) = MeanOf(w)
    BY <1>2, <2>1, <2>2 DEF MeanOf
  <2> HIDE DEF w
  <2>4. \A k \in DOMAIN w : One <= w[k] /\ w[k] <= One
    BY <1>1, <1>2
  <2>5. MeanOf(w) \in Int /\ One <= MeanOf(w) /\ MeanOf(w) <= One
    BY <1>1, <1>2, <1>4, <2>4, MeanBetween
  <2> QED
    BY <1>1, <2>1, <2>3, <2>5
<1> QED
  BY <1>3, <1>4

LEMMA OtherMatches ==
  ASSUME NEW gold \in Plans, NEW s \in DOMAIN gold.steps, NEW t \in DOMAIN gold.steps,
         s # t, Tool(gold.steps[s]) = Tool(gold.steps[t])
  PROVE  /\ CallMatch(gold.steps[s], gold.steps[t]) \in 0..One
         /\ CallMatch(gold.steps[s], gold.steps[t]) < One
         /\ StepMatch(gold.steps[s], gold.steps[t]) \in 0..One
         /\ StepMatch(gold.steps[s], gold.steps[t]) < One
<1> DEFINE call == gold.steps[s]
           step == gold.steps[t]
           w == Pairs(call, step)
           D == DOMAIN step.params
           U == D \cup DOMAIN call.params
           n == Cardinality(D)
           u == Cardinality(U)
           sum == SumFunctionOnSet(w, D)
<1>1. /\ Summable(w, D) /\ DOMAIN w = D
      /\ \A k \in D : 0 <= w[k] /\ w[k] <= One
      /\ \E k \in D : w[k] < One
  BY PairsFacts
<1>2. IsFiniteSet(U)
  BY PlanFacts, FS_Union
<1> HIDE DEF call, step
<1>3. D # {}
  BY <1>1
<1>4. /\ StepMatch(call, step) = sum \div n
      /\ CallMatch(call, step) = sum \div u
  BY <1>1, <1>3 DEF StepMatch, CallMatch, Pairs, MeanOf, SumFunction
<1> HIDE DEF w
<1>5. n \in Nat \ {0} /\ sum \in Nat /\ sum < n * One
  BY <1>1, SumBelow
<1>6. u \in Nat /\ n <= u
  <2>1. D \in SUBSET U
    OBVIOUS
  <2> HIDE DEF U
  <2> QED
    BY <1>2, <2>1, FS_Subset, FS_CardinalityType
<1> HIDE DEF n, u, sum, U, D
<1>7. n * One <= u * One
  BY <1>5, <1>6, ProductAtMost
<1>8. n * One \in Int /\ u * One \in Int
  BY <1>5, <1>6, ScoreAssumption
<1>9. u \in Nat \ {0} /\ sum < u * One
  BY <1>5, <1>6, <1>7, <1>8
<1>10. sum \div n \in 0..One /\ sum \div n < One
  BY <1>5, DivBelow
<1>11. sum \div u \in 0..One /\ sum \div u < One
  BY <1>5, <1>9, DivBelow
<1> QED
  BY <1>4, <1>10, <1>11 DEF call, step

----------------------------------------------------------------------------
(* Each call is recognised as the step it is, and each step as its call.   *)

LEMMA PlanMoved ==
  ASSUME NEW calls, NEW steps, NEW order, Moved(calls, steps, order), NEW m, m = Len(steps)
  PROVE  /\ m \in Nat /\ m # 0 /\ DOMAIN steps = 1..m /\ DOMAIN calls = 1..m
         /\ \A i \in 1..m : order[i] \in 1..m /\ calls[i] = steps[order[i]]
         /\ \A i, j \in 1..m : order[i] = order[j] => i = j
  BY MovedFacts

Fits(calls, steps, i) == {s \in DOMAIN steps : /\ Tool(steps[s]) = Tool(calls[i])
                                               /\ CallMatch(calls[i], steps[s]) > 0}
Suits(calls, steps) ==
  [i \in DOMAIN calls |-> [s \in Fits(calls, steps, i) |-> CallMatch(calls[i], steps[s])]]

\* Each call is recognised as the step it is,
LEMMA CallsPlaced ==
  ASSUME NEW gold \in Plans, NEW calls, NEW order, Moved(calls, gold.steps, order)
  PROVE  \A n \in DOMAIN calls : InTurn(Suits(calls, gold.steps))[n] = order[n]
<1> DEFINE steps == gold.steps
           m == Len(steps)
           worth == Suits(calls, steps)
<1>1. /\ m \in Nat /\ DOMAIN steps = 1..m /\ DOMAIN calls = 1..m
      /\ \A i \in 1..m : order[i] \in 1..m /\ calls[i] = steps[order[i]]
      /\ \A i, j \in 1..m : order[i] = order[j] => i = j
  BY PlanMoved
<1>2. One \in Nat \ {0}
  BY ScoreAssumption
<1>3. ASSUME NEW s \in 1..m, NEW t \in 1..m, Tool(steps[t]) = Tool(steps[s])
      PROVE  /\ s = t => CallMatch(steps[s], steps[t]) = One
             /\ s # t => CallMatch(steps[s], steps[t]) \in Int /\ CallMatch(steps[s], steps[t]) < One
  BY <1>1, <1>2, <1>3, SelfMatches, OtherMatches
<1>4. Len(worth) = m /\ \A n \in 1..m : /\ DOMAIN worth[n] = Fits(calls, steps, n)
                                        /\ \A i \in DOMAIN worth[n] :
                                             worth[n][i] = CallMatch(calls[n], steps[i])
  BY <1>1 DEF Suits
<1>5. \A n \in 1..m : DOMAIN worth[n] \subseteq 1..m
  BY <1>1, <1>4 DEF Fits
<1> HIDE DEF m, worth
<1>6. ASSUME NEW n \in 1..m, NEW i \in DOMAIN worth[n]
      PROVE  /\ worth[n][i] \in Int
             /\ i = order[n] => worth[n][i] = One
             /\ i # order[n] => worth[n][i] < One
  <2>1. worth[n][i] = CallMatch(steps[order[n]], steps[i]) /\ i \in 1..m /\ order[n] \in 1..m
        /\ Tool(steps[i]) = Tool(steps[order[n]])
    BY <1>1, <1>4, <1>5 DEF Fits
  <2> QED
    BY <1>2, <1>3, <2>1
<1>7. ASSUME NEW n \in 1..m PROVE order[n] \in DOMAIN worth[n]
  <2>1. CallMatch(calls[n], steps[order[n]]) = One /\ order[n] \in 1..m
        /\ Tool(steps[order[n]]) = Tool(calls[n])
    BY <1>1, <1>3
  <2> QED
    BY <1>1, <1>2, <1>4, <2>1 DEF Fits
<1>8. Worths(worth, m)
  <2>1. ASSUME NEW n \in 1..m PROVE DOMAIN worth[n] \subseteq Nat \ {0} /\ IsFiniteSet(DOMAIN worth[n])
    BY <1>1, <1>5, UpToSize, FS_Subset
  <2> QED
    BY <1>4, <1>6, <2>1 DEF Worths
<1>9. Favourites(worth, m, order)
  <2>1. ASSUME NEW n \in 1..m, NEW i \in DOMAIN worth[n] \ {order[k] : k \in 1..n}
        PROVE  worth[n][i] < worth[n][order[n]]
    <3>1. i # order[n]
      BY <1>1
    <3> QED
      BY <1>6, <1>7, <3>1
  <2> QED
    BY <1>1, <1>7, <2>1 DEF Favourites
<1>10. InTurn(worth) = [n \in 1..m |-> order[n]]
  BY <1>1, <1>8, <1>9, TurnsAt
<1> QED
  BY <1>1, <1>10 DEF worth

\* so that the parameters are all there.
LEMMA AccuracyMoved ==
  ASSUME NEW gold \in Plans, NEW calls, NEW order, Moved(calls, gold.steps, order)
  PROVE  score_parameter_accuracy(calls, gold) = One
<1> DEFINE steps == gold.steps
           m == Len(steps)
           place == InTurn(Suits(calls, steps))
           w == [i \in DOMAIN calls |-> IF place[i] = 0 THEN 0
                                        ELSE CallMatch(calls[i], steps[place[i]])]
<1>1. /\ m \in Nat \ {0} /\ DOMAIN steps = 1..m /\ DOMAIN calls = 1..m /\ calls # <<>> /\ steps # <<>>
      /\ \A i \in 1..m : order[i] \in 1..m /\ calls[i] = steps[order[i]]
  BY MovedFacts DEF Moved
<1>2. score_parameter_accuracy(calls, gold) = MeanOf(w)
  BY <1>1 DEF score_parameter_accuracy, Suits, Fits
<1>3. \A n \in 1..m : place[n] = order[n]
  BY <1>1, CallsPlaced
<1> HIDE DEF place
<1>4. ASSUME NEW i \in 1..m PROVE w[i] = One
  <2>1. place[i] = order[i] /\ order[i] \in 1..m /\ place[i] # 0
    BY <1>1, <1>3
  <2>2. CallMatch(steps[order[i]], steps[order[i]]) = One
    BY <1>1, <2>1, SelfMatches
  <2> QED
    BY <1>1, <2>1, <2>2
<1>5. DOMAIN w = 1..m
  BY <1>1
<1> HIDE DEF w, m, steps
<1>6. One \in Int
  BY ScoreAssumption
<1>7. Summable(w, DOMAIN w) /\ DOMAIN w # {}
  BY <1>1, <1>4, <1>5, <1>6, UpToSize DEF Summable
<1>8. \A i \in DOMAIN w : One <= w[i] /\ w[i] <= One
  BY <1>4, <1>5, <1>6
<1>9. MeanOf(w) \in Int /\ One <= MeanOf(w) /\ MeanOf(w) <= One
  BY <1>6, <1>7, <1>8, MeanBetween
<1> QED
  BY <1>2, <1>6, <1>9

\* Where a step comes in an order.
Position(order, s) == CHOOSE i \in DOMAIN order : order[i] = s

LEMMA PositionFacts ==
  ASSUME NEW calls, NEW steps, NEW order, Moved(calls, steps, order)
  PROVE  LET m == Len(steps)
         IN  /\ DOMAIN order = 1..m
             /\ \A s \in 1..m : Position(order, s) \in 1..m /\ order[Position(order, s)] = s
             /\ \A i \in 1..m : Position(order, order[i]) = i
<1> DEFINE m == Len(steps)
<1>1. /\ m \in Nat /\ DOMAIN steps = 1..m
      /\ \A i \in 1..m : order[i] \in 1..m
      /\ \A i, j \in 1..m : order[i] = order[j] => i = j
      /\ \A s \in 1..m : \E i \in 1..m : order[i] = s
  BY MovedFacts
<1>2. DOMAIN order = 1..m
  BY <1>1 DEF Moved, Bijection, Injection
<1> HIDE DEF m
<1>3. \A s \in 1..m : Position(order, s) \in 1..m /\ order[Position(order, s)] = s
  BY <1>1, <1>2 DEF Position
<1>4. ASSUME NEW i \in 1..m PROVE Position(order, order[i]) = i
  <2> DEFINE s == order[i]
             p == Position(order, s)
  <2>1. s \in 1..m
    BY <1>1
  <2>2. p \in 1..m /\ order[p] = order[i]
    BY <1>3, <2>1
  <2> HIDE DEF p
  <2> QED
    BY <1>1, <2>2 DEF p
<1> QED
  BY <1>2, <1>3, <1>4 DEF m

\* And each step finds its own call.
LEMMA StepsPlaced ==
  ASSUME NEW gold \in Plans, NEW calls, NEW order, Moved(calls, gold.steps, order)
  PROVE  \A s \in DOMAIN gold.steps : Places(calls, gold.steps)[s] = Position(order, s)
<1> DEFINE steps == gold.steps
           m == Len(steps)
           worth == [s \in DOMAIN steps |->
                       [i \in SameTool(calls, steps[s]) |-> StepMatch(calls[i], steps[s])]]
           at == [s \in 1..m |-> Position(order, s)]
<1>1. /\ m \in Nat /\ DOMAIN steps = 1..m /\ DOMAIN calls = 1..m
      /\ \A i \in 1..m : order[i] \in 1..m /\ calls[i] = steps[order[i]]
  BY PlanMoved
<1>2. /\ \A s \in 1..m : Position(order, s) \in 1..m /\ order[Position(order, s)] = s
      /\ \A i \in 1..m : Position(order, order[i]) = i
  BY PositionFacts
<1>3. One \in Nat \ {0}
  BY ScoreAssumption
<1>4. ASSUME NEW s \in 1..m, NEW t \in 1..m, Tool(steps[s]) = Tool(steps[t])
      PROVE  /\ s = t => StepMatch(steps[s], steps[t]) = One
             /\ s # t => StepMatch(steps[s], steps[t]) \in Int /\ StepMatch(steps[s], steps[t]) < One
  BY <1>1, <1>3, <1>4, SelfMatches, OtherMatches
<1>5. Len(worth) = m /\ \A n \in 1..m : /\ DOMAIN worth[n] = SameTool(calls, steps[n])
                                        /\ \A i \in DOMAIN worth[n] :
                                             worth[n][i] = StepMatch(calls[i], steps[n])
  BY <1>1
<1>6. \A n \in 1..m : DOMAIN worth[n] \subseteq 1..m
  BY <1>1, <1>5 DEF SameTool
<1>7. Places(calls, steps) = InTurn(worth)
  BY DEF Places
<1> HIDE DEF m, worth, at
<1>8. ASSUME NEW n \in 1..m, NEW i \in DOMAIN worth[n]
      PROVE  /\ worth[n][i] \in Int
             /\ i = Position(order, n) => worth[n][i] = One
             /\ i # Position(order, n) => worth[n][i] < One
  <2>1. worth[n][i] = StepMatch(steps[order[i]], steps[n]) /\ i \in 1..m /\ order[i] \in 1..m
        /\ Tool(steps[order[i]]) = Tool(steps[n])
    BY <1>1, <1>5, <1>6 DEF SameTool
  <2>2. order[i] = n <=> i = Position(order, n)
    BY <1>2, <2>1
  <2> QED
    BY <1>3, <1>4, <2>1, <2>2
<1>9. ASSUME NEW n \in 1..m PROVE Position(order, n) \in DOMAIN worth[n]
  <2>1. Position(order, n) \in 1..m /\ calls[Position(order, n)] = steps[n]
    BY <1>1, <1>2
  <2> QED
    BY <1>1, <1>5, <2>1 DEF SameTool
<1>10. Worths(worth, m)
  <2>1. ASSUME NEW n \in 1..m PROVE DOMAIN worth[n] \subseteq Nat \ {0} /\ IsFiniteSet(DOMAIN worth[n])
    BY <1>1, <1>6, UpToSize, FS_Subset
  <2> QED
    BY <1>5, <1>8, <2>1 DEF Worths
<1>11. Favourites(worth, m, at)
  <2>1. \A n \in 1..m : at[n] = Position(order, n)
    BY DEF at
  <2>2. ASSUME NEW n \in 1..m, NEW i \in DOMAIN worth[n] \ {at[k] : k \in 1..n}
        PROVE  worth[n][i] < worth[n][at[n]]
    <3>1. i # at[n]
      BY <1>1
    <3> QED
      BY <1>8, <1>9, <2>1, <3>1
  <2>3. \A k, n \in 1..m : at[k] = at[n] => k = n
    BY <1>2, <2>1
  <2> QED
    BY <1>9, <2>1, <2>2, <2>3 DEF Favourites
<1>12. InTurn(worth) = [n \in 1..m |-> at[n]]
  BY <1>1, <1>10, <1>11, TurnsAt
<1>13. [n \in 1..m |-> at[n]] = [s \in 1..m |-> Position(order, s)]
  BY DEF at
<1> QED
  BY <1>1, <1>7, <1>12, <1>13

\* The order puts no step before one it needs.
Kept(gold, order) ==
  /\ \A s \in DOMAIN gold.steps : \A t \in hard_dependencies(s, gold.steps) :
       Position(order, t) < Position(order, s)
  /\ \A p \in ToSet(gold.ordered_dependencies) : Position(order, p[1]) < Position(order, p[2])

LEMMA DependencyFacts ==
  ASSUME NEW gold \in Plans
  PROVE  /\ \A s \in DOMAIN gold.steps : \A t \in hard_dependencies(s, gold.steps) :
              t \in DOMAIN gold.steps /\ t < s
         /\ Len(gold.ordered_dependencies) \in Nat
         /\ DOMAIN gold.ordered_dependencies = 1..Len(gold.ordered_dependencies)
         /\ \A p \in ToSet(gold.ordered_dependencies) :
              p[1] \in DOMAIN gold.steps /\ p[2] \in DOMAIN gold.steps /\ p[1] < p[2]
<1> DEFINE steps == gold.steps
           pairs == gold.ordered_dependencies
           m == Len(steps)
<1>1. gold.ordered_dependencies \in Seq(ToSet(gold.ordered_dependencies))
  BY PlansAssumption
<1>2. \A p \in ToSet(gold.ordered_dependencies) :
        p[1] \in DOMAIN gold.steps /\ p[2] \in DOMAIN gold.steps /\ p[1] < p[2]
  BY PlansAssumption
<1>3. gold.steps \in Seq(ToSet(gold.steps))
  BY PlansAssumption
<1>4. \A s \in DOMAIN gold.steps : gold.steps[s].depends_on \subseteq 1..(s - 1)
  BY PlansAssumption
<1>5. m \in Nat /\ DOMAIN steps = 1..m
  BY <1>3, LenProperties
<1>6. Len(pairs) \in Nat /\ DOMAIN pairs = 1..Len(pairs)
  BY <1>1, LenProperties
<1> HIDE DEF steps, pairs, m
<1>7. ASSUME NEW s \in DOMAIN steps, NEW t \in hard_dependencies(s, steps)
      PROVE  t \in DOMAIN steps /\ t < s
  <2>1. t \in steps[s].depends_on
    BY DEF hard_dependencies
  <2>2. t \in 1..(s - 1) /\ s \in 1..m
    BY <1>4, <1>5, <2>1 DEF steps
  <2> QED
    BY <1>5, <2>2
<1> QED
  BY <1>2, <1>6, <1>7 DEF steps, pairs

\* The ordering is perfect when the order keeps the dependencies, and only then.
LEMMA OrderingMoved ==
  ASSUME NEW gold \in Plans, NEW calls, NEW order, Moved(calls, gold.steps, order)
  PROVE  /\ score_ordering_correctness(calls, gold) \in 0..One
         /\ score_ordering_correctness(calls, gold) = One <=> Kept(gold, order)
<1> DEFINE steps == gold.steps
           pairs == gold.ordered_dependencies
           m == Len(steps)
           place == Places(calls, steps)
           After(s, t) == place[t] # 0 /\ place[s] # 0 /\ place[t] < place[s]
           B == {s \in DOMAIN steps : hard_dependencies(s, steps) # {}}
           K == {s \in B : \A t \in hard_dependencies(s, steps) : After(s, t)}
           H == {p \in DOMAIN pairs : After(pairs[p][2], pairs[p][1])}
           b == Cardinality(B)
           k == Cardinality(K)
           h == Cardinality(H)
           n == Len(pairs)
<1>1. m \in Nat /\ DOMAIN steps = 1..m /\ calls # <<>>
  BY MovedFacts
<1>2. score_ordering_correctness(calls, gold) = IF b + n = 0 THEN One ELSE Frac(k + h, b + n)
  BY <1>1 DEF score_ordering_correctness
<1>3. \A s \in DOMAIN steps : place[s] = Position(order, s)
  BY StepsPlaced
<1>4. \A s \in DOMAIN steps : Position(order, s) \in 1..m
  BY <1>1, PositionFacts
<1> HIDE DEF place, m
<1>5. ASSUME NEW s \in DOMAIN steps, NEW t \in DOMAIN steps
      PROVE  After(s, t) <=> Position(order, t) < Position(order, s)
  BY <1>1, <1>3, <1>4
<1>6. /\ \A s \in DOMAIN steps : \A t \in hard_dependencies(s, steps) : t \in DOMAIN steps
      /\ n \in Nat /\ DOMAIN pairs = 1..n
      /\ \A p \in ToSet(pairs) : p[1] \in DOMAIN steps /\ p[2] \in DOMAIN steps
  BY DependencyFacts
<1>7. \A p \in DOMAIN pairs : pairs[p] \in ToSet(pairs)
  BY DEF ToSet
<1>8. \A q \in ToSet(pairs) : \E p \in DOMAIN pairs : q = pairs[p]
  BY DEF ToSet
<1> HIDE DEF After, n, steps, pairs
<1>9. K = B <=> \A s \in DOMAIN steps : \A t \in hard_dependencies(s, steps) :
                  Position(order, t) < Position(order, s)
  BY <1>5, <1>6
<1>10. H = DOMAIN pairs <=> \A p \in ToSet(pairs) : Position(order, p[1]) < Position(order, p[2])
  <2>1. \A p \in DOMAIN pairs : After(pairs[p][2], pairs[p][1])
                                  <=> Position(order, pairs[p][1]) < Position(order, pairs[p][2])
    BY <1>5, <1>6, <1>7
  <2> QED
    BY <1>7, <1>8, <2>1
<1>11. Kept(gold, order) <=> K = B /\ H = DOMAIN pairs
  BY <1>9, <1>10 DEF Kept, steps, pairs
<1>12. B \in SUBSET DOMAIN steps /\ K \in SUBSET B /\ H \in SUBSET DOMAIN pairs
  OBVIOUS
<1> HIDE DEF B, K, H
<1>13. IsFiniteSet(DOMAIN steps) /\ IsFiniteSet(DOMAIN pairs) /\ Cardinality(DOMAIN pairs) = n
  BY <1>1, <1>6, UpToSize
<1>14. IsFiniteSet(B) /\ b \in Nat /\ k \in Nat /\ k <= b /\ (k = b <=> K = B)
  BY <1>12, <1>13, FS_Subset, FS_CardinalityType
<1>15. h \in Nat /\ h <= n /\ (h = n <=> H = DOMAIN pairs)
  BY <1>12, <1>13, FS_Subset, FS_CardinalityType
<1> HIDE DEF b, k, h
<1>16. One \in 0..One
  BY ScoreAssumption
<1>17. CASE b + n = 0
  <2>1. k = b /\ h = n
    BY <1>6, <1>14, <1>15, <1>17
  <2> QED
    BY <1>2, <1>11, <1>14, <1>15, <1>16, <1>17, <2>1
<1>18. CASE b + n # 0
  <2> DEFINE x == k + h
             y == b + n
  <2>1. x \in Nat /\ y \in Nat \ {0} /\ x <= y /\ (x = y <=> k = b /\ h = n) /\ (x < y \/ x = y)
    BY <1>6, <1>14, <1>15, <1>18
  <2>2. score_ordering_correctness(calls, gold) = Frac(x, y)
    BY <1>2, <1>18
  <2> HIDE DEF x, y
  <2>3. Frac(x, y) \in 0..One /\ (x = y => Frac(x, y) = One)
    BY <2>1, FracBetween
  <2>4. x < y => Frac(x, y) < One
    BY <2>1, FracLess
  <2>5. Frac(x, y) = One <=> x = y
    BY <2>1, <2>3, <2>4, ScoreAssumption
  <2> QED
    BY <1>11, <1>14, <1>15, <2>1, <2>2, <2>3, <2>5
<1> QED
  BY <1>17, <1>18

----------------------------------------------------------------------------
(* What a reordering of a plan earns.                                      *)

\* One task alone has the means of the dimensions.
Only(x) == MeanOf([g \in {1} |-> x])

LEMMA OnlyIs == ASSUME NEW x \in Int PROVE Only(x) = x
<1> DEFINE w == [g \in {1} |-> x]
<1>1. DOMAIN w = {1} /\ w[1] = x
  OBVIOUS
<1>2. IsFiniteSet({1})
  BY FS_Singleton
<1> HIDE DEF w
<1>3. Summable(w, DOMAIN w) /\ DOMAIN w # {}
  BY <1>1, <1>2 DEF Summable
<1>4. \A g \in DOMAIN w : x <= w[g] /\ w[g] <= x
  BY <1>1
<1>5. MeanOf(w) \in Int /\ x <= MeanOf(w) /\ MeanOf(w) <= x
  BY <1>3, <1>4, MeanBetween
<1>6. MeanOf(w) = x
  BY <1>5
<1> QED
  BY <1>6 DEF Only, w

LEMMA Alone ==
  ASSUME NEW answer, NEW gold, answer.task_id = gold.task_id, score_task(answer, gold) # Raised
  PROVE  workflow_dimensions(<<answer>>, <<gold>>)
           = [d \in DOMAIN DIMENSION_WEIGHTS |-> Only(score_task(answer, gold)[d])]
<1> DEFINE answers == <<answer>>
           golds == <<gold>>
           zeros == [d \in DOMAIN DIMENSION_WEIGHTS |-> 0]
           Same(g) == {i \in DOMAIN answers : answers[i].task_id = golds[g].task_id}
           Of(g) == IF Same(g) = {} THEN zeros ELSE score_task(answers[Max(Same(g))], golds[g])
           scores == [g \in DOMAIN golds |-> Of(g)]
           score == score_task(answer, gold)
<1>1. DOMAIN answers = {1} /\ DOMAIN golds = {1} /\ answers[1] = answer /\ golds[1] = gold
  OBVIOUS
<1>2. workflow_dimensions(answers, golds)
        = IF \E g \in DOMAIN golds : scores[g] = Raised THEN Raised
          ELSE [d \in DOMAIN DIMENSION_WEIGHTS |-> MeanOf([g \in DOMAIN golds |-> scores[g][d]])]
  BY DEF workflow_dimensions
<1> HIDE DEF answers, golds
<1>3. Same(1) = {1}
  BY <1>1
<1>4. Max({1}) = 1
  <2>1. {1} \in SUBSET Int /\ {1} # {}
    OBVIOUS
  <2>2. IsFiniteSet({1})
    BY FS_Singleton
  <2> QED
    BY <2>1, <2>2, MaxMin
<1>5. Of(1) = score
  BY <1>1, <1>3, <1>4
<1> HIDE DEF Of, score
<1>6. DOMAIN scores = {1} /\ scores[1] = score
  BY <1>1, <1>5
<1>8. score # Raised
  BY DEF score
<1> HIDE DEF scores
<1>7. ASSUME NEW d
      PROVE  MeanOf([g \in DOMAIN golds |-> scores[g][d]]) = Only(score[d])
  <2>1. [g \in DOMAIN golds |-> scores[g][d]] = [g \in {1} |-> score[d]]
    BY <1>1, <1>6
  <2> QED
    BY <2>1 DEF Only
<1>9. \A g \in DOMAIN golds : scores[g] # Raised
  BY <1>1, <1>6, <1>8
<1> QED
  BY <1>2, <1>7, <1>9 DEF answers, golds, score

\* A trace of the plan's steps has no quote that cannot be read.
LEMMA MovedReads ==
  ASSUME NEW gold \in Plans, NEW calls, NEW order, Moved(calls, gold.steps, order), NEW completed
  PROVE  ~goal_raises(calls, gold, completed)
<1>1. \A s \in DOMAIN gold.steps : ~Unreadable(gold.steps[s])
  BY PlansAssumption
<1>2. \A i \in DOMAIN calls : ~Unreadable(calls[i])
  BY <1>1, MovedCalls
<1> QED
  BY <1>2 DEF goal_raises

\* A score is no exception.
LEMMA ScoreIs ==
  ASSUME NEW calls, NEW gold
  PROVE  LET score == score_task(Respond(calls, gold), gold)
             completed == Reads(Str(<<Plain("completed")>>), "completed")
         IN  IF goal_raises(calls, gold, completed) THEN score = Raised
             ELSE /\ score # Raised
                  /\ score.goal_completion = score_goal_completion(calls, gold, completed)
                  /\ score.tool_selection = score_tool_selection(calls, gold)
                  /\ score.parameter_accuracy = score_parameter_accuracy(calls, gold)
                  /\ score.ordering_correctness = score_ordering_correctness(calls, gold)
                  /\ score.constraint_compliance = score_constraint_compliance(calls, gold)
<1> DEFINE completed == Reads(Str(<<Plain("completed")>>), "completed")
           score == [goal_completion |-> score_goal_completion(calls, gold, completed),
                     tool_selection |-> score_tool_selection(calls, gold),
                     parameter_accuracy |-> score_parameter_accuracy(calls, gold),
                     ordering_correctness |-> score_ordering_correctness(calls, gold),
                     constraint_compliance |-> score_constraint_compliance(calls, gold)]
<1>1. score_task(Respond(calls, gold), gold)
        = IF goal_raises(calls, gold, completed) THEN Raised ELSE score
  BY DEF score_task, Respond
<1>2. "raised" \in DOMAIN Raised /\ "raised" \notin DOMAIN score
  BY DEF Raised
<1>3. score # Raised
  BY <1>2
<1> HIDE DEF completed
<1> QED
  BY <1>1, <1>3 DEF completed

\* What a trace of the plan's steps earns.
LEMMA MovedEarns ==
  ASSUME NEW gold \in Plans, NEW calls, NEW order, Moved(calls, gold.steps, order)
  PROVE  LET dimension == Graded(calls, gold).dimension
         IN  /\ DOMAIN dimension = DOMAIN DIMENSION_WEIGHTS
             /\ dimension = [d \in DOMAIN DIMENSION_WEIGHTS |-> dimension[d]]
             /\ dimension.goal_completion = Only(score_goal_completion(calls, gold, TRUE))
             /\ dimension.tool_selection = One
             /\ dimension.parameter_accuracy = One
             /\ dimension.ordering_correctness = score_ordering_correctness(calls, gold)
             /\ dimension.constraint_compliance
                  = Only(score_constraint_compliance(gold.steps, gold))
             /\ Graded(calls, gold).resolution = workflow_resolution(dimension)
<1> DEFINE dimension == Graded(calls, gold).dimension
           score == score_task(Respond(calls, gold), gold)
<1>1. Reads(Str(<<Plain("completed")>>), "completed")
  BY PlainText DEF Reads, Str, StrOf
<1>2. /\ score.goal_completion = score_goal_completion(calls, gold, TRUE)
      /\ score.tool_selection = One
      /\ score.parameter_accuracy = One
      /\ score.ordering_correctness = score_ordering_correctness(calls, gold)
      /\ score.constraint_compliance = score_constraint_compliance(gold.steps, gold)
  <2>1. /\ score.goal_completion
            = score_goal_completion(calls, gold, Reads(Str(<<Plain("completed")>>), "completed"))
        /\ score.tool_selection = score_tool_selection(calls, gold)
        /\ score.parameter_accuracy = score_parameter_accuracy(calls, gold)
        /\ score.ordering_correctness = score_ordering_correctness(calls, gold)
        /\ score.constraint_compliance = score_constraint_compliance(calls, gold)
    BY ScoreIs, MovedReads
  <2>2. Reads(Str(<<Plain("completed")>>), "completed") = TRUE
    BY <1>1 DEF Reads
  <2> QED
    BY <2>1, <2>2, SelectionMoved, AccuracyMoved, ComplianceMoved
<1>3. /\ dimension = [d \in DOMAIN DIMENSION_WEIGHTS |-> Only(score[d])]
      /\ Graded(calls, gold).resolution = workflow_resolution(dimension)
  <2> DEFINE whole == workflow_dimensions(<<Respond(calls, gold)>>, <<gold>>)
  <2>1. score # Raised
    BY ScoreIs, MovedReads
  <2>2. Respond(calls, gold).task_id = gold.task_id
    BY DEF Respond
  <2>3. whole = [d \in DOMAIN DIMENSION_WEIGHTS |-> Only(score[d])]
    BY <2>1, <2>2, Alone
  <2>4. "goal_completion" \in DOMAIN whole /\ "goal_completion" \notin DOMAIN Raised
    BY <2>3 DEF DIMENSION_WEIGHTS, Raised
  <2>5. whole # Raised
    BY <2>4
  <2>6. Graded(calls, gold) = IF whole = Raised THEN Raised
                              ELSE [dimension |-> whole, resolution |-> workflow_resolution(whole)]
    BY DEF Graded
  <2> HIDE DEF whole, score
  <2> QED
    BY <2>3, <2>5, <2>6
<1> HIDE DEF score, dimension
<1>4. One \in Int /\ score_ordering_correctness(calls, gold) \in Int
  BY OrderingMoved, ScoreAssumption
<1>5. DOMAIN DIMENSION_WEIGHTS = {"goal_completion", "tool_selection", "parameter_accuracy",
                                  "ordering_correctness", "constraint_compliance"}
  BY DEF DIMENSION_WEIGHTS
<1>6. \A d \in DOMAIN DIMENSION_WEIGHTS : dimension[d] = Only(score[d])
  BY <1>3
<1>7. Only(One) = One /\ Only(score_ordering_correctness(calls, gold)) = score_ordering_correctness(calls, gold)
  BY <1>4, OnlyIs
<1>8. /\ dimension.goal_completion = Only(score_goal_completion(calls, gold, TRUE))
      /\ dimension.tool_selection = One
      /\ dimension.parameter_accuracy = One
      /\ dimension.ordering_correctness = score_ordering_correctness(calls, gold)
      /\ dimension.constraint_compliance = Only(score_constraint_compliance(gold.steps, gold))
  BY <1>2, <1>5, <1>6, <1>7
<1>9. DOMAIN dimension = DOMAIN DIMENSION_WEIGHTS
      /\ dimension = [d \in DOMAIN DIMENSION_WEIGHTS |-> dimension[d]]
  BY <1>3
<1> QED
  BY <1>3, <1>8, <1>9 DEF dimension

\* The plan as it stands is the plan in its own order,
LEMMA Unmoved ==
  ASSUME NEW gold \in Plans
  PROVE  LET id == [i \in DOMAIN gold.steps |-> i]
         IN  Moved(gold.steps, gold.steps, id) /\ Kept(gold, id)
<1> DEFINE steps == gold.steps
           m == Len(steps)
           id == [i \in DOMAIN steps |-> i]
<1>1. gold.steps \in Seq(ToSet(gold.steps))
  BY PlansAssumption
<1>2. gold.steps # <<>>
  BY PlansAssumption
<1>3. steps \in [1..m -> ToSet(steps)] /\ m \in Nat
  BY <1>1, LenProperties
<1>4. steps = [i \in DOMAIN steps |-> steps[id[i]]]
  BY <1>3
<1>5. id \in Bijection(DOMAIN steps, DOMAIN steps)
  BY DEF Bijection, Injection, Surjection, IsInjective
<1>6. Moved(steps, steps, id)
  BY <1>1, <1>2, <1>4, <1>5 DEF Moved
<1>7. \A s \in DOMAIN steps : Position(id, s) = s
  BY DEF Position
<1> HIDE DEF id
<1>8. /\ \A s \in DOMAIN steps : \A t \in hard_dependencies(s, steps) : t \in DOMAIN steps /\ t < s
      /\ \A p \in ToSet(gold.ordered_dependencies) :
           p[1] \in DOMAIN steps /\ p[2] \in DOMAIN steps /\ p[1] < p[2]
  BY DependencyFacts
<1>9. Kept(gold, id)
  BY <1>7, <1>8 DEF Kept, steps
<1> QED
  BY <1>6, <1>9 DEF id, steps

\* What a goal that is checked earns does not depend on the order.
LEMMA CheckedMoved ==
  ASSUME NEW gold, NEW calls, NEW order, Moved(calls, gold.steps, order),
         \/ DOMAIN About(gold, "goal_completion") # {}
         \/ template_goal(gold.steps, gold) # <<>>
  PROVE  score_goal_completion(calls, gold, TRUE) = score_goal_completion(gold.steps, gold, TRUE)
<1>1. calls # <<>> /\ gold.steps # <<>>
  BY MovedFacts DEF Moved
<1>2. template_goal(calls, gold) = template_goal(gold.steps, gold)
  BY GoalMoved
<1>3. \A list : evaluate_outcome_assertions(calls, list) = evaluate_outcome_assertions(gold.steps, list)
  BY AssertionsMoved
<1> QED
  BY <1>1, <1>2, <1>3 DEF score_goal_completion

LEMMA OrderCosts ==
  ASSUME NEW gold \in Plans, NEW order \in Orders(gold)
  PROVE  LET calls == Reordered(gold, order)
             graded == Graded(calls, gold)
             planned == Graded(gold.steps, gold)
             checked == \/ DOMAIN About(gold, "goal_completion") # {}
                        \/ template_goal(gold.steps, gold) # <<>>
             ends == Tool(Last(calls)) = Tool(Last(gold.steps))
         IN  /\ graded.dimension.tool_selection = One
             /\ graded.dimension.parameter_accuracy = One
             /\ graded.dimension.constraint_compliance = planned.dimension.constraint_compliance
             /\ graded.dimension.ordering_correctness = One <=> Kept(gold, order)
             /\ (checked \/ ends) /\ Kept(gold, order) => graded.resolution = planned.resolution
             /\ ~checked => 100 * (graded.dimension.goal_completion + 1) > 80 * One
<1> DEFINE calls == Reordered(gold, order)
           steps == gold.steps
           graded == Graded(calls, gold)
           planned == Graded(steps, gold)
           checked == \/ DOMAIN About(gold, "goal_completion") # {}
                      \/ template_goal(steps, gold) # <<>>
           ends == Tool(Last(calls)) = Tool(Last(steps))
           id == [i \in DOMAIN gold.steps |-> i]
           D == graded.dimension
           P == planned.dimension
<1>1. Moved(calls, steps, order)
  <2>1. gold.steps \in Seq(ToSet(gold.steps))
    BY PlansAssumption
  <2>2. gold.steps # <<>>
    BY PlansAssumption
  <2>3. order \in Bijection(DOMAIN steps, DOMAIN steps)
    BY DEF Orders
  <2>4. DOMAIN order = DOMAIN steps
    BY <2>3 DEF Bijection, Injection
  <2>5. calls = [i \in DOMAIN steps |-> steps[order[i]]]
    BY <2>4 DEF Reordered
  <2> QED
    BY <2>1, <2>2, <2>3, <2>5 DEF Moved
<1>2. Moved(steps, steps, id) /\ Kept(gold, id)
  BY Unmoved
<1> HIDE DEF calls, id
<1>3. /\ D = [d \in DOMAIN DIMENSION_WEIGHTS |-> D[d]]
      /\ D.goal_completion = Only(score_goal_completion(calls, gold, TRUE))
      /\ D.tool_selection = One
      /\ D.parameter_accuracy = One
      /\ D.ordering_correctness = score_ordering_correctness(calls, gold)
      /\ D.constraint_compliance = Only(score_constraint_compliance(steps, gold))
      /\ graded.resolution = workflow_resolution(D)
  BY <1>1, MovedEarns
<1>4. /\ P = [d \in DOMAIN DIMENSION_WEIGHTS |-> P[d]]
      /\ P.goal_completion = Only(score_goal_completion(steps, gold, TRUE))
      /\ P.tool_selection = One
      /\ P.parameter_accuracy = One
      /\ P.ordering_correctness = score_ordering_correctness(steps, gold)
      /\ P.constraint_compliance = Only(score_constraint_compliance(steps, gold))
      /\ planned.resolution = workflow_resolution(P)
  BY <1>2, MovedEarns
<1>5. score_ordering_correctness(calls, gold) = One <=> Kept(gold, order)
  BY <1>1, OrderingMoved
<1>6. score_ordering_correctness(steps, gold) = One
  BY <1>2, OrderingMoved
<1>7. checked => score_goal_completion(calls, gold, TRUE) = score_goal_completion(steps, gold, TRUE)
  BY <1>1, CheckedMoved
<1>8. template_goal(calls, gold) = template_goal(steps, gold)
  BY <1>1, GoalMoved
<1>9. ASSUME ~checked
      PROVE  /\ score_goal_completion(calls, gold, TRUE) \in Int
             /\ 100 * (score_goal_completion(calls, gold, TRUE) + 1) > 80 * One
             /\ ends => score_goal_completion(calls, gold, TRUE) = One
             /\ score_goal_completion(steps, gold, TRUE) = One
  <2>1. DOMAIN About(gold, "goal_completion") = {} /\ template_goal(steps, gold) = <<>>
    BY <1>9
  <2>2. /\ score_goal_completion(calls, gold, TRUE) \in Int
        /\ 100 * (score_goal_completion(calls, gold, TRUE) + 1) > 80 * One
        /\ Tool(Last(calls)) = Tool(Last(gold.steps))
             => score_goal_completion(calls, gold, TRUE) = One
    BY <1>1, <1>8, <2>1, LastMoved
  <2>3. score_goal_completion(steps, gold, TRUE) = One
    BY <1>2, <2>1, LastMoved
  <2> QED
    BY <2>2, <2>3
<1> HIDE DEF checked, ends, D, P
<1>10. (checked \/ ends) /\ Kept(gold, order) => D = P
  <2> SUFFICES ASSUME checked \/ ends, Kept(gold, order) PROVE D = P
    OBVIOUS
  <2>1. score_goal_completion(calls, gold, TRUE) = score_goal_completion(steps, gold, TRUE)
    BY <1>7, <1>9
  <2>2. D.goal_completion = P.goal_completion /\ D.ordering_correctness = P.ordering_correctness
    BY <1>3, <1>4, <1>5, <1>6, <2>1
  <2>3. \A d \in {"goal_completion", "tool_selection", "parameter_accuracy",
                  "ordering_correctness", "constraint_compliance"} : D[d] = P[d]
    BY <1>3, <1>4, <2>2
  <2>4. DOMAIN DIMENSION_WEIGHTS = {"goal_completion", "tool_selection", "parameter_accuracy",
                                    "ordering_correctness", "constraint_compliance"}
    BY DEF DIMENSION_WEIGHTS
  <2>5. \A d \in DOMAIN DIMENSION_WEIGHTS : D[d] = P[d]
    BY <2>3, <2>4
  <2> QED
    BY <1>3, <1>4, <2>5
<1>11. D = P => graded.resolution = planned.resolution
  BY <1>3, <1>4
<1>12. ~checked => 100 * (D.goal_completion + 1) > 80 * One
  <2> SUFFICES ASSUME ~checked PROVE 100 * (D.goal_completion + 1) > 80 * One
    OBVIOUS
  <2>1. D.goal_completion = score_goal_completion(calls, gold, TRUE)
    BY <1>3, <1>9, OnlyIs
  <2> QED
    BY <1>9, <2>1
<1>13. D.constraint_compliance = P.constraint_compliance
  BY <1>3, <1>4
<1>14. D.ordering_correctness = One <=> Kept(gold, order)
  BY <1>3, <1>5
<1>15. D.tool_selection = One /\ D.parameter_accuracy = One
  BY <1>3
<1>16. (checked \/ ends) /\ Kept(gold, order) => graded.resolution = planned.resolution
  BY <1>10, <1>11
<1> HIDE DEF graded, planned
<1> QED
  BY <1>12, <1>13, <1>14, <1>15, <1>16 DEF D, P, graded, planned, checked, ends, calls, steps

----------------------------------------------------------------------------
(* Normalizing.                                                            *)

\* What becomes of a property, whether the model returned it or not.
Filled(v, s) == IF v = Null THEN default_value(s) ELSE normalize_value(v, s)

LEMMA SchemaFacts ==
  ASSUME NEW s \in Schemas
  PROVE  /\ IsSchema(s) \/ s = NotSchema
         /\ SchemaDepth(s) \in Nat
         /\ \A k \in DOMAIN Properties(s) :
              s.properties[k] \in Schemas /\ SchemaDepth(s.properties[k]) < SchemaDepth(s)
         /\ "items" \in DOMAIN s => s.items \in Schemas /\ SchemaDepth(s.items) < SchemaDepth(s)
         /\ DefaultValue(s) = default_value(s) /\ default_value(s) \in Values
BY SchemasAssumption

LEMMA NormalFacts ==
  ASSUME NEW v \in Values, NEW s \in Schemas
  PROVE  NormalizeValue(v, s) = normalize_value(v, s) /\ normalize_value(v, s) \in Values
BY SchemasAssumption

LEMMA FilledIsValue == ASSUME NEW v \in Values, NEW s \in Schemas PROVE Filled(v, s) \in Values
BY SchemaFacts, NormalFacts DEF Filled

LEMMA ValueFacts ==
  ASSUME NEW v \in Values
  PROVE  /\ v.kind = "null" => v = Null
         /\ v.kind = "dict" => \A k : Get(v.fields, k) \in Values
         /\ v.kind = "list" => \A i \in DOMAIN v.items : v.items[i] \in Values
<1>1. Null \in Values
  BY ValuesAssumption
<1> QED
  BY <1>1, ValuesAssumption DEF Get

LEMMA NotASchema == ~IsSchema(NotSchema) /\ DOMAIN Properties(NotSchema) = {} /\ default_value(NotSchema) = Null
<1>1. DOMAIN NotSchema = {"raw"}
  BY DEF NotSchema
<1>2. DOMAIN <<>> = {}
  BY EmptySeq
<1> QED
  BY <1>1, <1>2 DEF IsSchema, Properties, default_value

\* An object's properties, one by one.
LEMMA ObjectFilled ==
  ASSUME NEW fields, NEW s \in Schemas, DOMAIN Properties(s) # {},
         \A k : Get(fields, k) \in Values
  PROVE  LET object == normalize_object(fields, s)
         IN  /\ object = [k \in DOMAIN Properties(s) |-> Filled(Get(fields, k), s.properties[k])]
             /\ DOMAIN object = DOMAIN Properties(s)
             /\ \A k \in DOMAIN Properties(s) :
                  /\ object[k] = Filled(Get(fields, k), s.properties[k])
                  /\ Get(object, k) = object[k]
<1>1. Properties(s) = s.properties
  BY EmptySeq DEF Properties
<1>2. ASSUME NEW k \in DOMAIN Properties(s)
      PROVE  (IF Get(fields, k) = Null THEN default_value(s.properties[k])
                                       ELSE NormalizeValue(fields[k], s.properties[k]))
               = Filled(Get(fields, k), s.properties[k])
  <2>1. s.properties[k] \in Schemas
    BY SchemaFacts
  <2>2. CASE Get(fields, k) = Null
    BY <2>2 DEF Filled
  <2>3. CASE Get(fields, k) # Null
    <3>1. Get(fields, k) = fields[k]
      BY <2>3 DEF Get
    <3> QED
      BY <2>1, <2>3, <3>1, NormalFacts DEF Filled
  <2> QED
    BY <2>2, <2>3
<1>3. normalize_object(fields, s) = [k \in DOMAIN Properties(s) |-> Filled(Get(fields, k), s.properties[k])]
  BY <1>1, <1>2 DEF normalize_object
<1> QED
  BY <1>3 DEF Get


\* The containers a schema says something of.
IsKept(v, s) == v.kind = "dict" /\ IsSchema(s) /\ IsObject(s)
IsLine(v, s) == /\ v.kind = "list" /\ IsSchema(s) /\ ~IsObject(s)
                /\ "items" \in DOMAIN s /\ IsSchema(s.items)

LEMMA NumbersSettle ==
  ASSUME NEW v
  PROVE  LET n == coerce_number(v)
         IN  (n = Null \/ n.kind = "num") /\ coerce_number(n) = n
<1>1. CASE v.kind = "num"
  BY <1>1 DEF coerce_number
<1>2. CASE coerce_number(v) = Null
  BY <1>2 DEF coerce_number, Null
<1>3. CASE v.kind # "num" /\ coerce_number(v) # Null
  <2>1. coerce_number(v) = Num(Numeral(Stripped(v.text)))
    BY <1>3 DEF coerce_number
  <2>2. Num(Numeral(Stripped(v.text))).kind = "num"
    BY DEF Num
  <2> QED
    BY <2>1, <2>2 DEF coerce_number
<1> QED
  BY <1>1, <1>2, <1>3

LEMMA FlagsSettle ==
  ASSUME NEW v
  PROVE  LET b == coerce_bool(v)
         IN  (b = Null \/ b.kind = "bool") /\ coerce_bool(b) = b
<1>1. CASE v.kind = "bool"
  BY <1>1 DEF coerce_bool
<1>2. CASE coerce_bool(v) = Null
  <2>1. Null.kind = "null"
    BY DEF Null
  <2>2. coerce_bool(Null) = Null
    BY <2>1 DEF coerce_bool
  <2> QED
    BY <1>2, <2>2
<1>3. CASE v.kind # "bool" /\ coerce_bool(v) # Null
  <2>1. coerce_bool(v) = Bool(TRUE) \/ coerce_bool(v) = Bool(FALSE)
    <3>1. CASE v.kind = "str" /\ Spelled(v.text, {"true", "yes", "y", "1"})
      BY <1>3, <3>1 DEF coerce_bool, Spelled
    <3>2. CASE v.kind = "str" /\ Spelled(v.text, {"false", "no", "n", "0"})
      BY <1>3, <3>2 DEF coerce_bool, Spelled
    <3> QED
      BY <1>3, <3>1, <3>2 DEF coerce_bool
  <2>2. Bool(TRUE).kind = "bool" /\ Bool(FALSE).kind = "bool"
    BY DEF Bool
  <2> QED
    BY <2>1, <2>2 DEF coerce_bool
<1> QED
  BY <1>1, <1>2, <1>3

\* What is no such container is settled at once.
LEMMA LeafSettles ==
  ASSUME NEW v \in Values, NEW s \in Schemas, ~IsKept(v, s), ~IsLine(v, s)
  PROVE  LET n == normalize_value(v, s)
         IN  /\ normalize_value(n, s) = n
             /\ n # v => IsSchema(s) /\ ~IsObject(s) /\ ~IsArray(s)
             /\ IsSchema(s) /\ ~IsObject(s) /\ ~IsArray(s) /\ n # Null =>
                  /\ schema_type(s) \in {"number", "integer"} => n.kind = "num"
                  /\ schema_type(s) = "boolean" => n.kind = "bool"
<1>1. CASE v.kind = "null" \/ ~IsSchema(s) \/ IsObject(s) \/ IsArray(s)
  <2>1. normalize_value(v, s) = v
    BY <1>1 DEF normalize_value, IsKept, IsLine, IsArray
  <2>2. v.kind = "null" => v = Null
    BY ValueFacts
  <2> QED
    BY <1>1, <2>1, <2>2
<1>2. CASE v.kind # "null" /\ IsSchema(s) /\ ~IsObject(s) /\ ~IsArray(s)
  <2>1. CASE schema_type(s) \in {"number", "integer"}
    <3>1. ASSUME NEW w, w = Null \/ w.kind # "null"
          PROVE  normalize_value(w, s) = IF w = Null THEN Null ELSE coerce_number(w)
      BY <1>2, <2>1, <3>1 DEF normalize_value, Null
    <3>2. v # Null /\ Null.kind = "null"
      BY <1>2 DEF Null
    <3>3. normalize_value(v, s) = coerce_number(v)
      BY <1>2, <3>1, <3>2
    <3> DEFINE n == coerce_number(v)
    <3>4. (n = Null \/ n.kind = "num") /\ coerce_number(n) = n
      BY NumbersSettle
    <3> HIDE DEF n
    <3>5. normalize_value(n, s) = n
      BY <3>1, <3>4
    <3> QED
      BY <1>2, <2>1, <3>3, <3>4, <3>5 DEF n
  <2>2. CASE schema_type(s) = "boolean"
    <3>1. ASSUME NEW w, w = Null \/ w.kind # "null"
          PROVE  normalize_value(w, s) = IF w = Null THEN Null ELSE coerce_bool(w)
      BY <1>2, <2>2, <3>1 DEF normalize_value, Null
    <3>2. v # Null /\ Null.kind = "null"
      BY <1>2 DEF Null
    <3>3. normalize_value(v, s) = coerce_bool(v)
      BY <1>2, <3>1, <3>2
    <3> DEFINE n == coerce_bool(v)
    <3>4. (n = Null \/ n.kind = "bool") /\ coerce_bool(n) = n
      BY FlagsSettle
    <3> HIDE DEF n
    <3>5. normalize_value(n, s) = n
      BY <3>1, <3>4
    <3> QED
      BY <1>2, <2>2, <3>3, <3>4, <3>5 DEF n
  <2>3. CASE schema_type(s) \notin {"number", "integer", "boolean"}
    <3>1. normalize_value(v, s) = v
      BY <1>2, <2>3 DEF normalize_value
    <3> QED
      BY <2>3, <3>1
  <2> QED
    BY <2>1, <2>2, <2>3
<1> QED
  BY <1>1, <1>2 DEF IsArray

\* A container has its parts normalized.
LEMMA KeptNormal ==
  ASSUME NEW v \in Values, NEW s \in Schemas, IsKept(v, s)
  PROVE  /\ normalize_value(v, s) = Dict(normalize_object(v.fields, s))
         /\ IsKept(normalize_value(v, s), s) /\ normalize_value(v, s) # Null
<1>1. v.kind = "dict" /\ IsSchema(s) /\ IsObject(s)
  BY DEF IsKept
<1>2. normalize_value(v, s) = Dict(normalize_object(v.fields, s))
  BY <1>1 DEF normalize_value
<1> QED
  BY <1>1, <1>2 DEF IsKept, Dict, Null

LEMMA LineNormal ==
  ASSUME NEW v \in Values, NEW s \in Schemas, IsLine(v, s)
  PROVE  LET n == normalize_value(v, s)
         IN  /\ n = List([i \in DOMAIN v.items |-> normalize_value(v.items[i], s.items)])
             /\ IsLine(n, s) /\ n # Null /\ DOMAIN n.items = DOMAIN v.items
             /\ \A i \in DOMAIN v.items : n.items[i] = normalize_value(v.items[i], s.items)
<1>1. v.kind = "list" /\ IsSchema(s) /\ ~IsObject(s) /\ "items" \in DOMAIN s /\ IsSchema(s.items)
  BY DEF IsLine
<1>2. normalize_value(v, s) = List([i \in DOMAIN v.items |-> NormalizeValue(v.items[i], s.items)])
  BY <1>1 DEF normalize_value, IsArray
<1>3. s.items \in Schemas
  BY <1>1, SchemaFacts
<1>4. ASSUME NEW i \in DOMAIN v.items
      PROVE  NormalizeValue(v.items[i], s.items) = normalize_value(v.items[i], s.items)
  <2>1. v.items[i] \in Values
    BY <1>1, ValueFacts
  <2> QED
    BY <1>3, <2>1, NormalFacts
<1>5. normalize_value(v, s) = List([i \in DOMAIN v.items |-> normalize_value(v.items[i], s.items)])
  BY <1>2, <1>4
<1> QED
  BY <1>1, <1>5 DEF IsLine, List, Null


LEMMA DefaultIs ==
  ASSUME NEW s \in Schemas
  PROVE  LET d == default_value(s)
         IN  \/ d = Null /\ ~(IsSchema(s) /\ wants_false_default(s))
             \/ d = Bool(FALSE) /\ IsSchema(s) /\ wants_false_default(s)
             \/ /\ IsSchema(s) /\ IsObject(s) /\ DOMAIN Properties(s) # {} /\ ~wants_false_default(s)
                /\ d = Dict([k \in DOMAIN Properties(s) |-> default_value(s.properties[k])])
<1>1. CASE IsSchema(s) /\ ~wants_false_default(s) /\ IsObject(s) /\ DOMAIN Properties(s) # {}
  <2>1. Properties(s) = s.properties
    BY <1>1, EmptySeq DEF Properties
  <2>2. \A k \in DOMAIN Properties(s) : DefaultValue(s.properties[k]) = default_value(s.properties[k])
    BY SchemaFacts
  <2>3. default_value(s) = Dict([k \in DOMAIN Properties(s) |-> DefaultValue(s.properties[k])])
    BY <1>1, <2>1 DEF default_value
  <2> QED
    BY <1>1, <2>2, <2>3
<1>2. CASE IsSchema(s) /\ wants_false_default(s)
  BY <1>2 DEF default_value
<1>3. CASE ~IsSchema(s) \/ (~wants_false_default(s) /\ ~(IsObject(s) /\ DOMAIN Properties(s) # {}))
  BY <1>3 DEF default_value
<1> QED
  BY <1>1, <1>2, <1>3

\* A default is what the schema asks for.
LEMMA DefaultSettled ==
  ASSUME NEW schema \in Schemas
  PROVE  Filled(default_value(schema), schema) = default_value(schema)
<1> DEFINE T == {n \in Nat : \A s \in Schemas : SchemaDepth(s) = n =>
                               Filled(default_value(s), s) = default_value(s)}
<1>1. ASSUME NEW n \in Nat, \A k \in Nat : k < n => k \in T PROVE n \in T
  <2> SUFFICES ASSUME NEW s \in Schemas, SchemaDepth(s) = n
               PROVE  Filled(default_value(s), s) = default_value(s)
    OBVIOUS
  <2> DEFINE d == default_value(s)
  <2>1. d \in Values
    BY SchemaFacts
  <2>2. ASSUME NEW k \in DOMAIN Properties(s)
        PROVE  Filled(default_value(s.properties[k]), s.properties[k]) = default_value(s.properties[k])
    <3>1. /\ s.properties[k] \in Schemas /\ SchemaDepth(s.properties[k]) \in Nat
          /\ SchemaDepth(s.properties[k]) < n
      BY SchemaFacts
    <3>2. SchemaDepth(s.properties[k]) \in T
      BY <1>1, <3>1
    <3> QED
      BY <3>1, <3>2
  <2>3. CASE d = Null
    BY <2>3 DEF Filled
  <2>4. CASE d = Bool(FALSE) /\ IsSchema(s) /\ wants_false_default(s)
    <3>1. Bool(FALSE).kind = "bool" /\ Null.kind = "null"
      BY DEF Bool, Null
    <3>2. d # Null /\ schema_type(s) = "boolean"
      BY <2>4, <3>1 DEF wants_false_default
    <3>3. coerce_bool(d) = d
      BY <2>4, <3>1 DEF coerce_bool
    <3>4. normalize_value(d, s) = d
      <4> HIDE DEF d
      <4> QED
        BY <2>4, <3>1, <3>2, <3>3 DEF normalize_value
    <3> QED
      BY <3>2, <3>4 DEF Filled
  <2>5. CASE /\ IsSchema(s) /\ IsObject(s) /\ DOMAIN Properties(s) # {}
             /\ d = Dict([k \in DOMAIN Properties(s) |-> default_value(s.properties[k])])
    <3> DEFINE f == [k \in DOMAIN Properties(s) |-> default_value(s.properties[k])]
    <3>1. d.kind = "dict" /\ d.fields = f /\ d # Null
      BY <2>5 DEF Dict, Null
    <3> HIDE DEF d
    <3>2. IsKept(d, s)
      BY <2>5, <3>1 DEF IsKept
    <3>3. \A k : Get(f, k) \in Values
      BY <2>1, <3>1, ValueFacts
    <3>4. normalize_object(f, s) = [k \in DOMAIN Properties(s) |-> Filled(Get(f, k), s.properties[k])]
      <4> HIDE DEF f
      <4> QED
        BY <2>5, <3>3, ObjectFilled
    <3>5. ASSUME NEW k \in DOMAIN Properties(s)
          PROVE  Filled(Get(f, k), s.properties[k]) = default_value(s.properties[k])
      <4>1. Get(f, k) = default_value(s.properties[k])
        BY DEF Get
      <4> QED
        BY <2>2, <4>1
    <3>6. normalize_object(f, s) = f
      BY <3>4, <3>5
    <3>7. normalize_value(d, s) = Dict(f)
      <4> HIDE DEF f
      <4> QED
        BY <2>1, <3>1, <3>2, <3>6, KeptNormal
    <3> QED
      BY <2>5, <3>1, <3>7 DEF Filled, d
  <2> QED
    BY <2>3, <2>4, <2>5, DefaultIs
<1>2. T = Nat
  <2> HIDE DEF T
  <2>1. T \subseteq Nat
    BY DEF T
  <2> QED
    BY <1>1, <2>1, StrongInduction
<1>3. SchemaDepth(schema) \in Nat
  BY SchemaFacts
<1>4. SchemaDepth(schema) \in T
  BY <1>2, <1>3
<1> QED
  BY <1>4

\* Nothing that is there is gone the second time.
LEMMA NotGoneAgain ==
  ASSUME NEW v \in Values, NEW s \in Schemas, normalize_value(v, s) # Null
  PROVE  normalize_value(normalize_value(v, s), s) # Null
<1>1. CASE IsKept(v, s)
  BY <1>1, KeptNormal, NormalFacts
<1>2. CASE IsLine(v, s)
  BY <1>2, LineNormal, NormalFacts
<1>3. CASE ~IsKept(v, s) /\ ~IsLine(v, s)
  BY <1>3, LeafSettles
<1> QED
  BY <1>1, <1>2, <1>3

\* A third time changes nothing where it changes no value.
LEMMA FilledSettles ==
  ASSUME NEW v \in Values, NEW s \in Schemas,
         \A w \in Values : LET a == normalize_value(w, s)
                               b == normalize_value(a, s) IN normalize_value(b, s) = b
  PROVE  LET a == Filled(v, s)
             b == Filled(a, s)
         IN  Filled(b, s) = b
<1> DEFINE d == default_value(s)
           a == normalize_value(v, s)
           b == normalize_value(a, s)
<1>1. Filled(d, s) = d /\ Filled(Null, s) = d
  BY DefaultSettled DEF Filled
<1>2. normalize_value(b, s) = b
  OBVIOUS
<1>3. a # Null => b # Null
  BY NotGoneAgain
<1> HIDE DEF a, b, d
<1>4. CASE v = Null
  BY <1>1, <1>4
<1>5. CASE v # Null /\ a = Null
  <2>1. Filled(v, s) = Null
    BY <1>5 DEF Filled, a
  <2> QED
    BY <1>1, <2>1
<1>6. CASE v # Null /\ a # Null
  <2>1. Filled(v, s) = a /\ Filled(a, s) = b
    BY <1>6 DEF Filled, a, b
  <2>2. Filled(b, s) = b
    BY <1>2, <1>3, <1>6 DEF Filled
  <2> QED
    BY <2>1, <2>2
<1> QED
  BY <1>4, <1>5, <1>6


\* Normalizing twice settles a value: a third time changes nothing.
LEMMA ValuesSettle ==
  ASSUME NEW value \in Values, NEW schema \in Schemas
  PROVE  LET a == normalize_value(value, schema)
             b == normalize_value(a, schema)
         IN  normalize_value(b, schema) = b
<1> DEFINE Twice(v, s) == normalize_value(normalize_value(v, s), s)
           T == {n \in Nat : \A s \in Schemas : SchemaDepth(s) = n =>
                               \A v \in Values : normalize_value(Twice(v, s), s) = Twice(v, s)}
<1>1. ASSUME NEW n \in Nat, \A k \in Nat : k < n => k \in T PROVE n \in T
  <2> SUFFICES ASSUME NEW s \in Schemas, SchemaDepth(s) = n, NEW v \in Values
               PROVE  normalize_value(Twice(v, s), s) = Twice(v, s)
    OBVIOUS
  <2> DEFINE a == normalize_value(v, s)
             b == normalize_value(a, s)
             c == normalize_value(b, s)
  <2>1. ASSUME NEW p \in Schemas, SchemaDepth(p) < n
        PROVE  \A w \in Values : normalize_value(Twice(w, p), p) = Twice(w, p)
    <3>1. SchemaDepth(p) \in Nat
      BY SchemaFacts
    <3>2. SchemaDepth(p) \in T
      BY <1>1, <2>1, <3>1
    <3> QED
      BY <3>2
  <2>2. a \in Values /\ b \in Values
    BY NormalFacts
  <2>3. CASE ~IsKept(v, s) /\ ~IsLine(v, s)
    <3>1. b = a
      BY <2>3, LeafSettles
    <3> HIDE DEF a, b
    <3>2. c = b
      BY <3>1 DEF b
    <3> QED
      BY <3>2 DEF a, b
  <2>4. CASE IsKept(v, s)
    <3>1. /\ a = Dict(normalize_object(v.fields, s)) /\ IsKept(a, s)
          /\ b = Dict(normalize_object(a.fields, s)) /\ IsKept(b, s)
          /\ c = Dict(normalize_object(b.fields, s))
      <4>1. a = Dict(normalize_object(v.fields, s)) /\ IsKept(a, s)
        BY <2>4, KeptNormal
      <4> HIDE DEF a
      <4>2. b = Dict(normalize_object(a.fields, s)) /\ IsKept(b, s)
        BY <2>2, <4>1, KeptNormal DEF b
      <4> HIDE DEF b
      <4>3. c = Dict(normalize_object(b.fields, s))
        BY <2>2, <4>2, KeptNormal
      <4> QED
        BY <4>1, <4>2, <4>3
    <3> HIDE DEF a, b, c
    <3>2. /\ a.fields = normalize_object(v.fields, s)
          /\ b.fields = normalize_object(a.fields, s)
      BY <3>1 DEF Dict
    <3>3. CASE DOMAIN Properties(s) = {}
      BY <3>1, <3>2, <3>3 DEF normalize_object, a, b, c
    <3>4. CASE DOMAIN Properties(s) # {}
      <4>1. /\ \A k : Get(v.fields, k) \in Values
            /\ \A k : Get(a.fields, k) \in Values
            /\ \A k : Get(b.fields, k) \in Values
        BY <2>2, <2>4, <3>1, ValueFacts DEF IsKept
      <4>2. \A k \in DOMAIN Properties(s) : Get(a.fields, k) = Filled(Get(v.fields, k), s.properties[k])
        BY <3>2, <3>4, <4>1, ObjectFilled
      <4>3. /\ b.fields = [k \in DOMAIN Properties(s) |-> Filled(Get(a.fields, k), s.properties[k])]
            /\ \A k \in DOMAIN Properties(s) : /\ Get(b.fields, k) = b.fields[k]
                                               /\ b.fields[k] = Filled(Get(a.fields, k), s.properties[k])
        BY <3>2, <3>4, <4>1, ObjectFilled
      <4>4. normalize_object(b.fields, s) =
              [k \in DOMAIN Properties(s) |-> Filled(Get(b.fields, k), s.properties[k])]
        BY <3>4, <4>1, ObjectFilled
      <4>5. ASSUME NEW k \in DOMAIN Properties(s)
            PROVE  Filled(Get(b.fields, k), s.properties[k]) = Filled(Get(a.fields, k), s.properties[k])
        <5>1. s.properties[k] \in Schemas /\ SchemaDepth(s.properties[k]) < n
          BY SchemaFacts
        <5>2. Get(v.fields, k) \in Values
          BY <4>1
        <5> QED
          BY <2>1, <4>2, <4>3, <5>1, <5>2, FilledSettles
      <4>6. normalize_object(b.fields, s) = b.fields
        BY <4>3, <4>4, <4>5
      <4>7. c = b
        BY <3>1, <3>2, <4>6
      <4> QED
        BY <4>7 DEF a, b, c
    <3> QED
      BY <3>3, <3>4
  <2>5. CASE IsLine(v, s)
    <3> DEFINE p == s.items
    <3>1. /\ IsLine(a, s) /\ DOMAIN a.items = DOMAIN v.items
          /\ \A i \in DOMAIN v.items : a.items[i] = normalize_value(v.items[i], p)
      BY <2>5, LineNormal
    <3> HIDE DEF a
    <3>2. /\ b = List([i \in DOMAIN a.items |-> normalize_value(a.items[i], p)])
          /\ IsLine(b, s) /\ DOMAIN b.items = DOMAIN a.items
          /\ \A i \in DOMAIN a.items : b.items[i] = normalize_value(a.items[i], p)
      BY <2>2, <3>1, LineNormal
    <3> HIDE DEF b
    <3>3. c = List([i \in DOMAIN b.items |-> normalize_value(b.items[i], p)])
      BY <2>2, <3>2, LineNormal
    <3>4. p \in Schemas /\ SchemaDepth(p) < n
      BY <2>5, SchemaFacts DEF IsLine
    <3>5. ASSUME NEW i \in DOMAIN b.items
          PROVE  normalize_value(b.items[i], p) = normalize_value(a.items[i], p)
      <4>1. v.items[i] \in Values
        BY <2>5, <3>1, <3>2, ValueFacts DEF IsLine
      <4>2. b.items[i] = Twice(v.items[i], p)
        BY <3>1, <3>2
      <4> HIDE DEF p
      <4>3. normalize_value(Twice(v.items[i], p), p) = Twice(v.items[i], p)
        BY <2>1, <3>4, <4>1
      <4> QED
        BY <3>2, <4>2, <4>3
    <3> HIDE DEF p, c
    <3>6. c = b
      BY <3>2, <3>3, <3>5
    <3> QED
      BY <3>6 DEF a, b, c
  <2> QED
    BY <2>3, <2>4, <2>5
<1>2. T = Nat
  <2> HIDE DEF T
  <2>1. T \subseteq Nat
    BY DEF T
  <2> QED
    BY <1>1, <2>1, StrongInduction
<1>3. SchemaDepth(schema) \in Nat
  BY SchemaFacts
<1>4. SchemaDepth(schema) \in T
  BY <1>2, <1>3
<1> QED
  BY <1>4

----------------------------------------------------------------------------
(* The parts of an answer.                                                 *)

\* A value and what normalizing it again makes of it.
Repeated(p) ==
  /\ p.schema \in Schemas
  /\ \E v \in Values :
       \/ /\ p.once = normalize_value(v, p.schema)
          /\ p.again = normalize_value(p.once, p.schema)
       \/ p.once = Filled(v, p.schema) /\ p.again = Filled(p.once, p.schema)

\* What a property filled anew is.
LEMMA RepeatedIs ==
  ASSUME NEW p, Repeated(p)
  PROVE  LET s == p.schema
         IN  /\ p.once \in Values /\ s \in Schemas
             /\ \/ \E v \in Values : /\ p.once = normalize_value(v, s)
                                     /\ p.again = normalize_value(p.once, s)
                \/ p.once = default_value(s) /\ p.again = p.once
                \/ \E v \in Values : /\ v # Null /\ p.once = Null
                                     /\ normalize_value(v, s) = Null /\ p.again = default_value(s)
<1> DEFINE s == p.schema
           a == p.once
<1>1. s \in Schemas
  BY DEF Repeated
<1>2. CASE \E v \in Values : a = normalize_value(v, s) /\ p.again = normalize_value(a, s)
  BY <1>1, <1>2, NormalFacts
<1>3. ASSUME NEW v \in Values, a = Filled(v, s), p.again = Filled(a, s)
      PROVE  /\ a \in Values
             /\ \/ \E w \in Values : a = normalize_value(w, s) /\ p.again = normalize_value(a, s)
                \/ a = default_value(s) /\ p.again = a
                \/ \E w \in Values : /\ w # Null /\ a = Null
                                     /\ normalize_value(w, s) = Null /\ p.again = default_value(s)
  <2> HIDE DEF a, s
  <2>1. a \in Values
    BY <1>1, <1>3, FilledIsValue
  <2>2. CASE v = Null
    <3>1. a = default_value(s)
      BY <1>3, <2>2 DEF Filled
    <3>2. Filled(a, s) = a
      BY <1>1, <3>1, DefaultSettled
    <3> QED
      BY <1>3, <2>1, <3>1, <3>2
  <2>3. CASE v # Null
    <3>1. a = normalize_value(v, s)
      BY <1>3, <2>3 DEF Filled
    <3>2. p.again = IF a = Null THEN default_value(s) ELSE normalize_value(a, s)
      BY <1>3 DEF Filled
    <3> QED
      BY <2>1, <2>3, <3>1, <3>2
  <2> QED
    BY <2>2, <2>3
<1> HIDE DEF a
<1> QED
  BY <1>1, <1>2, <1>3 DEF Repeated, a


LEMMA NormalFollows ==
  ASSUME NEW v \in Values, NEW s \in Schemas
  PROVE  Follows(normalize_value(v, s), s)
<1> DEFINE n == normalize_value(v, s)
<1>1. CASE IsKept(v, s)
  <2>1. n = Dict(normalize_object(v.fields, s)) /\ IsObject(s)
    BY <1>1, KeptNormal DEF IsKept
  <2>2. CASE DOMAIN Properties(s) = {}
    BY <2>1, <2>2 DEF Follows
  <2>3. CASE DOMAIN Properties(s) # {}
    <3>1. \A k : Get(v.fields, k) \in Values
      BY <1>1, ValueFacts DEF IsKept
    <3>2. DOMAIN normalize_object(v.fields, s) = DOMAIN Properties(s)
      BY <2>3, <3>1, ObjectFilled
    <3>3. Properties(s) = s.properties
      BY <2>3, EmptySeq DEF Properties
    <3>4. n.fields = normalize_object(v.fields, s)
      BY <2>1 DEF Dict
    <3> QED
      BY <2>1, <3>2, <3>3, <3>4 DEF Follows
  <2> QED
    BY <2>2, <2>3
<1>2. CASE IsLine(v, s)
  BY <1>2 DEF IsLine, IsArray, Follows
<1>3. CASE ~IsKept(v, s) /\ ~IsLine(v, s)
  <2>1. /\ n # v => IsSchema(s) /\ ~IsObject(s) /\ ~IsArray(s)
        /\ IsSchema(s) /\ ~IsObject(s) /\ ~IsArray(s) /\ n # Null =>
             /\ schema_type(s) \in {"number", "integer"} => n.kind = "num"
             /\ schema_type(s) = "boolean" => n.kind = "bool"
    BY <1>3, LeafSettles
  <2>2. IsSchema(s) /\ IsObject(s) => n.kind # "dict"
    BY <1>3, <2>1 DEF IsKept
  <2> HIDE DEF n
  <2>3. Follows(n, s)
    BY <2>1, <2>2 DEF Follows
  <2> QED
    BY <2>3 DEF n
<1> QED
  BY <1>1, <1>2, <1>3

LEMMA DefaultFollows == ASSUME NEW s \in Schemas PROVE Follows(default_value(s), s)
<1> DEFINE d == default_value(s)
<1>1. CASE d = Null
  BY <1>1 DEF Follows
<1>2. CASE d = Bool(FALSE) /\ wants_false_default(s)
  <2>1. d.kind = "bool" /\ schema_type(s) = "boolean"
    BY <1>2 DEF Bool, wants_false_default
  <2> HIDE DEF d
  <2>2. Follows(d, s)
    BY <2>1 DEF Follows
  <2> QED
    BY <2>2 DEF d
<1>3. CASE /\ IsObject(s) /\ DOMAIN Properties(s) # {}
           /\ d = Dict([k \in DOMAIN Properties(s) |-> default_value(s.properties[k])])
  <2>1. DOMAIN d.fields = DOMAIN Properties(s) /\ Properties(s) = s.properties
    BY <1>3, EmptySeq DEF Dict, Properties
  <2> HIDE DEF d
  <2>2. Follows(d, s)
    BY <1>3, <2>1 DEF Follows
  <2> QED
    BY <2>2 DEF d
<1> QED
  BY <1>1, <1>2, <1>3, DefaultIs

LEMMA RepeatedFollows == ASSUME NEW p, Repeated(p) PROVE Follows(p.once, p.schema)
<1>1. CASE p.once = Null
  BY <1>1 DEF Follows
<1> QED
  BY <1>1, RepeatedIs, NormalFollows, DefaultFollows

LEMMA RepeatedSettles == ASSUME NEW p, Repeated(p) PROVE Settles(p)
<1> DEFINE s == p.schema
           a == p.once
           b == p.again
<1>1. s \in Schemas /\ a \in Values
  BY RepeatedIs
<1>2. CASE b = a
  BY <1>2 DEF Settles
<1>3. ASSUME NEW v \in Values, v # Null, a = Null, normalize_value(v, s) = Null, b = default_value(s)
      PROVE  Settles(p)
  <2>1. IsSchema(s) /\ ~IsObject(s)
    <3>1. ~IsKept(v, s) /\ ~IsLine(v, s)
      BY <1>1, <1>3, KeptNormal, LineNormal
    <3> HIDE DEF a, b, s
    <3> QED
      BY <1>1, <1>3, <3>1, LeafSettles
  <2>2. b = Null \/ (b = Bool(FALSE) /\ wants_false_default(s))
    <3> HIDE DEF a, b, s
    <3>1. default_value(s) = Null \/ (default_value(s) = Bool(FALSE) /\ wants_false_default(s))
      BY <1>1, <2>1, DefaultIs
    <3> QED
      BY <1>3, <3>1
  <2> QED
    BY <1>3, <2>1, <2>2 DEF Settles
<1>4. ASSUME NEW v \in Values, a = normalize_value(v, s), b = normalize_value(a, s)
      PROVE  Settles(p)
  <2>1. CASE IsKept(a, s)
    <3>1. b = Dict(normalize_object(a.fields, s)) /\ IsKept(b, s)
      <4> HIDE DEF a, s, b
      <4> QED
        BY <1>1, <1>4, <2>1, KeptNormal
    <3>2. IsSchema(s) /\ IsObject(s) /\ a.kind = "dict" /\ b.kind = "dict"
      BY <2>1, <3>1 DEF IsKept
    <3>3. CASE DOMAIN Properties(s) = {}
      <4>1. b = Dict(a.fields)
        BY <3>1, <3>3 DEF normalize_object
      <4>2. IsKept(v, s)
        <5> HIDE DEF a, b, s
        <5> QED
          BY <1>1, <1>4, <3>2, LeafSettles DEF IsKept, IsLine
      <4>3. a = Dict(normalize_object(v.fields, s))
        BY <1>1, <1>4, <4>2, KeptNormal
      <4>4. b = a
        BY <4>1, <4>3 DEF Dict
      <4> QED
        BY <1>2, <4>4
    <3>4. CASE DOMAIN Properties(s) # {}
      <4>1. DOMAIN a.fields = DOMAIN s.properties
        <5>1. Follows(a, s)
          BY RepeatedFollows
        <5>2. a # Null
          BY <3>2 DEF Null
        <5> QED
          BY <3>2, <3>4, <5>1, <5>2 DEF Follows
      <4>2. DOMAIN b.fields = DOMAIN s.properties
        <5>1. \A k : Get(a.fields, k) \in Values
          BY <1>1, <3>2, ValueFacts
        <5>2. DOMAIN normalize_object(a.fields, s) = DOMAIN Properties(s)
          BY <1>1, <3>4, <5>1, ObjectFilled
        <5>3. Properties(s) = s.properties
          BY <3>4, EmptySeq DEF Properties
        <5>4. b.fields = normalize_object(a.fields, s)
          BY <3>1 DEF Dict
        <5> QED
          BY <5>2, <5>3, <5>4
      <4>3. {a.kind, b.kind} = {"dict"}
        BY <3>2
      <4> QED
        BY <3>2, <3>4, <4>1, <4>2, <4>3 DEF Settles
    <3> QED
      BY <3>3, <3>4
  <2>2. CASE IsLine(a, s)
    <3>1. IsLine(b, s) /\ DOMAIN b.items = DOMAIN a.items
      <4> HIDE DEF a, b, s
      <4> QED
        BY <1>1, <1>4, <2>2, LineNormal
    <3>2. {a.kind, b.kind} = {"list"}
      BY <2>2, <3>1 DEF IsLine
    <3>3. IsSchema(s) /\ ~IsObject(s) /\ "items" \in DOMAIN s
      BY <2>2 DEF IsLine
    <3> QED
      BY <3>1, <3>2, <3>3 DEF Settles
  <2>3. CASE ~IsKept(a, s) /\ ~IsLine(a, s)
    <3>1. ~IsKept(v, s) /\ ~IsLine(v, s)
      BY <1>1, <1>4, <2>3, KeptNormal, LineNormal
    <3>2. b = a
      BY <1>1, <1>4, <3>1, LeafSettles
    <3> QED
      BY <1>2, <3>2
  <2> QED
    BY <2>1, <2>2, <2>3
<1> QED
  BY <1>2, <1>3, <1>4, RepeatedIs


\* The parts of a value that was normalized again were themselves.
LEMMA RepeatedParts == ASSUME NEW p, Repeated(p), NEW q \in Parts(p) PROVE Repeated(q)
<1> DEFINE s == p.schema
           a == p.once
           b == p.again
           Pair(v, w, t) == [once |-> v, again |-> w, schema |-> t]
<1>1. s \in Schemas /\ a \in Values
  BY RepeatedIs
<1>2. CASE {a.kind, b.kind} = {"dict"} /\ IsSchema(s) /\ IsObject(s)
  <2>1. PICK k \in DOMAIN Properties(s) :
          q = Pair(Get(a.fields, k), Get(b.fields, k), s.properties[k])
    BY <1>2 DEF Parts
  <2> DEFINE t == s.properties[k]
  <2>2. /\ q.once = Get(a.fields, k) /\ q.again = Get(b.fields, k) /\ q.schema = t
        /\ t \in Schemas
    BY <1>1, <2>1, SchemaFacts
  <2>3. a.kind = "dict" /\ b.kind = "dict" /\ Null.kind = "null" /\ Bool(FALSE).kind = "bool"
    BY <1>2 DEF Null, Bool
  <2>4. IsKept(a, s) /\ \A j : Get(a.fields, j) \in Values
    BY <1>1, <1>2, <2>3, ValueFacts DEF IsKept
  <2>5. normalize_value(a, s) = Dict(normalize_object(a.fields, s))
    BY <1>1, <2>4, KeptNormal
  <2>6. b = normalize_value(a, s)
    <3>1. b # Null /\ a # Null
      BY <2>3
    <3>2. CASE a = default_value(s) /\ b = a
      <4>1. Filled(a, s) = a
        <5> HIDE DEF a, b, s
        <5> QED
          BY <1>1, <3>2, DefaultSettled
      <4> QED
        BY <3>1, <3>2, <4>1 DEF Filled
    <3> QED
      BY <3>1, <3>2, RepeatedIs
  <2>7. Get(b.fields, k) = Filled(Get(a.fields, k), t)
    <3>1. b.fields = normalize_object(a.fields, s)
      BY <2>5, <2>6 DEF Dict
    <3> HIDE DEF a, b, s, t
    <3>2. \A j \in DOMAIN Properties(s) :
            Get(normalize_object(a.fields, s), j) = Filled(Get(a.fields, j), s.properties[j])
      BY <1>1, <2>1, <2>4, ObjectFilled
    <3> QED
      BY <3>1, <3>2 DEF t
  <2>8. \E v \in Values : Get(a.fields, k) = Filled(v, t)
    <3>1. CASE a = default_value(s)
      <4>1. a = Dict([j \in DOMAIN Properties(s) |-> default_value(s.properties[j])])
        <5> HIDE DEF a, s
        <5> QED
          BY <1>1, <2>3, <3>1, DefaultIs
      <4>2. Get(a.fields, k) = default_value(t)
        BY <4>1 DEF Get, Dict
      <4>3. Get(a.fields, k) = Filled(Null, t) /\ Null \in Values
        BY <4>2, ValuesAssumption DEF Filled
      <4> QED
        BY <4>3
    <3>2. ASSUME NEW v \in Values, a = normalize_value(v, s)
          PROVE  \E w \in Values : Get(a.fields, k) = Filled(w, t)
      <4>1. IsKept(v, s)
        <5> HIDE DEF a, s
        <5> QED
          BY <1>1, <1>2, <2>3, <3>2, LeafSettles DEF IsKept, IsLine
      <4>2. a = Dict(normalize_object(v.fields, s)) /\ \A j : Get(v.fields, j) \in Values
        BY <1>1, <3>2, <4>1, KeptNormal, ValueFacts DEF IsKept
      <4>3. a.fields = normalize_object(v.fields, s)
        BY <4>2 DEF Dict
      <4> HIDE DEF a, s, t
      <4>4. \A j \in DOMAIN Properties(s) :
              Get(normalize_object(v.fields, s), j) = Filled(Get(v.fields, j), s.properties[j])
        BY <1>1, <2>1, <4>2, ObjectFilled
      <4>5. Get(a.fields, k) = Filled(Get(v.fields, k), t) /\ Get(v.fields, k) \in Values
        BY <4>2, <4>3, <4>4 DEF t
      <4> QED
        BY <4>5
    <3>3. a # Null
      BY <2>3
    <3> QED
      BY <3>1, <3>2, <3>3, RepeatedIs
  <2> QED
    BY <2>2, <2>7, <2>8 DEF Repeated
<1>3. CASE /\ {a.kind, b.kind} = {"list"} /\ IsSchema(s) /\ ~IsObject(s)
           /\ "items" \in DOMAIN s
  <2>1. PICK i \in DOMAIN a.items \cap DOMAIN b.items : q = Pair(a.items[i], b.items[i], s.items)
    BY <1>3 DEF Parts
  <2> DEFINE t == s.items
  <2>2. /\ q.once = a.items[i] /\ q.again = b.items[i] /\ q.schema = t
        /\ t \in Schemas /\ a.items[i] \in Values
    BY <1>1, <1>3, <2>1, SchemaFacts, ValueFacts
  <2>3. /\ a.kind = "list" /\ b.kind = "list" /\ Null.kind = "null" /\ Bool(FALSE).kind = "bool"
        /\ a # Null /\ ~IsKept(a, s)
    BY <1>3 DEF Null, Bool, IsKept
  <2>4. a # default_value(s)
    <3> HIDE DEF a, s
    <3> QED
      BY <1>1, <1>3, <2>3, DefaultIs
  <2>5. PICK v \in Values : a = normalize_value(v, s) /\ b = normalize_value(a, s)
    BY <2>3, <2>4, RepeatedIs
  <2>6. CASE IsSchema(t)
    <3>1. IsLine(a, s) /\ IsLine(v, s)
      <4>1. IsLine(a, s)
        BY <1>3, <2>3, <2>6 DEF IsLine
      <4>2. ~IsKept(v, s)
        BY <1>1, <2>3, <2>5, KeptNormal
      <4>3. ~IsLine(v, s) => a = v
        <5> HIDE DEF a, s
        <5> QED
          BY <1>1, <1>3, <2>5, <4>2, LeafSettles DEF IsArray
      <4> QED
        BY <4>1, <4>3
    <3>2. b.items[i] = normalize_value(a.items[i], t)
      <4> HIDE DEF a, b, s
      <4> QED
        BY <1>1, <2>1, <2>5, <3>1, LineNormal DEF t
    <3>3. a.items[i] = normalize_value(v.items[i], t) /\ v.items[i] \in Values
      <4>1. DOMAIN a.items = DOMAIN v.items /\ v.kind = "list"
        <5> HIDE DEF a, b, s
        <5> QED
          BY <1>1, <2>5, <3>1, LineNormal DEF IsLine
      <4> HIDE DEF a, b, s
      <4> QED
        BY <1>1, <2>1, <2>5, <3>1, <4>1, LineNormal, ValueFacts DEF t
    <3> QED
      BY <2>2, <3>2, <3>3 DEF Repeated
  <2>7. CASE ~IsSchema(t)
    <3>1. b = a
      <4> HIDE DEF a, b, s
      <4> QED
        BY <1>1, <1>3, <2>3, <2>5, <2>7, LeafSettles DEF IsLine, IsArray, t
    <3>2. normalize_value(a.items[i], t) = a.items[i]
      BY <2>7 DEF normalize_value
    <3> QED
      BY <2>2, <3>1, <3>2 DEF Repeated
  <2> QED
    BY <2>6, <2>7
<1> QED
  BY <1>2, <1>3 DEF Parts


Fields(once, again, schema) ==
  {[once |-> once[k], again |-> again[k], schema |-> schema.properties[k]] :
     k \in DOMAIN Properties(schema)}

\* The parts, level by level.
IsLevels(fields, n, h) ==
  h = [m \in 0..n |-> IF m = 0 THEN fields ELSE UNION {Parts(p) : p \in h[m - 1]}]

LEMMA LevelsExist == ASSUME NEW fields, NEW m \in Nat PROVE \E h : IsLevels(fields, m, h)
<1> DEFINE T == {n \in Nat : \E h : IsLevels(fields, n, h)}
<1>1. 0 \in T
  <2> DEFINE h == [k \in 0..0 |-> fields]
  <2>1. h = [k \in 0..0 |-> IF k = 0 THEN fields ELSE UNION {Parts(p) : p \in h[k - 1]}]
    OBVIOUS
  <2> QED
    BY <2>1, Zenon DEF IsLevels
<1>2. ASSUME NEW n \in T PROVE n + 1 \in T
  <2>1. PICK h : IsLevels(fields, n, h)
    OBVIOUS
  <2> DEFINE next == UNION {Parts(p) : p \in h[n]}
             g == [k \in 0..(n + 1) |-> IF k = n + 1 THEN next ELSE h[k]]
             G(f, k) == IF k = 0 THEN fields ELSE UNION {Parts(p) : p \in f[k - 1]}
  <2>2. ASSUME NEW k \in 0..(n + 1) PROVE g[k] = G(g, k)
    <3>1. CASE k = n + 1
      <4>1. k - 1 = n /\ n \in 0..(n + 1) /\ n # n + 1 /\ k # 0
        BY <3>1
      <4>2. g[k] = next /\ g[k - 1] = h[n]
        BY <3>1, <4>1
      <4> HIDE DEF g
      <4> QED
        BY <4>1, <4>2
    <3>2. CASE k # n + 1
      <4>1. k \in 0..n /\ (k # 0 => k - 1 \in 0..(n + 1) /\ k - 1 # n + 1)
        BY <3>2
      <4>2. h[k] = G(h, k)
        BY <2>1, <4>1 DEF IsLevels
      <4>3. g[k] = h[k] /\ (k # 0 => g[k - 1] = h[k - 1])
        BY <3>2, <4>1
      <4> HIDE DEF g
      <4> QED
        BY <4>2, <4>3
    <3> QED
      BY <3>1, <3>2
  <2>3. g = [k \in 0..(n + 1) |-> g[k]]
    OBVIOUS
  <2> HIDE DEF g
  <2>4. g = [k \in 0..(n + 1) |-> G(g, k)]
    BY <2>2, <2>3
  <2>5. IsLevels(fields, n + 1, g)
    BY <2>4 DEF IsLevels
  <2>6. n + 1 \in Nat
    OBVIOUS
  <2> QED
    BY <2>5, <2>6
<1>3. T \subseteq Nat
  OBVIOUS
<1> HIDE DEF T
<1>4. T = Nat
  BY <1>1, <1>2, <1>3, NaturalInduction
<1> QED
  BY <1>4 DEF T

LEMMA AllPartsAre ==
  ASSUME NEW once, NEW again, NEW schema
  PROVE  LET level == CHOOSE h : IsLevels(Fields(once, again, schema), SchemaDepth(schema), h)
         IN  AllParts(once, again, schema) = UNION {level[n] : n \in DOMAIN level}
BY DEF AllParts, IsLevels, Fields

LEMMA AllPartsRepeated ==
  ASSUME NEW once, NEW again, NEW schema \in Schemas,
         \A p \in Fields(once, again, schema) : Repeated(p)
  PROVE  \A q \in AllParts(once, again, schema) : Repeated(q)
<1> DEFINE fields == Fields(once, again, schema)
           depth == SchemaDepth(schema)
           level == CHOOSE h : IsLevels(fields, depth, h)
           T == {n \in Nat : n <= depth => \A q \in level[n] : Repeated(q)}
<1>1. depth \in Nat
  BY SchemaFacts
<1>2. AllParts(once, again, schema) = UNION {level[n] : n \in DOMAIN level}
  BY AllPartsAre
<1>3. IsLevels(fields, depth, level)
  <2> HIDE DEF fields, depth
  <2> QED
    BY <1>1, LevelsExist
<1> HIDE DEF level
<1>4. /\ DOMAIN level = 0..depth
      /\ level[0] = fields
  BY <1>1, <1>3 DEF IsLevels
<1>5. 0 \in T
  BY <1>4
<1>6. ASSUME NEW n \in T PROVE n + 1 \in T
  <2>1. SUFFICES ASSUME n + 1 <= depth, NEW q \in level[n + 1] PROVE Repeated(q)
    OBVIOUS
  <2>2. n \in Nat /\ n + 1 \in 0..depth /\ n + 1 # 0 /\ (n + 1) - 1 = n /\ n <= depth
    BY <1>1, <2>1
  <2>3. level[n + 1] = UNION {Parts(p) : p \in level[n]}
    BY <1>3, <2>2 DEF IsLevels
  <2>4. PICK p \in level[n] : q \in Parts(p)
    BY <2>1, <2>3
  <2>5. Repeated(p)
    BY <2>2
  <2> QED
    BY <2>4, <2>5, RepeatedParts
<1>7. T = Nat
  <2> HIDE DEF T
  <2>1. T \subseteq Nat
    BY DEF T
  <2> QED
    BY <1>5, <1>6, <2>1, NaturalInduction
<1>8. ASSUME NEW n \in 0..depth PROVE \A q \in level[n] : Repeated(q)
  <2>1. n \in Nat /\ n <= depth
    BY <1>1
  <2>2. n \in T
    BY <1>7, <2>1
  <2> QED
    BY <2>1, <2>2
<1> QED
  BY <1>2, <1>4, <1>8


LEMMA OutputIs ==
  ASSUME NEW fields, NEW s \in Schemas
  PROVE  normalize_output(Dict(fields), s) =
           IF DOMAIN Properties(s) = {} THEN fields ELSE normalize_object(fields, s)
<1>1. Dict(fields).kind = "dict" /\ Dict(fields).fields = fields
  BY DEF Dict
<1>2. IsSchema(s) \/ DOMAIN Properties(s) = {}
  BY SchemaFacts, NotASchema
<1> QED
  BY <1>1, <1>2 DEF normalize_output, normalize_object

\* What normalizing once, twice and three times makes of an answer.
LEMMA AnswerNormal ==
  ASSUME NEW raw, NEW schema \in Schemas, \A k : Get(raw, k) \in Values
  PROVE  LET keys == DOMAIN Properties(schema)
             once == normalize_output(Dict(raw), schema)
             again == normalize_output(Dict(once), schema)
         IN  /\ IF keys = {} THEN once = raw ELSE DOMAIN once = keys
             /\ \A p \in AllParts(once, again, schema) : Follows(p.once, p.schema) /\ Settles(p)
             /\ normalize_output(Dict(again), schema) = again
             /\ \A k \in keys :
                  LET s == schema.properties[k]
                  IN  IsSchema(s) /\ wants_false_default(s) /\ Get(raw, k) = Null
                        => once[k] = Bool(FALSE)
<1> DEFINE keys == DOMAIN Properties(schema)
           once == normalize_output(Dict(raw), schema)
           again == normalize_output(Dict(once), schema)
           third == normalize_output(Dict(again), schema)
<1>1. CASE keys = {}
  <2>1. once = raw /\ again = once /\ third = again
    BY <1>1, OutputIs
  <2>2. Fields(once, again, schema) = {}
    BY <1>1 DEF Fields
  <2> HIDE DEF once, again, third
  <2>3. \A q \in AllParts(once, again, schema) : Repeated(q)
    BY <2>2, AllPartsRepeated
  <2>4. \A p \in AllParts(once, again, schema) : Follows(p.once, p.schema) /\ Settles(p)
    BY <2>3, RepeatedFollows, RepeatedSettles
  <2> QED
    BY <1>1, <2>1, <2>4 DEF once, again, third
<1>2. CASE keys # {}
  <2>1. /\ once = normalize_object(raw, schema)
        /\ again = normalize_object(once, schema)
        /\ third = normalize_object(again, schema)
    BY <1>2, OutputIs
  <2> HIDE DEF once, again, third
  <2>2. /\ DOMAIN once = keys
        /\ \A k \in keys : /\ once[k] = Filled(Get(raw, k), schema.properties[k])
                           /\ Get(once, k) = once[k]
    BY <1>2, <2>1, ObjectFilled
  <2>3. \A k : Get(once, k) \in Values
    <3>1. ASSUME NEW k \in keys PROVE Get(once, k) \in Values
      <4>1. schema.properties[k] \in Schemas
        BY SchemaFacts
      <4> QED
        BY <2>2, <4>1, FilledIsValue
    <3> QED
      BY <2>2, <3>1, ValuesAssumption DEF Get
  <2>4. /\ again = [k \in keys |-> Filled(Get(once, k), schema.properties[k])]
        /\ DOMAIN again = keys
        /\ \A k \in keys : /\ again[k] = Filled(Get(once, k), schema.properties[k])
                           /\ Get(again, k) = again[k]
    BY <1>2, <2>1, <2>3, ObjectFilled
  <2>5. \A k : Get(again, k) \in Values
    <3>1. ASSUME NEW k \in keys PROVE Get(again, k) \in Values
      <4>1. schema.properties[k] \in Schemas
        BY SchemaFacts
      <4> QED
        BY <2>3, <2>4, <4>1, FilledIsValue
    <3> QED
      BY <2>4, <3>1, ValuesAssumption DEF Get
  <2>6. third = [k \in keys |-> Filled(Get(again, k), schema.properties[k])]
    BY <1>2, <2>1, <2>5, ObjectFilled
  <2>7. ASSUME NEW k \in keys
        PROVE  Filled(Get(again, k), schema.properties[k]) = Filled(Get(once, k), schema.properties[k])
    <3> DEFINE p == schema.properties[k]
               v == Get(raw, k)
    <3>1. p \in Schemas /\ v \in Values
      BY SchemaFacts
    <3>2. \A w \in Values : LET a == normalize_value(w, p)
                                b == normalize_value(a, p) IN normalize_value(b, p) = b
      BY <3>1, ValuesSettle
    <3>3. Get(once, k) = Filled(v, p) /\ Get(again, k) = Filled(Filled(v, p), p)
      BY <2>2, <2>4
    <3> HIDE DEF p, v
    <3>4. Filled(Filled(Filled(v, p), p), p) = Filled(Filled(v, p), p)
      BY <3>1, <3>2, FilledSettles
    <3> QED
      BY <3>3, <3>4 DEF p
  <2>8. third = again
    BY <2>4, <2>6, <2>7
  <2>9. ASSUME NEW p \in Fields(once, again, schema) PROVE Repeated(p)
    <3>1. PICK k \in keys : p = [once |-> once[k], again |-> again[k], schema |-> schema.properties[k]]
      BY DEF Fields
    <3>2. /\ p.once = Filled(Get(raw, k), p.schema) /\ p.again = Filled(p.once, p.schema)
          /\ p.schema \in Schemas
      BY <2>2, <2>4, <3>1, SchemaFacts
    <3> QED
      BY <3>2 DEF Repeated
  <2>10. \A p \in AllParts(once, again, schema) : Follows(p.once, p.schema) /\ Settles(p)
    BY <2>9, AllPartsRepeated, RepeatedFollows, RepeatedSettles
  <2>11. ASSUME NEW k \in keys, IsSchema(schema.properties[k]),
                wants_false_default(schema.properties[k]), Get(raw, k) = Null
         PROVE  once[k] = Bool(FALSE)
    <3>1. default_value(schema.properties[k]) = Bool(FALSE)
      BY <2>11 DEF default_value
    <3> QED
      BY <2>2, <2>11, <3>1 DEF Filled
  <2> QED
    BY <1>2, <2>2, <2>8, <2>10, <2>11 DEF once, again, third
<1> QED
  BY <1>1, <1>2

----------------------------------------------------------------------------
(* The theorems.  An outcome stands beside the input it was computed from, *)
(* so the invariant needs no more than that it is that input's score.      *)

\* The input is one of those the constants give.
Given ==
  \/ \E r \in CallBatches : input = [kind |-> "latency", results |-> r]
  \/ \E a \in Submissions : input = [kind |-> "triage", answers |-> a]
  \/ \E d \in Documents : input = [kind |-> "document", raw |-> d.raw, schema |-> d.schema]
  \/ \E g \in Plans : \E p \in Orders(g) : input = [kind |-> "plan", gold |-> g, order |-> p]
  \/ \E g \in TemplateGolds : \E c \in TracesFor(g) :
       input = [kind |-> "template", gold |-> g, calls |-> c]

ScoreFor(calls, gold) == score_task(Respond(calls, gold), gold)

\* The outcome is the score of the input.
OutcomeInv ==
  /\ Given
  /\ Scored("triage") => outcome.resolution = triage_resolution(input.answers, GoldSignals)
  /\ Scored("latency") => /\ outcome.p50 = latency_p50_ms(input.results)
                          /\ outcome.p95 = latency_p95_ms(input.results)
  /\ Scored("document") => outcome.output = normalize_output(Dict(input.raw), input.schema)
  /\ Scored("plan") => /\ outcome.moved = Graded(Reordered(input.gold, input.order), input.gold)
                       /\ outcome.planned = Graded(input.gold.steps, input.gold)
  /\ Scored("template") =>
       /\ outcome.asserted = ScoreFor(input.calls, input.gold)
       /\ outcome.by_template = ScoreFor(input.calls, [input.gold EXCEPT !.assertions = <<>>])

LEMMA OutcomeInvariant == Spec => []OutcomeInv
<1>1. Init => OutcomeInv
  <2>1. Init => Given
    BY DEF Init, Given
  <2> QED
    BY <2>1 DEF Init, OutcomeInv, Scored
<1>2. OutcomeInv /\ [Next]_vars => OutcomeInv'
  <2> SUFFICES ASSUME OutcomeInv, [Next]_vars PROVE OutcomeInv'
    OBVIOUS
  <2>1. CASE ScoreTriage
    <3>1. /\ input.kind = "triage" /\ input' = input
          /\ outcome' = [resolution |-> triage_resolution(input.answers, GoldSignals)]
      BY <2>1 DEF ScoreTriage, Evaluate
    <3> QED
      BY <3>1 DEF OutcomeInv, Given, Scored
  <2>2. CASE Measure
    <3>1. input.kind = "latency" /\ input' = input
      BY <2>2 DEF Measure, Evaluate
    <3>2. /\ outcome'.p50 = latency_p50_ms(input.results)
          /\ outcome'.p95 = latency_p95_ms(input.results)
      BY <2>2 DEF Measure, Evaluate
    <3> QED
      BY <3>1, <3>2 DEF OutcomeInv, Given, Scored
  <2>3. CASE ScorePlan
    <3>1. input.kind = "plan" /\ input' = input
      BY <2>3 DEF ScorePlan, Evaluate
    <3>2. /\ outcome'.moved = Graded(Reordered(input.gold, input.order), input.gold)
          /\ outcome'.planned = Graded(input.gold.steps, input.gold)
      BY <2>3 DEF ScorePlan, Evaluate
    <3> QED
      BY <3>1, <3>2 DEF OutcomeInv, Given, Scored
  <2>4. CASE ScoreTemplate
    <3>1. input.kind = "template" /\ input' = input
      BY <2>4 DEF ScoreTemplate, Evaluate
    <3>2. /\ outcome'.asserted = ScoreFor(input.calls, input.gold)
          /\ outcome'.by_template = ScoreFor(input.calls, [input.gold EXCEPT !.assertions = <<>>])
      BY <2>4 DEF ScoreTemplate, Evaluate, ScoreFor
    <3> QED
      BY <3>1, <3>2 DEF OutcomeInv, Given, Scored
  <2>5. CASE NormalizeDocument
    <3>1. /\ input.kind = "document" /\ input' = input
          /\ outcome' = [output |-> normalize_output(Dict(input.raw), input.schema)]
      BY <2>5 DEF NormalizeDocument, Evaluate
    <3> QED
      BY <3>1 DEF OutcomeInv, Given, Scored
  <2>6. CASE UNCHANGED vars
    BY <2>6 DEF vars, OutcomeInv, Given, Scored
  <2> QED
    BY <2>1, <2>2, <2>3, <2>4, <2>5, <2>6 DEF Next
<1> QED
  BY <1>1, <1>2, PTL DEF Spec

\* What is scored is a submission or a batch the constants give.
LEMMA InputFacts ==
  ASSUME OutcomeInv
  PROVE  /\ input.kind = "triage" => WellFormed(input.answers)
         /\ input.kind = "latency" =>
              /\ IsFiniteSet(DOMAIN input.results)
              /\ \A i \in DOMAIN input.results : input.results[i].ms \in Int
         /\ input.kind = "plan" => input.gold \in Plans /\ input.order \in Orders(input.gold)
         /\ input.kind = "template" =>
              input.gold \in TemplateGolds /\ input.calls \in TracesFor(input.gold)
         /\ input.kind = "document" =>
              input.schema \in Schemas /\ \A k : Get(input.raw, k) \in Values
<1>1. CASE input.kind = "triage"
  <2>1. input.answers \in Submissions
    BY <1>1 DEF OutcomeInv, Given
  <2> QED
    BY <1>1, <2>1, ScoringAssumption DEF WellFormed
<1>2. CASE input.kind = "latency"
  <2> DEFINE results == input.results
  <2>1. results \in CallBatches
    BY <1>2 DEF OutcomeInv, Given
  <2> HIDE DEF results
  <2>2. results \in Seq(ToSet(results)) /\ \A i \in DOMAIN results : results[i].ms \in Nat
    BY <2>1, ScoringAssumption
  <2>3. IsFiniteSet(DOMAIN results)
    BY <2>2, LenProperties, FS_Interval
  <2> QED
    BY <1>2, <2>2, <2>3 DEF results
<1>3. CASE input.kind = "plan"
  BY <1>3 DEF OutcomeInv, Given
<1>4. CASE input.kind = "template"
  BY <1>4 DEF OutcomeInv, Given
<1>5. CASE input.kind = "document"
  <2>1. PICK d \in Documents : input = [kind |-> "document", raw |-> d.raw, schema |-> d.schema]
    BY <1>5 DEF OutcomeInv, Given
  <2>2. d.schema \in Schemas /\ \A k \in DOMAIN d.raw : d.raw[k] \in Values
    BY DocumentsAssumption
  <2>3. \A k : Get(d.raw, k) \in Values
    BY <2>2, ValuesAssumption DEF Get
  <2> QED
    BY <1>5, <2>1, <2>2, <2>3
<1> QED
  BY <1>1, <1>2, <1>3, <1>4, <1>5

(* Whatever a submission says, putting the right answer to one ticket      *)
(* before it never lowers score_submission's resolution, and with all the  *)
(* right answers before it the resolution is One: the macro F1, the binary *)
(* F1 and both means are each monotone in the tickets put right, though    *)
(* the classes averaged over change with the answers.                      *)
THEOREM CorrectingHelps == Spec => []CorrectingNeverHurts
<1>1. OutcomeInv => CorrectingNeverHurts
  <2> SUFFICES ASSUME OutcomeInv, Scored("triage") PROVE CorrectingNeverHurts
    BY DEF CorrectingNeverHurts
  <2> DEFINE answers == input.answers
  <2>1. outcome.resolution = triage_resolution(answers, GoldSignals)
    BY DEF OutcomeInv
  <2>2. WellFormed(answers)
    BY InputFacts DEF Scored
  <2> HIDE DEF answers
  <2>3. ASSUME NEW i \in Signals
        PROVE  triage_resolution(<<GoldSignals[i]>> \o answers, GoldSignals) >= outcome.resolution
    <3> DEFINE after == <<GoldSignals[i]>> \o answers
    <3>1. WellFormed(after) /\ Improves(answers, after)
      BY <2>2, OneRight
    <3> HIDE DEF after
    <3>2. triage_resolution(answers, GoldSignals) <= triage_resolution(after, GoldSignals)
      BY <2>2, <3>1, ResolutionImproves
    <3> QED
      BY <2>1, <3>2 DEF after
  <2>4. triage_resolution(GoldSignals \o answers, GoldSignals) = One
    BY <2>2, AllRight, ResolutionRight
  <2> QED
    BY <2>3, <2>4 DEF CorrectingNeverHurts, Signals, answers
<1> QED
  BY <1>1, OutcomeInvariant, PTL

(* However many calls a task made, the percentiles _trimmed_percentile     *)
(* takes out of the latencies, after the same number of values was cut off *)
(* either end, still have the ranks their names promise.                   *)
THEOREM PercentilesInRank == Spec => []PercentileRanks
<1>1. OutcomeInv => PercentileRanks
  <2> SUFFICES ASSUME OutcomeInv, Scored("latency") PROVE PercentileRanks
    BY DEF PercentileRanks
  <2> DEFINE values == Latencies(input.results)
             n == Cardinality(DOMAIN values)
             p50 == trimmed_percentile(values, 50)
             p95 == trimmed_percentile(values, 95)
  <2>1. outcome.p50 = p50 /\ outcome.p95 = p95
    BY DEF OutcomeInv, latency_p50_ms, latency_p95_ms
  <2>2. IsFiniteSet(DOMAIN values) /\ \A i \in DOMAIN values : values[i] \in Int
    BY InputFacts, PercentileInt DEF Scored
  <2> SUFFICES IF n = 0 THEN p50 = 0 /\ p95 = 0
               ELSE /\ {p50, p95} \subseteq ToSet(values)
                    /\ 2 * UpTo(values, p50) >= n
                    /\ 2 * From(values, p50) >= n
                    /\ 10 * UpTo(values, p95) >= 9 * n
                    /\ n >= 20 => From(values, p95) >= 2
    BY <2>1 DEF PercentileRanks, UpTo, From
  <2> HIDE DEF values
  <2>3. CASE DOMAIN values = {}
    <3>1. n = 0
      BY <2>3, FS_EmptySet
    <3>2. p50 = 0 /\ p95 = 0
      BY <2>3 DEF trimmed_percentile
    <3> QED
      BY <3>1, <3>2
  <2>4. CASE DOMAIN values # {}
    <3>1. /\ n \in Nat \ {0} /\ p50 \in ToSet(values) /\ p95 \in ToSet(values)
          /\ 2 * UpTo(values, p50) >= n /\ 2 * From(values, p50) >= n
          /\ 10 * UpTo(values, p95) >= 9 * n
          /\ n >= 20 => From(values, p95) >= 2
      BY <2>2, <2>4, PercentilesRanked
    <3> HIDE DEF n, p50, p95
    <3> QED
      BY <3>1
  <2> QED
    BY <2>3, <2>4
<1> QED
  BY <1>1, OutcomeInvariant, PTL

(* For any trace at all, score_goal_completion gives what a gold's         *)
(* assertions say and what _score_template_goal_checks says the same       *)
(* marks, unless the latter raises, which it does exactly at a renewal     *)
(* quote whose variables are no object: the checks count what the          *)
(* assertions have counted, down to the plan inside the variables.         *)
THEOREM TemplatesGiveTheSame == Spec => []TemplatesAgree
<1>1. OutcomeInv => TemplatesAgree
  <2> SUFFICES ASSUME OutcomeInv, Scored("template") PROVE TemplatesAgree
    BY DEF TemplatesAgree
  <2> DEFINE gold == input.gold
             calls == input.calls
             bare == [gold EXCEPT !.assertions = <<>>]
             completed == Reads(Str(<<Plain("completed")>>), "completed")
             raises == gold.template = "contract_renewal" /\ \E i \in DOMAIN calls : Unreadable(calls[i])
  <2>1. gold \in TemplateGolds /\ calls \in TracesFor(gold)
    BY InputFacts DEF Scored
  <2>2. outcome.asserted = ScoreFor(calls, gold) /\ outcome.by_template = ScoreFor(calls, bare)
    BY DEF OutcomeInv
  <2>3. completed
    BY PlainText DEF Reads, Str, StrOf
  <2> SUFFICES IF raises THEN ScoreFor(calls, bare) = Raised /\ ScoreFor(calls, gold) # Raised
               ELSE ScoreFor(calls, gold).goal_completion = ScoreFor(calls, bare).goal_completion
    BY <2>2 DEF TemplatesAgree
  <2> HIDE DEF gold, calls
  <2>4. goal_raises(calls, bare, completed) <=> raises
    BY <2>1, <2>3, BareRaises
  <2>5. ~goal_raises(calls, gold, completed)
    BY <2>1, AssertedNeverRaises
  <2>6. score_goal_completion(calls, gold, completed) = score_goal_completion(calls, bare, completed)
    BY <2>1, GoalsAgree
  <2> HIDE DEF bare, raises
  <2>7. /\ ScoreFor(calls, gold) # Raised
        /\ ScoreFor(calls, gold).goal_completion = score_goal_completion(calls, gold, completed)
    BY <2>5, ScoreIs DEF ScoreFor
  <2>8. CASE raises
    BY <2>4, <2>7, <2>8, ScoreIs DEF ScoreFor
  <2>9. CASE ~raises
    <3>1. ScoreFor(calls, bare).goal_completion = score_goal_completion(calls, bare, completed)
      BY <2>4, <2>9, ScoreIs DEF ScoreFor
    <3> QED
      BY <2>6, <2>7, <2>9, <3>1
  <2> QED
    BY <2>8, <2>9
<1> QED
  BY <1>1, OutcomeInvariant, PTL

(* Reordering a plan costs no more than the dependencies it breaks: its    *)
(* calls are recognised whatever the order, for all plans whose steps can  *)
(* be told apart.                                                          *)
THEOREM ReorderingIsRecognised == Spec => []ReorderingCostsOnlyDependencies
<1>1. OutcomeInv => ReorderingCostsOnlyDependencies
  <2> SUFFICES ASSUME OutcomeInv, Scored("plan") PROVE ReorderingCostsOnlyDependencies
    BY DEF ReorderingCostsOnlyDependencies
  <2> DEFINE gold == input.gold
             order == input.order
  <2>1. gold \in Plans /\ order \in Orders(gold)
    BY InputFacts DEF Scored
  <2>2. /\ outcome.moved = Graded(Reordered(gold, order), gold)
        /\ outcome.planned = Graded(gold.steps, gold)
    BY DEF OutcomeInv
  <2> DEFINE moved == outcome.moved.dimension
             planned == outcome.planned.dimension
             checked == \/ DOMAIN About(gold, "goal_completion") # {}
                        \/ template_goal(gold.steps, gold) # <<>>
             ends == Tool(Last(Reordered(gold, order))) = Tool(Last(gold.steps))
  <2>3. /\ moved.tool_selection = One
        /\ moved.parameter_accuracy = One
        /\ moved.constraint_compliance = planned.constraint_compliance
        /\ moved.ordering_correctness = One <=> Kept(gold, order)
        /\ (checked \/ ends) /\ Kept(gold, order) => outcome.moved.resolution = outcome.planned.resolution
        /\ ~checked => 100 * (moved.goal_completion + 1) > 80 * One
    <3> HIDE DEF gold, order
    <3> QED
      BY <2>1, <2>2, OrderCosts
  <2> QED
    BY <2>3 DEF ReorderingCostsOnlyDependencies, Kept, Position
<1> QED
  BY <1>1, OutcomeInvariant, PTL

(* What normalize_output gives the scorer follows the schema at every      *)
(* depth; another pass only settles checkboxes, a third changes nothing:   *)
(* for all schemas, whatever the model returned.                           *)
THEOREM NormalizingSettles == Spec => []NormalizedConforms
<1>1. OutcomeInv => NormalizedConforms
  <2> SUFFICES ASSUME OutcomeInv, Scored("document") PROVE NormalizedConforms
    BY DEF NormalizedConforms
  <2> DEFINE raw == input.raw
             schema == input.schema
  <2>1. schema \in Schemas /\ \A k : Get(raw, k) \in Values
    BY InputFacts DEF Scored
  <2>2. outcome.output = normalize_output(Dict(raw), schema)
    BY DEF OutcomeInv
  <2>3. LET keys == DOMAIN Properties(schema)
            once == normalize_output(Dict(raw), schema)
            again == normalize_output(Dict(once), schema)
        IN  /\ IF keys = {} THEN once = raw ELSE DOMAIN once = keys
            /\ \A p \in AllParts(once, again, schema) : Follows(p.once, p.schema) /\ Settles(p)
            /\ normalize_output(Dict(again), schema) = again
            /\ \A k \in keys :
                 LET s == schema.properties[k]
                 IN  IsSchema(s) /\ wants_false_default(s) /\ Get(raw, k) = Null
                       => once[k] = Bool(FALSE)
    <3> HIDE DEF raw, schema
    <3> QED
      BY <2>1, AnswerNormal
  <2> QED
    BY <2>2, <2>3 DEF NormalizedConforms
<1> QED
  BY <1>1, OutcomeInvariant, PTL

=============================================================================
