---------------------------- MODULE TriageScore ----------------------------
(***************************************************************************)
(* scorers/ticket_triage.py: five dimensions, two of them means over the   *)
(* tickets and three of them F1 scores over the whole submission.          *)
(*                                                                         *)
(* An answer and a gold answer are records of the fields scored, as module *)
(* Json has their values.  A text field left out is an empty text; the     *)
(* list or the flag left out is null.                                      *)
(***************************************************************************)
EXTENDS Json, ScoreUtils

CONSTANTS CATEGORIES,  (* the closed set of categories, normalized *)
          TEAMS        (* the closed set of teams, normalized      *)

WEIGHTS == [category |-> 24, priority |-> 24, routing |-> 24,
            missing_info |-> 17, escalation |-> 11]

\* str() of a field: the empty text when it is left out, "None" when null.
Text(v) == normalize_text(StrOf(v))

\* P1 to P4; only white space and capitals are overlooked.
Level(v) ==
  LET text == StrOf(v)
      named == {p \in 1..4 : Len(text) = 1 /\ text[1].core = <<"p1", "p2", "p3", "p4">>[p]
                             /\ text[1].form \in {"plain", "case"}}
  IN  IF named = {} THEN 0 ELSE CHOOSE p \in named : TRUE

score_priority(candidate, gold) ==
  LET c == Level(candidate)
      g == Level(gold)
  IN  IF c = 0 \/ g = 0 THEN 0
      ELSE IF c = g THEN One
      ELSE IF c - g \in {-1, 1} THEN Frac(67, 100) ELSE 0

\* Anything but a list is as good as an empty one.
Terms(v) == IF v.kind # "list" THEN {}
            ELSE {IF item = Null THEN <<>> ELSE normalize_text(StrOf(item)) :
                    item \in ToSet(v.items)}

score_missing_info(candidate, gold) == set_f1(Terms(candidate), Terms(gold))

coerce_escalation(v) ==
  \/ v.kind = "bool" /\ v.bool
  \/ v.kind = "num" /\ v.num # 0
  \/ /\ v.kind = "str" /\ Len(v.text) = 1
     /\ v.text[1].core \in {"true", "1", "yes"} /\ v.text[1].form \in {"plain", "case"}

\* The last answer with the ticket's id counts.
AnswerLast(candidates, gold) ==
  LET same == {i \in DOMAIN candidates : candidates[i].ticket_id = gold.ticket_id}
  IN  IF same = {} THEN 0 ELSE Max(same)

\* The first answer with the ticket's id counts; 0 when there is none.
Answer(candidates, gold) ==
  LET same == {i \in DOMAIN candidates : candidates[i].ticket_id = gold.ticket_id}
  IN  IF same = {} THEN 0 ELSE Min(same)

(* Each dimension's score.  A ticket without an answer has no category, no *)
(* team and no escalation, and scores 0 on the other two.                  *)
triage_dimensions(candidates, golds) ==
  LET N == DOMAIN golds
      at == [i \in N |-> Answer(candidates, golds[i])]
      Of(Read(_), default) ==
        [i \in N |-> IF at[i] = 0 THEN default ELSE Read(candidates[at[i]])]
      Gold(Read(_)) == [i \in N |-> Read(golds[i])]
      Class(Read(_), labels) == macro_f1(Of(Read, <<>>), Gold(Read), labels)
      Mean(Score(_, _)) ==
        MeanOf([i \in N |-> IF at[i] = 0 THEN 0 ELSE Score(candidates[at[i]], golds[i])])
      Escalates(a) == coerce_escalation(a.needs_escalation)
  IN  [category |-> Class(LAMBDA a : Text(a.category), CATEGORIES),
       priority |-> Mean(LAMBDA a, g : score_priority(a.priority, g.priority)),
       routing |-> Class(LAMBDA a : Text(a.assigned_team), TEAMS),
       missing_info |-> Mean(LAMBDA a, g : score_missing_info(a.missing_information,
                                                              g.missing_information)),
       escalation |-> binary_f1(Of(Escalates, FALSE), Gold(Escalates))]

\* The weighted sum of the dimensions.
Weighted(dimensions, weights) ==
  SumFunction([d \in DOMAIN weights |-> weights[d] * dimensions[d]]) \div 100

triage_resolution(candidates, golds) ==
  Weighted(triage_dimensions(candidates, golds), WEIGHTS)

=============================================================================
