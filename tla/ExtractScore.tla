---------------------------- MODULE ExtractScore ----------------------------
(***************************************************************************)
(* scorers/document_extraction.py: a recursive comparison of two JSON      *)
(* values that yields a pair, information accuracy and text fidelity.      *)
(***************************************************************************)
EXTENDS Json, ScoreUtils

CONSTANT Unscored  (* the keys of a gold document that are not scored *)

WEIGHT_INFORMATION == 70
WEIGHT_FIDELITY    == 30

\* Marks that do not change the meaning go, and words that were only marks.
normalize_for_information(text) ==
  LET light == normalize_text(text)
  IN  SelectSeq([i \in DOMAIN light |-> Plain(light[i].core)], LAMBDA w : w.core # "")

Both(score) == <<score, score>>
Hit(condition) == IF condition THEN One ELSE 0

\* Within one percent of the gold number, or both 0.
score_number(predicted, gold) ==
  LET number == Float(predicted)
  IN  Hit(/\ number # <<>>
          /\ LET off == number[1] - gold
             IN  IF gold = 0 THEN number[1] = 0
                 ELSE 100 * (IF off < 0 THEN -off ELSE off) < (IF gold < 0 THEN -gold ELSE gold))

score_text(predicted, gold) ==
  <<token_f1(normalize_for_information(predicted), normalize_for_information(gold)),
    Hit(normalize_text(predicted) = normalize_text(gold))>>

AllStrings(items) == \A i \in DOMAIN items : items[i].kind = "str"
Texts(items) == {items[i].text : i \in DOMAIN items}

score_texts(predicted, gold) ==
  <<best_token_f1({normalize_for_information(t) : t \in Texts(predicted)},
                  {normalize_for_information(t) : t \in Texts(gold)}),
    set_f1({normalize_text(t) : t \in Texts(predicted)},
           {normalize_text(t) : t \in Texts(gold)})>>

Combined(score) == WEIGHT_INFORMATION * score[1] + WEIGHT_FIDELITY * score[2]

RECURSIVE score_value(_, _), score_list(_, _), score_fields(_, _)

score_value(predicted, gold) ==
  CASE gold.kind = "null" \/ predicted.kind = "null" ->
         Both(Hit(gold.kind = predicted.kind))
    [] gold.kind = "str" -> score_text(StrOf(predicted), gold.text)
    [] gold.kind = "num" -> Both(score_number(predicted, gold.num))
    [] gold.kind = "bool" ->
         Both(Hit(predicted.kind \in {"bool", "num"} /\ Float(predicted) = Float(gold)))
    [] gold.kind = "list" ->
         score_list(IF predicted.kind = "list" THEN predicted.items ELSE <<>>, gold.items)
    [] gold.kind = "dict" ->
         score_fields(IF predicted.kind = "dict" THEN predicted.fields ELSE <<>>, gold.fields)

\* Each item is aligned with the first of its best matches.
score_list(predicted, gold) ==
  LET Best(anchor, others) ==
        LET scores == [i \in DOMAIN others |-> score_value(others[i], anchor)]
        IN  scores[Min({i \in DOMAIN scores : \A j \in DOMAIN scores :
                                Combined(scores[i]) >= Combined(scores[j])})]
      Side(items, others) == [i \in DOMAIN items |-> Best(items[i], others)]
      recall == Side(gold, predicted)
      precision == Side(predicted, gold)
      F1Of(d) == HarmonicMean(MeanOf([i \in DOMAIN precision |-> precision[i][d]]),
                              MeanOf([i \in DOMAIN recall |-> recall[i][d]]))
  IN  IF gold = <<>> \/ predicted = <<>> THEN Both(Hit(gold = predicted))
      ELSE IF AllStrings(gold) /\ AllStrings(predicted) THEN score_texts(predicted, gold)
      ELSE <<F1Of(1), F1Of(2)>>

\* The mean over the gold's fields; what else was predicted is ignored.
score_fields(predicted, gold) ==
  LET keys == DOMAIN gold \ Unscored
      score == [k \in keys |-> score_value(Get(predicted, k), gold[k])]
  IN  IF DOMAIN gold = {} THEN Both(Hit(DOMAIN predicted = {}))
      ELSE IF keys = {} THEN Both(One)
      ELSE <<MeanOf([k \in keys |-> score[k][1]]), MeanOf([k \in keys |-> score[k][2]])>>

\* The first answer with the document's id; a document without one scores 0.
score_documents(candidates, golds) ==
  LET Score(g) ==
        LET same == {i \in DOMAIN candidates :
                       candidates[i]["document_id"] = g["document_id"]}
        IN  IF same = {} THEN Both(0) ELSE score_fields(candidates[Min(same)], g)
      per_document == [i \in DOMAIN golds |-> Score(golds[i])]
      Mean(d) == MeanOf([i \in DOMAIN golds |-> per_document[i][d]])
  IN  [information_accuracy |-> Mean(1), text_fidelity |-> Mean(2),
       resolution |-> (WEIGHT_INFORMATION * Mean(1) + WEIGHT_FIDELITY * Mean(2)) \div 100]

=============================================================================
