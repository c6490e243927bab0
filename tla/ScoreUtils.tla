----------------------------- MODULE ScoreUtils -----------------------------
(***************************************************************************)
(* scorers/_utils.py: the F1 scores all scorers are built from, over texts *)
(* as module Json has them.  A score between 0 and 1 is a whole number of  *)
(* parts of One, rounded down; One is chosen so that small ratios are      *)
(* exact.                                                                  *)
(***************************************************************************)
EXTENDS Integers, Sequences, FiniteSets, SequencesExt, FiniteSetsExt

CONSTANT One  (* the score of a perfect answer *)

ASSUME ScoreAssumption == One \in Nat \ {0}

Frac(n, d) == (n * One) \div d

\* The mean of the values of a function.
MeanOf(scores) == SumFunction(scores) \div Cardinality(DOMAIN scores)

HarmonicMean(a, b) == IF a + b = 0 THEN 0 ELSE (2 * a * b) \div (a + b)

\* Case, outer white space and edge punctuation go, other marks stay.
normalize_text(text) ==
  [i \in DOMAIN text |->
     [text[i] EXCEPT !.form = IF @ \in {"case", "edge"} THEN "plain" ELSE @]]

\* 2pr / (p + r) of p = |both|/|predicted| and r = |both|/|gold|.
set_f1(predicted, gold) ==
  IF predicted = {} /\ gold = {} THEN One
  ELSE Frac(2 * Cardinality(predicted \cap gold),
            Cardinality(predicted) + Cardinality(gold))

token_f1(candidate, gold) ==
  set_f1(ToSet(normalize_text(candidate)), ToSet(normalize_text(gold)))

best_token_f1(candidates, golds) ==
  LET Best(text, among) == Max({token_f1(text, other) : other \in among})
  IN  IF golds = {} /\ candidates = {} THEN One
      ELSE IF golds = {} \/ candidates = {} THEN 0
      ELSE HarmonicMean(MeanOf([c \in candidates |-> Best(c, golds)]),
                        MeanOf([g \in golds |-> Best(g, candidates)]))

\* The F1 of one class, from its hits and its false positives and negatives.
F1(hits, wrong) == Frac(2 * hits, 2 * hits + wrong)

Hits(candidates, golds, label) ==
  Cardinality({i \in DOMAIN golds : candidates[i] = label /\ golds[i] = label})
Wrong(candidates, golds, label) ==
  Cardinality({i \in DOMAIN golds : (candidates[i] = label) # (golds[i] = label)})

\* A class that neither side mentions is left out of the average.
macro_f1(candidates, golds, labels) ==
  LET seen == {l \in labels : l \in ToSet(candidates) \cup ToSet(golds)}
  IN  IF seen = {} THEN 0
      ELSE MeanOf([l \in seen |-> F1(Hits(candidates, golds, l), Wrong(candidates, golds, l))])

binary_f1(candidates, golds) ==
  LET hits == Hits(candidates, golds, TRUE)
      wrong == Wrong(candidates, golds, TRUE)
  IN  IF hits + wrong = 0 THEN One ELSE F1(hits, wrong)

=============================================================================
