------------------------------ MODULE Weights ------------------------------
(***************************************************************************)
(* How a task's measurements become its score: the trimmed percentiles of  *)
(* the caller's latencies, their normalisation against a task's            *)
(* thresholds, the model's price tier, and the weights of the layers.      *)
(* Scores are whole parts of One, rounded down; latencies are whole        *)
(* milliseconds; weights are in percent.                                   *)
(***************************************************************************)
EXTENDS ScoreUtils

CONSTANTS TierScores,  (* price tier, in percent, of each known model prefix *)
          Dates,       (* the pieces of a model's name that are its date     *)
          Dotted       (* "-4" to ".4": version pieces, dashed to dotted     *)

ASSUME TiersAssumption == \A prefix \in DOMAIN TierScores :
                            prefix \in Seq(STRING) /\ TierScores[prefix] \in 0..100

\* Percentages of two or three scores that weigh 100 together.
Blend2(w1, s1, w2, s2) == (w1 * s1 + w2 * s2) \div 100
Blend3(w1, s1, w2, s2, w3, s3) == (w1 * s1 + w2 * s2 + w3 * s3) \div 100

\* A call's outcome: its latency in ms and whether it was answered.
Latencies(results) == [i \in {j \in DOMAIN results : results[j].ok} |-> results[i].ms]

\* The values in ascending order: at k the one with less than k values below
\* it and at least k up to it.
Sorted(values) ==
  LET N == DOMAIN values
  IN  [k \in 1..Cardinality(N) |->
         CHOOSE v \in ToSet(values) : /\ Cardinality({i \in N : values[i] < v}) < k
                                      /\ Cardinality({i \in N : values[i] <= v}) >= k]

DEFAULT_TRIM_PCT == 5
Cut(n) == (n * DEFAULT_TRIM_PCT) \div 100

\* Cutting both tails off the upper end only.
TrimmedOneSided(values) ==
  LET ranked == Sorted(values)
  IN  SubSeq(ranked, 1, Len(ranked) - 2 * Cut(Len(ranked)))

(* The sorted values without the same number at either end.                *)
Trimmed(values) ==
  LET ranked == Sorted(values)
      n == Len(ranked)
  IN  IF 2 * Cut(n) < n THEN SubSeq(ranked, Cut(n) + 1, n - Cut(n)) ELSE ranked

trimmed_percentile(values, percent) ==
  IF DOMAIN values = {} THEN 0
  ELSE LET trimmed == Trimmed(values)
       IN  trimmed[Min({(Len(trimmed) * percent) \div 100 + 1, Len(trimmed)})]

latency_p50_ms(results) == trimmed_percentile(Latencies(results), 50)
latency_p95_ms(results) == trimmed_percentile(Latencies(results), 95)

\* Best and anything below is One, worst and anything above is 0.
normalize_linear(value, best, worst) ==
  IF best = worst THEN (IF value <= best THEN One ELSE 0)
  ELSE Max({0, Min({One, Frac(worst - value, worst - best)})})

\* A task's thresholds: the best and worst p50 and p95.
compute_latency_score(results, task) ==
  Blend2(50, normalize_linear(latency_p50_ms(results), task.best50, task.worst50),
         50, normalize_linear(latency_p95_ms(results), task.best95, task.worst95))

\* The most frequent of the models reported, the first reported on a tie.
primary_model(results) ==
  LET named == {i \in DOMAIN results : results[i].model # <<>>}
      Alike(i) == Cardinality({j \in named : results[j].model = results[i].model})
      top == {i \in named : \A j \in named : Alike(i) >= Alike(j)}
  IN  IF named = {} THEN <<>> ELSE results[Min(top)].model

\* A name is the sequence of its pieces: a date at the end goes, and the
\* first version dash after "gpt-<n>" becomes a dot.
normalize_model_name(name) ==
  LET undated == IF name # <<>> /\ Last(name) \in Dates THEN Front(name) ELSE name
  IN  IF Len(undated) > 1 /\ undated[2] \in DOMAIN Dotted
      THEN [undated EXCEPT ![2] = Dotted[@]] ELSE undated

\* The longest known prefix sets the price; an unknown model earns nothing.
lookup_model_tier_score(name) ==
  LET known == {prefix \in DOMAIN TierScores : IsPrefix(prefix, normalize_model_name(name))}
  IN  IF name = <<>> \/ known = {} THEN 0
      ELSE Frac(TierScores[CHOOSE p \in known : \A q \in known : Len(q) <= Len(p)], 100)

cost_score(results) == lookup_model_tier_score(primary_model(results))

compute_efficiency(latency, cost) == Blend2(60, latency, 40, cost)

api_resilience(probes) ==
  Frac(Cardinality({p \in DOMAIN probes : probes[p]}), Max({Cardinality(DOMAIN probes), 1}))

compute_robustness(adversarial, resilience) == Blend2(60, adversarial, 40, resilience)

compute_tier1(resolution, efficiency, robustness) ==
  Blend3(50, resolution, 20, efficiency, 30, robustness)

\* The mean over the tasks scored; a sequence that must not be empty.
compute_fdebench_composite(tier1s) == MeanOf(tier1s)

=============================================================================
