--------------------------- MODULE WorkflowScore ---------------------------
(***************************************************************************)
(* scorers/workflow_orchestration.py: a trace of tool calls against a gold *)
(* plan, in five dimensions.                                               *)
(*                                                                         *)
(* A call is a record of its tool (a text) and its parameters (values by   *)
(* key); the steps of a plan have "depends_on" as well, a set of the       *)
(* numbers of other steps: a step's number is its place in the plan.       *)
(*                                                                         *)
(* Two operators call themselves on the components of their arguments:     *)
(* the inner call is a constant, whose value is the operator itself.       *)
(***************************************************************************)
EXTENDS Json, ScoreUtils

CONSTANTS ParamMatch(_, _),     (* param_value_match, where it calls itself  *)
          MappingMatches(_, _)  (* mapping_matches, where it calls itself    *)

DIMENSION_WEIGHTS == [goal_completion |-> 20, tool_selection |-> 15, parameter_accuracy |-> 5,
                      ordering_correctness |-> 20, constraint_compliance |-> 40]

Is(condition) == IF condition THEN One ELSE 0
Passing(checks) ==
  IF DOMAIN checks = {} THEN One
  ELSE Frac(Cardinality({i \in DOMAIN checks : checks[i]}), Cardinality(DOMAIN checks))

Tool(call) == normalize_text(call.tool)
IsTool(call, name) == Tool(call) = <<Plain(name)>>
Tally(calls, tool) == Cardinality({i \in DOMAIN calls : Tool(calls[i]) = tool})

\* A value is text that reads as this one word.
Reads(v, word) == v.kind # "null" /\ normalize_text(StrOf(v)) = <<Plain(word)>>

\* The first of the best places, by a score for each; 0 if there is none.
Best(score) ==
  LET best == {i \in DOMAIN score : \A j \in DOMAIN score : score[i] >= score[j]}
  IN  IF best = {} THEN 0 ELSE Min(best)

\* Each n in turn takes the place left to it that is worth most; 0: none is.
InTurn(worth) ==
  LET taken[n \in 0..Len(worth)] ==
        IF n = 0 THEN <<>>
        ELSE LET before == taken[n - 1]
             IN  Append(before, Best([i \in DOMAIN worth[n] \ ToSet(before) |-> worth[n][i]]))
  IN  taken[Len(worth)]

----------------------------------------------------------------------------
\* Gold items are met in turn by the first item left that matches well.
ItemsMet(candidate, gold) ==
  LET Fits(g) == {i \in DOMAIN candidate : 10 * ParamMatch(candidate[i], gold[g]) >= 9 * One}
      met == InTurn([g \in DOMAIN gold |-> [i \in Fits(g) |-> One]])
  IN  Cardinality({g \in DOMAIN gold : met[g] # 0})

param_value_match(candidate, gold) ==
  LET kinds == {candidate.kind, gold.kind}
      c == candidate.fields
      g == gold.fields
  IN CASE "null" \in kinds -> Is(kinds = {"null"})
       [] kinds \subseteq {"num", "bool"} -> Is(Float(candidate) = Float(gold))
       [] kinds = {"dict"} ->
            IF DOMAIN g = {} THEN Is(DOMAIN c = {})
            ELSE MeanOf([k \in DOMAIN g |-> IF k \in DOMAIN c THEN ParamMatch(c[k], g[k]) ELSE 0])
       [] kinds = {"list"} ->
            IF gold.items = <<>> THEN Is(candidate.items = <<>>)
            ELSE Frac(2 * ItemsMet(candidate.items, gold.items),
                      Len(candidate.items) + Len(gold.items))
       [] OTHER -> Is(normalize_text(StrOf(candidate)) = normalize_text(StrOf(gold)))

mapping_matches(candidate, expected) ==
  \A k \in DOMAIN expected :
    IF expected[k].kind = "dict"
    THEN /\ Get(candidate, k).kind = "dict"
         /\ MappingMatches(candidate[k].fields, expected[k].fields)
    ELSE param_value_match(Get(candidate, k), expected[k]) = One

\* The inner calls are those of the operators.
ASSUME RecursionAssumption ==
  \A c, g \in Values :
    /\ ParamMatch(c, g) = param_value_match(c, g)
    /\ c.kind = "dict" /\ g.kind = "dict" =>
         MappingMatches(c.fields, g.fields) = mapping_matches(c.fields, g.fields)

----------------------------------------------------------------------------
\* The parameters an assertion asks for are not looked at.
count_calls_of_tool(calls, tool, match) ==
  Cardinality({i \in DOMAIN calls : tool = <<>> \/ Tool(calls[i]) = normalize_text(tool)})

\* An assertion without a tool or without a match counts all calls.
count_matching_calls(calls, tool, match) ==
  Cardinality({i \in DOMAIN calls : /\ tool = <<>> \/ Tool(calls[i]) = normalize_text(tool)
                                    /\ mapping_matches(calls[i].params, match)})

\* An assertion's bounds are there or not; of unknown checks nothing is asked.
evaluate_outcome_assertions(calls, assertions) ==
  LET known == {i \in DOMAIN assertions : assertions[i].check \in {"call_count", "tool_count"}}
      Count(a) == IF a.check = "tool_count" THEN Len(calls)
                  ELSE count_matching_calls(calls, a.tool, a.match)
      Holds(a) == /\ "equals" \in DOMAIN a => Count(a) = a.equals
                  /\ "min" \in DOMAIN a => Count(a) >= a.min
                  /\ "max" \in DOMAIN a => Count(a) <= a.max
  IN  IF DOMAIN assertions # {} /\ calls = <<>> THEN 0
      ELSE Passing([i \in known |-> Holds(assertions[i])])

\* The gold's assertions on one dimension.
About(gold, dimension) ==
  [i \in {j \in DOMAIN gold.assertions : gold.assertions[j].dimension = dimension}
     |-> gold.assertions[i]]

----------------------------------------------------------------------------
(* Fallbacks for a gold without assertions: checks by template.            *)
Sent(calls, name, key, word) ==
  Cardinality({i \in DOMAIN calls : /\ IsTool(calls[i], name)
                                    /\ Reads(Get(calls[i].params, key), word)})
Number(calls, name) == Tally(calls, <<Plain(name)>>)
Logged(calls, action) == Sent(calls, "audit_log", "action", action) > 0
Planned(gold, name) ==
  Cardinality({i \in DOMAIN gold.steps : gold.steps[i].tool = <<Plain(name)>>})
Amount(gold, key) == IF key \in DOMAIN gold.outcome THEN gold.outcome[key] ELSE 0
Flag(gold, key) == IF key \in DOMAIN gold.outcome /\ gold.outcome[key] THEN 1 ELSE 0

\* Recipients of a kind of call, by the parameter that names them.
Targets(calls, name, key) ==
  {normalize_text(StrOf(calls[i].params[key])) : i \in
     {j \in DOMAIN calls : /\ IsTool(calls[j], name)
                           /\ Get(calls[j].params, key) \notin {Null, Str(<<>>)}}}

\* Notices to someone on a channel.
Told(calls, who, channel) ==
  Cardinality({i \in DOMAIN calls : /\ IsTool(calls[i], "notification_send")
                                    /\ Reads(Get(calls[i].params, "user_id"), who)
                                    /\ Reads(Get(calls[i].params, "channel"), channel)})

(* Quotes for a plan, which stands among the variables of the mail: without *)
(* variables or without plan in them it reads as an empty text.             *)
IsQuote(call) ==
  IsTool(call, "email_send") /\ Reads(Get(call.params, "template"), "renewal_quote")
PlanOf(call) ==
  LET variables == Get(call.params, "variables")
  IN  IF variables.kind = "dict" /\ "plan" \in DOMAIN variables.fields
      THEN normalize_text(StrOf(variables.fields["plan"])) ELSE <<>>
Quoted(calls, plan) ==
  Cardinality({i \in DOMAIN calls : IsQuote(calls[i]) /\ PlanOf(calls[i]) = normalize_text(plan)})

\* Looking for the plan raises where the variables are there and are no object.
Unreadable(call) ==
  /\ IsQuote(call)
  /\ "variables" \in DOMAIN call.params /\ call.params["variables"].kind # "dict"

template_goal(calls, gold) ==
  LET Notified(who) == Sent(calls, "notification_send", "user_id", who)
      Mailed(what) == Sent(calls, "email_send", "template", what)
      sent == Amount(gold, "emails_sent")
      started == Flag(gold, "onboarded")
      met == Flag(gold, "scheduled")
  IN CASE gold.template = "re_engagement_campaign" ->
            <<Number(calls, "subscription_check") >= Planned(gold, "subscription_check"),
              Number(calls, "email_send") = sent, Number(calls, "audit_log") >= sent>>
       [] gold.template = "inventory_restock" ->
            <<Number(calls, "inventory_query") >= Planned(gold, "inventory_query"),
              Number(calls, "notification_send") = Amount(gold, "alerts_sent")>>
       [] gold.template = "onboarding_workflow" ->
            <<Mailed("welcome") = started, Mailed("kickoff_invite") = started,
              Notified("sales_team") = 1 - started,
              Logged(calls, IF started = 1 THEN "onboarding_started" ELSE "onboarding_blocked")>>
       [] gold.template = "churn_risk_analysis" ->
            <<Notified("lead_retention") = Amount(gold, "high_risk"),
              Notified("lead_customer_success") = Amount(gold, "medium_risk"),
              Number(calls, "audit_log") = Amount(gold, "alerts_sent")>>
       [] gold.template = "meeting_scheduler" ->
            <<Mailed("meeting_invite") = met, Number(calls, "notification_send") = 1 - met,
              Logged(calls, IF met = 1 THEN "meeting_scheduled" ELSE "meeting_blocked")>>
       [] gold.template = "incident_response" ->
            <<Number(calls, "inventory_query") >= Amount(gold, "warehouses_affected"),
              Notified("oncall_engineer") = 1,
              Notified("engineering_manager") = Flag(gold, "escalated"),
              Logged(calls, "incident_response")>>
       [] gold.template = "contract_renewal" ->
            <<Quoted(calls, gold.outcome["plan"]) = 1,
              Notified("finance_approver") = Flag(gold, "needs_approval"),
              Logged(calls, "renewal_initiated")>>
       [] OTHER -> <<>>

template_constraints(calls, gold) ==
  LET Notified(who) == Sent(calls, "notification_send", "user_id", who)
      Mailed(what) == Sent(calls, "email_send", "template", what)
      AllSlack == Sent(calls, "notification_send", "channel", "slack")
                    = Number(calls, "notification_send")
      emailed == Targets(calls, "email_send", "account_id")
      sent == Amount(gold, "emails_sent")
      started == Flag(gold, "onboarded")
  IN CASE gold.template = "re_engagement_campaign" ->
            <<emailed \cap {normalize_text(t) : t \in gold.outcome["skipped"]} = {},
              Number(calls, "email_send") <= sent,
              Sent(calls, "audit_log", "action", "email_sent") >= sent>>
       [] gold.template = "inventory_restock" ->
            <<AllSlack, Number(calls, "notification_send") = Amount(gold, "alerts_sent")>>
       [] gold.template = "onboarding_workflow" ->
            <<Notified("sales_team") = 1 - started, Mailed("welcome") = started,
              Number(calls, "audit_log") >= 1>>
       [] gold.template = "churn_risk_analysis" ->
            <<Notified("lead_retention") = Amount(gold, "high_risk"),
              Notified("lead_customer_success") = Amount(gold, "medium_risk")>>
       [] gold.template = "meeting_scheduler" ->
            <<AllSlack, Mailed("meeting_invite") = Flag(gold, "scheduled")>>
       [] gold.template = "incident_response" ->
            <<Told(calls, "oncall_engineer", "sms") = 1,
              Told(calls, "engineering_manager", "slack") = Flag(gold, "escalated")>>
       [] gold.template = "contract_renewal" ->
            <<Notified("finance_approver") = Flag(gold, "needs_approval"),
              Number(calls, "audit_log") >= 1>>
       [] OTHER -> <<>>

\* The tools as written, and as compared.
Named(calls) == [i \in DOMAIN calls |-> calls[i].tool]
Tools(calls) == [i \in DOMAIN calls |-> Tool(calls[i])]

\* How many tools the trace and the plan have in common, with repetitions.
InCommon(tools, planned) ==
  LET Times(list, t) == Cardinality({i \in DOMAIN list : list[i] = t})
  IN  SumFunction([t \in ToSet(planned) |-> Min({Times(tools, t), Times(planned, t)})])

\* A response's status stands for completed when it is left out.
score_goal_completion(calls, gold, completed) ==
  LET assertions == About(gold, "goal_completion")
      checks == template_goal(calls, gold)
      final == Is(Tool(Last(calls)) = Tool(Last(gold.steps)))
  IN  IF calls = <<>> \/ ~completed \/ gold.steps = <<>> THEN 0
      ELSE IF DOMAIN assertions # {} THEN evaluate_outcome_assertions(calls, assertions)
      ELSE IF checks # <<>> THEN Passing(checks)
      ELSE (80 * Frac(InCommon(Named(calls), Named(gold.steps)), Len(gold.steps))
            + 20 * final) \div 100

\* Whether it raises instead: only the checks of a renewal can.
goal_raises(calls, gold, completed) ==
  /\ completed /\ gold.steps # <<>>
  /\ DOMAIN About(gold, "goal_completion") = {} /\ gold.template = "contract_renewal"
  /\ \E i \in DOMAIN calls : Unreadable(calls[i])

(* Substitutes: gold.alternatives lists [step, tool, credit], the credit in *)
(* percent.  A tool's substitutes fill what the trace lacks of the tool,   *)
(* those of the highest credit first, each call of a substitute once; that *)
(* the call may also be in the plan itself is not looked at.               *)
substituted(calls, gold) ==
  LET alt(i) == normalize_text(gold.alternatives[i].tool)
      primary(i) == Tool(gold.steps[gold.alternatives[i].step])
      Pair(i) == <<alt(i), primary(i)>>
      credit(i) == Min({100, Max({0, gold.alternatives[i].credit})})
      Lacking(tool) == Tally(gold.steps, tool) - Tally(calls, tool)
      real == {i \in DOMAIN gold.alternatives : alt(i) # <<>> /\ alt(i) # primary(i)}
      \* A later entry for the same pair of tools replaces an earlier one.
      entries == {i \in real : /\ Lacking(primary(i)) > 0
                               /\ \A j \in real : Pair(j) = Pair(i) => j <= i}
      first(i) == Min({j \in real : alt(j) = alt(i)})
      since(i) == Min({j \in real : Pair(j) = Pair(i)})
      Before(i, j) == \/ first(i) < first(j)
                      \/ first(i) = first(j) /\ credit(i) > credit(j)
                      \/ first(i) = first(j) /\ credit(i) = credit(j) /\ since(i) < since(j)
      fills[i \in entries] ==
        LET of_primary == {j \in entries : Before(j, i) /\ primary(j) = primary(i)}
            of_alt == {j \in entries : Before(j, i) /\ alt(j) = alt(i)}
        IN  Min({Lacking(primary(i)) - SumFunction([j \in of_primary |-> fills[j]]),
                 Tally(calls, alt(i)) - SumFunction([j \in of_alt |-> fills[j]])})
  IN  SumFunction([i \in entries |-> credit(i) * fills[i]])

\* F1 of the multisets of tools; a gold lists expected tools if it has steps.
score_tool_selection(calls, gold) ==
  IF calls = <<>> \/ gold.steps = <<>> THEN 0
  ELSE Frac(2 * (100 * InCommon(Tools(calls), Tools(gold.steps)) + substituted(calls, gold)),
            100 * (Len(calls) + Len(gold.steps)))

\* All the plan's parameters count, and all the call's that the plan lacks.
CallMatch(call, step) ==
  LET gold == DOMAIN step.params
      sent == DOMAIN call.params
  IN  IF gold = {} THEN Is(sent = {})
      ELSE SumFunction([k \in gold |-> param_value_match(Get(call.params, k), step.params[k])])
             \div Cardinality(gold \cup sent)

\* Only the plan's parameters count.
StepMatch(call, step) ==
  IF DOMAIN step.params = {} THEN One
  ELSE MeanOf([k \in DOMAIN step.params |->
                 param_value_match(Get(call.params, k), step.params[k])])

\* Each call in turn takes the step of its tool that it matches best, if at all.
score_parameter_accuracy(calls, gold) ==
  LET steps == gold.steps
      Fits(i) == {s \in DOMAIN steps : /\ Tool(steps[s]) = Tool(calls[i])
                                       /\ CallMatch(calls[i], steps[s]) > 0}
      place == InTurn([i \in DOMAIN calls |-> [s \in Fits(i) |-> CallMatch(calls[i], steps[s])]])
  IN  IF steps = <<>> \/ calls = <<>> THEN Is(steps = calls)
      ELSE MeanOf([i \in DOMAIN calls |-> IF place[i] = 0 THEN 0
                                          ELSE CallMatch(calls[i], steps[place[i]])])

\* Calls for audit, chains of one tool and calls after an audit may move.
hard_dependencies(s, steps) ==
  LET deps == steps[s].depends_on
      lax == /\ deps = {s - 1}
             /\ \/ s = 1
                \/ IsTool(steps[s - 1], "audit_log")
                \/ Tool(steps[s - 1]) = Tool(steps[s])
  IN  IF IsTool(steps[s], "audit_log") \/ lax THEN {} ELSE deps

\* The calls of a step's tool.
SameTool(calls, step) == {i \in DOMAIN calls : Tool(calls[i]) = Tool(step)}

\* Each step in turn takes the next call of its tool.
PlacesByTool(calls, steps) ==
  InTurn([s \in DOMAIN steps |-> [i \in SameTool(calls, steps[s]) |-> One]])

\* Each step in turn takes the call of its tool that matches it best.
Places(calls, steps) ==
  InTurn([s \in DOMAIN steps |->
            [i \in SameTool(calls, steps[s]) |-> StepMatch(calls[i], steps[s])]])

\* The share of the steps with dependencies, and of the ordered pairs, that
\* come after what they need.
score_ordering_correctness(calls, gold) ==
  LET place == Places(calls, gold.steps)
      After(s, t) == place[t] # 0 /\ place[s] # 0 /\ place[t] < place[s]
      bound == {s \in DOMAIN gold.steps : hard_dependencies(s, gold.steps) # {}}
      kept == {s \in bound : \A t \in hard_dependencies(s, gold.steps) : After(s, t)}
      pairs == gold.ordered_dependencies
      held == {p \in DOMAIN pairs : After(pairs[p][2], pairs[p][1])}
      all == Cardinality(bound) + Len(pairs)
  IN  IF gold.steps # <<>> /\ calls = <<>> THEN 0
      ELSE IF all = 0 THEN One ELSE Frac(Cardinality(kept) + Cardinality(held), all)

\* Without assertions and template: audit, number of calls, recipients.
generic_constraints(calls, steps) ==
  LET n == Len(calls)
      m == Len(steps)
      size == IF n > 2 * m \/ 10 * n < 3 * m THEN 0
              ELSE IF 2 * n > 3 * m \/ 2 * n < m THEN Frac(1, 2) ELSE One
      notified == Targets(steps, "notification_send", "user_id")
      mailed == Targets(steps, "email_send", "account_id")
      asked == {c \in {"audit", "size", "notified", "mailed"} :
                  CASE c = "audit" -> Number(steps, "audit_log") > 0
                    [] c = "size" -> m > 0
                    [] c = "notified" -> notified # {}
                    [] c = "mailed" -> mailed # {}}
      Check(c) ==
        CASE c = "audit" -> Is(Number(calls, "audit_log") > 0)
          [] c = "size" -> size
          [] c = "notified" ->
               Frac(Cardinality(notified \cap Targets(calls, "notification_send", "user_id")),
                    Cardinality(notified))
          [] c = "mailed" -> set_f1(Targets(calls, "email_send", "account_id"), mailed)
  IN  IF asked = {} THEN One ELSE MeanOf([c \in asked |-> Check(c)])

score_constraint_compliance(calls, gold) ==
  LET assertions == About(gold, "constraint_compliance")
      checks == template_constraints(calls, gold)
  IN  IF calls = <<>> THEN 0
      ELSE IF DOMAIN assertions # {} THEN evaluate_outcome_assertions(calls, assertions)
      ELSE IF ~gold.constrained THEN One
      ELSE IF checks # <<>> THEN Passing(checks)
      ELSE generic_constraints(calls, gold.steps)

\* What a scorer that raises an exception gives.
Raised == [raised |-> TRUE]

score_task(answer, gold) ==
  LET completed == Reads(answer.status, "completed")
  IN  IF goal_raises(answer.steps, gold, completed) THEN Raised
      ELSE [goal_completion |-> score_goal_completion(answer.steps, gold, completed),
            tool_selection |-> score_tool_selection(answer.steps, gold),
            parameter_accuracy |-> score_parameter_accuracy(answer.steps, gold),
            ordering_correctness |-> score_ordering_correctness(answer.steps, gold),
            constraint_compliance |-> score_constraint_compliance(answer.steps, gold)]

(* The last answer with the task's id; a task without one scores 0         *)
(* throughout.  An exception for one task is one for the submission.       *)
workflow_dimensions(answers, golds) ==
  LET Of(g) ==
        LET same == {i \in DOMAIN answers : answers[i].task_id = golds[g].task_id}
        IN  IF same = {} THEN [d \in DOMAIN DIMENSION_WEIGHTS |-> 0]
            ELSE score_task(answers[Max(same)], golds[g])
      scores == [g \in DOMAIN golds |-> Of(g)]
  IN  IF \E g \in DOMAIN golds : scores[g] = Raised THEN Raised
      ELSE [d \in DOMAIN DIMENSION_WEIGHTS |-> MeanOf([g \in DOMAIN golds |-> scores[g][d]])]

workflow_resolution(dimensions) ==
  SumFunction([d \in DOMAIN dimensions |-> DIMENSION_WEIGHTS[d] * dimensions[d]]) \div 100

=============================================================================
