------------------------------ MODULE Scoring ------------------------------
(***************************************************************************)
(* A submission is scored against the golden signals, a workflow's trace   *)
(* against its gold, a batch of calls is measured and a document's fields  *)
(* are normalized: the first state has the input, one step evaluates it,   *)
(* and the properties look at the outcome next to what it should be.       *)
(***************************************************************************)
EXTENDS Weights, TriageScore, WorkflowScore, Normalize

CONSTANTS GoldSignals,    (* the golden signals                           *)
          Submissions,    (* the answers given to them                    *)
          CallBatches,    (* the results of a task's calls                *)
          Documents,      (* what the model returns, and by which schema  *)
          Plans,          (* golds whose plan is executed in some order   *)
          TemplateGolds,  (* golds with assertions on the goal            *)
          TracesFor(_)    (* the traces that are scored against one       *)

\* A list has finitely many items.
Bounded(v) == v.kind = "list" => IsFiniteSet(DOMAIN v.items)

(* Each golden signal has an id of its own, one of the four priorities and *)
(* a list of what is missing, and some have a category and a team of the   *)
(* closed sets.  The answers to them may have anything in any field.       *)
ASSUME ScoringAssumption ==
  LET N == DOMAIN GoldSignals
  IN  /\ GoldSignals \in Seq(ToSet(GoldSignals))
      /\ \A i, j \in N : GoldSignals[i].ticket_id = GoldSignals[j].ticket_id => i = j
      /\ \A i \in N : /\ Level(GoldSignals[i].priority) # 0
                      /\ Bounded(GoldSignals[i].missing_information)
      /\ \E i \in N : Text(GoldSignals[i].category) \in CATEGORIES
      /\ \E i \in N : Text(GoldSignals[i].assigned_team) \in TEAMS
      /\ \A answers \in Submissions :
           /\ answers \in Seq(ToSet(answers))
           /\ \A i \in DOMAIN answers : Bounded(answers[i].missing_information)
      /\ \A results \in CallBatches :
           results \in Seq(ToSet(results)) /\ \A i \in DOMAIN results : results[i].ms \in Nat

\* A field of a document may be any value.
ASSUME DocumentsAssumption ==
  \A d \in Documents : d.schema \in Schemas /\ \A k \in DOMAIN d.raw : d.raw[k] \in Values

(* Steps are numbered as they come and depend on earlier ones; none can be *)
(* mistaken for another, which would need all its parameters as well, and  *)
(* the plan of a quote can be read.                                        *)
ASSUME PlansAssumption ==
  \A g \in Plans :
    LET steps == g.steps
        N == DOMAIN steps
    IN  /\ steps \in Seq(ToSet(steps)) /\ steps # <<>>
        /\ g.ordered_dependencies \in Seq(ToSet(g.ordered_dependencies))
        /\ \A p \in ToSet(g.ordered_dependencies) : p[1] \in N /\ p[2] \in N /\ p[1] < p[2]
        /\ \A s \in N :
             /\ steps[s].depends_on \subseteq 1..(s - 1)
             /\ ~Unreadable(steps[s])
             /\ IsFiniteSet(DOMAIN steps[s].params)
             /\ \A k \in DOMAIN steps[s].params : steps[s].params[k] \in Values
        /\ \A s, t \in N :
             s # t /\ Tool(steps[s]) = Tool(steps[t])
               => \E k \in DOMAIN steps[t].params :
                    param_value_match(Get(steps[s].params, k), steps[t].params[k]) # One

(* What the assertions on the goal of each public gold are, template by    *)
(* template.                                                               *)
CountIs(n, tool, match) ==
  [dimension |-> "goal_completion", check |-> "call_count", tool |-> <<Plain(tool)>>,
   match |-> match, equals |-> n]
CountFrom(n, tool, match) ==
  [dimension |-> "goal_completion", check |-> "call_count", tool |-> <<Plain(tool)>>,
   match |-> match, min |-> n]

\* One parameter, with a text.
Word(text, key) == [k \in {key} |-> Str(text)]

GoalAssertions(gold) ==
  LET Mails(n, what) == CountIs(n, "email_send", Word(<<Plain(what)>>, "template"))
      Notices(n, who) == CountIs(n, "notification_send", Word(<<Plain(who)>>, "user_id"))
      Logs(action) == CountFrom(1, "audit_log", Word(<<Plain(action)>>, "action"))
      Quotes(n, plan) == CountIs(n, "email_send",
                                 [template |-> Str(<<Plain("renewal_quote")>>),
                                  variables |-> Dict(Word(plan, "plan"))])
      sent == Amount(gold, "emails_sent")
      started == Flag(gold, "onboarded")
      met == Flag(gold, "scheduled")
  IN CASE gold.template = "re_engagement_campaign" ->
            <<CountFrom(Planned(gold, "subscription_check"), "subscription_check", <<>>),
              CountIs(sent, "email_send", <<>>), CountFrom(sent, "audit_log", <<>>)>>
       [] gold.template = "inventory_restock" ->
            <<CountFrom(Planned(gold, "inventory_query"), "inventory_query", <<>>),
              CountIs(Amount(gold, "alerts_sent"), "notification_send", <<>>)>>
       [] gold.template = "onboarding_workflow" ->
            <<Mails(started, "welcome"), Mails(started, "kickoff_invite"),
              Notices(1 - started, "sales_team"),
              Logs(IF started = 1 THEN "onboarding_started" ELSE "onboarding_blocked")>>
       [] gold.template = "churn_risk_analysis" ->
            <<Notices(Amount(gold, "high_risk"), "lead_retention"),
              Notices(Amount(gold, "medium_risk"), "lead_customer_success"),
              CountIs(Amount(gold, "alerts_sent"), "audit_log", <<>>)>>
       [] gold.template = "meeting_scheduler" ->
            <<Mails(met, "meeting_invite"), CountIs(1 - met, "notification_send", <<>>),
              Logs(IF met = 1 THEN "meeting_scheduled" ELSE "meeting_blocked")>>
       [] gold.template = "incident_response" ->
            <<CountFrom(Amount(gold, "warehouses_affected"), "inventory_query", <<>>),
              Notices(1, "oncall_engineer"),
              Notices(Flag(gold, "escalated"), "engineering_manager"),
              Logs("incident_response")>>
       [] gold.template = "contract_renewal" ->
            <<Quotes(1, gold.outcome["plan"]),
              Notices(Flag(gold, "needs_approval"), "finance_approver"),
              Logs("renewal_initiated")>>

Templates == {"re_engagement_campaign", "inventory_restock", "onboarding_workflow",
              "churn_risk_analysis", "meeting_scheduler", "incident_response",
              "contract_renewal"}

(* A call may have any parameters; a renewal has a plan, which does not    *)
(* read as the empty text nor as what str() makes of a null.               *)
ASSUME TemplatesAssumption ==
  \A g \in TemplateGolds :
    /\ DOMAIN g = {"task_id", "template", "outcome", "steps", "assertions", "constrained",
                   "alternatives", "ordered_dependencies"}
    /\ g.template \in Templates /\ g.steps # <<>>
    /\ About(g, "goal_completion") = GoalAssertions(g)
    /\ g.template = "contract_renewal" =>
         /\ normalize_text(g.outcome["plan"]) \notin {<<>>, <<Plain("none")>>}
         /\ Dict([plan |-> Str(g.outcome["plan"])]) \in Values
    /\ \A calls \in TracesFor(g) :
         /\ calls \in Seq(ToSet(calls))
         /\ \A i \in DOMAIN calls : \A k \in DOMAIN calls[i].params : calls[i].params[k] \in Values

VARIABLES input,   (* what is scored, by kind             *)
          outcome  (* its score; <<>> until it is there   *)

vars == <<input, outcome>>

\* The orders in which the steps of a plan can be executed.
Orders(gold) == Bijection(DOMAIN gold.steps, DOMAIN gold.steps)

Init == /\ outcome = <<>>
        /\ \/ input \in {[kind |-> "latency", results |-> r] : r \in CallBatches}
           \/ input \in {[kind |-> "triage", answers |-> a] : a \in Submissions}
           \/ input \in {[kind |-> "document", raw |-> d.raw, schema |-> d.schema] : d \in Documents}
           \/ \E g \in Plans : input \in {[kind |-> "plan", gold |-> g, order |-> p] : p \in Orders(g)}
           \/ \E g \in TemplateGolds :
                input \in {[kind |-> "template", gold |-> g, calls |-> c] : c \in TracesFor(g)}

\* One evaluation: an input of this kind is given its outcome.
Evaluate(kind, result) ==
  /\ input.kind = kind /\ outcome = <<>>
  /\ outcome' = result
  /\ UNCHANGED input

ScoreTriage ==
  Evaluate("triage", [resolution |-> triage_resolution(input.answers, GoldSignals)])

Thresholds == [best50 |-> 500, worst50 |-> 2000, best95 |-> 1500, worst95 |-> 4200]

Measure ==
  LET latency == compute_latency_score(input.results, Thresholds)
      efficiency == compute_efficiency(latency, cost_score(input.results))
  IN  Evaluate("latency", [p50 |-> latency_p50_ms(input.results),
                           p95 |-> latency_p95_ms(input.results),
                           cost |-> cost_score(input.results), efficiency |-> efficiency])

NormalizeDocument ==
  Evaluate("document", [output |-> normalize_output(Dict(input.raw), input.schema)])

\* A finished workflow.
Respond(calls, gold) ==
  [task_id |-> gold.task_id, status |-> Str(<<Plain("completed")>>), steps |-> calls]

Reordered(gold, order) == [i \in DOMAIN order |-> gold.steps[order[i]]]

\* A submission of this trace alone.
Graded(calls, gold) ==
  LET dimension == workflow_dimensions(<<Respond(calls, gold)>>, <<gold>>)
  IN  IF dimension = Raised THEN Raised
      ELSE [dimension |-> dimension, resolution |-> workflow_resolution(dimension)]

\* The reordered plan, and the plan as it stands.
ScorePlan ==
  LET calls(which) == IF which = "moved" THEN Reordered(input.gold, input.order)
                                         ELSE input.gold.steps
  IN  Evaluate("plan", [which \in {"moved", "planned"} |-> Graded(calls(which), input.gold)])

ScoreTemplate ==
  LET Score(gold) == score_task(Respond(input.calls, gold), gold)
  IN  Evaluate("template", [asserted |-> Score(input.gold),
                            by_template |-> Score([input.gold EXCEPT !.assertions = <<>>])])

Next == ScoreTriage \/ Measure \/ NormalizeDocument \/ ScorePlan \/ ScoreTemplate

Spec == Init /\ [][Next]_vars

Scored(kind) == input.kind = kind /\ outcome # <<>>

----------------------------------------------------------------------------
(* Putting the right answer to a ticket before all others never lowers the *)
(* resolution, whichever answers the other tickets have: though a class    *)
(* nobody mentions any more leaves the macro average, and an answer counts *)
(* in its own ticket's class as well as in the one it named.  With the     *)
(* right answers to all tickets first, what follows them costs nothing.    *)
CorrectingNeverHurts ==
  Scored("triage") =>
    /\ \A i \in DOMAIN GoldSignals :
         triage_resolution(<<GoldSignals[i]>> \o input.answers, GoldSignals) >= outcome.resolution
    /\ triage_resolution(GoldSignals \o input.answers, GoldSignals) = One

(* The percentiles are latencies of answered calls, half of which are as   *)
(* fast as p50 and half as slow, and nine in ten as fast as p95; from 20   *)
(* calls on, the slowest one alone does not set p95.                       *)
PercentileRanks ==
  Scored("latency") =>
    LET answered == Latencies(input.results)
        N == DOMAIN answered
        n == Cardinality(N)
        AtMost(x) == Cardinality({i \in N : answered[i] <= x})
        AtLeast(x) == Cardinality({i \in N : answered[i] >= x})
    IN  IF n = 0 THEN outcome.p50 = 0 /\ outcome.p95 = 0
        ELSE /\ {outcome.p50, outcome.p95} \subseteq ToSet(answered)
             /\ 2 * AtMost(outcome.p50) >= n /\ 2 * AtLeast(outcome.p50) >= n
             /\ 10 * AtMost(outcome.p95) >= 9 * n
             /\ n >= 20 => AtLeast(outcome.p95) >= 2

\* The parts of two values that a schema is about, side by side.
Parts(p) ==
  LET Pair(v, w, s) == [once |-> v, again |-> w, schema |-> s]
      s == p.schema
      kinds == {p.once.kind, p.again.kind}
  IN  CASE kinds = {"dict"} /\ IsSchema(s) /\ IsObject(s) ->
             {Pair(Get(p.once.fields, k), Get(p.again.fields, k), s.properties[k]) :
                k \in DOMAIN Properties(s)}
        [] kinds = {"list"} /\ IsSchema(s) /\ ~IsObject(s) /\ "items" \in DOMAIN s ->
             {Pair(p.once.items[i], p.again.items[i], s.items) :
                i \in DOMAIN p.once.items \cap DOMAIN p.again.items}
        [] OTHER -> {}

\* All of them, at any depth.
AllParts(once, again, schema) ==
  LET level[n \in 0..SchemaDepth(schema)] ==
        IF n = 0 THEN {[once |-> once[k], again |-> again[k], schema |-> schema.properties[k]] :
                         k \in DOMAIN Properties(schema)}
        ELSE UNION {Parts(p) : p \in level[n - 1]}
  IN  UNION {level[n] : n \in DOMAIN level}

Follows(v, s) ==
  v # Null /\ IsSchema(s) =>
    IF IsObject(s)
    THEN v.kind = "dict" /\ DOMAIN Properties(s) # {} => DOMAIN v.fields = DOMAIN s.properties
    ELSE ~IsArray(s) => /\ schema_type(s) \in {"number", "integer"} => v.kind = "num"
                        /\ schema_type(s) = "boolean" => v.kind = "bool"

Settles(p) ==
  LET s == p.schema
      kinds == {p.once.kind, p.again.kind}
  IN  \/ p.again = p.once
      \/ IsSchema(s) /\ wants_false_default(s) /\ p.once = Null /\ p.again = Bool(FALSE)
      \/ /\ kinds = {"dict"} /\ IsSchema(s) /\ IsObject(s) /\ DOMAIN Properties(s) # {}
         /\ DOMAIN p.once.fields = DOMAIN s.properties /\ DOMAIN p.again.fields = DOMAIN s.properties
      \/ /\ kinds = {"list"} /\ IsSchema(s) /\ ~IsObject(s) /\ "items" \in DOMAIN s
         /\ DOMAIN p.once.items = DOMAIN p.again.items

(* What the scorer is given follows the schema at every depth where the    *)
(* model returned the right kind of container, and a checkbox left out     *)
(* reads as false.  Normalizing again only settles checkboxes, at any      *)
(* depth: an unreadable one is null at first; then nothing changes.        *)
NormalizedConforms ==
  Scored("document") =>
    LET schema == input.schema
        keys == DOMAIN Properties(schema)
        once == outcome.output
        again == normalize_output(Dict(once), schema)
    IN  /\ IF keys = {} THEN once = input.raw ELSE DOMAIN once = keys
        /\ \A p \in AllParts(once, again, schema) : Follows(p.once, p.schema) /\ Settles(p)
        /\ normalize_output(Dict(again), schema) = again
        /\ \A k \in keys :
             LET s == schema.properties[k]
             IN  IsSchema(s) /\ wants_false_default(s) /\ Get(input.raw, k) = Null
                   => once[k] = Bool(FALSE)

(* A reordering of the plan itself loses nothing in tools and parameters,  *)
(* as little as the plan in constraints, and in the ordering exactly when  *)
(* it puts a step before one it depends on: each call is recognised as the *)
(* step it is.  Where the goal is checked, or the same tool comes last, an *)
(* order that keeps the dependencies earns what the plan's own does; else  *)
(* only the last tool's part of the goal is at stake.                      *)
ReorderingCostsOnlyDependencies ==
  Scored("plan") =>
    LET gold == input.gold
        steps == gold.steps
        moved == outcome.moved
        planned == outcome.planned
        at(s) == CHOOSE i \in DOMAIN input.order : input.order[i] = s
        kept == /\ \A s \in DOMAIN steps : \A t \in hard_dependencies(s, steps) : at(t) < at(s)
                /\ \A p \in ToSet(gold.ordered_dependencies) : at(p[1]) < at(p[2])
        checked == \/ DOMAIN About(gold, "goal_completion") # {}
                   \/ template_goal(steps, gold) # <<>>
        ends == Tool(Last(Reordered(gold, input.order))) = Tool(Last(steps))
    IN  /\ moved.dimension.tool_selection = One
        /\ moved.dimension.parameter_accuracy = One
        /\ moved.dimension.constraint_compliance = planned.dimension.constraint_compliance
        /\ moved.dimension.ordering_correctness = One <=> kept
        /\ (checked \/ ends) /\ kept => moved.resolution = planned.resolution
        /\ ~checked => 100 * (moved.dimension.goal_completion + 1) > 80 * One

(* A gold's assertions on the goal score a trace as the checks written     *)
(* into the scorer for its template would, with one exception: of a        *)
(* renewal with a quote whose variables are no object, the checks raise,   *)
(* and the assertions still give a score.                                  *)
TemplatesAgree ==
  Scored("template") =>
    IF input.gold.template = "contract_renewal" /\ \E i \in DOMAIN input.calls : Unreadable(input.calls[i])
    THEN outcome.by_template = Raised /\ outcome.asserted # Raised
    ELSE outcome.asserted.goal_completion = outcome.by_template.goal_completion

=============================================================================
