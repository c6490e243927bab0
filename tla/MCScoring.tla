----------------------------- MODULE MCScoring -----------------------------
(***************************************************************************)
(* All scorers and the normaliser on small inputs; the scorer of documents *)
(* is recursive, so that what it says of module Scoring's documents is     *)
(* here.                                                                   *)
(***************************************************************************)
EXTENDS Scoring, ExtractScore

W(core) == <<Plain(core)>>
As(core, form) == <<[core |-> core, form |-> form]>>

MCNumerals == {0, 1, 2, 3, 1200}
MCCategories == {W("access"), W("hull"), W("comms")}
MCTeams == {W("identity"), W("radio"), W("none")}
MCUnscored == {"document_id", "difficulty"}
MCTierScores == (<<"gpt-5">> :> 75) @@ (<<"gpt-5", "-mini">> :> 90)
                @@ (<<"gpt-5", ".4", "-nano">> :> 100) @@ (<<"gpt-5", ".4", "-pro">> :> 50)
MCDates == {"-2025-04-14"}
MCDotted == "-4" :> ".4"

----------------------------------------------------------------------------
\* Triage: three golds, and for each ticket no answer or one of several.
Signal(id, category, priority, team, missing, escalate) ==
  [ticket_id |-> id, category |-> Str(category), priority |-> Str(priority),
   assigned_team |-> team, missing_information |-> missing, needs_escalation |-> escalate]
Words(cores) == List([i \in DOMAIN cores |-> Str(W(cores[i]))])

MCGoldSignals ==
  <<Signal(1, W("access"), W("p1"), Str(W("identity")), Words(<<"log">>), Bool(TRUE)),
    Signal(2, W("hull"), W("p2"), Str(As("none", "case")), Words(<<>>), Bool(FALSE)),
    Signal(3, W("hull"), W("p4"), Str(W("identity")), Words(<<"log", "time">>), Bool(FALSE))>>

SignalAnswers(i) ==
  {<<>>, <<MCGoldSignals[i]>>,
   <<Signal(i, As("hull", "edge"), As("p2", "case"), Null, Null, Str(As("yes", "case")))>>,
   <<Signal(i, W("comms"), W("p3"), Str(W("radio")), Words(<<"time", "crew">>), Str(W("false")))>>,
   <<Signal(i, <<>>, As("p1", "edge"), Str(W("nobody")), Words(<<"log", "time">>), Num(1))>>,
   <<Signal(i, W("access"), W("p1"), Str(W("identity")), Null, Null), MCGoldSignals[i]>>}

AllSubmissions ==
  {a \o b \o c : a \in SignalAnswers(1), b \in SignalAnswers(2), c \in SignalAnswers(3)}

----------------------------------------------------------------------------
\* Extraction: one schema, golds of it, and what a model may return for it.
Field(types) == [types |-> types, checkbox |-> FALSE]
LineSchema == [types |-> <<"object">>, checkbox |-> FALSE,
               properties |-> [sku |-> Field(<<"string">>), qty |-> Field(<<"integer">>)]]
DocumentSchema ==
  [types |-> <<"object">>, checkbox |-> FALSE,
   properties |-> [total |-> Field(<<"number", "null">>), name |-> Field(<<"string">>),
                   paid |-> [types |-> <<"boolean">>, checkbox |-> TRUE],
                   lines |-> [types |-> <<"array">>, checkbox |-> FALSE, items |-> LineSchema],
                   ship |-> LineSchema, note |-> NotSchema]]

Line(sku, qty) == Dict([sku |-> Str(W(sku)), qty |-> qty])
Document(total, name, paid, lines, ship) ==
  [total |-> total, name |-> name, paid |-> paid, lines |-> lines, ship |-> ship]

GoldDocuments ==
  {Document(total, Str(<<[core |-> "1200", form |-> "marked"], Plain("net")>>), paid,
            List(<<Line("bolt", Num(2)), Line("nut", Num(3))>>), ship) :
     total \in {Num(1200), Num(1)}, paid \in {Bool(TRUE), Null},
     ship \in {Line("bolt", Num(1)), Dict([sku |-> Null, qty |-> Null]), Null}}

RawFields ==
  [total |-> {Null, Bool(TRUE), Str(As("1200", "marked")), Str(W("unclear"))},
   name |-> {Str(As("1200", "plain"))},
   paid |-> {Null, Bool(TRUE), Num(1), Str(As("no", "case")), Str(W("maybe"))},
   lines |-> {List(<<Line("nut", Str(W("3"))), Line("bolt", Num(2)), Null>>),
              List(<<Dict([sku |-> Str(W("bolt")), x |-> Null])>>), Words(<<"bolt", "nut">>)},
   ship |-> {Null, Line("bolt", Str(As("1", "case"))), Str(W("bolt"))}]
RawDocuments ==
  {[k \in DOMAIN d \ gone |-> d[k]] @@ ("stray" :> Num(1)) :
     d \in {Document(total, name, paid, lines, ship) :
              total \in RawFields.total, name \in RawFields.name, paid \in RawFields.paid,
              lines \in RawFields.lines, ship \in RawFields.ship},
     gone \in {{}, {"name", "paid", "ship"}}}

\* Checkboxes at all depths, and schemas that ask for nothing.
Checkbox == [types |-> <<"boolean", "null">>, checkbox |-> TRUE]
FormSchema ==
  [types |-> <<"object">>, checkbox |-> FALSE,
   properties |-> [form |-> [types |-> <<>>, checkbox |-> FALSE,
                             properties |-> [agreed |-> Checkbox, line |-> LineSchema]],
                   boxes |-> [types |-> <<"array">>, checkbox |-> FALSE, items |-> Checkbox]]]
OpenSchema == [types |-> <<"object">>, checkbox |-> FALSE]

RawBoxes ==
  [form |-> {Null, Str(W("bolt")), Dict([agreed |-> Str(W("maybe")), line |-> Null]),
             Dict([agreed |-> Null, line |-> Line("nut", Str(W("unclear")))])},
   boxes |-> {Null, Bool(TRUE), List(<<Str(W("maybe")), Null, Num(1), Str(W("y"))>>)}]
RawForms == {[form |-> f, boxes |-> b] : f \in RawBoxes.form, b \in RawBoxes.boxes}

AllDocuments ==
  {[raw |-> r, schema |-> DocumentSchema] : r \in RawDocuments}
    \cup {[raw |-> r, schema |-> s] : r \in RawForms, s \in {FormSchema, OpenSchema, NotSchema}}

----------------------------------------------------------------------------
\* Workflows: calls, plans and golds.
Call(tool, params) == [tool |-> W(tool), params |-> [k \in DOMAIN params |-> Str(W(params[k]))]]
Notify(who, channel) == Call("notification_send", [user_id |-> who, channel |-> channel])
Mail(what) == Call("email_send", [template |-> what, account_id |-> "acc"])
QuoteWith(variables) == [Mail("renewal_quote") EXCEPT !.params = @ @@ ("variables" :> variables)]
Quote(plan) == QuoteWith(Dict([plan |-> Str(W(plan))]))
Log(action) == Call("audit_log", [action |-> action])
Query(place) == Call("inventory_query", [sku |-> "bolt", warehouse |-> place])
Lookup == Call("subscription_check", [account_id |-> "acc"])

Step(call, deps) == [depends_on |-> deps] @@ call
Gold(template, outcomes, steps, assertions) ==
  [task_id |-> 1, template |-> template, outcome |-> outcomes, steps |-> steps,
   assertions |-> assertions, constrained |-> TRUE,
   alternatives |-> <<>>, ordered_dependencies |-> <<>>]

\* Golds without and with assertions and template checks.
AllPlans ==
  {Gold("none", <<>>, <<Step(Query("east"), {}), Step(Query("west"), {}),
                        Step(Notify("manager", "sms"), {1, 2}),
                        Step(Mail("offer"), {3}), Step(Log("done"), {4})>>, <<>>),
   [Gold("none", <<>>, <<Step(Lookup, {}), Step(Query("east"), {1}), Step(Query("west"), {2}),
                         Step(Log("seen"), {3}), Step(Mail("offer"), {1, 3})>>, <<>>)
      EXCEPT !.ordered_dependencies = <<<<3, 4>>>>,
             !.alternatives = <<[step |-> 1, tool |-> W("audit_log"), credit |-> 90]>>],
   Gold("incident_response", [warehouses_affected |-> 2, escalated |-> FALSE],
        <<Step(Query("east"), {}), Step(Query("west"), {}),
          Step(Notify("oncall_engineer", "slack"), {1, 2}), Step(Log("incident_response"), {3})>>,
        <<[CountIs(1, "notification_send", [channel |-> Str(W("slack"))])
             EXCEPT !.dimension = "constraint_compliance"],
          CountFrom(3, "audit_log", <<>>)>>),
   Gold("contract_renewal", [plan |-> W("pro"), needs_approval |-> TRUE],
        <<Step(Lookup, {}), Step(Quote("pro"), {1}), Step(Notify("finance_approver", "slack"), {1, 2}),
          Step(Log("renewal_initiated"), {3})>>, <<>>)}

TemplateGold(template, outcomes, steps) ==
  LET gold == Gold(template, outcomes, steps, <<>>)
  IN  [gold EXCEPT !.assertions = GoalAssertions(gold)]
AllTemplateGolds ==
  {TemplateGold("re_engagement_campaign", [emails_sent |-> n, skipped |-> {}],
                <<Step(Lookup, {}), Step(Lookup, {})>>) : n \in 0..2}
  \cup {TemplateGold("inventory_restock", [alerts_sent |-> n], <<Step(Query("east"), {})>>) :
          n \in 0..1}
  \cup {TemplateGold("onboarding_workflow", [onboarded |-> b], <<Step(Lookup, {})>>) :
          b \in BOOLEAN}
  \cup {TemplateGold("churn_risk_analysis",
                     [high_risk |-> 1, medium_risk |-> n, alerts_sent |-> n + 1],
                     <<Step(Lookup, {})>>) : n \in 0..1}
  \cup {TemplateGold("meeting_scheduler", [scheduled |-> b], <<Step(Lookup, {})>>) :
          b \in BOOLEAN}
  \cup {TemplateGold("incident_response", [warehouses_affected |-> 2, escalated |-> b],
                     <<Step(Lookup, {})>>) : b \in BOOLEAN}
  \cup {TemplateGold("contract_renewal", [plan |-> W("pro"), needs_approval |-> b],
                     <<Step(Lookup, {})>>) : b \in BOOLEAN}

\* The calls a template's checks can tell apart.
CallsFor(template) ==
  CASE template = "re_engagement_campaign" -> {Lookup, Mail("re_engagement"), Log("email_sent")}
    [] template = "inventory_restock" -> {Query("east"), Notify("manager", "slack"), Lookup}
    [] template = "onboarding_workflow" ->
         {Mail("welcome"), Mail("kickoff_invite"), Notify("sales_team", "slack"),
          Log("onboarding_started"), Log("onboarding_blocked")}
    [] template = "churn_risk_analysis" ->
         {Notify("lead_retention", "slack"), Notify("lead_customer_success", "slack"), Log("flag")}
    [] template = "meeting_scheduler" ->
         {Mail("meeting_invite"), Notify("rep", "slack"), Log("meeting_scheduled"),
          Log("meeting_blocked")}
    [] template = "incident_response" ->
         {Query("east"), Notify("oncall_engineer", "sms"), Notify("engineering_manager", "slack"),
          Log("incident_response")}
    [] template = "contract_renewal" ->
         {Quote("pro"), Quote("basic"), Mail("renewal_quote"), QuoteWith(Dict([plan |-> Null])),
          QuoteWith(Null), QuoteWith(Str(W("pro"))), Notify("finance_approver", "slack"),
          Log("renewal_initiated")}

MCTracesFor(gold) == UNION {[1..n -> CallsFor(gold.template)] : n \in 0..4}

----------------------------------------------------------------------------
\* Latencies: batches of few calls, and batches large enough to be trimmed.
Result(ms, model) == [ms |-> ms, ok |-> ms > 0, model |-> model]
Repeat(n, ms, model) == [i \in 1..n |-> Result(ms, model)]
Names == {<<>>, <<"gpt-5", "-4", "-pro">>, <<"gpt-5", "-mini", "-2025-04-14">>}
Batches(n, name) ==
  {Repeat(c[1], 9000, <<>>) \o Repeat(c[2], 400, name)
     \o Repeat(n - c[1] - c[2], 3000, <<"gpt-5">>) :
     c \in {d \in (0..n) \X (0..n) : d[1] + d[2] <= n}}
AllCallBatches ==
  UNION {[1..n -> {Result(0, <<>>), Result(400, <<"gpt-5">>), Result(3000, <<>>)}] : n \in 0..4}
    \cup UNION {Batches(n, name) : n \in {20, 41}, name \in Names}

----------------------------------------------------------------------------
\* All schemas, the values in everything above, and what the values become.
PartsOf(v) == CASE v.kind = "dict" -> {v.fields[k] : k \in DOMAIN v.fields}
                [] v.kind = "list" -> ToSet(v.items)
                [] OTHER -> {}
SchemasIn(s) == {Properties(s)[k] : k \in DOMAIN Properties(s)}
                  \cup (IF "items" \in DOMAIN s THEN {s.items} ELSE {})
AllSchemas ==
  LET Inside(S) == UNION {{s} \cup SchemasIn(s) : s \in S}
  IN  Inside(Inside(Inside({DocumentSchema, FormSchema, OpenSchema, NotSchema})))
AllValues ==
  LET Of(records) == UNION {{r[k] : k \in DOMAIN r} : r \in records}
      Inside(V) == UNION {{v} \cup PartsOf(v) : v \in V}
      Become(V) == UNION {{v} \cup {normalize_value(v, s) : s \in AllSchemas} : v \in V}
      calls == UNION ({CallsFor(t) : t \in Templates} \cup {ToSet(g.steps) : g \in AllPlans})
      known == {Null, Bool(FALSE), Num(1), Str(W("pro")), Str(W("basic"))}
                 \cup {default_value(s) : s \in AllSchemas}
                 \cup Of({c.params : c \in calls}) \cup UNION Of({RawFields, RawBoxes})
  IN  Inside(Become(Become(Inside(Inside(known)))))

\* The operators' inner calls are the operators.  TLC's coverage follows none
\* of them into a LET, and so does not go on for ever.
MCParamMatch(candidate, gold) == LET score == param_value_match(candidate, gold) IN score
MCMappingMatches(candidate, expected) == LET all == mapping_matches(candidate, expected) IN all
MCNormalizeValue(v, s) == LET value == normalize_value(v, s) IN value
MCDefaultValue(s) == LET value == default_value(s) IN value

RECURSIVE MCDepth(_), MCSchemaDepth(_)
MCDepth(v) == Max({0} \cup {1 + MCDepth(p) : p \in PartsOf(v)})
MCSchemaDepth(s) == Max({0} \cup {1 + MCSchemaDepth(p) : p \in SchemasIn(s)})

----------------------------------------------------------------------------
\* Under names of their own, because TLC evaluates a definition once and one
\* that a constant is given as often as the constant is mentioned.
MCSubmissions == AllSubmissions
MCCallBatches == AllCallBatches
MCDocuments == AllDocuments
MCPlans == AllPlans
MCTemplateGolds == AllTemplateGolds
MCSchemas == AllSchemas
MCValues == AllValues

----------------------------------------------------------------------------
DocumentScore(fields, gold) ==
  LET id == "document_id" :> Str(W("d1"))
  IN  score_documents(<<fields @@ id>>, <<gold @@ id>>).resolution

(* Normalizing costs a field of the answer points only where the model     *)
(* gave a number for a flag or a flag for a number, where the gold is null *)
(* and the schema's own default is not, or where an item of a list gets    *)
(* other keys: the scorer compares items in both directions, so that a key *)
(* the item lacks costs nothing in precision and a null one does.          *)
Crossed(v, s) == \/ schema_type(s) = "boolean" /\ v.kind = "num"
                 \/ schema_type(s) \in {"number", "integer"} /\ v.kind = "bool"
Rekeyed(v, s) == /\ v.kind = "list"
                 /\ \E i \in DOMAIN v.items :
                      v.items[i].kind = "dict" /\ DOMAIN v.items[i].fields # DOMAIN s.items.properties
NormalizingCostsOnlyWhere ==
  Scored("document") /\ input.schema = DocumentSchema =>
    \A gold \in GoldDocuments :
      LET Excepted(k) ==
            LET s == DocumentSchema.properties[k]
            IN  \/ Crossed(Get(input.raw, k), s) \/ Rekeyed(Get(input.raw, k), s)
                \/ gold[k] = Null /\ default_value(s) # Null
          Worth(v, k) == score_value(v, gold[k])
          plain == {k \in DOMAIN gold : ~Excepted(k)}
      IN  /\ \A k \in plain : \A d \in 1..2 :
               Worth(outcome.output[k], k)[d] >= Worth(Get(input.raw, k), k)[d]
          /\ plain = DOMAIN gold =>
               DocumentScore(outcome.output, gold) >= DocumentScore(input.raw, gold)

(* "Missing/unreadable values become null (...), except boolean checkbox   *)
(* fields whose description asks for a false default", says the module's   *)
(* header; an unreadable checkbox becomes null too.                        *)
CheckboxNeverNull ==
  Scored("document") /\ input.schema = DocumentSchema => outcome.output["paid"] # Null

=============================================================================
