------------------------------- MODULE Service -------------------------------
(***************************************************************************)
(* One request to the service, from the middleware to the reply: web.py,   *)
(* main.py, triage/, extract/ and the failures of llm_client.py that they  *)
(* tell apart.  Azure may answer a call well, answer something useless,    *)
(* block it with its content filter, or not answer in time.                *)
(***************************************************************************)
EXTENDS Integers, Sequences

CONSTANT Attempts        \* max(1, llm_max_retries): tries of one LLM call

ASSUME ServiceAssumption == Attempts \in Nat \ {0}

Categories == {"access", "hull", "comms", "software", "threat", "data", "briefing", "noise"}
Teams == {"identity", "systems", "deep space", "mission software", "response",
          "telemetry", "none"}

\* Where a phrase that must always escalate stands in a signal: within the
\* first triage_content_filter_retry_chars of the description, within
\* max_description_chars, or beyond both.
Places == {"absent", "subject", "head", "body", "tail"}

(* Requests.  alarm matters to triage only, and an image that cannot be    *)
(* decoded or is too large to extraction only.                             *)
Requests ==
  LET R(task, alarm, image) == [task : {task}, type : {"json", "absent", "other"},
          body : {"valid", "bad json", "bad schema"}, alarm : alarm, image : image]
  IN R("triage", Places, {"fine"}) \cup R("extract", {"absent"}, {"fine", "bad"})
       \cup R("orchestrate", {"absent"}, {"fine"})

(* What the model may return for a signal.  It may write a team's name for *)
(* the category, or something odd, which stands for every reply that       *)
(* TriageDecision refuses; the error that reports it quotes the value, and *)
(* a value may speak of a jailbreak.                                       *)
Odd == {"odd", "odd, of a jailbreak"}
Replies == [category : Categories \cup Teams \cup Odd, team : Teams, escalate : BOOLEAN]

Answers == [status : {0, 200, 400, 415, 422, 500, 503}, error : BOOLEAN,
            body : {"nothing", "detail", "fallback", "report", "default",
                    "decision", "document"}]

VARIABLES
  req,         \* the request
  stage,       \* "edge", "validated", "calling", "workflow", "answered"
  prompt,      \* the description in the prompt: "whole" or "clamped" hard
  attempt,     \* tries of the current LLM call that have failed
  failures,    \* how the LLM calls of this request failed
  verdict,     \* the triage response's category, team and escalation
  reply        \* status, what the body is, and whether X-...-Error is set

vars == <<req, stage, prompt, attempt, failures, verdict, reply>>

NoVerdict == [category |-> "noise", team |-> "none", escalate |-> FALSE]
NoReply == [status |-> 0, body |-> "nothing", error |-> FALSE]

Init == /\ req \in Requests
        /\ stage = "edge" /\ prompt = "whole" /\ attempt = 0 /\ failures = <<>>
        /\ verdict = NoVerdict /\ reply = NoReply

----------------------------------------------------------------------------
(* The edge.                                                               *)

Reply(status, body, error) ==
  /\ stage' = "answered"
  /\ reply' = [status |-> status, body |-> body, error |-> error]

\* enforce_json_content_type, the outermost middleware.
RejectType ==
  /\ stage = "edge" /\ req.type = "other"
  /\ Reply(415, "detail", FALSE)
  /\ UNCHANGED <<req, prompt, attempt, failures, verdict>>

(* FastAPI parses and validates the body, on_validation_error chooses the  *)
(* status.  A body without a content type may be taken for JSON or not.    *)
Validate ==
  /\ stage = "edge" /\ req.type # "other"
  /\ \/ /\ req.body = "bad json"
        /\ Reply(400, "detail", FALSE)
     \/ /\ req.body = "bad schema" \/ req.type = "absent"
        /\ Reply(422, "detail", FALSE)
     \/ /\ req.body = "valid"
        /\ stage' = "validated"
        /\ UNCHANGED reply
  /\ UNCHANGED <<req, prompt, attempt, failures, verdict>>

----------------------------------------------------------------------------
(* run_endpoint, which every task runs behind.                             *)

\* A failure of the task: triage refuses, the others answer with a fallback.
TaskFails == IF req.task = "triage" THEN Reply(503, "detail", TRUE)
                                    ELSE Reply(200, "fallback", TRUE)

(* The task begins.  An image that cannot be used fails before any call.   *)
Begin ==
  /\ stage = "validated"
  /\ CASE req.image = "bad" -> TaskFails
       [] req.task = "orchestrate" -> stage' = "workflow" /\ UNCHANGED reply
       [] OTHER -> stage' = "calling" /\ UNCHANGED reply
  /\ UNCHANGED <<req, prompt, attempt, failures, verdict>>

(* The workflow, which Orchestrate models: its report, or an exception of  *)
(* the planner, of a tool call, or of the endpoint's timeout.              *)
EndWorkflow ==
  /\ stage = "workflow"
  /\ Reply(200, "report", FALSE) \/ TaskFails
  /\ UNCHANGED <<req, prompt, attempt, failures, verdict>>

----------------------------------------------------------------------------
(* Guardrails.                                                             *)

\* _coerce_category: a team's name stands for its category (_TEAM_TO_CATEGORY).
CoerceCategory(raw) ==
  CASE raw = "identity" -> "access"
    [] raw = "systems" -> "hull"
    [] raw = "deep space" -> "comms"
    [] raw = "mission software" -> "software"
    [] raw = "response" -> "threat"
    [] raw = "telemetry" -> "data"
    [] OTHER -> raw

\* A default team table that lacks a category.
DefaultTeamShort(category) ==
  CASE category = "access" -> "identity"
    [] category = "hull" -> "systems"
    [] category = "comms" -> "deep space"
    [] category = "software" -> "mission software"
    [] category = "threat" -> "response"
    [] category = "data" -> "telemetry"
    [] OTHER -> "none"

\* _DEFAULT_TEAM_BY_CATEGORY, and the "None" that its get falls back to.
DefaultTeam(category) ==
  CASE category = "access" -> "identity"
    [] category \in {"hull", "briefing"} -> "systems"
    [] category = "comms" -> "deep space"
    [] category = "software" -> "mission software"
    [] category = "threat" -> "response"
    [] category = "data" -> "telemetry"
    [] OTHER -> "none"

\* Searching what the model was shown instead of what was received.
MustEscalateAsShown ==
  req.alarm \in {"subject", "head"} \/ (req.alarm = "body" /\ prompt = "whole")

\* _must_always_escalate searches subject and description as received.
MustEscalate == req.alarm # "absent"

\* apply_guardrails, on the decision d.
Guarded(d) ==
  [category |-> d.category,
   team |-> CASE d.category = "noise" -> "none"
              [] d.category # "noise" /\ d.team = "none" -> DefaultTeam(d.category)
              [] OTHER -> d.team,
   escalate |-> d.escalate \/ MustEscalate]

----------------------------------------------------------------------------
(* The calls of the model: complete and _create_with_retry.                *)

(* A call has failed.  blocked: its last try was blocked by the filter;    *)
(* named: the exception's text holds one of the words that                 *)
(* _is_content_filter_error looks for.                                     *)
Failures == [blocked : BOOLEAN, named : BOOLEAN]

\* The safe default: "Not a Mission Signal", escalated, through the guardrails.
SafeDefault ==
  /\ verdict' = Guarded([category |-> "noise", team |-> "none", escalate |-> TRUE])
  /\ Reply(200, "default", FALSE)

\* A block answered by one more clamped call every time.
CallFailsAgain(f) ==
  /\ failures' = Append(failures, f)
  /\ \/ /\ req.task = "triage" /\ f.named
        /\ prompt' = "clamped" /\ attempt' = 0
        /\ UNCHANGED <<stage, verdict, reply>>
     \/ /\ req.task # "triage" \/ ~f.named
        /\ TaskFails
        /\ UNCHANGED <<prompt, attempt, verdict>>
  /\ UNCHANGED req

\* A clamped call answered by the default whatever made it fail.
CallFailsUnchecked(f) ==
  /\ failures' = Append(failures, f)
  /\ \/ /\ req.task = "triage" /\ f.named /\ prompt = "whole"
        /\ prompt' = "clamped" /\ attempt' = 0
        /\ UNCHANGED <<stage, verdict, reply>>
     \/ /\ prompt = "clamped"
        /\ SafeDefault
        /\ UNCHANGED <<prompt, attempt>>
     \/ /\ prompt = "whole" /\ (req.task # "triage" \/ ~f.named)
        /\ TaskFails
        /\ UNCHANGED <<prompt, attempt, verdict>>
  /\ UNCHANGED req

(* classify: the first block is answered by one more call with the         *)
(* description clamped hard, the second by the safe default; every other   *)
(* failure, and every failure of an extraction, leaves the task.           *)
CallFails(f) ==
  /\ failures' = Append(failures, f)
  /\ \/ /\ req.task = "triage" /\ f.named /\ prompt = "whole"
        /\ prompt' = "clamped" /\ attempt' = 0
        /\ UNCHANGED <<stage, verdict, reply>>
     \/ /\ req.task = "triage" /\ f.named /\ prompt = "clamped"
        /\ SafeDefault
        /\ UNCHANGED <<prompt, attempt>>
     \/ /\ req.task # "triage" \/ ~f.named
        /\ TaskFails
        /\ UNCHANGED <<prompt, attempt, verdict>>
  /\ UNCHANGED req

\* A block that starts the tries anew.
TryFailsAnew(blocked) ==
  /\ stage = "calling"
  /\ \/ /\ attempt + 1 < Attempts \/ blocked
        /\ attempt' = IF blocked THEN 0 ELSE attempt + 1
        /\ UNCHANGED <<req, stage, prompt, failures, verdict, reply>>
     \/ /\ attempt + 1 = Attempts /\ ~blocked
        /\ CallFails([blocked |-> FALSE, named |-> FALSE])

(* One try fails: the filter blocks it, or it times out, meets a 429 or    *)
(* any other error.  LLMUnavailableError quotes the last try's exception   *)
(* and no earlier one.                                                     *)
TryFails(blocked) ==
  /\ stage = "calling"
  /\ \/ /\ attempt + 1 < Attempts
        /\ attempt' = attempt + 1
        /\ UNCHANGED <<req, stage, prompt, failures, verdict, reply>>
     \/ /\ attempt + 1 = Attempts
        /\ CallFails([blocked |-> blocked, named |-> blocked])

(* The model answers with nothing, with what is no JSON object, or (triage *)
(* only, extraction validates nothing) with what TriageDecision refuses.   *)
Useless ==
  /\ stage = "calling"
  /\ CallFails([blocked |-> FALSE, named |-> FALSE])

Mismatch(r) ==
  /\ stage = "calling" /\ req.task = "triage"
  /\ CoerceCategory(r.category) \notin Categories
  /\ CallFails([blocked |-> FALSE, named |-> r.category = "odd, of a jailbreak"])

\* A decision that TriageDecision accepts, perhaps after coercion.
Decide(r) ==
  /\ stage = "calling" /\ req.task = "triage"
  /\ CoerceCategory(r.category) \in Categories
  /\ verdict' = Guarded([r EXCEPT !.category = CoerceCategory(@)])
  /\ Reply(200, "decision", FALSE)
  /\ UNCHANGED <<req, prompt, attempt, failures>>

(* A document is read and normalised.  json.loads and _coerce_number let   *)
(* NaN and the infinities through, and the JSON renderer refuses them      *)
(* after run_endpoint has returned.                                        *)
Extract(finite) ==
  /\ stage = "calling" /\ req.task = "extract"
  /\ \/ finite /\ Reply(200, "document", FALSE)
     \/ ~finite /\ Reply(500, "nothing", FALSE)
  /\ UNCHANGED <<req, prompt, attempt, failures, verdict>>

----------------------------------------------------------------------------
Next == \/ RejectType \/ Validate \/ Begin \/ EndWorkflow \/ Useless
        \/ \E blocked \in BOOLEAN : TryFails(blocked)
        \/ \E r \in Replies : Mismatch(r) \/ Decide(r)
        \/ \E finite \in BOOLEAN : Extract(finite)

(* The event loop runs what is ready, and a try that gets no answer times  *)
(* out.  That a workflow ends is Orchestrate!LoopEnds, with its timeout.   *)
Fairness == /\ WF_vars(RejectType) /\ WF_vars(Validate) /\ WF_vars(Begin)
            /\ WF_vars(EndWorkflow) /\ WF_vars(TryFails(FALSE))

Spec == Init /\ [][Next]_vars /\ Fairness

----------------------------------------------------------------------------
(* Properties                                                              *)

\* The type invariant: at most two calls of the model fail for one request.
TypeOK ==
  /\ req \in Requests
  /\ stage \in {"edge", "validated", "calling", "workflow", "answered"}
  /\ prompt \in {"whole", "clamped"}
  /\ attempt \in 0..(Attempts - 1)
  /\ failures \in Seq(Failures) /\ Len(failures) <= 2
  /\ verdict \in [category : Categories, team : Teams, escalate : BOOLEAN]
  /\ reply \in Answers

(* A signal with a phrase that must always escalate is escalated whenever  *)
(* it is routed at all (guardrails.py:52-54, 70), though the phrase may    *)
(* stand in a part of the description that no prompt showed the model,     *)
(* and though the filter may have kept the model from seeing any of it.    *)
AlarmEscalates ==
  reply.status = 200 /\ req.alarm # "absent" => verdict.escalate

(* What is routed as no mission signal goes to no team, and every other    *)
(* signal to some team (guardrails.py:65-68), whatever the model wrote     *)
(* into either field and whichever way the answer came about.              *)
TeamAgrees ==
  reply.body \in {"decision", "default"} =>
    (verdict.team = "none" <=> verdict.category = "noise")

(* Triage answers without a decision of the model only when both calls     *)
(* failed the way a block fails; any other failure, in either call, is a   *)
(* 503 for the platform to retry, and none is taken for an answer          *)
(* (classifier.py:62-85, main.py:83-95).                                   *)
SafeDefaultEarned ==
  LET n == Len(failures)
  IN /\ reply.body = "default" <=> n = 2 /\ failures[1].named /\ failures[2].named
     /\ reply.status = 503 <=> req.task = "triage" /\ n > 0 /\ ~failures[n].named
     /\ reply.body = "decision" => \A k \in 1..n : failures[k].named

(* Every request is answered, though Azure may answer no try: the clamped  *)
(* call is made once.                                                      *)
ReplyComes == <>(stage = "answered")

(* The safe default answers signals that Azure blocked (docs/architecture. *)
(* md:144, classifier.py:23-25 and :38).                                   *)
SafeDefaultMeansBlocked ==
  reply.body = "default" => \A k \in 1..Len(failures) : failures[k].blocked

=============================================================================
