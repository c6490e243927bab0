--------------------------- MODULE Service_proofs ---------------------------
(***************************************************************************)
(* Type correctness of the request's path, the guardrails and the safe     *)
(* default, for every number of tries.                                     *)
(***************************************************************************)
EXTENDS Service, SequenceTheorems, TLAPS

(* Where the request stands: calls are made for triages and extractions    *)
(* only, a prompt is clamped after one failure that looked like a block,   *)
(* and what has not been answered has no reply.                            *)
PathInv ==
  /\ TypeOK
  /\ stage # "answered" => reply = NoReply
  /\ stage = "calling" => req.task \in {"triage", "extract"}
  /\ stage = "workflow" => req.task = "orchestrate"
  /\ stage \in {"edge", "validated", "workflow"} => failures = <<>> /\ prompt = "whole"
  /\ stage = "calling" /\ prompt = "whole" => failures = <<>>
  /\ stage = "calling" /\ prompt = "clamped" =>
       req.task = "triage" /\ Len(failures) = 1 /\ failures[1].named

\* What the properties say of an answer.
AnswerInv == SafeDefaultEarned /\ AlarmEscalates /\ TeamAgrees

\* Which fields of a request depend on its task.
LEMMA RequestFields ==
  ASSUME NEW r \in Requests
  PROVE  /\ r.task \in {"triage", "extract", "orchestrate"}
         /\ r.alarm # "absent" => r.task = "triage"
         /\ r.image = "bad" => r.task = "extract"
BY DEF Requests

\* The guardrails keep the types of a decision.
LEMMA GuardedType ==
  ASSUME NEW c \in Categories, NEW t \in Teams, NEW e \in BOOLEAN
  PROVE  Guarded([category |-> c, team |-> t, escalate |-> e])
           \in [category : Categories, team : Teams, escalate : BOOLEAN]
<1>1. DefaultTeam(c) \in Teams
  BY DEF DefaultTeam, Teams, Categories
<1>2. "none" \in Teams
  BY DEF Teams
<1> QED
  BY <1>1, <1>2 DEF Guarded

(* Every category but noise has a default team, so a guarded decision goes *)
(* to no team exactly when it is noise (guardrails.py:14-22, 65-68).       *)
LEMMA GuardedTeam ==
  ASSUME NEW c \in Categories, NEW t \in Teams, NEW e \in BOOLEAN
  PROVE  LET g == Guarded([category |-> c, team |-> t, escalate |-> e])
         IN g.team = "none" <=> g.category = "noise"
<1>1. c # "noise" => DefaultTeam(c) # "none"
  BY DEF DefaultTeam, Categories
<1> QED
  BY <1>1 DEF Guarded

\* An alarm phrase escalates whatever was decided.
LEMMA GuardedAlarm ==
  ASSUME NEW c, NEW t, NEW e, req.alarm # "absent"
  PROVE  Guarded([category |-> c, team |-> t, escalate |-> e]).escalate
BY DEF Guarded, MustEscalate

\* One more failure on the record.
LEMMA OneMore ==
  ASSUME NEW fs \in Seq(Failures), NEW f \in Failures
  PROVE  /\ Append(fs, f) \in Seq(Failures)
         /\ Len(Append(fs, f)) = Len(fs) + 1
         /\ \A k \in 1..Len(fs) : Append(fs, f)[k] = fs[k]
         /\ Append(fs, f)[Len(fs) + 1] = f
BY AppendProperties

\* The answers that no decision goes with.
LEMMA AnswerTypes ==
  /\ \A s \in {400, 415, 422} : [status |-> s, body |-> "detail", error |-> FALSE] \in Answers
  /\ [status |-> 503, body |-> "detail", error |-> TRUE] \in Answers
  /\ [status |-> 200, body |-> "fallback", error |-> TRUE] \in Answers
  /\ [status |-> 200, body |-> "report", error |-> FALSE] \in Answers
  /\ [status |-> 200, body |-> "document", error |-> FALSE] \in Answers
  /\ [status |-> 500, body |-> "nothing", error |-> FALSE] \in Answers
BY DEF Answers

\* An answer that touches nothing else keeps the path.
LEMMA AnsweredPath ==
  ASSUME PathInv, stage' = "answered", reply' \in Answers,
         UNCHANGED <<req, prompt, attempt, failures, verdict>>
  PROVE  PathInv'
<1>1. TypeOK'
  BY DEF PathInv, TypeOK
<1> QED
  BY <1>1 DEF PathInv

\* Answering with the safe default keeps the types, the path and the answer.
LEMMA DefaultRight ==
  ASSUME PathInv, stage = "calling", req.task = "triage", prompt = "clamped",
         SafeDefault, UNCHANGED <<req, prompt, attempt>>,
         NEW f \in Failures, f.named, failures' = Append(failures, f)
  PROVE  PathInv' /\ AnswerInv'
<1>1. Len(failures) = 1 /\ failures[1].named /\ failures \in Seq(Failures)
  BY DEF PathInv, TypeOK
<1>2. /\ failures' \in Seq(Failures) /\ Len(failures') = 2
      /\ failures'[1] = failures[1] /\ failures'[2] = f
  <2>1. /\ failures' \in Seq(Failures)
        /\ Len(failures') = Len(failures) + 1
        /\ \A k \in 1..Len(failures) : failures'[k] = failures[k]
        /\ failures'[Len(failures) + 1] = f
    BY <1>1, OneMore
  <2> QED
    BY <1>1, <2>1
<1>3. verdict' \in [category : Categories, team : Teams, escalate : BOOLEAN]
  BY GuardedType DEF SafeDefault, Categories, Teams
<1>4. verdict'.team = "none" /\ verdict'.category = "noise" /\ verdict'.escalate
  BY DEF SafeDefault, Guarded
<1>5. stage' = "answered" /\ reply' = [status |-> 200, body |-> "default", error |-> FALSE]
  BY DEF SafeDefault, Reply
<1>6. PathInv'
  BY <1>2, <1>3, <1>5 DEF PathInv, TypeOK, Answers
<1>7. AnswerInv'
  BY <1>1, <1>2, <1>4, <1>5 DEF AnswerInv, SafeDefaultEarned, AlarmEscalates, TeamAgrees
<1> QED
  BY <1>6, <1>7

\* A failure of a call keeps all of them, whatever it is answered by.
LEMMA CallFailsRight ==
  ASSUME PathInv, AnswerInv, stage = "calling", NEW f \in Failures, CallFails(f)
  PROVE  PathInv' /\ AnswerInv'
<1>1. CASE /\ req.task = "triage" /\ f.named /\ prompt = "whole"
           /\ prompt' = "clamped" /\ attempt' = 0
           /\ UNCHANGED <<stage, verdict, reply>>
  <2>1. failures = <<>>
    BY <1>1 DEF PathInv
  <2>2. failures' = <<f>>
    BY <2>1 DEF CallFails
  <2>3. failures' \in Seq(Failures) /\ Len(failures') = 1 /\ failures'[1] = f
    BY <2>2
  <2>4. reply' = NoReply /\ req' = req /\ stage' = "calling"
    BY <1>1 DEF CallFails, PathInv
  <2>5. PathInv'
    BY <1>1, <2>3, <2>4, ServiceAssumption DEF PathInv, TypeOK, ServiceAssumption
  <2>6. AnswerInv'
    BY <1>1, <2>3, <2>4 DEF AnswerInv, SafeDefaultEarned, AlarmEscalates, TeamAgrees, NoReply
  <2> QED
    BY <2>5, <2>6
<1>2. CASE /\ req.task = "triage" /\ f.named /\ prompt = "clamped"
           /\ SafeDefault
           /\ UNCHANGED <<prompt, attempt>>
  BY <1>2, DefaultRight DEF CallFails
<1>3. CASE /\ req.task # "triage" \/ ~f.named
           /\ TaskFails
           /\ UNCHANGED <<prompt, attempt, verdict>>
  <2>1. failures \in Seq(Failures) /\ Len(failures) \in {0, 1}
    <3>1. prompt \in {"whole", "clamped"} /\ failures \in Seq(Failures)
      BY DEF PathInv, TypeOK
    <3>2. prompt = "whole" => Len(failures) = 0
      BY DEF PathInv
    <3>3. prompt = "clamped" => Len(failures) = 1
      BY DEF PathInv
    <3> QED
      BY <3>1, <3>2, <3>3
  <2>2. /\ failures' \in Seq(Failures) /\ Len(failures') = Len(failures) + 1
        /\ failures'[Len(failures')] = f
    <3>1. /\ failures' \in Seq(Failures)
          /\ Len(failures') = Len(failures) + 1
          /\ failures'[Len(failures) + 1] = f
      BY <2>1, OneMore DEF CallFails
    <3> QED
      BY <3>1
  <2>3. /\ stage' = "answered" /\ req' = req
        /\ reply' = IF req.task = "triage"
                    THEN [status |-> 503, body |-> "detail", error |-> TRUE]
                    ELSE [status |-> 200, body |-> "fallback", error |-> TRUE]
    BY <1>3 DEF TaskFails, Reply, CallFails
  <2>4. PathInv'
    <3>1. reply' \in Answers
      BY <2>3, AnswerTypes
    <3>2. TypeOK'
      <4>1. Len(failures') <= 2
        <5>1. Len(failures) \in {0, 1}
          BY <2>1
        <5>2. \A n \in {0, 1} : n + 1 <= 2
          OBVIOUS
        <5> QED
          BY <2>2, <5>1, <5>2
      <4> QED
        BY <1>3, <2>2, <2>3, <3>1, <4>1 DEF PathInv, TypeOK
    <3> QED
      BY <2>3, <3>2 DEF PathInv
  <2>5. SafeDefaultEarned'
    <3>1. Len(failures') > 0
      <4>1. Len(failures) + 1 > 0
        BY <2>1
      <4> QED
        BY <2>2, <4>1
    <3>2. CASE req.task = "triage"
      <4>1. ~failures'[Len(failures')].named /\ reply'.status = 503 /\ reply'.body = "detail"
        BY <1>3, <2>2, <2>3, <3>2
      <4> QED
        BY <2>3, <3>1, <3>2, <4>1 DEF SafeDefaultEarned
    <3>3. CASE req.task # "triage"
      <4>1. prompt # "clamped" /\ Len(failures) = 0
        BY <3>3 DEF PathInv, TypeOK
      <4>2. Len(failures') = 1
        BY <2>2, <4>1
      <4> QED
        BY <2>3, <3>3, <4>2 DEF SafeDefaultEarned
    <3> QED
      BY <3>2, <3>3
  <2>6. AlarmEscalates' /\ TeamAgrees'
    BY <2>3, RequestFields DEF AlarmEscalates, TeamAgrees, PathInv, TypeOK
  <2> QED
    BY <2>4, <2>5, <2>6 DEF AnswerInv
<1> QED
  BY <1>1, <1>2, <1>3 DEF CallFails

\* An answer of the model to a signal keeps all of them.
LEMMA DecideRight ==
  ASSUME PathInv, AnswerInv, NEW r \in Replies, Decide(r)
  PROVE  PathInv' /\ AnswerInv'
<1> DEFINE c == CoerceCategory(r.category)
<1>1. c \in Categories /\ r.team \in Teams /\ r.escalate \in BOOLEAN
  BY DEF Decide, Replies
<1>2. verdict' = Guarded([category |-> c, team |-> r.team, escalate |-> r.escalate])
  <2>1. [r EXCEPT !.category = CoerceCategory(@)]
          = [category |-> c, team |-> r.team, escalate |-> r.escalate]
    BY DEF Replies
  <2> QED
    BY <2>1 DEF Decide
<1>3. verdict' \in [category : Categories, team : Teams, escalate : BOOLEAN]
  BY <1>1, <1>2, GuardedType
<1>4. verdict'.team = "none" <=> verdict'.category = "noise"
  BY <1>1, <1>2, GuardedTeam
<1>5. req.alarm # "absent" => verdict'.escalate
  BY <1>1, <1>2, GuardedAlarm
<1>6. /\ stage = "calling" /\ stage' = "answered" /\ req.task = "triage"
      /\ reply' = [status |-> 200, body |-> "decision", error |-> FALSE]
      /\ UNCHANGED <<req, prompt, attempt, failures>>
  BY DEF Decide, Reply
<1>7. PathInv'
  BY <1>3, <1>6 DEF PathInv, TypeOK, Answers
<1>8. SafeDefaultEarned'
  <2>1. Len(failures) = 0 \/ (Len(failures) = 1 /\ failures[1].named)
    BY <1>6 DEF PathInv, TypeOK
  <2> QED
    BY <1>6, <2>1 DEF SafeDefaultEarned
<1> QED
  BY <1>4, <1>5, <1>6, <1>7, <1>8 DEF AnswerInv, AlarmEscalates, TeamAgrees

\* Every step keeps the path and the answer.
LEMMA StepRight ==
  ASSUME PathInv, AnswerInv, [Next]_vars
  PROVE  PathInv' /\ AnswerInv'
<1>1. CASE RejectType
  <2>1. /\ reply' = [status |-> 415, body |-> "detail", error |-> FALSE]
        /\ stage' = "answered" /\ failures = <<>>
        /\ UNCHANGED <<req, prompt, attempt, failures, verdict>>
    BY <1>1 DEF RejectType, Reply, PathInv
  <2>2. PathInv'
    BY <2>1, AnswerTypes, AnsweredPath
  <2> QED
    BY <2>1, <2>2 DEF AnswerInv, SafeDefaultEarned, AlarmEscalates, TeamAgrees
<1>2. CASE Validate
  <2>1. failures = <<>> /\ UNCHANGED <<req, prompt, attempt, failures, verdict>>
    BY <1>2 DEF Validate, PathInv
  <2>2. CASE Reply(400, "detail", FALSE) \/ Reply(422, "detail", FALSE)
    <3>1. /\ stage' = "answered" /\ reply'.body = "detail" /\ reply'.status \in {400, 422}
          /\ reply' \in Answers
      <4>1. CASE Reply(400, "detail", FALSE)
        BY <4>1, AnswerTypes DEF Reply
      <4>2. CASE Reply(422, "detail", FALSE)
        BY <4>2, AnswerTypes DEF Reply
      <4> QED
        BY <2>2, <4>1, <4>2
    <3>2. PathInv'
      BY <2>1, <3>1, AnsweredPath
    <3> QED
      BY <2>1, <3>1, <3>2 DEF AnswerInv, SafeDefaultEarned, AlarmEscalates, TeamAgrees
  <2>3. CASE stage' = "validated" /\ UNCHANGED reply
    <3>1. PathInv'
      BY <1>2, <2>1, <2>3 DEF Validate, PathInv, TypeOK
    <3> QED
      BY <2>1, <2>3, <3>1 DEF AnswerInv, SafeDefaultEarned, AlarmEscalates, TeamAgrees
  <2> QED
    BY <1>2, <2>2, <2>3 DEF Validate
<1>3. CASE Begin
  <2>1. req \in Requests /\ stage = "validated" /\ failures = <<>> /\ prompt = "whole"
        /\ UNCHANGED <<req, prompt, attempt, failures, verdict>>
    BY <1>3 DEF Begin, PathInv, TypeOK
  <2>2. \/ stage' = "answered" /\ req.task = "extract"
           /\ reply' = [status |-> 200, body |-> "fallback", error |-> TRUE]
        \/ stage' = "workflow" /\ req.task = "orchestrate" /\ reply' = NoReply
        \/ stage' = "calling" /\ req.task \in {"triage", "extract"} /\ reply' = NoReply
    <3>1. CASE req.image = "bad"
      BY <1>3, <2>1, <3>1, RequestFields DEF Begin, TaskFails, Reply
    <3>2. CASE req.image # "bad" /\ req.task = "orchestrate"
      BY <1>3, <2>1, <3>2 DEF Begin, PathInv
    <3>3. CASE req.image # "bad" /\ req.task # "orchestrate"
      BY <1>3, <2>1, <3>3, RequestFields DEF Begin, PathInv
    <3> QED
      BY <3>1, <3>2, <3>3
  <2>3. PathInv'
    <3>1. CASE stage' = "answered"
      <4>1. reply' = [status |-> 200, body |-> "fallback", error |-> TRUE]
        BY <2>2, <3>1
      <4> QED
        BY <2>1, <3>1, <4>1, AnswerTypes, AnsweredPath
    <3>2. CASE stage' # "answered"
      BY <2>1, <2>2, <3>2 DEF PathInv, TypeOK, NoReply
    <3> QED
      BY <3>1, <3>2
  <2> QED
    BY <2>1, <2>2, <2>3, RequestFields DEF NoReply, AnswerInv, SafeDefaultEarned, AlarmEscalates, TeamAgrees
<1>4. CASE EndWorkflow
  <2>1. req \in Requests /\ req.task = "orchestrate" /\ failures = <<>>
    BY <1>4 DEF EndWorkflow, PathInv, TypeOK
  <2>2. /\ stage' = "answered" /\ UNCHANGED <<req, prompt, attempt, failures, verdict>>
        /\ \/ reply' = [status |-> 200, body |-> "report", error |-> FALSE]
           \/ reply' = [status |-> 200, body |-> "fallback", error |-> TRUE]
    BY <1>4, <2>1 DEF EndWorkflow, TaskFails, Reply
  <2>3. PathInv'
    <3>1. reply' \in Answers
      <4>1. CASE reply' = [status |-> 200, body |-> "report", error |-> FALSE]
        BY <4>1, AnswerTypes
      <4>2. CASE reply' = [status |-> 200, body |-> "fallback", error |-> TRUE]
        BY <4>2, AnswerTypes
      <4> QED
        BY <2>2, <4>1, <4>2
    <3> QED
      BY <2>2, <3>1, AnsweredPath
  <2> QED
    BY <2>1, <2>2, <2>3, RequestFields DEF AnswerInv, SafeDefaultEarned, AlarmEscalates, TeamAgrees
<1>5. CASE Useless
  BY <1>5, CallFailsRight DEF Useless, Failures
<1>6. ASSUME NEW blocked \in BOOLEAN, TryFails(blocked) PROVE PathInv' /\ AnswerInv'
  <2>1. CASE /\ attempt + 1 < Attempts
             /\ attempt' = attempt + 1
             /\ UNCHANGED <<req, stage, prompt, failures, verdict, reply>>
    <3>1. PathInv'
      BY <2>1, ServiceAssumption DEF PathInv, TypeOK, ServiceAssumption
    <3> QED
      BY <2>1, <3>1 DEF AnswerInv, SafeDefaultEarned, AlarmEscalates, TeamAgrees
  <2>2. CASE CallFails([blocked |-> blocked, named |-> blocked])
    BY <1>6, <2>2, CallFailsRight DEF TryFails, Failures
  <2> QED
    BY <1>6, <2>1, <2>2 DEF TryFails
<1>7. ASSUME NEW r \in Replies, Mismatch(r) PROVE PathInv' /\ AnswerInv'
  BY <1>7, CallFailsRight DEF Mismatch, Failures
<1>8. ASSUME NEW r \in Replies, Decide(r) PROVE PathInv' /\ AnswerInv'
  BY <1>8, DecideRight
<1>9. ASSUME NEW finite \in BOOLEAN, Extract(finite) PROVE PathInv' /\ AnswerInv'
  <2>1. req \in Requests /\ req.task = "extract" /\ failures = <<>>
    BY <1>9 DEF Extract, PathInv, TypeOK
  <2>2. /\ stage' = "answered" /\ UNCHANGED <<req, prompt, attempt, failures, verdict>>
        /\ \/ reply' = [status |-> 200, body |-> "document", error |-> FALSE]
           \/ reply' = [status |-> 500, body |-> "nothing", error |-> FALSE]
    BY <1>9 DEF Extract, Reply
  <2>3. PathInv'
    <3>1. reply' \in Answers
      <4>1. CASE reply' = [status |-> 200, body |-> "document", error |-> FALSE]
        BY <4>1, AnswerTypes
      <4>2. CASE reply' = [status |-> 500, body |-> "nothing", error |-> FALSE]
        BY <4>2, AnswerTypes
      <4> QED
        BY <2>2, <4>1, <4>2
    <3> QED
      BY <2>2, <3>1, AnsweredPath
  <2> QED
    BY <2>1, <2>2, <2>3, RequestFields DEF AnswerInv, SafeDefaultEarned, AlarmEscalates, TeamAgrees
<1>10. CASE UNCHANGED vars
  BY <1>10 DEF vars, PathInv, TypeOK, AnswerInv, SafeDefaultEarned, AlarmEscalates, TeamAgrees
<1> QED
  BY <1>1, <1>2, <1>3, <1>4, <1>5, <1>6, <1>7, <1>8, <1>9, <1>10 DEF Next

\* The invariant behind the theorems below.
LEMMA RequestInvariant == Spec => [](PathInv /\ AnswerInv)
<1>1. Init => PathInv /\ AnswerInv
  BY ServiceAssumption
  DEF Init, PathInv, TypeOK, Answers, NoReply, NoVerdict, Categories, Teams, ServiceAssumption,
      AnswerInv, SafeDefaultEarned, AlarmEscalates, TeamAgrees
<1> QED
  BY <1>1, StepRight, PTL DEF Spec

\* The type invariant, and with it that at most two calls fail for a request.
THEOREM TypeCorrect == Spec => []TypeOK
<1>1. PathInv => TypeOK
  BY DEF PathInv
<1> QED
  BY <1>1, RequestInvariant, PTL

(* A signal with a phrase that must always escalate is escalated whenever  *)
(* it is routed (guardrails.py:57-82).                                     *)
THEOREM AlarmHeard == Spec => []AlarmEscalates
<1>1. AnswerInv => AlarmEscalates
  BY DEF AnswerInv
<1> QED
  BY <1>1, RequestInvariant, PTL

(* Noise goes to no team, every other signal to some team                  *)
(* (guardrails.py:65-68).                                                  *)
THEOREM TeamRight == Spec => []TeamAgrees
<1>1. AnswerInv => TeamAgrees
  BY DEF AnswerInv
<1> QED
  BY <1>1, RequestInvariant, PTL

(* The safe default takes two failures that look like blocks, and every    *)
(* other failure of a triage is a 503 (classifier.py:62-85).               *)
THEOREM DefaultEarned == Spec => []SafeDefaultEarned
<1>1. AnswerInv => SafeDefaultEarned
  BY DEF AnswerInv
<1> QED
  BY <1>1, RequestInvariant, PTL
=============================================================================
