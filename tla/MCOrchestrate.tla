--------------------------- MODULE MCOrchestrate ---------------------------
(* Small instances of the orchestration loop: a lookup, two notifications  *)
(* that can run in parallel, a call nobody can dispatch and one whose      *)
(* parameters cannot be encoded.                                           *)
EXTENDS Orchestrate

Lookup  == [tool |-> "crm", args |-> "x"]
NotifyA == [tool |-> "email_send", args |-> "a"]
NotifyB == [tool |-> "email_send", args |-> "b"]
Unknown == [tool |-> "unknown", args |-> "x"]
NotANumber == [tool |-> "email_send", args |-> "NaN"]

MCBatches  == {<<>>, <<Lookup>>, <<Lookup, NotifyA, NotifyB>>, <<Unknown, NotifyA>>,
               <<NotifyA, NotANumber>>}
MCStatuses == {"completed", "partial"}
MCRejected == {Unknown}
MCPoison   == {NotANumber}

============================================================================
