------------------------------ MODULE MCHarness ------------------------------
(***************************************************************************)
(* A run of two tasks: one document, then two workflows with one tool that *)
(* has two responses recorded for either.                                  *)
(***************************************************************************)
EXTENDS Harness

MCTaskRuns == <<[items |-> <<"d1">>, adversarial |-> {}, mocked |-> FALSE],
                [items |-> <<"w1", "w2">>, adversarial |-> {"w2"}, mocked |-> TRUE]>>
MCRecorded == ("w1" :> [t \in Tools |-> 2]) @@ ("w2" :> [t \in Tools |-> 2])
MCOtherKeys == {<<"dev", "w2">>}
MCProbes == <<"concurrent_burst">>
MCTierScores == <<"gpt-5">> :> 75
MCDotted == <<>>

=============================================================================
