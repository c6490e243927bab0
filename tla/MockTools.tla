------------------------------ MODULE MockTools ------------------------------
(***************************************************************************)
(* eval/mock_tool_service.py: canned tool responses, replayed in the order *)
(* in which they were recorded.  A scenario's URL may carry the prefix of  *)
(* a session; the calls of each session are counted apart.                 *)
(***************************************************************************)
EXTENDS Integers, Sequences

CONSTANTS Sessions,   (* the prefixes in use; one of them is no prefix      *)
          Scenarios,  (* _MOCK_DATA's scenarios                             *)
          Tools,      (* the names of tools                                 *)
          Recorded    (* how many responses a scenario has for a tool       *)

ASSUME MockAssumption == Recorded \in [Scenarios -> [Tools -> Nat]]

VARIABLE counters  (* _CALL_COUNTERS: by session and scenario, then by tool;
                      an entry not there is 0                               *)

Keys == Sessions \X Scenarios
Unused == [t \in Tools |-> 0]

\* Which response, from 0 on, the n-th call gets: when all were given, the last.
Response(scenario, tool, n) ==
  IF n < Recorded[scenario][tool] THEN n ELSE Recorded[scenario][tool] - 1

\* One count for all scenarios of a session.
call_tool_shared(key, tool) ==
  /\ Recorded[key[2]][tool] > 0
  /\ counters' = [k \in Keys |-> IF k[1] = key[1]
                                 THEN [counters[k] EXCEPT ![tool] = @ + 1] ELSE counters[k]]

(* A call of a tool the scenario has no response for is a 404 and is not   *)
(* counted.                                                                *)
call_tool(key, tool) ==
  /\ Recorded[key[2]][tool] > 0
  /\ counters' = [counters EXCEPT ![key][tool] = @ + 1]

reset_scenario(key) == counters' = [counters EXCEPT ![key] = Unused]
reset_all == counters' = [k \in Keys |-> Unused]
reset_session(session) ==
  counters' = [k \in Keys |-> IF k[1] = session THEN Unused ELSE counters[k]]

=============================================================================
