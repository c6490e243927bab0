---------------------------- MODULE TokenBucket ----------------------------
(***************************************************************************)
(* What the rate limiter promises its callers, with nothing said of locks, *)
(* sleeps or queues: a bucket that refills by itself, one unit per tick,   *)
(* and pays Cost units for every grant.                                    *)
(***************************************************************************)
EXTENDS Integers, Sequences

CONSTANTS Capacity,  (* units the full bucket holds *)
          Cost       (* units of one token          *)

VARIABLES now,     (* the clock, in ticks                     *)
          credit,  (* units in the bucket at this very moment *)
          grants   (* the times of all grants, oldest first   *)

vars == <<now, credit, grants>>

\* The smaller of two numbers.
Least(a, b) == IF a <= b THEN a ELSE b

Init == now = 0 /\ credit = Capacity /\ grants = <<>>

\* Time passes and the bucket fills up to its brim.
Tick == /\ now' = now + 1
        /\ credit' = Least(Capacity, credit + 1)
        /\ UNCHANGED grants

\* A request is let through, for a token.
Grant == /\ credit >= Cost
         /\ credit' = credit - Cost
         /\ grants' = Append(grants, now)
         /\ UNCHANGED now

Next == Tick \/ Grant

Spec == Init /\ [][Next]_vars

============================================================================
