------------------------- MODULE MCSessionDistillation -------------------------
(***************************************************************************)
(* Two sessions that do not both fit into the month's money, one of them   *)
(* stored under the same identity with two requests.                       *)
(***************************************************************************)
EXTENDS SessionDistillation

CONSTANTS s1, s2, q1, q2

MCCost == [s \in Sessions |-> 2]

MCCalls == {[session |-> s1, request |-> q1], [session |-> s1, request |-> q2],
            [session |-> s2, request |-> q1]}
=============================================================================
