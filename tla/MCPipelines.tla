------------------------------- MODULE MCPipelines -------------------------------
(***************************************************************************)
(* An instance of Pipelines with two processes: one memory; three visits   *)
(* in pages of one; two servers, one of them with a play of another        *)
(* account; two events; two rows; and three stores of which the budget     *)
(* pays for one large or two small ones.                                   *)
(***************************************************************************)
EXTENDS Pipelines, TLC

CONSTANTS i1, i2, i3, fa, fb

MCForeign == {<<fa, 2>>}
MCLastPlay == (fa :> 2) @@ (fb :> 1)
MCEstimate == (i1 :> 2) @@ (i2 :> 1) @@ (i3 :> 1)

\* The components a behaviour is not about start in one state, and the first row to embed
\* is there from the beginning.
MCInit ==
  /\ Init
  /\ component # "entities" => sources = [m \in Mems |-> E!NoSource]
  /\ memories[1].state = "active"
  /\ component # "embedding" => memories[2].state = "active"
  /\ component # "server" => mutation = FALSE

MCSpec == MCInit /\ [][Next]_vars /\ Fairness
=============================================================================
