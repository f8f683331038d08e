------------------------------- MODULE MCExchange -------------------------------
(***************************************************************************)
(* An instance of Exchange with two processes: two memories to reflect on  *)
(* and two forced generations; three snapshots of three records, of which  *)
(* one has a text the provider rejects; four memories in a feed of pages   *)
(* of two, two of them of one instant; two keys over two days of two       *)
(* minutes; an account of four plays; three documents; and three checkouts *)
(* of up to four migrations.                                               *)
(***************************************************************************)
EXTENDS Exchange, TLC

CONSTANTS account, alpha, beta, bad

MCSays == << <<alpha, alpha, alpha>>, <<beta, None, None>>, <<alpha, bad, None>> >>
MCCreated == <<0, 3, 3, 5>>
MCLastPlay == account :> 4
MCContents == { <<1, 1>>, <<3>>, <<1, 3>> }
MCCheckouts == { [v \in 1..4 |-> "released"], [v \in {1, 2, 4} |-> "released"],
                 <<"edited", "released">> }

\* The components a behaviour is not about start in one state.
MCInit ==
  /\ Init
  /\ component # "transfer" => ~home
  /\ component # "migrations" => table = "absent"

MCSpec == MCInit /\ [][Next]_vars

\* Which process, key or memory is which makes no difference.
Interchangeable == Permutations(Processes) \cup Permutations(Evidence) \cup Permutations(Keys)
=============================================================================
