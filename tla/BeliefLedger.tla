----------------------------- MODULE BeliefLedger -----------------------------
(***************************************************************************)
(* What the lifecycle of a memory promises, without clocks, revisions,     *)
(* locks or clients.  A memory is shown, replaced by a newer belief (past), *)
(* folded into a canonical, or forgotten; nothing that is not shown is     *)
(* reworded, except that a past period of a profile may be; forgetting     *)
(* takes the canonical along; only what was forgotten or was never         *)
(* permanent disappears.                                                   *)
(***************************************************************************)
CONSTANTS Ids, Bodies, None

VARIABLES
  phase,      \* where each memory is in its life
  text,       \* what it says
  fold,       \* the canonical it was folded into
  permanent,  \* the memories without an expiry
  profile     \* the memories that are periods of a profile

ledger == <<phase, text, fold, permanent, profile>>

Phases == {"absent", "shown", "past", "folded", "forgotten", "gone"}

LedgerTypeOK ==
  /\ phase \in [Ids -> Phases]
  /\ text \in [Ids -> Bodies \cup {None}]
  /\ fold \in [Ids -> Ids \cup {None}]
  /\ permanent \subseteq Ids
  /\ profile \subseteq Ids

LedgerInit ==
  /\ phase = [i \in Ids |-> "absent"]
  /\ text = [i \in Ids |-> None]
  /\ fold = [i \in Ids |-> None]
  /\ permanent = {}
  /\ profile = {}

Publish(i, body) ==
  /\ phase[i] = "absent"
  /\ phase' = [phase EXCEPT ![i] = "shown"]
  /\ text' = [text EXCEPT ![i] = body]
  /\ permanent' \in {permanent, permanent \cup {i}}
  /\ profile' \in {profile, profile \cup {i}}
  /\ UNCHANGED fold

Amend(i, body) ==
  /\ phase[i] = "shown"
  /\ text' = [text EXCEPT ![i] = body]
  /\ permanent' \in {permanent \ {i}, permanent \cup {i}}
  /\ UNCHANGED <<phase, fold, profile>>

\* A period is computed again, although a later one took its place.
Recompute(i, body) ==
  /\ i \in profile
  /\ phase[i] = "past"
  /\ text' = [text EXCEPT ![i] = body]
  /\ UNCHANGED <<phase, fold, permanent, profile>>

\* s, new or already shown, takes the place of p.
Replace(p, s, body) ==
  /\ p # s
  /\ phase[p] = "shown"
  /\ phase[s] \in {"absent", "shown"}
  /\ phase' = [phase EXCEPT ![p] = "past", ![s] = "shown"]
  /\ text' = [text EXCEPT ![s] = body]
  /\ permanent' = permanent \cup {s}
  /\ profile' \in {profile, profile \cup {s}}
  /\ UNCHANGED fold

Several(S) == \E i, j \in S : i # j

Fold(S, c, body) ==
  /\ Several(S)
  /\ \A i \in S : phase[i] = "shown"
  /\ phase[c] = "absent"
  /\ phase' = [i \in Ids |-> IF i \in S THEN "folded" ELSE IF i = c THEN "shown" ELSE phase[i]]
  /\ text' = [text EXCEPT ![c] = body]
  /\ fold' = [i \in Ids |-> IF i \in S THEN c ELSE fold[i]]
  /\ permanent' = permanent \cup {c}
  /\ UNCHANGED profile

\* Every member that is left comes back at once, except the forgotten ones.
Unfold(c) ==
  LET S == {i \in Ids : fold[i] = c}
  IN  /\ Several(S)
      /\ phase' = [i \in Ids |-> IF i = c THEN "forgotten"
                                 ELSE IF i \in S /\ phase[i] = "folded" THEN "shown"
                                 ELSE phase[i]]
      /\ fold' = [i \in Ids |-> IF i \in S THEN None ELSE fold[i]]
      /\ UNCHANGED <<text, permanent, profile>>

Retract(S) ==
  /\ \A i \in S : phase[i] \in {"shown", "past", "folded"}
  /\ \A i \in S : fold[i] # None => fold[i] \in S \/ phase[fold[i]] = "forgotten"
  /\ phase' = [i \in Ids |-> IF i \in S THEN "forgotten" ELSE phase[i]]
  /\ UNCHANGED <<text, fold, permanent, profile>>

Drop(S) ==
  /\ \A i \in S : phase[i] = "forgotten" \/ (phase[i] # "absent" /\ i \notin permanent)
  /\ \A i \in Ids \ S : fold[i] \notin S
  /\ phase' = [i \in Ids |-> IF i \in S THEN "gone" ELSE phase[i]]
  /\ text' = [i \in Ids |-> IF i \in S THEN None ELSE text[i]]
  /\ fold' = [i \in Ids |-> IF i \in S THEN None ELSE fold[i]]
  /\ permanent' = permanent \ S
  /\ profile' = profile \ S

LedgerNext ==
  \/ \E i \in Ids, body \in Bodies : Publish(i, body) \/ Amend(i, body) \/ Recompute(i, body)
  \/ \E p, s \in Ids, body \in Bodies : Replace(p, s, body)
  \/ \E S \in SUBSET Ids, c \in Ids, body \in Bodies : Fold(S, c, body)
  \/ \E c \in Ids : Unfold(c)
  \/ \E S \in SUBSET Ids : Retract(S) \/ Drop(S)

LedgerSpec == LedgerInit /\ [][LedgerNext]_ledger
=============================================================================
