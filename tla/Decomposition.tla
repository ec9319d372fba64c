--------------------------- MODULE Decomposition ---------------------------
(***************************************************************************)
(* What `allplay decompose` promises, whatever way it looks for a split:   *)
(* the contents of the input are cut into ever smaller blocks and every    *)
(* block that is cut no further is written once. Items that are tied are   *)
(* never cut apart.                                                        *)
(***************************************************************************)
CONSTANTS
  Inputs,      \* the possible inputs
  Items(_),    \* Items(m): what the input m is made of
  Tied(_)      \* Tied(m): the pairs of items that must stay together

VARIABLES
  source,    \* the input
  todo,      \* the blocks that may still be cut
  written,   \* the blocks that have been written
  outcome    \* "running" or "success"

vars == <<source, todo, written, outcome>>

Init ==
  /\ source \in Inputs
  /\ todo = {Items(source)} \ {{}}
  /\ written = {}
  /\ outcome = "running"

(***************************************************************************)
(* P cuts b: two or more disjoint non-empty blocks that make up b, none    *)
(* of which separates a tied pair.                                         *)
(***************************************************************************)
Cuts(P, b) ==
  /\ {} \notin P
  /\ UNION P = b
  /\ \E p, q \in P : p # q
  /\ \A p, q \in P : p # q => p \cap q = {}
  /\ \A t \in Tied(source) : {t[1], t[2]} \subseteq b =>
       \A p \in P : t[1] \in p <=> t[2] \in p

Refine ==
  /\ outcome = "running"
  /\ \E b \in todo : \E P \in SUBSET SUBSET b :
       /\ Cuts(P, b)
       /\ todo' = (todo \ {b}) \cup P
  /\ UNCHANGED <<source, written, outcome>>

Write ==
  /\ outcome = "running"
  /\ \E b \in todo :
       /\ todo' = todo \ {b}
       /\ written' = written \cup {b}
  /\ UNCHANGED <<source, outcome>>

Succeed ==
  /\ outcome = "running"
  /\ todo = {}
  /\ outcome' = "success"
  /\ UNCHANGED <<source, todo, written>>

Next == Refine \/ Write \/ Succeed

Spec == Init /\ [][Next]_vars /\ WF_vars(Write \/ Succeed)
=============================================================================
