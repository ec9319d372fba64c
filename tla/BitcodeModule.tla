--------------------------- MODULE BitcodeModule ---------------------------
(***************************************************************************)
(* What decompose and SplitModule need to know of an LLVM module, and what *)
(* one call of SplitModule may answer.                                     *)
(*                                                                         *)
(* A module is a set of defined symbols with, between them, references and *)
(* ties. Declarations are left out: every partition gets the ones it uses  *)
(* back as external declarations, and removeDeadGlobalDecls drops the      *)
(* others. Only the module-level inline assembly can define symbols        *)
(* that are not global values.                                             *)
(***************************************************************************)
EXTENDS Naturals, FiniteSets

CONSTANTS
  Sym,          \* the names of the global values
  SplitFactor   \* the number of partitions asked of SplitModule (11)

ASSUME SplitFactorAssumption == SplitFactor \in Nat \ {0, 1}

ASSUME SymAssumption == "asm" \notin Sym

Slot == 0 .. SplitFactor - 1

(***************************************************************************)
(* An input module. refs holds <<user, used>> for each definition that     *)
(* another one mentions, directly or through constants; local the symbols  *)
(* with local linkage; tied the pairs that may not be separated whatever   *)
(* their linkage: two members of a comdat, an alias and its base, a        *)
(* function and a user of one of its block addresses. Module-level         *)
(* assembly may be absent, define no symbol, or define one.                *)
(***************************************************************************)
AsmKind == {"none", "plain", "defining"}

InputModule ==
  [defs  : SUBSET Sym,
   local : SUBSET Sym,
   refs  : SUBSET (Sym \X Sym),
   tied  : SUBSET (Sym \X Sym),
   asm   : AsmKind]

(***************************************************************************)
(* The pairs of D that a split has to keep in one partition: the ties, and *)
(* each local symbol with its users unless the split may externalize it.   *)
(***************************************************************************)
LinksWithoutLocals(m, D, ext) == m.tied \cap (D \X D)   \* mutant

LinksWithoutTies(m, D, ext) ==   \* mutant
  {l \in D \X D : ~ext /\ l[2] \in m.local /\ l \in m.refs}

Links(m, D, ext) ==
  {l \in D \X D : \/ l \in m.tied
                  \/ ~ext /\ l[2] \in m.local /\ l \in m.refs}

(***************************************************************************)
(* The clusters: the smallest sets that no link leaves. A is closed when   *)
(* no link has one end in it only.                                         *)
(***************************************************************************)
Closed(A, L) == \A l \in L : l[1] \in A <=> l[2] \in A

Cluster(a, D, L) == {b \in D : \A A \in SUBSET D : Closed(A, L) /\ a \in A => b \in A}

BigClusters(D, L) == {C \in {Cluster(a, D, L) : a \in D} : \E x, y \in C : x # y}

(***************************************************************************)
(* What SplitModule may answer for the definitions D: each goes to one     *)
(* slot, linked ones to the same. Symbols in no cluster go where the MD5   *)
(* of the module identifier and their name sends them, which may be        *)
(* anywhere. Clusters go to the least loaded slot, the largest first, so   *)
(* two of them share a slot only when no slot is left without one.         *)
(***************************************************************************)
KeepsLinks(f, L) == \A l \in L : f[l[1]] = f[l[2]]

SpreadByHash(f, D, L) == TRUE   \* mutant: clusters are placed at random too

Spread(f, D, L) ==
  \A B, C \in BigClusters(D, L) :
     B # C /\ (\E b \in B, c \in C : f[b] = f[c])
       => \A s \in Slot : \E E \in BigClusters(D, L) : \A e \in E : f[e] = s

Placements(D, L) == {f \in [D -> Slot] : KeepsLinks(f, L) /\ Spread(f, D, L)}
=============================================================================
