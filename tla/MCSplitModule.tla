--------------------------- MODULE MCSplitModule ---------------------------
(***************************************************************************)
(* Small modules to split.                                                 *)
(***************************************************************************)
EXTENDS SplitModule

MCSym == {"f", "g", "h", "v", "a", "i"}
MCPureConst == {"k1", "k2"}
MCComdat == {"C"}

Only(S, x) == [s \in S |-> IF s \in DOMAIN x THEN x[s] ELSE {}]
UsersOf(x) == Only(MCSym \cup MCPureConst, x)

\* f, g and h are functions, v a variable, a an alias, i an ifunc.
Base ==
  [kind    |-> [s \in MCSym |-> CASE s = "v" -> "variable" [] s = "a" -> "alias"
                                  [] s = "i" -> "ifunc" [] OTHER -> "function"],
   defined |-> MCSym, local |-> {}, unnamed |-> {},
   comdat  |-> [s \in MCSym |-> None],
   base    |-> [s \in MCSym |-> IF s \in {"a", "i"} THEN "h" ELSE s],
   blocks  |-> [s \in MCSym |-> {}],
   users   |-> UsersOf([h |-> {"a", "i"}]),
   asm     |-> FALSE]

\* The local variable v is used by f through two nested constants; g is
\* recursive and local; h is only declared, a and i are not there at all.
NestedConstants ==
  [Base EXCEPT !.defined = {"f", "g", "v"}, !.local = {"v", "g"}, !.unnamed = {"v", "g"},
               !.users = UsersOf([v |-> {"k1"}, k1 |-> {"k2"}, k2 |-> {"f"}, g |-> {"g"}]),
               !.asm = TRUE]

\* f and v form a comdat, a block address of g is stored in h, a is an alias of h.
ComdatAndBlocks ==
  [Base EXCEPT !.comdat = [s \in MCSym |-> IF s \in {"f", "v"} THEN "C" ELSE None],
               !.blocks = [s \in MCSym |-> IF s = "g" THEN {"k1"} ELSE {}],
               !.users = UsersOf([h |-> {"a", "i"}, k1 |-> {"h"}, g |-> {"k1"}, v |-> {"g"}]),
               !.unnamed = {"f", "v"}]

\* A comdat with a local member, which keeps the other away from the hash.
LocalInComdat ==
  [Base EXCEPT !.local = {"v"}, !.defined = {"f", "g", "v", "h"},
               !.comdat = [s \in MCSym |-> IF s \in {"f", "v"} THEN "C" ELSE None],
               !.users = UsersOf([v |-> {"g"}, g |-> {"h"}])]

\* Three clusters: f with the local v, g with its recursive self, h with a.
ThreeClusters ==
  [Base EXCEPT !.local = {"v", "g"},
               !.users = UsersOf([v |-> {"f"}, g |-> {"g", "i"}, h |-> {"a", "i"}, f |-> {"h"}])]

\* The ifunc is local and f calls it.
LocalIfunc ==
  [Base EXCEPT !.defined = {"f", "h", "i"}, !.local = {"i"},
               !.users = UsersOf([h |-> {"i"}, i |-> {"f"}])]

\* f, its resolver h, and the ifunc that f calls come without names.
UnnamedIfunc == [LocalIfunc EXCEPT !.local = {}, !.unnamed = {"f", "h", "i"}]

MCInputs == {NestedConstants, ComdatAndBlocks, LocalInComdat, ThreeClusters, LocalIfunc,
             UnnamedIfunc}
OnlyLocalIfunc == {LocalIfunc}
=============================================================================
