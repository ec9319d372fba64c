------------------------------- MODULE MCScan -------------------------------
(***************************************************************************)
(* Small trees to scan.                                                    *)
(***************************************************************************)
EXTENDS Scan

MCPath == {"/", "d", "e", "a", "b", "x"}
MCCRC == {1, 2, 3}
MCFile == {"f1", "f2", "f3", "f4"}
MCId == {"i1", "i2"}

\* The paths in S have the value v, the others d.
On(S, v, d) == [p \in MCPath |-> IF p \in S THEN v ELSE d]

\* d holds the allexe a and the directory e, which holds b and a broken link x;
\* a and b share a module. a and b are one bitcode file for the other loader.
Nested ==
  [entries  |-> [p \in MCPath |-> CASE p = "/" -> {"d"} [] p = "d" -> {"a", "e"}
                                    [] p = "e" -> {"b", "x"} [] OTHER -> {}],
   type     |-> [p \in MCPath |-> CASE p \in {"/", "d", "e"} -> "directory"
                                    [] p = "x" -> "missing" [] OTHER -> "file"],
   readable |-> MCPath, nonempty |-> {"a", "b"},
   allexes  |-> {"a", "b"},
   modules  |-> [p \in MCPath |-> CASE p = "a" -> <<1, 2>> [] p = "b" -> <<2, 3>>
                                    [] OTHER -> <<>>],
   bitcode  |-> {"a", "b"}, id |-> On({}, "i1", "i1"),
   sources  |-> <<<<"f1">>, <<"f2">>, <<"f3">>>>, broken |-> {}]

\* e cannot be read, a is empty, b next to it is an allexe without modules, x a device.
Guarded ==
  [Nested EXCEPT !.entries = [p \in MCPath |-> CASE p = "/" -> {"e", "a", "b", "x"}
                                                 [] p = "e" -> {"d"} [] OTHER -> {}],
                 !.type = [@ EXCEPT !["x"] = "other"],
                 !.readable = MCPath \ {"e"}, !.nonempty = {"b", "x"},
                 !.modules = On({}, <<>>, <<>>), !.id = On({"b"}, "i2", "i1")]

\* The first two files are allexes, c2 cannot be read from the one it is found in.
BrokenModule ==
  [Nested EXCEPT !.entries = On({"/"}, {"a", "b", "x"}, {}), !.broken = {2},
                 !.nonempty = {"a", "b", "x"}, !.type = [@ EXCEPT !["x"] = "file"]]

\* The entries of d are listed, but their status is refused.
NoSearch ==
  [Nested EXCEPT !.type = [@ EXCEPT !["a"] = "error", !["e"] = "error"]]

Unreadable == [Nested EXCEPT !.readable = {}]
Empty == [Nested EXCEPT !.entries = On({}, {}, {})]

MCTrees == {Nested, Guarded, BrokenModule, NoSearch, Unreadable, Empty}
QuietTrees == {Nested, Guarded, NoSearch}
=============================================================================
