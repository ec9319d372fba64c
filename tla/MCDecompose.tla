---------------------------- MODULE MCDecompose ----------------------------
(***************************************************************************)
(* Small modules to decompose, chosen so that together they have every     *)
(* kind of link, of locality and of assembly.                              *)
(***************************************************************************)
EXTENDS Decompose

MCSym == {"a", "b", "c", "d"}

\* Four functions nothing keeps together, but b and d call each other.
Free == [defs |-> MCSym, local |-> {}, refs |-> {<<"b", "d">>, <<"d", "b">>},
         tied |-> {}, asm |-> "none"]

\* Three of them.
Loose == [Free EXCEPT !.defs = {"a", "b", "c"}, !.refs = {}]

\* Two local helpers, each with a user; the first pass has two clusters.
TwoHelpers == [defs |-> MCSym, local |-> {"b", "d"},
               refs |-> {<<"a", "b">>, <<"c", "d">>, <<"a", "c">>},
               tied |-> {}, asm |-> "none"]

\* A chain of locals whose last one is an alias of its user.
Chain == [defs |-> {"a", "b", "c"}, local |-> {"b", "c"},
          refs |-> {<<"a", "b">>, <<"b", "c">>}, tied |-> {<<"c", "b">>}, asm |-> "plain"]

\* A comdat, a local it uses, and assembly that defines a symbol.
WithAsm == [defs |-> {"a", "b", "c"}, local |-> {"c"}, refs |-> {<<"a", "c">>},
            tied |-> {<<"a", "b">>}, asm |-> "defining"]

\* Only assembly that defines a symbol.
OnlyAsm == [defs |-> {}, local |-> {}, refs |-> {}, tied |-> {}, asm |-> "defining"]

\* Declarations only.
Nothing == [OnlyAsm EXCEPT !.asm = "plain"]

AllInputs == {Free, TwoHelpers, Chain, WithAsm, OnlyAsm, Nothing}
SmallInputs == {Chain, WithAsm, OnlyAsm}
SomeInputs == SmallInputs \cup {TwoHelpers, Loose, Nothing}
=============================================================================
