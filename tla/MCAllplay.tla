------------------------------ MODULE MCAllplay ------------------------------
(***************************************************************************)
(* Runs of allplay on the trees of MCScan and a few more.                  *)
(***************************************************************************)
EXTENDS Allplay, TomlText, MCScan

\* Paths as they appear in outputs: x is below nix/store, so it loses as much as b.
MCShort == [p \in MCPath \cup MCFile \cup {"", "several"} |-> IF p = "x" THEN "b" ELSE p]

MCOutput == {"modules", "funcs", "allexes", "contains", "globals", "modglobals", "aliases",
             "o", "csv"}
            \cup {"00", "01", "02", "03", "04", "05", "06", "07", "08", "09", "10"}
            \cup {"0", "1", "2", "3", "11"}

-----------------------------------------------------------------------------
\* What the bitcode files hold.
Fn(n, insts, hash) ==
  [name |-> n, decl |-> FALSE, insts |-> insts, hash |-> hash, users |-> <<>>, asm |-> <<>>]
Decl(n, users) == [Fn(n, 0, 0) EXCEPT !.decl = TRUE, !.users = users]
Var(n, decl) == [name |-> n, decl |-> decl]
Use(f, kind) == [in |-> f, kind |-> kind]

EmptyModule ==
  [funcs |-> <<>>, globals |-> <<>>, aliases |-> <<>>, asm |-> "", wllvm |-> <<>>, parts |-> <<>>]

\* Both kinds of assembly, two calls of p from one function, one from another.
M1 == [EmptyModule EXCEPT
  !.funcs = <<[Fn("f", 3, 7) EXCEPT !.asm = <<"nop", "esc">>], [Fn("k", 2, 9) EXCEPT !.asm = <<"nop">>],
              Decl("g", <<Use("f", "call"), Use("k", "instruction")>>),
              Decl("p", <<Use("f", "call"), Use("k", "call"), Use("f", "call")>>)>>,
  !.globals = <<Var("v", TRUE)>>,
  !.aliases = <<[name |-> "al", aliasee |-> "f"]>>,
  !.asm = "esc", !.parts = <<"m1", "m2">>, !.wllvm = <<"w">>]

\* g is defined here, q is unused; 9 is shared with M1, and functions with 8 are this file's.
M2 == [EmptyModule EXCEPT
  !.funcs = <<Fn("g", 3, 7), Fn("k", 2, 9), Fn("n", 6, 8), Fn("o", 6, 8),
              Decl("p", <<Use("n", "call"), Use("", "constant")>>), Decl("q", <<>>)>>,
  !.globals = <<Var("v", FALSE), Var("w", TRUE)>>,
  !.parts = <<"m3">>, !.wllvm = <<"w", "w2">>]

\* As large as no other function of its hash (some of it cannot be reached); unnamed assembly.
M3 == [EmptyModule EXCEPT !.funcs = <<[Fn("", 5, 7) EXCEPT !.asm = <<"ctl">>]>>,
                          !.parts = [i \in 1 .. 11 |-> "p"]]

M4 == [EmptyModule EXCEPT !.funcs = <<Fn("u", 3, 7), Fn("y", 1, 4)>>, !.asm = "nop", !.parts = <<"m4">>]

MCContent == ("f1" :> M1) @@ ("f2" :> M2) @@ ("f3" :> M3) @@ ("f4" :> M4) @@ ("a" :> M1)
             @@ ("b" :> [M2 EXCEPT !.wllvm = <<"w">>]) @@ ("x" :> M2)

\* How names and strings are spelled.
MCSpell ==
  ("/" :> <<"/">>) @@ ("d" :> <<"/", "d">>) @@ ("e" :> <<"/", "e">>) @@ ("a" :> <<"/", "a">>)
  @@ ("b" :> <<"/", "b">>) @@ ("x" :> <<"/", "x", " ">>)
  @@ ("f1" :> <<"f", "1">>) @@ ("f2" :> <<"f", ".", "2">>) @@ ("f3" :> <<"f", "3">>)
  @@ ("f4" :> <<"f", "0">>) @@ ("several" :> <<"f", ",", "f">>)
  @@ ("module-level" :> <<"m", "-", "l">>) @@ ("inline" :> <<"i", "n">>)
  @@ ("f" :> <<"f">>) @@ ("k" :> <<"x", "_", "2">>) @@ ("n" :> <<"\"", "]", "n">>) @@ ("" :> <<>>)
  @@ ("nop" :> <<"n", "o", "p", "\n">>) @@ ("esc" :> <<"\\", "n", "\"", "#", "=">>)
  @@ ("ctl" :> <<"^P">>) @@ ("call" :> <<"c", " ", "(", ")">>) @@ ("instruction" :> <<"s">>)

-----------------------------------------------------------------------------
\* The runs.
Line(name) == [name |-> name, bc |-> FALSE, arg |-> "", flags |-> {}, threshold |-> 0,
               unwritable |-> {}, full |-> FALSE]
Runs(trees, builds, lines) ==
  {[tree |-> t, asserts |-> b, cmd |-> c] : t \in trees, b \in builds, c \in lines}

\* Three allexes, two of them with one short path, one with a module twice.
Flat == [Nested EXCEPT !.entries = On({"/"}, {"a", "b", "x"}, {}), !.type = [@ EXCEPT !["x"] = "file"],
                       !.nonempty = {"a", "b", "x"}, !.allexes = {"a", "b", "x"},
                       !.modules = [@ EXCEPT !["x"] = <<1, 1>>]]
\* Two allexes: the first two files, files of which one pair of functions is shared,
\* a file twice, modules made of several files or of none, files that share a hash only.
Two == [Flat EXCEPT !.entries = On({"/"}, {"a", "b"}, {}), !.id = On({"b"}, "i2", "i1"),
                    !.modules = [@ EXCEPT !["b"] = <<2>>]]
Simple == [Two EXCEPT !.sources = <<<<"f1">>, <<"f4">>, <<"f3">>>>]
SameFile == [Two EXCEPT !.sources = <<<<"f1">>, <<"f1">>, <<"f3">>>>]
MadeOfSeveral == [Two EXCEPT !.sources = <<<<"f1">>, <<"f2", "f3">>, <<"f3">>>>]
MadeOfNone == [Two EXCEPT !.sources = <<<<"f1">>, <<>>, <<"f3">>>>]
Unequal == [Two EXCEPT !.sources = <<<<"f3">>, <<"f4">>, <<"f3">>>>]

ScanSessions == Runs(MCTrees, {TRUE}, {Line("neocsv"), Line("neocsv-decompose")})

ExportSessions ==
  Runs({Flat, MadeOfSeveral, MadeOfNone}, {TRUE},
       {[Line("neocsv") EXCEPT !.full = TRUE], [Line("neocsv") EXCEPT !.unwritable = {"contains"}],
        Line("cypher"), [Line("cypher") EXCEPT !.unwritable = {"o"}]})
  \cup Runs({[Flat EXCEPT !.bitcode = {"a", "x"}, !.id = On({"x"}, "i2", "i1")]}, {TRUE, FALSE},
            {Line("neocsv-decompose")})

ReportSessions ==
  Runs({Flat}, {TRUE}, {Line("toml"), Line("asmscan"), [Line("finddirectuses") EXCEPT !.arg = "p"]})
  \cup Runs({Simple, Two}, {TRUE, FALSE},
            {[Line(c) EXCEPT !.arg = s] : c \in {"finduses", "finddirectuses"}, s \in {"g", "p"}}
              \cup {[Line("finduses") EXCEPT !.arg = "q"], [Line("asmscan") EXCEPT !.bc = TRUE]})
  \cup Runs({Unequal, MadeOfSeveral}, {TRUE}, {Line("toml"), Line("asmscan")})

Hashing(flags, n) == [Line("functionhashes") EXCEPT !.flags = flags, !.threshold = n]

GraphSessions ==
  Runs({Flat}, {TRUE}, {Line("graph")})
  \cup Runs({Simple, SameFile, MadeOfSeveral}, {TRUE, FALSE}, {Line("graph"), [Line("graph") EXCEPT !.unwritable = {"o"}]})
  \cup Runs({Two}, {TRUE},
            {Hashing({"write-graph", k}, n) : k \in {"hashgraph", "hashgraph-merged"}, n \in {2, 3}}
              \cup {Hashing({"write-graph", "hashgraph-merged", "show-unshared"}, 3)})
  \cup Runs({Two, Simple, Unequal, SameFile}, {TRUE, FALSE}, {Hashing({"write-graph", "pairwise"}, 0)})
  \cup Runs({Two, Unequal}, {FALSE},
            {Hashing({"print-functions", "write-csv"}, 0), Hashing({"print-functions"}, 0),
             [Hashing({"write-csv"}, 0) EXCEPT !.unwritable = {"csv"}, !.bc = TRUE]})

BundleSessions ==
  Runs({Two, Unequal}, {TRUE},
       {[Line("combine") EXCEPT !.flags = {"uncombine"}], [Line("combine") EXCEPT !.full = TRUE, !.bc = TRUE],
        [Line("combine") EXCEPT !.unwritable = {"o"}]})
  \cup Runs({Empty}, {TRUE, FALSE},
            {[Line("uncombine") EXCEPT !.arg = f] : f \in {"f1", "f3", "f5"}}
              \cup {[Line("uncombine") EXCEPT !.arg = "f3", !.unwritable = {"03"}],
                    [Line("uncombine") EXCEPT !.arg = "f1", !.full = TRUE]}
              \cup {[Line("decompose") EXCEPT !.arg = f, !.unwritable = u, !.full = u # {}] :
                      f \in {"f1", "f4"}, u \in {{}, {"o"}, {"0"}}}
              \cup {[Line("printsource") EXCEPT !.arg = f] : f \in {"f1", "f2", "f3"}})

MCSessions == ScanSessions \cup ExportSessions \cup ReportSessions \cup GraphSessions \cup BundleSessions
MCAllTrees == {s.tree : s \in MCSessions}

\* Simple pairwise graphs in a build without assertions.
PairwiseSessions == Runs({Simple, Two}, {FALSE}, {Hashing({"write-graph", "pairwise"}, 0)})
=============================================================================
