------------------------------- MODULE Exports -------------------------------
(***************************************************************************)
(* The exports of the database to Neo4j: neocsv (Neo.cpp) and              *)
(* neocsv-decompose (NeoDecomposed.cpp) write tables of nodes and of       *)
(* relationships that name nodes by number; cypher (Cypher.cpp) writes     *)
(* queries that create the nodes and find them again by name.              *)
(***************************************************************************)
EXTENDS Command, SequencesExt

CONSTANT BatchSize   \* the 500 of cypher

ASSUME ExportsAssumption == BatchSize \in Nat \ {0}

Neo == {"neocsv", "neocsv-decompose"}

NeoOutputs ==
  IF cmd.name = "neocsv"
  THEN <<"modules", "funcs", "allexes", "contains", "globals", "modglobals", "aliases">>
  ELSE <<"modules", "funcs", "globals", "modglobals", "aliases">>

(***************************************************************************)
(* neo: all files are created before any is looked at.                     *)
(***************************************************************************)
NeoOpen ==
  /\ Loaded(Neo)
  /\ Create(NeoOutputs)
  /\ stage' = IF Created(NeoOutputs) THEN "modules" ELSE "close"
  /\ mem' = [globalID |-> 0, idx |-> 0]
  /\ out' = [o \in Output |-> <<>>]
  /\ UNCHANGED <<scanVars, cmd, next, kept>>

(***************************************************************************)
(* The rows of one module: its node, then a node and a relationship for    *)
(* each function, variable and alias, all numbered by GlobalID. neocsv     *)
(* knows modules by their checksum, neocsv-decompose, to which they are    *)
(* all 0, by their position.                                               *)
(***************************************************************************)
ModIDOf(n) == IF cmd.name = "neocsv" THEN infos[n].crc ELSE n - 1

ModID == ModIDOf(next)

Rel(g) == IF g.decl THEN "DECLARES" ELSE "DEFINES"
Label(g) == IF g.decl THEN "Declaration" ELSE "Definition"

FuncRow(F, id) ==
  [id |-> id, name |-> F.name, label |-> Label(F),
   insts |-> IF F.decl THEN 0 ELSE F.insts, hash |-> IF F.decl THEN 0 ELSE F.hash]

GlobalRow(G, id) == [id |-> id, name |-> G.name, label |-> Label(G)]

AliasRow(A, id) == [id |-> id, name |-> A.name, aliasee |-> A.aliasee]

RelRow(rel, id) == [start |-> ModID, end |-> id, type |-> rel]

\* The module that is being read, and the first numbers of its functions, variables and aliases.
Parsed == Content[infos[next].file]

firstFunc == mem.globalID
firstGlobal == firstFunc + Len(Parsed.funcs)
firstAlias == firstGlobal + Len(Parsed.globals)

FuncRows == [i \in DOMAIN Parsed.funcs |-> FuncRow(Parsed.funcs[i], firstFunc + i - 1)]
GlobalRows == [i \in DOMAIN Parsed.globals |-> GlobalRow(Parsed.globals[i], firstGlobal + i - 1)]
AliasRows == [i \in DOMAIN Parsed.aliases |-> AliasRow(Parsed.aliases[i], firstAlias + i - 1)]

FuncRels == [i \in DOMAIN Parsed.funcs |-> RelRow(Rel(Parsed.funcs[i]), firstFunc + i - 1)]
GlobalRels == [i \in DOMAIN Parsed.globals |-> RelRow(Rel(Parsed.globals[i]), firstGlobal + i - 1)]
AliasRels == [i \in DOMAIN Parsed.aliases |-> RelRow("DEFINES", firstAlias + i - 1)]

GlobalsWithoutAliases(M) == Len(M.funcs) + Len(M.globals)   \* mutant: ++GlobalID is missing

Globals(M) == Len(M.funcs) + Len(M.globals) + Len(M.aliases)

(***************************************************************************)
(* neocsv-decompose also writes the source of a module, which is the first *)
(* operand of a flag: it is an assertion that there is no other.           *)
(***************************************************************************)
NeoAborts ==
  /\ ReadsModule({"neocsv-decompose"})
  /\ asserts /\ Len(Parsed.wllvm) > 1
  /\ Abort
  /\ UNCHANGED <<scanVars, cmd, next, kept, mem, out>>

NeoModule ==
  /\ ReadsModule(Neo)
  /\ asserts /\ cmd.name = "neocsv-decompose" => Len(Parsed.wllvm) <= 1
  /\ out' = [out EXCEPT
       !["modules"] = Append(@, [id |-> ModID, path |-> Short[infos[next].file]]),
       !["funcs"] = @ \o FuncRows, !["globals"] = @ \o GlobalRows, !["aliases"] = @ \o AliasRows,
       !["modglobals"] = @ \o FuncRels \o GlobalRels \o AliasRels]
  /\ mem' = [mem EXCEPT !.globalID = @ + Globals(Parsed)]
  /\ next' = next + 1
  /\ UNCHANGED <<scanVars, cmd, stage, ioVars>>

(***************************************************************************)
(* neocsv then writes the allexes and what they contain, in one loop after *)
(* the other; the loops fill different tables.                             *)
(***************************************************************************)
ContainsRows(idx) ==
  [i \in DOMAIN allexes[idx].modules |->
     [start |-> idx - 1, index |-> i - 1, end |-> allexes[idx].modules[i].crc]]

NeoAllexe ==
  /\ ModulesDone({"neocsv"}) /\ mem.idx < Len(allexes)
  /\ out' = [out EXCEPT
       !["allexes"] = Append(@, [id |-> mem.idx, path |-> Short[allexes[mem.idx + 1].file]]),
       !["contains"] = @ \o ContainsRows(mem.idx + 1)]
  /\ mem' = [mem EXCEPT !.idx = @ + 1]
  /\ UNCHANGED <<scanVars, cmd, next, stage, ioVars>>

\* All outputs are kept.
NeoFinish ==
  /\ ModulesDone(Neo)
  /\ cmd.name = "neocsv" => mem.idx = Len(allexes)
  /\ Succeed /\ UNCHANGED out

-----------------------------------------------------------------------------
(***************************************************************************)
(* cypher writes statements: clauses up to an "end". Modules are created   *)
(* in batches.                                                             *)
(***************************************************************************)
CypherOpen ==
  /\ Loaded({"cypher"})
  /\ Create(<<"o">>)
  /\ stage' = IF Created(<<"o">>) THEN "modules" ELSE "close"
  /\ mem' = [idx |-> 0]
  /\ out' = [text |-> <<>>]
  /\ UNCHANGED <<scanVars, cmd, next, kept>>

EndOfStatement == [clause |-> "end"]

Full(idx) == idx + 1 = BatchSize

CypherModule ==
  /\ stage = "modules" /\ cmd.name = "cypher" /\ next <= Len(infos)
  /\ LET create == [clause |-> "module", crc |-> infos[next].crc, path |-> Short[infos[next].file]]
     IN  /\ out' = [text |-> out.text \o IF Full(mem.idx) THEN <<create, EndOfStatement>> ELSE <<create>>]
         /\ mem' = [idx |-> IF Full(mem.idx) THEN 0 ELSE mem.idx + 1]
  /\ next' = next + 1
  /\ UNCHANGED <<scanVars, cmd, stage, ioVars>>

RelateLast(A) ==   \* mutant: the index is not advanced
  <<[clause |-> "match", path |-> Short[A.file]]>>
    \o [i \in DOMAIN A.modules |->
          [clause |-> "contains", index |-> 0, crc |-> A.modules[i].crc]]
    \o <<EndOfStatement>>

(***************************************************************************)
(* The last batch, one statement that creates the allexes, and one         *)
(* statement for each allexe, which finds it by its path and relates it to *)
(* its modules, found by their checksums.                                  *)
(***************************************************************************)
Relate(A) ==
  <<[clause |-> "match", path |-> Short[A.file]]>>
    \o [i \in DOMAIN A.modules |->
          [clause |-> "contains", index |-> i - 1, crc |-> A.modules[i].crc]]
    \o <<EndOfStatement>>

CypherFinish ==
  /\ ModulesDone({"cypher"})
  /\ out' = [text |-> out.text
       \o (IF mem.idx # 0 THEN <<EndOfStatement>> ELSE <<>>)
       \o [i \in DOMAIN allexes |-> [clause |-> "allexe", path |-> Short[allexes[i].file]]]
       \o <<EndOfStatement>>
       \o FlattenSeq([i \in DOMAIN allexes |-> Relate(allexes[i])])]
  /\ Succeed

ExportStep ==
  \/ NeoOpen \/ NeoAborts \/ NeoModule \/ NeoAllexe \/ NeoFinish
  \/ CypherOpen \/ CypherModule \/ CypherFinish

-----------------------------------------------------------------------------
Rows(t) == {out[t][i] : i \in DOMAIN out[t]}
IDs(t) == {r.id : r \in Rows(t)}

(***************************************************************************)
(* The tables can be imported (neo4j-admin refuses an id that occurs twice *)
(* and an end of a relationship that does not exist): modules, globals of  *)
(* the three kinds together, and allexes have different ids, and every     *)
(* relationship has both its ends.                                         *)
(***************************************************************************)
DifferentIDs(ts) ==
  \A t, u \in ts : \A i \in DOMAIN out[t] : \A j \in DOMAIN out[u] :
    out[t][i].id = out[u][j].id => t = u /\ i = j

TablesImportable ==
  Succeeded(Neo) =>
    /\ DifferentIDs({"modules"}) /\ DifferentIDs({"allexes"})
    /\ DifferentIDs({"funcs", "globals", "aliases"})
    /\ \A r \in Rows("modglobals") :
         r.start \in IDs("modules") /\ r.end \in IDs("funcs") \cup IDs("globals") \cup IDs("aliases")
    /\ \A r \in Rows("contains") : r.start \in IDs("allexes") /\ r.end \in IDs("modules")

(***************************************************************************)
(* What is imported is the database: the globals related to a module are   *)
(* those of the file it was read from, each once and by the right kind of  *)
(* relationship, and (neocsv) the modules of an allexe are its modules in  *)
(* their order.                                                            *)
(***************************************************************************)
Symbols(gs) == {<<g.name, Rel(g)>> : g \in {gs[i] : i \in DOMAIN gs}}

SymbolsOf(M) ==
  Symbols(M.funcs) \cup Symbols(M.globals)
  \cup {<<M.aliases[i].name, "DEFINES">> : i \in DOMAIN M.aliases}

ImportedSymbols(m) ==
  UNION {{<<g.name, r.type>> : g \in {g \in Rows("funcs") \cup Rows("globals") \cup Rows("aliases") :
                                        g.id = r.end}} :
         r \in {r \in Rows("modglobals") : r.start = m}}

Contained ==
  UNION {{<<i - 1, k - 1, allexes[i].modules[k].crc>> : k \in DOMAIN allexes[i].modules} :
         i \in DOMAIN allexes}

TablesShowDatabase ==
  Succeeded(Neo) =>
    /\ Len(out["modules"]) = Len(infos)
    /\ \A i \in DOMAIN infos :
         LET m == out["modules"][i].id
             M == Content[infos[i].file]
         IN  /\ ImportedSymbols(m) = SymbolsOf(M)
             /\ Cardinality({r \in Rows("modglobals") : r.start = m}) =
                  Len(M.funcs) + Len(M.globals) + Len(M.aliases)
    /\ cmd.name = "neocsv" =>
         {<<r.start, r.index, r.end>> : r \in Rows("contains")} = Contained

(***************************************************************************)
(* What executing the text of cypher leaves in the database: a match finds *)
(* every allexe of that path.                                              *)
(***************************************************************************)
Clauses(kind) == Selected(out.text, {i \in DOMAIN out.text : out.text[i].clause = kind})

\* The clause that opens the statement of the i-th clause.
Opening(i) == CHOOSE h \in 1 .. i :
  /\ h = 1 \/ out.text[h - 1] = EndOfStatement
  /\ \A j \in h .. i - 1 : out.text[j] # EndOfStatement

Executed ==
  LET A == Clauses("allexe")
      T == out.text
  IN  UNION {{<<k - 1, T[i].index, T[i].crc>> : k \in {k \in DOMAIN A : A[k].path = T[Opening(i)].path}} :
             i \in {i \in DOMAIN T : T[i].clause = "contains"}}

(***************************************************************************)
(* The queries rebuild the database, provided the paths of allexes differ  *)
(* also when prefixes are removed; nothing is missing in any case. They    *)
(* are batched: no statement creates more than BatchSize modules, and      *)
(* every clause belongs to a statement that ends.                          *)
(***************************************************************************)
ShortPathsDiffer ==
  \A i, j \in DOMAIN allexes : Short[allexes[i].file] = Short[allexes[j].file] => i = j

QueriesShowDatabase ==
  Succeeded({"cypher"}) =>
    /\ Contained \subseteq Executed
    /\ ShortPathsDiffer => Executed = Contained
    /\ Last(out.text) = EndOfStatement
    /\ \A i \in DOMAIN out.text : out.text[i].clause = "module" => i - Opening(i) < BatchSize
    /\ Len(Clauses("module")) = Len(infos)

(***************************************************************************)
(* Outputs are all or nothing: a run that succeeds leaves every file it    *)
(* was asked for, complete; one that fails with an error or an assertion   *)
(* leaves none of the files it created; and no run, not even one that      *)
(* fails when the disk is full, leaves an incomplete file. combine, which  *)
(* removes nothing, touches its output only when all inputs have been      *)
(* read: after an error it is as it was before.                            *)
(***************************************************************************)
KeptOutputs == Neo \cup {"cypher", "graph", "functionhashes"}

AllOrNothing ==
  /\ Ended /\ cmd.name \in KeptOutputs =>
       /\ \A o \in Output : disk[o] \in {"old", "complete", "absent"}
       /\ stage = "success" => \A o \in Output : disk[o] # "absent"
       /\ stage \in {"error", "aborted"} => \A o \in Output : disk[o] # "complete"
       /\ stage = "success" /\ cmd.name \in Neo =>
            \A i \in DOMAIN NeoOutputs : disk[NeoOutputs[i]] = "complete"
  /\ cmd.name = "combine" /\ stage \in {"error", "aborted"} => disk["o"] = "old"
=============================================================================
