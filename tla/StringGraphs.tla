--------------------------- MODULE StringGraphs -----------------------------
(***************************************************************************)
(* Graphs of the database: StringGraph (StringGraph.h, StringGraph.cpp),   *)
(* the graph of allexes and modules (Graph.cpp), and functionhashes        *)
(* (FunctionHash.cpp), which relates modules by functions with one hash.   *)
(***************************************************************************)
EXTENDS Command, SequencesExt

(***************************************************************************)
(* The StringGraph that is left when addVertex was called for vertices in  *)
(* turn and then addEdge for edges. A name stands for the last vertex with *)
(* it; it is an assertion that it was new. size stands for the attributes  *)
(* of a vertex: the number its label or font shows; weight for those of an *)
(* edge.                                                                   *)
(***************************************************************************)
Vertex(name, size) == [name |-> name, size |-> size]
Edge(a, b, weight) == [from |-> a, to |-> b, weight |-> weight]

\* StringIndexMap
Index(vertices, name) == Max({i \in DOMAIN vertices : vertices[i].name = name}) - 1

StringGraphSwapped(vertices, edges) ==   \* mutant: the ends of edges are swapped
  [nodes |-> vertices,
   edges |-> [i \in DOMAIN edges |-> [src |-> Index(vertices, edges[i].to),
                                      dst |-> Index(vertices, edges[i].from),
                                      weight |-> edges[i].weight]],
   bad |-> \E i, j \in DOMAIN vertices : i # j /\ vertices[i].name = vertices[j].name]

StringGraph(vertices, edges) ==
  [nodes |-> vertices,
   edges |-> [i \in DOMAIN edges |-> [src |-> Index(vertices, edges[i].from),
                                      dst |-> Index(vertices, edges[i].to),
                                      weight |-> edges[i].weight]],
   bad |-> \E i, j \in DOMAIN vertices : i # j /\ vertices[i].name = vertices[j].name]

(***************************************************************************)
(* writeGraph: a line for each vertex, by the index its name has now, and  *)
(* one for each edge. The format of that line has no place for attributes: *)
(* its weight is that of an edge without any.                              *)
(***************************************************************************)
GraphLines(G) ==
  [nodes |-> [i \in DOMAIN G.nodes |->
                LET id == Index(G.nodes, G.nodes[i].name)
                IN  [id |-> id, name |-> G.nodes[id + 1].name, size |-> G.nodes[id + 1].size]],
   edges |-> [i \in DOMAIN G.edges |-> [G.edges[i] EXCEPT !.weight = 0]]]

\* What a command writes adds to what it has written.
Adding(written) ==
  [x \in DOMAIN written \cup DOMAIN out |-> IF x \in DOMAIN written THEN written[x] ELSE out[x]]

EmitGraph(G, bad) ==
  IF asserts /\ bad THEN Abort /\ UNCHANGED <<kept, out>>
  ELSE /\ Create(<<"o">>)
       /\ kept' = Created(<<"o">>)
       /\ out' = IF kept' THEN Adding(GraphLines(G)) ELSE out
       /\ stage' = "close"

-----------------------------------------------------------------------------
(***************************************************************************)
(* graph: allexes and modules by their short names, and what is in what.   *)
(***************************************************************************)
Contents(A) == [k \in DOMAIN A.modules |-> <<A.file, A.modules[k].file>>]

DatabaseGraph ==
  LET vertices(xs) == [i \in DOMAIN xs |-> Vertex(Short[xs[i].file], 0)]
      pairs == FlattenSeq([i \in DOMAIN allexes |-> Contents(allexes[i])])
  IN  StringGraph(vertices(allexes) \o vertices(infos),
                  [i \in DOMAIN pairs |-> Edge(Short[pairs[i][1]], Short[pairs[i][2]], 0)])

GraphCommand ==
  /\ Loaded({"graph"})
  /\ \E G \in {DatabaseGraph} : EmitGraph(G, G.bad)
  /\ UNCHANGED <<scanVars, cmd, next, mem>>

-----------------------------------------------------------------------------
(***************************************************************************)
(* functionhashes reads the functions that the modules define and sorts    *)
(* them by hash; where hashes are equal the order is arbitrary.            *)
(***************************************************************************)
HashStart ==
  /\ Loaded({"functionhashes"})
  /\ stage' = "modules"
  /\ mem' = [funcs |-> <<>>, groups |-> <<>>]
  /\ UNCHANGED <<scanVars, cmd, next, ioVars, out>>

FuncDesc(f, F) == [source |-> f, name |-> F.name, insts |-> F.insts, hash |-> F.hash]

Defined(f) == {k \in DOMAIN Content[f].funcs : ~Content[f].funcs[k].decl}

FuncDescsAll(f) ==   \* mutant: declarations count as functions
  [k \in DOMAIN Content[f].funcs |-> FuncDesc(f, Content[f].funcs[k])]

FuncDescs(f) ==
  LET defined == Selected(Content[f].funcs, Defined(f))
  IN  [k \in DOMAIN defined |-> FuncDesc(f, defined[k])]

HashModule ==
  /\ ReadsModule({"functionhashes"})
  /\ mem' = [mem EXCEPT !.funcs = @ \o FuncDescs(infos[next].file)]
  /\ next' = next + 1
  /\ UNCHANGED <<scanVars, cmd, stage, ioVars, out>>

Sortings(fs) ==
  LET last(I) == {i \in I : \A j \in I : fs[j].hash <= fs[i].hash}
      sorted[I \in SUBSET DOMAIN fs] ==
        IF I = {} THEN {<<>>}
        ELSE UNION {{Append(s, fs[i]) : s \in sorted[I \ {i}]} : i \in last(I)}
  IN  sorted[DOMAIN fs]

\* group_by: the longest runs of neighbours with one key.
GroupBy(s, key) ==
  LET starts == {i \in DOMAIN s : i = 1 \/ s[i - 1][key] # s[i][key]}
      first(n) == Nth(starts \cup {Len(s) + 1}, n)
  IN  [n \in 1 .. Cardinality(starts) |-> SubSeq(s, first(n), first(n + 1) - 1)]

Total(N, S) == SumFunctionOnSet(N, S)

InstCount(fs) == Total([i \in DOMAIN fs |-> fs[i].insts], DOMAIN fs)
Average(g) == InstCount(g) \div Len(g)

(***************************************************************************)
(* -print-functions: the groups of more than one function, largest first,  *)
(* and the instructions of all but the first of each.                      *)
(***************************************************************************)
LargestFirst(gs) ==
  LET many == {i \in DOMAIN gs : Len(gs[i]) > 1}
  IN  {[n \in DOMAIN p |-> gs[p[n]]] :
         p \in {p \in [1 .. Cardinality(many) -> many] :
                  /\ \A i \in many : \E n \in DOMAIN p : p[n] = i
                  /\ \A n, m \in DOMAIN p : n < m => Len(gs[p[n]]) >= Len(gs[p[m]])}}

Redundant(gs) == Total([n \in DOMAIN gs |-> InstCount(Tail(gs[n]))], DOMAIN gs)

HashSort ==
  /\ ModulesDone({"functionhashes"})
  /\ \E fs \in Sortings(mem.funcs) : mem' = [funcs |-> fs, groups |-> GroupBy(fs, "hash")]
  /\ IF "print-functions" \in cmd.flags
     THEN \E gs \in LargestFirst(mem'.groups) :
            out' = [groups |-> gs, redundant |-> Redundant(gs), total |-> InstCount(mem'.funcs)]
     ELSE UNCHANGED out
  /\ stage' = "emit"
  /\ UNCHANGED <<scanVars, cmd, next, ioVars>>

-----------------------------------------------------------------------------
(***************************************************************************)
(* Names of vertices: files, hashes and merged nodes, which have a number, *)
(* here their neighbours, do not coincide.                                 *)
(***************************************************************************)
ModuleVertex(f) == <<"module", f>>
HashVertex(h) == <<"hash", h>>
MergedVertex(neighbors) == <<"merged", neighbors>>

Sources(g) == {g[i].source : i \in DOMAIN g}

IsSharedInTotal(g) == Len(g) > 1 /\ InstCount(g) >= cmd.threshold   \* mutant: not per function

\* filter_small_ranges, filter_by_inst_count
IsShared(g) == Len(g) > 1 /\ Average(g) >= cmd.threshold

SharedGroups == Selected(mem.groups, {n \in DOMAIN mem.groups : IsShared(mem.groups[n])})

ModuleVerticesUnsorted(gs, size) ==   \* mutant: the functions are not sorted by file
  LET runs == GroupBy(FlattenSeq(gs), "source")
      measure(fs) == IF size = "functions" THEN Len(fs) ELSE InstCount(fs)
  IN  [i \in DOMAIN runs |-> Vertex(ModuleVertex(runs[i][1].source), measure(runs[i]))]

\* A vertex for each file, sized by the functions of that file in the groups gs.
ModuleVertices(gs, size) ==
  LET of(f) == UNION {{<<n, i>> : i \in {i \in DOMAIN gs[n] : gs[n][i].source = f}} : n \in DOMAIN gs}
      measure(S) == IF size = "functions" THEN Cardinality(S)
                    ELSE Total([p \in S |-> gs[p[1]][p[2]].insts], S)
  IN  SetToSeq({Vertex(ModuleVertex(f), measure(of(f))) : f \in UNION {Sources(gs[n]) : n \in DOMAIN gs}})

(***************************************************************************)
(* hashgraph: files and hashes, joined where the file has such a function. *)
(***************************************************************************)
HashGraph(gs) ==
  LET hash(g) == HashVertex(g[1].hash)
  IN  [vertices |-> ModuleVertices(gs, "functions")
                      \o [i \in DOMAIN gs |-> Vertex(hash(gs[i]), Len(gs[i]))],
       edges |-> UNION {{Edge(ModuleVertex(f), hash(gs[i]), 0) : f \in Sources(gs[i])} : i \in DOMAIN gs}]

(***************************************************************************)
(* hashgraph-merged: hashes of one and the same set of files share a       *)
(* vertex; those of a single file are left out unless -show-unshared.      *)
(***************************************************************************)
MergedGraph(gs) ==
  LET shown == {i \in DOMAIN gs : "show-unshared" \in cmd.flags \/ Cardinality(Sources(gs[i])) > 1}
      neighbors == {Sources(gs[i]) : i \in shown}
      insts(S) == Total([i \in shown |-> Average(gs[i])], {i \in shown : Sources(gs[i]) = S})
  IN  [vertices |-> ModuleVertices(gs, "instructions")
                      \o SetToSeq({Vertex(MergedVertex(S), insts(S)) : S \in neighbors}),
       edges |-> UNION {{Edge(ModuleVertex(f), MergedVertex(S), 0) : f \in S} : S \in neighbors}]

PairSharingOnce(fs) ==   \* mutant: the instructions of a pair of files are set, not added up
  LET gs == GroupBy(fs, "hash")
      shares(pair) == {i \in DOMAIN gs : pair \subseteq Sources(gs[i])}
  IN  [pair \in {p \in SUBSET Sources(fs) : Cardinality(p) = 2 /\ shares(p) # {}} |->
         gs[CHOOSE i \in shares(pair) : \A j \in shares(pair) : j <= i][1].insts]

\* SharingMap: instructions of I over all pairs I, J of different files in one group.
PairSharing(fs) ==
  LET joined == {p \in (DOMAIN fs) \X (DOMAIN fs) :
                   /\ p[1] < p[2]
                   /\ fs[p[1]].hash = fs[p[2]].hash
                   /\ fs[p[1]].source # fs[p[2]].source}
      of(pair) == {p \in joined : {fs[p[1]].source, fs[p[2]].source} = pair}
  IN  [pair \in {{fs[p[1]].source, fs[p[2]].source} : p \in joined} |->
         Total([p \in joined |-> fs[p[1]].insts], of(pair))]

(***************************************************************************)
(* pairwise: a vertex for each run of neighbours, in the order of hashes,  *)
(* that are from one file; files joined by the instructions they share. It *)
(* is an assertion that functions of one hash have one size.               *)
(***************************************************************************)
PairwiseGraph ==
  LET runs == GroupBy(mem.funcs, "source")
      sharing == PairSharing(mem.funcs)
      edge(pair) == LET f == CHOOSE f \in pair : TRUE
                        g == CHOOSE g \in pair \ {f} : TRUE
                    IN  Edge(ModuleVertex(f), ModuleVertex(g), sharing[pair])
  IN  [vertices |-> [i \in DOMAIN runs |-> Vertex(ModuleVertex(runs[i][1].source), InstCount(runs[i]))],
       edges |-> {edge(pair) : pair \in DOMAIN sharing}]

SizesDiffer ==
  \E i, j \in DOMAIN mem.funcs :
    LET F == mem.funcs[i]
        G == mem.funcs[j]
    IN  F.hash = G.hash /\ F.source # G.source /\ F.insts # G.insts

KindOfGraph(gs) ==
  IF "pairwise" \in cmd.flags THEN PairwiseGraph
  ELSE IF "hashgraph-merged" \in cmd.flags THEN MergedGraph(gs)
  ELSE HashGraph(gs)

(***************************************************************************)
(* -write-graph, else -write-csv, else nothing is written.                 *)
(***************************************************************************)
HashEmitGraph ==
  /\ stage = "emit" /\ "write-graph" \in cmd.flags
  /\ \E gs \in {SharedGroups} : \E K \in {KindOfGraph(gs)} : \E G \in {StringGraph(K.vertices, SetToSeq(K.edges))} :
       /\ EmitGraph(G, G.bad \/ ("pairwise" \in cmd.flags /\ SizesDiffer))
       /\ mem' = [graph |-> G, funcs |-> mem.funcs, groups |-> mem.groups]
  /\ UNCHANGED <<scanVars, cmd, next>>

HashEmitCSV ==
  /\ stage = "emit" /\ "write-graph" \notin cmd.flags /\ "write-csv" \in cmd.flags
  /\ Create(<<"csv">>)
  /\ kept' = Created(<<"csv">>)
  /\ out' = IF kept' THEN Adding([rows |-> mem.funcs]) ELSE out
  /\ stage' = "close"
  /\ UNCHANGED <<scanVars, cmd, next, mem>>

HashEmitNothing ==
  /\ stage = "emit" /\ cmd.flags \cap {"write-graph", "write-csv"} = {}
  /\ Succeed /\ UNCHANGED out

GraphStep ==
  \/ GraphCommand
  \/ HashStart \/ HashModule \/ HashSort
  \/ HashEmitGraph \/ HashEmitCSV \/ HashEmitNothing

-----------------------------------------------------------------------------
\* The functions the modules define: <<i, k>> is the k-th function of the i-th module.
Definitions == UNION {{<<i, k>> : k \in Defined(infos[i].file)} : i \in DOMAIN infos}
Desc(d) == FuncDesc(infos[d[1]].file, Content[infos[d[1]].file].funcs[d[2]])

Files == {infos[i].file : i \in DOMAIN infos}
Hashes == {Desc(d).hash : d \in Definitions}
WithHash(h) == {d \in Definitions : Desc(d).hash = h}
FilesWith(h) == {Desc(d).source : d \in WithHash(h)}
NumberWith(h) == Cardinality(WithHash(h))
InstsWith(h) == Total([d \in Definitions |-> Desc(d).insts], WithHash(h))

\* Functions of one hash have one size.
HashTellsSize == \A d, e \in Definitions : Desc(d).hash = Desc(e).hash => Desc(d).insts = Desc(e).insts

(***************************************************************************)
(* The graph of allexes and modules, where short names differ, has a node  *)
(* for each and as many edges as there are modules in allexes, each from   *)
(* the allexe to the module.                                               *)
(***************************************************************************)
ShortNamesDiffer ==
  Cardinality({Short[allexes[i].file] : i \in DOMAIN allexes} \cup {Short[f] : f \in Files})
    = Len(allexes) + Len(infos)

GraphShowsDatabase ==
  Succeeded({"graph"}) /\ ShortNamesDiffer =>
    LET named(id) == {out.nodes[i].name : i \in {i \in DOMAIN out.nodes : out.nodes[i].id = id}}
        drawn(e) == <<named(e.src), named(e.dst)>>
        pairs == FlattenSeq([i \in DOMAIN allexes |-> Contents(allexes[i])])
    IN  /\ Len(out.nodes) = Len(allexes) + Len(infos)
        /\ Len(out.edges) = Len(pairs)
        /\ \A i \in DOMAIN pairs :
             drawn(out.edges[i]) = <<{Short[pairs[i][1]]}, {Short[pairs[i][2]]}>>

(***************************************************************************)
(* Assertions end a command that writes a graph only for these causes: the *)
(* short names of two files are one (graph); or, for a pairwise graph,     *)
(* the functions of a file do not follow each other in the order of        *)
(* hashes, or one hash has functions of two sizes. The other graphs are    *)
(* always written.                                                         *)
(***************************************************************************)
GraphAborts ==
  stage = "aborted" /\ pc = "done" /\ cmd.name \in {"graph", "functionhashes"} =>
    \/ cmd.name = "graph" /\ ~ShortNamesDiffer
    \/ /\ "pairwise" \in cmd.flags
       /\ \/ ~HashTellsSize
          \/ \E i, j, k \in DOMAIN mem.funcs :
               /\ i < j /\ j < k
               /\ mem.funcs[i].source = mem.funcs[k].source
               /\ mem.funcs[j].source # mem.funcs[k].source

(***************************************************************************)
(* hashgraph joins a file and a hash exactly if the file has a function of *)
(* that hash, the hash has more than one function, and these have          *)
(* -graph-threshold instructions on average; merging joins a file to as    *)
(* many instructions as it has such hashes shared with other files (or at  *)
(* all, with -show-unshared).                                              *)
(***************************************************************************)
Shown(h) == NumberWith(h) > 1 /\ InstsWith(h) \div NumberWith(h) >= cmd.threshold

NameAt(id) == (CHOOSE n \in {out.nodes[i] : i \in DOMAIN out.nodes} : n.id = id).name
SizeAt(id) == (CHOOSE n \in {out.nodes[i] : i \in DOMAIN out.nodes} : n.id = id).size
Drawn == {<<NameAt(out.edges[i].src), NameAt(out.edges[i].dst)>> : i \in DOMAIN out.edges}

HashGraphRight ==
  Succeeded({"functionhashes"}) /\ "write-graph" \in cmd.flags /\ "pairwise" \notin cmd.flags =>
    LET merged == "hashgraph-merged" \in cmd.flags
        shown == {h \in Hashes : Shown(h) /\ (merged /\ "show-unshared" \notin cmd.flags
                                                => Cardinality(FilesWith(h)) > 1)}
        from(d) == {e[1] : e \in {e \in Drawn : e[2] = d}}
        ends == {e[2] : e \in Drawn}
    IN  /\ ~merged => Drawn = UNION {{<<ModuleVertex(f), HashVertex(h)>> : f \in FilesWith(h)} : h \in shown}
        /\ merged =>
             /\ {from(d) : d \in ends} = {{ModuleVertex(f) : f \in FilesWith(h)} : h \in shown}
             /\ \A i \in DOMAIN out.edges :
                  SizeAt(out.edges[i].dst) =
                    Total([h \in shown |-> InstsWith(h) \div NumberWith(h)],
                          {h \in shown : {ModuleVertex(f) : f \in FilesWith(h)}
                                           = from(NameAt(out.edges[i].dst))})

(***************************************************************************)
(* The weight of an edge between two files is the number of instructions   *)
(* they share, counted for each pair of functions of one hash, provided a  *)
(* hash tells the size; in a build without assertions this is so even when *)
(* vertices are added twice.                                               *)
(***************************************************************************)
PairwiseRight ==
  Succeeded({"functionhashes"}) /\ {"write-graph", "pairwise"} \subseteq cmd.flags
    /\ HashTellsSize =>
    LET G == mem.graph
        ends(e) == {G.nodes[e.src + 1].name, G.nodes[e.dst + 1].name}
        shared(f, g) == {p \in Definitions \X Definitions :
                           /\ Desc(p[1]).source = f /\ Desc(p[2]).source = g
                           /\ Desc(p[1]).hash = Desc(p[2]).hash}
        edges(f, g) == {i \in DOMAIN G.edges : ends(G.edges[i]) = {ModuleVertex(f), ModuleVertex(g)}}
    IN  \A f, g \in Files : f # g =>
          /\ Cardinality(edges(f, g)) = (IF shared(f, g) # {} THEN 1 ELSE 0)
          /\ \A i \in edges(f, g) :
               G.edges[i].weight = Total([p \in shared(f, g) |-> Desc(p[1]).insts], shared(f, g))

(***************************************************************************)
(* What -print-functions and -write-csv say: every group of functions with *)
(* one hash is printed whole, largest groups first; the redundant          *)
(* instructions are those of all functions but one of each hash; and the   *)
(* rows are the functions the modules define, those of one hash together.  *)
(***************************************************************************)
SameHash(s) == \A i, j, k \in DOMAIN s : i < j /\ j < k /\ s[i].hash = s[k].hash => s[j].hash = s[i].hash

FunctionsReported ==
  Succeeded({"functionhashes"}) =>
    /\ "print-functions" \in cmd.flags =>
         /\ {<<g[1].hash, Len(g)>> : g \in ToSet(out.groups)} =
              {<<h, NumberWith(h)>> : h \in {h \in Hashes : NumberWith(h) > 1}}
         /\ \A i, j \in DOMAIN out.groups : i < j => Len(out.groups[i]) >= Len(out.groups[j])
         /\ HashTellsSize =>
              out.redundant = Total([h \in Hashes |-> InstsWith(h) - InstsWith(h) \div NumberWith(h)], Hashes)
    /\ {"write-graph", "write-csv"} \cap cmd.flags = {"write-csv"} =>
         /\ SameHash(out.rows)
         /\ Len(out.rows) = Cardinality(Definitions)
         /\ \A d \in Definitions :
              Cardinality({n \in DOMAIN out.rows : out.rows[n] = Desc(d)}) =
                Cardinality({e \in Definitions : Desc(e) = Desc(d)})

(***************************************************************************)
(* "no hash nodes, edges are number of shared instructions": an edge of    *)
(* the pairwise graph that is written says this number.                    *)
(***************************************************************************)
EdgesAreNumbers ==
  Succeeded({"functionhashes"}) /\ {"write-graph", "pairwise"} \subseteq cmd.flags =>
    \A i \in DOMAIN out.edges : out.edges[i].weight = mem.graph.edges[i].weight
=============================================================================
