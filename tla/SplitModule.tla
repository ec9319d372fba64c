---------------------------- MODULE SplitModule ----------------------------
(***************************************************************************)
(* One call of SplitModule (SplitModule.cpp): externalize, findPartitions, *)
(* and the loop that clones one partition after the other. It shows that   *)
(* the answers BitcodeModule allows, on which Decompose builds, are those  *)
(* the code gives.                                                         *)
(***************************************************************************)
EXTENDS BitcodeModule, Sequences

CONSTANTS
  PureConst,   \* the constants that are not global values (expressions,
               \* aggregates, block addresses) through which values are used
  Comdat,      \* the comdats
  Inputs,      \* the modules to split
  None         \* no comdat, no member yet

Kind == {"function", "variable", "alias", "ifunc"}

(***************************************************************************)
(* A module as findPartitions sees it. users maps a value to its users,    *)
(* where the function of an instruction stands for the instruction; base   *)
(* is the base object of an alias or ifunc, and the symbol itself for the  *)
(* others; blocks holds the used block addresses of a function.            *)
(***************************************************************************)
Input ==
  [kind    : [Sym -> Kind],
   defined : SUBSET Sym,
   local   : SUBSET Sym,
   unnamed : SUBSET Sym,
   comdat  : [Sym -> Comdat \cup {None}],
   base    : [Sym -> Sym],
   blocks  : [Sym -> SUBSET PureConst],
   users   : [Sym \cup PureConst -> SUBSET (Sym \cup PureConst)],
   asm     : BOOLEAN]

(***************************************************************************)
(* What the verifier of LLVM sees to: only definitions use anything, and   *)
(* an alias or ifunc is one of a definition. getComdat has no comdat for   *)
(* an ifunc, and only functions have blocks.                               *)
(***************************************************************************)
WellFormed(i) ==
  /\ \A v \in Sym \cup PureConst : i.users[v] \cap Sym \subseteq i.defined
  /\ \A g \in i.defined : i.base[g] \in i.defined
  /\ \A g \in Sym : i.kind[g] = "ifunc" => i.comdat[g] = None
  /\ \A g \in Sym : i.kind[g] # "function" => i.blocks[g] = {}

ASSUME SplitModuleAssumption ==
  /\ IsFiniteSet(Sym)
  /\ PureConst \cap Sym = {} /\ Comdat \cap (Sym \cup PureConst) = {}
  /\ None \notin Sym \cup Comdat
  /\ \A i \in Inputs : i \in Input /\ WellFormed(i)

VARIABLES
  m,              \* the module, whose locals externalize may make external
  preserve,       \* PreserveLocals
  pc,             \* "externalize", "record", "assign", "clone" or "done"
  named,          \* the symbols that have a name
  todo,           \* the symbols recordGVSet has still to be called for
  classes,        \* GVtoClusterMap: disjoint sets of symbols
  comdatMembers,  \* ComdatMembers: the first member recorded of each comdat
  clusterID,      \* ClusterIDMap: the slot of every symbol of a class
  load,           \* the slots of BalancinQueue with their sizes
  hash,           \* the MD5 of the module identifier and a name, modulo N
  parts           \* the partitions handed to ModuleCallback

vars == <<m, preserve, pc, named, todo, classes, comdatMembers, clusterID, load,
          hash, parts>>

Indirect(g) == m.kind[g] \in {"alias", "ifunc"}

Init ==
  /\ m \in Inputs
  /\ preserve \in BOOLEAN
  /\ pc = "externalize"
  /\ named = Sym \ m.unnamed
  /\ todo = {g \in Sym : m.kind[g] # "ifunc"}
  /\ classes = {}
  /\ comdatMembers = [c \in Comdat |-> None]
  /\ clusterID = <<>>
  /\ load = [i \in Slot |-> 0]
  /\ hash = <<>>
  /\ parts = <<>>

(***************************************************************************)
(* Without PreserveLocals every symbol, an ifunc too, becomes external and *)
(* gets a name.                                                            *)
(***************************************************************************)
Externalized(mod) == [mod EXCEPT !.local = {}]

Externalize ==
  /\ pc = "externalize"
  /\ IF preserve THEN UNCHANGED <<m, named>>
                 ELSE m' = Externalized(m) /\ named' = Sym
  /\ pc' = "record"
  /\ UNCHANGED <<preserve, todo, classes, comdatMembers, clusterID, load, hash, parts>>

(***************************************************************************)
(* addAllGlobalValueUsers: the global values that use v, looking through   *)
(* pure constants.                                                         *)
(***************************************************************************)
GlobalValueUsers(v) ==
  {g \in Sym : \A S \in SUBSET (Sym \cup PureConst) :
     m.users[v] \subseteq S /\ (\A k \in S \cap PureConst : m.users[k] \subseteq S) => g \in S}

(***************************************************************************)
(* unionSets of g with each symbol of S.                                   *)
(***************************************************************************)
UnionSetsApart(g, S) ==   \* mutant: existing classes are not merged
  IF S = {} THEN classes ELSE classes \cup {S \cup {g}}

UnionSets(g, S) ==
  LET touched == {C \in classes : C \cap (S \cup {g}) # {}}
  IN  IF S = {} THEN classes
                ELSE (classes \ touched) \cup {(UNION touched) \cup S \cup {g}}

(***************************************************************************)
(* What the definition g must stay with: the recorded member of its        *)
(* comdat, the base of an alias, the users of the blocks of a function,    *)
(* and the users of a local.                                               *)
(***************************************************************************)
ComdatPartner(g) == IF m.comdat[g] = None THEN {} ELSE {comdatMembers[m.comdat[g]]} \ {None}

StaysWithoutBase(g) ==   \* mutant: an alias is left to the hash of its base
  ComdatPartner(g)
  \cup (UNION {GlobalValueUsers(b) : b \in m.blocks[g]})
  \cup (IF g \in m.local THEN GlobalValueUsers(g) ELSE {})

StaysWith(g) ==
  ComdatPartner(g)
  \cup (IF Indirect(g) THEN {m.base[g]} ELSE {})
  \cup (UNION {GlobalValueUsers(b) : b \in m.blocks[g]})
  \cup (IF g \in m.local THEN GlobalValueUsers(g) ELSE {})

(***************************************************************************)
(* recordGVSet, called for the functions, then the variables, then the     *)
(* aliases, in the order of the module.                                    *)
(***************************************************************************)
Earlier(g, h) == <<m.kind[g], m.kind[h]>> \in
  {<<"function", "variable">>, <<"function", "alias">>, <<"variable", "alias">>}

RecordGVSetUnnamed(g) ==   \* mutant: unnamed definitions get no name
  /\ pc = "record"
  /\ g \in todo
  /\ \A h \in todo : ~Earlier(h, g)
  /\ todo' = todo \ {g}
  /\ IF g \in m.defined
     THEN /\ classes' = UnionSets(g, StaysWith(g))
          /\ comdatMembers' = [c \in Comdat |->
               IF c = m.comdat[g] /\ comdatMembers[c] = None THEN g ELSE comdatMembers[c]]
     ELSE UNCHANGED <<classes, comdatMembers>>
  /\ UNCHANGED <<m, preserve, pc, named, clusterID, load, hash, parts>>

RecordGVSet(g) ==
  /\ pc = "record"
  /\ g \in todo
  /\ \A h \in todo : ~Earlier(h, g)
  /\ todo' = todo \ {g}
  /\ IF g \in m.defined
     THEN /\ named' = named \cup {g}
          /\ classes' = UnionSets(g, StaysWith(g))
          /\ comdatMembers' = [c \in Comdat |->
               IF c = m.comdat[g] /\ comdatMembers[c] = None THEN g ELSE comdatMembers[c]]
     ELSE UNCHANGED <<named, classes, comdatMembers>>
  /\ UNCHANGED <<m, preserve, pc, clusterID, load, hash, parts>>

Recorded ==
  /\ pc = "record"
  /\ todo = {}
  /\ pc' = "assign"
  /\ UNCHANGED <<m, preserve, named, todo, classes, comdatMembers, clusterID, load, hash, parts>>

(***************************************************************************)
(* The next cluster, a largest one left (the tie is broken by a name), and *)
(* the top of the queue of slots: a least loaded one, the first of those   *)
(* that are empty.                                                         *)
(***************************************************************************)
Unassigned == {C \in classes : C \cap DOMAIN clusterID = {}}

Largest(C) == \A D \in Unassigned : Cardinality(D) <= Cardinality(C)

MostLoaded(i) == \A j \in Slot : load[i] >= load[j]   \* mutant: comparison reversed

LeastLoaded(i) ==
  \A j \in Slot : \/ load[i] < load[j]
                  \/ load[i] = load[j] /\ (load[i] = 0 => i <= j)

AssignCluster(C, i) ==
  /\ pc = "assign"
  /\ C \in Unassigned /\ Largest(C)
  /\ LeastLoaded(i)
  /\ clusterID' = [g \in DOMAIN clusterID \cup C |-> IF g \in C THEN i ELSE clusterID[g]]
  /\ load' = [load EXCEPT ![i] = @ + Cardinality(C)]
  /\ UNCHANGED <<m, preserve, pc, named, todo, classes, comdatMembers, hash, parts>>

(***************************************************************************)
(* findPartitions is over. Symbols in no cluster are placed by the hash of *)
(* their name, which may be anything.                                      *)
(***************************************************************************)
HashedName(g) ==
  LET object == IF Indirect(g) THEN m.base[g] ELSE g
  IN  IF m.comdat[object] = None THEN object ELSE m.comdat[object]

Assigned ==
  /\ pc = "assign"
  /\ Unassigned = {}
  /\ hash' \in [{HashedName(g) : g \in m.defined \ DOMAIN clusterID} -> Slot]
  /\ pc' = "clone"
  /\ UNCHANGED <<m, preserve, named, todo, classes, comdatMembers, clusterID, load, parts>>

(***************************************************************************)
(* Clone partition I, keeping the bodies of the definitions that are in    *)
(* it, and call ModuleCallback.                                            *)
(***************************************************************************)
InPartEither(g, I) ==   \* mutant: the hash places clustered symbols too
  \/ g \in DOMAIN clusterID /\ clusterID[g] = I
  \/ HashedName(g) \in DOMAIN hash /\ hash[HashedName(g)] = I

InPart(g, I) ==
  IF g \in DOMAIN clusterID THEN clusterID[g] = I ELSE hash[HashedName(g)] = I

ClonePart ==
  LET I == Len(parts)
  IN  /\ pc = "clone"
      /\ I < SplitFactor
      /\ parts' = Append(parts, [defs |-> {g \in m.defined : InPart(g, I)},
                                 asm  |-> m.asm /\ I = 0])
      /\ UNCHANGED <<m, preserve, pc, named, todo, classes, comdatMembers, clusterID, load, hash>>

Return ==
  /\ pc = "clone"
  /\ Len(parts) = SplitFactor
  /\ pc' = "done"
  /\ UNCHANGED <<m, preserve, named, todo, classes, comdatMembers, clusterID, load, hash, parts>>

Next ==
  \/ Externalize
  \/ \E g \in Sym : RecordGVSet(g)
  \/ Recorded
  \/ \E C \in classes, i \in Slot : AssignCluster(C, i)
  \/ Assigned
  \/ ClonePart
  \/ Return

Spec == Init /\ [][Next]_vars /\ WF_vars(Next)

-----------------------------------------------------------------------------
(***************************************************************************)
(* Every variable has its type; the classes are disjoint and each is       *)
(* placed as a whole.                                                      *)
(***************************************************************************)
TypeOK ==
  /\ m \in Input
  /\ pc \in {"externalize", "record", "assign", "clone", "done"}
  /\ named \subseteq Sym /\ todo \subseteq Sym
  /\ classes \subseteq SUBSET m.defined
  /\ \A C, D \in classes : C # D => C \cap D = {}
  /\ comdatMembers \in [Comdat -> Sym \cup {None}]
  /\ DOMAIN clusterID \subseteq UNION classes
  /\ \A g \in DOMAIN clusterID : clusterID[g] \in Slot
  /\ load \in [Slot -> Nat]
  /\ Len(parts) <= SplitFactor

(***************************************************************************)
(* A partition for each definition, and only one: the two ways of placing  *)
(* a symbol never both claim it or both leave it out. The assembly is kept *)
(* once.                                                                   *)
(***************************************************************************)
SplitsOnce ==
  pc = "done" =>
    /\ \A g \in m.defined : \E i \in DOMAIN parts :
         \A j \in DOMAIN parts : g \in parts[j].defs <=> j = i
    /\ m.asm => \E i \in DOMAIN parts : \A j \in DOMAIN parts : parts[j].asm <=> j = i

(***************************************************************************)
(* The module as Decompose sees it, and the placement that was found.      *)
(* An ifunc is never recorded, so nothing is tied to it for its own sake.  *)
(***************************************************************************)
Users(g) == GlobalValueUsers(g)

Abstracted ==
  [defs  |-> m.defined,
   local |-> {g \in m.local : m.kind[g] # "ifunc"},
   refs  |-> UNION {Users(g) \X {g} : g \in m.defined},
   tied  |-> {t \in m.defined \X m.defined :
                \/ m.comdat[t[1]] = m.comdat[t[2]] /\ m.comdat[t[1]] # None /\ t[1] # t[2]
                \/ m.kind[t[1]] = "alias" /\ t[2] = m.base[t[1]]
                \/ \E b \in m.blocks[t[1]] : t[2] \in GlobalValueUsers(b)}]

PartOf(g) == CHOOSE i \in Slot : g \in parts[i + 1].defs

(***************************************************************************)
(* SplitModule gives one of the answers Decompose counts on: comdats,      *)
(* aliases, block addresses and (with PreserveLocals) locals stay with     *)
(* what they must stay with, and clusters are spread over the slots.       *)
(***************************************************************************)
AnswersAsExpected ==
  pc = "done" =>
    [g \in m.defined |-> PartOf(g)]
      \in Placements(m.defined, Links(Abstracted, m.defined, ~preserve))

(***************************************************************************)
(* "Try to balance pack those partitions into N files": two slots never    *)
(* differ by more than the size of the largest cluster.                    *)
(***************************************************************************)
Balanced ==
  \A i, j \in Slot : load[i] > load[j] =>
    \E C \in classes : load[i] - load[j] <= Cardinality(C)

(***************************************************************************)
(* "Unnamed entities must be named consistently between modules": of the   *)
(* definitions that another partition uses, the ifuncs that came without a *)
(* name have none if locals are preserved, since recordGVSet never sees    *)
(* them; exactly these: every other one got its name before the cloning.   *)
(***************************************************************************)
UsedAcross(g) == \E u \in Users(g) \cap m.defined : PartOf(u) # PartOf(g)

StaysUnnamed(g) == preserve /\ m.kind[g] = "ifunc" /\ g \in m.unnamed

UsedAcrossIsNamed ==
  pc = "done" =>
    \A g \in m.defined : UsedAcross(g) => (g \in named <=> ~StaysUnnamed(g))

(***************************************************************************)
(* "Find partitions for module in the way that no locals need to be        *)
(* globalized": with PreserveLocals each local stays with its users.       *)
(***************************************************************************)
NoLocalGlobalized ==
  pc = "done" => \A g \in m.local : \A u \in Users(g) : PartOf(u) = PartOf(g)
=============================================================================
