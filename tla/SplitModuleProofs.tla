------------------------- MODULE SplitModuleProofs -------------------------
(***************************************************************************)
(* Theorems about SplitModule, for every set of inputs and number of       *)
(* partitions, and their proofs.                                           *)
(***************************************************************************)
EXTENDS SplitModule, FiniteSetTheorems, SequenceTheorems, TLAPS

USE SplitFactorAssumption

-----------------------------------------------------------------------------
(***************************************************************************)
(* Placement. A definition has a slot from its cluster or, when the        *)
(* clusters are placed, one from the hash; the partitions are cloned in    *)
(* order, each with what its slot has got.                                 *)
(***************************************************************************)
ClusterSlots == \A g \in DOMAIN clusterID : clusterID[g] \in Slot

HashSlots ==
  \A g \in m.defined : g \notin DOMAIN clusterID => hash[HashedName(g)] \in Slot

SlotOf(g) == IF g \in DOMAIN clusterID THEN clusterID[g] ELSE hash[HashedName(g)]

PartType == [defs : SUBSET m.defined, asm : BOOLEAN]

ClonedParts ==
  /\ parts \in Seq(PartType)
  /\ Len(parts) <= SplitFactor
  /\ \A j \in 1 .. Len(parts) :
       /\ \A g \in m.defined : g \in parts[j].defs <=> SlotOf(g) = j - 1
       /\ parts[j].asm <=> m.asm /\ j = 1

SplitInv ==
  /\ m \in Input
  /\ ClusterSlots
  /\ pc \notin {"clone", "done"} => parts = <<>>
  /\ pc \in {"clone", "done"} => HashSlots /\ ClonedParts
  /\ pc = "done" => Len(parts) = SplitFactor

LEMMA SplitInit ==
  ASSUME Init
  PROVE  SplitInv
<1>1. m \in Input
  BY SplitModuleAssumption DEF Init
<1>2. DOMAIN <<>> = {}
  OBVIOUS
<1> QED
  BY <1>1, <1>2 DEF Init, SplitInv, ClusterSlots

LEMMA SplitClone ==
  ASSUME SplitInv, ClonePart
  PROVE  SplitInv'
<1> DEFINE p == [defs |-> {g \in m.defined : InPart(g, Len(parts))},
                 asm  |-> m.asm /\ Len(parts) = 0]
<1>1. /\ pc = "clone" /\ parts' = Append(parts, p)
      /\ UNCHANGED <<m, pc, clusterID, hash>>
      /\ Len(parts) < SplitFactor
  BY DEF ClonePart
<1>2. p \in PartType /\ parts \in Seq(PartType)
  <2>1. m.asm \in BOOLEAN
    BY DEF SplitInv, Input
  <2> QED
    BY <1>1, <2>1 DEF PartType, SplitInv, ClonedParts
<1>3. PICK n \in Nat : n = Len(parts)
  BY <1>2, LenProperties
<1>4. /\ \A g \in m.defined : g \in p.defs <=> SlotOf(g) = n
      /\ p.asm <=> m.asm /\ n = 0
  BY <1>3 DEF InPart, SlotOf
<1> HIDE DEF p
<1>5. /\ parts' \in Seq(PartType) /\ Len(parts') = n + 1 /\ parts'[n + 1] = p
      /\ \A j \in 1 .. n : parts'[j] = parts[j]
  BY <1>1, <1>2, <1>3, AppendProperties
<1>6. 1 .. n + 1 = 1 .. n \cup {n + 1} /\ n + 1 - 1 = n /\ (n + 1 = 1 <=> n = 0) /\ n + 1 <= SplitFactor
  BY <1>1, <1>3
<1>7. PartType' = PartType /\ (\A g : SlotOf(g)' = SlotOf(g)) /\ (HashSlots' <=> HashSlots)
  BY <1>1 DEF PartType, SlotOf, HashSlots, HashedName, Indirect
<1>8. ASSUME NEW j \in 1 .. n + 1
      PROVE  /\ \A g \in m.defined : g \in parts'[j].defs <=> SlotOf(g) = j - 1
             /\ parts'[j].asm <=> m.asm /\ j = 1
  <2>1. CASE j \in 1 .. n
    BY <1>1, <1>3, <1>5, <2>1 DEF SplitInv, ClonedParts
  <2>2. CASE j = n + 1
    BY <1>4, <1>5, <1>6, <2>2
  <2> QED
    BY <1>6, <2>1, <2>2
<1>9. ClonedParts'
  BY <1>1, <1>5, <1>6, <1>7, <1>8 DEF ClonedParts
<1> QED
  BY <1>1, <1>7, <1>9 DEF SplitInv, ClusterSlots

LEMMA ExternalizedInput ==
  ASSUME NEW mod \in Input
  PROVE  /\ Externalized(mod) \in Input
         /\ Externalized(mod).defined = mod.defined
         /\ Externalized(mod).kind = mod.kind
         /\ Externalized(mod).unnamed = mod.unnamed
  BY DEF Externalized, Input

LEMMA SplitNext ==
  ASSUME SplitInv, [Next]_vars
  PROVE  SplitInv'
<1>1. CASE Externalize
  <2>1. m' \in Input
    BY <1>1, ExternalizedInput DEF Externalize, SplitInv
  <2> QED
    BY <1>1, <2>1 DEF Externalize, SplitInv, ClusterSlots
<1>2. ASSUME NEW g \in Sym, RecordGVSet(g) PROVE SplitInv'
  BY <1>2 DEF RecordGVSet, SplitInv, ClusterSlots
<1>3. CASE Recorded
  BY <1>3 DEF Recorded, SplitInv, ClusterSlots
<1>4. ASSUME NEW C \in classes, NEW i \in Slot, AssignCluster(C, i) PROVE SplitInv'
  <2>1. ClusterSlots'
    BY <1>4 DEF AssignCluster, SplitInv, ClusterSlots
  <2> QED
    BY <1>4, <2>1 DEF AssignCluster, SplitInv
<1>5. CASE Assigned
  <2>1. /\ pc = "assign" /\ pc' = "clone" /\ UNCHANGED <<m, clusterID, parts>> /\ parts = <<>>
        /\ hash' \in [{HashedName(g) : g \in m.defined \ DOMAIN clusterID} -> Slot]
    BY <1>5 DEF Assigned, SplitInv
  <2>2. \A g : HashedName(g)' = HashedName(g)
    BY <2>1 DEF HashedName, Indirect
  <2>3. HashSlots'
    BY <2>1, <2>2 DEF HashSlots
  <2>4. ClonedParts'
    <3>1. Len(<<>>) = 0 /\ 1 .. 0 = {} /\ <<>> \in Seq(PartType')
      BY EmptySeq
    <3> QED
      BY <2>1, <3>1 DEF ClonedParts
  <2> QED
    BY <2>1, <2>3, <2>4 DEF SplitInv, ClusterSlots
<1>6. CASE ClonePart
  BY <1>6, SplitClone
<1>7. ASSUME UNCHANGED <<m, clusterID, hash, parts>>, pc \in {"clone", "done"} <=> pc' \in {"clone", "done"},
             pc' = "done" => Len(parts) = SplitFactor
      PROVE  SplitInv'
  <2>1. (HashSlots' <=> HashSlots) /\ (ClonedParts' <=> ClonedParts)
    <3>1. PartType' = PartType /\ \A g : SlotOf(g)' = SlotOf(g) /\ HashedName(g)' = HashedName(g)
      BY <1>7 DEF PartType, SlotOf, HashedName, Indirect
    <3> QED
      BY <1>7, <3>1 DEF HashSlots, ClonedParts
  <2> QED
    BY <1>7, <2>1 DEF SplitInv, ClusterSlots
<1>8. CASE Return
  BY <1>7, <1>8 DEF Return
<1>9. CASE UNCHANGED vars
  BY <1>7, <1>9 DEF vars, SplitInv
<1> QED
  BY <1>1, <1>2, <1>3, <1>4, <1>5, <1>6, <1>8, <1>9 DEF Next

LEMMA SplitImplies ==
  ASSUME SplitInv
  PROVE  SplitsOnce
<1> SUFFICES ASSUME pc = "done" PROVE SplitsOnce
  BY DEF SplitsOnce
<1>1. /\ Len(parts) = SplitFactor /\ DOMAIN parts = 1 .. SplitFactor
      /\ \A j \in 1 .. SplitFactor :
           /\ \A g \in m.defined : g \in parts[j].defs <=> SlotOf(g) = j - 1
           /\ parts[j].asm <=> m.asm /\ j = 1
  BY LenProperties DEF SplitInv, ClonedParts
<1>2. ASSUME NEW g \in m.defined
      PROVE  \E i \in DOMAIN parts : \A j \in DOMAIN parts : g \in parts[j].defs <=> j = i
  <2>1. SlotOf(g) \in Slot
    BY DEF SplitInv, ClusterSlots, HashSlots, SlotOf
  <2>2. PICK s \in Slot : s = SlotOf(g)
    BY <2>1
  <2>3. s + 1 \in DOMAIN parts
    BY <1>1 DEF Slot
  <2>4. ASSUME NEW j \in DOMAIN parts
        PROVE  g \in parts[j].defs <=> j = s + 1
    <3>1. j \in 1 .. SplitFactor /\ (s = j - 1 <=> j = s + 1)
      BY <1>1, <2>4 DEF Slot
    <3>2. g \in parts[j].defs <=> s = j - 1
      BY <1>1, <2>2, <3>1
    <3> QED
      BY <3>1, <3>2
  <2> QED
    BY <2>3, <2>4
<1>3. 1 \in 1 .. SplitFactor
  OBVIOUS
<1>4. ASSUME m.asm
      PROVE  \E i \in DOMAIN parts : \A j \in DOMAIN parts : parts[j].asm <=> j = i
  <2>1. 1 \in DOMAIN parts
    BY <1>1, <1>3
  <2>2. ASSUME NEW j \in DOMAIN parts
        PROVE  parts[j].asm <=> j = 1
    <3>1. j \in 1 .. SplitFactor
      BY <1>1, <2>2
    <3> QED
      BY <1>1, <1>4, <3>1, Zenon
  <2> QED
    BY <2>1, <2>2, Zenon
<1> QED
  BY <1>2, <1>4 DEF SplitsOnce

(***************************************************************************)
(* Every definition of the module has its body in exactly one partition,   *)
(* and the assembly is kept in exactly one, whatever the clusters are and  *)
(* wherever the hash sends what is in none.                                *)
(***************************************************************************)
THEOREM EachDefinitionOnce == Spec => []SplitsOnce
  BY SplitInit, SplitNext, SplitImplies, PTL DEF Spec

-----------------------------------------------------------------------------
(***************************************************************************)
(* Names. What has none is an ifunc that came without and locals are       *)
(* preserved, or it has still to be recorded, or to be externalized; no    *)
(* partition is cloned before all of this was done. No ifunc is recorded.  *)
(***************************************************************************)
NameInv ==
  /\ m \in Input
  /\ pc = "record" \/ pc = "externalize" \/ todo = {}
  /\ \A g \in todo : m.kind[g] # "ifunc"
  /\ \A g \in m.defined :
       /\ m.kind[g] # "ifunc" => g \in todo \cup named
       /\ StaysUnnamed(g) => g \notin named
       /\ m.kind[g] = "ifunc" => \/ StaysUnnamed(g) \/ g \in named
                                 \/ pc = "externalize" /\ ~preserve

LEMMA NameNext ==
  ASSUME NameInv, [Next]_vars
  PROVE  NameInv'
<1>0. m.defined \subseteq Sym
  BY DEF NameInv, Input
<1>1. CASE Externalize
  <2>1. /\ m' \in Input /\ m'.defined = m.defined /\ m'.kind = m.kind /\ m'.unnamed = m.unnamed
        /\ preserve' = preserve /\ todo' = todo /\ pc' = "record"
    BY <1>1, ExternalizedInput DEF Externalize, NameInv
  <2>2. CASE preserve
    BY <1>1, <2>1, <2>2 DEF Externalize, NameInv, StaysUnnamed
  <2>3. CASE ~preserve
    BY <1>0, <1>1, <2>1, <2>3 DEF Externalize, NameInv, StaysUnnamed
  <2> QED
    BY <2>2, <2>3
<1>2. ASSUME NEW g \in Sym, RecordGVSet(g) PROVE NameInv'
  BY <1>2 DEF RecordGVSet, NameInv, StaysUnnamed
<1>3. CASE Recorded
  BY <1>3 DEF Recorded, NameInv, StaysUnnamed
<1>4. ASSUME NEW C \in classes, NEW i \in Slot, AssignCluster(C, i) PROVE NameInv'
  BY <1>4 DEF AssignCluster, NameInv, StaysUnnamed
<1>5. CASE Assigned \/ ClonePart \/ Return \/ UNCHANGED vars
  BY <1>5 DEF Assigned, ClonePart, Return, vars, NameInv, StaysUnnamed
<1> QED
  BY <1>1, <1>2, <1>3, <1>4, <1>5 DEF Next

(***************************************************************************)
(* Whatever one partition uses of another has had its name before the      *)
(* first of them was cloned, so that both know it by the same; except, if  *)
(* locals are preserved, an ifunc that came without, which never gets one. *)
(***************************************************************************)
THEOREM NamesAgree == Spec => []UsedAcrossIsNamed
<1>1. Init => NameInv
  <2> SUFFICES ASSUME Init PROVE NameInv
    OBVIOUS
  <2>1. m \in Input /\ m.defined \subseteq Sym /\ pc = "externalize"
    BY SplitModuleAssumption DEF Init, Input
  <2>2. /\ todo = {g \in Sym : m.kind[g] # "ifunc"} /\ named = Sym \ m.unnamed
        /\ preserve \in BOOLEAN
    BY DEF Init
  <2>3. ASSUME NEW g \in m.defined
        PROVE  /\ m.kind[g] # "ifunc" => g \in todo \cup named
               /\ StaysUnnamed(g) => g \notin named
               /\ m.kind[g] = "ifunc" => \/ StaysUnnamed(g) \/ g \in named
                                         \/ pc = "externalize" /\ ~preserve
    BY <2>1, <2>2 DEF StaysUnnamed
  <2>4. \A g \in todo : m.kind[g] # "ifunc"
    BY <2>2
  <2> QED
    BY <2>1, <2>3, <2>4 DEF NameInv
<1>2. NameInv => UsedAcrossIsNamed
  BY DEF NameInv, UsedAcrossIsNamed, StaysUnnamed
<1> QED
  BY <1>1, <1>2, NameNext, PTL DEF Spec

-----------------------------------------------------------------------------
(***************************************************************************)
(* What a definition must stay with are definitions, and each of them is   *)
(* linked to it in the module as Decompose sees it.                        *)
(***************************************************************************)
InputInv == m \in Input /\ WellFormed(m)

LinksOfModule == Links(Abstracted, m.defined, ~preserve)

LEMMA UsersAreDefined ==
  ASSUME InputInv, NEW v \in Sym \cup PureConst
  PROVE  GlobalValueUsers(v) \subseteq m.defined
<1> DEFINE S == m.defined \cup PureConst
<1>1. m.defined \subseteq Sym /\ PureConst \cap Sym = {}
  BY SplitModuleAssumption DEF InputInv, Input
<1>2. \A x \in Sym \cup PureConst : m.users[x] \subseteq S
  <2> SUFFICES ASSUME NEW x \in Sym \cup PureConst PROVE m.users[x] \subseteq S
    OBVIOUS
  <2>1. m.users[x] \subseteq Sym \cup PureConst
    BY DEF InputInv, Input
  <2>2. m.users[x] \cap Sym \subseteq m.defined
    BY DEF InputInv, WellFormed
  <2> QED
    BY <2>1, <2>2
<1>3. S \in SUBSET (Sym \cup PureConst)
  BY <1>1
<1>4. \A k \in S \cap PureConst : m.users[k] \subseteq S
  BY <1>2
<1>5. ASSUME NEW g \in GlobalValueUsers(v) PROVE g \in m.defined
  <2>1. g \in Sym /\ g \in S
    BY <1>2, <1>3, <1>4, <1>5 DEF GlobalValueUsers
  <2> QED
    BY <1>1, <2>1
<1> QED
  BY <1>5

\* A definition recordGVSet is called for, sooner or later.
Recordable(g) == g \in m.defined /\ m.kind[g] # "ifunc"

\* What a definition must stay with, apart from its comdat.
OwnPartners(g) ==
  (IF Indirect(g) THEN {m.base[g]} ELSE {})
  \cup (UNION {GlobalValueUsers(b) : b \in m.blocks[g]})
  \cup (IF g \in m.local THEN GlobalValueUsers(g) ELSE {})

LEMMA OwnPartnersLinked ==
  ASSUME InputInv, preserve \/ m.local = {}, NEW g, Recordable(g), NEW h \in OwnPartners(g)
  PROVE  h \in m.defined /\ (<<g, h>> \in LinksOfModule \/ <<h, g>> \in LinksOfModule)
<1>1. /\ g \in m.defined /\ g \in Sym /\ m.kind[g] # "ifunc"
      /\ m.kind[g] \in Kind /\ m.blocks[g] \subseteq PureConst
  BY DEF Recordable, InputInv, Input
<1>2. CASE Indirect(g) /\ h = m.base[g]
  <2>1. h \in m.defined
    BY <1>1, <1>2 DEF InputInv, WellFormed
  <2>2. <<g, h>> \in Abstracted.tied
    BY <1>1, <1>2, <2>1 DEF Abstracted, Indirect
  <2> QED
    BY <1>1, <2>1, <2>2 DEF LinksOfModule, Links
<1>3. ASSUME NEW b \in m.blocks[g], h \in GlobalValueUsers(b)
      PROVE  h \in m.defined /\ <<g, h>> \in LinksOfModule
  <2>1. h \in m.defined
    BY <1>1, <1>3, UsersAreDefined
  <2>2. <<g, h>> \in Abstracted.tied
    BY <1>1, <1>3, <2>1 DEF Abstracted
  <2> QED
    BY <1>1, <2>1, <2>2 DEF LinksOfModule, Links
<1>4. CASE g \in m.local /\ h \in GlobalValueUsers(g)
  <2>1. h \in m.defined
    BY <1>1, <1>4, UsersAreDefined
  <2>2. g \in Abstracted.local
    BY <1>1, <1>4 DEF Abstracted
  <2>3. <<h, g>> \in Abstracted.refs
    BY <1>1, <1>4 DEF Abstracted, Users
  <2> QED
    BY <1>1, <1>4, <2>1, <2>2, <2>3 DEF LinksOfModule, Links
<1> QED
  BY <1>2, <1>3, <1>4 DEF OwnPartners

LEMMA LinkMeansPartner ==
  ASSUME InputInv, NEW l \in LinksOfModule
  PROVE  /\ l \in m.defined \X m.defined
         /\ \/ l[2] \in OwnPartners(l[1]) /\ Recordable(l[1])
            \/ l[1] \in OwnPartners(l[2]) /\ Recordable(l[2])
            \/ /\ m.comdat[l[1]] = m.comdat[l[2]] /\ m.comdat[l[1]] # None
               /\ Recordable(l[1]) /\ Recordable(l[2])
<1>1. l \in m.defined \X m.defined /\ l[1] \in Sym /\ l[2] \in Sym
  BY DEF LinksOfModule, Links, InputInv, Input
<1>2. CASE l \in Abstracted.tied
  <2>1. CASE m.comdat[l[1]] = m.comdat[l[2]] /\ m.comdat[l[1]] # None
    BY <1>1, <2>1 DEF InputInv, WellFormed, Recordable
  <2>2. CASE m.kind[l[1]] = "alias" /\ l[2] = m.base[l[1]]
    BY <1>1, <2>2 DEF OwnPartners, Indirect, Recordable
  <2>3. CASE \E b \in m.blocks[l[1]] : l[2] \in GlobalValueUsers(b)
    <3>1. m.kind[l[1]] = "function"
      BY <1>1, <2>3 DEF InputInv, WellFormed
    <3> QED
      BY <1>1, <2>3, <3>1 DEF OwnPartners, Recordable
  <2> QED
    BY <1>2, <2>1, <2>2, <2>3 DEF Abstracted
<1>3. CASE preserve /\ l[2] \in Abstracted.local /\ l \in Abstracted.refs
  <2>1. l[2] \in m.local /\ m.kind[l[2]] # "ifunc"
    BY <1>3 DEF Abstracted
  <2>2. l[1] \in GlobalValueUsers(l[2])
    BY <1>1, <1>3 DEF Abstracted, Users
  <2> QED
    BY <1>1, <2>1, <2>2 DEF OwnPartners, Recordable
<1> QED
  BY <1>1, <1>2, <1>3 DEF LinksOfModule, Links

-----------------------------------------------------------------------------
(***************************************************************************)
(* The classes are disjoint, unionSets keeps them so, and nothing that was *)
(* in one class is ever separated.                                         *)
(***************************************************************************)
TogetherIn(K, x, y) == \E C \in K : x \in C /\ y \in C

Together(x, y) == TogetherIn(classes, x, y)

ClassInv ==
  /\ classes \subseteq SUBSET m.defined
  /\ {} \notin classes
  /\ \A C, D \in classes : C \cap D # {} => C = D

LEMMA UnionSetsJoins ==
  ASSUME ClassInv, NEW g \in m.defined, NEW S \in SUBSET m.defined,
         classes' = UnionSets(g, S), m' = m
  PROVE  /\ ClassInv'
         /\ \A x, y : Together(x, y) => TogetherIn(classes', x, y)
         /\ \A h \in S : TogetherIn(classes', g, h)
<1>1. CASE S = {}
  BY <1>1 DEF UnionSets, ClassInv, Together, TogetherIn
<1>2. CASE S # {}
  <2> DEFINE touched == {C \in classes : C \cap (S \cup {g}) # {}}
             N == (UNION touched) \cup S \cup {g}
  <2>1. classes' = (classes \ touched) \cup {N}
    BY <1>2 DEF UnionSets
  <2>2. N \subseteq m.defined /\ g \in N /\ S \subseteq N /\ \A C \in touched : C \subseteq N
    BY DEF ClassInv
  <2>3. \A C \in classes \ touched : C \cap N = {}
    BY DEF ClassInv
  <2> HIDE DEF touched, N
  <2>4. ClassInv'
    BY <2>1, <2>2, <2>3 DEF ClassInv
  <2>5. ASSUME NEW x, NEW y, Together(x, y) PROVE TogetherIn(classes', x, y)
    <3>1. PICK C \in classes : x \in C /\ y \in C
      BY <2>5 DEF Together, TogetherIn
    <3> QED
      BY <2>1, <2>2, <3>1 DEF Together, TogetherIn
  <2> QED
    BY <2>1, <2>2, <2>4, <2>5 DEF Together, TogetherIn
<1> QED
  BY <1>1, <1>2

\* No class has one part inside and one part outside of a closed set.
Whole(A) == \A C \in classes : C \subseteq A \/ C \cap A = {}

LEMMA UnionSetsWhole ==
  ASSUME ClassInv, NEW g, NEW S, classes' = UnionSets(g, S),
         NEW A, Whole(A), \A h \in S : h \in A <=> g \in A
  PROVE  Whole(A)'
<1>1. CASE S = {}
  BY <1>1 DEF UnionSets, Whole
<1>2. CASE S # {}
  <2> DEFINE touched == {C \in classes : C \cap (S \cup {g}) # {}}
             N == (UNION touched) \cup S \cup {g}
  <2>1. classes' = (classes \ touched) \cup {N}
    BY <1>2 DEF UnionSets
  <2>2. N \subseteq A \/ N \cap A = {}
    <3>1. CASE g \in A
      <4>1. S \cup {g} \subseteq A
        BY <3>1
      <4>2. \A C \in touched : C \subseteq A
        BY <4>1 DEF Whole
      <4> QED
        BY <4>1, <4>2
    <3>2. CASE g \notin A
      <4>1. (S \cup {g}) \cap A = {}
        BY <3>2
      <4>2. \A C \in touched : C \cap A = {}
        BY <4>1 DEF Whole
      <4> QED
        BY <4>1, <4>2
    <3> QED
      BY <3>1, <3>2
  <2> HIDE DEF touched, N
  <2> QED
    BY <2>1, <2>2 DEF Whole
<1> QED
  BY <1>1, <1>2

(***************************************************************************)
(* Recording. Every definition that was recorded is in one class with all  *)
(* it must stay with, and a class holds nothing but what links connect.    *)
(***************************************************************************)
MembersInv ==
  /\ comdatMembers \in [Comdat -> Sym \cup {None}]
  /\ \A c \in Comdat : comdatMembers[c] # None =>
       Recordable(comdatMembers[c]) /\ m.comdat[comdatMembers[c]] = c

RecordedInv ==
  \A g \in Sym \ todo : Recordable(g) =>
    /\ \A h \in OwnPartners(g) : Together(g, h)
    /\ m.comdat[g] # None =>
         /\ comdatMembers[m.comdat[g]] # None
         /\ g = comdatMembers[m.comdat[g]] \/ Together(g, comdatMembers[m.comdat[g]])

ConnectedInv == \A A \in SUBSET m.defined : Closed(A, LinksOfModule) => Whole(A)

RecordInv ==
  /\ InputInv
  /\ todo \subseteq {g \in Sym : m.kind[g] # "ifunc"}
  /\ ClassInv /\ MembersInv /\ RecordedInv
  /\ pc = "externalize" => classes = {} /\ todo = {g \in Sym : m.kind[g] # "ifunc"}
                           /\ comdatMembers = [c \in Comdat |-> None]
  /\ pc # "externalize" => (preserve \/ m.local = {}) /\ ConnectedInv
  /\ pc \notin {"externalize", "record"} => todo = {}

LEMMA RecordInit ==
  ASSUME Init
  PROVE  RecordInv
<1>1. InputInv
  BY SplitModuleAssumption DEF Init, InputInv
<1>2. MembersInv /\ RecordedInv
  BY DEF Init, MembersInv, RecordedInv, Recordable
<1> QED
  BY <1>1, <1>2 DEF Init, RecordInv, ClassInv

LEMMA RecordExternalize ==
  ASSUME RecordInv, Externalize
  PROVE  RecordInv'
<1>1. /\ pc = "externalize" /\ pc' = "record" /\ classes = {}
      /\ UNCHANGED <<preserve, todo, classes, comdatMembers>>
      /\ m' = m \/ m' = Externalized(m)
      /\ preserve \/ m' = Externalized(m)
  BY DEF Externalize, RecordInv
<1>2. InputInv' /\ m'.kind = m.kind /\ (preserve \/ m'.local = {})
  <2>1. /\ Externalized(m) \in Input /\ Externalized(m).local = {}
        /\ Externalized(m).kind = m.kind /\ WellFormed(Externalized(m))
    BY DEF RecordInv, InputInv, Input, WellFormed, Externalized
  <2> QED
    BY <1>1, <2>1 DEF RecordInv, InputInv
<1>3. ClassInv' /\ ConnectedInv'
  BY <1>1 DEF ClassInv, ConnectedInv, Whole
<1>4. MembersInv' /\ RecordedInv'
  BY <1>1, <1>2 DEF RecordInv, MembersInv, RecordedInv, Recordable
<1> QED
  BY <1>1, <1>2, <1>3, <1>4 DEF RecordInv

LEMMA SameModule ==
  ASSUME UNCHANGED <<m, preserve>>
  PROVE  /\ (InputInv' <=> InputInv) /\ LinksOfModule' = LinksOfModule
         /\ \A g : OwnPartners(g)' = OwnPartners(g) /\ (Recordable(g)' <=> Recordable(g))
<1>1. \A v : GlobalValueUsers(v)' = GlobalValueUsers(v)
  BY DEF GlobalValueUsers
<1>2. Abstracted' = Abstracted
  BY <1>1 DEF Abstracted, Users
<1>3. LinksOfModule' = LinksOfModule
  BY <1>2 DEF LinksOfModule, Links
<1>4. \A g : OwnPartners(g)' = OwnPartners(g)
  BY <1>1 DEF OwnPartners, Indirect
<1> QED
  BY <1>3, <1>4 DEF InputInv, Recordable, WellFormed

LEMMA RecordStep ==
  ASSUME RecordInv, NEW g \in Sym, RecordGVSet(g)
  PROVE  RecordInv'
<1>1. /\ pc = "record" /\ g \in todo /\ todo' = todo \ {g}
      /\ UNCHANGED <<m, preserve, pc>>
      /\ m.kind[g] # "ifunc"
  BY DEF RecordGVSet, RecordInv
<1> USE SameModule
<1>2. CASE g \notin m.defined
  <2>1. UNCHANGED <<classes, comdatMembers>> /\ ~Recordable(g)
    BY <1>2 DEF RecordGVSet, Recordable
  <2>2. ClassInv' /\ MembersInv' /\ ConnectedInv'
    BY <1>1, <2>1 DEF RecordInv, ClassInv, MembersInv, ConnectedInv, Closed, Whole, Recordable
  <2>3. RecordedInv'
    BY <1>1, <2>1 DEF RecordInv, RecordedInv, Together, TogetherIn
  <2> QED
    BY <1>1, <2>2, <2>3 DEF RecordInv
<1>3. CASE g \in m.defined
  <2> DEFINE c == m.comdat[g]
             first == comdatMembers[c]
             S == StaysWith(g)
  <2>1. Recordable(g) /\ (c \in Comdat \/ c = None)
    BY <1>1, <1>3 DEF Recordable, RecordInv, InputInv, Input
  <2>2. /\ classes' = UnionSets(g, S)
        /\ comdatMembers' = [d \in Comdat |->
             IF d = c /\ comdatMembers[d] = None THEN g ELSE comdatMembers[d]]
    BY <1>3 DEF RecordGVSet
  <2>3. S = OwnPartners(g) \cup (IF c = None THEN {} ELSE {first} \ {None})
    BY DEF StaysWith, OwnPartners, ComdatPartner
  <2>4. ASSUME c # None, first # None
        PROVE  Recordable(first) /\ m.comdat[first] = c
    BY <2>1, <2>4 DEF RecordInv, MembersInv
  <2>5. ASSUME NEW h \in S
        PROVE  h \in m.defined /\ (h = g \/ <<g, h>> \in LinksOfModule \/ <<h, g>> \in LinksOfModule)
    <3>1. CASE h \in OwnPartners(g)
      BY <1>1, <2>1, <3>1, OwnPartnersLinked DEF RecordInv
    <3>2. CASE c # None /\ h = first /\ h # None
      <4>1. h \in m.defined /\ m.comdat[h] = c
        BY <2>4, <3>2 DEF Recordable
      <4>2. h # g => <<g, h>> \in Abstracted.tied
        BY <1>3, <3>2, <4>1 DEF Abstracted
      <4> QED
        BY <1>3, <4>1, <4>2 DEF LinksOfModule, Links
    <3> QED
      BY <2>3, <2>5, <3>1, <3>2
  <2> HIDE DEF S
  <2>6. /\ ClassInv'
        /\ \A x, y : Together(x, y) => TogetherIn(classes', x, y)
        /\ \A h \in S : TogetherIn(classes', g, h)
    BY <1>1, <1>3, <2>2, <2>5, UnionSetsJoins DEF RecordInv
  <2>7. MembersInv'
    <3>1. comdatMembers' \in [Comdat -> Sym \cup {None}]
      BY <2>2 DEF RecordInv, MembersInv
    <3> QED
      BY <1>1, <2>1, <2>2, <3>1 DEF RecordInv, MembersInv
  <2>8. RecordedInv'
    <3> SUFFICES ASSUME NEW h \in Sym \ todo', Recordable(h)
                 PROVE  /\ \A x \in OwnPartners(h) : TogetherIn(classes', h, x)
                        /\ m.comdat[h] # None =>
                             /\ comdatMembers'[m.comdat[h]] # None
                             /\ h = comdatMembers'[m.comdat[h]] \/ TogetherIn(classes', h, comdatMembers'[m.comdat[h]])
      BY <1>1 DEF RecordedInv, Together
    <3>1. CASE h = g
      <4>1. g # None
        BY SplitModuleAssumption
      <4> QED
        BY <2>1, <2>2, <2>3, <2>6, <3>1, <4>1
    <3>2. CASE h # g
      <4>1. h \in Sym \ todo
        BY <1>1, <3>2
      <4>2. m.comdat[h] # None => m.comdat[h] \in Comdat
        BY <4>1 DEF RecordInv, InputInv, Input
      <4>3. m.comdat[h] # None => comdatMembers'[m.comdat[h]] = comdatMembers[m.comdat[h]]
        BY <2>2, <4>1, <4>2 DEF RecordInv, RecordedInv
      <4> QED
        BY <2>6, <4>1, <4>3 DEF RecordInv, RecordedInv
    <3> QED
      BY <3>1, <3>2
  <2>9. ConnectedInv'
    <3> SUFFICES ASSUME NEW A \in SUBSET m.defined, Closed(A, LinksOfModule)
                 PROVE  Whole(A)'
      BY <1>1 DEF ConnectedInv, Closed
    <3>1. \A h \in S : h \in A <=> g \in A
      BY <2>5 DEF Closed
    <3>2. Whole(A)
      BY <1>1 DEF RecordInv, ConnectedInv
    <3> QED
      BY <2>2, <3>1, <3>2, UnionSetsWhole DEF RecordInv
  <2> QED
    BY <1>1, <2>6, <2>7, <2>8, <2>9 DEF RecordInv
<1> QED
  BY <1>2, <1>3

LEMMA RecordNext ==
  ASSUME RecordInv, [Next]_vars
  PROVE  RecordInv'
<1>1. ASSUME UNCHANGED <<m, preserve, todo, classes, comdatMembers>>, pc' = "externalize" <=> pc = "externalize",
             pc' \in {"externalize", "record"} => pc = pc', pc = "record" /\ pc' # pc => todo = {}
      PROVE  RecordInv'
  <2>1. ClassInv' /\ MembersInv' /\ RecordedInv'
    BY <1>1, SameModule DEF RecordInv, ClassInv, MembersInv, RecordedInv, Together, TogetherIn
  <2>2. ConnectedInv' <=> ConnectedInv
    BY <1>1, SameModule DEF ConnectedInv, Closed, Whole
  <2> QED
    BY <1>1, <2>1, <2>2, SameModule DEF RecordInv
<1>2. CASE Externalize
  BY <1>2, RecordExternalize
<1>3. ASSUME NEW g \in Sym, RecordGVSet(g) PROVE RecordInv'
  BY <1>3, RecordStep
<1>4. CASE Recorded
  BY <1>1, <1>4 DEF Recorded
<1>5. ASSUME NEW C \in classes, NEW i \in Slot, AssignCluster(C, i) PROVE RecordInv'
  BY <1>1, <1>5 DEF AssignCluster
<1>6. CASE Assigned \/ ClonePart \/ Return
  BY <1>1, <1>6 DEF Assigned, ClonePart, Return
<1>7. CASE UNCHANGED vars
  BY <1>1, <1>7 DEF vars
<1> QED
  BY <1>2, <1>3, <1>4, <1>5, <1>6, <1>7 DEF Next

-----------------------------------------------------------------------------
(***************************************************************************)
(* Placement. A class is placed as a whole, no class before a larger one.  *)
(* A slot has a load when and only when it has a class, so that a class    *)
(* joins another only when every slot has one, and one at least as large.  *)
(***************************************************************************)
Placed(C, s) == \A g \in C : g \in DOMAIN clusterID /\ clusterID[g] = s

Big(C) == \E x, y \in C : x # y

SharedOnlyWhenFull ==
  \A B, C \in classes : \A s \in Slot :
    B # C /\ Big(B) /\ Big(C) /\ Placed(B, s) /\ Placed(C, s)
      => \A t \in Slot : \E D \in classes : Big(D) /\ Placed(D, t)

LoadInv ==
  /\ load \in [Slot -> Nat]
  /\ \A s \in Slot : load[s] > 0 <=> \E C \in classes : Placed(C, s)

SizeInv == \A C \in classes \ Unassigned : \A D \in Unassigned : Cardinality(D) <= Cardinality(C)

AssignInv ==
  /\ DOMAIN clusterID \subseteq UNION classes
  /\ \A C \in classes \ Unassigned : \E s \in Slot : Placed(C, s)
  /\ pc \in {"externalize", "record"} => DOMAIN clusterID = {}
  /\ LoadInv /\ SizeInv /\ SharedOnlyWhenFull /\ Balanced
  /\ pc \in {"clone", "done"} => Unassigned = {}

LEMMA ClassSize ==
  ASSUME RecordInv, NEW C \in classes
  PROVE  Cardinality(C) \in Nat /\ Cardinality(C) > 0 /\ (Big(C) <=> Cardinality(C) > 1)
<1>1. C \subseteq Sym /\ C # {}
  BY DEF RecordInv, ClassInv, InputInv, Input
<1>2. IsFiniteSet(C)
  BY <1>1, FS_Subset, SplitModuleAssumption
<1>3. Cardinality(C) \in Nat /\ Cardinality(C) # 0
  BY <1>1, <1>2, FS_CardinalityType, FS_EmptySet
<1>4. Cardinality(C) = 1 <=> \E x : C = {x}
  BY <1>2, FS_Singleton
<1>5. Big(C) <=> ~ \E x : C = {x}
  BY <1>1 DEF Big
<1> QED
  BY <1>3, <1>4, <1>5

LEMMA PlacedClass ==
  ASSUME {} \notin classes, NEW C \in classes, NEW s, Placed(C, s)
  PROVE  DOMAIN clusterID # {} /\ C \notin Unassigned
<1>1. PICK g : g \in C
  BY Zenon
<1>2. g \in DOMAIN clusterID
  BY <1>1 DEF Placed
<1> QED
  BY <1>1, <1>2 DEF Unassigned

LEMMA NothingPlaced ==
  ASSUME RecordInv, DOMAIN clusterID = {}, load \in [Slot -> Nat], \A s \in Slot : load[s] = 0,
         pc \notin {"clone", "done"}
  PROVE  AssignInv
<1>1. \A C \in classes, s \in Slot : ~Placed(C, s)
  BY PlacedClass DEF RecordInv, ClassInv
<1>2. Unassigned = classes
  BY DEF Unassigned
<1> QED
  BY <1>1, <1>2 DEF AssignInv, LoadInv, SizeInv, SharedOnlyWhenFull, Balanced

LEMMA AssignStep ==
  ASSUME RecordInv, AssignInv, NEW C \in classes, NEW i \in Slot, AssignCluster(C, i)
  PROVE  AssignInv'
<1> DEFINE n == Cardinality(C)
<1>1. /\ C \in Unassigned /\ Largest(C) /\ LeastLoaded(i)
      /\ clusterID' = [g \in DOMAIN clusterID \cup C |-> IF g \in C THEN i ELSE clusterID[g]]
      /\ load' = [load EXCEPT ![i] = @ + n]
      /\ classes' = classes /\ pc = "assign" /\ pc' = "assign"
  BY DEF AssignCluster
<1>2. C # {} /\ C \cap DOMAIN clusterID = {} /\ n \in Nat /\ n > 0
  BY <1>1, ClassSize DEF RecordInv, ClassInv, Unassigned
<1>3. ASSUME NEW D \in classes, D # C
      PROVE  /\ \A s : Placed(D, s)' <=> Placed(D, s)
             /\ D \in Unassigned' <=> D \in Unassigned
  <2>1. D \cap C = {}
    BY <1>3 DEF RecordInv, ClassInv
  <2> QED
    BY <1>1, <2>1 DEF Placed, Unassigned
<1>4. Placed(C, i)' /\ C \notin Unassigned' /\ (\A s : ~Placed(C, s)) /\ (\A s : Placed(C, s)' => s = i)
  BY <1>1, <1>2 DEF Placed, Unassigned
<1>5. /\ load \in [Slot -> Nat] /\ load' \in [Slot -> Nat]
      /\ load'[i] = load[i] + n /\ \A s \in Slot \ {i} : load'[s] = load[s]
  BY <1>1, <1>2 DEF AssignInv, LoadInv
<1> HIDE DEF n
<1>6. DOMAIN clusterID' \subseteq UNION classes'
  BY <1>1 DEF AssignInv
<1>7. Unassigned' = Unassigned \ {C}
  BY <1>1, <1>3, <1>4 DEF Unassigned
<1>8. \A D \in classes' \ Unassigned' : \E s \in Slot : Placed(D, s)'
  BY <1>1, <1>3, <1>4, <1>7 DEF AssignInv
<1>9. LoadInv'
  <2> SUFFICES ASSUME NEW s \in Slot
               PROVE  load'[s] > 0 <=> \E D \in classes : Placed(D, s)'
    BY <1>1, <1>5 DEF LoadInv
  <2>1. CASE s = i
    BY <1>2, <1>4, <1>5, <2>1
  <2>2. CASE s # i
    <3>1. (\E D \in classes : Placed(D, s)') <=> \E D \in classes : Placed(D, s)
      BY <1>3, <1>4, <2>2
    <3> QED
      BY <1>5, <2>2, <3>1 DEF AssignInv, LoadInv
  <2> QED
    BY <2>1, <2>2
<1>10. SizeInv'
  <2> SUFFICES ASSUME NEW E \in classes \ Unassigned', NEW D \in Unassigned \ {C}
               PROVE  Cardinality(D) <= Cardinality(E)
    BY <1>1, <1>7 DEF SizeInv
  <2>1. CASE E = C
    BY <1>1, <2>1 DEF Largest
  <2>2. CASE E # C
    BY <1>7, <2>2 DEF AssignInv, SizeInv
  <2> QED
    BY <2>1, <2>2
<1>11. ASSUME NEW B \in classes, B # C, Placed(B, i), Big(C)
       PROVE  \A t \in Slot : \E D \in classes : Big(D) /\ Placed(D, t)'
  <2>1. load[i] > 0
    BY <1>11 DEF AssignInv, LoadInv
  <2> SUFFICES ASSUME NEW t \in Slot
               PROVE  \E D \in classes : Big(D) /\ Placed(D, t)'
    OBVIOUS
  <2>2. load[t] > 0
    BY <1>1, <1>5, <2>1 DEF LeastLoaded
  <2>3. PICK D \in classes : Placed(D, t)
    BY <2>2 DEF AssignInv, LoadInv
  <2>4. D \notin Unassigned /\ D # C
    BY <1>4, <2>3, PlacedClass DEF RecordInv, ClassInv
  <2>5. Cardinality(C) <= Cardinality(D)
    BY <1>1, <2>4 DEF AssignInv, SizeInv
  <2>6. Big(D)
    BY <1>11, <2>5, ClassSize
  <2> QED
    BY <1>3, <2>3, <2>4, <2>6
<1>12. SharedOnlyWhenFull'
  <2> SUFFICES ASSUME NEW A \in classes, NEW B \in classes, NEW s \in Slot,
                      A # B, Big(A), Big(B), Placed(A, s)', Placed(B, s)'
               PROVE  \A t \in Slot : \E D \in classes : Big(D) /\ Placed(D, t)'
    BY <1>1 DEF SharedOnlyWhenFull, Big
  <2>1. CASE A = C
    BY <1>3, <1>4, <1>11, <2>1
  <2>2. CASE B = C
    BY <1>3, <1>4, <1>11, <2>2
  <2>3. CASE A # C /\ B # C
    <3>1. \A t \in Slot : \E D \in classes : Big(D) /\ Placed(D, t)
      BY <1>3, <2>3 DEF AssignInv, SharedOnlyWhenFull
    <3> QED
      BY <1>3, <1>4, <3>1
  <2> QED
    BY <2>1, <2>2, <2>3
<1>13. Balanced'
  <2> SUFFICES ASSUME NEW s \in Slot, NEW t \in Slot, load'[s] > load'[t]
               PROVE  \E D \in classes : load'[s] - load'[t] <= Cardinality(D)
    BY <1>1 DEF Balanced
  <2>1. load[s] \in Nat /\ load[t] \in Nat
    BY <1>5
  <2>2. CASE s = i
    <3>1. load[i] <= load[t]
      BY <1>1, <1>5 DEF LeastLoaded
    <3>2. load'[s] - load'[t] <= n
      BY <1>2, <1>5, <2>1, <2>2, <3>1
    <3> QED
      BY <3>2 DEF n
  <2>3. CASE s # i
    <3>1. load[s] > load[t] /\ load'[s] - load'[t] <= load[s] - load[t]
      BY <1>2, <1>5, <2>1, <2>3
    <3>2. PICK D \in classes : load[s] - load[t] <= Cardinality(D)
      BY <3>1 DEF AssignInv, Balanced
    <3>3. Cardinality(D) \in Nat
      BY ClassSize
    <3> QED
      BY <1>5, <2>1, <3>1, <3>2, <3>3
  <2> QED
    BY <2>2, <2>3
<1> QED
  BY <1>1, <1>6, <1>8, <1>9, <1>10, <1>12, <1>13 DEF AssignInv

LEMMA AssignInit ==
  ASSUME Init
  PROVE  AssignInv
<1>1. DOMAIN <<>> = {}
  OBVIOUS
<1> QED
  BY <1>1, RecordInit, NothingPlaced DEF Init

LEMMA AssignNext ==
  ASSUME RecordInv, AssignInv, [Next]_vars
  PROVE  AssignInv'
<1>1. RecordInv'
  BY RecordNext
<1>2. ASSUME UNCHANGED <<clusterID, load>>, pc \in {"externalize", "record"}, pc' \in {"record", "assign"}
      PROVE  AssignInv'
  <2>1. DOMAIN clusterID' = {} /\ load' \in [Slot -> Nat]
    BY <1>2 DEF AssignInv, LoadInv
  <2>2. \A s \in Slot : load'[s] = 0
    <3>1. \A C \in classes, s \in Slot : ~Placed(C, s)
      BY <1>2, PlacedClass DEF AssignInv, RecordInv, ClassInv
    <3> QED
      BY <1>2, <3>1 DEF AssignInv, LoadInv
  <2>3. Unassigned' = classes'
    BY <2>1 DEF Unassigned
  <2>4. \A C \in classes', s \in Slot : ~Placed(C, s)'
    <3> SUFFICES ASSUME NEW C \in classes', NEW s \in Slot, Placed(C, s)' PROVE FALSE
      OBVIOUS
    <3>1. C # {}
      BY <1>1 DEF RecordInv, ClassInv
    <3>2. PICK g : g \in C
      BY <3>1, Zenon
    <3> QED
      BY <2>1, <3>2 DEF Placed
  <2> QED
    BY <1>2, <2>1, <2>2, <2>3, <2>4 DEF AssignInv, LoadInv, SizeInv, SharedOnlyWhenFull, Balanced
<1>3. ASSUME UNCHANGED <<classes, clusterID, load>>, pc' \in {"externalize", "record"} => pc' = pc,
             pc' \in {"clone", "done"} => pc \in {"clone", "done"} \/ Unassigned = {}
      PROVE  AssignInv'
  <2>1. Unassigned' = Unassigned
    BY <1>3 DEF Unassigned
  <2>2. LoadInv' /\ SizeInv' /\ SharedOnlyWhenFull' /\ Balanced'
    BY <1>3, <2>1 DEF AssignInv, LoadInv, SizeInv, SharedOnlyWhenFull, Balanced, Placed
  <2> QED
    BY <1>3, <2>1, <2>2 DEF AssignInv, Placed
<1>4. CASE Externalize
  BY <1>2, <1>4 DEF Externalize
<1>5. ASSUME NEW g \in Sym, RecordGVSet(g) PROVE AssignInv'
  BY <1>2, <1>5 DEF RecordGVSet
<1>6. CASE Recorded
  BY <1>2, <1>6 DEF Recorded
<1>7. ASSUME NEW C \in classes, NEW i \in Slot, AssignCluster(C, i) PROVE AssignInv'
  BY <1>7, AssignStep
<1>8. CASE Assigned
  BY <1>3, <1>8 DEF Assigned
<1>9. CASE ClonePart \/ Return
  BY <1>3, <1>9 DEF ClonePart, Return
<1>10. CASE UNCHANGED vars
  BY <1>3, <1>10 DEF vars
<1> QED
  BY <1>4, <1>5, <1>6, <1>7, <1>8, <1>9, <1>10 DEF Next

-----------------------------------------------------------------------------
(***************************************************************************)
(* When all is placed the classes are the clusters of the module, but for  *)
(* those of one definition, and the partition of a definition is its slot. *)
(***************************************************************************)
PlacedInv == RecordInv /\ AssignInv /\ SplitInv

LEMMA PartIsSlot ==
  ASSUME PlacedInv, pc = "done", NEW g \in m.defined
  PROVE  PartOf(g) = SlotOf(g) /\ SlotOf(g) \in Slot
<1>1. SlotOf(g) \in Slot
  BY DEF PlacedInv, SplitInv, ClusterSlots, HashSlots, SlotOf
<1>2. \A i \in Slot : i + 1 \in 1 .. Len(parts) /\ i + 1 - 1 = i
  BY DEF PlacedInv, SplitInv, Slot
<1>3. \A i \in Slot : g \in parts[i + 1].defs <=> i = SlotOf(g)
  <2> SUFFICES ASSUME NEW i \in Slot PROVE g \in parts[i + 1].defs <=> i = SlotOf(g)
    OBVIOUS
  <2>1. g \in parts[i + 1].defs <=> SlotOf(g) = i
    <3>1. \A j \in 1 .. Len(parts) : \A h \in m.defined : h \in parts[j].defs <=> SlotOf(h) = j - 1
      BY DEF PlacedInv, SplitInv, ClonedParts
    <3>2. PICK j \in 1 .. Len(parts) : j = i + 1
      BY <1>2
    <3>3. g \in parts[j].defs <=> SlotOf(g) = j - 1
      BY <3>1
    <3>4. j - 1 = i
      BY <3>2 DEF Slot
    <3> QED
      BY <3>2, <3>3, <3>4, Zenon
  <2> QED
    BY <2>1
<1> QED
  BY <1>1, <1>3 DEF PartOf

LEMMA LinkedTogether ==
  ASSUME PlacedInv, pc = "done", NEW l \in LinksOfModule
  PROVE  l \in m.defined \X m.defined /\ (l[1] = l[2] \/ Together(l[1], l[2]))
<1>1. l \in m.defined \X m.defined /\ l[1] \in Sym \ todo /\ l[2] \in Sym \ todo
  BY LinkMeansPartner DEF PlacedInv, RecordInv, InputInv, Input
<1>2. \A x, y : Together(x, y) => Together(y, x)
  BY DEF Together, TogetherIn
<1>3. CASE l[2] \in OwnPartners(l[1]) /\ Recordable(l[1])
  BY <1>1, <1>3 DEF PlacedInv, RecordInv, RecordedInv
<1>4. CASE l[1] \in OwnPartners(l[2]) /\ Recordable(l[2])
  BY <1>1, <1>2, <1>4 DEF PlacedInv, RecordInv, RecordedInv
<1>5. CASE /\ m.comdat[l[1]] = m.comdat[l[2]] /\ m.comdat[l[1]] # None
           /\ Recordable(l[1]) /\ Recordable(l[2])
  <2> DEFINE first == comdatMembers[m.comdat[l[1]]]
  <2>1. /\ l[1] = first \/ Together(l[1], first)
        /\ l[2] = first \/ Together(l[2], first)
    BY <1>1, <1>5 DEF PlacedInv, RecordInv, RecordedInv
  <2>2. \A x, y, z : Together(x, z) /\ Together(y, z) => Together(x, y)
    BY DEF PlacedInv, RecordInv, ClassInv, Together, TogetherIn
  <2> QED
    BY <1>1, <1>2, <2>1, <2>2
<1> QED
  BY <1>3, <1>4, <1>5, LinkMeansPartner DEF PlacedInv, RecordInv

LEMMA ClassIsCluster ==
  ASSUME PlacedInv, pc = "done", NEW C \in classes, NEW a \in C
  PROVE  Cluster(a, m.defined, LinksOfModule) = C
<1>1. C \in SUBSET m.defined
  BY DEF PlacedInv, RecordInv, ClassInv
<1>2. \A x, y : Together(x, y) => (x \in C <=> y \in C)
  BY DEF PlacedInv, RecordInv, ClassInv, Together, TogetherIn
<1>3. Closed(C, LinksOfModule)
  BY <1>2, LinkedTogether DEF Closed
<1>4. \A A \in SUBSET m.defined : Closed(A, LinksOfModule) /\ a \in A => C \subseteq A
  BY DEF PlacedInv, RecordInv, ConnectedInv, Whole
<1> QED
  BY <1>1, <1>3, <1>4 DEF Cluster

LEMMA LonelyCluster ==
  ASSUME PlacedInv, pc = "done", NEW a \in m.defined, \A C \in classes : a \notin C
  PROVE  Cluster(a, m.defined, LinksOfModule) \subseteq {a}
<1>1. \A x, y : Together(x, y) => x # a /\ y # a
  BY DEF Together, TogetherIn
<1>2. Closed({a}, LinksOfModule)
  BY <1>1, LinkedTogether DEF Closed
<1>3. {a} \in SUBSET m.defined
  OBVIOUS
<1> QED
  BY <1>2, <1>3 DEF Cluster

LEMMA BigClustersAreClasses ==
  ASSUME PlacedInv, pc = "done"
  PROVE  BigClusters(m.defined, LinksOfModule) = {C \in classes : Big(C)}
<1> DEFINE L == LinksOfModule
<1>1. ASSUME NEW a \in m.defined, Big(Cluster(a, m.defined, L))
      PROVE  Cluster(a, m.defined, L) \in classes
  <2>1. CASE \E C \in classes : a \in C
    BY <2>1, ClassIsCluster
  <2>2. CASE \A C \in classes : a \notin C
    BY <1>1, <2>2, LonelyCluster DEF Big
  <2> QED
    BY <2>1, <2>2
<1>2. ASSUME NEW C \in classes, Big(C)
      PROVE  \E a \in m.defined : C = Cluster(a, m.defined, L)
  <2>1. PICK a : a \in C
    BY <1>2 DEF Big
  <2>2. a \in m.defined
    BY <2>1 DEF PlacedInv, RecordInv, ClassInv
  <2> QED
    BY <2>1, <2>2, ClassIsCluster
<1> HIDE DEF L
<1> QED
  BY <1>1, <1>2 DEF BigClusters, Big, L

LEMMA PlacementExpected ==
  ASSUME PlacedInv
  PROVE  AnswersAsExpected
<1> SUFFICES ASSUME pc = "done"
             PROVE  [g \in m.defined |-> PartOf(g)] \in Placements(m.defined, LinksOfModule)
  BY DEF AnswersAsExpected, LinksOfModule
<1> DEFINE f == [g \in m.defined |-> PartOf(g)]
<1>1. f \in [m.defined -> Slot] /\ \A g \in m.defined : f[g] = SlotOf(g)
  BY PartIsSlot
<1> HIDE DEF f
<1>2. \A C \in classes : C \subseteq m.defined /\ C # {}
  BY DEF PlacedInv, RecordInv, ClassInv
<1>3. ASSUME NEW C \in classes
      PROVE  \E s \in Slot : Placed(C, s)
  BY DEF PlacedInv, AssignInv
<1>4. ASSUME NEW C \in classes, NEW s
      PROVE  Placed(C, s) => \A g \in C : f[g] = s
  BY <1>1, <1>2 DEF Placed, SlotOf
<1>5. KeepsLinks(f, LinksOfModule)
  <2> SUFFICES ASSUME NEW l \in LinksOfModule PROVE f[l[1]] = f[l[2]]
    BY DEF KeepsLinks
  <2>1. CASE Together(l[1], l[2])
    <3>1. PICK C \in classes : l[1] \in C /\ l[2] \in C
      BY <2>1 DEF Together, TogetherIn
    <3> QED
      BY <1>3, <1>4, <3>1
  <2> QED
    BY <2>1, LinkedTogether
<1>6. Spread(f, m.defined, LinksOfModule)
  <2> SUFFICES ASSUME NEW B \in classes, NEW C \in classes, Big(B), Big(C), B # C,
                      NEW b \in B, NEW c \in C, f[b] = f[c], NEW t \in Slot
               PROVE  \E D \in classes : Big(D) /\ \A d \in D : f[d] = t
    BY BigClustersAreClasses DEF Spread
  <2>1. PICK s \in Slot : Placed(B, s)
    BY <1>3
  <2>2. PICK r \in Slot : Placed(C, r)
    BY <1>3
  <2>3. r = s
    BY <1>4, <2>1, <2>2
  <2>4. PICK D \in classes : Big(D) /\ Placed(D, t)
    BY <2>1, <2>2, <2>3 DEF PlacedInv, AssignInv, SharedOnlyWhenFull
  <2> QED
    BY <1>4, <2>4
<1>7. f \in Placements(m.defined, LinksOfModule)
  BY <1>1, <1>5, <1>6 DEF Placements
<1> QED
  BY <1>7 DEF f

LEMMA PlacedAlways == Spec => []PlacedInv
<1>1. Init => PlacedInv
  BY SplitInit, RecordInit, AssignInit DEF PlacedInv
<1>2. PlacedInv /\ [Next]_vars => PlacedInv'
  BY SplitNext, RecordNext, AssignNext DEF PlacedInv
<1> QED
  BY <1>1, <1>2, PTL DEF Spec

(***************************************************************************)
(* SplitModule answers as Decompose expects it to, whatever the module: no *)
(* comdat, alias, block address or preserved local is cut off from what it *)
(* must stay with, and two clusters share a partition only when every      *)
(* partition has one.                                                      *)
(***************************************************************************)
THEOREM PlacesAsExpected == Spec => []AnswersAsExpected
  BY PlacedAlways, PlacementExpected, PTL

(***************************************************************************)
(* The slots are balanced at every moment: two of them differ by no more   *)
(* than the size of one cluster.                                           *)
(***************************************************************************)
THEOREM SlotsAreBalanced == Spec => []Balanced
<1>1. PlacedInv => Balanced
  BY DEF PlacedInv, AssignInv
<1> QED
  BY <1>1, PlacedAlways, PTL

(***************************************************************************)
(* Every variable has its type, and classes never overlap, whichever way   *)
(* unionSets has merged them.                                              *)
(***************************************************************************)
ControlInv ==
  /\ pc \in {"externalize", "record", "assign", "clone", "done"}
  /\ named \subseteq Sym

THEOREM TypeCorrect == Spec => []TypeOK
<1>1. Init => ControlInv
  BY DEF Init, ControlInv
<1>2. ControlInv /\ [Next]_vars => ControlInv'
  BY DEF ControlInv, Next, vars, Externalize, RecordGVSet, Recorded, AssignCluster, Assigned,
         ClonePart, Return
<1>3. PlacedInv /\ ControlInv => TypeOK
  <2> SUFFICES ASSUME PlacedInv, ControlInv PROVE TypeOK
    OBVIOUS
  <2>1. Len(parts) <= SplitFactor
    <3>1. Len(<<>>) <= SplitFactor
      OBVIOUS
    <3> QED
      BY <3>1 DEF PlacedInv, SplitInv, ClonedParts
  <2>2. /\ m \in Input /\ todo \subseteq Sym /\ comdatMembers \in [Comdat -> Sym \cup {None}]
        /\ classes \subseteq SUBSET m.defined
        /\ \A C, D \in classes : C # D => C \cap D = {}
    BY DEF PlacedInv, RecordInv, InputInv, MembersInv, ClassInv
  <2>3. /\ DOMAIN clusterID \subseteq UNION classes /\ load \in [Slot -> Nat]
        /\ \A g \in DOMAIN clusterID : clusterID[g] \in Slot
    BY DEF PlacedInv, AssignInv, LoadInv, SplitInv, ClusterSlots
  <2> QED
    BY <2>1, <2>2, <2>3 DEF TypeOK, ControlInv
<1> QED
  BY <1>1, <1>2, <1>3, PlacedAlways, PTL DEF Spec
=============================================================================
