----------------------------- MODULE ScanProofs -----------------------------
(***************************************************************************)
(* Theorems about Scan, for every set of trees, number of removals and     *)
(* build, and their proofs.                                                *)
(***************************************************************************)
EXTENDS Scan, SequenceTheorems, TLAPS

-----------------------------------------------------------------------------
(***************************************************************************)
(* A push, and what is on top of a stack that is not empty.                *)
(***************************************************************************)
Values(s) == {s[i] : i \in DOMAIN s}

LEMMA PushFacts ==
  ASSUME NEW S, NEW s \in Seq(S), NEW e \in S
  PROVE  /\ Append(s, e) \in Seq(S) /\ Append(s, e) # <<>>
         /\ DOMAIN s = 1 .. Len(s) /\ Len(s) \in Nat
         /\ DOMAIN Append(s, e) = DOMAIN s \cup {Len(s) + 1}
         /\ Len(s) + 1 \notin DOMAIN s
         /\ \A i \in DOMAIN s : Append(s, e)[i] = s[i]
         /\ Append(s, e)[Len(s) + 1] = e
         /\ Values(Append(s, e)) = Values(s) \cup {e}
         /\ Top(Append(s, e)) = e
<1>1. /\ Append(s, e) \in Seq(S) /\ Append(s, e) # <<>>
      /\ DOMAIN s = 1 .. Len(s) /\ Len(s) \in Nat
      /\ Len(Append(s, e)) = Len(s) + 1
      /\ DOMAIN Append(s, e) = 1 .. Len(Append(s, e))
      /\ \A i \in 1 .. Len(s) : Append(s, e)[i] = s[i]
      /\ Append(s, e)[Len(s) + 1] = e
  BY AppendProperties, LenProperties
<1>2. 1 .. Len(s) + 1 = 1 .. Len(s) \cup {Len(s) + 1} /\ Len(s) + 1 \notin 1 .. Len(s)
  BY <1>1
<1>3. /\ DOMAIN Append(s, e) = DOMAIN s \cup {Len(s) + 1}
      /\ \A i \in DOMAIN s : Append(s, e)[i] = s[i]
      /\ Top(Append(s, e)) = e
  BY <1>1, <1>2 DEF Top
<1>4. Values(Append(s, e)) = Values(s) \cup {e}
  BY <1>1, <1>3 DEF Values
<1> QED
  BY <1>1, <1>2, <1>3, <1>4

LEMMA PopFacts ==
  ASSUME NEW S, NEW s \in Seq(S), s # <<>>
  PROVE  /\ Len(s) \in Nat \ {0} /\ Top(s) \in S /\ Pop(s) \in Seq(S)
         /\ Len(Pop(s)) = Len(s) - 1
         /\ \A i \in 1 .. Len(s) - 1 : Pop(s)[i] = s[i]
<1>1. Len(s) \in Nat \ {0}
  BY EmptySeq
<1>2. \A i \in 1 .. Len(s) : s[i] \in S
  BY ElementOfSeq
<1>3. /\ SubSeq(s, 1, Len(s) - 1) \in Seq(S)
      /\ Len(SubSeq(s, 1, Len(s) - 1)) = IF 1 <= Len(s) - 1 THEN Len(s) - 1 - 1 + 1 ELSE 0
      /\ \A i \in 1 .. Len(s) - 1 - 1 + 1 : SubSeq(s, 1, Len(s) - 1)[i] = s[1 + i - 1]
  <2>1. \A i \in 1 .. Len(s) - 1 : s[i] \in S
    BY <1>1, <1>2
  <2> QED
    BY <1>1, <2>1, SubSeqProperties
<1>4. Len(SubSeq(s, 1, Len(s) - 1)) = Len(s) - 1
  <2> DEFINE n == Len(s)
             l == Len(SubSeq(s, 1, Len(s) - 1))
  <2>1. n \in Nat \ {0} /\ l = IF 1 <= n - 1 THEN n - 1 - 1 + 1 ELSE 0
    BY <1>1, <1>3
  <2> HIDE DEF n, l
  <2>2. l = n - 1
    BY <2>1
  <2> QED
    BY <2>2 DEF n, l
<1>5. \A i \in 1 .. Len(s) - 1 : SubSeq(s, 1, Len(s) - 1)[i] = s[i]
  BY <1>1, <1>3
<1> QED
  BY <1>1, <1>2, <1>3, <1>4, <1>5 DEF Pop, Top

-----------------------------------------------------------------------------
(***************************************************************************)
(* What the proofs need of the types of the walk.                          *)
(***************************************************************************)
Frame == [at : Path, left : SUBSET Path]

WalkType ==
  /\ tree \in Tree /\ OneParent(tree)
  /\ removals \in Nat
  /\ stack \in Seq(Frame)
  /\ noPush \in BOOLEAN
  /\ pc \in {"visit", "file", "module", "increment"} => stack # <<>>

LEMMA HereIsPath ==
  ASSUME WalkType, pc \in {"visit", "file", "module", "increment"}
  PROVE  here \in Path
<1>1. Top(stack) \in Frame
  BY PopFacts DEF WalkType
<1> QED
  BY <1>1 DEF here, Frame

LEMMA EnterPushes ==
  ASSUME WalkType, NEW p \in Path, Enter(p)
  PROVE  stack' \in Seq(Frame) /\ stack' # <<>> /\ pc' = "visit"
<1>1. Entries(p) \subseteq Path
  BY DEF Entries, WalkType, Tree
<1>2. PICK e \in Entries(p) : stack' = Append(stack, [at |-> e, left |-> Entries(p) \ {e}])
  BY DEF Enter
<1>3. [at |-> e, left |-> Entries(p) \ {e}] \in Frame
  BY <1>1 DEF Frame
<1> QED
  BY <1>2, <1>3, PushFacts DEF Enter, WalkType

LEMMA WalkTypeInit ==
  ASSUME Init
  PROVE  WalkType
<1>1. stack = <<>> /\ tree \in Trees /\ noPush = FALSE /\ removals = 0 /\ pc = "start"
  BY DEF Init
<1>2. tree \in Tree /\ OneParent(tree)
  BY <1>1, ScanAssumption
<1>3. stack \in Seq(Frame)
  BY <1>1, EmptySeq
<1> QED
  BY <1>1, <1>2, <1>3 DEF WalkType

LEMMA WalkTypeNext ==
  ASSUME WalkType, [Next]_scanVars
  PROVE  WalkType'
<1> USE DEF fsVars, dbVars
<1>1. CASE Start
  <2>1. CASE Enter(Root)
    BY <1>1, <2>1, EnterPushes, ScanAssumption DEF Start, WalkType
  <2>2. CASE pc' \in {"failed", "done"} /\ UNCHANGED stack
    BY <1>1, <2>2 DEF Start, WalkType
  <2> QED
    BY <1>1, <2>1, <2>2 DEF Start
<1>2. CASE SkipUnreachable \/ SkipUnwanted \/ VisitFile
  BY <1>2 DEF SkipUnreachable, SkipUnwanted, VisitFile, WalkType
<1>3. CASE OpenAllexe \/ AddBitcode
  BY <1>3 DEF OpenAllexe, AddBitcode, WalkType
<1>4. CASE AddKnownModule \/ AddModule \/ AddAllexe
  BY <1>4 DEF AddKnownModule, AddModule, AddAllexe, MoreModules, WalkType
<1>5. CASE Increment
  <2>1. CASE Enter(here)
    <3>1. here \in Path
      BY <1>5, HereIsPath DEF Increment
    <3> QED
      BY <1>5, <2>1, <3>1, EnterPushes DEF Increment, WalkType
  <2>2. CASE pc' \in {"failed", "advance"} /\ UNCHANGED stack
    BY <1>5, <2>2 DEF Increment, WalkType
  <2> QED
    BY <1>5, <2>1, <2>2 DEF Increment
<1>6. CASE NextEntry
  <2>1. /\ Top(stack) \in Frame /\ Pop(stack) \in Seq(Frame)
        /\ stack \in Seq(Frame) /\ stack # <<>>
    BY <1>6, PopFacts DEF NextEntry, WalkType
  <2>2. PICK e \in Top(stack).left :
           stack' = Append(Pop(stack), [at |-> e, left |-> Top(stack).left \ {e}])
    BY <1>6 DEF NextEntry
  <2>3. [at |-> e, left |-> Top(stack).left \ {e}] \in Frame
    BY <2>1 DEF Frame
  <2>4. stack' \in Seq(Frame) /\ stack' # <<>>
    BY <2>1, <2>2, <2>3, PushFacts
  <2> QED
    BY <1>6, <2>4 DEF NextEntry, WalkType
<1>7. CASE LeaveDirectory
  <2>1. Pop(stack) \in Seq(Frame)
    BY <1>7, PopFacts DEF LeaveDirectory, WalkType
  <2> QED
    BY <1>7, <2>1 DEF LeaveDirectory, WalkType
<1>8. ASSUME NEW p \in Path, Unlink(p) PROVE WalkType'
  BY <1>8 DEF Unlink, WalkType
<1>9. CASE UNCHANGED scanVars
  BY <1>9 DEF scanVars, WalkType
<1> QED
  BY <1>1, <1>2, <1>3, <1>4, <1>5, <1>6, <1>7, <1>8, <1>9 DEF Next, ScanStep

-----------------------------------------------------------------------------
(***************************************************************************)
(* The database. Between two allexes no module is left over.               *)
(***************************************************************************)
AllexeType == [file : Path, modules : Seq(ModuleInfo)]

DataType ==
  /\ adding \in Seq(ModuleInfo)
  /\ infos \in Seq(ModuleInfo)
  /\ allexes \in Seq(AllexeType)

NothingLeftOver == pc \notin {"module", "failed", "aborted"} => adding = <<>>

InAllexes == UNION {Values(allexes[i].modules) : i \in DOMAIN allexes}

DataInv ==
  /\ DataType
  /\ NothingLeftOver
  /\ mode = "allexes" =>
       /\ \A i, j \in DOMAIN infos : infos[i].crc = infos[j].crc => i = j
       /\ Values(infos) = Values(adding) \cup InAllexes

LEMMA DataInit ==
  ASSUME Init
  PROVE  DataInv
<1>1. infos = <<>> /\ adding = <<>> /\ allexes = <<>>
  BY DEF Init
<1>2. \A S : <<>> \in Seq(S)
  BY EmptySeq
<1>3. DOMAIN <<>> = {}
  OBVIOUS
<1>4. DataType
  BY <1>1, <1>2 DEF DataType
<1>5. Values(infos) = {} /\ Values(adding) = {} /\ InAllexes = {}
  BY <1>1, <1>3 DEF Values, InAllexes
<1> QED
  BY <1>1, <1>3, <1>4, <1>5 DEF DataInv, NothingLeftOver

LEMMA NextModule ==
  ASSUME WalkType, DataType, MoreModules
  PROVE  [crc |-> nextCRC, file |-> SourceString(tree.sources[nextCRC])] \in ModuleInfo
<1>1. here \in Path
  BY HereIsPath DEF MoreModules
<1>2. tree.modules[here] \in Seq(CRC) /\ tree.sources \in [CRC -> Seq(File)]
  BY <1>1 DEF WalkType, Tree
<1>3. Len(adding) \in Nat /\ Len(tree.modules[here]) \in Nat
  BY <1>2, LenProperties DEF DataType
<1>4. Len(adding) + 1 \in 1 .. Len(tree.modules[here])
  BY <1>3 DEF MoreModules
<1>5. nextCRC \in CRC
  BY <1>2, <1>4, ElementOfSeq DEF nextCRC
<1>6. tree.sources[nextCRC] \in Seq(File)
  BY <1>2, <1>5
<1>7. ASSUME NEW s \in Seq(File) PROVE SourceString(s) \in File \cup {"", "several"}
  <2>1. CASE Len(s) = 1
    <3>1. s[1] \in File
      BY <2>1, ElementOfSeq
    <3> QED
      BY <2>1, <3>1 DEF SourceString
  <2>2. CASE Len(s) # 1
    BY <2>2 DEF SourceString
  <2> QED
    BY <2>1, <2>2
<1> QED
  BY <1>5, <1>6, <1>7 DEF ModuleInfo

LEMMA DataSame ==
  ASSUME DataInv, UNCHANGED <<mode, adding, infos, allexes>>, NothingLeftOver'
  PROVE  DataInv'
<1>1. DataType' /\ InAllexes' = InAllexes
  BY DEF DataInv, DataType, InAllexes
<1>2. Values(infos)' = Values(infos) /\ Values(adding)' = Values(adding)
  BY DEF Values
<1> QED
  BY <1>1, <1>2 DEF DataInv

LEMMA DataKnown ==
  ASSUME WalkType, DataInv, AddKnownModule
  PROVE  DataInv'
<1>1. PICK i \in DOMAIN infos : adding' = Append(adding, infos[i])
  BY DEF AddKnownModule
<1>2. UNCHANGED <<mode, pc, infos, allexes>> /\ pc = "module"
  BY DEF AddKnownModule, MoreModules, fsVars
<1>3. infos \in Seq(ModuleInfo) /\ adding \in Seq(ModuleInfo)
  BY DEF DataInv, DataType
<1>4. infos[i] \in ModuleInfo /\ infos[i] \in Values(infos)
  <2>1. DOMAIN infos = 1 .. Len(infos)
    BY <1>3, LenProperties
  <2> QED
    BY <1>3, <2>1, ElementOfSeq DEF Values
<1>5. /\ adding' \in Seq(ModuleInfo)
      /\ Values(adding') = Values(adding) \cup {infos[i]}
  BY <1>1, <1>3, <1>4, PushFacts
<1>6. DataType' /\ NothingLeftOver'
  BY <1>2, <1>5 DEF DataInv, DataType, NothingLeftOver
<1>7. InAllexes' = InAllexes
  BY <1>2 DEF InAllexes
<1>8. Values(infos)' = Values(infos) /\ Values(adding)' = Values(adding')
  BY <1>2 DEF Values
<1> QED
  BY <1>2, <1>4, <1>5, <1>6, <1>7, <1>8 DEF DataInv

LEMMA DataNew ==
  ASSUME WalkType, DataInv, AddModule
  PROVE  DataInv'
<1> DEFINE MI == [crc |-> nextCRC, file |-> SourceString(tree.sources[nextCRC])]
<1>1. UNCHANGED <<mode, allexes>> /\ pc = "module"
  BY DEF AddModule, MoreModules, fsVars
<1>2. CASE UNCHANGED <<infos, adding>> /\ pc' \in {"failed", "aborted"}
  BY <1>1, <1>2, DataSame DEF NothingLeftOver
<1>3. CASE infos' = Append(infos, MI) /\ adding' = Append(adding, MI) /\ pc' = pc
  <2>1. MI \in ModuleInfo /\ ~Known(MI.crc)
    BY NextModule DEF AddModule, DataInv
  <2> HIDE DEF MI
  <2>2. infos \in Seq(ModuleInfo) /\ adding \in Seq(ModuleInfo)
    BY DEF DataInv, DataType
  <2>3. /\ infos' \in Seq(ModuleInfo) /\ adding' \in Seq(ModuleInfo)
        /\ Values(infos') = Values(infos) \cup {MI}
        /\ Values(adding') = Values(adding) \cup {MI}
        /\ DOMAIN infos' = DOMAIN infos \cup {Len(infos) + 1}
        /\ \A i \in DOMAIN infos : infos'[i] = infos[i]
        /\ infos'[Len(infos) + 1] = MI
    BY <1>3, <2>1, <2>2, PushFacts
  <2>4. \A i \in DOMAIN infos : infos[i].crc # MI.crc
    BY <2>1 DEF Known
  <2>5. (\A i, j \in DOMAIN infos : infos[i].crc = infos[j].crc => i = j)
          => \A i, j \in DOMAIN infos' : infos'[i].crc = infos'[j].crc => i = j
    BY <2>3, <2>4
  <2>6. DataType' /\ NothingLeftOver'
    BY <1>1, <1>3, <2>3 DEF DataInv, DataType, NothingLeftOver
  <2>7. InAllexes' = InAllexes
    BY <1>1 DEF InAllexes
  <2>8. Values(infos)' = Values(infos') /\ Values(adding)' = Values(adding')
    BY DEF Values
  <2> QED
    BY <1>1, <2>3, <2>5, <2>6, <2>7, <2>8 DEF DataInv
<1> QED
  BY <1>2, <1>3 DEF AddModule

LEMMA DataAllexe ==
  ASSUME WalkType, DataInv, AddAllexe
  PROVE  DataInv'
<1> DEFINE A == [file |-> here, modules |-> adding]
<1>1. /\ allexes' = Append(allexes, A) /\ adding' = <<>>
      /\ UNCHANGED <<mode, infos>> /\ pc = "module"
  BY DEF AddAllexe, fsVars
<1>2. A \in AllexeType /\ A.modules = adding
  BY <1>1, HereIsPath DEF DataInv, DataType, AllexeType
<1> HIDE DEF A
<1>3. allexes \in Seq(AllexeType) /\ \A S : <<>> \in Seq(S)
  BY EmptySeq DEF DataInv, DataType
<1>4. /\ allexes' \in Seq(AllexeType)
      /\ DOMAIN allexes' = DOMAIN allexes \cup {Len(allexes) + 1}
      /\ \A i \in DOMAIN allexes : allexes'[i] = allexes[i]
      /\ allexes'[Len(allexes) + 1] = A
  BY <1>1, <1>2, <1>3, PushFacts
<1>5. UNION {Values(allexes'[i].modules) : i \in DOMAIN allexes'} = InAllexes \cup Values(adding)
  BY <1>2, <1>4 DEF InAllexes
<1>6. InAllexes' = InAllexes \cup Values(adding)
  BY <1>5 DEF InAllexes, Values
<1>7. Values(adding)' = {} /\ Values(infos)' = Values(infos)
  BY <1>1 DEF Values
<1>8. DataType' /\ NothingLeftOver'
  BY <1>1, <1>3, <1>4 DEF DataInv, DataType, NothingLeftOver
<1> QED
  BY <1>1, <1>6, <1>7, <1>8 DEF DataInv

LEMMA DataBitcode ==
  ASSUME WalkType, DataInv, AddBitcode
  PROVE  DataInv'
<1>1. /\ pc = "file" /\ mode = "bitcode" /\ pc' = "increment"
      /\ UNCHANGED <<mode, adding, allexes>>
      /\ infos' \in {infos, Append(infos, [crc |-> 0, file |-> here])}
  BY DEF AddBitcode, fsVars
<1>2. [crc |-> 0, file |-> here] \in ModuleInfo /\ infos \in Seq(ModuleInfo)
  BY <1>1, HereIsPath DEF ModuleInfo, DataInv, DataType
<1>3. infos' \in Seq(ModuleInfo)
  BY <1>1, <1>2, PushFacts
<1> QED
  BY <1>1, <1>3 DEF DataInv, DataType, NothingLeftOver

LEMMA DataNext ==
  ASSUME WalkType, DataInv, [Next]_scanVars
  PROVE  DataInv'
<1>1. CASE AddKnownModule
  BY <1>1, DataKnown
<1>2. CASE AddModule
  BY <1>2, DataNew
<1>3. CASE AddAllexe
  BY <1>3, DataAllexe
<1>4. CASE AddBitcode
  BY <1>4, DataBitcode
<1>5. CASE OpenAllexe
  <2>1. pc = "file" /\ adding' = <<>> /\ UNCHANGED <<mode, infos, allexes>>
    BY <1>5 DEF OpenAllexe, fsVars
  <2>2. adding = <<>>
    BY <2>1 DEF DataInv, NothingLeftOver
  <2> QED
    BY DataSame, <2>1, <2>2 DEF NothingLeftOver
<1>6. CASE Start \/ SkipUnreachable \/ SkipUnwanted \/ VisitFile \/ Increment \/ NextEntry \/ LeaveDirectory
  <2>1. UNCHANGED <<mode, adding, infos, allexes>>
    BY <1>6 DEF Start, SkipUnreachable, SkipUnwanted, VisitFile, Increment, NextEntry,
                LeaveDirectory, fsVars, dbVars
  <2>2. pc \notin {"module", "failed", "aborted"}
    BY <1>6 DEF Start, SkipUnreachable, SkipUnwanted, VisitFile, Increment, NextEntry, LeaveDirectory
  <2> QED
    BY DataSame, <2>1, <2>2 DEF DataInv, NothingLeftOver
<1>7. ASSUME NEW p \in Path, Unlink(p) PROVE DataInv'
  BY DataSame, <1>7 DEF Unlink, dbVars, DataInv, NothingLeftOver
<1>8. CASE UNCHANGED scanVars
  BY DataSame, <1>8 DEF scanVars, DataInv, NothingLeftOver
<1> QED
  BY <1>1, <1>2, <1>3, <1>4, <1>5, <1>6, <1>7, <1>8 DEF Next, ScanStep

(***************************************************************************)
(* The database is consistent at every moment of a scan, whatever is       *)
(* removed meanwhile and wherever the scan ends.                           *)
(***************************************************************************)
THEOREM DatabaseStaysConsistent == Spec => []DatabaseConsistent
<1>1. Init => WalkType /\ DataInv
  BY WalkTypeInit, DataInit
<1>2. WalkType /\ DataInv /\ [Next]_scanVars => (WalkType /\ DataInv)'
  BY WalkTypeNext, DataNext
<1>3. DataInv => DatabaseConsistent
  BY DEF DataInv, DatabaseConsistent, Values, InAllexes
<1> QED
  BY <1>1, <1>2, <1>3, PTL DEF Spec

-----------------------------------------------------------------------------
(***************************************************************************)
(* Failure. As long as nobody removes anything, whatever the iterator has  *)
(* open is visible, and the status that increment asks for is the one the  *)
(* body of the loop has seen.                                              *)
(***************************************************************************)
VisibleFrame(f) == Visible(f.at) /\ \A q \in f.left : Visible(q)

FramesVisible == \A i \in 1 .. Len(stack) : VisibleFrame(stack[i])

Cause ==
  \/ ~CanOpen(Root)
  \/ \E p \in Path : Visible(p) /\ Status(p) = "error"
  \/ mode = "allexes" /\ tree.broken # {}

Passed(p) == Status(p) # "missing" /\ (Status(p) = "directory" => CanOpen(p))

QuietInv ==
  removals = 0 =>
    /\ FramesVisible
    /\ pc \in {"file", "module"} => Status(here) = "file"
    /\ pc = "module" => mode = "allexes"
    /\ pc = "increment" /\ ~noPush => Passed(here)
    /\ pc = "failed" => Cause

LEMMA VisibleBelow ==
  ASSUME NEW d, Visible(d), Status(d) = "directory", CanOpen(d)
  PROVE  \A p \in Entries(d) : Visible(p)
BY DEF Visible

LEMMA VisibleRoot == \A p \in Entries(Root) : Visible(p)
BY DEF Visible

LEMMA FramesPushed ==
  ASSUME NEW s \in Seq(Frame), NEW f \in Frame, VisibleFrame(f),
         \A i \in 1 .. Len(s) : VisibleFrame(s[i])
  PROVE  \A i \in 1 .. Len(Append(s, f)) : VisibleFrame(Append(s, f)[i])
<1>1. /\ 1 .. Len(Append(s, f)) = 1 .. Len(s) \cup {Len(s) + 1}
      /\ \A i \in 1 .. Len(s) : Append(s, f)[i] = s[i]
      /\ Append(s, f)[Len(s) + 1] = f
  <2>1. /\ Len(s) \in Nat /\ Len(Append(s, f)) = Len(s) + 1
        /\ \A i \in 1 .. Len(s) : Append(s, f)[i] = s[i]
        /\ Append(s, f)[Len(s) + 1] = f
    BY AppendProperties, LenProperties
  <2>2. \A n \in Nat : 1 .. n + 1 = 1 .. n \cup {n + 1}
    OBVIOUS
  <2> QED
    BY <2>1, <2>2
<1> QED
  BY <1>1

LEMMA FramesPopped ==
  ASSUME NEW s \in Seq(Frame), s # <<>>, \A i \in 1 .. Len(s) : VisibleFrame(s[i])
  PROVE  VisibleFrame(Top(s)) /\ \A i \in 1 .. Len(Pop(s)) : VisibleFrame(Pop(s)[i])
<1>1. /\ Len(s) \in Nat \ {0} /\ Len(Pop(s)) = Len(s) - 1
      /\ \A i \in 1 .. Len(s) - 1 : Pop(s)[i] = s[i]
  BY PopFacts
<1>2. Len(s) \in 1 .. Len(s) /\ \A i \in 1 .. Len(s) - 1 : i \in 1 .. Len(s)
  BY <1>1
<1> QED
  BY <1>1, <1>2 DEF Top

(***************************************************************************)
(* What a step of the scan itself leaves alone.                            *)
(***************************************************************************)
LEMMA SameView ==
  ASSUME UNCHANGED fsVars
  PROVE  /\ \A p : Visible(p)' <=> Visible(p)
         /\ \A p : Status(p)' = Status(p) /\ (CanOpen(p)' <=> CanOpen(p))
         /\ \A p : Passed(p)' <=> Passed(p)
         /\ \A f : VisibleFrame(f)' <=> VisibleFrame(f)
         /\ Cause' <=> Cause
<1>1. /\ \A p : Visible(p)' <=> Visible(p)
      /\ \A p : Status(p)' = Status(p) /\ (CanOpen(p)' <=> CanOpen(p))
  BY DEF fsVars, Visible, Status, CanOpen, Entries
<1> QED
  BY <1>1 DEF fsVars, Passed, VisibleFrame, Cause

LEMMA EnterVisible ==
  ASSUME WalkType, FramesVisible, NEW p \in Path, Enter(p), \A q \in Entries(p) : Visible(q)
  PROVE  \A i \in 1 .. Len(stack') : VisibleFrame(stack'[i])
<1>1. PICK e \in Entries(p) : stack' = Append(stack, [at |-> e, left |-> Entries(p) \ {e}])
  BY DEF Enter
<1>2. [at |-> e, left |-> Entries(p) \ {e}] \in Frame
  BY DEF Frame, Entries, WalkType, Tree
<1>3. VisibleFrame([at |-> e, left |-> Entries(p) \ {e}])
  BY DEF VisibleFrame
<1> QED
  BY <1>1, <1>2, <1>3, FramesPushed DEF WalkType, FramesVisible

LEMMA QuietIncrement ==
  ASSUME WalkType, QuietInv, Increment, removals = 0
  PROVE  /\ \A i \in 1 .. Len(stack') : VisibleFrame(stack'[i])
         /\ pc' \notin {"file", "module", "increment"}
         /\ pc' = "failed" => Cause
<1>1. /\ pc = "increment" /\ here \in Path /\ FramesVisible
      /\ ~noPush => Passed(here)
  BY HereIsPath DEF Increment, QuietInv
<1>2. Visible(here)
  BY <1>1, FramesPopped DEF WalkType, FramesVisible, VisibleFrame, here
<1>3. Status(here) \in {"file", "directory", "other", "missing", "error"}
  BY <1>1 DEF Status, WalkType, Tree
<1>4. CASE pc' = "advance" /\ UNCHANGED stack
  BY <1>1, <1>4 DEF FramesVisible
<1>5. CASE /\ ~(noPush \/ Status(here) \in {"file", "other"})
           /\ Status(here) # "directory" \/ ~CanOpen(here)
           /\ pc' = "failed" /\ UNCHANGED stack
  <2>1. Status(here) = "error"
    BY <1>1, <1>3, <1>5 DEF Passed
  <2>2. Cause
    BY <1>1, <1>2, <2>1 DEF Cause
  <2> QED
    BY <1>1, <1>5, <2>2 DEF FramesVisible
<1>6. CASE Status(here) = "directory" /\ CanOpen(here) /\ Enter(here)
  <2>1. \A q \in Entries(here) : Visible(q)
    BY <1>2, <1>6, VisibleBelow
  <2>2. pc' = "visit"
    BY <1>6 DEF Enter
  <2> QED
    BY <1>1, <1>6, <2>1, <2>2, EnterVisible
<1> QED
  BY <1>4, <1>5, <1>6 DEF Increment

LEMMA QuietNext ==
  ASSUME WalkType, QuietInv, [Next]_scanVars
  PROVE  QuietInv'
<1>1. ASSUME NEW p \in Path, Unlink(p) PROVE QuietInv'
  <2>1. removals' # 0
    BY <1>1 DEF Unlink, WalkType
  <2> QED
    BY <2>1 DEF QuietInv
<1> SUFFICES ASSUME removals' = 0, ScanStep \/ UNCHANGED scanVars PROVE QuietInv'
  BY <1>1 DEF Next, QuietInv
<1>2. UNCHANGED fsVars
  BY DEF ScanStep, Start, SkipUnreachable, SkipUnwanted, VisitFile, OpenAllexe, AddKnownModule,
         AddModule, AddAllexe, AddBitcode, Increment, NextEntry, LeaveDirectory, scanVars, fsVars
<1>3. removals = 0
  BY <1>2 DEF fsVars
<1>4. FramesVisible /\ stack \in Seq(Frame)
  BY <1>3 DEF QuietInv, WalkType
<1>5. ASSUME \A i \in 1 .. Len(stack') : VisibleFrame(stack'[i]),
             pc' \in {"file", "module"} => Status(Top(stack').at) = "file",
             pc' = "module" => mode = "allexes",
             pc' = "increment" /\ ~noPush' => Passed(Top(stack').at),
             pc' = "failed" => Cause
      PROVE  QuietInv'
  <2>1. FramesVisible'
    BY <1>2, <1>5, SameView DEF FramesVisible
  <2>2. here' = Top(stack').at
    BY DEF here, Top
  <2>3. pc' \in {"file", "module"} => Status(here)' = "file"
    BY <1>2, <1>5, <2>2, SameView DEF fsVars, Status
  <2>4. pc' = "increment" /\ ~noPush' => Passed(here)'
    BY <1>2, <1>5, <2>2, SameView DEF fsVars, Passed, Status, CanOpen
  <2>5. (Cause' <=> Cause) /\ mode' = mode
    BY <1>2, SameView DEF fsVars
  <2> QED
    BY <1>5, <2>1, <2>3, <2>4, <2>5 DEF QuietInv
<1>6. CASE Start
  <2>1. CASE ~CanOpen(Root)
    BY <1>4, <1>5, <1>6, <2>1 DEF Start, Cause, FramesVisible
  <2>2. CASE pc' = "done" /\ UNCHANGED stack
    BY <1>4, <1>5, <2>2 DEF FramesVisible
  <2>3. CASE Enter(Root)
    <3>1. pc' = "visit"
      BY <2>3 DEF Enter
    <3> QED
      BY <1>4, <1>5, <2>3, <3>1, EnterVisible, VisibleRoot, ScanAssumption
  <2> QED
    BY <1>6, <2>1, <2>2, <2>3 DEF Start
<1>7. ASSUME UNCHANGED stack,
             pc' \in {"file", "module"} => Status(here) = "file",
             pc' = "module" => mode = "allexes",
             pc' = "increment" /\ ~noPush' => Passed(here),
             pc' = "failed" => Cause
      PROVE  QuietInv'
  BY <1>4, <1>5, <1>7 DEF FramesVisible, here
<1>8. CASE SkipUnreachable
  BY <1>7, <1>8 DEF SkipUnreachable
<1>9. CASE SkipUnwanted
  BY <1>7, <1>9 DEF SkipUnwanted, Passed
<1>10. CASE VisitFile
  BY <1>7, <1>10 DEF VisitFile, Wanted
<1>11. CASE OpenAllexe \/ AddBitcode
  <2>1. /\ Status(here) = "file" /\ pc' \in {"module", "increment"} /\ UNCHANGED stack
        /\ pc' = "module" => mode = "allexes"
    BY <1>3, <1>11 DEF OpenAllexe, AddBitcode, QuietInv
  <2> QED
    BY <1>7, <2>1 DEF Passed
<1>12. CASE AddKnownModule \/ AddAllexe
  <2>1. /\ Status(here) = "file" /\ pc' \in {"module", "increment"} /\ UNCHANGED stack
        /\ mode = "allexes"
    BY <1>3, <1>12 DEF AddKnownModule, AddAllexe, MoreModules, QuietInv
  <2> QED
    BY <1>7, <2>1 DEF Passed
<1>13. CASE AddModule
  <2>1. Status(here) = "file" /\ UNCHANGED stack /\ mode' = mode
    BY <1>3, <1>13 DEF AddModule, MoreModules, QuietInv, fsVars
  <2>2. pc' \in {"module", "failed", "aborted"}
    BY <1>13 DEF AddModule, MoreModules
  <2>3. pc' = "failed" => tree.broken # {}
    BY <1>13 DEF AddModule, MoreModules
  <2>4. mode = "allexes"
    BY <1>3, <1>13 DEF AddModule, MoreModules, QuietInv
  <2> QED
    BY <1>7, <2>1, <2>2, <2>3, <2>4 DEF Cause
<1>14. CASE Increment
  BY <1>3, <1>5, <1>14, QuietIncrement
<1>15. CASE NextEntry
  <2>1. VisibleFrame(Top(stack)) /\ \A i \in 1 .. Len(Pop(stack)) : VisibleFrame(Pop(stack)[i])
    BY <1>4, <1>15, FramesPopped DEF NextEntry, FramesVisible
  <2>2. PICK e \in Top(stack).left :
           stack' = Append(Pop(stack), [at |-> e, left |-> Top(stack).left \ {e}])
    BY <1>15 DEF NextEntry
  <2>3. Pop(stack) \in Seq(Frame) /\ [at |-> e, left |-> Top(stack).left \ {e}] \in Frame
    BY <1>4, <1>15, PopFacts DEF NextEntry, Frame
  <2>4. VisibleFrame([at |-> e, left |-> Top(stack).left \ {e}])
    BY <2>1 DEF VisibleFrame
  <2>5. pc' = "visit"
    BY <1>15 DEF NextEntry
  <2> QED
    BY <1>5, <2>1, <2>2, <2>3, <2>4, <2>5, FramesPushed
<1>16. CASE LeaveDirectory
  <2>1. \A i \in 1 .. Len(stack') : VisibleFrame(stack'[i])
    BY <1>4, <1>16, FramesPopped DEF LeaveDirectory, FramesVisible
  <2>2. pc' \in {"done", "advance"}
    BY <1>16 DEF LeaveDirectory
  <2> QED
    BY <1>5, <2>1, <2>2
<1>17. CASE UNCHANGED scanVars
  <2>1. UNCHANGED <<pc, stack, noPush>>
    BY <1>17 DEF scanVars
  <2> QED
    BY <1>3, <1>7, <2>1 DEF QuietInv
<1> QED
  BY <1>6, <1>8, <1>9, <1>10, <1>11, <1>12, <1>13, <1>14, <1>15, <1>16, <1>17 DEF ScanStep

(***************************************************************************)
(* A scan of a tree that nobody changes ends in failure only because of    *)
(* its root, of an entry whose status is refused, or of a module that      *)
(* cannot be read: broken links, directories that cannot be opened and     *)
(* files of other kinds, anywhere and in any number, do not.               *)
(***************************************************************************)
THEOREM FailureHasACause == Spec => []FailsForACause
<1>1. Init => WalkType /\ QuietInv
  <2>1. Init => FramesVisible
    <3>1. \A i \in 1 .. Len(<<>>) : FALSE
      BY EmptySeq
    <3> QED
      BY <3>1 DEF Init, FramesVisible
  <2> QED
    BY <2>1, WalkTypeInit DEF Init, QuietInv
<1>2. WalkType /\ QuietInv /\ [Next]_scanVars => (WalkType /\ QuietInv)'
  BY WalkTypeNext, QuietNext
<1>3. QuietInv => FailsForACause
  BY DEF QuietInv, FailsForACause, Cause
<1> QED
  BY <1>1, <1>2, <1>3, PTL DEF Spec

-----------------------------------------------------------------------------
(***************************************************************************)
(* Success. X are the entries the loop is done with. Between two of its    *)
(* steps, whatever is in Root or in an open directory of X is in X or      *)
(* pending: on the stack and left, or the entry at hand. So when nothing   *)
(* is pending, X has all that is visible. The view only shrinks meanwhile. *)
(***************************************************************************)
AtEntry == {"visit", "file", "module", "increment"}

LeftIn(s) == UNION {s[i].left : i \in DOMAIN s}
Left == LeftIn(stack)
Pending == Left \cup (IF pc \in AtEntry THEN {here} ELSE {})

OpenDir(d) == Status(d) = "directory" /\ CanOpen(d)
ToLoad(p) == Wanted(p) /\ CanOpen(p)

AllexeLoaded(p) ==
  \E i \in DOMAIN allexes :
     /\ allexes[i].file = p
     /\ [k \in DOMAIN allexes[i].modules |-> allexes[i].modules[k].crc] = tree.modules[p]

BitcodeLoaded(p) == \E i \in DOMAIN infos : tree.id[infos[i].file] = tree.id[p]

IsLoaded(p) ==
  /\ mode = "allexes" /\ p \in tree.allexes => AllexeLoaded(p)
  /\ mode = "bitcode" /\ p \in tree.bitcode => BitcodeLoaded(p)

Settled(p) == ToLoad(p) => IsLoaded(p)

CoverInv(X) ==
  /\ Entries(Root) \subseteq X \cup Pending
  /\ \A d \in X : OpenDir(d) => Entries(d) \subseteq X \cup Pending
  /\ \A p \in X : Settled(p)

(***************************************************************************)
(* No entry is met twice, since a path has one parent: all that was ever   *)
(* on the stack came from Root or from an entry that is done with.         *)
(***************************************************************************)
Inside(X) == tree.entries[Root] \cup UNION {tree.entries[d] : d \in X}

FramesDiffer ==
  /\ \A i, j \in DOMAIN stack : i # j => stack[i].left \cap stack[j].left = {}
  /\ pc \in AtEntry => here \notin Left

OnceInv(X) ==
  /\ FramesDiffer
  /\ X \cap Pending = {}
  /\ X \cup Pending \subseteq Inside(X)
  /\ \A i \in DOMAIN allexes :
       allexes[i].file \in X \cup (IF pc = "increment" THEN {here} ELSE {})
  /\ \A i, j \in DOMAIN allexes : allexes[i].file = allexes[j].file => i = j

(***************************************************************************)
(* What is known of the entry at hand and of its modules.                  *)
(***************************************************************************)
HereInv ==
  /\ pc \in {"start", "done"} => stack = <<>>
  /\ noPush => pc = "increment" /\ ~OpenDir(here)
  /\ pc = "increment" => Settled(here)
  /\ pc = "module" =>
       /\ mode = "allexes"
       /\ Len(adding) <= Len(tree.modules[here])
       /\ \A k \in DOMAIN adding : adding[k].crc = tree.modules[here][k]

BitcodeInv ==
  mode = "bitcode" =>
    /\ bcids = {tree.id[infos[i].file] : i \in DOMAIN infos}
    /\ \A i, j \in DOMAIN infos : tree.id[infos[i].file] = tree.id[infos[j].file] => i = j

Going == pc \notin {"start", "failed", "aborted"}

FoundInv ==
  /\ HereInv
  /\ BitcodeInv
  /\ pc = "start" => allexes = <<>>
  /\ Going => \E X \in SUBSET Path : CoverInv(X) /\ OnceInv(X)

(***************************************************************************)
(* What no step takes back.                                                *)
(***************************************************************************)
Shrinks == UNCHANGED <<tree, mode>> /\ gone \subseteq gone'

Grows(s, t) == \A i \in DOMAIN s : i \in DOMAIN t /\ t[i] = s[i]

LEMMA ViewShrinks ==
  ASSUME Shrinks
  PROVE  \A p : /\ Entries(p)' \subseteq Entries(p)
                /\ OpenDir(p)' => OpenDir(p)
                /\ ToLoad(p)' => ToLoad(p)
BY DEF Shrinks, Entries, OpenDir, ToLoad, Wanted, Status, CanOpen

LEMMA SettledKept ==
  ASSUME Shrinks, Grows(allexes, allexes'), Grows(infos, infos')
  PROVE  \A p : Settled(p) => Settled(p)'
<1> SUFFICES ASSUME NEW p, Settled(p), ToLoad(p)' PROVE IsLoaded(p)'
  BY DEF Settled
<1>1. IsLoaded(p)
  BY ViewShrinks DEF Settled
<1>2. AllexeLoaded(p) => AllexeLoaded(p)'
  BY DEF AllexeLoaded, Grows, Shrinks
<1>3. BitcodeLoaded(p) => BitcodeLoaded(p)'
  BY DEF BitcodeLoaded, Grows, Shrinks
<1> QED
  BY <1>1, <1>2, <1>3 DEF IsLoaded, Shrinks

LEMMA StackSame ==
  ASSUME UNCHANGED stack
  PROVE  Left' = Left /\ here' = here
BY DEF Left, here, Top

(***************************************************************************)
(* A step that leaves the entries where they are.                          *)
(***************************************************************************)
LEMMA EntriesKept ==
  ASSUME NEW X \in SUBSET Path, CoverInv(X), OnceInv(X), Shrinks,
         UNCHANGED allexes, Grows(infos, infos'), Pending' = Pending, FramesDiffer',
         pc = "increment" => pc' = "increment" /\ here' = here
  PROVE  CoverInv(X)' /\ OnceInv(X)'
<1>1. \A p : Settled(p) => Settled(p)'
  BY SettledKept DEF Grows
<1>2. CoverInv(X)'
  BY <1>1, ViewShrinks DEF CoverInv
<1>3. Inside(X)' = Inside(X)
  BY DEF Inside, Shrinks
<1> QED
  BY <1>2, <1>3 DEF OnceInv

LEMMA SameEntry ==
  ASSUME NEW X \in SUBSET Path, CoverInv(X), OnceInv(X), Shrinks,
         UNCHANGED <<stack, allexes>>, Grows(infos, infos'),
         pc \in AtEntry <=> pc' \in AtEntry, pc = "increment" => pc' = "increment"
  PROVE  CoverInv(X)' /\ OnceInv(X)'
<1>1. Left' = Left /\ here' = here
  BY StackSame
<1>2. Pending' = Pending
  BY <1>1 DEF Pending
<1>3. FramesDiffer'
  BY <1>1 DEF FramesDiffer, OnceInv
<1> QED
  BY <1>1, <1>2, <1>3, EntriesKept

LEMMA GrowsFacts ==
  ASSUME NEW S, NEW s \in Seq(S), NEW e \in S
  PROVE  Grows(s, s) /\ Grows(s, Append(s, e))
BY PushFacts DEF Grows

-----------------------------------------------------------------------------
(***************************************************************************)
(* The iterator enters a directory, whose entries nobody has met; the next *)
(* entry; the end of a directory.                                          *)
(***************************************************************************)
LEMMA EnterEntries ==
  ASSUME WalkType, NEW p \in Path, Enter(p), Entries(p) \cap Left = {},
         \A i, j \in DOMAIN stack : i # j => stack[i].left \cap stack[j].left = {}
  PROVE  FramesDiffer' /\ Pending' = Left \cup Entries(p)
<1>1. PICK e \in Entries(p) : stack' = Append(stack, [at |-> e, left |-> Entries(p) \ {e}])
  BY DEF Enter
<1> DEFINE f == [at |-> e, left |-> Entries(p) \ {e}]
<1>2. f \in Frame /\ f.at = e /\ f.left = Entries(p) \ {e}
  BY DEF Frame, Entries, WalkType, Tree
<1> HIDE DEF f
<1>3. /\ DOMAIN stack' = DOMAIN stack \cup {Len(stack) + 1}
      /\ Len(stack) + 1 \notin DOMAIN stack
      /\ \A i \in DOMAIN stack : stack'[i] = stack[i]
      /\ stack'[Len(stack) + 1] = f /\ Top(stack') = f
  BY <1>1, <1>2, PushFacts DEF WalkType, f
<1>4. here' = e /\ pc' = "visit"
  BY <1>2, <1>3 DEF here, Top, Enter
<1>5. Left' = Left \cup (Entries(p) \ {e})
  <2>1. LeftIn(stack') = Left \cup f.left
    BY <1>3 DEF Left, LeftIn
  <2> QED
    BY <1>2, <2>1 DEF Left
<1>6. Pending' = Left \cup Entries(p)
  BY <1>4, <1>5 DEF Pending, AtEntry
<1>7. \A i \in DOMAIN stack : stack[i].left \subseteq Left
  BY DEF Left, LeftIn
<1>8. \A i, j \in DOMAIN stack' : i # j => stack'[i].left \cap stack'[j].left = {}
  BY <1>2, <1>3, <1>7
<1>9. FramesDiffer'
  BY <1>4, <1>5, <1>8 DEF FramesDiffer
<1> QED
  BY <1>6, <1>9

LEMMA LeftInMember ==
  \A s, q : q \in LeftIn(s) <=> \E i \in DOMAIN s : q \in s[i].left
BY DEF LeftIn

LEMMA PoppedFrames ==
  ASSUME WalkType, stack # <<>>, FramesDiffer
  PROVE  /\ DOMAIN Pop(stack) \subseteq DOMAIN stack /\ Len(stack) \in DOMAIN stack
         /\ DOMAIN stack = DOMAIN Pop(stack) \cup {Len(stack)}
         /\ Len(stack) \notin DOMAIN Pop(stack) /\ Len(Pop(stack)) + 1 = Len(stack)
         /\ \A i \in DOMAIN Pop(stack) : Pop(stack)[i] = stack[i]
         /\ Left = LeftIn(Pop(stack)) \cup Top(stack).left
         /\ LeftIn(Pop(stack)) \cap Top(stack).left = {}
<1>1. /\ Len(stack) \in Nat \ {0} /\ Pop(stack) \in Seq(Frame) /\ stack \in Seq(Frame)
      /\ Len(Pop(stack)) = Len(stack) - 1
      /\ \A i \in 1 .. Len(stack) - 1 : Pop(stack)[i] = stack[i]
  BY PopFacts DEF WalkType
<1>2. DOMAIN Pop(stack) = 1 .. Len(Pop(stack)) /\ DOMAIN stack = 1 .. Len(stack)
  BY <1>1, LenProperties
<1>3. /\ 1 .. Len(stack) = 1 .. Len(stack) - 1 \cup {Len(stack)}
      /\ Len(stack) \notin 1 .. Len(stack) - 1
      /\ Len(stack) - 1 + 1 = Len(stack)
  <2>1. \A n \in Nat \ {0} : 1 .. n = 1 .. n - 1 \cup {n} /\ n \notin 1 .. n - 1 /\ n - 1 + 1 = n
    OBVIOUS
  <2> QED
    BY <1>1, <2>1
<1>4. /\ DOMAIN stack = DOMAIN Pop(stack) \cup {Len(stack)}
      /\ Len(stack) \notin DOMAIN Pop(stack) /\ Len(Pop(stack)) + 1 = Len(stack)
      /\ \A i \in DOMAIN Pop(stack) : Pop(stack)[i] = stack[i]
  BY <1>1, <1>2, <1>3
<1>5. Top(stack) = stack[Len(stack)]
  BY DEF Top
<1>6. Left = LeftIn(Pop(stack)) \cup Top(stack).left
  <2>1. \A q : q \in Left <=> q \in LeftIn(Pop(stack)) \/ q \in Top(stack).left
    BY <1>4, <1>5, LeftInMember DEF Left
  <2> QED
    BY <2>1
<1>7. LeftIn(Pop(stack)) \cap Top(stack).left = {}
  <2> SUFFICES ASSUME NEW q \in LeftIn(Pop(stack)), q \in Top(stack).left PROVE FALSE
    OBVIOUS
  <2>1. PICK i \in DOMAIN Pop(stack) : q \in Pop(stack)[i].left
    BY LeftInMember
  <2>2. i \in DOMAIN stack /\ i # Len(stack) /\ q \in stack[i].left /\ q \in stack[Len(stack)].left
    BY <1>4, <1>5, <2>1
  <2>3. stack[i].left \cap stack[Len(stack)].left = {}
    BY <1>4, <2>2 DEF FramesDiffer
  <2> QED
    BY <2>2, <2>3
<1> QED
  BY <1>4, <1>6, <1>7

LEMMA NextEntries ==
  ASSUME WalkType, FramesDiffer, NextEntry
  PROVE  FramesDiffer' /\ Pending' = Pending
<1>1. stack # <<>> /\ pc = "advance" /\ pc' = "visit"
  BY DEF NextEntry
<1>2. PICK e \in Top(stack).left :
         stack' = Append(Pop(stack), [at |-> e, left |-> Top(stack).left \ {e}])
  BY DEF NextEntry
<1> DEFINE f == [at |-> e, left |-> Top(stack).left \ {e}]
           n == Len(stack)
<1>3. Top(stack) \in Frame /\ Pop(stack) \in Seq(Frame)
  BY <1>1, PopFacts DEF WalkType
<1>4. f \in Frame /\ f.at = e /\ f.left = Top(stack).left \ {e}
  BY <1>3 DEF Frame
<1> HIDE DEF f
<1>5. /\ DOMAIN stack' = DOMAIN Pop(stack) \cup {Len(Pop(stack)) + 1}
      /\ \A i \in DOMAIN Pop(stack) : stack'[i] = Pop(stack)[i]
      /\ stack'[Len(Pop(stack)) + 1] = f /\ Top(stack') = f
  BY <1>2, <1>3, <1>4, PushFacts DEF f
<1>6. /\ DOMAIN stack = DOMAIN Pop(stack) \cup {n} /\ Len(Pop(stack)) + 1 = n
      /\ n \notin DOMAIN Pop(stack)
      /\ \A i \in DOMAIN Pop(stack) : Pop(stack)[i] = stack[i]
      /\ Left = LeftIn(Pop(stack)) \cup Top(stack).left /\ LeftIn(Pop(stack)) \cap Top(stack).left = {}
  BY <1>1, PoppedFrames
<1>7. here' = e
  BY <1>4, <1>5 DEF here, Top
<1>8. Left' = LeftIn(Pop(stack)) \cup f.left
  <2>1. LeftIn(stack') = LeftIn(Pop(stack)) \cup f.left
    BY <1>5 DEF LeftIn
  <2> QED
    BY <2>1 DEF Left
<1>9. Pending' = Pending
  BY <1>1, <1>4, <1>6, <1>7, <1>8 DEF Pending, AtEntry
<1>10. \A i, j \in DOMAIN stack' : i # j => stack'[i].left \cap stack'[j].left = {}
  <2>1. \A i \in DOMAIN Pop(stack) : stack'[i].left \subseteq LeftIn(Pop(stack))
    BY <1>5 DEF LeftIn
  <2>2. \A i, j \in DOMAIN Pop(stack) : i # j => stack'[i].left \cap stack'[j].left = {}
    BY <1>5, <1>6 DEF FramesDiffer
  <2> QED
    BY <1>4, <1>5, <1>6, <2>1, <2>2
<1>11. FramesDiffer'
  BY <1>4, <1>6, <1>7, <1>8, <1>10 DEF FramesDiffer
<1> QED
  BY <1>9, <1>11

LEMMA LeaveEntries ==
  ASSUME WalkType, FramesDiffer, LeaveDirectory
  PROVE  FramesDiffer' /\ Pending' = Pending /\ (pc' = "done" => stack' = <<>>)
<1>1. /\ stack # <<>> /\ pc = "advance" /\ pc' \in {"done", "advance"}
      /\ stack' = Pop(stack) /\ Top(stack).left = {}
      /\ pc' = "done" => Len(stack) = 1
  BY DEF LeaveDirectory
<1>2. /\ DOMAIN Pop(stack) \subseteq DOMAIN stack
      /\ \A i \in DOMAIN Pop(stack) : Pop(stack)[i] = stack[i]
      /\ Left = LeftIn(Pop(stack)) \cup Top(stack).left
  BY <1>1, PoppedFrames
<1>3. Left' = Left
  BY <1>1, <1>2 DEF Left
<1>4. Pending' = Pending
  BY <1>1, <1>3 DEF Pending, AtEntry
<1>5. FramesDiffer'
  BY <1>1, <1>2 DEF FramesDiffer, AtEntry
<1>6. pc' = "done" => stack' = <<>>
  <2>1. Pop(stack) \in Seq(Frame) /\ Len(Pop(stack)) = Len(stack) - 1
    BY <1>1, PopFacts DEF WalkType
  <2> QED
    BY <1>1, <2>1, EmptySeq
<1> QED
  BY <1>4, <1>5, <1>6

(***************************************************************************)
(* The loop is done with an entry. What was in a directory that is entered *)
(* has not been met: it would have another parent.                         *)
(***************************************************************************)
LEMMA FreshEntries ==
  ASSUME WalkType, NEW X \in SUBSET Path, OnceInv(X), pc = "increment"
  PROVE  Entries(here) \cap (X \cup Pending) = {}
<1> SUFFICES ASSUME NEW q \in Entries(here), q \in X \cup Pending PROVE FALSE
  OBVIOUS
<1>1. here \in Path
  BY HereIsPath
<1>2. here \in Pending /\ here \notin X
  BY DEF Pending, AtEntry, OnceInv
<1>3. \A p \in Inside(X) : \E d \in X \cup {Root} : p \in tree.entries[d]
  BY DEF Inside
<1>4. PICK d \in X \cup {Root} : q \in tree.entries[d]
  BY <1>3 DEF OnceInv
<1>5. PICK c \in X \cup {Root} : here \in tree.entries[c]
  BY <1>2, <1>3 DEF OnceInv
<1>6. c \in Path /\ d \in Path /\ q \in tree.entries[here]
  BY ScanAssumption DEF Entries
<1>7. here # Root /\ here = d
  BY <1>1, <1>4, <1>5, <1>6 DEF WalkType, OneParent
<1> QED
  BY <1>2, <1>7

LEMMA EntryDone ==
  ASSUME WalkType, NEW X \in SUBSET Path, NEW e \in Path, CoverInv(X), OnceInv(X),
         e = here, pc = "increment", Settled(e), Shrinks, UNCHANGED <<allexes, infos>>,
         FramesDiffer', pc' \in {"visit", "advance"},
         Pending' = Left \cup (IF OpenDir(e) THEN Entries(e) ELSE {})
  PROVE  CoverInv(X \cup {e})' /\ OnceInv(X \cup {e})'
<1>1. Pending = Left \cup {e} /\ e \notin Left /\ e \in Pending
  BY DEF Pending, AtEntry, OnceInv, FramesDiffer
<1>2. Pending \subseteq {e} \cup Pending'
  BY <1>1
<1>3. \A p : Settled(p) => Settled(p)'
  BY SettledKept DEF Grows
<1>4. Entries(Root)' \subseteq X \cup {e} \cup Pending'
  BY <1>2, ViewShrinks DEF CoverInv
<1>5. ASSUME NEW d \in X \cup {e}, OpenDir(d)'
      PROVE  Entries(d)' \subseteq X \cup {e} \cup Pending'
  <2>1. OpenDir(d) /\ Entries(d)' \subseteq Entries(d)
    BY <1>5, ViewShrinks
  <2>2. CASE d \in X
    BY <1>2, <2>1, <2>2 DEF CoverInv
  <2>3. CASE d = e
    BY <2>1, <2>3
  <2> QED
    BY <2>2, <2>3
<1>6. CoverInv(X \cup {e})'
  BY <1>3, <1>4, <1>5 DEF CoverInv
<1>7. Entries(e) \cap (X \cup Pending) = {}
  BY FreshEntries
<1>8. (X \cup {e}) \cap Pending' = {}
  BY <1>1, <1>7 DEF OnceInv
<1>9. Inside(X \cup {e})' = Inside(X) \cup tree.entries[e]
  BY DEF Inside, Shrinks
<1>10. X \cup {e} \cup Pending' \subseteq Inside(X \cup {e})'
  <2>1. Entries(e) \subseteq tree.entries[e]
    BY DEF Entries
  <2> QED
    BY <1>1, <1>9, <2>1 DEF OnceInv
<1>11. \A i \in DOMAIN allexes : allexes[i].file \in X \cup {e}
  BY DEF OnceInv
<1>12. OnceInv(X \cup {e})'
  BY <1>8, <1>10, <1>11 DEF OnceInv
<1> QED
  BY <1>6, <1>12

-----------------------------------------------------------------------------
(***************************************************************************)
(* Each step keeps FoundInv.                                               *)
(***************************************************************************)
LEMMA BitcodeSame ==
  ASSUME BitcodeInv, UNCHANGED <<tree, mode, bcids, infos>>
  PROVE  BitcodeInv'
BY DEF BitcodeInv

LEMMA FoundStart ==
  ASSUME WalkType, FoundInv, Start
  PROVE  FoundInv'
<1>1. /\ pc = "start" /\ stack = <<>> /\ allexes = <<>> /\ noPush = FALSE
      /\ Shrinks /\ UNCHANGED <<gone, noPush, adding, bcids, infos, allexes>>
      /\ pc' \in {"visit", "done", "failed"}
  BY DEF Start, Enter, FoundInv, HereInv, WalkType, Shrinks, fsVars, dbVars
<1>2. BitcodeInv'
  BY <1>1, BitcodeSame DEF FoundInv, Shrinks
<1>3. Left = {}
  BY <1>1 DEF Left, LeftIn
<1>4. ASSUME Entries(Root) = Pending', FramesDiffer'
      PROVE  CoverInv({})' /\ OnceInv({})'
  <2>1. Entries(Root)' = Entries(Root) /\ Entries(Root) \subseteq tree.entries[Root]
    BY <1>1 DEF Entries, Shrinks
  <2>2. CoverInv({})'
    BY <1>4, <2>1 DEF CoverInv
  <2>3. Inside({})' = tree.entries[Root]
    BY DEF Inside, Shrinks, Start, fsVars
  <2> QED
    BY <1>1, <1>4, <2>1, <2>2, <2>3 DEF OnceInv
<1>5. CASE pc' = "failed"
  BY <1>1, <1>2, <1>5 DEF FoundInv, HereInv, Going
<1>6. CASE Entries(Root) = {} /\ pc' = "done" /\ UNCHANGED stack
  <2>1. Pending' = {} /\ FramesDiffer'
    BY <1>1, <1>3, <1>6 DEF Pending, AtEntry, FramesDiffer, Left
  <2>2. CoverInv({})' /\ OnceInv({})'
    BY <1>4, <1>6, <2>1
  <2>3. {} \in SUBSET Path
    OBVIOUS
  <2>4. HereInv'
    BY <1>1, <1>6 DEF HereInv
  <2> QED
    BY <1>2, <1>6, <2>2, <2>3, <2>4 DEF FoundInv
<1>7. CASE Enter(Root)
  <2>1. FramesDiffer' /\ Pending' = Left \cup Entries(Root)
    BY <1>1, <1>3, <1>7, EnterEntries, ScanAssumption
  <2>2. CoverInv({})' /\ OnceInv({})'
    BY <1>3, <1>4, <2>1
  <2>3. {} \in SUBSET Path
    OBVIOUS
  <2>4. pc' = "visit"
    BY <1>7 DEF Enter
  <2>5. HereInv'
    BY <1>1, <2>4 DEF HereInv
  <2> QED
    BY <1>2, <2>2, <2>3, <2>4, <2>5 DEF FoundInv
<1> QED
  BY <1>1, <1>5, <1>6, <1>7 DEF Start

(***************************************************************************)
(* The steps at an entry, up to and in its callback.                       *)
(***************************************************************************)
LEMMA FoundHere ==
  ASSUME FoundInv, Shrinks, UNCHANGED <<stack, allexes>>, Grows(infos, infos'),
         pc \in AtEntry, pc' \in AtEntry, pc # "increment", HereInv', BitcodeInv'
  PROVE  FoundInv'
<1>1. PICK X \in SUBSET Path : CoverInv(X) /\ OnceInv(X)
  BY DEF FoundInv, Going, AtEntry
<1>2. CoverInv(X)' /\ OnceInv(X)'
  BY <1>1, SameEntry
<1> QED
  BY <1>2 DEF FoundInv, AtEntry

LEMMA FoundVisit ==
  ASSUME WalkType, FoundInv, SkipUnreachable \/ SkipUnwanted \/ VisitFile
  PROVE  FoundInv'
<1>1. /\ pc = "visit" /\ pc' \in {"increment", "file"} /\ noPush = FALSE
      /\ Shrinks /\ UNCHANGED <<fsVars, stack, adding, bcids, infos, allexes>>
      /\ Grows(infos, infos')
  BY DEF SkipUnreachable, SkipUnwanted, VisitFile, fsVars, dbVars, Shrinks, Grows, FoundInv, HereInv,
         WalkType
<1>2. BitcodeInv'
  BY <1>1, BitcodeSame DEF FoundInv, Shrinks
<1>3. \A p : Settled(p) => Settled(p)'
  BY <1>1, SettledKept DEF Grows
<1>4. here' = here /\ (OpenDir(here)' => OpenDir(here))
  BY <1>1, StackSame, ViewShrinks
<1>5. CASE SkipUnreachable
  <2>1. ~OpenDir(here) /\ ~ToLoad(here) /\ pc' = "increment"
    BY <1>5 DEF SkipUnreachable, OpenDir, ToLoad, Wanted
  <2>2. HereInv'
    BY <1>3, <1>4, <2>1 DEF HereInv, Settled
  <2> QED
    BY <1>1, <1>2, <2>2, FoundHere DEF AtEntry
<1>6. CASE SkipUnwanted
  <2>1. ~ToLoad(here) /\ pc' = "increment" /\ noPush' = FALSE
    BY <1>1, <1>6 DEF SkipUnwanted, ToLoad
  <2>2. HereInv'
    BY <1>3, <1>4, <2>1 DEF HereInv, Settled
  <2> QED
    BY <1>1, <1>2, <2>2, FoundHere DEF AtEntry
<1>7. CASE VisitFile
  <2>1. HereInv'
    BY <1>1, <1>7 DEF HereInv, VisitFile
  <2> QED
    BY <1>1, <1>2, <2>1, FoundHere DEF AtEntry
<1> QED
  BY <1>5, <1>6, <1>7

LEMMA FoundOpen ==
  ASSUME WalkType, FoundInv, OpenAllexe
  PROVE  FoundInv'
<1>1. /\ pc = "file" /\ mode = "allexes" /\ noPush = FALSE /\ noPush' = FALSE
      /\ Shrinks /\ UNCHANGED <<fsVars, stack, bcids, infos, allexes>>
      /\ Grows(infos, infos')
      /\ adding' = <<>>
      /\ pc' \in {"module", "increment"}
      /\ pc' = "increment" => ~(here \in tree.allexes /\ CanOpen(here))
  BY DEF OpenAllexe, fsVars, Shrinks, Grows, FoundInv, HereInv, WalkType
<1>2. BitcodeInv'
  BY <1>1, BitcodeSame DEF FoundInv, Shrinks
<1>3. here' = here
  BY <1>1, StackSame
<1>4. pc' = "increment" => Settled(here)'
  <2>1. pc' = "increment" => Settled(here)
    BY <1>1 DEF Settled, IsLoaded, ToLoad
  <2> QED
    BY <1>1, <1>3, <2>1, SettledKept DEF Grows
<1>5. pc' = "module" =>
        /\ Len(adding') <= Len(tree.modules[here])
        /\ \A k \in DOMAIN adding' : adding'[k].crc = tree.modules[here][k]
  <2>1. here \in Path
    BY <1>1, HereIsPath
  <2>2. Len(tree.modules[here]) \in Nat
    BY <2>1, LenProperties DEF WalkType, Tree
  <2>3. Len(<<>>) = 0 /\ DOMAIN <<>> = {}
    BY EmptySeq
  <2> QED
    BY <1>1, <2>2, <2>3
<1>6. HereInv'
  BY <1>1, <1>3, <1>4, <1>5 DEF HereInv, Shrinks
<1> QED
  BY <1>1, <1>2, <1>6, FoundHere DEF AtEntry

LEMMA NextCRC ==
  ASSUME WalkType, DataInv, HereInv, MoreModules, NEW MI \in ModuleInfo, MI.crc = nextCRC,
         adding' = Append(adding, MI), UNCHANGED <<tree, stack>>
  PROVE  /\ Len(adding') <= Len(tree.modules[here])
         /\ \A k \in DOMAIN adding' : adding'[k].crc = tree.modules[here][k]
<1>1. here \in Path /\ adding \in Seq(ModuleInfo) /\ pc = "module"
  BY HereIsPath DEF MoreModules, DataInv, DataType
<1>2. Len(tree.modules[here]) \in Nat /\ Len(adding) \in Nat
  BY <1>1, LenProperties DEF WalkType, Tree
<1>3. Len(adding') = Len(adding) + 1
  BY <1>1, AppendProperties
<1>4. Len(adding') <= Len(tree.modules[here])
  BY <1>2, <1>3 DEF MoreModules
<1>5. \A k \in DOMAIN adding' : adding'[k].crc = tree.modules[here][k]
  BY <1>1, PushFacts DEF HereInv, nextCRC
<1> QED
  BY <1>4, <1>5

LEMMA FoundModule ==
  ASSUME WalkType, DataInv, FoundInv, AddKnownModule \/ AddModule
  PROVE  FoundInv'
<1>1. /\ pc = "module" /\ mode = "allexes" /\ noPush = FALSE /\ noPush' = FALSE /\ MoreModules
      /\ Shrinks /\ UNCHANGED <<fsVars, stack, bcids, allexes>>
      /\ infos \in Seq(ModuleInfo)
  BY DEF AddKnownModule, AddModule, MoreModules, fsVars, Shrinks, FoundInv, HereInv, WalkType, DataInv,
         DataType
<1>2. BitcodeInv'
  BY <1>1 DEF BitcodeInv, Shrinks
<1>3. CASE pc' \in {"failed", "aborted"}
  BY <1>1, <1>2, <1>3 DEF FoundInv, HereInv, Going
<1>4. ASSUME NEW MI \in ModuleInfo, MI.crc = nextCRC, adding' = Append(adding, MI),
             infos' \in {infos, Append(infos, MI)}, pc' = "module"
      PROVE  FoundInv'
  <2>1. Grows(infos, infos')
    BY <1>1, <1>4, GrowsFacts
  <2>2. here' = here
    BY <1>1, StackSame
  <2>3. /\ Len(adding') <= Len(tree.modules[here])
        /\ \A k \in DOMAIN adding' : adding'[k].crc = tree.modules[here][k]
    BY <1>1, <1>4, NextCRC DEF Shrinks, FoundInv
  <2>4. HereInv'
    BY <1>1, <1>4, <2>2, <2>3 DEF HereInv, Shrinks
  <2> QED
    BY <1>1, <1>2, <1>4, <2>1, <2>4, FoundHere DEF AtEntry
<1>5. CASE AddKnownModule
  <2>1. PICK i \in DOMAIN infos : infos[i].crc = nextCRC /\ adding' = Append(adding, infos[i])
    BY <1>5 DEF AddKnownModule
  <2>2. infos[i] \in ModuleInfo
    BY <1>1, ElementOfSeq, LenProperties
  <2>3. infos' = infos /\ pc' = "module"
    BY <1>1, <1>5 DEF AddKnownModule
  <2> QED
    BY <1>4, <2>1, <2>2, <2>3
<1>6. CASE AddModule
  <2> DEFINE MI == [crc |-> nextCRC, file |-> SourceString(tree.sources[nextCRC])]
  <2>1. CASE infos' = Append(infos, MI) /\ adding' = Append(adding, MI) /\ pc' = pc
    <3>1. MI \in ModuleInfo /\ MI.crc = nextCRC
      BY <1>1, NextModule DEF DataInv
    <3> HIDE DEF MI
    <3> QED
      BY <1>1, <1>4, <2>1, <3>1
  <2>2. CASE pc' \in {"failed", "aborted"}
    BY <1>3, <2>2
  <2> QED
    BY <1>6, <2>1, <2>2 DEF AddModule
<1> QED
  BY <1>5, <1>6

LEMMA FoundAllexe ==
  ASSUME WalkType, DataInv, FoundInv, AddAllexe
  PROVE  FoundInv'
<1> DEFINE A == [file |-> here, modules |-> adding]
<1>1. /\ pc = "module" /\ pc' = "increment" /\ noPush = FALSE /\ noPush' = FALSE
      /\ mode = "allexes" /\ allexes' = Append(allexes, A)
      /\ Shrinks /\ UNCHANGED <<fsVars, stack, bcids, infos>>
      /\ Len(adding) = Len(tree.modules[here])
      /\ \A k \in DOMAIN adding : adding[k].crc = tree.modules[here][k]
  BY DEF AddAllexe, fsVars, Shrinks, FoundInv, HereInv, WalkType
<1>2. here \in Path /\ adding \in Seq(ModuleInfo) /\ allexes \in Seq(AllexeType)
  BY <1>1, HereIsPath DEF DataInv, DataType
<1>3. A \in AllexeType /\ A.file = here /\ A.modules = adding
  BY <1>2 DEF AllexeType
<1> HIDE DEF A
<1>4. /\ DOMAIN allexes' = DOMAIN allexes \cup {Len(allexes) + 1}
      /\ Len(allexes) + 1 \notin DOMAIN allexes
      /\ \A i \in DOMAIN allexes : allexes'[i] = allexes[i]
      /\ allexes'[Len(allexes) + 1] = A
  BY <1>1, <1>2, <1>3, PushFacts
<1>5. Grows(allexes, allexes') /\ Grows(infos, infos')
  BY <1>1, <1>4 DEF Grows
<1>6. [k \in DOMAIN adding |-> adding[k].crc] = tree.modules[here]
  <2>1. DOMAIN adding = 1 .. Len(adding) /\ tree.modules[here] \in Seq(CRC)
    BY <1>2, LenProperties DEF WalkType, Tree
  <2>2. tree.modules[here] \in [1 .. Len(tree.modules[here]) -> CRC]
    BY <2>1, LenProperties
  <2> QED
    BY <1>1, <2>1, <2>2
<1>7. Left' = Left /\ here' = here /\ Pending' = Pending /\ FramesDiffer'
  <2>1. PICK X \in SUBSET Path : OnceInv(X)
    BY <1>1 DEF FoundInv, Going
  <2>2. Left' = Left /\ here' = here
    BY <1>1, StackSame
  <2> QED
    BY <1>1, <2>1, <2>2 DEF Pending, FramesDiffer, OnceInv, AtEntry
<1>8. Settled(here)'
  <2>1. AllexeLoaded(here)'
    BY <1>1, <1>3, <1>4, <1>6, <1>7 DEF AllexeLoaded, Shrinks
  <2> QED
    BY <1>1, <2>1 DEF Settled, IsLoaded, Shrinks
<1>9. PICK X \in SUBSET Path : CoverInv(X) /\ OnceInv(X)
  BY <1>1 DEF FoundInv, Going
<1>10. CoverInv(X)'
  <2>1. \A p : Settled(p) => Settled(p)'
    BY <1>1, <1>5, SettledKept
  <2> QED
    BY <1>1, <1>7, <1>9, <2>1, ViewShrinks DEF CoverInv
<1>11. OnceInv(X)'
  <2>1. Inside(X)' = Inside(X)
    BY <1>1 DEF Inside, Shrinks
  <2>2. here \notin X /\ \A i \in DOMAIN allexes : allexes[i].file \in X
    BY <1>1, <1>9 DEF OnceInv, Pending, AtEntry
  <2>3. \A i \in DOMAIN allexes' : allexes'[i].file \in X \cup {here}
    BY <1>3, <1>4, <2>2
  <2>4. \A i, j \in DOMAIN allexes' : allexes'[i].file = allexes'[j].file => i = j
    BY <1>3, <1>4, <1>9, <2>2 DEF OnceInv
  <2> QED
    BY <1>1, <1>7, <1>9, <2>1, <2>3, <2>4 DEF OnceInv
<1>12. BitcodeInv'
  BY <1>1 DEF BitcodeInv, Shrinks
<1>13. HereInv'
  BY <1>1, <1>8 DEF HereInv
<1> QED
  BY <1>1, <1>10, <1>11, <1>12, <1>13 DEF FoundInv

LEMMA FoundBitcode ==
  ASSUME WalkType, DataInv, FoundInv, AddBitcode
  PROVE  FoundInv'
<1> DEFINE MI == [crc |-> 0, file |-> here]
           add == here \in tree.bitcode /\ CanOpen(here) /\ tree.id[here] \notin bcids
<1>1. /\ pc = "file" /\ pc' = "increment" /\ noPush = FALSE /\ noPush' = FALSE
      /\ mode = "bitcode"
      /\ Shrinks /\ UNCHANGED <<fsVars, stack, allexes>>
      /\ infos' = IF add THEN Append(infos, MI) ELSE infos
      /\ bcids' = IF add THEN bcids \cup {tree.id[here]} ELSE bcids
  BY DEF AddBitcode, fsVars, Shrinks, FoundInv, HereInv, WalkType
<1>2. MI \in ModuleInfo /\ MI.file = here /\ infos \in Seq(ModuleInfo)
  BY <1>1, HereIsPath DEF ModuleInfo, DataInv, DataType
<1> HIDE DEF MI
<1>3. Grows(infos, infos')
  BY <1>1, <1>2, GrowsFacts
<1>4. here' = here
  BY <1>1, StackSame
<1>5. /\ bcids = {tree.id[infos[i].file] : i \in DOMAIN infos}
      /\ \A i, j \in DOMAIN infos : tree.id[infos[i].file] = tree.id[infos[j].file] => i = j
  BY <1>1 DEF FoundInv, BitcodeInv
<1>6. CASE add
  <2>1. /\ DOMAIN infos' = DOMAIN infos \cup {Len(infos) + 1}
        /\ Len(infos) + 1 \notin DOMAIN infos
        /\ \A i \in DOMAIN infos : infos'[i] = infos[i]
        /\ infos'[Len(infos) + 1].file = here
    BY <1>1, <1>2, <1>6, PushFacts
  <2>2. \A i \in DOMAIN infos : tree.id[infos[i].file] # tree.id[here]
    BY <1>5, <1>6
  <2>3. bcids' = {tree.id[infos'[i].file] : i \in DOMAIN infos'}
    BY <1>1, <1>5, <1>6, <2>1
  <2>4. \A i, j \in DOMAIN infos' : tree.id[infos'[i].file] = tree.id[infos'[j].file] => i = j
    BY <1>5, <2>1, <2>2
  <2>5. BitcodeInv'
    BY <1>1, <2>3, <2>4 DEF BitcodeInv, Shrinks
  <2>6. BitcodeLoaded(here)'
    BY <1>1, <1>4, <2>1 DEF BitcodeLoaded, Shrinks
  <2>7. HereInv'
    BY <1>1, <2>6 DEF HereInv, Settled, IsLoaded, Shrinks
  <2> QED
    BY <1>1, <1>3, <2>5, <2>7, FoundHere DEF AtEntry
<1>7. CASE ~add
  <2>1. BitcodeInv'
    BY <1>1, <1>7, BitcodeSame DEF FoundInv, Shrinks
  <2>2. Settled(here)
    <3>1. tree.id[here] \in bcids => BitcodeLoaded(here)
      BY <1>5 DEF BitcodeLoaded
    <3> QED
      BY <1>1, <1>7, <3>1 DEF Settled, IsLoaded, ToLoad
  <2>3. Settled(here)'
    BY <1>1, <1>3, <1>4, <2>2, SettledKept DEF Grows
  <2>4. HereInv'
    BY <1>1, <2>3 DEF HereInv
  <2> QED
    BY <1>1, <1>3, <2>1, <2>4, FoundHere DEF AtEntry
<1> QED
  BY <1>6, <1>7

-----------------------------------------------------------------------------
(***************************************************************************)
(* The steps of the iterator, and of others.                               *)
(***************************************************************************)
LEMMA FoundIncrement ==
  ASSUME WalkType, FoundInv, Increment
  PROVE  FoundInv'
<1>1. /\ pc = "increment" /\ here \in Path /\ noPush' = FALSE
      /\ Shrinks /\ UNCHANGED <<fsVars, adding, bcids, infos, allexes>>
      /\ pc' \in {"advance", "failed", "visit"}
  BY HereIsPath DEF Increment, Enter, fsVars, dbVars, Shrinks
<1>2. BitcodeInv'
  BY <1>1, BitcodeSame DEF FoundInv, Shrinks
<1>3. HereInv'
  BY <1>1 DEF HereInv
<1>4. PICK X \in SUBSET Path : CoverInv(X) /\ OnceInv(X)
  BY <1>1 DEF FoundInv, Going
<1>5. PICK e \in Path : e = here
  BY <1>1
<1>6. Settled(e) /\ (noPush => ~OpenDir(e))
  BY <1>1, <1>5 DEF FoundInv, HereInv
<1>7. SUFFICES ASSUME pc' \in {"advance", "visit"}
               PROVE  FramesDiffer' /\ Pending' = Left \cup (IF OpenDir(e) THEN Entries(e) ELSE {})
  <2>1. CASE pc' = "failed"
    BY <1>1, <1>2, <1>3, <2>1 DEF FoundInv, Going
  <2>2. CASE pc' \in {"advance", "visit"}
    <3>1. FramesDiffer' /\ Pending' = Left \cup (IF OpenDir(e) THEN Entries(e) ELSE {})
      BY <1>7, <2>2
    <3>2. CoverInv(X \cup {e})' /\ OnceInv(X \cup {e})'
      BY <1>1, <1>4, <1>5, <1>6, <2>2, <3>1, EntryDone
    <3>3. X \cup {e} \in SUBSET Path
      OBVIOUS
    <3> QED
      BY <1>1, <1>2, <1>3, <3>2, <3>3 DEF FoundInv
  <2> QED
    BY <1>1, <2>1, <2>2
<1>8. CASE pc' = "advance" /\ UNCHANGED stack /\ (OpenDir(e) => Entries(e) = {})
  <2>1. Left' = Left
    BY <1>8, StackSame
  <2> QED
    BY <1>4, <1>8, <2>1 DEF Pending, AtEntry, FramesDiffer, OnceInv
<1>9. CASE OpenDir(e) /\ Enter(here)
  <2>1. Entries(here) \cap (X \cup Pending) = {}
    BY <1>1, <1>4, FreshEntries
  <2>2. Entries(here) \cap Left = {}
    BY <2>1 DEF Pending
  <2> QED
    BY <1>1, <1>4, <1>5, <1>9, <2>2, EnterEntries DEF OnceInv, FramesDiffer
<1>10. Status(here) \in {"file", "other"} => ~OpenDir(here)
  BY DEF OpenDir
<1>11. Status(here) = "directory" /\ CanOpen(here) => OpenDir(here)
  BY DEF OpenDir
<1> QED
  BY <1>5, <1>6, <1>7, <1>8, <1>9, <1>10, <1>11 DEF Increment

LEMMA FoundAdvance ==
  ASSUME WalkType, FoundInv, NextEntry \/ LeaveDirectory
  PROVE  FoundInv'
<1>1. /\ pc = "advance" /\ noPush = FALSE /\ noPush' = FALSE
      /\ Shrinks /\ UNCHANGED <<fsVars, adding, bcids, infos, allexes>>
      /\ pc' \in {"visit", "done", "advance"}
  BY DEF NextEntry, LeaveDirectory, fsVars, dbVars, Shrinks, FoundInv, HereInv, WalkType
<1>2. BitcodeInv'
  BY <1>1, BitcodeSame DEF FoundInv, Shrinks
<1>3. PICK X \in SUBSET Path : CoverInv(X) /\ OnceInv(X)
  BY <1>1 DEF FoundInv, Going
<1>4. FramesDiffer' /\ Pending' = Pending /\ (pc' = "done" => stack' = <<>>)
  <2>1. NextEntry => pc' = "visit"
    BY DEF NextEntry
  <2> QED
    BY <1>3, <2>1, NextEntries, LeaveEntries DEF OnceInv
<1>5. CoverInv(X)' /\ OnceInv(X)'
  BY <1>1, <1>3, <1>4, EntriesKept DEF Grows
<1>6. HereInv'
  BY <1>1, <1>4 DEF HereInv
<1> QED
  BY <1>1, <1>2, <1>5, <1>6 DEF FoundInv

LEMMA FoundUnseen ==
  ASSUME WalkType, FoundInv, Shrinks, UNCHANGED <<pc, stack, noPush, dbVars>>
  PROVE  FoundInv'
<1>1. Left' = Left /\ here' = here
  BY StackSame
<1>2. Grows(infos, infos') /\ Grows(allexes, allexes')
  BY DEF Grows, dbVars
<1>3. \A p : (Settled(p) => Settled(p)') /\ (OpenDir(p)' => OpenDir(p))
  BY <1>2, SettledKept, ViewShrinks
<1>4. HereInv'
  BY <1>1, <1>3 DEF FoundInv, HereInv, Shrinks, dbVars
<1>5. BitcodeInv'
  BY BitcodeSame DEF FoundInv, Shrinks, dbVars
<1>6. CASE Going
  <2>1. PICK X \in SUBSET Path : CoverInv(X) /\ OnceInv(X)
    BY <1>6 DEF FoundInv
  <2>2. CoverInv(X)' /\ OnceInv(X)'
    BY <1>2, <2>1, SameEntry DEF dbVars
  <2> QED
    BY <1>4, <1>5, <2>2 DEF FoundInv, dbVars
<1>7. CASE ~Going
  BY <1>4, <1>5, <1>7 DEF FoundInv, Going, dbVars
<1> QED
  BY <1>6, <1>7

LEMMA FoundNext ==
  ASSUME WalkType, DataInv, FoundInv, [Next]_scanVars
  PROVE  FoundInv'
<1>1. ASSUME NEW p \in Path, Unlink(p) PROVE FoundInv'
  BY <1>1, FoundUnseen DEF Unlink, Shrinks
<1>2. CASE UNCHANGED scanVars
  BY <1>2, FoundUnseen DEF scanVars, Shrinks, dbVars
<1> QED
  BY <1>1, <1>2, FoundStart, FoundVisit, FoundOpen, FoundModule, FoundAllexe, FoundBitcode,
     FoundIncrement, FoundAdvance DEF Next, ScanStep

LEMMA FoundInit ==
  ASSUME Init
  PROVE  FoundInv
<1>1. DOMAIN <<>> = {}
  OBVIOUS
<1> QED
  BY <1>1 DEF Init, FoundInv, HereInv, BitcodeInv, Going

(***************************************************************************)
(* When the scan is done nothing is pending, so the entries it is done     *)
(* with are closed under what is visible.                                  *)
(***************************************************************************)
LEMMA FoundAll ==
  ASSUME FoundInv
  PROVE  AllLoaded
<1> SUFFICES ASSUME pc = "done" PROVE AllLoaded
  BY DEF AllLoaded, AllAllexesLoaded, AllBitcodeLoaded
<1>1. PICK X \in SUBSET Path : CoverInv(X) /\ OnceInv(X)
  BY DEF FoundInv, Going
<1>2. Pending = {}
  <2>1. stack = <<>> /\ DOMAIN <<>> = {}
    BY DEF FoundInv, HereInv
  <2> QED
    BY <2>1 DEF Pending, Left, LeftIn, AtEntry
<1>3. \A p : Visible(p) => p \in X
  BY <1>1, <1>2 DEF Visible, CoverInv, OpenDir
<1>4. \A p : Visible(p) /\ Wanted(p) /\ CanOpen(p) => IsLoaded(p)
  BY <1>1, <1>3 DEF CoverInv, Settled, ToLoad
<1>5. AllAllexesLoaded
  BY <1>1, <1>4 DEF AllAllexesLoaded, Loadable, IsLoaded, AllexeLoaded, OnceInv
<1>6. AllBitcodeLoaded
  BY <1>4 DEF AllBitcodeLoaded, Loadable, IsLoaded, BitcodeLoaded, FoundInv, BitcodeInv
<1> QED
  BY <1>5, <1>6 DEF AllLoaded

(***************************************************************************)
(* A scan that succeeds has loaded all that was there to see: every allexe *)
(* once, with its modules in order, or every bitcode file once, for every  *)
(* tree and whatever was removed from it during the scan.                  *)
(***************************************************************************)
THEOREM EverythingIsLoaded == Spec => []AllLoaded
<1>1. Init => WalkType /\ DataInv /\ FoundInv
  BY WalkTypeInit, DataInit, FoundInit
<1>2. WalkType /\ DataInv /\ FoundInv /\ [Next]_scanVars => (WalkType /\ DataInv /\ FoundInv)'
  BY WalkTypeNext, DataNext, FoundNext
<1>3. FoundInv => AllLoaded
  BY FoundAll
<1> QED
  BY <1>1, <1>2, <1>3, PTL DEF Spec
=============================================================================
