--------------------------- MODULE AllplayProofs ----------------------------
(***************************************************************************)
(* Theorems about a process of allplay, for every session: every tree,     *)
(* every command line, every content of the bitcode files and whatever is  *)
(* removed meanwhile.                                                      *)
(***************************************************************************)
EXTENDS Allplay, ScanProofs, FiniteSetTheorems

-----------------------------------------------------------------------------
(***************************************************************************)
(* What the steps of the commands do to the scan, to the outputs and to    *)
(* the position among the modules.                                         *)
(***************************************************************************)
NoParts == "parts" \notin DOMAIN mem

Resting == UNCHANGED <<scanVars, cmd, next>>

Early == {"scan", "modules", "emit"}

\* The command starts on the database and has nothing to create yet.
Starts ==
  /\ stage = "scan" /\ stage' = "modules"
  /\ cmd.name \in Scans \ (Neo \cup {"cypher"})
  /\ cmd.name = "combine" => mem'.buffer = <<>>
  /\ Resting /\ UNCHANGED ioVars /\ NoParts'

Opens(outs) ==
  /\ stage = "scan" /\ cmd.name \in Neo \cup {"cypher"} /\ Create(outs)
  /\ cmd.name \in Neo => outs = NeoOutputs
  /\ stage' = IF Created(outs) THEN "modules" ELSE "close"
  /\ Resting /\ UNCHANGED kept /\ NoParts'

Reads ==
  /\ stage = "modules" /\ cmd.name \in Scans /\ next <= Len(infos) /\ next' = next + 1
  /\ cmd.name = "combine" =>
       /\ CanLoad(infos[next].file)
       /\ mem'.buffer = mem.buffer \o Content[infos[next].file].parts
  /\ UNCHANGED <<scanVars, cmd, stage, ioVars>> /\ (NoParts => NoParts')

\* neocsv goes from one allexe to the next.
Continues ==
  /\ stage = "modules" /\ cmd.name = "neocsv"
  /\ Resting /\ UNCHANGED <<stage, ioVars>> /\ (NoParts => NoParts')

Sorts ==
  /\ stage = "modules" /\ cmd.name = "functionhashes" /\ stage' = "emit"
  /\ Resting /\ UNCHANGED ioVars /\ NoParts'

\* The last, or only, output is created and written.
Emits(o) ==
  /\ o \in {"o", "csv"} /\ Create(<<o>>) /\ kept' = Created(<<o>>)
  /\ \/ stage = "scan" /\ cmd.name = "graph"
     \/ stage = "emit"
  /\ stage' = "close" /\ Resting /\ (NoParts => NoParts')

Gives ==
  /\ stage \in Early /\ cmd.name # "combine"
  /\ cmd.name \in Neo => stage = "modules"
  /\ cmd.name \in Takers => stage = "modules" /\ next > Len(mem.parts)
  /\ kept' = TRUE /\ stage' = "close"
  /\ Resting /\ UNCHANGED <<disk, open, mem>>

Aborts ==
  /\ stage \in Early /\ cmd.name \in Scans \ {"combine"}
  /\ Abort /\ Resting /\ UNCHANGED kept /\ (NoParts => NoParts')

LEMMA SearchStartStarts ==
  ASSUME SearchStart
  PROVE  Starts
BY Zenon DEF SearchStart, Starts, Loaded, Neo, Scans, Searches, NoParts, Resting

LEMMA HashStartStarts ==
  ASSUME HashStart
  PROVE  Starts
BY Zenon DEF HashStart, Starts, Loaded, Neo, Scans, NoParts, Resting

LEMMA CombineStartStarts ==
  ASSUME CombineStart
  PROVE  Starts
BY Zenon DEF CombineStart, Starts, Loaded, Neo, Scans, NoParts, Resting

LEMMA NeoOpens ==
  ASSUME NeoOpen
  PROVE  Opens(NeoOutputs)
BY Zenon DEF NeoOpen, Opens, Loaded, Neo, Scans, NoParts, Resting

LEMMA CypherOpens ==
  ASSUME CypherOpen
  PROVE  Opens(<<"o">>)
BY Zenon DEF CypherOpen, Opens, Loaded, Neo, Scans, NoParts, Resting

LEMMA NeoModuleReads ==
  ASSUME NeoModule
  PROVE  Reads
BY Zenon DEF NeoModule, Reads, ReadsModule, ReadsModules, Neo, Scans, NoParts

LEMMA AsmModuleReads ==
  ASSUME AsmModule
  PROVE  Reads
BY Zenon DEF AsmModule, Reads, ReadsModule, ReadsModules, Neo, Scans, NoParts

LEMMA SearchModuleReads ==
  ASSUME SearchModule
  PROVE  Reads
BY Zenon DEF SearchModule, Reads, ReadsModule, ReadsModules, Neo, Scans, NoParts

LEMMA HashModuleReads ==
  ASSUME HashModule
  PROVE  Reads
BY Zenon DEF HashModule, Reads, ReadsModule, ReadsModules, Neo, Scans, NoParts

LEMMA CypherModuleReads ==
  ASSUME CypherModule
  PROVE  Reads
BY Zenon DEF CypherModule, Reads, ReadsModule, ReadsModules, Neo, Scans, NoParts

LEMMA CombineModuleReads ==
  ASSUME CombineModule
  PROVE  Reads
BY Zenon DEF CombineModule, Reads, ReadsModule, ReadsModules, Neo, Scans, NoParts

LEMMA HashSorts ==
  ASSUME HashSort
  PROVE  Sorts
BY Zenon DEF HashSort, Sorts, ModulesDone, NoParts, Resting

LEMMA GraphEmits ==
  ASSUME GraphCommand
  PROVE  Emits("o") \/ Aborts
BY Zenon DEF GraphCommand, EmitGraph, Emits, Aborts, Loaded, Scans, NoParts, Resting, Early

IsAtEmit == stage = "emit" => cmd.name = "functionhashes"

LEMMA HashEmitsGraph ==
  ASSUME HashEmitGraph, IsAtEmit
  PROVE  Emits("o") \/ Aborts
BY Zenon DEF HashEmitGraph, EmitGraph, Emits, Aborts, Scans, NoParts, Resting, Early, IsAtEmit

LEMMA HashEmitsCSV ==
  ASSUME HashEmitCSV
  PROVE  Emits("csv")
BY Zenon DEF HashEmitCSV, Emits, NoParts, Resting

LEMMA NeoAllexeContinues ==
  ASSUME NeoAllexe
  PROVE  Continues
BY Zenon DEF NeoAllexe, Continues, ModulesDone, NoParts, Resting

LEMMA NeoFinishGives ==
  ASSUME NeoFinish
  PROVE  Gives
BY Zenon DEF NeoFinish, Gives, Succeed, ModulesDone, Neo, Takers, Early, Resting

LEMMA CypherFinishGives ==
  ASSUME CypherFinish
  PROVE  Gives
BY Zenon DEF CypherFinish, Gives, Succeed, ModulesDone, Neo, Takers, Early, Resting

LEMMA AsmReportGives ==
  ASSUME AsmReport
  PROVE  Gives
BY Zenon DEF AsmReport, Gives, Succeed, ModulesDone, Neo, Takers, Early, Resting

LEMMA UsesReportGives ==
  ASSUME UsesReport
  PROVE  Gives
BY Zenon DEF UsesReport, Gives, Succeed, ModulesDone, Neo, Takers, Early, Resting

LEMMA TomlReportGives ==
  ASSUME TomlReport
  PROVE  Gives
BY Zenon DEF TomlReport, Gives, Succeed, Loaded, Neo, Takers, Early, Resting

LEMMA TakenApartGives ==
  ASSUME TakenApart
  PROVE  Gives
BY Zenon DEF TakenApart, Gives, Succeed, Neo, Takers, Early, Resting

LEMMA HashGivesNothing ==
  ASSUME HashEmitNothing, IsAtEmit
  PROVE  Gives
BY Zenon DEF HashEmitNothing, Gives, Succeed, Neo, Takers, Early, Resting, IsAtEmit

LEMMA NeoAbortsEarly ==
  ASSUME NeoAborts
  PROVE  Aborts
BY Zenon DEF NeoAborts, Aborts, ReadsModule, ReadsModules, Scans, Early, Resting, NoParts

LEMMA SearchAbortsEarly ==
  ASSUME SearchAborts
  PROVE  Aborts
BY Zenon DEF SearchAborts, Aborts, ReadsModule, ReadsModules, Scans, Early, Resting, NoParts

-----------------------------------------------------------------------------
(***************************************************************************)
(* The scan goes on as by itself, but that files vanish; the commands only *)
(* read what it has found.                                                 *)
(***************************************************************************)
OfSession ==
  /\ Init
  /\ tree \in Trees /\ asserts \in Builds /\ cmd \in CommandLine

LEMMA StartOfSession ==
  ASSUME CommandInit
  PROVE  OfSession
<1>1. PICK s \in Sessions : tree = s.tree /\ asserts = s.asserts /\ cmd = s.cmd
  BY DEF CommandInit
<1> QED
  BY <1>1, CommandAssumption DEF CommandInit, OfSession

Scanning == [Next]_scanVars \/ \E f \in File : Vanish(f)

LEMMA CommandSteps ==
  ASSUME CommandStep
  PROVE  (ScanStep /\ UNCHANGED commandVars) \/ UNCHANGED scanVars
BY Zenon DEF CommandStep, LoadFails, ModuleFails, CloseOutput, DiskFull, End

LEMMA ExportSteps ==
  ASSUME ExportStep
  PROVE  Opens(NeoOutputs) \/ Opens(<<"o">>) \/ Aborts \/ Reads \/ Continues \/ Gives
BY NeoOpens, NeoAbortsEarly, NeoModuleReads, NeoAllexeContinues, NeoFinishGives, CypherOpens, CypherModuleReads,
   CypherFinishGives DEF ExportStep

LEMMA ReportSteps ==
  ASSUME ReportStep
  PROVE  Starts \/ Aborts \/ Reads \/ Gives
BY SearchStartStarts, AsmModuleReads, SearchAbortsEarly, SearchModuleReads, AsmReportGives,
   UsesReportGives, TomlReportGives DEF ReportStep

LEMMA GraphSteps ==
  ASSUME GraphStep, IsAtEmit
  PROVE  Starts \/ Reads \/ Sorts \/ Emits("o") \/ Emits("csv") \/ Aborts \/ Gives
BY GraphEmits, HashStartStarts, HashModuleReads, HashSorts, HashEmitsGraph, HashEmitsCSV,
   HashGivesNothing DEF GraphStep

LEMMA BundlesRest ==
  ASSUME BundleStep
  PROVE  UNCHANGED scanVars
<1>1. CASE CombineStart \/ CombineModule \/ TakenApart
  BY <1>1, CombineStartStarts, CombineModuleReads, TakenApartGives DEF Starts, Reads, Gives, Resting
<1> QED
  BY <1>1, Zenon DEF BundleStep, CombineWrite, TakeApart, UncombineOutput, UncombinePart,
                     DecomposePart, PrintSource

LEMMA ScansOnly ==
  ASSUME [AllplayNext]_vars, IsAtEmit
  PROVE  Scanning
<1> USE DEF Scanning
<1>1. CASE CommandStep
  BY <1>1, CommandSteps DEF Next
<1>2. CASE ExportStep \/ ReportStep \/ GraphStep
  BY <1>2, ExportSteps, ReportSteps, GraphSteps DEF Starts, Opens, Reads, Continues, Sorts, Emits, Gives,
     Aborts, Resting
<1>3. CASE BundleStep
  BY <1>3, BundlesRest
<1>4. CASE Others
  BY <1>4 DEF Others, Next
<1>5. CASE UNCHANGED vars
  BY <1>5 DEF vars
<1> QED
  BY <1>1, <1>2, <1>3, <1>4, <1>5 DEF AllplayNext, AllplayStep

ScanInv == WalkType /\ DataInv /\ QuietInv /\ FoundInv

LEMMA ScanInvNext ==
  ASSUME ScanInv, Scanning
  PROVE  ScanInv'
<1>1. CASE [Next]_scanVars
  BY <1>1, WalkTypeNext, DataNext, QuietNext, FoundNext DEF ScanInv
<1>2. ASSUME NEW f \in File, Vanish(f) PROVE ScanInv'
  <2>1. UNCHANGED <<tree, asserts, mode, pc, stack, noPush, adding, bcids, infos, allexes>>
    BY <1>2 DEF Vanish, dbVars
  <2>2. removals' = removals + 1 /\ gone \subseteq gone'
    BY <1>2 DEF Vanish
  <2>3. WalkType'
    BY <2>1, <2>2 DEF ScanInv, WalkType
  <2>4. DataInv'
    BY <2>1, DataSame DEF ScanInv, DataInv, NothingLeftOver
  <2>5. QuietInv'
    BY <2>2 DEF ScanInv, WalkType, QuietInv
  <2>6. FoundInv'
    BY <2>1, <2>2, FoundUnseen DEF ScanInv, Shrinks, dbVars
  <2> QED
    BY <2>3, <2>4, <2>5, <2>6 DEF ScanInv
<1> QED
  BY <1>1, <1>2 DEF Scanning

LEMMA ScanInvInit ==
  ASSUME Init
  PROVE  ScanInv
<1>1. QuietInv
  <2>1. \A i \in 1 .. Len(<<>>) : FALSE
    BY EmptySeq
  <2> QED
    BY <2>1 DEF Init, QuietInv, FramesVisible
<1> QED
  BY <1>1, WalkTypeInit, DataInit, FoundInit DEF ScanInv

LEMMA AtEmitNext ==
  ASSUME IsAtEmit, [AllplayNext]_vars
  PROVE  IsAtEmit'
<1> USE DEF IsAtEmit
<1>1. CASE CommandStep
  BY <1>1, Zenon DEF CommandStep, LoadFails, ModuleFails, CloseOutput, DiskFull, End, commandVars
<1>2. CASE ExportStep \/ ReportStep \/ GraphStep
  BY <1>2, ExportSteps, ReportSteps, GraphSteps DEF Starts, Opens, Reads, Continues, Sorts, Emits, Gives,
     Aborts, Resting, Abort
<1>3. CASE BundleStep
  <2>1. CASE CombineStart \/ CombineModule \/ TakenApart
    BY <2>1, CombineStartStarts, CombineModuleReads, TakenApartGives DEF Starts, Reads, Gives, Resting
  <2> QED
    BY <1>3, <2>1, Zenon DEF BundleStep, CombineWrite, TakeApart, UncombineOutput, UncombinePart,
                     DecomposePart, PrintSource, WritePart, Fail, Abort, HasPart
<1>4. CASE Others \/ UNCHANGED vars
  BY <1>4 DEF Others, commandVars, vars
<1> QED
  BY <1>1, <1>2, <1>3, <1>4 DEF AllplayNext, AllplayStep

(***************************************************************************)
(* Whatever the commands do, and whatever is removed while they do it, the *)
(* database is consistent, holds everything it can, and its loading fails  *)
(* only for a cause.                                                       *)
(***************************************************************************)
THEOREM ScansAreSound ==
  AllplaySpec => [](AllLoaded /\ DatabaseConsistent /\ FailsForACause)
<1>1. CommandInit => ScanInv /\ IsAtEmit
  BY ScanInvInit DEF CommandInit, IsAtEmit
<1>2. ScanInv /\ IsAtEmit /\ [AllplayNext]_vars => (ScanInv /\ IsAtEmit)'
  BY ScansOnly, ScanInvNext, AtEmitNext
<1>3. ScanInv => AllLoaded /\ DatabaseConsistent /\ FailsForACause
  BY FoundAll DEF ScanInv, DataInv, DatabaseConsistent, Values, InAllexes, QuietInv,
                  FailsForACause, Cause
<1> QED
  BY <1>1, <1>2, <1>3, PTL DEF AllplaySpec

-----------------------------------------------------------------------------
(***************************************************************************)
(* The outputs. Those that are open are the ones the disk shows open; only *)
(* commands that keep() their outputs have any, and only from their        *)
(* creation to the end.                                                    *)
(***************************************************************************)
Stages == {"scan", "modules", "emit", "close", "success", "error", "aborted", "fatal"}

Differ(s) == \A i, j \in DOMAIN s : s[i] = s[j] => i = j

OpenOnDisk == \A o \in Output : disk[o] = "open" <=> o \notin cmd.unwritable /\ o \in Values(open)

OutputType ==
  /\ "name" \in DOMAIN cmd /\ stage \in Stages /\ kept \in BOOLEAN
  /\ disk \in [Output -> {"old", "open", "complete", "partial", "absent"}]
  /\ open \in Seq(Output) /\ Differ(open)
  /\ OpenOnDisk
  /\ open # <<>> => /\ stage \in {"modules", "close"} /\ cmd.name \in KeptOutputs
                    /\ stage = "modules" => cmd.name \in Neo \cup {"cypher"}
  /\ IsAtEmit

LEMMA OutputsNamed ==
  /\ NeoOutputs \in Seq(Output) /\ Differ(NeoOutputs)
  /\ \A o \in {"o", "csv"} : <<o>> \in Seq(Output) /\ Differ(<<o>>)
<1>1. {"modules", "funcs", "allexes", "contains", "globals", "modglobals", "aliases", "o", "csv"}
        \subseteq Output
  BY CommandAssumption
<1>2. NeoOutputs \in Seq(Output) /\ Differ(NeoOutputs)
  BY <1>1 DEF NeoOutputs, Differ
<1>3. \A o \in {"o", "csv"} : <<o>> \in Seq(Output) /\ Differ(<<o>>)
  BY <1>1 DEF Differ
<1> QED
  BY <1>2, <1>3

LEMMA CreateOpens ==
  ASSUME OutputType, NEW outs \in Seq(Output), Differ(outs), Create(outs), open = <<>>,
         UNCHANGED cmd
  PROVE  /\ disk' \in [Output -> {"old", "open", "complete", "partial", "absent"}]
         /\ open' \in Seq(Output) /\ Differ(open') /\ OpenOnDisk'
         /\ \A o \in Output : disk'[o] = "open" \/ disk'[o] = disk[o]
         /\ Created(outs) => \A i \in DOMAIN outs : disk'[outs[i]] = "open"
<1>1. Values(open) = {} /\ \A o \in Output : disk[o] # "open"
  <2>1. DOMAIN <<>> = {}
    OBVIOUS
  <2> QED
    BY <2>1 DEF OutputType, OpenOnDisk, Values
<1>2. /\ open' = outs
      /\ \A o \in Output : disk'[o] = IF o \notin cmd.unwritable /\ o \in Values(outs)
                                      THEN "open" ELSE disk[o]
  BY DEF Create, Values
<1>3. disk' \in [Output -> {"old", "open", "complete", "partial", "absent"}]
  BY DEF Create, OutputType
<1>4. \A i \in DOMAIN outs : outs[i] \in Output /\ outs[i] \in Values(outs)
  BY LenProperties, ElementOfSeq DEF Values
<1> QED
  BY <1>1, <1>2, <1>3, <1>4 DEF OpenOnDisk, Created

LEMMA AbortDiscards ==
  ASSUME OutputType, disk' = Discarded, open' = <<>>, UNCHANGED cmd
  PROVE  /\ disk' \in [Output -> {"old", "open", "complete", "partial", "absent"}]
         /\ open' \in Seq(Output) /\ Differ(open') /\ OpenOnDisk'
         /\ \A o \in Output : disk'[o] # "open" /\ (disk'[o] = "absent" \/ disk'[o] = disk[o])
         /\ \A o \in Output : disk[o] # "open" => disk'[o] = disk[o]
<1>1. DOMAIN <<>> = {} /\ <<>> \in Seq(Output)
  BY EmptySeq
<1>2. \A o \in Output : disk'[o] = IF disk[o] = "open" THEN "absent" ELSE disk[o]
  BY DEF Discarded
<1>3. disk' \in [Output -> {"old", "open", "complete", "partial", "absent"}]
  BY DEF Discarded, OutputType
<1>4. Values(open') = {} /\ Differ(open')
  BY <1>1 DEF Values, Differ
<1> QED
  BY <1>1, <1>2, <1>3, <1>4 DEF OpenOnDisk

LEMMA CloseCloses ==
  ASSUME OutputType, CloseOutput
  PROVE  /\ disk' \in [Output -> {"old", "open", "complete", "partial", "absent"}]
         /\ open' \in Seq(Output) /\ Differ(open') /\ OpenOnDisk'
         /\ \A o \in Output : \/ disk'[o] = disk[o]
                              \/ disk'[o] = IF kept THEN "complete" ELSE "absent"
<1>1. /\ open \in Seq(Output) /\ open # <<>> /\ open' = Pop(open) /\ UNCHANGED <<cmd, kept>>
      /\ AtClose(Top(open), IF kept THEN "complete" ELSE "absent")
  BY DEF CloseOutput, OutputType
<1>2. /\ Len(open) \in Nat \ {0} /\ Top(open) \in Output /\ open' \in Seq(Output)
      /\ Len(open') = Len(open) - 1
      /\ \A i \in 1 .. Len(open) - 1 : open'[i] = open[i]
  BY <1>1, PopFacts
<1>3. /\ DOMAIN open = 1 .. Len(open) /\ DOMAIN open' = 1 .. Len(open) - 1
      /\ 1 .. Len(open) = 1 .. Len(open) - 1 \cup {Len(open)} /\ Len(open) \notin 1 .. Len(open) - 1
  BY <1>1, <1>2, LenProperties
<1>4. Differ(open')
  BY <1>2, <1>3 DEF OutputType, Differ
<1>5. Values(open') = Values(open) \ {Top(open)}
  <2>1. \A i \in 1 .. Len(open) - 1 : open[i] # Top(open)
    BY <1>3 DEF OutputType, Differ, Top
  <2> QED
    BY <1>2, <1>3, <2>1 DEF Values, Top
<1>6. \A o \in Output : disk'[o] = IF o = Top(open) /\ o \notin cmd.unwritable
                                   THEN IF kept THEN "complete" ELSE "absent"
                                   ELSE disk[o]
  BY <1>1, <1>2 DEF AtClose, OutputType
<1>7. disk' \in [Output -> {"old", "open", "complete", "partial", "absent"}]
  BY <1>1, <1>2 DEF AtClose, OutputType
<1>8. OpenOnDisk'
  BY <1>1, <1>5, <1>6 DEF OpenOnDisk, OutputType
<1> QED
  BY <1>2, <1>4, <1>6, <1>7, <1>8

(***************************************************************************)
(* What may have become of an output, by how far the process is.           *)
(***************************************************************************)
KeptInv ==
  cmd.name \in KeptOutputs =>
    /\ stage \in Early => ~kept
    /\ stage = "success" => kept
    /\ stage = "error" => ~kept
    /\ \A o \in Output :
         /\ disk[o] # "partial"
         /\ disk[o] = "complete" => (stage \in {"close", "success"} /\ kept) \/ stage = "fatal"
         /\ disk[o] = "absent" =>
              (stage \in {"close", "error"} /\ ~kept) \/ stage \in {"aborted", "fatal"}

NeoInv ==
  cmd.name \in Neo /\ (stage = "modules" \/ (stage \in {"close", "success"} /\ kept)) =>
    \A i \in DOMAIN NeoOutputs : disk[NeoOutputs[i]] \in {"open", "complete"}

CombineInv ==
  cmd.name = "combine" =>
    /\ stage \in Early => ~kept
    /\ stage \in Early \cup {"error", "aborted"} \/ (stage = "close" /\ ~kept) => disk["o"] = "old"

OutputInv == OutputType /\ KeptInv /\ NeoInv /\ CombineInv

Names == /\ \A i \in DOMAIN NeoOutputs : NeoOutputs[i] \in Output
         /\ "o" \in Output

LEMMA NamesAreOutputs == Names
<1>1. \A i \in DOMAIN NeoOutputs : NeoOutputs[i] \in Output
  BY OutputsNamed, LenProperties, ElementOfSeq
<1> QED
  BY <1>1, CommandAssumption DEF Names

LEMMA OutputInit ==
  ASSUME CommandInit
  PROVE  OutputInv
<1>1. /\ "name" \in DOMAIN cmd /\ stage = "scan" /\ kept = FALSE /\ open = <<>>
      /\ disk = [o \in Output |-> "old"]
  BY StartOfSession DEF CommandInit, OfSession, CommandLine
<1>2. DOMAIN <<>> = {} /\ <<>> \in Seq(Output)
  BY EmptySeq
<1>3. OutputType
  BY <1>1, <1>2 DEF OutputType, Stages, Differ, OpenOnDisk, Values, IsAtEmit
<1> QED
  BY <1>1, <1>3, NamesAreOutputs DEF OutputInv, KeptInv, NeoInv, CombineInv, Names, Early

LEMMA SameOutputs ==
  ASSUME OutputType, UNCHANGED <<cmd, disk, open>>
  PROVE  OpenOnDisk' /\ Differ(open')
BY DEF OutputType, OpenOnDisk, Values

LEMMA OutputIdle ==
  ASSUME OutputInv, UNCHANGED <<cmd, stage, ioVars>>
  PROVE  OutputInv'
<1>1. UNCHANGED <<cmd, stage, disk, open, kept>>
  BY DEF ioVars
<1>2. OutputType'
  BY <1>1, SameOutputs DEF OutputInv, OutputType, IsAtEmit
<1>3. NeoOutputs' = NeoOutputs
  BY <1>1 DEF NeoOutputs
<1> QED
  BY <1>1, <1>2, <1>3 DEF OutputInv, KeptInv, NeoInv, CombineInv

LEMMA OutputStarts ==
  ASSUME OutputInv, Starts \/ Sorts
  PROVE  OutputInv'
<1>1. /\ UNCHANGED <<cmd, disk, open, kept>> /\ stage \in Early /\ stage' \in Early
      /\ cmd.name \notin Neo \cup {"cypher"}
      /\ stage' = "emit" => cmd.name = "functionhashes"
  BY DEF Starts, Sorts, Resting, ioVars, Early, Neo
<1>2. open = <<>>
  BY <1>1 DEF OutputInv, OutputType, Early
<1>3. OutputType'
  BY <1>1, <1>2, SameOutputs DEF OutputInv, OutputType, IsAtEmit, Stages, Early
<1> QED
  BY <1>1, <1>3 DEF OutputInv, KeptInv, NeoInv, CombineInv, Early

LEMMA OutputOpens ==
  ASSUME OutputInv, NEW outs \in Seq(Output), Differ(outs), Opens(outs)
  PROVE  OutputInv'
<1>1. /\ UNCHANGED <<cmd, kept>> /\ stage = "scan" /\ Create(outs)
      /\ stage' = IF Created(outs) THEN "modules" ELSE "close"
      /\ cmd.name \in Neo => outs = NeoOutputs
      /\ cmd.name \in Neo \cup {"cypher"} /\ cmd.name \in KeptOutputs /\ cmd.name # "combine"
  BY DEF Opens, Resting, KeptOutputs, Neo
<1>2. open = <<>> /\ kept = FALSE
  BY <1>1 DEF OutputInv, OutputType, KeptInv, Early
<1>3. /\ disk' \in [Output -> {"old", "open", "complete", "partial", "absent"}]
      /\ open' \in Seq(Output) /\ Differ(open') /\ OpenOnDisk'
      /\ \A o \in Output : disk'[o] = "open" \/ disk'[o] = disk[o]
      /\ Created(outs) => \A i \in DOMAIN outs : disk'[outs[i]] = "open"
  BY <1>1, <1>2, CreateOpens DEF OutputInv
<1>4. OutputType'
  BY <1>1, <1>2, <1>3 DEF OutputInv, OutputType, Stages, IsAtEmit
<1>5. KeptInv'
  BY <1>1, <1>2, <1>3 DEF OutputInv, KeptInv, Early
<1>6. NeoInv'
  BY <1>1, <1>2, <1>3 DEF NeoInv, NeoOutputs
<1> QED
  BY <1>1, <1>4, <1>5, <1>6 DEF OutputInv, CombineInv

LEMMA OutputEmits ==
  ASSUME OutputInv, NEW o \in {"o", "csv"}, Emits(o)
  PROVE  OutputInv'
<1>1. /\ UNCHANGED cmd /\ stage \in Early /\ Create(<<o>>)
      /\ stage' = "close" /\ kept' = Created(<<o>>)
      /\ cmd.name \in KeptOutputs /\ cmd.name \notin Neo /\ cmd.name # "combine"
      /\ stage # "modules"
  BY DEF Emits, Resting, KeptOutputs, Neo, OutputInv, OutputType, IsAtEmit, Early
<1>2. open = <<>>
  BY <1>1 DEF OutputInv, OutputType, Early
<1>3. /\ disk' \in [Output -> {"old", "open", "complete", "partial", "absent"}]
      /\ open' \in Seq(Output) /\ Differ(open') /\ OpenOnDisk'
      /\ \A q \in Output : disk'[q] = "open" \/ disk'[q] = disk[q]
  BY <1>1, <1>2, CreateOpens, OutputsNamed DEF OutputInv
<1>4. kept' \in BOOLEAN
  BY <1>1 DEF Created
<1>5. OutputType'
  BY <1>1, <1>2, <1>3, <1>4 DEF OutputInv, OutputType, Stages, IsAtEmit
<1>6. KeptInv'
  BY <1>1, <1>3 DEF OutputInv, KeptInv, Early
<1> QED
  BY <1>1, <1>5, <1>6 DEF OutputInv, NeoInv, CombineInv

LEMMA OutputGives ==
  ASSUME OutputInv, Gives
  PROVE  OutputInv'
<1>1. /\ UNCHANGED <<cmd, disk, open>> /\ stage \in Early /\ stage' = "close" /\ kept' = TRUE
      /\ cmd.name # "combine" /\ (cmd.name \in Neo => stage = "modules")
  BY DEF Gives, Resting
<1>2. OutputType'
  BY <1>1, SameOutputs DEF OutputInv, OutputType, Stages, IsAtEmit
<1>3. KeptInv'
  BY <1>1 DEF OutputInv, KeptInv, Early
<1>4. NeoInv'
  BY <1>1 DEF OutputInv, NeoInv, NeoOutputs
<1> QED
  BY <1>1, <1>2, <1>3, <1>4 DEF OutputInv, CombineInv

LEMMA OutputAborts ==
  ASSUME OutputInv, Aborts
  PROVE  OutputInv'
<1>1. /\ UNCHANGED <<cmd, kept>> /\ stage \in Early /\ stage' = "aborted" /\ cmd.name # "combine"
      /\ disk' = Discarded /\ open' = <<>>
  BY DEF Aborts, Abort, Resting
<1>2. /\ disk' \in [Output -> {"old", "open", "complete", "partial", "absent"}]
      /\ open' \in Seq(Output) /\ Differ(open') /\ OpenOnDisk'
      /\ \A o \in Output : disk'[o] # "open" /\ (disk'[o] = "absent" \/ disk'[o] = disk[o])
  BY <1>1, AbortDiscards DEF OutputInv
<1>3. OutputType'
  BY <1>1, <1>2 DEF OutputInv, OutputType, Stages, IsAtEmit
<1>4. KeptInv'
  BY <1>1, <1>2 DEF OutputInv, KeptInv, Early
<1> QED
  BY <1>1, <1>3, <1>4 DEF OutputInv, NeoInv, CombineInv

LEMMA OutputFails ==
  ASSUME OutputInv, LoadFails \/ ModuleFails
  PROVE  OutputInv'
<1>1. /\ UNCHANGED <<cmd, disk, open, kept>>
      /\ \/ stage = "scan" /\ stage' \in {"error", "aborted"}
         \/ stage = "modules" /\ stage' = "close"
  BY DEF LoadFails, ModuleFails, ReadsModules, ioVars
<1>2. stage = "scan" => open = <<>>
  BY DEF OutputInv, OutputType
<1>3. OutputType'
  BY <1>1, <1>2, SameOutputs DEF OutputInv, OutputType, Stages, IsAtEmit
<1>4. KeptInv'
  BY <1>1 DEF OutputInv, KeptInv, Early
<1>5. NeoInv'
  BY <1>1 DEF OutputInv, KeptInv, NeoInv, NeoOutputs, KeptOutputs, Early
<1> QED
  BY <1>1, <1>3, <1>4, <1>5 DEF OutputInv, CombineInv, Early

LEMMA OutputCloses ==
  ASSUME OutputInv, CloseOutput
  PROVE  OutputInv'
<1>1. /\ UNCHANGED <<cmd, stage, kept>> /\ stage = "close" /\ open # <<>>
      /\ cmd.name \in KeptOutputs /\ cmd.name # "combine"
  BY DEF CloseOutput, OutputInv, OutputType, KeptOutputs, Neo
<1>2. /\ disk' \in [Output -> {"old", "open", "complete", "partial", "absent"}]
      /\ open' \in Seq(Output) /\ Differ(open') /\ OpenOnDisk'
      /\ \A o \in Output : \/ disk'[o] = disk[o]
                           \/ disk'[o] = IF kept THEN "complete" ELSE "absent"
  BY CloseCloses DEF OutputInv
<1>3. OutputType'
  BY <1>1, <1>2 DEF OutputInv, OutputType, IsAtEmit
<1>4. KeptInv'
  BY <1>1, <1>2 DEF OutputInv, KeptInv, Early
<1>5. NeoInv'
  BY <1>1, <1>2, NamesAreOutputs DEF OutputInv, NeoInv, NeoOutputs, Names
<1> QED
  BY <1>1, <1>3, <1>4, <1>5 DEF OutputInv, CombineInv

LEMMA OutputFull ==
  ASSUME OutputInv, DiskFull
  PROVE  OutputInv'
<1>1. /\ UNCHANGED <<cmd, kept>> /\ stage' = "fatal" /\ disk' = Discarded /\ open' = <<>>
      /\ stage = "close"
  BY DEF DiskFull
<1>2. /\ disk' \in [Output -> {"old", "open", "complete", "partial", "absent"}]
      /\ open' \in Seq(Output) /\ Differ(open') /\ OpenOnDisk'
      /\ \A o \in Output : disk'[o] # "open" /\ (disk'[o] = "absent" \/ disk'[o] = disk[o])
  BY <1>1, AbortDiscards DEF OutputInv
<1>3. OutputType'
  BY <1>1, <1>2 DEF OutputInv, OutputType, Stages, IsAtEmit
<1>4. KeptInv'
  BY <1>1, <1>2 DEF OutputInv, KeptInv, Early
<1> QED
  BY <1>1, <1>3, <1>4 DEF OutputInv, NeoInv, CombineInv, Early

LEMMA OutputEnd ==
  ASSUME OutputInv, End
  PROVE  OutputInv'
<1>1. /\ UNCHANGED <<cmd, disk, open, kept>> /\ stage = "close" /\ open = <<>>
      /\ stage' = IF kept THEN "success" ELSE "error"
  BY DEF End, ioVars
<1>2. OutputType'
  BY <1>1, SameOutputs DEF OutputInv, OutputType, Stages, IsAtEmit
<1>3. KeptInv'
  BY <1>1 DEF OutputInv, KeptInv, Early
<1>4. NeoInv'
  BY <1>1 DEF OutputInv, NeoInv, NeoOutputs
<1> QED
  BY <1>1, <1>2, <1>3, <1>4 DEF OutputInv, CombineInv, Early

(***************************************************************************)
(* The commands of Bundles. They keep no tool_output_file, and what they   *)
(* write themselves is never open between two steps.                       *)
(***************************************************************************)
LEMMA OutputCombine ==
  ASSUME OutputInv, CombineWrite
  PROVE  OutputInv'
<1>1. /\ UNCHANGED <<cmd, open>> /\ stage = "modules" /\ cmd.name = "combine"
      /\ \/ stage' = "close" /\ UNCHANGED <<disk, kept>>
         \/ stage' = "close" /\ kept' = TRUE /\ disk' = [disk EXCEPT !["o"] = "complete"]
         \/ stage' = "fatal" /\ UNCHANGED kept /\ disk' = [disk EXCEPT !["o"] = "partial"]
  BY DEF CombineWrite, ModulesDone, Fail
<1>2. open = <<>> /\ DOMAIN <<>> = {}
  BY <1>1 DEF OutputInv, OutputType, KeptOutputs, Neo
<1>3. \A o \in Output : disk[o] # "open"
  BY <1>2 DEF OutputInv, OutputType, OpenOnDisk, Values
<1>4. /\ disk' \in [Output -> {"old", "open", "complete", "partial", "absent"}]
      /\ \A o \in Output : disk'[o] # "open"
  BY <1>1, <1>3 DEF OutputInv, OutputType
<1>5. OutputType'
  BY <1>1, <1>2, <1>4 DEF OutputInv, OutputType, Stages, IsAtEmit, OpenOnDisk, Values
<1> QED
  BY <1>1, <1>5 DEF OutputInv, KeptInv, NeoInv, CombineInv, Early, KeptOutputs, Neo

Bundlers == Takers \cup {"printsource"}

Bundles ==
  /\ stage' = stage \/ stage' \in {"modules", "close", "fatal", "aborted"}
  /\ kept' = kept \/ kept' = TRUE \/ kept' = FALSE
  /\ open' = open \/ open' = <<>>
  /\ \/ disk' = disk \/ disk' = Discarded
     \/ \E o : \E x \in {"complete", "partial", "absent"} : disk' = [disk EXCEPT ![o] = x]

LEMMA OutputBundle ==
  ASSUME OutputInv, TakeApart \/ UncombineOutput \/ UncombinePart \/ DecomposePart \/ PrintSource
  PROVE  OutputInv'
<1>1. /\ Bundles
      /\ \/ cmd.name \in Bundlers /\ cmd' = cmd
         \/ cmd.name = "combine" /\ stage = "success"
            /\ cmd' = [cmd EXCEPT !.name = "uncombine", !.arg = "o"]
  <2>1. CASE TakeApart
    BY <2>1, Zenon DEF TakeApart, Fail, Takers, Bundles, Bundlers
  <2>2. CASE UncombineOutput
    BY <2>2, Zenon DEF UncombineOutput, Succeeded, Bundles
  <2>3. CASE UncombinePart
    BY <2>3, Zenon DEF UncombinePart, HasPart, WritePart, Fail, Takers, Bundles, Bundlers
  <2>4. CASE DecomposePart
    BY <2>4, Zenon DEF DecomposePart, HasPart, WritePart, Abort, Takers, Bundles, Bundlers
  <2>5. CASE PrintSource
    BY <2>5, Zenon DEF PrintSource, Abort, Fail, Bundles, Bundlers
  <2> QED
    BY <2>1, <2>2, <2>3, <2>4, <2>5
<1>2. open = <<>> /\ DOMAIN <<>> = {}
  BY <1>1 DEF OutputInv, OutputType, KeptOutputs, Neo, Takers, Bundlers
<1>3. \A o \in Output : disk[o] # "open"
  BY <1>2 DEF OutputInv, OutputType, OpenOnDisk, Values
<1>4. /\ disk' \in [Output -> {"old", "open", "complete", "partial", "absent"}]
      /\ \A o \in Output : disk'[o] # "open"
  BY <1>1, <1>3 DEF OutputInv, OutputType, Discarded, Bundles
<1>5. "name" \in DOMAIN cmd' /\ cmd'.name \in Bundlers
  BY <1>1 DEF OutputInv, OutputType, Takers, Bundlers
<1>6. OutputType'
  BY <1>1, <1>2, <1>4, <1>5 DEF OutputInv, OutputType, Stages, IsAtEmit, OpenOnDisk, Values, Bundles, Bundlers
<1> QED
  BY <1>5, <1>6 DEF OutputInv, KeptInv, NeoInv, CombineInv, KeptOutputs, Neo, Takers, Bundlers

LEMMA OutputNext ==
  ASSUME OutputInv, [AllplayNext]_vars
  PROVE  OutputInv'
<1>1. CASE CommandStep
  <2>1. CASE ScanStep /\ UNCHANGED commandVars
    BY <2>1, OutputIdle DEF commandVars, ioVars
  <2> QED
    BY <1>1, <2>1, OutputFails, OutputCloses, OutputFull, OutputEnd DEF CommandStep
<1>2. ASSUME Reads \/ Continues PROVE OutputInv'
  BY <1>2, OutputIdle DEF Reads, Continues, Resting
<1>3. CASE ExportStep \/ ReportStep \/ GraphStep
  <2>1. \/ Opens(NeoOutputs) \/ Opens(<<"o">>) \/ Starts \/ Sorts \/ Reads \/ Gives \/ Aborts
        \/ Emits("o") \/ Emits("csv") \/ Continues
    BY <1>3, ExportSteps, ReportSteps, GraphSteps DEF OutputInv, OutputType
  <2> QED
    BY <1>2, <2>1, OutputOpens, OutputStarts, OutputGives, OutputAborts, OutputEmits, OutputsNamed
<1>4. CASE BundleStep
  BY <1>2, <1>4, CombineStartStarts, OutputStarts, CombineModuleReads, OutputCombine,
     TakenApartGives, OutputGives, OutputBundle DEF BundleStep
<1>5. CASE Others \/ UNCHANGED vars
  BY <1>5, OutputIdle DEF Others, vars, commandVars, ioVars
<1> QED
  BY <1>1, <1>3, <1>4, <1>5 DEF AllplayNext, AllplayStep

(***************************************************************************)
(* Outputs are all or nothing, whichever of them cannot be created,        *)
(* whenever the disk is full, a module cannot be read or an assertion      *)
(* fails.                                                                  *)
(***************************************************************************)
THEOREM OutputsAllOrNothing == AllplaySpec => []AllOrNothing
<1>1. CommandInit => OutputInv
  BY OutputInit
<1>2. OutputInv /\ [AllplayNext]_vars => OutputInv'
  BY OutputNext
<1>3. OutputInv => AllOrNothing
  <2> SUFFICES ASSUME OutputInv PROVE AllOrNothing
    OBVIOUS
  <2>1. Ended => \A o \in Output : disk[o] # "open"
    <3>1. DOMAIN <<>> = {}
      OBVIOUS
    <3>2. Ended => open = <<>>
      BY DEF Ended, OutputInv, OutputType
    <3> QED
      BY <3>1, <3>2 DEF OutputInv, OutputType, OpenOnDisk, Values
  <2>2. \A o \in Output : disk[o] \in {"old", "open", "complete", "partial", "absent"}
    BY DEF OutputInv, OutputType
  <2>3. ASSUME Ended, cmd.name \in KeptOutputs
        PROVE  /\ \A o \in Output : disk[o] \in {"old", "complete", "absent"}
               /\ stage = "success" => \A o \in Output : disk[o] # "absent"
               /\ stage \in {"error", "aborted"} => \A o \in Output : disk[o] # "complete"
    BY <2>1, <2>2, <2>3 DEF Ended, OutputInv, KeptInv
  <2>4. stage = "success" /\ cmd.name \in Neo =>
            \A i \in DOMAIN NeoOutputs : disk[NeoOutputs[i]] = "complete"
    BY <2>1, NamesAreOutputs DEF Ended, OutputInv, KeptInv, NeoInv, Names, KeptOutputs
  <2>5. cmd.name = "combine" /\ stage \in {"error", "aborted"} => disk["o"] = "old"
    BY DEF OutputInv, CombineInv
  <2> QED
    BY <2>3, <2>4, <2>5 DEF AllOrNothing
<1> QED
  BY <1>1, <1>2, <1>3, PTL DEF AllplaySpec

-----------------------------------------------------------------------------
(***************************************************************************)
(* The types of the scan that its own invariants leave out.                *)
(***************************************************************************)
ScanType ==
  /\ tree \in Trees /\ asserts \in Builds
  /\ gone \subseteq Path \cup File
  /\ removals \in 0 .. MaxGone
  /\ bcids \subseteq Id
  /\ pc \in {"start", "visit", "file", "module", "increment", "advance", "done", "failed", "aborted"}

LEMMA ScanTypeNext ==
  ASSUME ScanType, WalkType, Scanning
  PROVE  ScanType'
<1> USE DEF fsVars, dbVars
<1>1. CASE AddBitcode
  <2>1. here \in Path
    BY <1>1, HereIsPath DEF AddBitcode
  <2>2. tree.id[here] \in Id
    BY <2>1 DEF WalkType, Tree
  <2> QED
    BY <1>1, <2>2 DEF AddBitcode, ScanType
<1>2. CASE ScanStep /\ ~AddBitcode
  <2>1. UNCHANGED <<tree, asserts, gone, removals, bcids>>
    BY <1>2 DEF ScanStep, Start, SkipUnreachable, SkipUnwanted, VisitFile, OpenAllexe,
                AddKnownModule, AddModule, AddAllexe, Increment, NextEntry, LeaveDirectory
  <2>2. pc' \in {pc, "visit", "file", "module", "increment", "advance", "done", "failed", "aborted"}
    BY <1>2 DEF ScanStep, Start, SkipUnreachable, SkipUnwanted, VisitFile, OpenAllexe, Enter,
                AddKnownModule, AddModule, AddAllexe, Increment, NextEntry, LeaveDirectory
  <2> QED
    BY <2>1, <2>2 DEF ScanType
<1>3. ASSUME removals < MaxGone, removals' = removals + 1, gone' \subseteq Path \cup File,
             UNCHANGED <<tree, asserts, bcids, pc>>
      PROVE  ScanType'
  BY <1>3, ScanAssumption DEF ScanType
<1>4. ASSUME NEW p \in Path, Unlink(p) PROVE ScanType'
  BY <1>3, <1>4 DEF Unlink, ScanType
<1>5. ASSUME NEW f \in File, Vanish(f) PROVE ScanType'
  BY <1>3, <1>5 DEF Vanish, ScanType
<1>6. CASE UNCHANGED scanVars
  BY <1>6 DEF scanVars, ScanType
<1> QED
  BY <1>1, <1>2, <1>4, <1>5, <1>6 DEF Scanning, Next

LEMMA InfosGrow ==
  ASSUME DataType, DataType', Scanning
  PROVE  Len(infos) \in Nat /\ Len(infos') \in Nat /\ Len(infos') >= Len(infos)
<1>1. infos' = infos \/ \E m : infos' = Append(infos, m)
  BY DEF Scanning, Next, ScanStep, Start, SkipUnreachable, SkipUnwanted, VisitFile, OpenAllexe,
         AddKnownModule, AddModule, AddAllexe, AddBitcode, Increment, NextEntry, LeaveDirectory,
         Unlink, Vanish, scanVars, dbVars
<1>2. \A m : Len(Append(infos, m)) = Len(infos) + 1
  BY DEF DataType
<1> QED
  BY <1>1, <1>2, LenProperties DEF DataType

(***************************************************************************)
(* The position among the modules of the database or, for uncombine and    *)
(* decompose, among the parts of the input; and what combine hands over to *)
(* an uncombine of its output.                                             *)
(***************************************************************************)
PositionInv ==
  /\ next \in Nat \ {0}
  /\ stage = "scan" => next = 1 /\ NoParts
  /\ stage = "success" => kept
  /\ NoParts => next <= Len(infos) + 1
  /\ ~NoParts => cmd.name \in Takers /\ mem.parts \in Seq(STRING) /\ next <= Len(mem.parts) + 1
  /\ stage = "modules" /\ cmd.name \in Takers => ~NoParts
  /\ stage = "modules" /\ cmd.name = "combine" => mem.buffer \in Seq(STRING)
  /\ cmd.name = "combine" /\ kept => out.combined \in Seq(STRING)

LEMMA PositionInit ==
  ASSUME CommandInit
  PROVE  PositionInv
<1>1. /\ next = 1 /\ mem = [none |-> 0] /\ stage = "scan" /\ kept = FALSE /\ infos = <<>>
  BY DEF CommandInit, Init
<1>2. NoParts /\ Len(infos) = 0
  BY <1>1, EmptySeq DEF NoParts
<1> QED
  BY <1>1, <1>2 DEF PositionInv

LEMMA PartsOfFile ==
  ASSUME NEW f, CanLoad(f)
  PROVE  Content[f].parts \in Seq(STRING)
BY CommandAssumption DEF CanLoad, Content_Module

LEMMA PositionIdle ==
  ASSUME PositionInv, UNCHANGED <<cmd, next, mem, out>>, Len(infos) \in Nat,
         Len(infos') \in Nat, Len(infos') >= Len(infos),
         stage' = stage \/ stage' \in {"close", "error", "aborted", "fatal"} \/ (stage' = "success" /\ kept'),
         kept' = kept
  PROVE  PositionInv'
BY DEF PositionInv, NoParts

LEMMA PositionStarts ==
  ASSUME PositionInv, OutputInv, Starts \/ Opens(NeoOutputs) \/ Opens(<<"o">>) \/ Sorts
  PROVE  PositionInv'
<1>1. /\ cmd.name \notin Takers /\ UNCHANGED <<cmd, next, infos, kept>>
      /\ stage' \in {"modules", "emit", "close"} /\ NoParts'
      /\ stage \in Early
      /\ cmd.name = "combine" => stage' = "modules" /\ mem'.buffer = <<>>
  BY DEF Starts, Sorts, Opens, Resting, scanVars, ioVars, Takers, Scans, Neo, Early
<1>2. NoParts
  BY <1>1 DEF PositionInv
<1>3. <<>> \in Seq(STRING)
  BY EmptySeq
<1>4. cmd.name = "combine" => ~kept
  BY <1>1 DEF OutputInv, CombineInv
<1> QED
  BY <1>1, <1>2, <1>3, <1>4 DEF PositionInv

LEMMA PositionEmits ==
  ASSUME PositionInv, OutputInv, Emits("o") \/ Emits("csv") \/ Aborts
  PROVE  PositionInv'
<1>1. /\ cmd.name \notin Takers \cup {"combine"} /\ UNCHANGED <<cmd, next, infos>>
      /\ stage' \in {"close", "aborted"}
      /\ NoParts => NoParts'
  BY DEF Emits, Aborts, Abort, Resting, scanVars, OutputInv, OutputType, IsAtEmit, Takers, Scans, Neo
<1> QED
  BY <1>1 DEF PositionInv

LEMMA PositionReads ==
  ASSUME PositionInv, OutputInv, DataType, Reads
  PROVE  PositionInv'
<1>1. /\ cmd.name \notin Takers /\ UNCHANGED <<cmd, infos, kept, stage>> /\ stage = "modules"
      /\ NoParts => NoParts'
      /\ next' = next + 1 /\ next <= Len(infos) /\ Len(infos) \in Nat
  BY LenProperties DEF Reads, scanVars, ioVars, Takers, Scans, Neo, DataType
<1>2. ASSUME cmd.name = "combine" PROVE mem'.buffer \in Seq(STRING)
  <2>1. /\ mem.buffer \in Seq(STRING)
        /\ CanLoad(infos[next].file)
        /\ mem'.buffer = mem.buffer \o Content[infos[next].file].parts
    BY <1>1, <1>2 DEF Reads, PositionInv
  <2>2. Content[infos[next].file].parts \in Seq(STRING)
    BY <2>1, PartsOfFile
  <2> QED
    BY <2>1, <2>2, ConcatProperties
<1>3. cmd.name = "combine" => ~kept
  BY <1>1 DEF OutputInv, CombineInv, Early
<1> QED
  BY <1>1, <1>2, <1>3 DEF PositionInv

LEMMA PositionGives ==
  ASSUME PositionInv, Gives
  PROVE  PositionInv'
<1>1. /\ cmd.name # "combine" /\ UNCHANGED <<cmd, next, infos, mem>> /\ stage' = "close"
  BY DEF Gives, Resting, scanVars
<1> QED
  BY <1>1 DEF PositionInv, NoParts

LEMMA PositionBundle ==
  ASSUME PositionInv, OutputInv,
         CombineWrite \/ TakeApart \/ UncombineOutput \/ UncombinePart \/ DecomposePart \/ PrintSource
  PROVE  PositionInv'
<1>1. CASE CombineWrite
  <2>1. /\ UNCHANGED <<cmd, next, infos, mem>> /\ stage' \in {"close", "fatal"}
        /\ stage = "modules" /\ cmd.name = "combine"
        /\ kept' = kept \/ out'.combined = mem.buffer
    BY <1>1 DEF CombineWrite, ModulesDone, Fail, scanVars
  <2>2. ~kept
    BY <2>1 DEF OutputInv, CombineInv, Early
  <2> QED
    BY <2>1, <2>2 DEF PositionInv, NoParts
<1>2. CASE TakeApart
  <2>1. /\ UNCHANGED <<cmd, next, infos>> /\ cmd.name \in Takers /\ stage = "scan"
        /\ \/ stage' = "close" /\ UNCHANGED mem
           \/ /\ stage' = "modules" /\ CanLoad(cmd.arg)
              /\ mem' = [parts |-> Content[cmd.arg].parts]
    BY <1>2 DEF TakeApart, Fail, scanVars
  <2>2. CASE stage' = "close" /\ UNCHANGED mem
    BY <2>1, <2>2 DEF PositionInv, NoParts, Takers
  <2>3. CASE stage' = "modules" /\ mem'.parts \in Seq(STRING) /\ ~NoParts'
    BY <2>1, <2>3, LenProperties DEF PositionInv, Takers
  <2> QED
    BY <2>1, <2>2, <2>3, PartsOfFile DEF NoParts
<1>3. CASE UncombineOutput
  <2>1. /\ cmd.name = "combine" /\ stage = "success" /\ UNCHANGED infos
        /\ cmd' = [cmd EXCEPT !.name = "uncombine", !.arg = "o"]
        /\ stage' = "modules" /\ next' = 1 /\ mem' = [parts |-> out.combined] /\ kept' = FALSE
    BY <1>3 DEF UncombineOutput, Succeeded, scanVars
  <2>2. cmd'.name = "uncombine"
    BY <2>1 DEF OutputInv, OutputType
  <2>3. mem'.parts \in Seq(STRING) /\ ~NoParts'
    BY <2>1 DEF PositionInv, NoParts
  <2> QED
    BY <2>1, <2>2, <2>3, LenProperties DEF PositionInv, Takers
<1>4. ASSUME UNCHANGED <<cmd, infos, mem>>, stage = "modules", cmd.name \in Takers,
             next <= Len(mem.parts), stage' \in {"modules", "close", "fatal", "aborted"},
             next' \in {next, next + 1}
      PROVE  PositionInv'
  BY <1>4, LenProperties DEF PositionInv, NoParts, Takers
<1>5. CASE UncombinePart
  <2>1. /\ UNCHANGED <<cmd, infos, mem>> /\ stage = "modules" /\ cmd.name \in Takers
        /\ next <= Len(mem.parts) /\ stage' \in {"modules", "close", "fatal", "aborted"}
        /\ next' \in {next, next + 1}
    BY <1>5, Zenon DEF UncombinePart, HasPart, Fail, WritePart, Takers, scanVars
  <2> QED
    BY <1>4, <2>1
<1>6. CASE DecomposePart
  <2>1. /\ UNCHANGED <<cmd, infos, mem>> /\ stage = "modules" /\ cmd.name \in Takers
        /\ next <= Len(mem.parts) /\ stage' \in {"modules", "close", "fatal", "aborted"}
        /\ next' \in {next, next + 1}
    BY <1>6, Zenon DEF DecomposePart, HasPart, Abort, WritePart, Takers, scanVars
  <2> QED
    BY <1>4, <2>1
<1>7. CASE PrintSource
  <2>1. /\ UNCHANGED <<cmd, next, mem, infos>> /\ stage' \in {"close", "aborted"}
        /\ cmd.name = "printsource"
    BY <1>7, Zenon DEF PrintSource, Abort, Fail, scanVars
  <2> QED
    BY <2>1 DEF PositionInv, NoParts, Takers
<1> QED
  BY <1>1, <1>2, <1>3, <1>5, <1>6, <1>7

LEMMA PositionNext ==
  ASSUME PositionInv, OutputInv, ScanInv, [AllplayNext]_vars
  PROVE  PositionInv'
<1>1. Scanning /\ ScanInv'
  BY ScansOnly, ScanInvNext DEF OutputInv, OutputType
<1>2. Len(infos) \in Nat /\ Len(infos') \in Nat /\ Len(infos') >= Len(infos)
  BY <1>1, InfosGrow DEF ScanInv, DataInv
<1>3. CASE CommandStep \/ Others \/ UNCHANGED vars
  <2>1. UNCHANGED <<cmd, next, mem, out, kept>>
    BY <1>3 DEF CommandStep, LoadFails, ModuleFails, CloseOutput, DiskFull, End, Others, vars,
                commandVars, ioVars
  <2>2. stage' = stage \/ stage' \in {"close", "error", "aborted", "fatal"}
        \/ (stage' = "success" /\ kept')
    BY <1>3 DEF CommandStep, LoadFails, ModuleFails, CloseOutput, DiskFull, End, Others, vars,
                commandVars, ioVars
  <2> QED
    BY <1>2, <2>1, <2>2, PositionIdle
<1>4. ASSUME Reads PROVE PositionInv'
  BY <1>4, PositionReads DEF ScanInv, DataInv
<1>7. ASSUME Continues PROVE PositionInv'
  BY <1>7 DEF Continues, PositionInv, Resting, scanVars, ioVars, Takers
<1>5. CASE ExportStep \/ ReportStep \/ GraphStep
  <2>1. \/ Opens(NeoOutputs) \/ Opens(<<"o">>) \/ Starts \/ Sorts \/ Reads \/ Gives \/ Aborts
        \/ Emits("o") \/ Emits("csv") \/ Continues
    BY <1>5, ExportSteps, ReportSteps, GraphSteps DEF OutputInv, OutputType
  <2> QED
    BY <1>4, <1>7, <2>1, PositionStarts, PositionEmits, PositionGives
<1>6. CASE BundleStep
  BY <1>4, <1>6, CombineStartStarts, PositionStarts, CombineModuleReads, TakenApartGives,
     PositionGives, PositionBundle DEF BundleStep
<1> QED
  BY <1>3, <1>5, <1>6 DEF AllplayNext, AllplayStep

(***************************************************************************)
(* Every variable of a process of allplay has its type, in every session.  *)
(***************************************************************************)
THEOREM AllplayTypeCorrect == AllplaySpec => []AllplayTypeOK
<1> DEFINE Inv == ScanType /\ ScanInv /\ OutputInv /\ PositionInv
<1>1. CommandInit => Inv
  <2>1. CommandInit => ScanType
    BY StartOfSession, ScanAssumption DEF OfSession, Init, ScanType
  <2> QED
    BY <2>1, ScanInvInit, OutputInit, PositionInit DEF CommandInit
<1>2. Inv /\ [AllplayNext]_vars => Inv'
  BY ScansOnly, ScanTypeNext, ScanInvNext, OutputNext, PositionNext DEF ScanInv, OutputInv, OutputType
<1>3. Inv => AllplayTypeOK
  <2> SUFFICES ASSUME Inv PROVE AllplayTypeOK
    OBVIOUS
  <2>1. TypeOK
    BY DEF ScanType, ScanInv, WalkType, DataInv, DataType, TypeOK, Frame, AllexeType
  <2>2. /\ stage \in Stages /\ kept \in BOOLEAN
        /\ disk \in [Output -> {"old", "open", "complete", "partial", "absent"}]
        /\ open \in Seq(Output)
        /\ \A o \in Output : disk[o] = "open" <=> o \notin cmd.unwritable /\ \E i \in DOMAIN open : open[i] = o
    BY DEF OutputInv, OutputType, OpenOnDisk, Values
  <2>3. Len(infos) \in Nat
    BY LenProperties DEF ScanInv, DataInv, DataType
  <2>4. next \in 1 .. Len(IF ~NoParts THEN mem.parts ELSE infos) + 1
    <3>1. CASE NoParts
      BY <2>3, <3>1 DEF PositionInv
    <3>2. CASE ~NoParts
      BY <3>2, LenProperties DEF PositionInv
    <3> QED
      BY <3>1, <3>2
  <2> QED
    BY <2>1, <2>2, <2>4 DEF AllplayTypeOK, Stages, NoParts
<1> QED
  BY <1>1, <1>2, <1>3, PTL DEF AllplaySpec

-----------------------------------------------------------------------------
(***************************************************************************)
(* decompose. Nothing is written before the first fragment; then exactly   *)
(* the fragments before next are, but in a build without assertions those  *)
(* that cannot be opened: with assertions, the process does not come past  *)
(* one of these. All else is as it was.                                    *)
(***************************************************************************)
IsFragment(o, n) == \E i \in 1 .. n : o = ToString(i - 1)

IsWritten(o, n) == IsFragment(o, n) /\ (asserts \/ o \notin cmd.unwritable)

Written(n) ==
  \A o \in Output \ {"o"} :
    /\ IsWritten(o, n) => disk[o] = "complete"
    /\ ~IsWritten(o, n) => disk[o] = "old"

FragmentInv ==
  cmd.name = "decompose" =>
    /\ stage = "scan" => \A o \in Output : disk[o] = "old"
    /\ stage \in Early => ~kept
    /\ stage = "modules" => Written(next - 1)
    /\ stage = "success" \/ (stage = "close" /\ kept) => Written(Len(mem.parts))

LEMMA FragmentInit ==
  ASSUME CommandInit
  PROVE  FragmentInv
BY DEF CommandInit, FragmentInv

LEMMA FragmentElsewhere ==
  ASSUME FragmentInv, cmd'.name # "decompose"
  PROVE  FragmentInv'
BY DEF FragmentInv

LEMMA FragmentIdle ==
  ASSUME FragmentInv, UNCHANGED <<cmd, asserts, stage, next, ioVars, mem>>
  PROVE  FragmentInv'
BY DEF FragmentInv, Written, IsWritten, IsFragment, ioVars

LEMMA FragmentEnd ==
  ASSUME FragmentInv, OutputInv, CommandStep \/ Others \/ UNCHANGED vars
  PROVE  FragmentInv'
<1>1. CASE cmd.name # "decompose"
  <2>1. cmd' = cmd
    BY DEF CommandStep, LoadFails, ModuleFails, CloseOutput, DiskFull, End, Others, vars, commandVars
  <2> QED
    BY <1>1, <2>1, FragmentElsewhere
<1>2. CASE cmd.name = "decompose"
  <2>0. UNCHANGED asserts
    BY <1>2 DEF CommandStep, LoadFails, ModuleFails, CloseOutput, DiskFull, End, Others, Unlink, Vanish,
       vars, scanVars, Scans
  <2>1. CASE UNCHANGED commandVars
    BY <2>0, <2>1, FragmentIdle DEF commandVars, ioVars
  <2>2. CASE End
    BY <2>0, <2>2 DEF End, FragmentInv, Written, IsWritten, IsFragment, ioVars, Early
  <2>3. open = <<>>
    BY <1>2 DEF OutputInv, OutputType, KeptOutputs, Neo
  <2> QED
    BY <1>2, <2>1, <2>2, <2>3 DEF CommandStep, LoadFails, ModuleFails, ReadsModules, CloseOutput,
       DiskFull, Others, vars, Scans, commandVars
<1> QED
  BY <1>1, <1>2

LEMMA FragmentPart ==
  ASSUME FragmentInv, OutputInv, PositionInv, DecomposePart
  PROVE  FragmentInv'
<1> DEFINE name == ToString(next - 1)
<1>1. /\ stage = "modules" /\ cmd.name = "decompose" /\ next <= Len(mem.parts)
      /\ UNCHANGED <<cmd, asserts, mem>>
      /\ \/ /\ name \notin cmd.unwritable /\ disk' = [disk EXCEPT ![name] = "complete"]
            /\ next' = next + 1 /\ UNCHANGED <<stage, kept>>
         \/ stage' \in {"fatal", "aborted"}
         \/ /\ name \in cmd.unwritable /\ ~asserts
            /\ next' = next + 1 /\ UNCHANGED <<stage, kept, disk>>
  BY Zenon DEF DecomposePart, HasPart, WritePart, Abort, scanVars
<1>2. next \in Nat \ {0} /\ Written(next - 1) /\ ~kept
  BY <1>1 DEF PositionInv, FragmentInv, Early
<1>3. \A o : IsFragment(o, next) <=> IsFragment(o, next - 1) \/ o = name
  <2>1. 1 .. next = 1 .. next - 1 \cup {next}
    BY <1>2
  <2> QED
    BY <2>1 DEF IsFragment
<1>4. CASE stage' \in {"fatal", "aborted"}
  BY <1>1, <1>4 DEF FragmentInv, Early
<1>5. ASSUME next' = next + 1, UNCHANGED <<stage, kept>>,
             \A o \in Output \ {"o"} : /\ IsWritten(o, next) => disk'[o] = "complete"
                                       /\ ~IsWritten(o, next) => disk'[o] = "old"
      PROVE  FragmentInv'
  <2>1. next' - 1 = next
    BY <1>2, <1>5
  <2>2. Written(next - 1)'
    BY <1>1, <1>5, <2>1 DEF Written, IsWritten, IsFragment
  <2> QED
    BY <1>1, <1>2, <1>5, <2>2 DEF FragmentInv
<1>6. CASE /\ name \notin cmd.unwritable /\ disk' = [disk EXCEPT ![name] = "complete"]
           /\ next' = next + 1 /\ UNCHANGED <<stage, kept>>
  <2>1. \A o \in Output : disk'[o] = IF o = name THEN "complete" ELSE disk[o]
    BY <1>6 DEF OutputInv, OutputType
  <2> QED
    BY <1>2, <1>3, <1>5, <1>6, <2>1 DEF Written, IsWritten
<1>7. CASE /\ name \in cmd.unwritable /\ ~asserts
           /\ next' = next + 1 /\ UNCHANGED <<stage, kept, disk>>
  BY <1>2, <1>3, <1>5, <1>7 DEF Written, IsWritten
<1> QED
  BY <1>1, <1>4, <1>6, <1>7

LEMMA FragmentNext ==
  ASSUME FragmentInv, OutputInv, PositionInv, [AllplayNext]_vars
  PROVE  FragmentInv'
<1>1. ASSUME UNCHANGED cmd, cmd.name # "decompose" PROVE FragmentInv'
  BY <1>1, FragmentElsewhere
<1>2. ASSUME Starts \/ Reads \/ Opens(NeoOutputs) \/ Opens(<<"o">>) \/ Sorts \/ Aborts
             \/ Emits("o") \/ Emits("csv") \/ Continues
      PROVE  FragmentInv'
  <2>1. UNCHANGED cmd /\ cmd.name # "decompose"
    BY <1>2 DEF Starts, Reads, Opens, Continues, Sorts, Aborts, Emits, Resting, Scans, Neo, OutputInv,
                OutputType, IsAtEmit
  <2> QED
    BY <1>1, <2>1
<1>3. ASSUME Gives PROVE FragmentInv'
  <2>1. CASE cmd.name = "decompose"
    <3>1. /\ stage = "modules" /\ next > Len(mem.parts)
          /\ stage' = "close" /\ UNCHANGED <<cmd, asserts, next, disk, mem>>
      BY <1>3, <2>1 DEF Gives, Resting, Takers, scanVars
    <3>2. mem.parts \in Seq(STRING) /\ next <= Len(mem.parts) + 1 /\ next \in Nat
      BY <2>1, <3>1 DEF PositionInv, Takers
    <3>3. next - 1 = Len(mem.parts)
      BY <3>1, <3>2, LenProperties
    <3>4. Written(Len(mem.parts))
      BY <2>1, <3>1, <3>3 DEF FragmentInv
    <3> QED
      BY <3>1, <3>4 DEF FragmentInv, Written, IsWritten, IsFragment, Early
  <2>2. CASE cmd.name # "decompose"
    BY <1>1, <1>3, <2>2 DEF Gives, Resting
  <2> QED
    BY <2>1, <2>2
<1>4. CASE ExportStep \/ ReportStep \/ GraphStep
  BY <1>2, <1>3, <1>4, ExportSteps, ReportSteps, GraphSteps DEF OutputInv, OutputType
<1>5. CASE BundleStep
  <2>1. CASE CombineStart \/ CombineModule \/ TakenApart
    BY <1>2, <1>3, <2>1, CombineStartStarts, CombineModuleReads, TakenApartGives
  <2>2. CASE CombineWrite \/ UncombinePart \/ PrintSource
    <3>1. UNCHANGED cmd /\ cmd.name \in {"combine", "uncombine", "printsource"}
      BY <2>2 DEF CombineWrite, UncombinePart, PrintSource, ModulesDone, HasPart
    <3> QED
      BY <1>1, <3>1
  <2>3. CASE UncombineOutput
    <3>1. cmd' = [cmd EXCEPT !.name = "uncombine", !.arg = "o"]
      BY <2>3 DEF UncombineOutput
    <3>2. cmd'.name = "uncombine"
      BY <3>1 DEF OutputInv, OutputType
    <3> QED
      BY <3>2, FragmentElsewhere
  <2>4. CASE TakeApart
    <3>1. /\ UNCHANGED <<cmd, asserts, next>> /\ stage = "scan"
          /\ stage' \in {"modules", "close"} /\ UNCHANGED <<disk, kept>>
      BY <2>4 DEF TakeApart, Fail, scanVars
    <3>2. next = 1 /\ 1 .. next - 1 = {}
      BY <3>1 DEF PositionInv
    <3> QED
      BY <3>1, <3>2 DEF FragmentInv, Written, IsWritten, IsFragment, Early
  <2> QED
    BY <1>5, <2>1, <2>2, <2>3, <2>4, FragmentPart DEF BundleStep
<1> QED
  BY <1>4, <1>5, FragmentEnd DEF AllplayNext, AllplayStep

(***************************************************************************)
(* A decompose that succeeds leaves the fragments it counted and nothing   *)
(* else changed, whatever the directory held; in a build without           *)
(* assertions a fragment that could not be opened is not among them.       *)
(***************************************************************************)
THEOREM FragmentsNumbered == AllplaySpec => []FragmentsAreNumbered
<1> DEFINE Inv == ScanInv /\ OutputInv /\ PositionInv /\ FragmentInv
<1>1. CommandInit => Inv
  BY ScanInvInit, OutputInit, PositionInit, FragmentInit DEF CommandInit
<1>2. Inv /\ [AllplayNext]_vars => Inv'
  BY ScansOnly, ScanInvNext, OutputNext, PositionNext, FragmentNext DEF OutputInv, OutputType
<1>3. Inv => FragmentsAreNumbered
  <2> SUFFICES ASSUME FragmentInv, Succeeded({"decompose"}), NEW o \in Output \ {"o"}
               PROVE  disk[o] = IF o \in Fragments \ PassedOver THEN "complete" ELSE "old"
    BY DEF FragmentsAreNumbered
  <2>1. Written(Len(mem.parts))
    BY DEF FragmentInv, Succeeded
  <2>2. IsWritten(o, Len(mem.parts)) <=> o \in Fragments \ PassedOver
    BY DEF IsWritten, IsFragment, Fragments, PassedOver
  <2> QED
    BY <2>1, <2>2 DEF Written
<1> QED
  BY <1>1, <1>2, <1>3, PTL DEF AllplaySpec

-----------------------------------------------------------------------------
(***************************************************************************)
(* Tables, as sequences of whatever rows they have.                        *)
(***************************************************************************)
IsTable(s) == s \in Seq(Values(s))

LEMMA TableFacts ==
  ASSUME NEW s, IsTable(s)
  PROVE  Len(s) \in Nat /\ DOMAIN s = 1 .. Len(s)
BY LenProperties DEF IsTable

LEMMA InTable ==
  ASSUME NEW S, NEW s \in Seq(S)
  PROVE  IsTable(s)
<1>1. Len(s) \in Nat /\ s \in [1 .. Len(s) -> S] /\ DOMAIN s = 1 .. Len(s)
  BY LenProperties
<1>2. s \in [1 .. Len(s) -> Values(s)]
  BY <1>1 DEF Values
<1> QED
  BY <1>1, <1>2, SeqDef DEF IsTable

LEMMA FunctionIsTable ==
  ASSUME NEW n \in Nat, NEW S, NEW f \in [1 .. n -> S]
  PROVE  IsTable(f) /\ Len(f) = n
<1>1. f \in Seq(S)
  BY SeqDef
<1> QED
  BY <1>1, InTable, LenProperties

LEMMA ConcatTables ==
  ASSUME NEW s, NEW t, IsTable(s), IsTable(t)
  PROVE  /\ IsTable(s \o t) /\ Len(s \o t) = Len(s) + Len(t)
         /\ \A i \in 1 .. Len(s) + Len(t) : (s \o t)[i] = IF i <= Len(s) THEN s[i] ELSE t[i - Len(s)]
         /\ Values(s \o t) = Values(s) \cup Values(t)
<1> DEFINE S == Values(s) \cup Values(t)
<1>1. s \in Seq(S) /\ t \in Seq(S)
  BY SeqMonotonic DEF IsTable
<1>2. /\ s \o t \in Seq(S) /\ Len(s \o t) = Len(s) + Len(t)
      /\ \A i \in 1 .. Len(s) + Len(t) : (s \o t)[i] = IF i <= Len(s) THEN s[i] ELSE t[i - Len(s)]
  BY <1>1, ConcatProperties
<1>3. /\ Len(s) \in Nat /\ Len(t) \in Nat
      /\ DOMAIN s = 1 .. Len(s) /\ DOMAIN t = 1 .. Len(t) /\ DOMAIN (s \o t) = 1 .. Len(s) + Len(t)
  BY <1>1, <1>2, LenProperties
<1>4. \A i \in 1 .. Len(s) : (s \o t)[i] = s[i] /\ i \in 1 .. Len(s) + Len(t)
  BY <1>2, <1>3
<1>5. \A j \in 1 .. Len(t) : (s \o t)[Len(s) + j] = t[j] /\ Len(s) + j \in 1 .. Len(s) + Len(t)
  BY <1>2, <1>3
<1>6. ASSUME NEW i \in 1 .. Len(s) + Len(t)
      PROVE  i \in 1 .. Len(s) \/ \E j \in 1 .. Len(t) : i = Len(s) + j
  <2>1. CASE i <= Len(s)
    BY <1>3, <2>1
  <2>2. CASE ~(i <= Len(s))
    <3>1. i - Len(s) \in 1 .. Len(t) /\ i = Len(s) + (i - Len(s))
      BY <1>3, <2>2
    <3> QED
      BY <3>1
  <2> QED
    BY <2>1, <2>2
<1>7. Values(s \o t) = Values(s) \cup Values(t)
  <2>1. ASSUME NEW x
        PROVE  x \in Values(s \o t) <=> x \in Values(s) \/ x \in Values(t)
    <3>1. /\ x \in Values(s) <=> \E i \in 1 .. Len(s) : s[i] = x
          /\ x \in Values(t) <=> \E i \in 1 .. Len(t) : t[i] = x
          /\ x \in Values(s \o t) <=> \E i \in 1 .. Len(s) + Len(t) : (s \o t)[i] = x
      BY <1>3 DEF Values
    <3>2. ASSUME NEW i \in 1 .. Len(s), s[i] = x PROVE x \in Values(s \o t)
      BY <1>4, <3>1, <3>2
    <3>3. ASSUME NEW i \in 1 .. Len(t), t[i] = x PROVE x \in Values(s \o t)
      BY <1>5, <3>1, <3>3
    <3>4. ASSUME NEW i \in 1 .. Len(s) + Len(t), (s \o t)[i] = x
          PROVE  x \in Values(s) \/ x \in Values(t)
      BY <1>4, <1>5, <1>6, <3>1, <3>4
    <3> QED
      BY <3>1, <3>2, <3>3, <3>4
  <2> QED
    BY <2>1
<1>8. IsTable(s \o t)
  BY <1>2, InTable
<1> QED
  BY <1>2, <1>7, <1>8

\* The relationships in s end at n, n + 1 and so on.
Numbered(s, n) == \A i \in 1 .. Len(s) : s[i].end = n + i - 1

LEMMA ConcatNumbered ==
  ASSUME NEW s, NEW t, IsTable(s), IsTable(t), NEW n \in Nat,
         Numbered(s, n), Numbered(t, n + Len(s))
  PROVE  Numbered(s \o t, n)
<1>1. Len(s) \in Nat /\ Len(t) \in Nat /\ Len(s \o t) = Len(s) + Len(t)
  BY TableFacts, ConcatTables
<1> SUFFICES ASSUME NEW i \in 1 .. Len(s) + Len(t) PROVE (s \o t)[i].end = n + i - 1
  BY <1>1 DEF Numbered
<1>2. (s \o t)[i] = IF i <= Len(s) THEN s[i] ELSE t[i - Len(s)]
  BY ConcatTables
<1>3. CASE i <= Len(s)
  BY <1>1, <1>2, <1>3 DEF Numbered
<1>4. CASE i > Len(s)
  <2>1. i - Len(s) \in 1 .. Len(t) /\ (s \o t)[i] = t[i - Len(s)]
    BY <1>1, <1>2, <1>4
  <2>2. t[i - Len(s)].end = n + Len(s) + (i - Len(s)) - 1
    BY <2>1 DEF Numbered
  <2> QED
    BY <1>1, <2>1, <2>2
<1> QED
  BY <1>1, <1>3, <1>4

LEMMA AppendToTable ==
  ASSUME NEW s, NEW e, IsTable(s)
  PROVE  /\ IsTable(Append(s, e)) /\ Len(Append(s, e)) = Len(s) + 1
         /\ \A i \in 1 .. Len(s) : Append(s, e)[i] = s[i]
         /\ Append(s, e)[Len(s) + 1] = e
         /\ Values(Append(s, e)) = Values(s) \cup {e}
<1> DEFINE S == Values(s) \cup {e}
<1>1. s \in Seq(S) /\ e \in S
  BY SeqMonotonic DEF IsTable
<1>2. /\ Append(s, e) \in Seq(S) /\ Len(Append(s, e)) = Len(s) + 1
      /\ \A i \in 1 .. Len(s) : Append(s, e)[i] = s[i]
      /\ Append(s, e)[Len(s) + 1] = e
  BY <1>1, AppendProperties
<1>3. Len(s) \in Nat /\ DOMAIN s = 1 .. Len(s) /\ DOMAIN Append(s, e) = 1 .. Len(s) + 1
  BY <1>1, <1>2, LenProperties
<1>4. 1 .. Len(s) + 1 = 1 .. Len(s) \cup {Len(s) + 1}
  BY <1>3
<1>5. Values(Append(s, e)) = Values(s) \cup {e}
  BY <1>2, <1>3, <1>4 DEF Values
<1> QED
  BY <1>2, <1>5, InTable

\* Different rows make as many rows as the table is long.
LEMMA CountRows ==
  ASSUME NEW s, IsTable(s), \A i, j \in DOMAIN s : s[i] = s[j] => i = j
  PROVE  Cardinality(Values(s)) = Len(s)
<1>1. Len(s) \in Nat /\ DOMAIN s = 1 .. Len(s)
  BY TableFacts
<1>2. IsFiniteSet(1 .. Len(s)) /\ Cardinality(1 .. Len(s)) = Len(s)
  BY <1>1, FS_Interval
<1>3. s \in [1 .. Len(s) -> Values(s)]
  BY LenProperties DEF IsTable
<1>4. s \in Bijection(1 .. Len(s), Values(s))
  BY <1>1, <1>3 DEF Values, Bijection, Injection, Surjection, IsInjective
<1> QED
  BY <1>2, <1>4, FS_Bijection DEF ExistsBijection

(***************************************************************************)
(* What one module adds: for every kind of global its rows, numbered from  *)
(* First, and a relationship to each of them.                              *)
(***************************************************************************)
Kinds == {"funcs", "globals", "aliases"}

NewRows == [funcs |-> FuncRows, globals |-> GlobalRows, aliases |-> AliasRows]
NewRels == [funcs |-> FuncRels, globals |-> GlobalRels, aliases |-> AliasRels]
First == [funcs |-> firstFunc, globals |-> firstGlobal, aliases |-> firstAlias]

LEMMA ParsedFacts ==
  ASSUME CanLoad(infos[next].file), mem.globalID \in Nat
  PROVE  /\ \A t \in Kinds : /\ Len(Parsed[t]) \in Nat /\ DOMAIN Parsed[t] = 1 .. Len(Parsed[t])
                             /\ First[t] \in Nat /\ mem.globalID <= First[t]
                             /\ First[t] + Len(Parsed[t]) <= mem.globalID + Globals(Parsed)
         /\ \A t, u \in Kinds : \/ t = u
                                \/ First[t] + Len(Parsed[t]) <= First[u]
                                \/ First[u] + Len(Parsed[u]) <= First[t]
         /\ Globals(Parsed) \in Nat
<1>1. Parsed \in Content_Module
  BY CommandAssumption DEF CanLoad, Parsed
<1>2. \A t \in Kinds : Len(Parsed[t]) \in Nat /\ DOMAIN Parsed[t] = 1 .. Len(Parsed[t])
  BY <1>1, LenProperties DEF Content_Module, Kinds
<1> DEFINE f == Len(Parsed.funcs)
           g == Len(Parsed.globals)
           a == Len(Parsed.aliases)
<1>3. f \in Nat /\ g \in Nat /\ a \in Nat /\ Globals(Parsed) = f + g + a
  BY <1>2 DEF Kinds, Globals
<1>4. /\ First["funcs"] = mem.globalID /\ First["globals"] = mem.globalID + f
      /\ First["aliases"] = mem.globalID + f + g
  BY DEF First, firstFunc, firstGlobal, firstAlias
<1>5. /\ Len(Parsed["funcs"]) = f /\ Len(Parsed["globals"]) = g /\ Len(Parsed["aliases"]) = a
  OBVIOUS
<1> HIDE DEF f, g, a
<1>6. ASSUME NEW t \in Kinds
      PROVE  /\ First[t] \in Nat /\ mem.globalID <= First[t]
             /\ First[t] + Len(Parsed[t]) <= mem.globalID + Globals(Parsed)
  <2>1. CASE t = "funcs"
    BY <1>3, <1>4, <1>5, <2>1
  <2>2. CASE t = "globals"
    BY <1>3, <1>4, <1>5, <2>2
  <2>3. CASE t = "aliases"
    BY <1>3, <1>4, <1>5, <2>3
  <2> QED
    BY <2>1, <2>2, <2>3 DEF Kinds
<1>7. ASSUME NEW t \in Kinds, NEW u \in Kinds, t # u
      PROVE  First[t] + Len(Parsed[t]) <= First[u] \/ First[u] + Len(Parsed[u]) <= First[t]
  <2>1. First["funcs"] + Len(Parsed["funcs"]) <= First["globals"]
    BY <1>3, <1>4, <1>5
  <2>2. First["funcs"] + Len(Parsed["funcs"]) <= First["aliases"]
    BY <1>3, <1>4, <1>5
  <2>3. First["globals"] + Len(Parsed["globals"]) <= First["aliases"]
    BY <1>3, <1>4, <1>5
  <2> QED
    BY <1>7, <2>1, <2>2, <2>3, SMT DEF Kinds
<1> QED
  BY <1>2, <1>3, <1>6, <1>7

LEMMA NewFacts ==
  ASSUME CanLoad(infos[next].file), mem.globalID \in Nat, NEW t \in Kinds
  PROVE  /\ IsTable(NewRows[t]) /\ Len(NewRows[t]) = Len(Parsed[t])
         /\ IsTable(NewRels[t]) /\ Len(NewRels[t]) = Len(Parsed[t])
         /\ \A i \in DOMAIN Parsed[t] :
              /\ NewRows[t][i].id = First[t] + i - 1 /\ NewRows[t][i].name = Parsed[t][i].name
              /\ NewRels[t][i].end = First[t] + i - 1 /\ NewRels[t][i].start = ModID
<1>1. Len(Parsed[t]) \in Nat /\ DOMAIN Parsed[t] = 1 .. Len(Parsed[t])
  BY ParsedFacts
<1> DEFINE n == Len(Parsed[t])
<1>2. /\ NewRows[t] = [i \in DOMAIN Parsed[t] |-> NewRows[t][i]]
      /\ NewRels[t] = [i \in DOMAIN Parsed[t] |-> NewRels[t][i]]
      /\ \A i \in DOMAIN Parsed[t] :
           /\ NewRows[t][i].id = First[t] + i - 1 /\ NewRows[t][i].name = Parsed[t][i].name
           /\ NewRels[t][i].end = First[t] + i - 1 /\ NewRels[t][i].start = ModID
  <2>1. CASE t = "funcs"
    <3>1. NewRows[t] = FuncRows /\ NewRels[t] = FuncRels /\ First[t] = firstFunc /\ Parsed[t] = Parsed.funcs
      BY <2>1 DEF NewRows, NewRels, First
    <3> QED
      BY <3>1 DEF FuncRows, FuncRels, FuncRow, RelRow
  <2>2. CASE t = "globals"
    <3>1. NewRows[t] = GlobalRows /\ NewRels[t] = GlobalRels /\ First[t] = firstGlobal /\ Parsed[t] = Parsed.globals
      BY <2>2 DEF NewRows, NewRels, First
    <3> QED
      BY <3>1 DEF GlobalRows, GlobalRels, GlobalRow, RelRow
  <2>3. CASE t = "aliases"
    <3>1. NewRows[t] = AliasRows /\ NewRels[t] = AliasRels /\ First[t] = firstAlias /\ Parsed[t] = Parsed.aliases
      BY <2>3 DEF NewRows, NewRels, First
    <3> QED
      BY <3>1 DEF AliasRows, AliasRels, AliasRow, RelRow
  <2> QED
    BY <2>1, <2>2, <2>3 DEF Kinds
<1>4. ASSUME NEW f, f = [i \in 1 .. n |-> f[i]]
      PROVE  IsTable(f) /\ Len(f) = n
  <2>1. f \in [1 .. n -> {f[i] : i \in 1 .. n}]
    BY <1>4
  <2> QED
    BY <1>1, <2>1, FunctionIsTable
<1>5. /\ IsTable(NewRows[t]) /\ Len(NewRows[t]) = n
      /\ IsTable(NewRels[t]) /\ Len(NewRels[t]) = n
  BY <1>1, <1>2, <1>4
<1> QED
  BY <1>2, <1>5

LEMMA SymbolsParsed ==
  ASSUME CanLoad(infos[next].file), mem.globalID \in Nat, NEW x
  PROVE  x \in SymbolsOf(Parsed) <=>
           \E t \in Kinds : \E i \in DOMAIN Parsed[t] : x = <<Parsed[t][i].name, NewRels[t][i].type>>
<1>1. \A i \in DOMAIN Parsed.funcs : NewRels["funcs"][i].type = Rel(Parsed.funcs[i])
  BY DEF NewRels, FuncRels, RelRow
<1>2. \A i \in DOMAIN Parsed.globals : NewRels["globals"][i].type = Rel(Parsed.globals[i])
  BY DEF NewRels, GlobalRels, RelRow
<1>3. \A i \in DOMAIN Parsed.aliases : NewRels["aliases"][i].type = "DEFINES"
  BY DEF NewRels, AliasRels, RelRow
<1>4. ASSUME NEW gs
      PROVE  x \in Symbols(gs) <=> \E i \in DOMAIN gs : x = <<gs[i].name, Rel(gs[i])>>
  BY DEF Symbols
<1>5. x \in SymbolsOf(Parsed) <=>
        \/ \E i \in DOMAIN Parsed.funcs : x = <<Parsed.funcs[i].name, Rel(Parsed.funcs[i])>>
        \/ \E i \in DOMAIN Parsed.globals : x = <<Parsed.globals[i].name, Rel(Parsed.globals[i])>>
        \/ \E i \in DOMAIN Parsed.aliases : x = <<Parsed.aliases[i].name, "DEFINES">>
  BY <1>4 DEF SymbolsOf
<1>6. /\ Parsed["funcs"] = Parsed.funcs /\ Parsed["globals"] = Parsed.globals
      /\ Parsed["aliases"] = Parsed.aliases
  OBVIOUS
<1> QED
  BY <1>1, <1>2, <1>3, <1>5, <1>6 DEF Kinds

\* The relationships of one module, in a row.
RelsOfModule == FuncRels \o GlobalRels \o AliasRels

LEMMA CountNewRels ==
  ASSUME CanLoad(infos[next].file), mem.globalID \in Nat
  PROVE  /\ Values(RelsOfModule) = UNION {Values(NewRels[t]) : t \in Kinds}
         /\ Cardinality(Values(RelsOfModule)) = Globals(Parsed)
<1>1. \A t \in Kinds : /\ IsTable(NewRels[t]) /\ Len(NewRels[t]) = Len(Parsed[t])
                       /\ Numbered(NewRels[t], First[t])
  BY NewFacts, ParsedFacts DEF Numbered
<1>2. /\ NewRels["funcs"] = FuncRels /\ NewRels["globals"] = GlobalRels /\ NewRels["aliases"] = AliasRels
      /\ First["funcs"] = mem.globalID /\ First["globals"] = mem.globalID + Len(Parsed.funcs)
      /\ First["aliases"] = mem.globalID + Len(Parsed.funcs) + Len(Parsed.globals)
      /\ Parsed["funcs"] = Parsed.funcs /\ Parsed["globals"] = Parsed.globals
      /\ Parsed["aliases"] = Parsed.aliases
  BY DEF NewRels, First, firstFunc, firstGlobal, firstAlias
<1>3. /\ IsTable(FuncRels) /\ Len(FuncRels) = Len(Parsed.funcs) /\ Numbered(FuncRels, mem.globalID)
      /\ IsTable(GlobalRels) /\ Len(GlobalRels) = Len(Parsed.globals)
      /\ Numbered(GlobalRels, mem.globalID + Len(Parsed.funcs))
      /\ IsTable(AliasRels) /\ Len(AliasRels) = Len(Parsed.aliases)
      /\ Numbered(AliasRels, mem.globalID + Len(Parsed.funcs) + Len(Parsed.globals))
  BY <1>1, <1>2 DEF Kinds
<1>4. PICK n \in Nat, f \in Nat, g \in Nat, a \in Nat :
        /\ n = mem.globalID /\ f = Len(Parsed.funcs) /\ g = Len(Parsed.globals) /\ a = Len(Parsed.aliases)
  BY <1>2, ParsedFacts DEF Kinds
<1>5. /\ Len(FuncRels) = f /\ Numbered(FuncRels, n) /\ Len(GlobalRels) = g /\ Numbered(GlobalRels, n + f)
      /\ Len(AliasRels) = a /\ Numbered(AliasRels, n + f + g)
  BY <1>3, <1>4
<1>6. /\ n + (f + g) = n + f + g /\ f + g + a \in Nat /\ f + g \in Nat
      /\ Globals(Parsed) = f + g + a
  <2>1. Globals(Parsed) = Len(Parsed.funcs) + Len(Parsed.globals) + Len(Parsed.aliases)
    BY DEF Globals
  <2>2. Globals(Parsed) = f + g + a
    BY <1>4, <2>1, Zenon
  <2>3. n + (f + g) = n + f + g /\ f + g + a \in Nat /\ f + g \in Nat
    OBVIOUS
  <2> QED
    BY <2>2, <2>3
<1> DEFINE FG == FuncRels \o GlobalRels
<1> HIDE DEF FG
<1>7. /\ IsTable(FG) /\ Len(FG) = f + g /\ Numbered(FG, n)
      /\ Values(FG) = Values(FuncRels) \cup Values(GlobalRels)
  <2>1. Len(FuncRels \o GlobalRels) = Len(FuncRels) + Len(GlobalRels)
    BY <1>3, ConcatTables
  <2>2. Len(FG) = f + g
    BY <1>5, <2>1 DEF FG
  <2> QED
    BY <1>3, <1>5, <2>2, ConcatTables, ConcatNumbered DEF FG
<1>8. /\ IsTable(FG \o AliasRels) /\ Len(FG \o AliasRels) = f + g + a
      /\ Values(FG \o AliasRels) = Values(FG) \cup Values(AliasRels)
  <2>1. Len(FG \o AliasRels) = Len(FG) + Len(AliasRels)
    BY <1>3, <1>7, ConcatTables
  <2>2. Len(FG \o AliasRels) = f + g + a
    BY <1>5, <1>7, <2>1
  <2> QED
    BY <1>3, <1>7, <2>2, ConcatTables
<1>9. Numbered(FG \o AliasRels, n)
  <2>1. n + Len(FG) = n + f + g
    BY <1>6, <1>7
  <2>2. Numbered(AliasRels, n + Len(FG))
    BY <1>5, <2>1
  <2> QED
    BY <1>3, <1>7, <2>2, ConcatNumbered
<1>10. RelsOfModule = FG \o AliasRels
  BY DEF RelsOfModule, FG
<1>11. Len(RelsOfModule) = Globals(Parsed) /\ Len(RelsOfModule) \in Nat
  BY <1>6, <1>8, <1>10
<1>12. Cardinality(Values(RelsOfModule)) = Len(RelsOfModule)
  <2>1. DOMAIN RelsOfModule = 1 .. Len(RelsOfModule)
    BY <1>8, <1>10, TableFacts
  <2>2. \A i \in 1 .. Len(RelsOfModule) : RelsOfModule[i].end = mem.globalID + i - 1
    BY <1>4, <1>9, <1>10 DEF Numbered
  <2>3. \A i, j \in 1 .. Len(RelsOfModule) : RelsOfModule[i] = RelsOfModule[j] => i = j
    <3> SUFFICES ASSUME NEW i \in 1 .. Len(RelsOfModule), NEW j \in 1 .. Len(RelsOfModule),
                        RelsOfModule[i] = RelsOfModule[j]
                 PROVE  i = j
      OBVIOUS
    <3>1. mem.globalID + i - 1 = mem.globalID + j - 1
      BY <2>2
    <3> QED
      BY <1>11, <3>1
  <2> QED
    BY <1>8, <1>10, <2>1, <2>3, CountRows
<1>13. Values(RelsOfModule) = UNION {Values(NewRels[t]) : t \in Kinds}
  BY <1>2, <1>7, <1>8, <1>10 DEF Kinds
<1> QED
  BY <1>11, <1>12, <1>13

(***************************************************************************)
(* The tables while they are written: what has been numbered, what the     *)
(* relationships refer to, and what has been said of the modules read so   *)
(* far.                                                                    *)
(***************************************************************************)
Nodes == UNION {Rows(t) : t \in Kinds}

RelsOf(m) == {r \in Rows("modglobals") : r.start = m}

TablesType ==
  /\ Output \subseteq DOMAIN out /\ \A t \in DOMAIN out : IsTable(out[t])
  /\ "globalID" \in DOMAIN mem /\ mem.globalID \in Nat
  /\ "idx" \in DOMAIN mem /\ mem.idx \in Nat

NodesInv ==
  /\ \A g \in Nodes : g.id \in Nat /\ g.id < mem.globalID
  /\ DifferentIDs(Kinds)

RelsInv ==
  \A r \in Rows("modglobals") :
    (\E i \in 1 .. next - 1 : r.start = ModIDOf(i)) /\ (\E g \in Nodes : g.id = r.end)

ModulesInv ==
  /\ Len(out["modules"]) = next - 1
  /\ \A i \in 1 .. next - 1 : out["modules"][i].id = ModIDOf(i)

Imported(i) ==
  LET M == Content[infos[i].file]
  IN  /\ ImportedSymbols(ModIDOf(i)) = SymbolsOf(M)
      /\ Cardinality(RelsOf(ModIDOf(i))) = Globals(M)

ImportedInv == \A i \in 1 .. next - 1 : Imported(i)

AllexesInv ==
  /\ Len(out["allexes"]) = mem.idx /\ mem.idx <= Len(allexes)
  /\ \A i \in 1 .. mem.idx : out["allexes"][i].id = i - 1
  /\ cmd.name # "neocsv" => mem.idx = 0
  /\ \A r : r \in Rows("contains") <=> \E i \in 1 .. mem.idx : r \in Values(ContainsRows(i))

DifferentModules == \A i, j \in DOMAIN infos : ModIDOf(i) = ModIDOf(j) => i = j

LEMMA NodeByID ==
  ASSUME DifferentIDs(Kinds), NEW g \in Nodes, NEW h \in Nodes, g.id = h.id
  PROVE  g = h
<1>1. PICK t \in Kinds, u \in Kinds : g \in Rows(t) /\ h \in Rows(u)
  BY DEF Nodes
<1>2. PICK i \in DOMAIN out[t], j \in DOMAIN out[u] : g = out[t][i] /\ h = out[u][j]
  BY <1>1 DEF Rows
<1> QED
  BY <1>2 DEF DifferentIDs

LEMMA InImported ==
  ASSUME NEW m, NEW x
  PROVE  x \in ImportedSymbols(m) <=>
           \E r \in RelsOf(m) : \E g \in Nodes : g.id = r.end /\ x = <<g.name, r.type>>
<1>1. \A g : g \in Nodes <=> g \in Rows("funcs") \cup Rows("globals") \cup Rows("aliases")
  BY DEF Nodes, Kinds
<1> QED
  BY <1>1 DEF ImportedSymbols, RelsOf

(***************************************************************************)
(* A module is read: its rows come after all others, and nothing is added  *)
(* to what there is for the modules before.                                *)
(***************************************************************************)
LEMMA ModuleAdds ==
  ASSUME NeoModule, TablesType
  PROVE  /\ CanLoad(infos[next].file) /\ next <= Len(infos) /\ next' = next + 1
         /\ UNCHANGED <<cmd, stage, kept, scanVars>>
         /\ mem'.globalID = mem.globalID + Globals(Parsed) /\ mem'.globalID \in Nat
         /\ DOMAIN mem' = DOMAIN mem /\ mem'.idx = mem.idx
         /\ DOMAIN out' = DOMAIN out
         /\ \A t \in Kinds : out'[t] = out[t] \o NewRows[t]
         /\ out'["modules"] = Append(out["modules"], [id |-> ModID, path |-> Short[infos[next].file]])
         /\ out'["modglobals"] = out["modglobals"] \o FuncRels \o GlobalRels \o AliasRels
         /\ out'["allexes"] = out["allexes"] /\ out'["contains"] = out["contains"]
         /\ \A t \in DOMAIN out \ (Kinds \cup {"modules", "modglobals"}) : out'[t] = out[t]
<1>1. /\ CanLoad(infos[next].file) /\ next <= Len(infos) /\ next' = next + 1
      /\ UNCHANGED <<cmd, stage, kept, scanVars>>
      /\ mem' = [mem EXCEPT !.globalID = @ + Globals(Parsed)]
  BY Zenon DEF NeoModule, ReadsModule, ReadsModules, ioVars
<1>2. Globals(Parsed) \in Nat
  BY <1>1, ParsedFacts DEF TablesType
<1>3. /\ mem'.globalID = mem.globalID + Globals(Parsed) /\ mem'.globalID \in Nat
      /\ DOMAIN mem' = DOMAIN mem /\ mem'.idx = mem.idx
  BY <1>1, <1>2 DEF TablesType
<1>4. {"modules", "funcs", "allexes", "contains", "globals", "modglobals", "aliases"} \subseteq DOMAIN out
  BY CommandAssumption DEF TablesType
<1>5. out' = [out EXCEPT
       !["modules"] = Append(@, [id |-> ModID, path |-> Short[infos[next].file]]),
       !["funcs"] = @ \o FuncRows, !["globals"] = @ \o GlobalRows, !["aliases"] = @ \o AliasRows,
       !["modglobals"] = @ \o FuncRels \o GlobalRels \o AliasRels]
  BY Zenon DEF NeoModule
<1> DEFINE m == Append(out["modules"], [id |-> ModID, path |-> Short[infos[next].file]])
           f == out["funcs"] \o FuncRows
           g == out["globals"] \o GlobalRows
           a == out["aliases"] \o AliasRows
           e == out["modglobals"] \o FuncRels \o GlobalRels \o AliasRels
<1>9. out' = [out EXCEPT !["modules"] = m, !["funcs"] = f, !["globals"] = g, !["aliases"] = a,
                         !["modglobals"] = e]
  BY <1>5, Zenon
<1> HIDE DEF m, f, g, a, e
<1>10. /\ DOMAIN out' = DOMAIN out /\ out'["modules"] = m /\ out'["funcs"] = f
       /\ out'["globals"] = g /\ out'["aliases"] = a /\ out'["modglobals"] = e
       /\ \A t \in DOMAIN out \ {"funcs", "globals", "aliases", "modules", "modglobals"} : out'[t] = out[t]
  <2>1. "modules" \in DOMAIN out /\ "funcs" \in DOMAIN out /\ "globals" \in DOMAIN out
        /\ "aliases" \in DOMAIN out /\ "modglobals" \in DOMAIN out
    BY <1>4
  <2> QED
    BY <1>9, <2>1
<1>6. /\ DOMAIN out' = DOMAIN out
      /\ out'["funcs"] = out["funcs"] \o FuncRows /\ out'["globals"] = out["globals"] \o GlobalRows
      /\ out'["aliases"] = out["aliases"] \o AliasRows
      /\ out'["modules"] = Append(out["modules"], [id |-> ModID, path |-> Short[infos[next].file]])
      /\ out'["modglobals"] = out["modglobals"] \o FuncRels \o GlobalRels \o AliasRels
      /\ \A t \in DOMAIN out \ (Kinds \cup {"modules", "modglobals"}) : out'[t] = out[t]
  BY <1>10, Zenon DEF Kinds, m, f, g, a, e
<1>7. \A t \in Kinds : out'[t] = out[t] \o NewRows[t]
  <2>1. /\ NewRows["funcs"] = FuncRows /\ NewRows["globals"] = GlobalRows
        /\ NewRows["aliases"] = AliasRows
    BY DEF NewRows
  <2>2. /\ out'["funcs"] = out["funcs"] \o NewRows["funcs"]
        /\ out'["globals"] = out["globals"] \o NewRows["globals"]
        /\ out'["aliases"] = out["aliases"] \o NewRows["aliases"]
    BY <1>6, <2>1, Zenon
  <2> QED
    BY <2>2, Zenon DEF Kinds
<1>8. out'["allexes"] = out["allexes"] /\ out'["contains"] = out["contains"]
  BY <1>4, <1>6 DEF Kinds
<1> QED
  BY <1>1, <1>3, <1>6, <1>7, <1>8

LEMMA NewValues ==
  ASSUME NeoModule, TablesType
  PROVE  /\ TablesType'
         /\ \A t \in Kinds : /\ Len(out'[t]) = Len(out[t]) + Len(NewRows[t])
                             /\ \A i \in 1 .. Len(out[t]) + Len(NewRows[t]) :
                                  out'[t][i] = IF i <= Len(out[t]) THEN out[t][i]
                                               ELSE NewRows[t][i - Len(out[t])]
         /\ \A t \in Kinds : Rows(t)' = Rows(t) \cup Values(NewRows[t])
         /\ Nodes' = Nodes \cup UNION {Values(NewRows[t]) : t \in Kinds}
         /\ Rows("modglobals")' = Rows("modglobals") \cup Values(RelsOfModule)
<1>1. /\ CanLoad(infos[next].file) /\ mem'.globalID \in Nat /\ mem.globalID \in Nat
      /\ DOMAIN mem' = DOMAIN mem /\ mem'.idx = mem.idx
      /\ DOMAIN out' = DOMAIN out
      /\ \A t \in Kinds : out'[t] = out[t] \o NewRows[t]
      /\ out'["modules"] = Append(out["modules"], [id |-> ModID, path |-> Short[infos[next].file]])
      /\ out'["modglobals"] = out["modglobals"] \o FuncRels \o GlobalRels \o AliasRels
      /\ \A t \in DOMAIN out \ (Kinds \cup {"modules", "modglobals"}) : out'[t] = out[t]
  BY ModuleAdds DEF TablesType
<1>2. Kinds \cup {"modules", "modglobals"} \subseteq DOMAIN out
  BY CommandAssumption DEF TablesType, Kinds
<1>3. ASSUME NEW t \in Kinds
      PROVE  /\ IsTable(out'[t])
             /\ Len(out'[t]) = Len(out[t]) + Len(NewRows[t])
             /\ \A i \in 1 .. Len(out[t]) + Len(NewRows[t]) :
                  out'[t][i] = IF i <= Len(out[t]) THEN out[t][i] ELSE NewRows[t][i - Len(out[t])]
             /\ Values(out'[t]) = Values(out[t]) \cup Values(NewRows[t])
  <2>1. IsTable(out[t]) /\ IsTable(NewRows[t]) /\ out'[t] = out[t] \o NewRows[t]
    BY <1>1, <1>2, NewFacts DEF TablesType
  <2>2. /\ IsTable(out[t] \o NewRows[t])
        /\ Len(out[t] \o NewRows[t]) = Len(out[t]) + Len(NewRows[t])
        /\ \A i \in 1 .. Len(out[t]) + Len(NewRows[t]) :
             (out[t] \o NewRows[t])[i] = IF i <= Len(out[t]) THEN out[t][i] ELSE NewRows[t][i - Len(out[t])]
        /\ Values(out[t] \o NewRows[t]) = Values(out[t]) \cup Values(NewRows[t])
    BY <2>1, ConcatTables
  <2> QED
    BY <2>1, <2>2, Zenon
<1>4. IsTable(out'["modules"])
  BY <1>1, <1>2, AppendToTable DEF TablesType
<1>5. /\ IsTable(out'["modglobals"])
      /\ Values(out'["modglobals"]) = Values(out["modglobals"]) \cup Values(FuncRels)
                                        \cup Values(GlobalRels) \cup Values(AliasRels)
  <2>1. IsTable(FuncRels) /\ IsTable(GlobalRels) /\ IsTable(AliasRels) /\ IsTable(out["modglobals"])
    <3>1. /\ NewRels["funcs"] = FuncRels /\ NewRels["globals"] = GlobalRels
          /\ NewRels["aliases"] = AliasRels
          /\ \A t \in Kinds : IsTable(NewRels[t])
      BY <1>1, NewFacts DEF NewRels
    <3> QED
      BY <1>2, <3>1 DEF TablesType, Kinds
  <2> DEFINE F == out["modglobals"] \o FuncRels
             G == F \o GlobalRels
  <2>2. IsTable(F) /\ Values(F) = Values(out["modglobals"]) \cup Values(FuncRels)
    BY <2>1, ConcatTables
  <2> HIDE DEF F
  <2>3. IsTable(G) /\ Values(G) = Values(F) \cup Values(GlobalRels)
    BY <2>1, <2>2, ConcatTables
  <2> HIDE DEF G
  <2>4. IsTable(G \o AliasRels) /\ Values(G \o AliasRels) = Values(G) \cup Values(AliasRels)
    BY <2>1, <2>3, ConcatTables
  <2>5. out'["modglobals"] = G \o AliasRels
    BY <1>1 DEF F, G
  <2> QED
    BY <2>2, <2>3, <2>4, <2>5
<1>6. TablesType'
  BY <1>1, <1>2, <1>3, <1>4, <1>5 DEF TablesType
<1>7. \A t \in Kinds : Rows(t)' = Rows(t) \cup Values(NewRows[t])
  BY <1>3 DEF Rows, Values
<1>8. Nodes' = Nodes \cup UNION {Values(NewRows[t]) : t \in Kinds}
  BY <1>7 DEF Nodes
<1>9. Rows("modglobals")' = Rows("modglobals") \cup Values(RelsOfModule)
  <2>1. /\ NewRels["funcs"] = FuncRels /\ NewRels["globals"] = GlobalRels
        /\ NewRels["aliases"] = AliasRels
    BY DEF NewRels
  <2>2. Values(RelsOfModule) = Values(FuncRels) \cup Values(GlobalRels) \cup Values(AliasRels)
    BY <1>1, <2>1, CountNewRels DEF Kinds
  <2>3. Rows("modglobals")' = Values(out'["modglobals"]) /\ Rows("modglobals") = Values(out["modglobals"])
    BY DEF Rows, Values
  <2> QED
    BY <1>5, <2>2, <2>3
<1> QED
  BY <1>3, <1>6, <1>7, <1>8, <1>9

ModulesRead == next \in Nat \ {0} /\ Len(infos) \in Nat /\ DOMAIN infos = 1 .. Len(infos)

WrittenInv == TablesType /\ NodesInv /\ RelsInv /\ ModulesInv /\ ImportedInv

LEMMA SameModID ==
  ASSUME UNCHANGED <<cmd, infos>>, NEW i
  PROVE  ModIDOf(i)' = ModIDOf(i)
BY DEF ModIDOf

\* A row is an old one or a new one.
LEMMA RowOfKind ==
  ASSUME NeoModule, TablesType, NEW t \in Kinds, NEW i \in DOMAIN out'[t]
  PROVE  \/ i \in DOMAIN out[t] /\ out'[t][i] = out[t][i] /\ out'[t][i] \in Nodes
         \/ \E k \in DOMAIN Parsed[t] : /\ i = Len(out[t]) + k
                                        /\ out'[t][i] = NewRows[t][k]
                                        /\ out'[t][i].id = First[t] + k - 1
<1>1. /\ Len(out'[t]) = Len(out[t]) + Len(NewRows[t])
      /\ \A j \in 1 .. Len(out[t]) + Len(NewRows[t]) :
           out'[t][j] = IF j <= Len(out[t]) THEN out[t][j] ELSE NewRows[t][j - Len(out[t])]
  BY NewValues
<1>2. t \in DOMAIN out /\ t \in DOMAIN out' /\ TablesType'
  BY NewValues, CommandAssumption DEF TablesType, Kinds
<1>3. /\ Len(out[t]) \in Nat /\ DOMAIN out[t] = 1 .. Len(out[t]) /\ DOMAIN out'[t] = 1 .. Len(out'[t])
  BY <1>2, TableFacts DEF TablesType
<1>4. /\ CanLoad(infos[next].file) /\ mem.globalID \in Nat
  BY ModuleAdds DEF TablesType
<1>5. /\ Len(NewRows[t]) = Len(Parsed[t]) /\ Len(Parsed[t]) \in Nat
      /\ DOMAIN Parsed[t] = 1 .. Len(Parsed[t])
      /\ \A k \in DOMAIN Parsed[t] : NewRows[t][k].id = First[t] + k - 1
  BY <1>4, NewFacts, ParsedFacts
<1>6. PICK m \in Nat, n \in Nat : m = Len(out[t]) /\ n = Len(Parsed[t])
  BY <1>3, <1>5
<1>7. /\ DOMAIN out[t] = 1 .. m /\ DOMAIN Parsed[t] = 1 .. n /\ i \in 1 .. m + n
      /\ out'[t][i] = IF i <= m THEN out[t][i] ELSE NewRows[t][i - m]
  <2>1. DOMAIN out[t] = 1 .. m /\ DOMAIN Parsed[t] = 1 .. n
    BY <1>3, <1>5, <1>6, Zenon
  <2>2. Len(out'[t]) = m + n /\ Len(out[t]) + Len(NewRows[t]) = m + n
    BY <1>1, <1>5, <1>6, Zenon
  <2>3. i \in 1 .. m + n
    BY <1>3, <2>2, Zenon
  <2> QED
    BY <1>1, <1>6, <2>1, <2>2, <2>3, Zenon
<1>8. CASE i <= m
  <2>1. i \in DOMAIN out[t] /\ out'[t][i] = out[t][i]
    BY <1>7, <1>8
  <2>2. out[t][i] \in Nodes
    <3>1. out[t][i] \in Rows(t)
      BY <2>1 DEF Rows
    <3> QED
      BY <3>1, Zenon DEF Nodes
  <2> QED
    BY <2>1, <2>2, Zenon
<1>9. CASE ~(i <= m)
  <2>1. i - m \in DOMAIN Parsed[t] /\ i = m + (i - m) /\ out'[t][i] = NewRows[t][i - m]
    BY <1>7, <1>9
  <2>2. i = Len(out[t]) + (i - m) /\ out'[t][i].id = First[t] + (i - m) - 1
    BY <1>5, <1>6, <2>1, Zenon
  <2> QED
    BY <2>1, <2>2, Zenon
<1> QED
  BY <1>8, <1>9

LEMMA ModuleNodes ==
  ASSUME NeoModule, WrittenInv
  PROVE  NodesInv'
<1>1. /\ CanLoad(infos[next].file) /\ mem.globalID \in Nat
      /\ mem'.globalID = mem.globalID + Globals(Parsed)
  BY ModuleAdds DEF WrittenInv, TablesType
<1>2. /\ \A t \in Kinds : /\ Len(Parsed[t]) \in Nat /\ DOMAIN Parsed[t] = 1 .. Len(Parsed[t])
                          /\ First[t] \in Nat /\ mem.globalID <= First[t]
                          /\ First[t] + Len(Parsed[t]) <= mem'.globalID
      /\ \A t, u \in Kinds : \/ t = u
                             \/ First[t] + Len(Parsed[t]) <= First[u]
                             \/ First[u] + Len(Parsed[u]) <= First[t]
      /\ Globals(Parsed) \in Nat
  BY <1>1, ParsedFacts
<1>3. ASSUME NEW t \in Kinds, NEW k \in DOMAIN Parsed[t]
      PROVE  /\ k \in Nat /\ First[t] + k - 1 \in Nat /\ mem.globalID <= First[t] + k - 1
             /\ First[t] <= First[t] + k - 1 /\ First[t] + k - 1 < First[t] + Len(Parsed[t])
             /\ First[t] + k - 1 < mem'.globalID
  <2>1. PICK f \in Nat, n \in Nat, m \in Nat, a \in Nat :
          /\ f = First[t] /\ n = Len(Parsed[t]) /\ m = mem.globalID /\ a = Globals(Parsed)
    BY <1>1, <1>2
  <2>2. k \in 1 .. n /\ m <= f /\ f + n <= m + a /\ mem'.globalID = m + a
    <3>1. f + n <= mem'.globalID /\ mem'.globalID = m + a /\ k \in 1 .. n /\ m <= f
      BY <1>1, <1>2, <2>1, Zenon
    <3> QED
      BY <3>1
  <2>3. /\ k \in Nat /\ f + k - 1 \in Nat /\ m <= f + k - 1 /\ f <= f + k - 1
        /\ f + k - 1 < f + n /\ f + k - 1 < m + a
    BY <2>2
  <2> QED
    BY <2>1, <2>2, <2>3, Zenon
<1>4. \A g \in Nodes : g.id \in Nat /\ g.id < mem.globalID
  BY DEF WrittenInv, NodesInv
<1>5. \A g \in Nodes' : g.id \in Nat /\ g.id < mem'.globalID
  <2> SUFFICES ASSUME NEW g \in Nodes' PROVE g.id \in Nat /\ g.id < mem'.globalID
    OBVIOUS
  <2>0. PICK t \in Kinds : \E i \in DOMAIN out'[t] : g = out'[t][i]
    BY DEF Nodes, Rows
  <2>1. PICK i \in DOMAIN out'[t] : g = out'[t][i]
    BY <2>0
  <2>2. CASE g \in Nodes
    BY <1>1, <1>2, <1>4, <2>2
  <2>3. CASE g \notin Nodes
    <3>1. PICK k \in DOMAIN Parsed[t] : g.id = First[t] + k - 1
      BY <2>1, <2>3, RowOfKind DEF WrittenInv
    <3> QED
      BY <1>3, <3>1
  <2> QED
    BY <2>2, <2>3
<1>6. ASSUME NEW t \in Kinds, NEW u \in Kinds, NEW i \in DOMAIN out'[t], NEW j \in DOMAIN out'[u],
             out'[t][i].id = out'[u][j].id
      PROVE  t = u /\ i = j
  <2> DEFINE Old(v, n) == n \in DOMAIN out[v] /\ out'[v][n] = out[v][n] /\ out'[v][n] \in Nodes
             Fresh(v, n, k) == k \in DOMAIN Parsed[v] /\ n = Len(out[v]) + k /\ out'[v][n].id = First[v] + k - 1
  <2>1. Old(t, i) \/ \E k : Fresh(t, i, k)
    BY RowOfKind DEF WrittenInv
  <2>2. Old(u, j) \/ \E k : Fresh(u, j, k)
    BY RowOfKind DEF WrittenInv
  <2>3. ASSUME Old(t, i), Old(u, j) PROVE t = u /\ i = j
    BY <1>6, <2>3 DEF WrittenInv, NodesInv, DifferentIDs
  <2>4. ASSUME NEW v \in Kinds, NEW n, Old(v, n), NEW w \in Kinds, NEW o, NEW k, Fresh(w, o, k)
        PROVE  out'[v][n].id # out'[w][o].id
    BY <1>1, <1>2, <1>3, <1>4, <2>4
  <2>5. ASSUME NEW k, NEW l, Fresh(t, i, k), Fresh(u, j, l) PROVE t = u /\ i = j
    <3>1. First[t] + k - 1 = First[u] + l - 1
      BY <1>6, <2>5
    <3>2. t = u
      <4> SUFFICES ASSUME t # u PROVE FALSE
        OBVIOUS
      <4>1. First[t] + Len(Parsed[t]) <= First[u] \/ First[u] + Len(Parsed[u]) <= First[t]
        BY <1>2
      <4>2. /\ First[t] <= First[t] + k - 1 /\ First[t] + k - 1 < First[t] + Len(Parsed[t])
            /\ First[u] <= First[u] + l - 1 /\ First[u] + l - 1 < First[u] + Len(Parsed[u])
        BY <1>3, <2>5
      <4>3. /\ First[t] \in Nat /\ First[u] \in Nat /\ Len(Parsed[t]) \in Nat /\ Len(Parsed[u]) \in Nat
            /\ k \in Nat /\ l \in Nat
        BY <1>2, <1>3, <2>5
      <4>4. ASSUME NEW a \in Nat, NEW b \in Nat, NEW x \in Nat, NEW y \in Nat,
                   a + x <= b \/ b + y <= a, a <= a + k - 1, a + k - 1 < a + x,
                   b <= b + l - 1, b + l - 1 < b + y, a + k - 1 = b + l - 1
            PROVE  FALSE
        BY <4>3, <4>4
      <4> QED
        BY <3>1, <4>1, <4>2, <4>3, <4>4
    <3>3. k = l
      <4>1. First[t] \in Nat /\ k \in Nat /\ l \in Nat /\ First[t] + k - 1 = First[t] + l - 1
        BY <1>2, <1>3, <2>5, <3>1, <3>2
      <4>2. ASSUME NEW a \in Nat, a + k - 1 = a + l - 1 PROVE k = l
        BY <4>1, <4>2
      <4> QED
        BY <4>1, <4>2
    <3> QED
      BY <2>5, <3>2, <3>3
  <2> HIDE DEF Old, Fresh
  <2> QED
    BY <1>6, <2>1, <2>2, <2>3, <2>4, <2>5
<1>7. DifferentIDs(Kinds)'
  BY <1>6 DEF DifferentIDs
<1> QED
  BY <1>5, <1>7 DEF NodesInv

LEMMA ModuleRels ==
  ASSUME NeoModule, WrittenInv, ModulesRead
  PROVE  RelsInv'
<1>1. /\ CanLoad(infos[next].file) /\ mem.globalID \in Nat /\ next' = next + 1 /\ UNCHANGED <<cmd, infos>>
  BY ModuleAdds DEF WrittenInv, TablesType, scanVars
<1> SUFFICES ASSUME NEW r \in Rows("modglobals")'
             PROVE  (\E i \in 1 .. next' - 1 : r.start = ModIDOf(i)') /\ (\E g \in Nodes' : g.id = r.end)
  BY DEF RelsInv
<1>2. Nodes' = Nodes \cup UNION {Values(NewRows[t]) : t \in Kinds}
  BY NewValues DEF WrittenInv
<1>3. PICK n \in Nat : n = next /\ 1 .. next' - 1 = 1 .. next - 1 \cup {n}
  BY <1>1 DEF ModulesRead
<1>4. CASE r \in Rows("modglobals")
  BY <1>1, <1>2, <1>3, <1>4, SameModID DEF WrittenInv, RelsInv
<1>5. CASE r \in Values(RelsOfModule)
  <2>1. PICK t \in Kinds : r \in Values(NewRels[t])
    BY <1>1, <1>5, CountNewRels
  <2>2. PICK i \in DOMAIN NewRels[t] : r = NewRels[t][i]
    BY <2>1 DEF Values
  <2>3. /\ DOMAIN NewRels[t] = DOMAIN Parsed[t] /\ DOMAIN NewRows[t] = DOMAIN Parsed[t]
        /\ NewRows[t][i].id = First[t] + i - 1 /\ r.end = First[t] + i - 1 /\ r.start = ModID
    BY <1>1, <2>2, NewFacts, ParsedFacts, TableFacts
  <2>4. NewRows[t][i] \in Nodes'
    BY <1>2, <2>2, <2>3 DEF Values
  <2>5. r.start = ModIDOf(n)'
    BY <1>1, <1>3, <2>3, SameModID DEF ModID
  <2> QED
    BY <1>3, <2>3, <2>4, <2>5
<1> QED
  BY <1>4, <1>5, NewValues DEF WrittenInv

LEMMA ModuleModules ==
  ASSUME NeoModule, WrittenInv, ModulesRead
  PROVE  ModulesInv'
<1>1. /\ out'["modules"] = Append(out["modules"], [id |-> ModID, path |-> Short[infos[next].file]])
      /\ next' = next + 1 /\ UNCHANGED <<cmd, infos>>
  BY ModuleAdds DEF WrittenInv, scanVars
<1>2. IsTable(out["modules"])
  BY CommandAssumption DEF WrittenInv, TablesType
<1>3. /\ Len(out["modules"]) = next - 1 /\ Len(out'["modules"]) = Len(out["modules"]) + 1
      /\ \A i \in 1 .. Len(out["modules"]) : out'["modules"][i] = out["modules"][i]
      /\ out'["modules"][Len(out["modules"]) + 1] = [id |-> ModID, path |-> Short[infos[next].file]]
  BY <1>1, <1>2, AppendToTable DEF WrittenInv, ModulesInv
<1>4. PICK n \in Nat : /\ n = next /\ 1 .. next' - 1 = 1 .. next - 1 \cup {n}
                       /\ next - 1 + 1 = n /\ next' - 1 = n
  BY <1>1 DEF ModulesRead
<1>5. out'["modules"][n].id = ModIDOf(n)'
  BY <1>1, <1>3, <1>4, SameModID DEF ModID
<1>6. \A i \in 1 .. next - 1 : out'["modules"][i].id = ModIDOf(i)'
  BY <1>1, <1>3, SameModID DEF WrittenInv, ModulesInv
<1> QED
  BY <1>3, <1>4, <1>5, <1>6 DEF ModulesInv

LEMMA NodeByIDNext ==
  ASSUME DifferentIDs(Kinds)', NEW g \in Nodes', NEW h \in Nodes', g.id = h.id
  PROVE  g = h
<1>1. PICK t \in Kinds, u \in Kinds : g \in Rows(t)' /\ h \in Rows(u)'
  BY DEF Nodes
<1>2. PICK i \in DOMAIN out'[t], j \in DOMAIN out'[u] : g = out'[t][i] /\ h = out'[u][j]
  BY <1>1 DEF Rows
<1> QED
  BY <1>2 DEF DifferentIDs

LEMMA InImportedNext ==
  ASSUME NEW m, NEW x
  PROVE  x \in ImportedSymbols(m)' <=>
           \E r \in RelsOf(m)' : \E g \in Nodes' : g.id = r.end /\ x = <<g.name, r.type>>
<1>1. \A g : g \in Nodes' <=> g \in Rows("funcs")' \cup Rows("globals")' \cup Rows("aliases")'
  BY DEF Nodes, Kinds
<1> QED
  BY <1>1 DEF ImportedSymbols, RelsOf

\* The relationships of a module lead to its rows.
LEMMA RelsLead ==
  ASSUME NeoModule, WrittenInv
  PROVE  /\ \A r : r \in Values(RelsOfModule) <=>
                     \E t \in Kinds : \E k \in DOMAIN Parsed[t] : r = NewRels[t][k]
         /\ \A t \in Kinds : \A k \in DOMAIN Parsed[t] :
              /\ NewRels[t][k].start = ModID
              /\ NewRows[t][k] \in Nodes' /\ NewRows[t][k].id = NewRels[t][k].end
              /\ NewRows[t][k].name = Parsed[t][k].name
<1>1. CanLoad(infos[next].file) /\ mem.globalID \in Nat
  BY ModuleAdds DEF WrittenInv, TablesType
<1>2. Nodes' = Nodes \cup UNION {Values(NewRows[t]) : t \in Kinds}
  BY NewValues DEF WrittenInv
<1>3. \A t \in Kinds : DOMAIN NewRels[t] = DOMAIN Parsed[t] /\ DOMAIN NewRows[t] = DOMAIN Parsed[t]
  BY <1>1, NewFacts, ParsedFacts, TableFacts
<1>4. ASSUME NEW r
      PROVE  r \in Values(RelsOfModule) <=>
               \E t \in Kinds : \E k \in DOMAIN Parsed[t] : r = NewRels[t][k]
  <2>1. r \in Values(RelsOfModule) <=> \E t \in Kinds : r \in Values(NewRels[t])
    BY <1>1, CountNewRels
  <2>2. \A t \in Kinds : r \in Values(NewRels[t]) <=> \E k \in DOMAIN Parsed[t] : r = NewRels[t][k]
    BY <1>3 DEF Values
  <2> QED
    BY <2>1, <2>2
<1>5. ASSUME NEW t \in Kinds, NEW k \in DOMAIN Parsed[t]
      PROVE  /\ NewRels[t][k].start = ModID
             /\ NewRows[t][k] \in Nodes' /\ NewRows[t][k].id = NewRels[t][k].end
             /\ NewRows[t][k].name = Parsed[t][k].name
  <2>1. NewRows[t][k] \in Values(NewRows[t])
    BY <1>3 DEF Values
  <2>2. NewRows[t][k] \in Nodes'
    BY <1>2, <2>1
  <2> QED
    BY <1>1, <2>2, NewFacts
<1> QED
  BY <1>4, <1>5

LEMMA ImportedBefore ==
  ASSUME NeoModule, WrittenInv, ModulesRead, NodesInv', DifferentModules, NEW i \in 1 .. next - 1
  PROVE  Imported(i)'
<1>1. /\ CanLoad(infos[next].file) /\ mem.globalID \in Nat /\ next <= Len(infos)
      /\ UNCHANGED <<cmd, infos>>
  BY ModuleAdds DEF WrittenInv, TablesType, scanVars
<1>2. i # next /\ i \in DOMAIN infos /\ next \in DOMAIN infos
  BY <1>1 DEF ModulesRead
<1>0. PICK m : m = ModIDOf(i)
  OBVIOUS
<1>3. m # ModID /\ ModIDOf(i)' = m
  BY <1>0, <1>1, <1>2, SameModID DEF DifferentModules, ModID
<1>4. Rows("modglobals")' = Rows("modglobals") \cup Values(RelsOfModule)
  BY NewValues DEF WrittenInv
<1>5. \A r \in Values(RelsOfModule) : r.start = ModID
  BY RelsLead
<1>6. RelsOf(m)' = RelsOf(m)
  BY <1>3, <1>4, <1>5 DEF RelsOf
<1>7. \A x : x \in ImportedSymbols(m)' <=> x \in ImportedSymbols(m)
  <2> SUFFICES ASSUME NEW x PROVE x \in ImportedSymbols(m)' <=> x \in ImportedSymbols(m)
    OBVIOUS
  <2>1. Nodes \subseteq Nodes'
    BY NewValues DEF WrittenInv
  <2>2. \A r \in RelsOf(m) : \E g \in Nodes : g.id = r.end
    BY DEF RelsOf, WrittenInv, RelsInv
  <2>3. ASSUME NEW r \in RelsOf(m), NEW g \in Nodes', g.id = r.end
        PROVE  g \in Nodes
    <3>1. PICK h \in Nodes : h.id = r.end
      BY <2>2
    <3>2. g = h
      BY <2>1, <2>3, <3>1, NodeByIDNext DEF NodesInv
    <3> QED
      BY <3>2
  <2>4. x \in ImportedSymbols(m)' <=>
          \E r \in RelsOf(m) : \E g \in Nodes' : g.id = r.end /\ x = <<g.name, r.type>>
    BY <1>6, InImportedNext
  <2>5. x \in ImportedSymbols(m) <=>
          \E r \in RelsOf(m) : \E g \in Nodes : g.id = r.end /\ x = <<g.name, r.type>>
    BY InImported
  <2> QED
    BY <2>1, <2>3, <2>4, <2>5
<1>8. ImportedSymbols(m)' = ImportedSymbols(m)
  <2>1. ImportedSymbols(m) = UNION {{<<g.name, r.type>> : g \in {g \in Rows("funcs") \cup Rows("globals") \cup Rows("aliases") :
                                        g.id = r.end}} :
         r \in {r \in Rows("modglobals") : r.start = m}}
    BY DEF ImportedSymbols
  <2> QED
    BY <1>7 DEF ImportedSymbols
<1>9. Imported(i)
  BY DEF WrittenInv, ImportedInv
<1>10. ImportedSymbols(m) = SymbolsOf(Content[infos[i].file])
       /\ Cardinality(RelsOf(m)) = Globals(Content[infos[i].file])
  BY <1>0, <1>9 DEF Imported
<1>11. Imported(i)' <=> /\ ImportedSymbols(m)' = SymbolsOf(Content[infos[i].file])
                        /\ Cardinality(RelsOf(m)') = Globals(Content[infos[i].file])
  BY <1>1, <1>3 DEF Imported
<1> QED
  BY <1>6, <1>8, <1>10, <1>11

LEMMA ImportedNow ==
  ASSUME NeoModule, WrittenInv, ModulesRead, NodesInv', DifferentModules, NEW n, n = next
  PROVE  Imported(n)'
<1>1. /\ CanLoad(infos[next].file) /\ mem.globalID \in Nat /\ next <= Len(infos)
      /\ UNCHANGED <<cmd, infos>>
  BY ModuleAdds DEF WrittenInv, TablesType, scanVars
<1>0. PICK m : m = ModID
  OBVIOUS
<1>2. ModIDOf(n)' = m
  BY <1>0, <1>1, SameModID DEF ModID
<1>3. \A r \in Rows("modglobals") : r.start # m
  <2> SUFFICES ASSUME NEW r \in Rows("modglobals") PROVE r.start # m
    OBVIOUS
  <2>1. PICK i \in 1 .. next - 1 : r.start = ModIDOf(i)
    BY DEF WrittenInv, RelsInv
  <2>2. i # next /\ i \in DOMAIN infos /\ next \in DOMAIN infos
    BY <1>1 DEF ModulesRead
  <2> QED
    BY <1>0, <2>1, <2>2 DEF DifferentModules, ModID
<1>4. Rows("modglobals")' = Rows("modglobals") \cup Values(RelsOfModule)
  BY NewValues DEF WrittenInv
<1>5. \A r \in Values(RelsOfModule) : r.start = m
  BY <1>0, RelsLead
<1>6. RelsOf(m)' = Values(RelsOfModule)
  BY <1>3, <1>4, <1>5 DEF RelsOf
<1>7. \A x : x \in ImportedSymbols(m)' <=> x \in SymbolsOf(Parsed)
  <2> SUFFICES ASSUME NEW x PROVE x \in ImportedSymbols(m)' <=> x \in SymbolsOf(Parsed)
    OBVIOUS
  <2>1. x \in SymbolsOf(Parsed) <=>
          \E t \in Kinds : \E k \in DOMAIN Parsed[t] : x = <<Parsed[t][k].name, NewRels[t][k].type>>
    BY <1>1, SymbolsParsed
  <2>2. x \in ImportedSymbols(m)' <=>
          \E r \in Values(RelsOfModule) : \E g \in Nodes' : g.id = r.end /\ x = <<g.name, r.type>>
    BY <1>6, InImportedNext
  <2>3. ASSUME NEW t \in Kinds, NEW k \in DOMAIN Parsed[t]
        PROVE  /\ NewRels[t][k] \in Values(RelsOfModule)
               /\ NewRows[t][k] \in Nodes' /\ NewRows[t][k].id = NewRels[t][k].end
               /\ NewRows[t][k].name = Parsed[t][k].name
               /\ \A g \in Nodes' : g.id = NewRels[t][k].end => g.name = Parsed[t][k].name
    <3>1. /\ NewRels[t][k] \in Values(RelsOfModule)
          /\ NewRows[t][k] \in Nodes' /\ NewRows[t][k].id = NewRels[t][k].end
          /\ NewRows[t][k].name = Parsed[t][k].name
      BY RelsLead
    <3>2. \A g \in Nodes' : g.id = NewRels[t][k].end => g = NewRows[t][k]
      BY <3>1, NodeByIDNext DEF NodesInv
    <3> QED
      BY <3>1, <3>2
  <2>4. ASSUME NEW r \in Values(RelsOfModule), NEW g \in Nodes', g.id = r.end, x = <<g.name, r.type>>
        PROVE  \E t \in Kinds : \E k \in DOMAIN Parsed[t] : x = <<Parsed[t][k].name, NewRels[t][k].type>>
    <3>1. PICK t \in Kinds : \E k \in DOMAIN Parsed[t] : r = NewRels[t][k]
      BY RelsLead
    <3>2. PICK k \in DOMAIN Parsed[t] : r = NewRels[t][k]
      BY <3>1
    <3> QED
      BY <2>3, <2>4, <3>2
  <2>5. ASSUME NEW t \in Kinds, NEW k \in DOMAIN Parsed[t], x = <<Parsed[t][k].name, NewRels[t][k].type>>
        PROVE  \E r \in Values(RelsOfModule) : \E g \in Nodes' : g.id = r.end /\ x = <<g.name, r.type>>
    BY <2>3, <2>5
  <2> QED
    BY <2>1, <2>2, <2>4, <2>5
<1>8. ImportedSymbols(m)' = SymbolsOf(Parsed)
  <2> DEFINE A == SymbolsOf(Parsed)
  <2>1. SymbolsOf(Parsed) = Symbols(Parsed.funcs) \cup Symbols(Parsed.globals)
           \cup {<<Parsed.aliases[i].name, "DEFINES">> : i \in DOMAIN Parsed.aliases}
    BY DEF SymbolsOf
  <2>2. \A x : x \in ImportedSymbols(m)' <=> x \in A
    BY <1>7
  <2> HIDE DEF A
  <2>3. ImportedSymbols(m)' = A
    BY <2>2 DEF ImportedSymbols
  <2> QED
    BY <2>3 DEF A
<1>9. Cardinality(RelsOf(m)') = Globals(Parsed)
  BY <1>1, <1>6, CountNewRels
<1>10. Imported(n)' <=> /\ ImportedSymbols(m)' = SymbolsOf(Content[infos[n].file])
                        /\ Cardinality(RelsOf(m)') = Globals(Content[infos[n].file])
  BY <1>1, <1>2 DEF Imported
<1> QED
  BY <1>8, <1>9, <1>10 DEF Parsed

LEMMA ModuleWritten ==
  ASSUME NeoModule, WrittenInv, ModulesRead, DifferentModules
  PROVE  WrittenInv'
<1>1. TablesType' /\ NodesInv' /\ RelsInv' /\ ModulesInv'
  BY NewValues, ModuleNodes, ModuleRels, ModuleModules DEF WrittenInv
<1>2. next' = next + 1
  BY ModuleAdds DEF WrittenInv
<1>3. \A i \in 1 .. next' - 1 : i \in 1 .. next - 1 \/ i = next
  BY <1>2 DEF ModulesRead
<1>4. ASSUME NEW i \in 1 .. next' - 1 PROVE Imported(i)'
  BY <1>1, <1>3, ImportedBefore, ImportedNow
<1> QED
  BY <1>1, <1>4 DEF WrittenInv, ImportedInv

LEMMA WrittenSame ==
  ASSUME WrittenInv, UNCHANGED <<cmd, infos, next>>, TablesType', mem'.globalID = mem.globalID,
         \A t \in Kinds \cup {"modules", "modglobals"} : out'[t] = out[t]
  PROVE  WrittenInv'
<1>1. \A t \in Kinds : Rows(t)' = Rows(t)
  BY DEF Rows
<1>2. Nodes' = Nodes /\ Rows("modglobals")' = Rows("modglobals") /\ out'["modules"] = out["modules"]
  BY <1>1 DEF Nodes, Rows
<1>3. DifferentIDs(Kinds)'
  BY DEF WrittenInv, NodesInv, DifferentIDs
<1>4. NodesInv'
  BY <1>2, <1>3 DEF WrittenInv, NodesInv
<1>5. RelsInv'
  BY <1>2, SameModID DEF WrittenInv, RelsInv
<1>6. ModulesInv'
  BY <1>2, SameModID DEF WrittenInv, ModulesInv
<1>7. ASSUME NEW i \in 1 .. next - 1 PROVE Imported(i)'
  <2>1. PICK m : m = ModIDOf(i) /\ m = ModIDOf(i)'
    BY SameModID
  <2>2. RelsOf(m)' = RelsOf(m)
    BY <1>2 DEF RelsOf
  <2>3. ImportedSymbols(m)' = ImportedSymbols(m)
    BY <1>1, <1>2 DEF ImportedSymbols, Kinds
  <2>4. ImportedSymbols(m) = SymbolsOf(Content[infos[i].file])
        /\ Cardinality(RelsOf(m)) = Globals(Content[infos[i].file])
    BY <2>1 DEF WrittenInv, ImportedInv, Imported
  <2>5. Imported(i)' <=> /\ ImportedSymbols(m)' = SymbolsOf(Content[infos[i].file])
                         /\ Cardinality(RelsOf(m)') = Globals(Content[infos[i].file])
    BY <2>1 DEF Imported
  <2> QED
    BY <2>2, <2>3, <2>4, <2>5
<1> QED
  BY <1>4, <1>5, <1>6, <1>7 DEF WrittenInv, ImportedInv

LEMMA ContainsTable ==
  ASSUME DataInv, NEW i \in DOMAIN allexes
  PROVE  /\ IsTable(ContainsRows(i))
         /\ \A r : r \in Values(ContainsRows(i)) <=>
              \E k \in DOMAIN allexes[i].modules :
                r = [start |-> i - 1, index |-> k - 1, end |-> allexes[i].modules[k].crc]
<1>1. allexes[i] \in AllexeType
  BY ElementOfSeq, LenProperties DEF DataInv, DataType
<1>2. Len(allexes[i].modules) \in Nat /\ DOMAIN allexes[i].modules = 1 .. Len(allexes[i].modules)
  BY <1>1, LenProperties DEF AllexeType
<1>3. ContainsRows(i) = [k \in 1 .. Len(allexes[i].modules) |->
          [start |-> i - 1, index |-> k - 1, end |-> allexes[i].modules[k].crc]]
  BY <1>2 DEF ContainsRows
<1>4. IsTable(ContainsRows(i))
  <2>1. ContainsRows(i) \in [1 .. Len(allexes[i].modules) ->
          {[start |-> i - 1, index |-> k - 1, end |-> allexes[i].modules[k].crc] :
             k \in 1 .. Len(allexes[i].modules)}]
    BY <1>3
  <2> QED
    BY <1>2, <2>1, FunctionIsTable
<1>5. /\ DOMAIN ContainsRows(i) = DOMAIN allexes[i].modules
      /\ \A k \in DOMAIN allexes[i].modules : ContainsRows(i)[k] =
           [start |-> i - 1, index |-> k - 1, end |-> allexes[i].modules[k].crc]
  BY <1>2, <1>3
<1>6. ASSUME NEW r
      PROVE  r \in Values(ContainsRows(i)) <=>
               \E k \in DOMAIN allexes[i].modules : r = ContainsRows(i)[k]
  <2>1. r \in Values(ContainsRows(i)) <=> \E k \in DOMAIN ContainsRows(i) : r = ContainsRows(i)[k]
    <3> DEFINE s == ContainsRows(i)
    <3> HIDE DEF s
    <3>1. r \in Values(s) <=> \E k \in DOMAIN s : r = s[k]
      BY DEF Values
    <3> QED
      BY <3>1 DEF s
  <2> QED
    BY <1>5, <2>1
<1> SUFFICES ASSUME NEW r
             PROVE  r \in Values(ContainsRows(i)) <=>
                      \E k \in DOMAIN allexes[i].modules :
                        r = [start |-> i - 1, index |-> k - 1, end |-> allexes[i].modules[k].crc]
  BY <1>4
<1> DEFINE row(k) == [start |-> i - 1, index |-> k - 1, end |-> allexes[i].modules[k].crc]
<1>7. \A k \in DOMAIN allexes[i].modules : ContainsRows(i)[k] = row(k)
  BY <1>5, Zenon
<1> HIDE DEF row
<1>8. r \in Values(ContainsRows(i)) <=> \E k \in DOMAIN allexes[i].modules : r = row(k)
  BY <1>6, <1>7
<1> QED
  BY <1>8, Zenon DEF row

LEMMA AllexeWritten ==
  ASSUME NeoAllexe, WrittenInv, AllexesInv, DataInv
  PROVE  WrittenInv' /\ AllexesInv'
<1>1. /\ UNCHANGED <<cmd, infos, allexes, next>> /\ cmd.name = "neocsv" /\ mem.idx < Len(allexes)
      /\ mem' = [mem EXCEPT !.idx = @ + 1]
      /\ out' = [out EXCEPT
           !["allexes"] = Append(@, [id |-> mem.idx, path |-> Short[allexes[mem.idx + 1].file]]),
           !["contains"] = @ \o ContainsRows(mem.idx + 1)]
  BY Zenon DEF NeoAllexe, ModulesDone, scanVars
<1>2. {"modules", "funcs", "allexes", "contains", "globals", "modglobals", "aliases"} \subseteq DOMAIN out
  BY CommandAssumption DEF WrittenInv, TablesType
<1>3. PICK n \in Nat : n = mem.idx
  BY DEF WrittenInv, TablesType
<1> DEFINE a == Append(out["allexes"], [id |-> mem.idx, path |-> Short[allexes[mem.idx + 1].file]])
           c == out["contains"] \o ContainsRows(mem.idx + 1)
<1>4. out' = [out EXCEPT !["allexes"] = a, !["contains"] = c]
  BY <1>1, Zenon
<1> HIDE DEF a, c
<1>5. /\ DOMAIN out' = DOMAIN out /\ out'["allexes"] = a /\ out'["contains"] = c
      /\ \A t \in DOMAIN out \ {"allexes", "contains"} : out'[t] = out[t]
  BY <1>2, <1>4
<1>6. /\ DOMAIN mem' = DOMAIN mem /\ mem'.globalID = mem.globalID /\ mem'.idx = n + 1
  BY <1>1, <1>3 DEF WrittenInv, TablesType
<1>7. Len(allexes) \in Nat /\ DOMAIN allexes = 1 .. Len(allexes) /\ n + 1 \in DOMAIN allexes
  BY <1>1, <1>3, LenProperties DEF DataInv, DataType
<1>8. /\ IsTable(a) /\ Len(a) = Len(out["allexes"]) + 1
      /\ \A i \in 1 .. Len(out["allexes"]) : a[i] = out["allexes"][i]
      /\ a[Len(out["allexes"]) + 1] = [id |-> n, path |-> Short[allexes[n + 1].file]]
  <2>1. IsTable(out["allexes"])
    BY <1>2 DEF WrittenInv, TablesType
  <2> QED
    BY <1>3, <2>1, AppendToTable DEF a
<1>9. /\ IsTable(c) /\ Values(c) = Values(out["contains"]) \cup Values(ContainsRows(n + 1))
  <2>1. IsTable(out["contains"]) /\ IsTable(ContainsRows(n + 1))
    BY <1>2, <1>7, ContainsTable DEF WrittenInv, TablesType
  <2>2. IsTable(out["contains"] \o ContainsRows(n + 1))
        /\ Values(out["contains"] \o ContainsRows(n + 1)) = Values(out["contains"]) \cup Values(ContainsRows(n + 1))
    BY <2>1, ConcatTables
  <2> QED
    BY <1>3, <2>2 DEF c
<1>10. TablesType'
  BY <1>2, <1>5, <1>6, <1>8, <1>9 DEF WrittenInv, TablesType
<1>11. WrittenInv'
  <2>1. \A t \in Kinds \cup {"modules", "modglobals"} : out'[t] = out[t]
    BY <1>2, <1>5 DEF Kinds
  <2> QED
    BY <1>1, <1>6, <1>10, <2>1, WrittenSame
<1>12. Len(out["allexes"]) = n /\ Len(out'["allexes"]) = n + 1 /\ n + 1 <= Len(allexes')
  BY <1>1, <1>3, <1>5, <1>7, <1>8 DEF AllexesInv
<1>13. \A i \in 1 .. n + 1 : out'["allexes"][i].id = i - 1
  <2>1. \A i \in 1 .. n : out'["allexes"][i].id = i - 1
    BY <1>3, <1>5, <1>8, <1>12 DEF AllexesInv
  <2>2. out'["allexes"][n + 1].id = n
    BY <1>5, <1>8, <1>12
  <2>3. 1 .. n + 1 = 1 .. n \cup {n + 1} /\ n + 1 - 1 = n
    OBVIOUS
  <2> QED
    BY <2>1, <2>2, <2>3
<1>14. ASSUME NEW r
       PROVE  r \in Rows("contains")' <=> \E i \in 1 .. n + 1 : r \in Values(ContainsRows(i))'
  <2>1. Rows("contains")' = Rows("contains") \cup Values(ContainsRows(n + 1))
    BY <1>5, <1>9 DEF Rows, Values
  <2>2. r \in Rows("contains") <=> \E i \in 1 .. n : r \in Values(ContainsRows(i))
    BY <1>3 DEF AllexesInv
  <2>3. \A i : Values(ContainsRows(i))' = Values(ContainsRows(i))
    BY <1>1 DEF Values, ContainsRows
  <2>4. 1 .. n + 1 = 1 .. n \cup {n + 1}
    OBVIOUS
  <2> QED
    BY <2>1, <2>2, <2>3, <2>4
<1>15. AllexesInv'
  BY <1>1, <1>6, <1>12, <1>13, <1>14 DEF AllexesInv
<1> QED
  BY <1>11, <1>15

LEMMA AllexesSame ==
  ASSUME AllexesInv, UNCHANGED <<cmd, allexes>>, mem'.idx = mem.idx,
         out'["allexes"] = out["allexes"], out'["contains"] = out["contains"]
  PROVE  AllexesInv'
<1>1. Rows("contains")' = Rows("contains") /\ \A i : Values(ContainsRows(i))' = Values(ContainsRows(i))
  BY DEF Rows, Values, ContainsRows
<1>2. ASSUME NEW r PROVE r \in Rows("contains")' <=> \E i \in 1 .. mem'.idx : r \in Values(ContainsRows(i))'
  BY <1>1 DEF AllexesInv
<1> QED
  BY <1>2 DEF AllexesInv

LEMMA TablesStart ==
  ASSUME NeoOpen, next = 1, DataInv
  PROVE  WrittenInv' /\ AllexesInv'
<1>1. /\ UNCHANGED <<cmd, infos, allexes, next>>
      /\ mem' = [globalID |-> 0, idx |-> 0] /\ out' = [o \in Output |-> <<>>]
  BY DEF NeoOpen, scanVars
<1>2. DOMAIN <<>> = {} /\ Len(<<>>) = 0 /\ IsTable(<<>>)
  <2>1. <<>> \in Seq({}) /\ Len(<<>>) = 0
    BY EmptySeq
  <2>2. IsTable(<<>>)
    BY <2>1, InTable
  <2>3. DOMAIN <<>> = {}
    OBVIOUS
  <2> QED
    BY <2>1, <2>2, <2>3
<1>3. /\ \A t \in Output : out'[t] = <<>> /\ Rows(t)' = {}
      /\ \A t \in Output : DOMAIN out'[t] = {}
  BY <1>1, <1>2 DEF Rows
<1>4. Kinds \cup {"modules", "modglobals", "allexes", "contains"} \subseteq Output
  BY CommandAssumption DEF Kinds
<1>5. TablesType'
  BY <1>1, <1>2 DEF TablesType
<1>6. Nodes' = {} /\ Rows("modglobals")' = {} /\ Rows("contains")' = {}
  BY <1>3, <1>4 DEF Nodes
<1>7. DifferentIDs(Kinds)'
  BY <1>3, <1>4 DEF DifferentIDs
<1>8. 1 .. next' - 1 = {} /\ next' - 1 = 0 /\ 1 .. 0 = {} /\ mem'.idx = 0
  BY <1>1
<1>9. WrittenInv'
  <2>1. NodesInv' /\ RelsInv'
    BY <1>6, <1>7 DEF NodesInv, RelsInv
  <2>2. ModulesInv' /\ ImportedInv'
    BY <1>2, <1>3, <1>4, <1>8 DEF ModulesInv, ImportedInv
  <2> QED
    BY <1>5, <2>1, <2>2 DEF WrittenInv
<1>10. Len(allexes) \in Nat
  BY LenProperties DEF DataInv, DataType
<1>11. Len(out'["allexes"]) = 0
  BY <1>2, <1>3, <1>4
<1>12. AllexesInv'
  BY <1>1, <1>6, <1>8, <1>10, <1>11 DEF AllexesInv
<1> QED
  BY <1>9, <1>12

-----------------------------------------------------------------------------
(***************************************************************************)
(* While, and after, they are written the tables agree with the database,  *)
(* which then no longer changes.                                           *)
(***************************************************************************)
Writing == cmd.name \in Neo /\ (stage = "modules" \/ (stage \in {"close", "success"} /\ kept))

AllWritten == next = Len(infos) + 1 /\ (cmd.name = "neocsv" => mem.idx = Len(allexes))

TablesInv ==
  /\ cmd.name = "neocsv" => mode = "allexes"
  /\ Writing => /\ pc = "done" /\ WrittenInv /\ AllexesInv
                /\ stage # "modules" => AllWritten

LEMMA DoneRests ==
  ASSUME Scanning
  PROVE  mode' = mode /\ (pc = "done" => UNCHANGED <<pc, infos, allexes, adding>>)
<1> USE DEF fsVars, dbVars
<1>1. ASSUME ScanStep PROVE mode' = mode /\ pc # "done"
  <2>1. pc # "done"
    BY <1>1 DEF ScanStep, Start, SkipUnreachable, SkipUnwanted, VisitFile, OpenAllexe, MoreModules,
       AddKnownModule, AddModule, AddAllexe, AddBitcode, Increment, NextEntry, LeaveDirectory
  <2>2. mode' = mode
    BY <1>1 DEF ScanStep, Start, SkipUnreachable, SkipUnwanted, VisitFile, OpenAllexe,
       AddKnownModule, AddModule, AddAllexe, AddBitcode, Increment, NextEntry, LeaveDirectory
  <2> QED
    BY <2>1, <2>2
<1>2. ASSUME NEW p, Unlink(p) \/ Vanish(p) PROVE UNCHANGED <<mode, pc, infos, allexes, adding>>
  BY <1>2 DEF Unlink, Vanish
<1> QED
  BY <1>1, <1>2 DEF Scanning, Next, scanVars

LEMMA TablesRest ==
  ASSUME TablesInv, Scanning, UNCHANGED <<cmd, next, mem, out>>,
         Writing' => Writing /\ (stage' # "modules" => stage # "modules")
  PROVE  TablesInv'
<1>1. mode' = mode /\ (pc = "done" => UNCHANGED <<pc, infos, allexes, adding>>)
  BY DoneRests
<1>2. ASSUME Writing' PROVE pc' = "done" /\ WrittenInv' /\ AllexesInv' /\ (stage' # "modules" => AllWritten')
  <2>1. Writing /\ pc = "done" /\ UNCHANGED <<pc, infos, allexes>>
    BY <1>1, <1>2 DEF TablesInv
  <2>2. WrittenInv /\ AllexesInv /\ (stage' # "modules" => AllWritten)
    BY <1>2, <2>1 DEF TablesInv
  <2>3. TablesType'
    BY <2>2 DEF WrittenInv, TablesType
  <2>4. WrittenInv'
    BY <2>1, <2>2, <2>3, WrittenSame
  <2>5. AllexesInv'
    BY <2>1, <2>2, AllexesSame
  <2>6. stage' # "modules" => AllWritten'
    BY <2>1, <2>2 DEF AllWritten
  <2> QED
    BY <2>1, <2>4, <2>5, <2>6
<1> QED
  BY <1>1, <1>2 DEF TablesInv

LEMMA NotOfNeo ==
  ASSUME ReportStep \/ GraphStep \/ BundleStep, IsAtEmit, "name" \in DOMAIN cmd
  PROVE  cmd'.name \notin Neo
<1>1. CASE ReportStep
  BY <1>1, Zenon DEF ReportStep, SearchStart, AsmModule, SearchAborts, SearchModule, AsmReport, UsesReport,
     TomlReport, Loaded, ReadsModule, ReadsModules, ModulesDone, Searches, Neo, Succeed
<1>2. CASE GraphStep
  BY <1>2, Zenon DEF GraphStep, GraphCommand, HashStart, HashModule, HashSort, HashEmitGraph, EmitGraph,
     HashEmitCSV, HashEmitNothing, Loaded, ReadsModule, ReadsModules, ModulesDone, Neo, Succeed, IsAtEmit
<1>3. CASE UncombineOutput
  BY <1>3 DEF UncombineOutput, Neo
<1>4. CASE BundleStep /\ ~UncombineOutput
  BY <1>4, Zenon DEF BundleStep, CombineStart, CombineModule, CombineWrite, TakeApart, UncombinePart,
     DecomposePart, TakenApart, PrintSource, Loaded, ReadsModule, ReadsModules, ModulesDone, HasPart,
     Takers, Neo, Succeed
<1> QED
  BY <1>1, <1>2, <1>3, <1>4

\* Modules that are in the database have different numbers in the tables.
LEMMA ModulesDiffer ==
  ASSUME TablesInv, DataInv, cmd.name \in Neo
  PROVE  DifferentModules
<1>1. DOMAIN infos = 1 .. Len(infos)
  BY LenProperties DEF DataInv, DataType
<1>2. CASE cmd.name = "neocsv"
  BY <1>2 DEF TablesInv, DataInv, DifferentModules, ModIDOf
<1>3. CASE cmd.name # "neocsv"
  <2>1. \A i, j \in 1 .. Len(infos) : i - 1 = j - 1 => i = j
    OBVIOUS
  <2> QED
    BY <1>1, <1>3, <2>1 DEF DifferentModules, ModIDOf
<1> QED
  BY <1>2, <1>3

LEMMA TablesExport ==
  ASSUME TablesInv, OutputInv, PositionInv, DataInv, ExportStep
  PROVE  TablesInv'
<1>1. \/ NeoOpen \/ NeoAborts \/ NeoModule \/ NeoAllexe \/ NeoFinish
      \/ CypherOpen \/ CypherModule \/ CypherFinish
  BY DEF ExportStep
<1>2. /\ UNCHANGED scanVars /\ UNCHANGED cmd
  BY <1>1, Zenon DEF NeoOpen, NeoAborts, NeoModule, NeoAllexe, NeoFinish, CypherOpen, CypherModule,
     CypherFinish, Succeed
<1>3. UNCHANGED <<mode, pc, infos, allexes>>
  BY <1>2 DEF scanVars
<1>4. Scanning
  BY <1>2 DEF Scanning, Next
<1>5. ASSUME ~Writing' PROVE TablesInv'
  BY <1>2, <1>3, <1>5 DEF TablesInv
<1>6. DataInv => ModulesRead
  BY LenProperties DEF PositionInv, DataInv, DataType, ModulesRead
<1>7. CASE CypherOpen \/ CypherModule \/ CypherFinish
  <2>1. cmd.name = "cypher"
    BY <1>7 DEF CypherOpen, CypherModule, CypherFinish, Loaded, ModulesDone
  <2> QED
    BY <1>2, <1>5, <2>1 DEF Writing, Neo
<1>8. CASE NeoAborts
  <2>1. stage' = "aborted"
    BY <1>8 DEF NeoAborts, Abort
  <2> QED
    BY <1>5, <2>1 DEF Writing
<1>9. CASE NeoOpen
  <2>1. stage = "scan" /\ pc = "done" /\ cmd.name \in Neo /\ UNCHANGED kept /\ stage' \in {"modules", "close"}
    BY <1>9 DEF NeoOpen, Loaded
  <2>2. next = 1 /\ ~kept
    BY <2>1 DEF PositionInv, OutputInv, KeptInv, KeptOutputs, Early
  <2>3. WrittenInv' /\ AllexesInv'
    BY <1>9, <2>2, TablesStart
  <2> QED
    BY <1>2, <1>3, <2>1, <2>2, <2>3 DEF TablesInv, Writing
<1>10. CASE NeoModule
  <2>1. stage = "modules" /\ cmd.name \in Neo /\ UNCHANGED <<stage, kept>>
    BY <1>10 DEF NeoModule, ReadsModule, ReadsModules, ioVars
  <2>2. pc = "done" /\ WrittenInv /\ AllexesInv
    BY <2>1 DEF TablesInv, Writing
  <2>3. WrittenInv'
    BY <1>6, <1>10, <2>1, <2>2, ModulesDiffer, ModuleWritten
  <2>4. AllexesInv'
    BY <1>2, <1>3, <1>10, <2>2, ModuleAdds, AllexesSame DEF WrittenInv
  <2> QED
    BY <1>2, <1>3, <2>1, <2>2, <2>3, <2>4 DEF TablesInv
<1>11. CASE NeoAllexe
  <2>1. stage = "modules" /\ cmd.name \in Neo /\ UNCHANGED <<stage, kept>>
    BY <1>11 DEF NeoAllexe, ModulesDone, ioVars, Neo
  <2>2. pc = "done" /\ WrittenInv /\ AllexesInv
    BY <2>1 DEF TablesInv, Writing
  <2>3. WrittenInv' /\ AllexesInv'
    BY <1>11, <2>2, AllexeWritten
  <2> QED
    BY <1>2, <1>3, <2>1, <2>2, <2>3 DEF TablesInv
<1>12. CASE NeoFinish
  <2>1. /\ stage = "modules" /\ cmd.name \in Neo /\ next > Len(infos)
        /\ cmd.name = "neocsv" => mem.idx = Len(allexes)
        /\ UNCHANGED <<cmd, next, mem, out>> /\ stage' = "close"
    BY <1>12, Zenon DEF NeoFinish, ModulesDone, Succeed
  <2>2. pc = "done" /\ WrittenInv /\ AllexesInv
    BY <2>1 DEF TablesInv, Writing
  <2>3. NoParts
    BY <2>1 DEF PositionInv, Takers, Neo
  <2>4. AllWritten
    BY <1>6, <2>1, <2>3 DEF PositionInv, AllWritten, ModulesRead
  <2>5. TablesType'
    BY <2>1, <2>2 DEF WrittenInv, TablesType
  <2>6. WrittenInv'
    BY <1>3, <2>1, <2>2, <2>5, WrittenSame
  <2>7. AllexesInv'
    BY <1>3, <2>1, <2>2, AllexesSame
  <2>8. AllWritten'
    BY <1>3, <2>1, <2>4 DEF AllWritten
  <2> QED
    BY <1>3, <2>1, <2>2, <2>6, <2>7, <2>8 DEF TablesInv
<1> QED
  BY <1>1, <1>7, <1>8, <1>9, <1>10, <1>11, <1>12

LEMMA TablesNext ==
  ASSUME TablesInv, OutputInv, PositionInv, DataInv, [AllplayNext]_vars
  PROVE  TablesInv'
<1>0. Scanning
  BY ScansOnly DEF OutputInv, OutputType
<1>1. CASE UNCHANGED commandVars
  BY <1>0, <1>1, TablesRest DEF commandVars, Writing
<1>2. CASE LoadFails
  BY <1>0, <1>2, TablesRest DEF LoadFails, Writing
<1>3. CASE ModuleFails
  <2>1. /\ stage = "modules" /\ stage' = "close" /\ UNCHANGED <<cmd, next, kept, mem, out>>
    BY <1>3 DEF ModuleFails, ReadsModules, ioVars
  <2>2. cmd.name \in Neo => ~kept
    BY <2>1 DEF OutputInv, KeptInv, KeptOutputs, Early
  <2> QED
    BY <1>0, <2>1, <2>2, TablesRest DEF Writing
<1>4. CASE CloseOutput
  BY <1>0, <1>4, TablesRest DEF CloseOutput, Writing
<1>5. CASE DiskFull
  BY <1>0, <1>5, TablesRest DEF DiskFull, Writing
<1>6. CASE End
  BY <1>0, <1>6, TablesRest DEF End, Writing, ioVars
<1>7. CASE ExportStep
  BY <1>7, TablesExport
<1>8. CASE ReportStep \/ GraphStep \/ BundleStep
  <2>1. cmd'.name \notin Neo
    BY <1>8, NotOfNeo DEF OutputInv, OutputType
  <2> QED
    BY <2>1 DEF TablesInv, Writing, Neo
<1> QED
  BY <1>1, <1>2, <1>3, <1>4, <1>5, <1>6, <1>7, <1>8
     DEF AllplayNext, AllplayStep, CommandStep, Others, vars

LEMMA TablesInit ==
  ASSUME CommandInit
  PROVE  TablesInv
<1>1. stage = "scan" /\ mode = Loader(cmd)
  BY DEF CommandInit
<1> QED
  BY <1>1 DEF TablesInv, Writing, Loader, BCScanners

SessionInv == ScanInv /\ OutputInv /\ PositionInv /\ TablesInv

LEMMA SessionInvariant == AllplaySpec => []SessionInv
<1>1. CommandInit => SessionInv
  BY ScanInvInit, OutputInit, PositionInit, TablesInit DEF CommandInit, SessionInv
<1>2. SessionInv /\ [AllplayNext]_vars => SessionInv'
  BY ScansOnly, ScanInvNext, OutputNext, PositionNext, TablesNext
     DEF OutputInv, OutputType, ScanInv, SessionInv
<1> QED
  BY <1>1, <1>2, PTL DEF AllplaySpec

LEMMA WrittenAtEnd ==
  ASSUME SessionInv, Succeeded(Neo)
  PROVE  /\ cmd.name \in Neo /\ pc = "done" /\ WrittenInv /\ AllexesInv /\ AllWritten
         /\ DifferentModules /\ ModulesRead /\ next - 1 = Len(infos)
         /\ DataInv /\ (cmd.name = "neocsv" => Values(infos) = InAllexes)
<1>1. stage = "success" /\ cmd.name \in Neo
  BY DEF Succeeded
<1>2. kept
  BY <1>1 DEF SessionInv, PositionInv
<1>3. pc = "done" /\ WrittenInv /\ AllexesInv /\ AllWritten
  BY <1>1, <1>2 DEF SessionInv, TablesInv, Writing
<1>4. DataInv /\ DifferentModules
  BY <1>1, ModulesDiffer DEF SessionInv, ScanInv
<1>5. ModulesRead
  BY <1>4, LenProperties DEF SessionInv, PositionInv, DataInv, DataType, ModulesRead
<1>6. next - 1 = Len(infos)
  BY <1>3, <1>5 DEF AllWritten, ModulesRead
<1>7. ASSUME cmd.name = "neocsv" PROVE Values(infos) = InAllexes
  <2>1. adding = <<>> /\ mode = "allexes"
    BY <1>3, <1>4, <1>7 DEF SessionInv, TablesInv, DataInv, NothingLeftOver
  <2>2. Values(adding) = {}
    <3>1. DOMAIN <<>> = {}
      OBVIOUS
    <3> QED
      BY <2>1, <3>1 DEF Values
  <2> QED
    BY <1>4, <2>1, <2>2 DEF DataInv
<1> QED
  BY <1>1, <1>3, <1>4, <1>5, <1>6, <1>7

(***************************************************************************)
(* What neocsv and neocsv-decompose leave, when they succeed, can be       *)
(* imported: no number is given twice and no relationship lacks an end,    *)
(* however many modules and globals there are.                             *)
(***************************************************************************)
THEOREM TablesAreImportable == AllplaySpec => []TablesImportable
<1>1. ASSUME SessionInv PROVE TablesImportable
  <2> SUFFICES ASSUME Succeeded(Neo)
               PROVE  /\ DifferentIDs({"modules"}) /\ DifferentIDs({"allexes"})
                      /\ DifferentIDs({"funcs", "globals", "aliases"})
                      /\ \A r \in Rows("modglobals") :
                           r.start \in IDs("modules")
                           /\ r.end \in IDs("funcs") \cup IDs("globals") \cup IDs("aliases")
                      /\ \A r \in Rows("contains") : r.start \in IDs("allexes") /\ r.end \in IDs("modules")
    BY DEF TablesImportable
  <2>1. /\ WrittenInv /\ AllexesInv /\ AllWritten /\ DifferentModules /\ ModulesRead
        /\ next - 1 = Len(infos) /\ DataInv /\ (cmd.name = "neocsv" => Values(infos) = InAllexes)
    BY <1>1, WrittenAtEnd
  <2>2. IsTable(out["modules"]) /\ IsTable(out["allexes"])
    BY <2>1, CommandAssumption DEF WrittenInv, TablesType
  <2>3. /\ DOMAIN out["modules"] = DOMAIN infos
        /\ \A i \in DOMAIN infos : out["modules"][i].id = ModIDOf(i)
    BY <2>1, <2>2, TableFacts DEF WrittenInv, ModulesInv, ModulesRead
  <2>4. DifferentIDs({"modules"})
    BY <2>1, <2>3 DEF DifferentIDs, DifferentModules
  <2>5. mem.idx \in Nat /\ DOMAIN out["allexes"] = 1 .. mem.idx
    BY <2>1, <2>2, TableFacts DEF WrittenInv, TablesType, AllexesInv
  <2>6. DifferentIDs({"allexes"})
    <3>1. \A i, j \in 1 .. mem.idx : i - 1 = j - 1 => i = j
      BY <2>5
    <3> QED
      BY <2>1, <2>5, <3>1 DEF DifferentIDs, AllexesInv
  <2>7. DifferentIDs({"funcs", "globals", "aliases"})
    BY <2>1 DEF WrittenInv, NodesInv, Kinds
  <2>8. \A i \in DOMAIN infos : ModIDOf(i) \in IDs("modules")
    BY <2>3 DEF IDs, Rows
  <2>9. ASSUME NEW r \in Rows("modglobals")
        PROVE  r.start \in IDs("modules") /\ r.end \in IDs("funcs") \cup IDs("globals") \cup IDs("aliases")
    <3>1. PICK i \in 1 .. next - 1 : r.start = ModIDOf(i)
      BY <2>1 DEF WrittenInv, RelsInv
    <3>2. PICK g \in Nodes : g.id = r.end
      BY <2>1 DEF WrittenInv, RelsInv
    <3>3. PICK t \in Kinds : g \in Rows(t)
      BY <3>2 DEF Nodes
    <3>4. r.end \in IDs(t)
      BY <3>2, <3>3 DEF IDs
    <3>5. i \in DOMAIN infos
      BY <2>1 DEF ModulesRead
    <3> QED
      BY <2>8, <3>1, <3>3, <3>4, <3>5 DEF Kinds
  <2>10. ASSUME NEW r \in Rows("contains")
         PROVE  r.start \in IDs("allexes") /\ r.end \in IDs("modules")
    <3>1. PICK i \in 1 .. mem.idx : r \in Values(ContainsRows(i))
      BY <2>1 DEF AllexesInv
    <3>2. cmd.name = "neocsv" /\ i \in DOMAIN allexes
      BY <2>1, <2>5, <3>1, LenProperties DEF AllexesInv, DataInv, DataType
    <3>3. PICK k \in DOMAIN allexes[i].modules :
            r = [start |-> i - 1, index |-> k - 1, end |-> allexes[i].modules[k].crc]
      BY <2>1, <3>1, <3>2, ContainsTable
    <3>4. r.start = i - 1 /\ r.end = allexes[i].modules[k].crc
      BY <3>3
    <3>5. r.start \in IDs("allexes")
      BY <2>1, <2>5, <3>4 DEF IDs, Rows, AllexesInv
    <3>6. allexes[i].modules[k] \in Values(infos)
      <4>1. allexes[i].modules[k] \in Values(allexes[i].modules)
        BY DEF Values
      <4> QED
        BY <2>1, <3>2, <4>1 DEF InAllexes
    <3>7. PICK j \in DOMAIN infos : infos[j] = allexes[i].modules[k]
      BY <3>6 DEF Values
    <3>8. r.end = ModIDOf(j)
      BY <3>2, <3>4, <3>7 DEF ModIDOf
    <3> QED
      BY <2>8, <3>5, <3>8
  <2> QED
    BY <2>4, <2>6, <2>7, <2>9, <2>10
<1> QED
  BY <1>1, SessionInvariant, PTL

(***************************************************************************)
(* And what is imported is the database: of every module exactly the       *)
(* globals of the file it was read from, each related once and in the      *)
(* right way, and of every allexe its modules in their order.              *)
(***************************************************************************)
THEOREM TablesAreRight == AllplaySpec => []TablesShowDatabase
<1>1. ASSUME SessionInv PROVE TablesShowDatabase
  <2> SUFFICES ASSUME Succeeded(Neo)
               PROVE  /\ Len(out["modules"]) = Len(infos)
                      /\ \A i \in DOMAIN infos :
                           LET m == out["modules"][i].id
                               M == Content[infos[i].file]
                           IN  /\ ImportedSymbols(m) = SymbolsOf(M)
                               /\ Cardinality({r \in Rows("modglobals") : r.start = m}) =
                                    Len(M.funcs) + Len(M.globals) + Len(M.aliases)
                      /\ cmd.name = "neocsv" =>
                           {<<r.start, r.index, r.end>> : r \in Rows("contains")} = Contained
    BY DEF TablesShowDatabase
  <2>1. /\ WrittenInv /\ AllexesInv /\ AllWritten /\ ModulesRead
        /\ next - 1 = Len(infos) /\ DataInv
    BY <1>1, WrittenAtEnd
  <2>2. Len(out["modules"]) = Len(infos)
    BY <2>1 DEF WrittenInv, ModulesInv
  <2>3. ASSUME NEW i \in DOMAIN infos
        PROVE  LET m == out["modules"][i].id
                   M == Content[infos[i].file]
               IN  /\ ImportedSymbols(m) = SymbolsOf(M)
                   /\ Cardinality({r \in Rows("modglobals") : r.start = m}) =
                        Len(M.funcs) + Len(M.globals) + Len(M.aliases)
    <3>1. i \in 1 .. next - 1
      BY <2>1 DEF ModulesRead
    <3>2. out["modules"][i].id = ModIDOf(i) /\ Imported(i)
      BY <2>1, <3>1 DEF WrittenInv, ModulesInv, ImportedInv
    <3> QED
      BY <3>2 DEF Imported, RelsOf, Globals
  <2>4. ASSUME cmd.name = "neocsv", NEW x
        PROVE  x \in {<<r.start, r.index, r.end>> : r \in Rows("contains")} <=> x \in Contained
    <3>1. DOMAIN allexes = 1 .. mem.idx
      BY <2>1, <2>4, LenProperties DEF AllWritten, DataInv, DataType
    <3>2. x \in Contained <=>
            \E i \in DOMAIN allexes : \E k \in DOMAIN allexes[i].modules :
              x = <<i - 1, k - 1, allexes[i].modules[k].crc>>
      BY DEF Contained
    <3>3. ASSUME NEW r \in Rows("contains"), x = <<r.start, r.index, r.end>>
          PROVE  x \in Contained
      <4>1. PICK i \in DOMAIN allexes : r \in Values(ContainsRows(i))
        BY <2>1, <3>1 DEF AllexesInv
      <4>2. PICK k \in DOMAIN allexes[i].modules :
              r = [start |-> i - 1, index |-> k - 1, end |-> allexes[i].modules[k].crc]
        BY <2>1, <4>1, ContainsTable
      <4>3. x = <<i - 1, k - 1, allexes[i].modules[k].crc>>
        BY <3>3, <4>2
      <4> QED
        BY <3>2, <4>3
    <3>4. ASSUME NEW i \in DOMAIN allexes, NEW k \in DOMAIN allexes[i].modules,
                 x = <<i - 1, k - 1, allexes[i].modules[k].crc>>
          PROVE  x \in {<<r.start, r.index, r.end>> : r \in Rows("contains")}
      <4> DEFINE r == [start |-> i - 1, index |-> k - 1, end |-> allexes[i].modules[k].crc]
      <4>1. r \in Values(ContainsRows(i))
        BY <2>1, ContainsTable
      <4>2. r \in Rows("contains")
        BY <2>1, <3>1, <4>1 DEF AllexesInv
      <4>3. x = <<r.start, r.index, r.end>>
        BY <3>4
      <4> QED
        BY <4>2, <4>3
    <3> QED
      BY <3>2, <3>3, <3>4
  <2> QED
    BY <2>2, <2>3, <2>4
<1> QED
  BY <1>1, SessionInvariant, PTL

=============================================================================
