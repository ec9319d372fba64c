-------------------------------- MODULE Scan --------------------------------
(***************************************************************************)
(* Loading the database: foreach_file_in_directory (ForEachFile.h) walks a *)
(* directory tree, while others may remove parts of it, and hands every    *)
(* regular non-empty file to a callback of ABCDB.cpp, which adds allexes   *)
(* with their modules (loadFromAllexesIn) or bitcode (loadFromBitcodeIn).  *)
(***************************************************************************)
EXTENDS Naturals, Sequences, FiniteSets

CONSTANTS
  Path,        \* the paths of a tree
  Root,        \* the path that is scanned
  CRC,         \* the checksums of modules
  File,        \* the names of bitcode files that modules come from
  Id,          \* the identities of files: two paths may be one file
  Trees,       \* the trees to scan
  MaxGone,     \* bounds the removals during a scan
  Builds       \* the builds: with (TRUE) and without assertions

(***************************************************************************)
(* A tree: the entries of each directory; what the status of a path is     *)
(* ("missing" is a broken link, "error" any other failure); which          *)
(* directories and files can be opened; which files are not empty; which   *)
(* are allexes, with the checksums of their modules; which are bitcode;    *)
(* the bitcode files each module says it was made from; and the modules    *)
(* that cannot be read from the allexe that holds them.                    *)
(***************************************************************************)
Tree ==
  [entries  : [Path -> SUBSET Path],
   type     : [Path -> {"file", "directory", "other", "missing", "error"}],
   readable : SUBSET Path,
   nonempty : SUBSET Path,
   allexes  : SUBSET Path,
   modules  : [Path -> Seq(CRC)],
   bitcode  : SUBSET Path,
   id       : [Path -> Id],
   sources  : [CRC -> Seq(File)],
   broken   : SUBSET CRC]

(***************************************************************************)
(* A path lies in one directory, and the root in none of those below it.   *)
(***************************************************************************)
OneParent(t) ==
  \A p \in Path : Root \notin t.entries[p] /\ \A q \in Path : t.entries[p] \cap t.entries[q] # {} => p = q

ASSUME ScanAssumption ==
  /\ Root \in Path
  /\ MaxGone \in Nat
  /\ Builds \subseteq BOOLEAN
  /\ CRC \subseteq Nat
  /\ \A t \in Trees : t \in Tree /\ OneParent(t)

VARIABLES
  tree,      \* the tree
  asserts,   \* whether the build keeps its assertions; never changes
  mode,      \* "allexes" or "bitcode", the loader that is called
  gone,      \* the paths removed meanwhile, and what is below them
  removals,  \* how many removals there have been
  pc,        \* "start", "visit", "file", "module", "increment", "advance", "done",
             \* "failed", "aborted"
  stack,     \* the open directories, each with its current and remaining entries
  noPush,    \* whether no_push() was called on the current entry
  adding,    \* AD.Modules of the allexe being added
  bcids,     \* BCIDs, the identities of the bitcode files seen
  infos,     \* DB->Infos: checksum and file name of each module
  allexes    \* DB->Allexes

scanVars == <<tree, asserts, mode, gone, removals, pc, stack, noPush, adding, bcids, infos, allexes>>

dbVars == <<adding, bcids, infos, allexes>>
fsVars == <<tree, asserts, mode, gone, removals>>

Top(s) == s[Len(s)]
Pop(s) == SubSeq(s, 1, Len(s) - 1)

here == Top(stack).at

Status(p) == IF p \in gone THEN "missing" ELSE tree.type[p]
CanOpen(p) == p \in tree.readable /\ p \notin gone
Entries(p) == tree.entries[p] \ gone

Init ==
  /\ tree \in Trees
  /\ asserts \in Builds
  /\ mode \in {"allexes", "bitcode"}
  /\ gone = {}
  /\ removals = 0
  /\ pc = "start"
  /\ stack = <<>>
  /\ noPush = FALSE
  /\ adding = <<>>
  /\ bcids = {}
  /\ infos = <<>>
  /\ allexes = <<>>

(***************************************************************************)
(* Someone else removes an entry with all that is below it.                *)
(***************************************************************************)
Below(p, q) ==
  \A S \in SUBSET Path : p \in S /\ (\A s \in S : tree.entries[s] \subseteq S) => q \in S

Unlink(p) ==
  /\ removals < MaxGone
  /\ p # Root /\ p \notin gone
  /\ gone' = gone \cup {q \in Path : Below(p, q)}
  /\ removals' = removals + 1
  /\ UNCHANGED <<tree, asserts, mode, pc, stack, noPush, dbVars>>

(***************************************************************************)
(* The iterator is created. An unreadable root is an error, an empty one   *)
(* the end.                                                                *)
(***************************************************************************)
Enter(p) ==
  \E e \in Entries(p) :
    /\ stack' = Append(stack, [at |-> e, left |-> Entries(p) \ {e}])
    /\ pc' = "visit"

Start ==
  /\ pc = "start"
  /\ IF ~CanOpen(Root) THEN pc' = "failed" /\ UNCHANGED stack
     ELSE IF Entries(Root) = {} THEN pc' = "done" /\ UNCHANGED stack
     ELSE Enter(Root)
  /\ UNCHANGED <<fsVars, noPush, dbVars>>

\* A mutant: no_push() is forgotten for what is skipped.
SkipUnreachablePush ==
  /\ pc = "visit"
  /\ \/ Status(here) = "missing"
     \/ Status(here) = "directory" /\ ~CanOpen(here)
  /\ pc' = "increment"
  /\ UNCHANGED <<fsVars, stack, noPush, dbVars>>

(***************************************************************************)
(* The body of the loop up to the callback. Missing entries and unreadable *)
(* directories are not entered. After another error of status the entry    *)
(* counts as empty, and the error is met again by increment.               *)
(***************************************************************************)
SkipUnreachable ==
  /\ pc = "visit"
  /\ \/ Status(here) = "missing"
     \/ Status(here) = "directory" /\ ~CanOpen(here)
  /\ noPush' = TRUE
  /\ pc' = "increment"
  /\ UNCHANGED <<fsVars, stack, dbVars>>

Wanted(p) == Status(p) = "file" /\ p \in tree.nonempty

\* A mutant: directories are skipped with no_push(), too.
SkipUnwantedNoPush ==
  /\ pc = "visit"
  /\ Status(here) # "missing" /\ ~Wanted(here)
  /\ Status(here) = "directory" => CanOpen(here)
  /\ noPush' = TRUE
  /\ pc' = "increment"
  /\ UNCHANGED <<fsVars, stack, dbVars>>

SkipUnwanted ==
  /\ pc = "visit"
  /\ Status(here) # "missing" /\ ~Wanted(here)
  /\ Status(here) = "directory" => CanOpen(here)
  /\ pc' = "increment"
  /\ UNCHANGED <<fsVars, stack, noPush, dbVars>>

VisitFile ==
  /\ pc = "visit"
  /\ Wanted(here)
  /\ pc' = "file"
  /\ UNCHANGED <<fsVars, stack, noPush, dbVars>>

-----------------------------------------------------------------------------
(***************************************************************************)
(* The callback of loadFromAllexesIn. A file that does not open as an      *)
(* allexe is passed over; then each module is added unless its checksum is *)
(* known, and a module that cannot be read ends the scan. A module goes by *)
(* the name of the one file it was made from: it is an assertion that      *)
(* there is one, and several are joined into a name that is no file's.     *)
(***************************************************************************)
Known(c) == \E i \in DOMAIN infos : infos[i].crc = c

SourceString(srcs) == IF srcs = <<>> THEN "" ELSE IF Len(srcs) = 1 THEN srcs[1] ELSE "several"

OpenAllexe ==
  /\ pc = "file" /\ mode = "allexes"
  /\ pc' = IF here \in tree.allexes /\ CanOpen(here) THEN "module" ELSE "increment"
  /\ adding' = <<>>
  /\ UNCHANGED <<fsVars, stack, noPush, bcids, infos, allexes>>

\* The checksum of the next module of the allexe.
nextCRC == tree.modules[here][Len(adding) + 1]

MoreModules == pc = "module" /\ Len(adding) < Len(tree.modules[here])

AddKnownModule ==
  /\ MoreModules
  /\ \E i \in DOMAIN infos : infos[i].crc = nextCRC /\ adding' = Append(adding, infos[i])
  /\ UNCHANGED <<fsVars, pc, stack, noPush, bcids, infos, allexes>>

\* A mutant: ModuleMap is not asked.
AddModuleAlways ==
  /\ MoreModules
  /\ LET MI == [crc |-> nextCRC, file |-> SourceString(tree.sources[nextCRC])]
     IN  IF nextCRC \in tree.broken
         THEN pc' = "failed" /\ UNCHANGED <<adding, infos>>
         ELSE infos' = Append(infos, MI) /\ adding' = Append(adding, MI) /\ UNCHANGED pc
  /\ UNCHANGED <<fsVars, stack, noPush, bcids, allexes>>

AddModule ==
  /\ MoreModules
  /\ ~Known(nextCRC)
  /\ LET MI == [crc |-> nextCRC, file |-> SourceString(tree.sources[nextCRC])]
     IN  IF nextCRC \in tree.broken
         THEN pc' = "failed" /\ UNCHANGED <<adding, infos>>
         ELSE IF asserts /\ tree.sources[nextCRC] = <<>>
         THEN pc' = "aborted" /\ UNCHANGED <<adding, infos>>
         ELSE infos' = Append(infos, MI) /\ adding' = Append(adding, MI) /\ UNCHANGED pc
  /\ UNCHANGED <<fsVars, stack, noPush, bcids, allexes>>

AddAllexe ==
  /\ pc = "module"
  /\ Len(adding) = Len(tree.modules[here])
  /\ allexes' = Append(allexes, [file |-> here, modules |-> adding])
  /\ adding' = <<>>
  /\ pc' = "increment"
  /\ UNCHANGED <<fsVars, stack, noPush, bcids, infos>>

(***************************************************************************)
(* The callback of loadFromBitcodeIn, which never fails: a bitcode file is *)
(* added unless the same file was, under another path. Its checksum stays  *)
(* 0.                                                                      *)
(***************************************************************************)
AddBitcode ==
  /\ pc = "file" /\ mode = "bitcode"
  /\ LET add == here \in tree.bitcode /\ CanOpen(here) /\ tree.id[here] \notin bcids
     IN  /\ infos' = IF add THEN Append(infos, [crc |-> 0, file |-> here]) ELSE infos
         /\ bcids' = IF add THEN bcids \cup {tree.id[here]} ELSE bcids
  /\ pc' = "increment"
  /\ UNCHANGED <<fsVars, stack, noPush, adding, allexes>>

-----------------------------------------------------------------------------
(***************************************************************************)
(* increment of the iterator, which asks for the status of the entry again *)
(* unless no_push() was called, and enters a directory.                    *)
(***************************************************************************)
Increment ==
  /\ pc = "increment"
  /\ noPush' = FALSE
  /\ IF noPush \/ Status(here) \in {"file", "other"}
     THEN pc' = "advance" /\ UNCHANGED stack
     ELSE IF Status(here) # "directory" \/ ~CanOpen(here)
     THEN pc' = "failed" /\ UNCHANGED stack
     ELSE IF Entries(here) = {} THEN pc' = "advance" /\ UNCHANGED stack
     ELSE Enter(here)
  /\ UNCHANGED <<fsVars, dbVars>>

\* A mutant: an entry is not used up.
NextEntryAgain ==
  /\ pc = "advance"
  /\ stack # <<>>
  /\ \E e \in Top(stack).left :
       stack' = Append(Pop(stack), [at |-> e, left |-> Top(stack).left])
  /\ pc' = "visit"
  /\ UNCHANGED <<fsVars, noPush, dbVars>>

(***************************************************************************)
(* The next entry of the innermost open directory that has one left. It    *)
(* may have been removed since the directory was opened.                   *)
(***************************************************************************)
NextEntry ==
  /\ pc = "advance"
  /\ stack # <<>>
  /\ \E e \in Top(stack).left :
       stack' = Append(Pop(stack), [at |-> e, left |-> Top(stack).left \ {e}])
  /\ pc' = "visit"
  /\ UNCHANGED <<fsVars, noPush, dbVars>>

\* A mutant: the loop goes on although no directory is left.
LeaveDirectoryVisit ==
  /\ pc = "advance"
  /\ stack # <<>>
  /\ Top(stack).left = {}
  /\ stack' = Pop(stack)
  /\ pc' = IF Len(stack) = 1 THEN "visit" ELSE pc
  /\ UNCHANGED <<fsVars, noPush, dbVars>>

LeaveDirectory ==
  /\ pc = "advance"
  /\ stack # <<>>
  /\ Top(stack).left = {}
  /\ stack' = Pop(stack)
  /\ pc' = IF Len(stack) = 1 THEN "done" ELSE pc
  /\ UNCHANGED <<fsVars, noPush, dbVars>>

ScanStep ==
  \/ Start
  \/ SkipUnreachable \/ SkipUnwanted \/ VisitFile
  \/ OpenAllexe \/ AddKnownModule \/ AddModule \/ AddAllexe \/ AddBitcode
  \/ Increment \/ NextEntry \/ LeaveDirectory

Next == ScanStep \/ \E p \in Path : Unlink(p)

Spec == Init /\ [][Next]_scanVars /\ WF_scanVars(ScanStep)

-----------------------------------------------------------------------------
(***************************************************************************)
(* Every variable has its type; an entry is at hand whenever the loop      *)
(* looks at one.                                                           *)
(***************************************************************************)
ModuleInfo == [crc : CRC \cup {0}, file : File \cup Path \cup {"", "several"}]

TypeOK ==
  /\ tree \in Trees
  /\ asserts \in Builds
  /\ gone \subseteq Path \cup File
  /\ removals \in 0 .. MaxGone
  /\ stack \in Seq([at : Path, left : SUBSET Path])
  /\ noPush \in BOOLEAN
  /\ bcids \subseteq Id
  /\ adding \in Seq(ModuleInfo)
  /\ infos \in Seq(ModuleInfo)
  /\ allexes \in Seq([file : Path, modules : Seq(ModuleInfo)])
  /\ pc \in {"start", "visit", "file", "module", "increment", "advance", "done", "failed", "aborted"}
  /\ pc \in {"visit", "file", "module", "increment"} => stack # <<>>

(***************************************************************************)
(* What a scan can see: the entries of Root and of every readable          *)
(* directory it can see, that have not been removed.                       *)
(***************************************************************************)
Visible(p) ==
  \A S \in SUBSET Path :
     /\ Entries(Root) \subseteq S
     /\ \A d \in S : Status(d) = "directory" /\ CanOpen(d) => Entries(d) \subseteq S
     => p \in S

Loadable(p, kind) == Visible(p) /\ Wanted(p) /\ CanOpen(p) /\ p \in kind

(***************************************************************************)
(* A scan that succeeds has loaded every allexe there was to see, once,    *)
(* with all of its modules in order, whatever broken links, unreadable     *)
(* directories and removals it met on the way.                             *)
(***************************************************************************)
AllAllexesLoaded ==
  pc = "done" /\ mode = "allexes" =>
    /\ \A p \in Path : Loadable(p, tree.allexes) =>
         \E i \in DOMAIN allexes :
            /\ allexes[i].file = p
            /\ [k \in DOMAIN allexes[i].modules |-> allexes[i].modules[k].crc] = tree.modules[p]
    /\ \A i, j \in DOMAIN allexes : allexes[i].file = allexes[j].file => i = j

(***************************************************************************)
(* A scan for bitcode that succeeds has every file there was to see, once  *)
(* even if it saw it under several paths.                                  *)
(***************************************************************************)
AllBitcodeLoaded ==
  pc = "done" /\ mode = "bitcode" =>
    /\ \A p \in Path : Loadable(p, tree.bitcode) =>
         \E i \in DOMAIN infos : tree.id[infos[i].file] = tree.id[p]
    /\ \A i, j \in DOMAIN infos : tree.id[infos[i].file] = tree.id[infos[j].file] => i = j

(***************************************************************************)
(* Whatever a scan loads, allexes or bitcode, it has all of it.            *)
(***************************************************************************)
AllLoaded == AllAllexesLoaded /\ AllBitcodeLoaded

(***************************************************************************)
(* The database is consistent whenever it is looked at: modules have       *)
(* different checksums, and the modules allexes name are those it has.     *)
(***************************************************************************)
DatabaseConsistent ==
  mode = "allexes" =>
    /\ \A i, j \in DOMAIN infos : infos[i].crc = infos[j].crc => i = j
    /\ {infos[i] : i \in DOMAIN infos} =
         {adding[i] : i \in DOMAIN adding} \cup
         UNION {{allexes[i].modules[j] : j \in DOMAIN allexes[i].modules} : i \in DOMAIN allexes}

(***************************************************************************)
(* "attempting to skip": as long as nothing is removed meanwhile, broken   *)
(* links, unreadable directories and files that are no allexes do not end  *)
(* a scan.                                                                 *)
(***************************************************************************)
FailsForACause ==
  pc = "failed" /\ removals = 0 =>
    \/ ~CanOpen(Root)
    \/ \E p \in Path : Visible(p) /\ Status(p) = "error"
    \/ mode = "allexes" /\ tree.broken # {}

(***************************************************************************)
(* "Check that recursing into this directory won't break everything": only *)
(* the root itself or a module can end a scan of a tree nobody changes.    *)
(***************************************************************************)
NoEntryBreaksScan ==
  pc = "failed" => ~CanOpen(Root) \/ (mode = "allexes" /\ tree.broken # {})
=============================================================================
