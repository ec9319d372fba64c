------------------------------- MODULE Bundles -------------------------------
(***************************************************************************)
(* Subcommands that write or read single bitcode files: combine            *)
(* (CombinedModule.cpp), uncombine (Uncombine.cpp), the entry of decompose *)
(* that writes into a directory (Decompose.cpp) and printsource            *)
(* (PrintSource.cpp). combine and uncombine write plain streams, of which  *)
(* nothing is removed when they fail.                                      *)
(***************************************************************************)
EXTENDS Command, SequencesExt

Takers == {"uncombine", "decompose"}

\* The command ends with an error; nothing is open.
Fail == stage' = "close" /\ UNCHANGED <<kept, disk, out>>

\* The n-th module is written to o; what a full disk leaves of o depends on the stream.
WritePart(o, n, left) ==
  \/ /\ disk' = [disk EXCEPT ![o] = "complete"]
     /\ out' = [out EXCEPT !.files = Append(@, [name |-> o, part |-> mem.parts[n]])]
     /\ next' = n + 1
     /\ UNCHANGED <<stage, kept>>
  \/ /\ cmd.full
     /\ disk' = [disk EXCEPT ![o] = left]
     /\ stage' = "fatal"
     /\ UNCHANGED <<next, kept, out>>

(***************************************************************************)
(* combine concatenates the modules of all files in memory, then creates   *)
(* the output.                                                             *)
(***************************************************************************)
CombineStart ==
  /\ Loaded({"combine"})
  /\ stage' = "modules"
  /\ mem' = [buffer |-> <<>>]
  /\ UNCHANGED <<scanVars, cmd, next, ioVars, out>>

CombineModuleFirst ==   \* mutant: one module of each file
  /\ ReadsModule({"combine"})
  /\ mem' = [buffer |-> Append(mem.buffer, Content[infos[next].file].parts[1])]
  /\ next' = next + 1
  /\ UNCHANGED <<scanVars, cmd, stage, ioVars, out>>

CombineModule ==
  /\ ReadsModule({"combine"})
  /\ mem' = [buffer |-> mem.buffer \o Content[infos[next].file].parts]
  /\ next' = next + 1
  /\ UNCHANGED <<scanVars, cmd, stage, ioVars, out>>

CombineWrite ==
  /\ ModulesDone({"combine"})
  /\ \/ "o" \in cmd.unwritable /\ Fail
     \/ /\ "o" \notin cmd.unwritable
        /\ disk' = [disk EXCEPT !["o"] = "complete"]
        /\ out' = [combined |-> mem.buffer]
        /\ kept' = TRUE
        /\ stage' = "close"
     \/ /\ "o" \notin cmd.unwritable /\ cmd.full
        /\ disk' = [disk EXCEPT !["o"] = "partial"]
        /\ stage' = "fatal"
        /\ UNCHANGED <<kept, out>>
  /\ UNCHANGED <<scanVars, cmd, next, open, mem>>

(***************************************************************************)
(* uncombine, and decompose as far as files go: the modules to write are   *)
(* those in the input, or (external to this module, see Decompose) the     *)
(* fragments of the one in it. decompose first creates the directory.      *)
(***************************************************************************)
TakeApart ==
  /\ stage = "scan" /\ cmd.name \in Takers
  /\ IF CanLoad(cmd.arg) /\ (cmd.name = "decompose" => "o" \notin cmd.unwritable)
     THEN /\ stage' = "modules"
          /\ mem' = [parts |-> Content[cmd.arg].parts]
          /\ out' = [files |-> <<>>]
          /\ UNCHANGED <<disk, kept>>
     ELSE Fail /\ UNCHANGED mem
  /\ UNCHANGED <<scanVars, cmd, next, open>>

\* uncombine is called on what combine has written.
UncombineOutput ==
  /\ Succeeded({"combine"}) /\ "uncombine" \in cmd.flags
  /\ cmd' = [cmd EXCEPT !.name = "uncombine", !.arg = "o"]
  /\ stage' = "modules"
  /\ next' = 1
  /\ mem' = [parts |-> out.combined]
  /\ out' = [files |-> <<>>]
  /\ kept' = FALSE
  /\ UNCHANGED <<scanVars, disk, open>>

HasPart(name) == stage = "modules" /\ cmd.name = name /\ next <= Len(mem.parts)

toPaddedDec(n, w) ==
  LET s == ToString(n)
  IN  FoldLeft(LAMBDA t, zero : zero \o t, s, [i \in 1 .. w - Len(s) |-> "0"])

UncombineName(i) == toPaddedDec(i - 1, Len(ToString(Len(mem.parts))))

UncombinePart ==
  /\ HasPart("uncombine")
  /\ IF UncombineName(next) \in cmd.unwritable THEN Fail /\ UNCHANGED next
     ELSE WritePart(UncombineName(next), next, "partial")
  /\ UNCHANGED <<scanVars, cmd, open, mem>>

DecomposePartFromOne ==   \* mutant: CurModIdx is advanced first
  /\ HasPart("decompose")
  /\ WritePart(ToString(next), next, "absent")
  /\ UNCHANGED <<scanVars, cmd, open, mem>>

(***************************************************************************)
(* A fragment of decompose is named by its number. If it cannot be opened  *)
(* the callback returns an error, which is an assertion or passed over.    *)
(***************************************************************************)
DecomposePart ==
  /\ HasPart("decompose")
  /\ LET name == ToString(next - 1)
     IN  IF name \notin cmd.unwritable THEN WritePart(name, next, "absent") /\ UNCHANGED open
         ELSE IF asserts THEN Abort /\ UNCHANGED <<next, kept, out>>
         ELSE next' = next + 1 /\ UNCHANGED <<stage, open, kept, disk, out>>
  /\ UNCHANGED <<scanVars, cmd, mem>>

TakenApart ==
  /\ stage = "modules" /\ cmd.name \in Takers /\ next > Len(mem.parts)
  /\ Succeed /\ UNCHANGED out

(***************************************************************************)
(* printsource: the first operand of the flag; it is an assertion that     *)
(* there is no other.                                                      *)
(***************************************************************************)
PrintSource ==
  /\ stage = "scan" /\ cmd.name = "printsource"
  /\ LET flag == IF CanLoad(cmd.arg) THEN Content[cmd.arg].wllvm ELSE <<>>
     IN  IF asserts /\ Len(flag) > 1 THEN Abort /\ UNCHANGED <<kept, out>>
         ELSE IF flag = <<>> \/ flag[1] = "" THEN Fail /\ UNCHANGED open
         ELSE /\ out' = [source |-> flag[1]]
              /\ kept' = TRUE
              /\ stage' = "close"
              /\ UNCHANGED <<disk, open>>
  /\ UNCHANGED <<scanVars, cmd, next, mem>>

BundleStep ==
  \/ CombineStart \/ CombineModule \/ CombineWrite
  \/ TakeApart \/ UncombineOutput \/ UncombinePart \/ DecomposePart \/ TakenApart
  \/ PrintSource

-----------------------------------------------------------------------------
\* The names of the modules that are taken apart are outputs, have one length and differ.
NamesSort ==
  \A i, j \in 1 .. Len(mem.parts) :
    /\ UncombineName(i) \in Output \ {"o"}
    /\ Len(UncombineName(i)) = Len(UncombineName(j))
    /\ UncombineName(i) = UncombineName(j) => i = j

(***************************************************************************)
(* The names uncombine gives have one length and are different, so that    *)
(* they sort as the modules do; and a failure in the middle leaves the     *)
(* files of the first modules, all but perhaps the last one complete, and  *)
(* touches no other.                                                       *)
(***************************************************************************)
UncombinedInOrder ==
  Ended /\ cmd.name = "uncombine" /\ "files" \in DOMAIN out =>
    LET name(i) == out.files[i].name
        touched == {o \in Output \ {"o"} : disk[o] # "old"}
    IN  /\ NamesSort
        /\ \A i \in DOMAIN out.files : name(i) = UncombineName(i)
        /\ [i \in DOMAIN out.files |-> out.files[i].part] =
             SubSeq(mem.parts, 1, Len(out.files))
        /\ stage = "success" => Len(out.files) = Len(mem.parts)
        /\ {name(i) : i \in DOMAIN out.files} = {o \in touched : disk[o] = "complete"}
        /\ touched \subseteq {UncombineName(i) : i \in 1 .. Len(out.files) + 1}

(***************************************************************************)
(* uncombine undoes combine: its files are the modules of the database in  *)
(* order, complete, whatever happened to the inputs in between; of any     *)
(* input, and after a failure, it leaves the modules in order. (Only the   *)
(* uncombine of what combine has written finds a database that is loaded.) *)
(***************************************************************************)
UndoesCombine ==
  Succeeded({"uncombine"}) /\ pc = "done" =>
    LET parts(i) == Content[infos[i].file].parts
    IN  /\ [i \in DOMAIN out.files |-> out.files[i].part] =
             FlattenSeq([i \in DOMAIN infos |-> parts(i)])
        /\ \A o \in Output : (\E i \in DOMAIN out.files : out.files[i].name = o) => disk[o] = "complete"

RoundTrip == UncombinedInOrder /\ UndoesCombine

(***************************************************************************)
(* The directory decompose writes to may have been used before. With       *)
(* assertions a success has replaced all files below the number of         *)
(* fragments; without, all but those that could not be opened, which are   *)
(* passed over: there a file of an earlier run stays and looks like this   *)
(* run's, though success is returned. No other file is touched.            *)
(***************************************************************************)
Fragments == {ToString(i - 1) : i \in 1 .. Len(mem.parts)}

PassedOver == IF asserts THEN {} ELSE Fragments \cap cmd.unwritable

FragmentsAreNumbered ==
  Succeeded({"decompose"}) =>
    \A o \in Output \ {"o"} : disk[o] = IF o \in Fragments \ PassedOver THEN "complete" ELSE "old"
=============================================================================
