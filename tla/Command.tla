------------------------------- MODULE Command -------------------------------
(***************************************************************************)
(* What the subcommands of allplay have in common: they load a database    *)
(* (Scan), create their outputs, read the modules of the database one      *)
(* after the other, write, and return an Error or success to main, which   *)
(* ends the process. Outputs are tool_output_files: they are removed when  *)
(* the process fails, unless keep() was called.                            *)
(***************************************************************************)
EXTENDS Scan

CONSTANTS
  Sessions,   \* the runs of allplay to look at: tree, build and command line
  Content,    \* what a bitcode file holds, for the files that can be parsed
  Output,     \* the names of outputs
  Short       \* removePrefix: the names that paths have in outputs

(***************************************************************************)
(* A global of a module: a function with the number of its instructions,   *)
(* its hash, its users (a call, another instruction, or a constant, each   *)
(* in a function) and its inline assembly; or a variable.                  *)
(***************************************************************************)
Content_Function ==
  [name : STRING, decl : BOOLEAN, insts : Nat, hash : Nat,
   users : Seq([in : STRING, kind : {"call", "instruction", "constant"}]), asm : Seq(STRING)]

Content_Module ==
  [funcs : Seq(Content_Function), globals : Seq([name : STRING, decl : BOOLEAN]),
   aliases : Seq([name : STRING, aliasee : STRING]), asm : STRING,
   wllvm : Seq(STRING), parts : Seq(STRING)]

\* The symbol table of a module has one function of a name.
NamesDiffer(M) ==
  \A i, j \in DOMAIN M.funcs : M.funcs[i].name = M.funcs[j].name /\ M.funcs[i].name # "" => i = j

(***************************************************************************)
(* A command line: the subcommand, -bc-scanner, the name of a symbol or    *)
(* input file, its flags, the outputs that cannot be created, and whether  *)
(* the disk may fill up.                                                   *)
(***************************************************************************)
CommandLine ==
  [name : STRING, bc : BOOLEAN, arg : STRING, flags : SUBSET STRING,
   threshold : Nat, unwritable : SUBSET Output, full : BOOLEAN]

ASSUME CommandAssumption ==
  /\ {"modules", "funcs", "allexes", "contains", "globals", "modglobals", "aliases", "o", "csv"}
       \subseteq Output
  /\ \A s \in Sessions : s.tree \in Trees /\ s.asserts \in Builds /\ s.cmd \in CommandLine
  /\ \A f \in DOMAIN Content : Content[f] \in Content_Module /\ NamesDiffer(Content[f])

VARIABLES
  cmd,      \* the command line
  stage,    \* "scan", "modules", "emit", "close", then how the process ended:
            \* "success", "error", "aborted" (by an assertion) or "fatal"
  next,     \* the position of the next module of the database to be read
  disk,     \* each output: "old" (as before), "open", "complete", "partial" or "absent"
  open,     \* the tool_output_files there are, in the order of their creation
  kept,     \* whether success is returned and, where it is, keep() was called for them
  mem,      \* the variables of the subcommand
  out       \* what it has written

commandVars == <<cmd, stage, next, disk, open, kept, mem, out>>
ioVars == <<disk, open, kept>>
vars == <<scanVars, commandVars>>

\* The n-th number in I, and the elements of s at the positions I, in order.
Nth(I, n) == CHOOSE i \in I : Cardinality({j \in I : j <= i}) = n
Selected(s, I) == [n \in 1 .. Cardinality(I) |-> s[Nth(I, n)]]

Scans == {"neocsv", "cypher", "graph", "toml", "asmscan", "finduses", "finddirectuses",
          "functionhashes", "combine", "neocsv-decompose"}

BCScanners == {"asmscan", "functionhashes", "combine"}   \* those that have -bc-scanner

Loader(c) ==
  IF c.name = "neocsv-decompose" \/ (c.bc /\ c.name \in BCScanners) THEN "bitcode" ELSE "allexes"

CommandInit ==
  /\ Init
  /\ \E s \in Sessions : tree = s.tree /\ asserts = s.asserts /\ cmd = s.cmd
  /\ mode = Loader(cmd)
  /\ stage = "scan"
  /\ next = 1
  /\ disk = [o \in Output |-> "old"]
  /\ open = <<>>
  /\ kept = FALSE
  /\ mem = [none |-> 0]
  /\ out = [none |-> 0]

(***************************************************************************)
(* The database could not be loaded: its error is returned. (An assertion  *)
(* may also have ended the process while it was loading.)                  *)
(***************************************************************************)
LoadFails ==
  /\ stage = "scan" /\ cmd.name \in Scans
  /\ pc \in {"failed", "aborted"}
  /\ stage' = IF pc = "failed" THEN "error" ELSE "aborted"
  /\ UNCHANGED <<scanVars, cmd, next, ioVars, mem, out>>

\* The database is loaded and the command starts on it.
Loaded(names) == stage = "scan" /\ pc = "done" /\ cmd.name \in names

(***************************************************************************)
(* How a command creates its outputs: those that cannot be created are     *)
(* never touched, the others are emptied.                                  *)
(***************************************************************************)
Create(outs) ==
  /\ open' = outs
  /\ disk' = [o \in Output |->
                IF o \notin cmd.unwritable /\ \E i \in DOMAIN outs : outs[i] = o
                THEN "open" ELSE disk[o]]

Created(outs) == \A i \in DOMAIN outs : outs[i] \notin cmd.unwritable

(***************************************************************************)
(* parseIRFile and materializeAll on a module of the database, which it    *)
(* finds by the name it has there. A command returns its error. (cypher    *)
(* names the modules and reads none.)                                      *)
(***************************************************************************)
CanLoad(f) == f \in DOMAIN Content /\ f \notin gone

ReadsModules(names) == stage = "modules" /\ cmd.name \in names /\ next <= Len(infos)

ReadsModule(names) == ReadsModules(names) /\ CanLoad(infos[next].file)

ModulesDone(names) == stage = "modules" /\ cmd.name \in names /\ next > Len(infos)

\* A mutant: the module is passed over.
SkipModule ==
  /\ ReadsModules(Scans \ {"cypher"})
  /\ ~CanLoad(infos[next].file)
  /\ next' = next + 1
  /\ UNCHANGED <<scanVars, cmd, stage, ioVars, mem, out>>

ModuleFails ==
  /\ ReadsModules(Scans \ {"cypher"})
  /\ ~CanLoad(infos[next].file)
  /\ stage' = "close"
  /\ UNCHANGED <<scanVars, cmd, next, ioVars, mem, out>>

(***************************************************************************)
(* An assertion fails: the process aborts, and the handler of the signal   *)
(* removes the outputs that are open.                                      *)
(***************************************************************************)
Discarded == [o \in Output |-> IF disk[o] = "open" THEN "absent" ELSE disk[o]]

Abort ==
  /\ stage' = "aborted"
  /\ disk' = Discarded
  /\ open' = <<>>

\* The outputs are to be kept and success is returned.
Succeed ==
  /\ kept' = TRUE
  /\ stage' = "close"
  /\ UNCHANGED <<scanVars, cmd, next, disk, open, mem>>

(***************************************************************************)
(* The outputs are destroyed, the last one first. An output whose buffer   *)
(* cannot be written is a fatal error, which removes it and all that are   *)
(* still open. (A file that could not be created has nothing to write.)    *)
(***************************************************************************)
AtClose(o, state) == disk' = IF o \in cmd.unwritable THEN disk ELSE [disk EXCEPT ![o] = state]

CloseOutputKeep ==   \* mutant: outputs stay whether keep() was called or not
  /\ stage = "close" /\ open # <<>>
  /\ AtClose(Top(open), "complete")
  /\ open' = Pop(open)
  /\ UNCHANGED <<scanVars, cmd, stage, next, kept, mem, out>>

CloseOutput ==
  /\ stage = "close" /\ open # <<>>
  /\ AtClose(Top(open), IF kept THEN "complete" ELSE "absent")
  /\ open' = Pop(open)
  /\ UNCHANGED <<scanVars, cmd, stage, next, kept, mem, out>>

DiskFull ==
  /\ stage = "close" /\ open # <<>>
  /\ cmd.full /\ Top(open) \notin cmd.unwritable
  /\ stage' = "fatal"
  /\ disk' = Discarded
  /\ open' = <<>>
  /\ UNCHANGED <<scanVars, cmd, next, kept, mem, out>>

(***************************************************************************)
(* main ends the process with what the subcommand returned.                *)
(***************************************************************************)
End ==
  /\ stage = "close" /\ open = <<>>
  /\ stage' = IF kept THEN "success" ELSE "error"
  /\ UNCHANGED <<scanVars, cmd, next, ioVars, mem, out>>

CommandStep ==
  \/ ScanStep /\ cmd.name \in Scans /\ UNCHANGED commandVars
  \/ LoadFails \/ ModuleFails \/ CloseOutput \/ DiskFull \/ End

Succeeded(names) == stage = "success" /\ cmd.name \in names

Ended == stage \in {"success", "error", "aborted", "fatal"}

\* The files of the tree and those modules were made from may go at any time.
Vanish(f) ==
  /\ removals < MaxGone
  /\ f \notin gone
  /\ gone' = gone \cup {f}
  /\ removals' = removals + 1
  /\ UNCHANGED <<tree, asserts, mode, pc, stack, noPush, dbVars>>

Others ==
  /\ ~Ended
  /\ \E p \in Path : Unlink(p) \/ \E f \in File : Vanish(f)
  /\ UNCHANGED commandVars

=============================================================================
