------------------------------- MODULE Allplay -------------------------------
(***************************************************************************)
(* A process of allplay, from the command line to its end: it scans the    *)
(* directory it is given and runs one subcommand on the database, while    *)
(* others may remove files.                                                *)
(***************************************************************************)
EXTENDS Exports, Reports, StringGraphs, Bundles

AllplayStep == CommandStep \/ ExportStep \/ ReportStep \/ GraphStep \/ BundleStep

AllplayNext == AllplayStep \/ Others

AllplaySpec == CommandInit /\ [][AllplayNext]_vars /\ WF_vars(AllplayStep)

(***************************************************************************)
(* Every variable has its type.                                            *)
(***************************************************************************)
AllplayTypeOK ==
  /\ TypeOK
  /\ stage \in {"scan", "modules", "emit", "close", "success", "error", "aborted", "fatal"}
  /\ next \in 1 .. Len(IF "parts" \in DOMAIN mem THEN mem.parts ELSE infos) + 1
  /\ disk \in [Output -> {"old", "open", "complete", "partial", "absent"}]
  /\ open \in Seq(Output)
  /\ \A o \in Output : disk[o] = "open" <=> o \notin cmd.unwritable /\ \E i \in DOMAIN open : open[i] = o
  /\ kept \in BOOLEAN

(***************************************************************************)
(* Whatever the command, the tree and what happens to it, the process ends.*)
(***************************************************************************)
Ends == <>Ended
=============================================================================
