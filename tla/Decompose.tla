----------------------------- MODULE Decompose -----------------------------
(***************************************************************************)
(* decompose() of Decompose.cpp: split a module for as long as splitting   *)
(* is useful, first keeping local symbols with their users, then, from     *)
(* what the first pass could not split, with every local externalized, and *)
(* hand each module that no longer splits to the ModuleCallback.           *)
(*                                                                         *)
(* One call of SplitModule is a PopModule step, which fixes the placement  *)
(* of every definition, then one KeepPart or DropPart step for each of its *)
(* SplitFactor calls of the lambda, then one step for what follows it.     *)
(***************************************************************************)
EXTENDS BitcodeModule, Sequences

CONSTANTS
  Inputs,         \* the modules a run may be given
  Asserts,        \* whether the build keeps its assertions
  WriteMayFail    \* whether the ModuleCallback may return an error

ASSUME DecomposeAssumption ==
  /\ Inputs \subseteq InputModule
  /\ \A m \in Inputs : m.local \subseteq m.defs
  /\ Asserts \in BOOLEAN
  /\ WriteMayFail \in BOOLEAN

VARIABLES
  input,       \* the module to decompose; never changes
  pc,          \* "pop", "parts", "done" or "aborted"
  pass,        \* "first" (PreserveLocals) or "second"
  modQ,        \* ModQ, a stack whose top is at its end
  secondQ,     \* SecondQueue
  cur,         \* the module SplitModule is working on
  place,       \* the partition of each definition of cur
  idx,         \* the next partition to be handed to the lambda
  count,       \* Count
  empty,       \* Empty
  before,      \* Before
  curModIdx,   \* CurModIdx, the name of the next fragment
  delivered    \* the calls of ModuleCallback: their name, module and success

vars == <<input, pc, pass, modQ, secondQ, cur, place, idx, count, empty, before,
          curModIdx, delivered>>

splitVars == <<cur, place, idx, count, empty, before>>

(***************************************************************************)
(* A module on its way: its identifier without the prefix "base", its      *)
(* definitions, whether it holds the assembly of the input, and whether    *)
(* its locals have been externalized.                                      *)
(***************************************************************************)
Part == [id : Seq(Nat), defs : SUBSET Sym, asm : BOOLEAN, ext : BOOLEAN]

Whole == [id |-> <<>>, defs |-> input.defs, asm |-> input.asm # "none", ext |-> FALSE]

(***************************************************************************)
(* The partition i of cur. Only partition 0 has the assembly.              *)
(***************************************************************************)
MPartUncut(i) == [cur EXCEPT !.asm = @ /\ i = 0]   \* mutant: nothing is left out

MPart(i) == [id   |-> cur.id,
             defs |-> {s \in cur.defs : place[s] = i},
             asm  |-> cur.asm /\ i = 0,
             ext  |-> cur.ext]

(***************************************************************************)
(* What p defines: global values, and "asm" for the symbols its assembly   *)
(* defines. It is useful (isNonEmpty or hasSymbolDefinition, once dead     *)
(* declarations are gone) if it defines anything.                          *)
(***************************************************************************)
Items(p) == p.defs \cup {a \in {"asm"} : p.asm /\ input.asm = "defining"}

Useful(p) == Items(p) # {}

Top(q) == q[Len(q)]
Pop(q) == SubSeq(q, 1, Len(q) - 1)

Init ==
  /\ input \in Inputs
  /\ pc = "pop"
  /\ pass = "first"
  /\ modQ = <<Whole>>
  /\ secondQ = <<>>
  /\ cur = Whole
  /\ place = [s \in input.defs |-> 0]
  /\ idx = 0
  /\ count = 0
  /\ empty = 0
  /\ before = 0
  /\ curModIdx = 0
  /\ delivered = {}

(***************************************************************************)
(* Take the module on top of the stack and start splitting it; the second  *)
(* pass externalizes its locals first.                                     *)
(***************************************************************************)
PopModuleCountFirst ==   \* mutant: Before is read before the pop_back
  /\ pc = "pop"
  /\ modQ # <<>>
  /\ cur' = [Top(modQ) EXCEPT !.ext = @ \/ pass = "second"]
  /\ place' \in Placements(cur'.defs, Links(input, cur'.defs, cur'.ext))
  /\ modQ' = Pop(modQ)
  /\ before' = Len(modQ)
  /\ idx' = 0 /\ count' = 0 /\ empty' = 0
  /\ pc' = "parts"
  /\ UNCHANGED <<input, pass, secondQ, curModIdx, delivered>>

PopModule ==
  /\ pc = "pop"
  /\ modQ # <<>>
  /\ cur' = [Top(modQ) EXCEPT !.ext = @ \/ pass = "second"]
  /\ place' \in Placements(cur'.defs, Links(input, cur'.defs, cur'.ext))
  /\ modQ' = Pop(modQ)
  /\ before' = Len(modQ) - 1
  /\ idx' = 0
  /\ count' = 0
  /\ empty' = 0
  /\ pc' = "parts"
  /\ UNCHANGED <<input, pass, secondQ, curModIdx, delivered>>

(***************************************************************************)
(* The lambda of SplitWhileUseful, for a useful partition and for an empty *)
(* one.                                                                    *)
(***************************************************************************)
KeepPartSameId ==   \* mutant: the identifier gets no suffix
  /\ pc = "parts"
  /\ idx < SplitFactor
  /\ Useful(MPart(idx))
  /\ modQ' = Append(modQ, MPart(idx))
  /\ count' = count + 1
  /\ idx' = idx + 1
  /\ UNCHANGED <<input, pc, pass, secondQ, cur, place, empty, before, curModIdx, delivered>>

KeepPart ==
  /\ pc = "parts"
  /\ idx < SplitFactor
  /\ Useful(MPart(idx))
  /\ modQ' = Append(modQ, [MPart(idx) EXCEPT !.id = Append(@, count)])
  /\ count' = count + 1
  /\ idx' = idx + 1
  /\ UNCHANGED <<input, pc, pass, secondQ, cur, place, empty, before, curModIdx, delivered>>

DropPartOnceMore ==   \* mutant: the loop runs up to and including N
  /\ pc = "parts"
  /\ idx <= SplitFactor
  /\ ~Useful(MPart(idx))
  /\ empty' = empty + 1
  /\ idx' = idx + 1
  /\ UNCHANGED <<input, pc, pass, modQ, secondQ, cur, place, count, before, curModIdx, delivered>>

DropPart ==
  /\ pc = "parts"
  /\ idx < SplitFactor
  /\ ~Useful(MPart(idx))
  /\ empty' = empty + 1
  /\ idx' = idx + 1
  /\ UNCHANGED <<input, pc, pass, modQ, secondQ, cur, place, count, before, curModIdx, delivered>>

(***************************************************************************)
(* The three assertions that follow the call of SplitModule. A build with  *)
(* assertions aborts when one fails, the others go on.                     *)
(***************************************************************************)
SplitAsserts ==
  /\ count # 0
  /\ Len(modQ) - before = count
  /\ count + empty = SplitFactor

SplitDone == pc = "parts" /\ idx = SplitFactor

AssertFails ==
  /\ SplitDone
  /\ Asserts /\ ~SplitAsserts
  /\ pc' = "aborted"
  /\ UNCHANGED <<input, pass, modQ, secondQ, splitVars, curModIdx, delivered>>

(***************************************************************************)
(* The split was useful: its parts stay on the stack. (Or, in a build      *)
(* without assertions, it left nothing at all.)                            *)
(***************************************************************************)
Requeue ==
  /\ SplitDone
  /\ Asserts => SplitAsserts
  /\ count # 1
  /\ pc' = "pop"
  /\ UNCHANGED <<input, pass, modQ, secondQ, splitVars, curModIdx, delivered>>

(***************************************************************************)
(* The split failed, a single part is left: addToSecondQueue in the first  *)
(* pass, writeToDisk in the second.                                        *)
(***************************************************************************)
AddToSecondQueueNoPop ==   \* mutant: the part stays on ModQ
  /\ SplitDone
  /\ Asserts => SplitAsserts
  /\ count = 1
  /\ pass = "first"
  /\ secondQ' = Append(secondQ, Top(modQ))
  /\ pc' = "pop"
  /\ UNCHANGED <<input, pass, modQ, splitVars, curModIdx, delivered>>

AddToSecondQueue ==
  /\ SplitDone
  /\ Asserts => SplitAsserts
  /\ count = 1
  /\ pass = "first"
  /\ secondQ' = Append(secondQ, Top(modQ))
  /\ modQ' = Pop(modQ)
  /\ pc' = "pop"
  /\ UNCHANGED <<input, pass, splitVars, curModIdx, delivered>>

WriteFragmentRetry(ok) ==   \* mutant: after a failed write the module is tried again
  /\ SplitDone
  /\ count = 1
  /\ pass = "second"
  /\ ok \/ WriteMayFail
  /\ delivered' = IF ok THEN delivered \cup {[name |-> curModIdx, part |-> Top(modQ), ok |-> ok]}
                        ELSE delivered
  /\ curModIdx' = IF ok THEN curModIdx + 1 ELSE curModIdx
  /\ modQ' = IF ok THEN Pop(modQ) ELSE Append(Pop(modQ), cur)
  /\ pc' = "pop"
  /\ UNCHANGED <<input, pass, secondQ, splitVars>>

WriteFragment(ok) ==
  /\ SplitDone
  /\ Asserts => SplitAsserts
  /\ count = 1
  /\ pass = "second"
  /\ ok \/ WriteMayFail
  /\ delivered' = delivered \cup {[name |-> curModIdx, part |-> Top(modQ), ok |-> ok]}
  /\ curModIdx' = curModIdx + 1
  /\ modQ' = Pop(modQ)
  /\ pc' = IF ok \/ ~Asserts THEN "pop" ELSE "aborted"
  /\ UNCHANGED <<input, pass, secondQ, splitVars>>

(***************************************************************************)
(* The end of the first pass, and of decompose, which returns success.     *)
(***************************************************************************)
SwapQueues ==
  /\ pc = "pop"
  /\ modQ = <<>>
  /\ pass = "first"
  /\ pass' = "second"
  /\ modQ' = secondQ
  /\ secondQ' = modQ
  /\ UNCHANGED <<input, pc, splitVars, curModIdx, delivered>>

Return ==
  /\ pc = "pop"
  /\ modQ = <<>>
  /\ pass = "second"
  /\ pc' = "done"
  /\ UNCHANGED <<input, pass, modQ, secondQ, splitVars, curModIdx, delivered>>

Next ==
  \/ PopModule
  \/ KeepPart
  \/ DropPart
  \/ AssertFails
  \/ Requeue
  \/ AddToSecondQueue
  \/ \E ok \in BOOLEAN : WriteFragment(ok)
  \/ SwapQueues
  \/ Return

Spec == Init /\ [][Next]_vars /\ WF_vars(Next)

-----------------------------------------------------------------------------
(***************************************************************************)
(* Every variable has its type: the locals of decompose, and the placement *)
(* SplitModule has computed for the module it works on.                    *)
(***************************************************************************)
TypeOK ==
  /\ input \in Inputs
  /\ pc \in {"pop", "parts", "done", "aborted"}
  /\ pass \in {"first", "second"}
  /\ modQ \in Seq(Part)
  /\ secondQ \in Seq(Part)
  /\ cur \in Part
  /\ place \in [cur.defs -> Slot]
  /\ idx \in 0 .. SplitFactor
  /\ count \in Nat
  /\ empty \in Nat
  /\ before \in Nat
  /\ curModIdx \in Nat
  /\ delivered \in SUBSET [name : Nat, part : Part, ok : BOOLEAN]

(***************************************************************************)
(* Where an item can be: on a queue, still in the module being split, or   *)
(* with the ModuleCallback.                                                *)
(***************************************************************************)
PlaceOf(x) == IF x \in cur.defs THEN place[x] ELSE 0

InQueue(x, q) == \E i \in 1 .. Len(q) : x \in Items(q[i])

InRest(x) == pc = "parts" /\ x \in Items(cur) /\ PlaceOf(x) >= idx

InDelivered(x) == \E d \in delivered : x \in Items(d.part)

OnceInQueue(x, q) ==
  \A i, j \in 1 .. Len(q) : x \in Items(q[i]) /\ x \in Items(q[j]) => i = j

OnceInDelivered(x) ==
  \A d, e \in delivered : x \in Items(d.part) /\ x \in Items(e.part) => d = e

(***************************************************************************)
(* No definition is lost or duplicated: at every moment, in the middle of  *)
(* a split and between the passes, each one is in exactly one place. (At   *)
(* the end only the delivered modules are left: their definitions make up  *)
(* the input.)                                                             *)
(***************************************************************************)
Kept(x) == InQueue(x, modQ) \/ InQueue(x, secondQ) \/ InRest(x) \/ InDelivered(x)

KeptOnce(x) ==
  /\ OnceInQueue(x, modQ)
  /\ OnceInQueue(x, secondQ)
  /\ OnceInDelivered(x)
  /\ InQueue(x, modQ) => ~InQueue(x, secondQ) /\ ~InRest(x) /\ ~InDelivered(x)
  /\ InQueue(x, secondQ) => ~InRest(x) /\ ~InDelivered(x)
  /\ InRest(x) => ~InDelivered(x)

ExactlyOnce == \A x \in Items(Whole) : Kept(x) /\ KeptOnce(x)

(***************************************************************************)
(* The modules that exist apart from each other.                           *)
(***************************************************************************)
Rest == [cur EXCEPT !.defs = {s \in @ : InRest(s)}, !.asm = @ /\ idx = 0]

Modules ==
  {modQ[i] : i \in 1 .. Len(modQ)} \cup {secondQ[i] : i \in 1 .. Len(secondQ)}
  \cup {d.part : d \in delivered} \cup (IF pc = "parts" THEN {Rest} ELSE {})

(***************************************************************************)
(* "Decomposed output can be linked together": whatever has been split so  *)
(* far, comdat members, aliases and their bases, and functions and the     *)
(* users of their block addresses are in one module, and no module refers  *)
(* to a local symbol of another one unless that one was externalized.      *)
(***************************************************************************)
Linkable ==
  \A p, q \in Modules : \A x \in p.defs \ q.defs, y \in q.defs \ p.defs :
     /\ <<x, y>> \notin input.tied /\ <<y, x>> \notin input.tied
     /\ <<x, y>> \in input.refs /\ y \in input.local => q.ext

(***************************************************************************)
(* Until it is split again, a module of the second queue keeps each local  *)
(* with its users, so nothing was externalized that the first pass could   *)
(* have split off: a fragment holds a local apart from a user of it only   *)
(* when the two were in one stuck module of the first pass. Stuck means    *)
(* that at most one cluster is left: a written fragment never holds two    *)
(* clusters that SplitModule could have separated. Symbols in no cluster   *)
(* are placed by the hash and may be written together.                     *)
(***************************************************************************)
OneClusterLeft(p) ==
  LET B == BigClusters(p.defs, Links(input, p.defs, p.ext))
  IN  \A C, D \in B : C = D

Tight ==
  /\ pass = "first" => \A i \in 1 .. Len(secondQ) : OneClusterLeft(secondQ[i])
  /\ \A d \in delivered : OneClusterLeft(d.part)

(***************************************************************************)
(* Module identifiers are unique. They salt the hash that places symbols,  *)
(* and they name the origin of a written fragment.                         *)
(***************************************************************************)
UniqueIds ==
  LET q == modQ \o secondQ
      used == {d.part.id : d \in delivered}
  IN  /\ \A i, j \in 1 .. Len(q) : q[i].id = q[j].id => i = j
      /\ \A i \in 1 .. Len(q) : q[i].id \notin used
      /\ \A d, e \in delivered : d.part.id = e.part.id => d = e

(***************************************************************************)
(* What the last two assertions of SplitWhileUseful rely on, throughout    *)
(* the calls of the lambda: ModQ grew by Count, and every call was counted *)
(* as a part or as empty.                                                  *)
(***************************************************************************)
SplitCounted ==
  pc = "parts" => Len(modQ) = before + count /\ count + empty = idx

(***************************************************************************)
(* Splitting makes progress: the parts of a split that goes back on the    *)
(* stack each define less than the module that was split.                  *)
(***************************************************************************)
PartsShrink ==
  SplitDone /\ count # 1 =>
    \A i \in before + 1 .. Len(modQ) : Items(modQ[i]) # Items(cur)

(***************************************************************************)
(* decompose comes to an end: no module is requeued for ever.              *)
(***************************************************************************)
Termination == <>(pc \in {"done", "aborted"})

(***************************************************************************)
(* The assertion "all partitions empty?!": it never fails.                 *)
(***************************************************************************)
SomePartNonEmpty == SplitDone => count # 0

(***************************************************************************)
(* "Bad error path": a failed write is not reported as success.            *)
(***************************************************************************)
SuccessMeansWritten == pc = "done" => \A d \in delivered : d.ok

-----------------------------------------------------------------------------
(***************************************************************************)
(* decompose implements Decomposition. A module whose split is under way   *)
(* is still whole; the split takes effect when all its parts are there. A  *)
(* block counts as written once it was handed to the ModuleCallback: what  *)
(* becomes of a write that fails is SuccessMeansWritten's business.        *)
(***************************************************************************)
Pending ==
  {modQ[i] : i \in 1 .. (IF pc = "parts" THEN before ELSE Len(modQ))}
  \cup {secondQ[i] : i \in 1 .. Len(secondQ)}
  \cup (IF pc = "parts" THEN {cur} ELSE {})

ItemsOf(m) == m.defs \cup {a \in {"asm"} : m.asm = "defining"}
TiedOf(m) == m.tied

Promise == INSTANCE Decomposition WITH
  Items   <- ItemsOf,
  Tied    <- TiedOf,
  source  <- input,
  todo    <- {Items(p) : p \in Pending} \ {{}},
  written <- {Items(d.part) : d \in {e \in delivered : Useful(e.part)}},
  outcome <- IF pc = "done" THEN "success" ELSE "running"

ImplementsDecomposition == Promise!Spec
=============================================================================
