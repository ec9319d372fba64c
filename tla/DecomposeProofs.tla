-------------------------- MODULE DecomposeProofs --------------------------
(***************************************************************************)
(* Theorems about Decompose, for every set of symbols, every number of     *)
(* partitions and every set of inputs, and their proofs.                   *)
(***************************************************************************)
EXTENDS Decompose, SequenceTheorems, TLAPS

USE SplitFactorAssumption

-----------------------------------------------------------------------------
(***************************************************************************)
(* Stacks of modules: what is on top, what a pop and a push leave.         *)
(***************************************************************************)
LEMMA PopFacts ==
  ASSUME NEW q \in Seq(Part), q # <<>>
  PROVE  /\ Len(q) \in Nat \ {0}
         /\ Top(q) \in Part
         /\ Pop(q) \in Seq(Part)
         /\ Len(Pop(q)) = Len(q) - 1
         /\ \A i \in 1 .. Len(q) - 1 : Pop(q)[i] = q[i]
<1>1. Len(q) \in Nat \ {0}
  BY EmptySeq
<1>2. \A i \in 1 .. Len(q) : q[i] \in Part
  BY ElementOfSeq
<1>3. \A i \in 1 .. Len(q) - 1 : q[i] \in Part
  BY <1>1, <1>2
<1>4. /\ SubSeq(q, 1, Len(q) - 1) \in Seq(Part)
      /\ Len(SubSeq(q, 1, Len(q) - 1)) = IF 1 <= Len(q) - 1 THEN Len(q) - 1 - 1 + 1 ELSE 0
      /\ \A i \in 1 .. Len(q) - 1 - 1 + 1 : SubSeq(q, 1, Len(q) - 1)[i] = q[1 + i - 1]
  BY <1>1, <1>3, SubSeqProperties
<1>5. Len(SubSeq(q, 1, Len(q) - 1)) = Len(q) - 1
  <2> DEFINE n == Len(q)
             l == Len(SubSeq(q, 1, Len(q) - 1))
  <2>1. n \in Nat \ {0} /\ l = IF 1 <= n - 1 THEN n - 1 - 1 + 1 ELSE 0
    BY <1>1, <1>4
  <2> HIDE DEF n, l
  <2>2. l = n - 1
    BY <2>1
  <2> QED
    BY <2>2 DEF n, l
<1>6. \A i \in 1 .. Len(q) - 1 : SubSeq(q, 1, Len(q) - 1)[i] = q[i]
  BY <1>1, <1>4
<1> QED
  BY <1>1, <1>2, <1>4, <1>5, <1>6 DEF Pop, Top

LEMMA PushFacts ==
  ASSUME NEW q \in Seq(Part), NEW p \in Part
  PROVE  /\ Len(q) \in Nat
         /\ Append(q, p) \in Seq(Part)
         /\ Len(Append(q, p)) = Len(q) + 1
         /\ \A i \in 1 .. Len(q) : Append(q, p)[i] = q[i]
         /\ Append(q, p)[Len(q) + 1] = p
BY AppendProperties, LenProperties

(***************************************************************************)
(* The partitions of a module, and the module that a run starts with, are  *)
(* modules.                                                                *)
(***************************************************************************)
LEMMA WholeIsPart ==
  ASSUME input \in Inputs
  PROVE  Whole \in Part
<1>1. input \in InputModule
  BY DecomposeAssumption
<1>2. <<>> \in Seq(Nat)
  BY EmptySeq
<1> QED
  BY <1>1, <1>2 DEF Whole, Part, InputModule

LEMMA MPartIsPart ==
  ASSUME cur \in Part, NEW i \in Slot, count \in Nat
  PROVE  [MPart(i) EXCEPT !.id = Append(@, count)] \in Part
<1>1. cur.id \in Seq(Nat) /\ cur.defs \subseteq Sym /\ cur.asm \in BOOLEAN /\ cur.ext \in BOOLEAN
  BY DEF Part
<1>2. Append(cur.id, count) \in Seq(Nat)
  BY <1>1, AppendProperties
<1> QED
  BY <1>1, <1>2 DEF Part, MPart

-----------------------------------------------------------------------------
(***************************************************************************)
(* Type correctness. It needs the count of parts: taking the single part   *)
(* of a failed split off the stack is only defined because the stack grew  *)
(* by one.                                                                 *)
(***************************************************************************)
TypeInv == TypeOK /\ SplitCounted

LEMMA TypeInvInit == Init => TypeInv
<1> SUFFICES ASSUME Init PROVE TypeInv
  OBVIOUS
<1>1. Whole \in Part
  BY WholeIsPart DEF Init
<1>2. <<Whole>> \in Seq(Part) /\ <<>> \in Seq(Part)
  BY <1>1, EmptySeq
<1>3. 0 \in Slot /\ 0 \in 0 .. SplitFactor
  BY DEF Slot
<1>4. place \in [cur.defs -> Slot]
  BY <1>3 DEF Init, Whole
<1> QED
  BY <1>1, <1>2, <1>3, <1>4 DEF Init, TypeInv, TypeOK, SplitCounted

(***************************************************************************)
(* When a split has left one part, the stack is not empty.                 *)
(***************************************************************************)
LEMMA OnePartLeft ==
  ASSUME TypeInv, SplitDone, count = 1
  PROVE  modQ \in Seq(Part) /\ modQ # <<>>
<1>1. Len(modQ) = before + 1 /\ before \in Nat
  BY DEF TypeInv, TypeOK, SplitCounted, SplitDone
<1>2. Len(<<>>) = 0
  BY EmptySeq
<1> QED
  BY <1>1, <1>2 DEF TypeInv, TypeOK

LEMMA TypeInvNext == TypeInv /\ [Next]_vars => TypeInv'
<1> SUFFICES ASSUME TypeInv, [Next]_vars PROVE TypeInv'
  OBVIOUS
<1> USE DEF TypeInv, TypeOK, SplitCounted
<1>1. CASE PopModule
  <2> USE <1>1 DEF PopModule
  <2>1. /\ Len(modQ) \in Nat \ {0} /\ Top(modQ) \in Part
        /\ Pop(modQ) \in Seq(Part) /\ Len(Pop(modQ)) = Len(modQ) - 1
    BY PopFacts
  <2>2. cur' \in Part
    BY <2>1 DEF Part
  <2>3. place' \in [cur'.defs -> Slot]
    BY DEF Placements
  <2>4. modQ' \in Seq(Part) /\ before' \in Nat /\ idx' \in 0 .. SplitFactor
    BY <2>1
  <2>5. Len(modQ') = before' + count' /\ count' + empty' = idx'
    BY <2>1
  <2> QED
    BY <2>2, <2>3, <2>4, <2>5
<1>2. CASE KeepPart
  <2> USE <1>2 DEF KeepPart
  <2>1. idx \in Slot
    BY DEF Slot
  <2>2. [MPart(idx) EXCEPT !.id = Append(@, count)] \in Part
    BY <2>1, MPartIsPart
  <2>3. modQ' \in Seq(Part) /\ Len(modQ) \in Nat /\ Len(modQ') = Len(modQ) + 1
    BY <2>2, PushFacts
  <2> QED
    BY <2>3
<1>3. CASE DropPart
  BY <1>3 DEF DropPart
<1>4. CASE AssertFails
  BY <1>4 DEF AssertFails, splitVars
<1>5. CASE Requeue
  BY <1>5 DEF Requeue, splitVars
<1>6. CASE AddToSecondQueue
  <2>1. Top(modQ) \in Part /\ Pop(modQ) \in Seq(Part)
    BY <1>6, OnePartLeft, PopFacts DEF AddToSecondQueue
  <2>2. secondQ' \in Seq(Part)
    BY <1>6, <2>1, PushFacts DEF AddToSecondQueue
  <2> QED
    BY <1>6, <2>1, <2>2 DEF AddToSecondQueue, splitVars
<1>7. ASSUME NEW ok \in BOOLEAN, WriteFragment(ok)
      PROVE  TypeInv'
  <2>1. Top(modQ) \in Part /\ Pop(modQ) \in Seq(Part)
    BY <1>7, OnePartLeft, PopFacts DEF WriteFragment
  <2>2. delivered' \in SUBSET [name : Nat, part : Part, ok : BOOLEAN]
    BY <1>7, <2>1 DEF WriteFragment
  <2> QED
    BY <1>7, <2>1, <2>2 DEF WriteFragment, splitVars
<1>8. CASE SwapQueues
  BY <1>8 DEF SwapQueues, splitVars
<1>9. CASE Return
  BY <1>9 DEF Return, splitVars
<1>10. CASE UNCHANGED vars
  BY <1>10 DEF vars
<1> QED
  BY <1>1, <1>2, <1>3, <1>4, <1>5, <1>6, <1>7, <1>8, <1>9, <1>10 DEF Next

(***************************************************************************)
(* Every variable of decompose always has its type.                        *)
(***************************************************************************)
THEOREM TypeCorrect == Spec => []TypeOK
<1>1. TypeInv => TypeOK
  BY DEF TypeInv
<1> QED
  BY <1>1, TypeInvInit, TypeInvNext, PTL DEF Spec

(***************************************************************************)
(* Throughout a split ModQ has grown by Count, and every call of the       *)
(* lambda was counted once: the assertions "module queue count mismatch"   *)
(* and "callback not called splitfactor times" cannot fail.                *)
(***************************************************************************)
THEOREM CallsAreCounted == Spec => []SplitCounted
<1>1. TypeInv => SplitCounted
  BY DEF TypeInv
<1> QED
  BY <1>1, TypeInvInit, TypeInvNext, PTL DEF Spec

-----------------------------------------------------------------------------
(***************************************************************************)
(* Conservation, for one item x. What a push and a pop do to the places    *)
(* x is at.                                                                *)
(***************************************************************************)
LEMMA InPush ==
  ASSUME NEW x, NEW q \in Seq(Part), NEW p \in Part
  PROVE  /\ InQueue(x, Append(q, p)) <=> InQueue(x, q) \/ x \in Items(p)
         /\ OnceInQueue(x, q) /\ ~(InQueue(x, q) /\ x \in Items(p))
              => OnceInQueue(x, Append(q, p))
<1> DEFINE r == Append(q, p)
           n == Len(q)
<1>1. /\ n \in Nat /\ Len(r) = n + 1
      /\ \A i \in 1 .. n : r[i] = q[i]
      /\ r[n + 1] = p
  BY PushFacts
<1>2. \A i \in 1 .. n + 1 : i \in 1 .. n \/ i = n + 1
  BY <1>1
<1>3. n + 1 \in 1 .. n + 1 /\ \A i \in 1 .. n : i \in 1 .. n + 1
  BY <1>1
<1> HIDE DEF r, n
<1>4. (\E i \in 1 .. n + 1 : x \in Items(r[i]))
        <=> (\E i \in 1 .. n : x \in Items(q[i])) \/ x \in Items(p)
  BY <1>1, <1>2, <1>3, Zenon
<1>5. InQueue(x, r) <=> InQueue(x, q) \/ x \in Items(p)
  BY <1>1, <1>4 DEF InQueue, n
<1>6. ASSUME OnceInQueue(x, q), ~(InQueue(x, q) /\ x \in Items(p)),
             NEW i \in 1 .. n + 1, NEW j \in 1 .. n + 1,
             x \in Items(r[i]), x \in Items(r[j])
      PROVE  i = j
  <2>1. \A k, l \in 1 .. n : x \in Items(q[k]) /\ x \in Items(q[l]) => k = l
    BY <1>6 DEF OnceInQueue, n
  <2>2. x \in Items(p) => \A k \in 1 .. n : x \notin Items(q[k])
    BY <1>6 DEF InQueue, n
  <2> QED
    BY <1>1, <1>2, <1>6, <2>1, <2>2, Zenon
<1> QED
  BY <1>1, <1>5, <1>6 DEF OnceInQueue, r

LEMMA InPop ==
  ASSUME NEW x, NEW q \in Seq(Part), q # <<>>
  PROVE  /\ InQueue(x, q) <=> InQueue(x, Pop(q)) \/ x \in Items(Top(q))
         /\ OnceInQueue(x, q) => /\ OnceInQueue(x, Pop(q))
                                 /\ ~(InQueue(x, Pop(q)) /\ x \in Items(Top(q)))
<1> DEFINE r == Pop(q)
           n == Len(q)
<1>1. /\ n \in Nat \ {0} /\ Len(r) = n - 1 /\ Top(q) = q[n]
      /\ \A i \in 1 .. n - 1 : r[i] = q[i]
  BY PopFacts DEF Top
<1>2. /\ \A i \in 1 .. n : i \in 1 .. n - 1 \/ i = n
      /\ \A i \in 1 .. n - 1 : i \in 1 .. n /\ i # n
      /\ n \in 1 .. n
  BY <1>1
<1> HIDE DEF r, n
<1>3. (\E i \in 1 .. n : x \in Items(q[i]))
        <=> (\E i \in 1 .. n - 1 : x \in Items(r[i])) \/ x \in Items(q[n])
  BY <1>1, <1>2, Zenon
<1>4. InQueue(x, q) <=> InQueue(x, r) \/ x \in Items(Top(q))
  BY <1>1, <1>3 DEF InQueue, n
<1>5. ASSUME OnceInQueue(x, q)
      PROVE  OnceInQueue(x, r) /\ ~(InQueue(x, r) /\ x \in Items(Top(q)))
  <2>1. \A k, l \in 1 .. n : x \in Items(q[k]) /\ x \in Items(q[l]) => k = l
    BY <1>5 DEF OnceInQueue, n
  <2>2. \A k, l \in 1 .. n - 1 : x \in Items(r[k]) /\ x \in Items(r[l]) => k = l
    BY <1>1, <1>2, <2>1, Zenon
  <2>3. ~((\E k \in 1 .. n - 1 : x \in Items(r[k])) /\ x \in Items(q[n]))
    BY <1>1, <1>2, <2>1, Zenon
  <2> QED
    BY <1>1, <2>2, <2>3 DEF OnceInQueue, InQueue
<1> QED
  BY <1>4, <1>5 DEF r

(***************************************************************************)
(* The places of x in the next state, in terms of the queues and the       *)
(* delivered modules of the next state and of the input, which stays.      *)
(***************************************************************************)
LEMMA QueuesUnprimed ==
  ASSUME NEW x, input' = input
  PROVE  /\ InQueue(x, modQ)' <=> InQueue(x, modQ')
         /\ OnceInQueue(x, modQ)' <=> OnceInQueue(x, modQ')
         /\ InQueue(x, secondQ)' <=> InQueue(x, secondQ')
         /\ OnceInQueue(x, secondQ)' <=> OnceInQueue(x, secondQ')
BY DEF InQueue, OnceInQueue, Items

LEMMA DeliveredSame ==
  ASSUME NEW x, input' = input, delivered' = delivered
  PROVE  /\ InDelivered(x)' <=> InDelivered(x)
         /\ OnceInDelivered(x)' <=> OnceInDelivered(x)
BY DEF InDelivered, OnceInDelivered, Items

LEMMA EmptyHoldsNothing ==
  ASSUME NEW x
  PROVE  ~InQueue(x, <<>>) /\ OnceInQueue(x, <<>>)
<1>1. Len(<<>>) = 0 /\ 1 .. 0 = {}
  BY EmptySeq
<1> QED
  BY <1>1 DEF InQueue, OnceInQueue

(***************************************************************************)
(* The partition handed to the lambda has the items placed at idx; what    *)
(* has no place below SplitFactor left is not in the rest.                 *)
(***************************************************************************)
LEMMA PartAtIdx ==
  ASSUME NEW x, TypeInv
  PROVE  x \in Items(MPart(idx)) <=> x \in Items(cur) /\ PlaceOf(x) = idx
<1>1. cur.defs \subseteq Sym /\ "asm" \notin cur.defs
  BY SymAssumption DEF TypeInv, TypeOK, Part
<1>2. CASE x \in cur.defs
  BY <1>1, <1>2 DEF Items, MPart, PlaceOf
<1>3. CASE x \notin cur.defs
  BY <1>1, <1>3 DEF Items, MPart, PlaceOf
<1> QED
  BY <1>2, <1>3

LEMMA PlaceIsSlot ==
  ASSUME NEW x, TypeInv
  PROVE  PlaceOf(x) \in Slot
<1>1. 0 \in Slot
  BY DEF Slot
<1> QED
  BY <1>1 DEF PlaceOf, TypeInv, TypeOK

LEMMA RestAdvances ==
  ASSUME NEW x, TypeInv, pc = "parts", UNCHANGED <<input, pc, cur, place>>, idx' = idx + 1
  PROVE  InRest(x)' <=> InRest(x) /\ x \notin Items(MPart(idx))
<1>1. InRest(x)' <=> x \in Items(cur) /\ PlaceOf(x) >= idx + 1
  BY DEF InRest, Items, PlaceOf
<1>2. InRest(x) <=> x \in Items(cur) /\ PlaceOf(x) >= idx
  BY DEF InRest
<1>3. PlaceOf(x) \in Nat /\ idx \in Nat
  BY PlaceIsSlot DEF Slot, TypeInv, TypeOK
<1>4. PlaceOf(x) >= idx + 1 <=> PlaceOf(x) >= idx /\ PlaceOf(x) # idx
  BY <1>3
<1> QED
  BY <1>1, <1>2, <1>4, PartAtIdx

LEMMA RestIsEmpty ==
  ASSUME NEW x, TypeInv, pc = "parts" => idx = SplitFactor
  PROVE  ~InRest(x)
<1>1. PlaceOf(x) \in Nat /\ PlaceOf(x) < SplitFactor
  BY PlaceIsSlot DEF Slot
<1> QED
  BY <1>1 DEF InRest

(***************************************************************************)
(* Each step keeps x in exactly one place.                                 *)
(***************************************************************************)
Once(x) == Kept(x) /\ KeptOnce(x)

LEMMA OncePop ==
  ASSUME NEW x, TypeInv, Once(x), PopModule
  PROVE  Once(x)'
<1> USE DEF PopModule
<1>1. modQ \in Seq(Part) /\ modQ # <<>>
  BY DEF TypeInv, TypeOK
<1>2. /\ InQueue(x, modQ) <=> InQueue(x, modQ') \/ x \in Items(Top(modQ))
      /\ OnceInQueue(x, modQ) => /\ OnceInQueue(x, modQ')
                                 /\ ~(InQueue(x, modQ') /\ x \in Items(Top(modQ)))
  BY <1>1, InPop
<1>3. InRest(x)' <=> x \in Items(Top(modQ))
  <2>1. (TypeInv)'
    BY TypeInvNext DEF Next
  <2>2. PlaceOf(x)' \in Slot
    BY <2>1 DEF PlaceOf, TypeInv, TypeOK, Slot
  <2>3. Top(modQ) \in Part
    BY <1>1, PopFacts
  <2>4. cur'.defs = Top(modQ).defs /\ cur'.asm = Top(modQ).asm
    BY <2>3 DEF Part
  <2>5. x \in Items(cur)' <=> x \in Items(Top(modQ))
    BY <2>4 DEF Items
  <2> QED
    BY <2>2, <2>5 DEF InRest, Slot
<1>4. ~InRest(x)
  BY DEF InRest
<1>5. InQueue(x, secondQ') <=> InQueue(x, secondQ)
  OBVIOUS
<1>6. OnceInQueue(x, secondQ') <=> OnceInQueue(x, secondQ)
  OBVIOUS
<1> QED
  BY <1>2, <1>3, <1>4, <1>5, <1>6, QueuesUnprimed, DeliveredSame DEF Once, Kept, KeptOnce

LEMMA OnceKeep ==
  ASSUME NEW x, TypeInv, Once(x), KeepPart
  PROVE  Once(x)'
<1> DEFINE p == [MPart(idx) EXCEPT !.id = Append(@, count)]
<1> USE DEF KeepPart
<1>1. modQ \in Seq(Part) /\ count \in Nat /\ idx \in Slot
  BY DEF TypeInv, TypeOK, Slot
<1>2. p \in Part
  BY <1>1, MPartIsPart DEF TypeInv, TypeOK
<1>3. x \in Items(p) <=> x \in Items(MPart(idx))
  <2>1. p.defs = MPart(idx).defs /\ p.asm = MPart(idx).asm
    BY DEF MPart
  <2> QED
    BY <2>1 DEF Items
<1>4. modQ' = Append(modQ, p)
  OBVIOUS
<1>5. x \in Items(p) <=> x \in Items(cur) /\ PlaceOf(x) = idx
  BY <1>3, PartAtIdx
<1>6. x \in Items(p) => InRest(x)
  BY <1>1, <1>5 DEF InRest, Slot
<1>7. InRest(x)' <=> InRest(x) /\ x \notin Items(p)
  BY <1>3, RestAdvances
<1> HIDE DEF p
<1>8. /\ InQueue(x, modQ') <=> InQueue(x, modQ) \/ x \in Items(p)
      /\ OnceInQueue(x, modQ) /\ ~(InQueue(x, modQ) /\ x \in Items(p)) => OnceInQueue(x, modQ')
  BY <1>1, <1>2, <1>4, InPush
<1>9. /\ InQueue(x, secondQ') <=> InQueue(x, secondQ)
      /\ OnceInQueue(x, secondQ') <=> OnceInQueue(x, secondQ)
  OBVIOUS
<1> QED
  BY <1>6, <1>7, <1>8, <1>9, QueuesUnprimed, DeliveredSame DEF Once, Kept, KeptOnce

LEMMA OnceDrop ==
  ASSUME NEW x, TypeInv, Once(x), DropPart
  PROVE  Once(x)'
<1> USE DEF DropPart
<1>1. x \notin Items(MPart(idx))
  BY DEF Useful
<1>2. InRest(x)' <=> InRest(x)
  BY <1>1, RestAdvances
<1>3. /\ InQueue(x, modQ') <=> InQueue(x, modQ)
      /\ OnceInQueue(x, modQ') <=> OnceInQueue(x, modQ)
      /\ InQueue(x, secondQ') <=> InQueue(x, secondQ)
      /\ OnceInQueue(x, secondQ') <=> OnceInQueue(x, secondQ)
  OBVIOUS
<1> QED
  BY <1>2, <1>3, QueuesUnprimed, DeliveredSame DEF Once, Kept, KeptOnce

LEMMA OnceSecondQueue ==
  ASSUME NEW x, TypeInv, Once(x), AddToSecondQueue
  PROVE  Once(x)'
<1> USE DEF AddToSecondQueue
<1>1. modQ \in Seq(Part) /\ modQ # <<>> /\ Top(modQ) \in Part /\ secondQ \in Seq(Part)
  BY OnePartLeft, PopFacts DEF TypeInv, TypeOK
<1>2. /\ InQueue(x, modQ) <=> InQueue(x, modQ') \/ x \in Items(Top(modQ))
      /\ OnceInQueue(x, modQ) => /\ OnceInQueue(x, modQ')
                                 /\ ~(InQueue(x, modQ') /\ x \in Items(Top(modQ)))
  BY <1>1, InPop
<1>3. /\ InQueue(x, secondQ') <=> InQueue(x, secondQ) \/ x \in Items(Top(modQ))
      /\ OnceInQueue(x, secondQ) /\ ~(InQueue(x, secondQ) /\ x \in Items(Top(modQ)))
           => OnceInQueue(x, secondQ')
  BY <1>1, InPush
<1>4. ~InRest(x)
  BY RestIsEmpty DEF SplitDone
<1>5. ~InRest(x)'
  BY DEF InRest
<1> QED
  BY <1>2, <1>3, <1>4, <1>5, QueuesUnprimed, DeliveredSame DEF Once, Kept, KeptOnce

LEMMA OnceWrite ==
  ASSUME NEW x, TypeInv, Once(x), NEW ok \in BOOLEAN, WriteFragment(ok)
  PROVE  Once(x)'
<1> DEFINE d == [name |-> curModIdx, part |-> Top(modQ), ok |-> ok]
<1> USE DEF WriteFragment
<1>1. modQ \in Seq(Part) /\ modQ # <<>>
  BY OnePartLeft
<1>2. /\ InQueue(x, modQ) <=> InQueue(x, modQ') \/ x \in Items(Top(modQ))
      /\ OnceInQueue(x, modQ) => /\ OnceInQueue(x, modQ')
                                 /\ ~(InQueue(x, modQ') /\ x \in Items(Top(modQ)))
  BY <1>1, InPop
<1>3. /\ delivered' = delivered \cup {d}
      /\ d.part = Top(modQ)
  OBVIOUS
<1> HIDE DEF d
<1>4. \A p : x \in Items(p)' <=> x \in Items(p)
  BY DEF Items
<1>5. InDelivered(x)' <=> InDelivered(x) \/ x \in Items(Top(modQ))
  BY <1>3, <1>4 DEF InDelivered, Items
<1>6. OnceInDelivered(x) /\ ~(InDelivered(x) /\ x \in Items(Top(modQ))) => OnceInDelivered(x)'
  BY <1>3, <1>4 DEF InDelivered, OnceInDelivered, Items
<1>7. /\ InQueue(x, secondQ') <=> InQueue(x, secondQ)
      /\ OnceInQueue(x, secondQ') <=> OnceInQueue(x, secondQ)
  OBVIOUS
<1>8. ~InRest(x)
  BY RestIsEmpty DEF SplitDone
<1>9. ~InRest(x)'
  BY DEF InRest
<1> QED
  BY <1>2, <1>5, <1>6, <1>7, <1>8, <1>9, QueuesUnprimed DEF Once, Kept, KeptOnce

LEMMA OnceSwap ==
  ASSUME NEW x, TypeInv, Once(x), SwapQueues
  PROVE  Once(x)'
<1> USE DEF SwapQueues
<1>1. ~InQueue(x, modQ)
  BY EmptyHoldsNothing
<1>2. /\ InQueue(x, modQ') <=> InQueue(x, secondQ)
      /\ OnceInQueue(x, modQ') <=> OnceInQueue(x, secondQ)
      /\ ~InQueue(x, secondQ') /\ OnceInQueue(x, secondQ')
  BY EmptyHoldsNothing
<1>3. ~InRest(x) /\ ~InRest(x)'
  BY DEF InRest
<1> QED
  BY <1>1, <1>2, <1>3, QueuesUnprimed, DeliveredSame DEF Once, Kept, KeptOnce

(***************************************************************************)
(* The steps that only change pc leave a split behind, if anything: the    *)
(* rest of the module is empty before and after.                           *)
(***************************************************************************)
LEMMA OnceSamePlaces ==
  ASSUME NEW x, TypeInv, Once(x),
         AssertFails \/ Requeue \/ Return \/ UNCHANGED vars
  PROVE  Once(x)'
<1>1. UNCHANGED <<input, modQ, secondQ, delivered>>
  BY DEF AssertFails, Requeue, Return, vars
<1>2. InRest(x)' <=> InRest(x)
  <2>1. CASE UNCHANGED vars
    BY <2>1 DEF vars, InRest, Items, PlaceOf
  <2>2. CASE AssertFails \/ Requeue \/ Return
    <3>1. (pc = "parts" => idx = SplitFactor) /\ pc' # "parts"
      BY <2>2 DEF AssertFails, Requeue, Return, SplitDone
    <3> QED
      BY <3>1, RestIsEmpty DEF InRest
  <2> QED
    BY <2>1, <2>2
<1>3. /\ InQueue(x, modQ') <=> InQueue(x, modQ)
      /\ OnceInQueue(x, modQ') <=> OnceInQueue(x, modQ)
      /\ InQueue(x, secondQ') <=> InQueue(x, secondQ)
      /\ OnceInQueue(x, secondQ') <=> OnceInQueue(x, secondQ)
  BY <1>1
<1> QED
  BY <1>1, <1>2, <1>3, QueuesUnprimed, DeliveredSame DEF Once, Kept, KeptOnce

LEMMA OnceNext ==
  ASSUME NEW x, TypeInv, Once(x), [Next]_vars
  PROVE  Once(x)'
BY OncePop, OnceKeep, OnceDrop, OnceSecondQueue, OnceWrite, OnceSwap, OnceSamePlaces DEF Next

LEMMA OnceInit == Init => ExactlyOnce
<1> SUFFICES ASSUME Init, NEW x \in Items(Whole) PROVE Kept(x) /\ KeptOnce(x)
  BY DEF ExactlyOnce
<1>1. Len(modQ) = 1 /\ modQ[1] = Whole /\ secondQ = <<>>
  BY DEF Init
<1>2. InQueue(x, modQ) /\ OnceInQueue(x, modQ)
  <2>1. \A i \in 1 .. 1 : i = 1
    OBVIOUS
  <2> QED
    BY <1>1, <2>1 DEF InQueue, OnceInQueue
<1>3. ~InQueue(x, secondQ) /\ OnceInQueue(x, secondQ)
  BY <1>1, EmptyHoldsNothing
<1>4. ~InRest(x) /\ ~InDelivered(x) /\ OnceInDelivered(x)
  BY DEF Init, InRest, InDelivered, OnceInDelivered
<1> QED
  BY <1>2, <1>3, <1>4 DEF Kept, KeptOnce

(***************************************************************************)
(* No definition of the input, and not the symbols of its assembly either, *)
(* is ever lost or duplicated, whatever SplitModule answers, whichever     *)
(* writes fail, and with or without assertions.                            *)
(***************************************************************************)
THEOREM Conservation == Spec => []ExactlyOnce
<1> DEFINE Inv == TypeInv /\ ExactlyOnce
<1>1. Init => Inv
  BY TypeInvInit, OnceInit
<1>2. Inv /\ [Next]_vars => Inv'
  <2> SUFFICES ASSUME Inv, [Next]_vars PROVE Inv'
    OBVIOUS
  <2>1. TypeInv'
    BY TypeInvNext
  <2>2. input' = input
    BY DEF Next, vars, PopModule, KeepPart, DropPart, AssertFails, Requeue,
           AddToSecondQueue, WriteFragment, SwapQueues, Return
  <2>3. Items(Whole)' = Items(Whole)
    BY <2>2 DEF Items, Whole
  <2>4. \A x \in Items(Whole) : Once(x)
    BY DEF ExactlyOnce, Once
  <2>5. \A x \in Items(Whole) : Once(x)'
    BY <2>4, OnceNext
  <2>6. ExactlyOnce'
    BY <2>3, <2>5 DEF ExactlyOnce, Once
  <2> QED
    BY <2>1, <2>6
<1>3. Inv => ExactlyOnce
  OBVIOUS
<1> QED
  BY <1>1, <1>2, <1>3, PTL DEF Spec

-----------------------------------------------------------------------------
(***************************************************************************)
(* Linkability. A module is self-contained when it has both or neither of  *)
(* a tied pair and, unless its locals were externalized, every user of     *)
(* each of its locals. Splitting along links keeps modules self-contained, *)
(* so it is an invariant of each module by itself.                         *)
(***************************************************************************)
SelfContained(p) ==
  /\ p.defs \subseteq input.defs
  /\ \A x, y \in input.defs :
       /\ <<x, y>> \in input.tied => (x \in p.defs <=> y \in p.defs)
       /\ <<x, y>> \in input.refs /\ y \in input.local /\ y \in p.defs /\ ~p.ext => x \in p.defs

LinkInv ==
  /\ \A i \in 1 .. Len(modQ) : SelfContained(modQ[i])
  /\ \A i \in 1 .. Len(secondQ) : SelfContained(secondQ[i])
  /\ \A d \in delivered : SelfContained(d.part)
  /\ pc = "parts" => /\ SelfContained(cur)
                     /\ KeepsLinks(place, Links(input, cur.defs, cur.ext))

(***************************************************************************)
(* What a set of slots gets of a self-contained module is self-contained.  *)
(***************************************************************************)
LEMMA LinkedSlots ==
  ASSUME SelfContained(cur), KeepsLinks(place, Links(input, cur.defs, cur.ext)),
         NEW p, NEW I, p.ext = cur.ext, p.defs = {s \in cur.defs : place[s] \in I}
  PROVE  SelfContained(p)
<1>1. ASSUME NEW x \in cur.defs, NEW y \in cur.defs,
             <<x, y>> \in input.tied \/ (~cur.ext /\ y \in input.local /\ <<x, y>> \in input.refs)
      PROVE  place[x] = place[y]
  <2> DEFINE l == <<x, y>>
  <2>1. l \in cur.defs \X cur.defs /\ l[1] = x /\ l[2] = y
    OBVIOUS
  <2>2. l \in Links(input, cur.defs, cur.ext)
    BY <1>1, <2>1 DEF Links
  <2>3. place[l[1]] = place[l[2]]
    BY <2>2 DEF KeepsLinks
  <2> QED
    BY <2>1, <2>3
<1>2. p.defs \subseteq input.defs
  BY DEF SelfContained
<1>3. ASSUME NEW x \in input.defs, NEW y \in input.defs, <<x, y>> \in input.tied
      PROVE  x \in p.defs <=> y \in p.defs
  <2>1. x \in cur.defs <=> y \in cur.defs
    BY <1>3 DEF SelfContained
  <2> QED
    BY <1>1, <1>3, <2>1
<1>4. ASSUME NEW x \in input.defs, NEW y \in input.defs, <<x, y>> \in input.refs,
             y \in input.local, y \in p.defs, ~p.ext
      PROVE  x \in p.defs
  <2>1. x \in cur.defs /\ y \in cur.defs
    BY <1>4 DEF SelfContained
  <2> QED
    BY <1>1, <1>4, <2>1
<1> QED
  BY <1>2, <1>3, <1>4 DEF SelfContained

LEMMA LinkInvInit == Init => LinkInv
<1> SUFFICES ASSUME Init PROVE LinkInv
  OBVIOUS
<1>1. SelfContained(Whole)
  BY DEF SelfContained, Whole
<1>2. Len(modQ) = 1 /\ modQ[1] = Whole
  BY DEF Init
<1>3. \A i \in 1 .. 1 : i = 1
  OBVIOUS
<1>4. 1 .. Len(secondQ) = {} /\ delivered = {} /\ pc # "parts"
  BY EmptySeq DEF Init
<1> QED
  BY <1>1, <1>2, <1>3, <1>4 DEF LinkInv

LEMMA LinkInvNext == TypeInv /\ LinkInv /\ [Next]_vars => LinkInv'
<1> SUFFICES ASSUME TypeInv, LinkInv, [Next]_vars PROVE LinkInv'
  OBVIOUS
<1>1. input' = input
  BY DEF Next, vars, PopModule, KeepPart, DropPart, AssertFails, Requeue,
         AddToSecondQueue, WriteFragment, SwapQueues, Return
<1>2. SUFFICES /\ \A i \in 1 .. Len(modQ') : SelfContained(modQ'[i])
               /\ \A i \in 1 .. Len(secondQ') : SelfContained(secondQ'[i])
               /\ \A d \in delivered' : SelfContained(d.part)
               /\ pc' = "parts" => /\ SelfContained(cur')
                                   /\ KeepsLinks(place', Links(input, cur'.defs, cur'.ext))
  BY <1>1 DEF LinkInv, SelfContained
<1>3. CASE PopModule
  <2> USE <1>3 DEF PopModule
  <2>1. /\ Len(modQ) \in Nat \ {0} /\ Top(modQ) \in Part /\ Len(modQ') = Len(modQ) - 1
        /\ \A i \in 1 .. Len(modQ) - 1 : modQ'[i] = modQ[i]
    BY PopFacts DEF TypeInv, TypeOK
  <2>2. SelfContained(Top(modQ)) /\ \A i \in 1 .. Len(modQ') : SelfContained(modQ'[i])
    BY <2>1 DEF LinkInv, Top
  <2>3. cur'.defs = Top(modQ).defs /\ (~cur'.ext => ~Top(modQ).ext)
    BY <2>1 DEF Part
  <2>4. SelfContained(cur')
    BY <2>2, <2>3 DEF SelfContained
  <2>5. KeepsLinks(place', Links(input, cur'.defs, cur'.ext))
    BY DEF Placements
  <2> QED
    BY <2>2, <2>4, <2>5 DEF LinkInv
<1>4. CASE KeepPart
  <2> DEFINE p == [MPart(idx) EXCEPT !.id = Append(@, count)]
  <2> USE <1>4 DEF KeepPart
  <2>1. p.ext = cur.ext /\ p.defs = {s \in cur.defs : place[s] \in {idx}}
    BY DEF MPart
  <2>2. p \in Part
    <3>1. cur \in Part /\ count \in Nat /\ idx \in Slot
      BY DEF TypeInv, TypeOK, Slot
    <3> QED
      BY <3>1, MPartIsPart
  <2>3. modQ' = Append(modQ, p)
    OBVIOUS
  <2> HIDE DEF p
  <2>4. SelfContained(p)
    BY <2>1, LinkedSlots DEF LinkInv
  <2>5. /\ Len(modQ) \in Nat /\ Len(modQ') = Len(modQ) + 1 /\ modQ'[Len(modQ) + 1] = p
        /\ \A i \in 1 .. Len(modQ) : modQ'[i] = modQ[i]
    BY <2>2, <2>3, PushFacts DEF TypeInv, TypeOK
  <2>6. \A i \in 1 .. Len(modQ') : i \in 1 .. Len(modQ) \/ i = Len(modQ) + 1
    BY <2>5
  <2>7. \A i \in 1 .. Len(modQ') : SelfContained(modQ'[i])
    BY <2>4, <2>5, <2>6 DEF LinkInv
  <2> QED
    BY <2>7 DEF LinkInv
<1>5. CASE DropPart
  BY <1>5 DEF DropPart, LinkInv
<1>6. CASE AssertFails \/ Requeue \/ Return
  BY <1>6 DEF AssertFails, Requeue, Return, LinkInv
<1>7. CASE AddToSecondQueue
  <2> USE <1>7 DEF AddToSecondQueue
  <2>1. modQ \in Seq(Part) /\ modQ # <<>>
    BY OnePartLeft
  <2>2. /\ Len(modQ) \in Nat \ {0} /\ Top(modQ) \in Part /\ Len(modQ') = Len(modQ) - 1
        /\ \A i \in 1 .. Len(modQ) - 1 : modQ'[i] = modQ[i]
    BY <2>1, PopFacts
  <2>3. SelfContained(Top(modQ)) /\ \A i \in 1 .. Len(modQ') : SelfContained(modQ'[i])
    BY <2>2 DEF LinkInv, Top
  <2>4. /\ Len(secondQ) \in Nat /\ Len(secondQ') = Len(secondQ) + 1
        /\ secondQ'[Len(secondQ) + 1] = Top(modQ)
        /\ \A i \in 1 .. Len(secondQ) : secondQ'[i] = secondQ[i]
    BY <2>2, PushFacts DEF TypeInv, TypeOK
  <2>5. \A i \in 1 .. Len(secondQ') : i \in 1 .. Len(secondQ) \/ i = Len(secondQ) + 1
    BY <2>4
  <2>6. \A i \in 1 .. Len(secondQ') : SelfContained(secondQ'[i])
    BY <2>3, <2>4, <2>5 DEF LinkInv
  <2> QED
    BY <2>3, <2>6 DEF LinkInv
<1>8. ASSUME NEW ok \in BOOLEAN, WriteFragment(ok)
      PROVE  /\ \A i \in 1 .. Len(modQ') : SelfContained(modQ'[i])
             /\ \A i \in 1 .. Len(secondQ') : SelfContained(secondQ'[i])
             /\ \A d \in delivered' : SelfContained(d.part)
             /\ pc' # "parts"
  <2> USE <1>8 DEF WriteFragment
  <2>1. modQ \in Seq(Part) /\ modQ # <<>>
    BY OnePartLeft
  <2>2. /\ Len(modQ) \in Nat \ {0} /\ Len(modQ') = Len(modQ) - 1
        /\ \A i \in 1 .. Len(modQ) - 1 : modQ'[i] = modQ[i]
    BY <2>1, PopFacts
  <2>3. SelfContained(Top(modQ)) /\ \A i \in 1 .. Len(modQ') : SelfContained(modQ'[i])
    BY <2>2 DEF LinkInv, Top
  <2>4. \A d \in delivered' : SelfContained(d.part)
    BY <2>3 DEF LinkInv
  <2> QED
    BY <2>3, <2>4 DEF LinkInv
<1>9. CASE SwapQueues
  <2>1. 1 .. Len(secondQ') = {}
    BY <1>9, EmptySeq DEF SwapQueues
  <2> QED
    BY <1>9, <2>1 DEF SwapQueues, LinkInv
<1>10. CASE UNCHANGED vars
  BY <1>10 DEF vars, LinkInv
<1> QED
  BY <1>2, <1>3, <1>4, <1>5, <1>6, <1>7, <1>8, <1>9, <1>10 DEF Next

(***************************************************************************)
(* Self-contained modules that hold different symbols are linkable. The    *)
(* rest of the module being split is self-contained too.                   *)
(***************************************************************************)
LEMMA LinkInvImplies == TypeInv /\ LinkInv => Linkable
<1> SUFFICES ASSUME TypeInv, LinkInv PROVE Linkable
  OBVIOUS
<1>1. pc = "parts" => SelfContained(Rest)
  <2> SUFFICES ASSUME pc = "parts" PROVE SelfContained(Rest)
    OBVIOUS
  <2> DEFINE I == {i \in Slot : i >= idx}
  <2>1. \A s \in cur.defs : place[s] \in Slot /\ (InRest(s) <=> place[s] \in I)
    BY DEF InRest, Items, PlaceOf, TypeInv, TypeOK
  <2>2. cur \in Part
    BY DEF TypeInv, TypeOK
  <2>3. Rest.ext = cur.ext /\ Rest.defs = {s \in cur.defs : place[s] \in I}
    BY <2>1, <2>2 DEF Rest, Part
  <2> HIDE DEF I
  <2> QED
    BY <2>3, LinkedSlots DEF LinkInv
<1>2. \A p \in Modules : SelfContained(p)
  BY <1>1 DEF Modules, LinkInv
<1> SUFFICES ASSUME NEW p \in Modules, NEW q \in Modules,
                    NEW x \in p.defs \ q.defs, NEW y \in q.defs \ p.defs
             PROVE  /\ <<x, y>> \notin input.tied /\ <<y, x>> \notin input.tied
                    /\ <<x, y>> \in input.refs /\ y \in input.local => q.ext
  BY DEF Linkable
<1>3. x \in input.defs /\ y \in input.defs
  BY <1>2 DEF SelfContained
<1>4. <<x, y>> \notin input.tied /\ <<y, x>> \notin input.tied
  BY <1>2, <1>3 DEF SelfContained
<1>5. ASSUME <<x, y>> \in input.refs, y \in input.local, ~q.ext PROVE FALSE
  <2>1. x \in q.defs
    BY <1>2, <1>3, <1>5 DEF SelfContained
  <2> QED
    BY <2>1
<1> QED
  BY <1>4, <1>5

(***************************************************************************)
(* At every moment the modules a run has split off so far can be linked:   *)
(* tied symbols are together, and a module whose local another one refers  *)
(* to has had it externalized.                                             *)
(***************************************************************************)
THEOREM Linkability == Spec => []Linkable
<1>1. Init => TypeInv /\ LinkInv
  BY TypeInvInit, LinkInvInit
<1>2. TypeInv /\ LinkInv /\ [Next]_vars => (TypeInv /\ LinkInv)'
  BY TypeInvNext, LinkInvNext
<1> QED
  BY <1>1, <1>2, LinkInvImplies, PTL DEF Spec

-----------------------------------------------------------------------------
(***************************************************************************)
(* Progress. While cur is being split, what was put on the stack since are *)
(* parts of it: none is empty, each has only items placed before idx, and  *)
(* they are disjoint.                                                      *)
(***************************************************************************)
Parted(i) ==
  /\ Items(modQ[i]) # {}
  /\ \A x \in Items(modQ[i]) : x \in Items(cur) /\ PlaceOf(x) < idx

ShrinkInv ==
  pc = "parts" =>
    /\ \A i \in before + 1 .. Len(modQ) : Parted(i)
    /\ \A i, j \in before + 1 .. Len(modQ) :
         i # j => Items(modQ[i]) \cap Items(modQ[j]) = {}

LEMMA ShrinkKeep ==
  ASSUME TypeInv, ShrinkInv, KeepPart
  PROVE  ShrinkInv'
<1> DEFINE p == [MPart(idx) EXCEPT !.id = Append(@, count)]
<1>0. PICK n : n = Len(modQ)
  OBVIOUS
<1> USE DEF KeepPart
<1>1. /\ modQ \in Seq(Part) /\ before \in Nat /\ idx \in Nat /\ count \in Nat
      /\ cur \in Part /\ pc = "parts" /\ idx \in Slot
  BY DEF TypeInv, TypeOK, Slot
<1>2. p \in Part
  BY <1>1, MPartIsPart
<1>3. /\ n \in Nat /\ Len(modQ') = n + 1 /\ modQ'[n + 1] = p
      /\ \A i \in 1 .. n : modQ'[i] = modQ[i]
  BY <1>0, <1>1, <1>2, PushFacts
<1>4. Items(p) = Items(MPart(idx))
  BY DEF Items, MPart
<1> HIDE DEF p, KeepPart
<1>5. /\ \A x : x \in Items(p) <=> x \in Items(cur) /\ PlaceOf(x) = idx
      /\ Items(p) # {}
  BY <1>4, PartAtIdx DEF Useful, KeepPart
<1>6. \A x : PlaceOf(x) \in Nat
  BY PlaceIsSlot DEF Slot
<1>7. /\ \A x : PlaceOf(x)' = PlaceOf(x)
      /\ \A m : Items(m)' = Items(m)
      /\ before' = before /\ idx' = idx + 1 /\ pc' = pc /\ cur' = cur
  BY DEF PlaceOf, Items, KeepPart
<1>8. Parted(n + 1)' /\ \A x \in Items(modQ'[n + 1]) : PlaceOf(x) = idx
  <2>1. /\ Items(modQ'[n + 1]) # {}
        /\ \A x \in Items(modQ'[n + 1]) : x \in Items(cur) /\ PlaceOf(x) = idx
    BY <1>3, <1>5
  <2>2. idx < idx + 1
    BY <1>1
  <2>3. \A x \in Items(modQ'[n + 1]) : PlaceOf(x) < idx + 1
    BY <2>1, <2>2
  <2> QED
    BY <2>1, <2>3, <1>7 DEF Parted
<1>9. /\ before' + 1 .. Len(modQ') = (before + 1 .. n) \cup {n + 1}
      /\ before + 1 .. n \subseteq 1 .. n
      /\ n + 1 \notin before + 1 .. n
  <2>1. Len(modQ) = before + count
    BY <1>1 DEF TypeInv, SplitCounted
  <2> QED
    BY <1>1, <1>3, <1>7, <1>0, <2>1
<1>10. \A i \in before + 1 .. n : Parted(i)
  BY <1>0, <1>1 DEF ShrinkInv
<1>11. ASSUME NEW i \in before + 1 .. n PROVE Parted(i)'
  <2>1. modQ'[i] = modQ[i]
    BY <1>3, <1>9
  <2>2. /\ Items(modQ[i]) # {}
        /\ \A x \in Items(modQ[i]) : x \in Items(cur) /\ PlaceOf(x) < idx + 1
    BY <1>1, <1>6, <1>10 DEF Parted
  <2> QED
    BY <2>1, <2>2, <1>7 DEF Parted
<1>12. ASSUME NEW i \in before + 1 .. n PROVE Items(modQ'[i]) \cap Items(modQ'[n + 1]) = {}
  <2>1. modQ'[i] = modQ[i]
    BY <1>3, <1>9
  <2>2. \A x \in Items(modQ[i]) : PlaceOf(x) < idx
    BY <1>10 DEF Parted
  <2>3. \A x \in Items(modQ[i]) : PlaceOf(x) # idx
    BY <1>1, <1>6, <2>2
  <2> QED
    BY <2>1, <2>3, <1>8
<1>13. ASSUME NEW i \in before' + 1 .. Len(modQ'), NEW j \in before' + 1 .. Len(modQ'), i # j
       PROVE  Items(modQ'[i]) \cap Items(modQ'[j]) = {}
  <2>1. CASE i \in before + 1 .. n /\ j \in before + 1 .. n
    <3>1. modQ'[i] = modQ[i] /\ modQ'[j] = modQ[j]
      BY <1>3, <1>9, <2>1
    <3> QED
      BY <3>1, <2>1, <1>0, <1>1, <1>13 DEF ShrinkInv
  <2>2. CASE i \in before + 1 .. n /\ j = n + 1
    BY <2>2, <1>12
  <2>3. CASE i = n + 1 /\ j \in before + 1 .. n
    BY <2>3, <1>12
  <2> QED
    BY <1>9, <1>13, <2>1, <2>2, <2>3
<1>14. \A i \in before' + 1 .. Len(modQ') : Parted(i)'
  BY <1>8, <1>9, <1>11
<1> QED
  BY <1>7, <1>13, <1>14 DEF ShrinkInv

LEMMA ShrinkNext ==
  ASSUME TypeInv, ShrinkInv, [Next]_vars
  PROVE  ShrinkInv'
<1>1. CASE PopModule
  <2>1. Len(modQ') = before'
    BY <1>1, PopFacts DEF PopModule, TypeInv, TypeOK
  <2>2. before' \in Nat
    BY TypeInvNext DEF TypeInv, TypeOK
  <2>3. \A b \in Nat : b + 1 .. b = {}
    OBVIOUS
  <2>4. before' + 1 .. Len(modQ') = {}
    BY <2>1, <2>2, <2>3, Zenon
  <2> QED
    BY <2>4 DEF ShrinkInv
<1>2. CASE KeepPart
  BY <1>2, ShrinkKeep
<1>3. CASE DropPart
  <2>1. /\ \A x : PlaceOf(x)' = PlaceOf(x) /\ PlaceOf(x) \in Nat
        /\ \A m : Items(m)' = Items(m)
        /\ idx \in Nat /\ idx' = idx + 1
        /\ pc = "parts" /\ UNCHANGED <<modQ, before, cur>>
    BY <1>3, PlaceIsSlot DEF DropPart, PlaceOf, Items, Slot, TypeInv, TypeOK
  <2>2. \A i \in before + 1 .. Len(modQ) : Parted(i)'
    <3> SUFFICES ASSUME NEW i \in before + 1 .. Len(modQ) PROVE Parted(i)'
      OBVIOUS
    <3>1. Parted(i)
      BY <2>1 DEF ShrinkInv
    <3>2. \A x \in Items(modQ[i]) : PlaceOf(x) < idx + 1
      BY <2>1, <3>1 DEF Parted
    <3> QED
      BY <2>1, <3>1, <3>2 DEF Parted
  <2>3. \A i, j \in before + 1 .. Len(modQ) :
           i # j => (Items(modQ[i]) \cap Items(modQ[j]))' = {}
    BY <2>1 DEF ShrinkInv
  <2> QED
    BY <2>1, <2>2, <2>3 DEF ShrinkInv
<1>4. ASSUME pc' # "parts" PROVE ShrinkInv'
  BY <1>4 DEF ShrinkInv
<1>5. CASE SwapQueues \/ AssertFails \/ Requeue \/ AddToSecondQueue \/ Return
  BY <1>4, <1>5 DEF SwapQueues, AssertFails, Requeue, AddToSecondQueue, Return
<1>6. ASSUME NEW ok \in BOOLEAN, WriteFragment(ok) PROVE ShrinkInv'
  BY <1>4, <1>6 DEF WriteFragment
<1>7. CASE UNCHANGED vars
  <2>1. /\ \A x : PlaceOf(x)' = PlaceOf(x)
        /\ \A m : Items(m)' = Items(m)
        /\ UNCHANGED <<pc, modQ, before, cur, idx>>
    BY <1>7 DEF vars, PlaceOf, Items
  <2>2. \A i : Parted(i)' <=> Parted(i)
    BY <2>1 DEF Parted
  <2> QED
    BY <2>1, <2>2 DEF ShrinkInv
<1> QED
  BY <1>1, <1>2, <1>3, <1>5, <1>6, <1>7 DEF Next

(***************************************************************************)
(* Two disjoint parts that are not empty: neither is all of cur.           *)
(***************************************************************************)
LEMMA ShrinkImplies == TypeInv /\ ShrinkInv => PartsShrink
<1> SUFFICES ASSUME TypeInv, ShrinkInv, SplitDone, count # 1,
                    NEW i \in before + 1 .. Len(modQ)
             PROVE  Items(modQ[i]) # Items(cur)
  BY DEF PartsShrink
<1>1. pc = "parts" /\ before \in Nat /\ count \in Nat /\ Len(modQ) = before + count
  BY DEF SplitDone, TypeInv, TypeOK, SplitCounted
<1>2. PICK j \in before + 1 .. Len(modQ) : j # i
  <2>1. i \in Nat /\ count >= 2
    BY <1>1
  <2>2. CASE i = before + 1
    BY <1>1, <2>1, <2>2
  <2>3. CASE i # before + 1
    BY <1>1, <2>1, <2>3
  <2> QED
    BY <2>2, <2>3
<1>3. Parted(j) /\ Items(modQ[i]) \cap Items(modQ[j]) = {}
  BY <1>1, <1>2 DEF ShrinkInv
<1> QED
  BY <1>3 DEF Parted

(***************************************************************************)
(* A module is requeued only as parts that each define less than it: the   *)
(* splitting cannot go on for ever.                                        *)
(***************************************************************************)
THEOREM SplittingShrinks == Spec => []PartsShrink
<1>1. Init => TypeInv /\ ShrinkInv
  BY TypeInvInit DEF Init, ShrinkInv
<1>2. TypeInv /\ ShrinkInv /\ [Next]_vars => (TypeInv /\ ShrinkInv)'
  BY TypeInvNext, ShrinkNext
<1> QED
  BY <1>1, <1>2, ShrinkImplies, PTL DEF Spec

-----------------------------------------------------------------------------
(***************************************************************************)
(* Identifiers. The parts of a module get its identifier with a number     *)
(* appended, so being different is not preserved by a split: the           *)
(* identifiers must be apart, none the beginning of another one.           *)
(***************************************************************************)
Apart(a, b) == \E k \in 1 .. Len(a) : k \in 1 .. Len(b) /\ a[k] # b[k]

Alone(a, q) == \A i \in 1 .. Len(q) : Apart(a, q[i].id)

AloneIn(a, D) == \A d \in D : Apart(a, d.part.id)

AllApart(q) == \A i \in 1 .. Len(q), j \in 1 .. Len(q) : i # j => Apart(q[i].id, q[j].id)

Separate(q, r) == \A i \in 1 .. Len(q) : Alone(q[i].id, r)

SeparateFrom(q, D) == \A i \in 1 .. Len(q) : AloneIn(q[i].id, D)

LEMMA ApartSymmetric ==
  ASSUME NEW a, NEW b, Apart(a, b)
  PROVE  Apart(b, a)
BY DEF Apart

LEMMA ApartDiffer ==
  ASSUME NEW a, NEW b, Apart(a, b)
  PROVE  a # b
BY DEF Apart

LEMMA ApartExtended ==
  ASSUME NEW a \in Seq(Nat), NEW n \in Nat, NEW b, Apart(a, b)
  PROVE  Apart(Append(a, n), b)
<1>1. PICK k \in 1 .. Len(a) : k \in 1 .. Len(b) /\ a[k] # b[k]
  BY DEF Apart
<1>2. /\ Len(a) \in Nat
      /\ Len(Append(a, n)) = Len(a) + 1
      /\ Append(a, n)[k] = a[k]
  BY AppendProperties, LenProperties
<1>3. k \in 1 .. Len(Append(a, n))
  BY <1>2
<1> QED
  BY <1>1, <1>2, <1>3 DEF Apart

LEMMA SiblingsApart ==
  ASSUME NEW a \in Seq(Nat), NEW m \in Nat, NEW n \in Nat, m # n
  PROVE  Apart(Append(a, m), Append(a, n))
<1>1. /\ Len(a) \in Nat
      /\ Len(Append(a, m)) = Len(a) + 1 /\ Append(a, m)[Len(a) + 1] = m
      /\ Len(Append(a, n)) = Len(a) + 1 /\ Append(a, n)[Len(a) + 1] = n
  BY AppendProperties, LenProperties
<1>2. Len(a) + 1 \in 1 .. Len(a) + 1
  BY <1>1
<1> QED
  BY <1>1, <1>2 DEF Apart

(***************************************************************************)
(* What a push adds, and what a pop takes away.                            *)
(***************************************************************************)
LEMMA AlonePush ==
  ASSUME NEW a, NEW q \in Seq(Part), NEW p \in Part
  PROVE  Alone(a, Append(q, p)) <=> Alone(a, q) /\ Apart(a, p.id)
<1>1. /\ 1 .. Len(Append(q, p)) = 1 .. Len(q) \cup {Len(q) + 1}
      /\ \A i \in 1 .. Len(q) : Append(q, p)[i] = q[i]
      /\ Append(q, p)[Len(q) + 1] = p
  BY PushFacts
<1> QED
  BY <1>1 DEF Alone

LEMMA AllApartPush ==
  ASSUME NEW q \in Seq(Part), NEW p \in Part, AllApart(q), Alone(p.id, q)
  PROVE  AllApart(Append(q, p))
<1>1. /\ 1 .. Len(Append(q, p)) = 1 .. Len(q) \cup {Len(q) + 1}
      /\ \A i \in 1 .. Len(q) : Append(q, p)[i] = q[i]
      /\ Append(q, p)[Len(q) + 1] = p
  BY PushFacts
<1>2. \A i \in 1 .. Len(q) : Apart(p.id, q[i].id) /\ Apart(q[i].id, p.id)
  BY ApartSymmetric DEF Alone
<1> QED
  BY <1>1, <1>2 DEF AllApart

LEMMA SeparatePush ==
  ASSUME NEW q \in Seq(Part), NEW p \in Part
  PROVE  /\ \A r : Separate(q, r) /\ Alone(p.id, r) => Separate(Append(q, p), r)
         /\ \A D : SeparateFrom(q, D) /\ AloneIn(p.id, D) => SeparateFrom(Append(q, p), D)
<1>1. /\ 1 .. Len(Append(q, p)) = 1 .. Len(q) \cup {Len(q) + 1}
      /\ \A i \in 1 .. Len(q) : Append(q, p)[i] = q[i]
      /\ Append(q, p)[Len(q) + 1] = p
  BY PushFacts
<1> QED
  BY <1>1 DEF Separate, SeparateFrom

LEMMA PopApart ==
  ASSUME NEW q \in Seq(Part), q # <<>>
  PROVE  /\ AllApart(q) => AllApart(Pop(q)) /\ Alone(Top(q).id, Pop(q))
         /\ \A a : Alone(a, q) => Alone(a, Pop(q)) /\ Apart(a, Top(q).id)
         /\ \A r : Separate(q, r) => Separate(Pop(q), r) /\ Alone(Top(q).id, r)
         /\ \A D : SeparateFrom(q, D) => SeparateFrom(Pop(q), D) /\ AloneIn(Top(q).id, D)
<1> DEFINE n == Len(q)
<1>1. /\ n \in Nat \ {0}
      /\ Len(Pop(q)) = n - 1
      /\ \A i \in 1 .. n - 1 : Pop(q)[i] = q[i]
      /\ Top(q) = q[n]
  BY PopFacts DEF Top
<1> HIDE DEF n
<1>2. n \in 1 .. n /\ \A i \in 1 .. n - 1 : i \in 1 .. n /\ i # n
  BY <1>1
<1>3. AllApart(q) => AllApart(Pop(q)) /\ Alone(Top(q).id, Pop(q))
  BY <1>1, <1>2 DEF AllApart, Alone, n
<1>4. \A a : Alone(a, q) => Alone(a, Pop(q)) /\ Apart(a, Top(q).id)
  BY <1>1, <1>2 DEF Alone, n
<1>5. \A r : Separate(q, r) => Separate(Pop(q), r) /\ Alone(Top(q).id, r)
  BY <1>1, <1>2 DEF Separate, n
<1>6. \A D : SeparateFrom(q, D) => SeparateFrom(Pop(q), D) /\ AloneIn(Top(q).id, D)
  BY <1>1, <1>2 DEF SeparateFrom, n
<1> QED
  BY <1>3, <1>4, <1>5, <1>6

(***************************************************************************)
(* All identifiers are apart; while cur is being split its own is apart    *)
(* from all but those of its parts, which are numbered from 0.             *)
(***************************************************************************)
DeliveredApart == \A d, e \in delivered : d # e => Apart(d.part.id, e.part.id)

CurApart ==
  /\ \A i \in 1 .. before : Apart(cur.id, modQ[i].id)
  /\ Alone(cur.id, secondQ)
  /\ AloneIn(cur.id, delivered)

PartsNumbered ==
  \A i \in 1 .. Len(modQ) : i > before => modQ[i].id = Append(cur.id, i - before - 1)

IdInv ==
  /\ AllApart(modQ) /\ AllApart(secondQ) /\ DeliveredApart
  /\ Separate(modQ, secondQ)
  /\ SeparateFrom(modQ, delivered)
  /\ SeparateFrom(secondQ, delivered)
  /\ pc = "parts" => CurApart /\ PartsNumbered

LEMMA IdInit == Init => IdInv
<1> SUFFICES ASSUME Init PROVE IdInv
  OBVIOUS
<1>1. Len(<<>>) = 0 /\ Len(modQ) = 1 /\ secondQ = <<>> /\ delivered = {} /\ pc = "pop"
  BY DEF Init
<1>2. \A i, j \in 1 .. 1 : i = j
  OBVIOUS
<1>3. \A i \in 1 .. 0 : FALSE
  OBVIOUS
<1>4. AllApart(modQ)
  BY <1>1, <1>2 DEF AllApart
<1>5. AllApart(secondQ) /\ Separate(modQ, secondQ) /\ SeparateFrom(secondQ, delivered)
  BY <1>1, <1>3 DEF AllApart, Separate, Alone, SeparateFrom
<1>6. DeliveredApart /\ SeparateFrom(modQ, delivered)
  BY <1>1 DEF DeliveredApart, SeparateFrom, AloneIn
<1> QED
  BY <1>1, <1>4, <1>5, <1>6 DEF IdInv

LEMMA IdPop ==
  ASSUME TypeInv, IdInv, PopModule
  PROVE  IdInv'
<1>1. /\ modQ \in Seq(Part) /\ modQ # <<>> /\ modQ' = Pop(modQ)
      /\ secondQ' = secondQ /\ delivered' = delivered
      /\ before' = Len(modQ) - 1 /\ Len(modQ') = Len(modQ) - 1 /\ Len(modQ) \in Nat
      /\ Top(modQ) \in Part
  BY PopFacts DEF PopModule, TypeInv, TypeOK
<1>2. cur'.id = Top(modQ).id
  BY <1>1 DEF PopModule, Part
<1>3. /\ AllApart(modQ') /\ Alone(cur'.id, modQ')
      /\ Separate(modQ', secondQ) /\ Alone(cur'.id, secondQ)
      /\ SeparateFrom(modQ', delivered) /\ AloneIn(cur'.id, delivered)
  BY <1>1, <1>2, PopApart DEF IdInv
<1>4. CurApart'
  BY <1>1, <1>3 DEF CurApart, Alone
<1>5. PartsNumbered'
  <2>1. \A i \in 1 .. Len(modQ') : ~(i > before')
    BY <1>1
  <2> QED
    BY <2>1 DEF PartsNumbered
<1> QED
  BY <1>1, <1>3, <1>4, <1>5 DEF IdInv, DeliveredApart

LEMMA IdKeep ==
  ASSUME TypeInv, IdInv, KeepPart
  PROVE  IdInv'
<1> DEFINE p == [MPart(idx) EXCEPT !.id = Append(@, count)]
<1>1. /\ modQ \in Seq(Part) /\ idx \in Slot /\ count \in Nat /\ before \in Nat
      /\ cur \in Part /\ cur.id \in Seq(Nat) /\ Len(modQ) = before + count /\ pc = "parts"
      /\ CurApart /\ PartsNumbered
  BY DEF KeepPart, TypeInv, TypeOK, SplitCounted, Slot, Part, IdInv
<1>2. p \in Part /\ p.id = Append(cur.id, count)
  BY <1>1, MPartIsPart DEF MPart
<1>3. /\ modQ' = Append(modQ, p)
      /\ UNCHANGED <<pc, secondQ, cur, before, delivered>>
  BY DEF KeepPart
<1> HIDE DEF p
<1>4. \A b : Apart(cur.id, b) => Apart(p.id, b)
  BY <1>1, <1>2, ApartExtended
<1>5. Alone(p.id, modQ)
  <2> SUFFICES ASSUME NEW i \in 1 .. Len(modQ) PROVE Apart(p.id, modQ[i].id)
    BY DEF Alone
  <2>1. CASE i > before
    <3>1. i - before - 1 \in Nat /\ i - before - 1 # count
      BY <1>1, <2>1
    <3>2. modQ[i].id = Append(cur.id, i - before - 1)
      BY <1>1, <2>1 DEF PartsNumbered
    <3> QED
      BY <1>1, <1>2, <3>1, <3>2, SiblingsApart
  <2>2. CASE ~(i > before)
    <3>1. i \in 1 .. before
      BY <1>1, <2>2
    <3> QED
      BY <1>1, <1>4, <3>1 DEF CurApart
  <2> QED
    BY <2>1, <2>2
<1>6. Alone(p.id, secondQ) /\ AloneIn(p.id, delivered)
  BY <1>1, <1>4 DEF CurApart, Alone, AloneIn
<1>7. /\ AllApart(modQ') /\ Separate(modQ', secondQ) /\ SeparateFrom(modQ', delivered)
  BY <1>1, <1>2, <1>3, <1>5, <1>6, AllApartPush, SeparatePush DEF IdInv
<1>8. /\ Len(modQ') = Len(modQ) + 1 /\ modQ'[Len(modQ) + 1] = p
      /\ \A i \in 1 .. Len(modQ) : modQ'[i] = modQ[i]
  BY <1>1, <1>2, <1>3, PushFacts
<1>9. CurApart'
  <2>1. \A i \in 1 .. before : modQ'[i] = modQ[i]
    BY <1>1, <1>8
  <2> QED
    BY <1>1, <1>3, <2>1 DEF CurApart
<1>10. PartsNumbered'
  <2> SUFFICES ASSUME NEW i \in 1 .. Len(modQ'), i > before
               PROVE  modQ'[i].id = Append(cur.id, i - before - 1)
    BY <1>3 DEF PartsNumbered
  <2>1. CASE i \in 1 .. Len(modQ)
    BY <1>1, <1>8, <2>1 DEF PartsNumbered
  <2>2. CASE i = Len(modQ) + 1
    <3>1. i - before - 1 = count
      BY <1>1, <2>2
    <3> QED
      BY <1>2, <1>8, <2>2, <3>1
  <2> QED
    BY <1>1, <1>8, <2>1, <2>2
<1> QED
  BY <1>3, <1>7, <1>9, <1>10 DEF IdInv, DeliveredApart

LEMMA IdSecond ==
  ASSUME TypeInv, IdInv, AddToSecondQueue
  PROVE  IdInv'
<1> DEFINE p == Top(modQ)
<1>1. /\ modQ \in Seq(Part) /\ modQ # <<>> /\ secondQ \in Seq(Part) /\ p \in Part
  BY OnePartLeft, PopFacts DEF AddToSecondQueue, TypeInv, TypeOK
<1>2. /\ modQ' = Pop(modQ) /\ secondQ' = Append(secondQ, p)
      /\ delivered' = delivered /\ pc' # "parts"
  BY DEF AddToSecondQueue
<1> HIDE DEF p
<1>3. /\ AllApart(modQ') /\ Alone(p.id, modQ')
      /\ Separate(modQ', secondQ) /\ Alone(p.id, secondQ)
      /\ SeparateFrom(modQ', delivered) /\ AloneIn(p.id, delivered)
  BY <1>1, <1>2, PopApart DEF IdInv, p
<1>4. AllApart(secondQ') /\ SeparateFrom(secondQ', delivered)
  BY <1>1, <1>2, <1>3, AllApartPush, SeparatePush DEF IdInv
<1>5. Separate(modQ', secondQ')
  BY <1>1, <1>2, <1>3, AlonePush, ApartSymmetric DEF Separate, Alone
<1> QED
  BY <1>2, <1>3, <1>4, <1>5 DEF IdInv, DeliveredApart

LEMMA IdWrite ==
  ASSUME TypeInv, IdInv, NEW ok \in BOOLEAN, WriteFragment(ok)
  PROVE  IdInv'
<1> DEFINE p == Top(modQ)
           d == [name |-> curModIdx, part |-> Top(modQ), ok |-> ok]
<1>1. modQ \in Seq(Part) /\ modQ # <<>>
  BY OnePartLeft DEF WriteFragment
<1>2. /\ modQ' = Pop(modQ) /\ secondQ' = secondQ
      /\ delivered' = delivered \cup {d} /\ pc' # "parts" /\ d.part = p
  BY DEF WriteFragment
<1> HIDE DEF p, d
<1>3. /\ AllApart(modQ') /\ Alone(p.id, modQ')
      /\ Separate(modQ', secondQ) /\ Alone(p.id, secondQ)
      /\ SeparateFrom(modQ', delivered) /\ AloneIn(p.id, delivered)
  BY <1>1, <1>2, PopApart DEF IdInv, p
<1>4. SeparateFrom(modQ', delivered')
  BY <1>2, <1>3, ApartSymmetric DEF SeparateFrom, AloneIn, Alone
<1>5. SeparateFrom(secondQ', delivered')
  BY <1>2, <1>3, ApartSymmetric DEF IdInv, SeparateFrom, AloneIn, Alone
<1>6. DeliveredApart'
  BY <1>2, <1>3, ApartSymmetric DEF IdInv, DeliveredApart, AloneIn
<1> QED
  BY <1>2, <1>3, <1>4, <1>5, <1>6 DEF IdInv

LEMMA IdNext ==
  ASSUME TypeInv, IdInv, [Next]_vars
  PROVE  IdInv'
<1>1. CASE PopModule
  BY <1>1, IdPop
<1>2. CASE KeepPart
  BY <1>2, IdKeep
<1>3. CASE DropPart
  BY <1>3 DEF DropPart, IdInv, CurApart, PartsNumbered, DeliveredApart
<1>4. CASE AssertFails \/ Requeue \/ Return
  BY <1>4 DEF AssertFails, Requeue, Return, IdInv, DeliveredApart
<1>5. CASE AddToSecondQueue
  BY <1>5, IdSecond
<1>6. ASSUME NEW ok \in BOOLEAN, WriteFragment(ok) PROVE IdInv'
  BY <1>6, IdWrite
<1>7. CASE SwapQueues
  <2>1. /\ modQ' = secondQ /\ secondQ' = <<>> /\ delivered' = delivered /\ pc' # "parts"
    BY <1>7 DEF SwapQueues
  <2>2. \A i \in 1 .. Len(<<>>) : FALSE
    BY EmptySeq
  <2>3. AllApart(secondQ') /\ Separate(modQ', secondQ') /\ SeparateFrom(secondQ', delivered')
    BY <2>1, <2>2 DEF AllApart, Separate, Alone, SeparateFrom
  <2> QED
    BY <2>1, <2>3 DEF IdInv, DeliveredApart
<1>8. CASE UNCHANGED vars
  BY <1>8 DEF vars, IdInv, CurApart, PartsNumbered, DeliveredApart
<1> QED
  BY <1>1, <1>2, <1>3, <1>4, <1>5, <1>6, <1>7, <1>8 DEF Next

(***************************************************************************)
(* A position of the two queues together is one of the first or one of the *)
(* second.                                                                 *)
(***************************************************************************)
LEMMA BothQueues ==
  ASSUME TypeInv, NEW i \in 1 .. Len(modQ \o secondQ)
  PROVE  \/ i \in 1 .. Len(modQ) /\ (modQ \o secondQ)[i] = modQ[i]
         \/ /\ i \notin 1 .. Len(modQ) /\ i - Len(modQ) \in 1 .. Len(secondQ)
            /\ (modQ \o secondQ)[i] = secondQ[i - Len(modQ)]
<1>1. modQ \in Seq(Part) /\ secondQ \in Seq(Part) /\ Len(modQ) \in Nat /\ Len(secondQ) \in Nat
  BY LenProperties DEF TypeInv, TypeOK
<1>2. /\ Len(modQ \o secondQ) = Len(modQ) + Len(secondQ)
      /\ (modQ \o secondQ)[i] = IF i <= Len(modQ) THEN modQ[i] ELSE secondQ[i - Len(modQ)]
  BY <1>1, ConcatProperties
<1>3. CASE i <= Len(modQ)
  <2>1. i \in 1 .. Len(modQ)
    BY <1>1, <1>2, <1>3
  <2> QED
    BY <1>2, <1>3, <2>1
<1>4. CASE ~(i <= Len(modQ))
  <2>1. i \notin 1 .. Len(modQ) /\ i - Len(modQ) \in 1 .. Len(secondQ)
    BY <1>1, <1>2, <1>4
  <2> QED
    BY <1>2, <1>4, <2>1
<1> QED
  BY <1>3, <1>4

LEMMA IdImplies == TypeInv /\ IdInv => UniqueIds
<1> SUFFICES ASSUME TypeInv, IdInv PROVE UniqueIds
  OBVIOUS
<1> DEFINE q == modQ \o secondQ
<1>1. ASSUME NEW i \in 1 .. Len(q), NEW j \in 1 .. Len(q), i # j
      PROVE  q[i].id # q[j].id
  <2>1. CASE i \in 1 .. Len(modQ) /\ j \in 1 .. Len(modQ)
    BY <1>1, <2>1, BothQueues, ApartDiffer DEF IdInv, AllApart
  <2>2. CASE i \in 1 .. Len(modQ) /\ j \notin 1 .. Len(modQ)
    BY <2>2, BothQueues, ApartDiffer DEF IdInv, Separate, Alone
  <2>3. CASE i \notin 1 .. Len(modQ) /\ j \in 1 .. Len(modQ)
    BY <2>3, BothQueues, ApartDiffer DEF IdInv, Separate, Alone
  <2>4. CASE i \notin 1 .. Len(modQ) /\ j \notin 1 .. Len(modQ)
    <3> DEFINE m == Len(modQ)
    <3>1. /\ i - m \in 1 .. Len(secondQ) /\ q[i] = secondQ[i - m]
          /\ j - m \in 1 .. Len(secondQ) /\ q[j] = secondQ[j - m]
      BY <2>4, BothQueues
    <3>2. m \in Nat /\ i \in Int /\ j \in Int
      BY LenProperties DEF TypeInv, TypeOK
    <3> HIDE DEF m, q
    <3>3. i - m # j - m
      BY <1>1, <3>2
    <3> QED
      BY <3>1, <3>3, ApartDiffer DEF IdInv, AllApart
  <2> QED
    BY <2>1, <2>2, <2>3, <2>4
<1>2. ASSUME NEW i \in 1 .. Len(q), NEW d \in delivered
      PROVE  q[i].id # d.part.id
  BY BothQueues, ApartDiffer DEF IdInv, SeparateFrom, AloneIn
<1>3. \A d, e \in delivered : d.part.id = e.part.id => d = e
  BY ApartDiffer DEF IdInv, DeliveredApart
<1> QED
  BY <1>1, <1>2, <1>3 DEF UniqueIds

(***************************************************************************)
(* No two modules that exist have one identifier, in either pass and       *)
(* however often modules are split: a suffix is never used again.          *)
(***************************************************************************)
THEOREM IdentifiersUnique == Spec => []UniqueIds
<1>1. Init => TypeInv /\ IdInv
  BY TypeInvInit, IdInit
<1>2. TypeInv /\ IdInv /\ [Next]_vars => (TypeInv /\ IdInv)'
  BY TypeInvNext, IdNext
<1> QED
  BY <1>1, <1>2, IdImplies, PTL DEF Spec

-----------------------------------------------------------------------------
(***************************************************************************)
(* Tightness. A split that leaves one part has put all items in one slot.  *)
(* Two clusters share a slot only when no slot is without one, and there   *)
(* are at least two slots: so the part has at most one cluster.            *)
(***************************************************************************)
\* x has been handed over to the lambda.
Handed(x) == x \in Items(cur) /\ PlaceOf(x) < idx

OnePart(k) ==
  /\ \A x \in Items(cur) : Handed(x) => PlaceOf(x) = k
  /\ Top(modQ).defs = {s \in cur.defs : place[s] = k}
  /\ Top(modQ).ext = cur.ext

SpreadNow == Spread(place, cur.defs, Links(input, cur.defs, cur.ext))

TightInv ==
  pc = "parts" =>
    /\ SpreadNow
    /\ count = 0 => \A x \in Items(cur) : ~Handed(x)
    /\ count = 1 => \E k \in Slot : OnePart(k)

LEMMA SlotUsed ==
  ASSUME NEW D, NEW L, NEW f, NEW k \in Slot, \A s \in D : f[s] = k, Spread(f, D, L),
         NEW B \in BigClusters(D, L), NEW C \in BigClusters(D, L)
  PROVE  B = C
<1>1. \A E \in BigClusters(D, L) : E \subseteq D /\ E # {}
  BY DEF BigClusters, Cluster
<1>2. PICK s \in Slot : s # k
  <2>1. 0 \in Slot /\ 1 \in Slot
    BY DEF Slot
  <2> QED
    BY <2>1
<1>3. \A E \in BigClusters(D, L) : \E e \in E : f[e] = k
  BY <1>1
<1>4. SUFFICES ASSUME B # C PROVE FALSE
  OBVIOUS
<1>5. \E b \in B, c \in C : f[b] = f[c]
  BY <1>3
<1>6. PICK E \in BigClusters(D, L) : \A e \in E : f[e] = s
  BY <1>2, <1>4, <1>5 DEF Spread
<1> QED
  BY <1>2, <1>3, <1>6

LEMMA OnePartIsTight ==
  ASSUME TypeInv, TightInv, SplitDone, count = 1
  PROVE  OneClusterLeft(Top(modQ))
<1>1. pc = "parts" /\ idx = SplitFactor
  BY DEF SplitDone
<1>2. PICK k \in Slot : OnePart(k)
  BY <1>1 DEF TightInv
<1>3. \A s \in cur.defs : place[s] = k
  <2> SUFFICES ASSUME NEW s \in cur.defs PROVE place[s] = k
    OBVIOUS
  <2>1. s \in Items(cur) /\ PlaceOf(s) = place[s]
    BY DEF Items, PlaceOf
  <2>2. PlaceOf(s) < SplitFactor
    BY PlaceIsSlot DEF Slot
  <2> QED
    BY <1>1, <1>2, <2>1, <2>2 DEF OnePart, Handed
<1>4. Top(modQ).defs = cur.defs /\ Top(modQ).ext = cur.ext
  BY <1>2, <1>3 DEF OnePart
<1>5. Spread(place, cur.defs, Links(input, cur.defs, cur.ext))
  BY <1>1 DEF TightInv, SpreadNow
<1> QED
  BY <1>3, <1>4, <1>5, SlotUsed DEF OneClusterLeft

LEMMA TightPop ==
  ASSUME TypeInv, PopModule
  PROVE  TightInv'
<1>1. SpreadNow'
  BY DEF PopModule, Placements, SpreadNow
<1>2. TypeInv'
  BY TypeInvNext DEF Next
<1>3. \A x : PlaceOf(x)' \in Nat
  <2>1. place' \in [cur'.defs -> Slot]
    BY <1>2 DEF TypeInv, TypeOK
  <2> QED
    BY <2>1 DEF PlaceOf, Slot
<1>4. idx' = 0 /\ count' = 0
  BY DEF PopModule
<1>5. \A x : ~Handed(x)'
  BY <1>3, <1>4 DEF Handed
<1> QED
  BY <1>1, <1>4, <1>5 DEF TightInv

(***************************************************************************)
(* One call of the lambda: what has been handed over is what was before    *)
(* and the partition idx.                                                  *)
(***************************************************************************)
LEMMA HandedAdvances ==
  ASSUME NEW x, TypeInv, UNCHANGED <<input, cur, place>>, idx' = idx + 1
  PROVE  Handed(x)' <=> Handed(x) \/ x \in Items(MPart(idx))
<1>1. Handed(x)' <=> x \in Items(cur) /\ PlaceOf(x) < idx + 1
  BY DEF Handed, Items, PlaceOf
<1>2. PlaceOf(x) \in Nat /\ idx \in Nat
  BY PlaceIsSlot DEF Slot, TypeInv, TypeOK
<1>3. PlaceOf(x) < idx + 1 <=> PlaceOf(x) < idx \/ PlaceOf(x) = idx
  BY <1>2
<1> QED
  BY <1>1, <1>3, PartAtIdx DEF Handed

LEMMA TightKeep ==
  ASSUME TypeInv, TightInv, KeepPart
  PROVE  TightInv'
<1> DEFINE p == [MPart(idx) EXCEPT !.id = Append(@, count)]
<1>1. /\ modQ \in Seq(Part) /\ idx \in Slot /\ count \in Nat /\ cur \in Part /\ pc = "parts"
  BY DEF KeepPart, TypeInv, TypeOK, Slot
<1>2. /\ modQ' = Append(modQ, p) /\ count' = count + 1 /\ idx' = idx + 1
      /\ UNCHANGED <<input, pc, cur, place>>
  BY DEF KeepPart
<1>3. p \in Part /\ p.defs = {s \in cur.defs : place[s] = idx} /\ p.ext = cur.ext
  BY <1>1, MPartIsPart DEF MPart
<1> HIDE DEF p
<1>4. SpreadNow'
  BY <1>1, <1>2 DEF TightInv, SpreadNow
<1>5. PICK k \in Slot : k = idx
  BY <1>1
<1>6. Top(modQ') = p
  <2>1. Len(Append(modQ, p)) = Len(modQ) + 1 /\ Append(modQ, p)[Len(modQ) + 1] = p
    BY <1>1, <1>3, PushFacts
  <2> QED
    BY <1>2, <2>1 DEF Top
<1>7. \A x : Handed(x)' <=> Handed(x) \/ x \in Items(MPart(idx))
  BY <1>2, HandedAdvances
<1>8. ASSUME count' = 1 PROVE OnePart(k)'
  <2>1. \A x : ~Handed(x)
    BY <1>1, <1>2, <1>8 DEF TightInv, Handed
  <2>2. \A x : Handed(x)' => PlaceOf(x) = k
    BY <1>5, <1>7, <2>1, PartAtIdx
  <2>3. \A x : PlaceOf(x)' = PlaceOf(x)
    BY <1>2 DEF PlaceOf
  <2>4. Top(modQ').defs = {s \in cur'.defs : place'[s] = k} /\ Top(modQ').ext = cur'.ext
    BY <1>2, <1>3, <1>5, <1>6
  <2> QED
    BY <2>2, <2>3, <2>4 DEF OnePart
<1>9. count' # 0
  BY <1>1, <1>2
<1> QED
  BY <1>4, <1>8, <1>9 DEF TightInv

LEMMA TightDrop ==
  ASSUME TypeInv, TightInv, DropPart
  PROVE  TightInv'
<1>1. /\ pc = "parts" /\ idx' = idx + 1 /\ Items(MPart(idx)) = {}
      /\ UNCHANGED <<input, pc, modQ, cur, place, count>>
  BY DEF DropPart, Useful
<1>2. \A x : Handed(x)' <=> Handed(x)
  BY <1>1, HandedAdvances
<1>3. (\A x : PlaceOf(x)' = PlaceOf(x)) /\ Items(cur)' = Items(cur)
  BY <1>1 DEF PlaceOf, Items
<1>4. \A k : OnePart(k) => OnePart(k)'
  BY <1>1, <1>2, <1>3 DEF OnePart
<1>5. SpreadNow'
  BY <1>1 DEF TightInv, SpreadNow
<1> QED
  BY <1>1, <1>2, <1>3, <1>4, <1>5 DEF TightInv

LEMMA TightInvNext ==
  ASSUME TypeInv, TightInv, [Next]_vars
  PROVE  TightInv'
<1>1. CASE PopModule
  BY <1>1, TightPop
<1>2. CASE KeepPart
  BY <1>2, TightKeep
<1>3. CASE DropPart
  BY <1>3, TightDrop
<1>4. CASE SwapQueues \/ AssertFails \/ Requeue \/ AddToSecondQueue \/ Return
  BY <1>4 DEF SwapQueues, AssertFails, Requeue, AddToSecondQueue, Return, TightInv
<1>5. ASSUME NEW ok \in BOOLEAN, WriteFragment(ok) PROVE TightInv'
  BY <1>5 DEF WriteFragment, TightInv
<1>6. CASE UNCHANGED vars
  <2>1. UNCHANGED <<input, pc, modQ, cur, place, idx, count>>
    BY <1>6 DEF vars
  <2>2. /\ \A x : (PlaceOf(x)' = PlaceOf(x)) /\ (Handed(x)' <=> Handed(x))
        /\ Items(cur)' = Items(cur)
    BY <2>1 DEF PlaceOf, Handed, Items
  <2>3. \A k : OnePart(k) => OnePart(k)'
    BY <2>1, <2>2 DEF OnePart
  <2> QED
    BY <2>1, <2>2, <2>3 DEF TightInv, SpreadNow
<1> QED
  BY <1>1, <1>2, <1>3, <1>4, <1>5, <1>6 DEF Next

(***************************************************************************)
(* Only a module with one cluster left joins the second queue or is        *)
(* written.                                                                *)
(***************************************************************************)
LEMMA TightNext ==
  ASSUME TypeInv, TightInv, Tight, [Next]_vars
  PROVE  Tight'
<1>1. \A p : OneClusterLeft(p)' <=> OneClusterLeft(p)
  <2>1. input' = input
    BY DEF Next, vars, PopModule, KeepPart, DropPart, AssertFails, Requeue,
           AddToSecondQueue, WriteFragment, SwapQueues, Return
  <2> QED
    BY <2>1 DEF OneClusterLeft
<1>2. CASE AddToSecondQueue
  <2> DEFINE p == Top(modQ)
  <2>1. /\ SplitDone /\ count = 1 /\ pass = "first" /\ pass' = pass
        /\ secondQ' = Append(secondQ, p) /\ delivered' = delivered
    BY <1>2 DEF AddToSecondQueue
  <2>2. secondQ \in Seq(Part) /\ p \in Part
    BY <2>1, OnePartLeft, PopFacts DEF TypeInv, TypeOK
  <2>3. OneClusterLeft(p)
    BY <2>1, OnePartIsTight
  <2> HIDE DEF p
  <2>4. /\ 1 .. Len(secondQ') = 1 .. Len(secondQ) \cup {Len(secondQ) + 1}
        /\ \A i \in 1 .. Len(secondQ) : secondQ'[i] = secondQ[i]
        /\ secondQ'[Len(secondQ) + 1] = p
    BY <2>1, <2>2, PushFacts
  <2>5. \A i \in 1 .. Len(secondQ') : OneClusterLeft(secondQ'[i])
    BY <2>1, <2>3, <2>4 DEF Tight
  <2> QED
    BY <1>1, <2>1, <2>5 DEF Tight
<1>3. ASSUME NEW ok \in BOOLEAN, WriteFragment(ok) PROVE Tight'
  <2>1. /\ SplitDone /\ count = 1 /\ pass = "second" /\ pass' = pass
        /\ delivered' = delivered \cup {[name |-> curModIdx, part |-> Top(modQ), ok |-> ok]}
    BY <1>3 DEF WriteFragment
  <2>2. OneClusterLeft(Top(modQ))
    BY <2>1, OnePartIsTight
  <2> QED
    BY <1>1, <2>1, <2>2 DEF Tight
<1>4. CASE SwapQueues
  BY <1>1, <1>4 DEF SwapQueues, Tight
<1>5. CASE \/ PopModule \/ KeepPart \/ DropPart \/ AssertFails \/ Requeue \/ Return
           \/ UNCHANGED vars
  <2>1. UNCHANGED <<pass, secondQ, delivered>>
    BY <1>5 DEF PopModule, KeepPart, DropPart, AssertFails, Requeue, Return, vars
  <2> QED
    BY <1>1, <2>1 DEF Tight
<1> QED
  BY <1>2, <1>3, <1>4, <1>5 DEF Next

(***************************************************************************)
(* Whatever the hash and the sizes of clusters make of a placement, a      *)
(* module that is put aside or written has no two clusters that one more   *)
(* split could have separated. Count = 1 means no more than that: symbols  *)
(* in no cluster share a slot when the hash says so.                       *)
(***************************************************************************)
THEOREM StuckMeansOneCluster == Spec => []Tight
<1>1. Init => TypeInv /\ TightInv /\ Tight
  <2>1. Init => Tight
    <3>1. \A i \in 1 .. Len(<<>>) : FALSE
      BY EmptySeq
    <3> QED
      BY <3>1 DEF Init, Tight
  <2> QED
    BY <2>1, TypeInvInit DEF Init, TightInv
<1>2. TypeInv /\ TightInv /\ Tight /\ [Next]_vars => (TypeInv /\ TightInv /\ Tight)'
  BY TypeInvNext, TightInvNext, TightNext
<1> QED
  BY <1>1, <1>2, PTL DEF Spec

-----------------------------------------------------------------------------
(***************************************************************************)
(* decompose implements what Decomposition promises, as far as safety is   *)
(* concerned: it starts where Decomposition starts, and each of its steps  *)
(* cuts one block, writes one, succeeds, or changes nothing of the promise.*)
(***************************************************************************)
(***************************************************************************)
(* The variables of Decomposition, as functions of those of decompose.     *)
(***************************************************************************)
Todo == {Items(p) : p \in Pending} \ {{}}

Written == {Items(d.part) : d \in {e \in delivered : Useful(e.part)}}

Outcome == IF pc = "done" THEN "success" ELSE "running"

LEMMA Stutters ==
  ASSUME UNCHANGED <<input, Todo, Written, Outcome>>
  PROVE  UNCHANGED Promise!vars
BY DEF Promise!vars, Todo, Written, Outcome

LEMMA Refines ==
  ASSUME Outcome = "running", UNCHANGED <<input, Written, Outcome>>, NEW b \in Todo, NEW P,
         {} \notin P, UNION P = b, \E p, q \in P : p # q,
         \A p, q \in P : p # q => p \cap q = {},
         \A t \in input.tied : {t[1], t[2]} \subseteq b => \A p \in P : t[1] \in p <=> t[2] \in p,
         Todo' = (Todo \ {b}) \cup P
  PROVE  Promise!Next
<1>1. P \in SUBSET SUBSET b
  OBVIOUS
<1>2. Promise!Cuts(P, b)
  BY DEF Promise!Cuts, TiedOf
<1>3. Promise!Refine
  BY <1>1, <1>2 DEF Promise!Refine, Todo, Written, Outcome
<1> QED
  BY <1>3 DEF Promise!Next

LEMMA Writes ==
  ASSUME Outcome = "running", UNCHANGED <<input, Outcome>>, NEW b \in Todo,
         Todo' = Todo \ {b}, Written' = Written \cup {b}
  PROVE  Promise!Next
BY DEF Promise!Next, Promise!Write, Todo, Written, Outcome

LEMMA Succeeds ==
  ASSUME Outcome = "running", Todo = {}, Outcome' = "success", UNCHANGED <<input, Todo, Written>>
  PROVE  Promise!Next
BY DEF Promise!Next, Promise!Succeed, Todo, Written, Outcome

(***************************************************************************)
(* What is pending besides the module being split; between two splits that *)
(* is everything.                                                          *)
(***************************************************************************)
Blocks(q, n, r) == {Items(q[i]) : i \in 1 .. n} \cup {Items(r[i]) : i \in 1 .. Len(r)}

LEMMA TodoParts ==
  ASSUME pc = "parts"
  PROVE  Todo = (Blocks(modQ, before, secondQ) \cup {Items(cur)}) \ {{}}
BY DEF Todo, Pending, Blocks

LEMMA TodoBetween ==
  ASSUME pc # "parts"
  PROVE  Todo = Blocks(modQ, Len(modQ), secondQ) \ {{}}
BY DEF Todo, Pending, Blocks

LEMMA TodoPartsNext ==
  ASSUME pc' = "parts", input' = input
  PROVE  Todo' = (Blocks(modQ', before', secondQ') \cup {Items(cur')}) \ {{}}
BY DEF Todo, Pending, Blocks, Items

LEMMA TodoBetweenNext ==
  ASSUME pc' # "parts", input' = input
  PROVE  Todo' = Blocks(modQ', Len(modQ'), secondQ') \ {{}}
BY DEF Todo, Pending, Blocks, Items

LEMMA WrittenSame ==
  ASSUME UNCHANGED <<input, delivered>>
  PROVE  Written' = Written
BY DEF Written, Useful, Items

-----------------------------------------------------------------------------
(***************************************************************************)
(* The parts of cur on the stack are each what one slot has got, and have  *)
(* all that was handed over. The second pass has no second queue.          *)
(***************************************************************************)
Covered == \A x \in Items(cur) : Handed(x) => \E i \in before + 1 .. Len(modQ) : x \in Items(modQ[i])

SlotParts ==
  \A i \in before + 1 .. Len(modQ) :
    \E k \in Slot : \A x : x \in Items(modQ[i]) <=> x \in Items(cur) /\ PlaceOf(x) = k

BlockInv ==
  /\ pc = "parts" => Covered /\ SlotParts
  /\ pass = "second" => secondQ = <<>>

LEMMA BlockKeep ==
  ASSUME TypeInv, BlockInv, KeepPart
  PROVE  BlockInv'
<1> DEFINE p == [MPart(idx) EXCEPT !.id = Append(@, count)]
<1>0. PICK n : n = Len(modQ)
  OBVIOUS
<1>1. /\ modQ \in Seq(Part) /\ idx \in Slot /\ count \in Nat /\ cur \in Part /\ pc = "parts"
      /\ before \in Nat /\ n = before + count
  BY <1>0 DEF KeepPart, TypeInv, TypeOK, SplitCounted, Slot
<1>2. /\ modQ' = Append(modQ, p) /\ idx' = idx + 1
      /\ UNCHANGED <<input, pc, pass, secondQ, cur, place, before>>
  BY DEF KeepPart
<1>3. p \in Part /\ Items(p) = Items(MPart(idx))
  BY <1>1, MPartIsPart DEF MPart, Items
<1> HIDE DEF p
<1>4. /\ n \in Nat /\ Len(modQ') = n + 1 /\ modQ'[n + 1] = p
      /\ \A i \in 1 .. n : modQ'[i] = modQ[i]
  <2>1. /\ Len(modQ) \in Nat /\ Len(Append(modQ, p)) = Len(modQ) + 1
        /\ Append(modQ, p)[Len(modQ) + 1] = p
        /\ \A i \in 1 .. Len(modQ) : Append(modQ, p)[i] = modQ[i]
    BY <1>1, <1>3, PushFacts
  <2> QED
    BY <1>0, <1>2, <2>1
<1>5. /\ before' + 1 .. Len(modQ') = (before + 1 .. n) \cup {n + 1}
      /\ before + 1 .. n \subseteq 1 .. n
  <2>1. before' = before /\ Len(modQ') = n + 1
    BY <1>2, <1>4
  <2> QED
    BY <1>1, <1>4, <2>1
<1>6. /\ \A m : Items(m)' = Items(m)
      /\ \A x : PlaceOf(x)' = PlaceOf(x)
      /\ \A x : Handed(x)' <=> Handed(x) \/ x \in Items(p)
  BY <1>2, <1>3, HandedAdvances DEF Items, PlaceOf
<1>7. \A x : x \in Items(p) <=> x \in Items(cur) /\ PlaceOf(x) = idx
  BY <1>3, PartAtIdx
<1>8. Covered'
  <2> SUFFICES ASSUME NEW x \in Items(cur), Handed(x)'
               PROVE  \E i \in before' + 1 .. Len(modQ') : x \in Items(modQ'[i])
    BY <1>2, <1>6 DEF Covered
  <2>1. CASE x \in Items(p)
    BY <1>4, <1>5, <2>1
  <2>2. CASE Handed(x)
    <3>1. PICK i \in before + 1 .. n : x \in Items(modQ[i])
      BY <1>0, <1>1, <2>2 DEF BlockInv, Covered
    <3> QED
      BY <1>4, <1>5, <3>1
  <2> QED
    BY <1>6, <2>1, <2>2
<1>9. SlotParts'
  <2> SUFFICES ASSUME NEW i \in before' + 1 .. Len(modQ')
               PROVE  \E k \in Slot : \A x : x \in Items(modQ'[i])
                                               <=> x \in Items(cur) /\ PlaceOf(x) = k
    BY <1>2, <1>6 DEF SlotParts
  <2>1. CASE i = n + 1
    BY <1>1, <1>4, <1>7, <2>1
  <2>2. CASE i \in before + 1 .. n
    <3>1. modQ'[i] = modQ[i]
      BY <1>4, <1>5, <2>2
    <3> QED
      BY <1>0, <1>1, <2>2, <3>1 DEF BlockInv, SlotParts
  <2> QED
    BY <1>5, <2>1, <2>2
<1> QED
  BY <1>2, <1>8, <1>9 DEF BlockInv

LEMMA BlockNext ==
  ASSUME TypeInv, BlockInv, [Next]_vars
  PROVE  BlockInv'
<1>1. CASE PopModule
  <2>1. Len(modQ') = before' /\ idx' = 0 /\ UNCHANGED <<pass, secondQ>>
    BY <1>1, PopFacts DEF PopModule, TypeInv, TypeOK
  <2>2. TypeInv'
    BY TypeInvNext
  <2>3. before' + 1 .. Len(modQ') = {}
    <3>1. \A b \in Nat : b + 1 .. b = {}
      OBVIOUS
    <3>2. before' \in Nat
      BY <2>2 DEF TypeInv, TypeOK
    <3> QED
      BY <2>1, <3>1, <3>2, Zenon
  <2>4. \A x : ~Handed(x)'
    <3>1. 0 \in Slot /\ place' \in [cur'.defs -> Slot]
      BY <2>2 DEF TypeInv, TypeOK, Slot
    <3>2. \A x : PlaceOf(x)' \in Nat
      BY <3>1 DEF PlaceOf, Slot
    <3> QED
      BY <2>1, <3>2 DEF Handed
  <2> QED
    BY <2>1, <2>3, <2>4 DEF BlockInv, Covered, SlotParts
<1>2. CASE KeepPart
  BY <1>2, BlockKeep
<1>3. CASE DropPart
  <2>1. /\ Items(MPart(idx)) = {} /\ idx' = idx + 1 /\ pc = "parts"
        /\ UNCHANGED <<input, pc, pass, modQ, secondQ, cur, place, before>>
    BY <1>3 DEF DropPart, Useful
  <2>2. /\ \A m : Items(m)' = Items(m)
        /\ \A x : PlaceOf(x)' = PlaceOf(x)
        /\ \A x : Handed(x)' <=> Handed(x)
    BY <2>1, HandedAdvances DEF Items, PlaceOf
  <2>3. Covered' /\ SlotParts'
    BY <2>1, <2>2 DEF BlockInv, Covered, SlotParts
  <2> QED
    BY <2>1, <2>3 DEF BlockInv
<1>4. CASE AssertFails \/ Requeue \/ Return
  BY <1>4 DEF AssertFails, Requeue, Return, BlockInv
<1>5. CASE AddToSecondQueue
  BY <1>5 DEF AddToSecondQueue, BlockInv
<1>6. ASSUME NEW ok \in BOOLEAN, WriteFragment(ok) PROVE BlockInv'
  BY <1>6 DEF WriteFragment, BlockInv
<1>7. CASE SwapQueues
  BY <1>7 DEF SwapQueues, BlockInv
<1>8. CASE UNCHANGED vars
  <2>1. UNCHANGED <<input, pc, pass, modQ, secondQ, cur, place, idx, before>>
    BY <1>8 DEF vars
  <2>2. /\ \A m : Items(m)' = Items(m)
        /\ \A x : PlaceOf(x)' = PlaceOf(x)
        /\ \A x : Handed(x)' <=> Handed(x)
    BY <2>1 DEF Items, PlaceOf, Handed
  <2>3. (Covered' <=> Covered) /\ (SlotParts' <=> SlotParts)
    BY <2>1, <2>2 DEF Covered, SlotParts
  <2> QED
    BY <2>1, <2>3 DEF BlockInv
<1> QED
  BY <1>1, <1>2, <1>3, <1>4, <1>5, <1>6, <1>7, <1>8 DEF Next

-----------------------------------------------------------------------------
(***************************************************************************)
(* When every partition was handed over, the parts of cur make it up, and  *)
(* no other pending module shares an item with it.                         *)
(***************************************************************************)
RefInv == TypeInv /\ ExactlyOnce /\ LinkInv /\ ShrinkInv /\ BlockInv

LEMMA AllHanded ==
  ASSUME TypeInv, SplitDone, NEW x \in Items(cur)
  PROVE  Handed(x)
<1>1. PlaceOf(x) < SplitFactor /\ idx = SplitFactor
  BY PlaceIsSlot DEF Slot, SplitDone
<1> QED
  BY <1>1 DEF Handed

LEMMA PartsMakeUp ==
  ASSUME RefInv, SplitDone
  PROVE  \A x : x \in Items(cur) <=> \E i \in before + 1 .. Len(modQ) : x \in Items(modQ[i])
<1>1. Covered /\ SlotParts
  BY DEF RefInv, BlockInv, SplitDone
<1> QED
  BY <1>1, AllHanded DEF RefInv, Covered, SlotParts

LEMMA OthersApart ==
  ASSUME RefInv, SplitDone, NEW b \in Blocks(modQ, before, secondQ)
  PROVE  b \cap Items(cur) = {}
<1> SUFFICES ASSUME NEW x \in b, x \in Items(cur) PROVE FALSE
  OBVIOUS
<1>1. x \in Items(Whole)
  BY DEF RefInv, LinkInv, SelfContained, SplitDone, Items, Whole
<1>2. /\ OnceInQueue(x, modQ) /\ (InQueue(x, modQ) => ~InQueue(x, secondQ))
      /\ before \in Nat /\ count \in Nat /\ Len(modQ) = before + count
  BY <1>1 DEF RefInv, ExactlyOnce, KeptOnce, TypeInv, TypeOK, SplitCounted, SplitDone
<1>3. PICK i \in before + 1 .. Len(modQ) : x \in Items(modQ[i])
  BY PartsMakeUp
<1>4. i \in 1 .. Len(modQ) /\ \A j \in 1 .. before : j \in 1 .. Len(modQ) /\ j # i
  BY <1>2
<1>5. CASE \E j \in 1 .. before : b = Items(modQ[j])
  BY <1>2, <1>3, <1>4, <1>5 DEF OnceInQueue
<1>6. CASE \E j \in 1 .. Len(secondQ) : b = Items(secondQ[j])
  BY <1>2, <1>3, <1>4, <1>6 DEF InQueue
<1> QED
  BY <1>5, <1>6 DEF Blocks

(***************************************************************************)
(* A split that left nothing was one of a module without items, and a      *)
(* split that left one part left the whole module.                         *)
(***************************************************************************)
LEMMA NoPart ==
  ASSUME RefInv, SplitDone, count = 0
  PROVE  Items(cur) = {} /\ Len(modQ) = before
<1>1. before \in Nat /\ Len(modQ) = before
  BY DEF RefInv, TypeInv, TypeOK, SplitCounted, SplitDone
<1>2. \A b \in Nat : b + 1 .. b = {}
  OBVIOUS
<1>3. before + 1 .. Len(modQ) = {}
  BY <1>1, <1>2, Zenon
<1> QED
  BY <1>1, <1>3, PartsMakeUp

LEMMA SinglePart ==
  ASSUME RefInv, SplitDone, count = 1
  PROVE  /\ Items(Top(modQ)) = Items(cur) /\ Items(cur) # {}
         /\ Top(modQ) \in Part
         /\ Len(Pop(modQ)) = before
         /\ \A i \in 1 .. before : Pop(modQ)[i] = modQ[i]
<1>1. before \in Nat /\ Len(modQ) = before + 1
  BY DEF RefInv, TypeInv, TypeOK, SplitCounted, SplitDone
<1>2. modQ \in Seq(Part) /\ modQ # <<>> /\ Top(modQ) \in Part
  BY OnePartLeft, PopFacts DEF RefInv
<1>3. PICK n : n = Len(modQ)
  OBVIOUS
<1>4. n \in before + 1 .. Len(modQ) /\ \A i \in before + 1 .. Len(modQ) : i = n
  BY <1>1, <1>3
<1>5. Top(modQ) = modQ[n]
  BY <1>3 DEF Top
<1>6. \A x : x \in Items(cur) <=> x \in Items(modQ[n])
  BY <1>4, PartsMakeUp
<1>7. Items(modQ[n]) # {}
  BY <1>4 DEF RefInv, ShrinkInv, Parted, SplitDone
<1>8. Len(Pop(modQ)) = before /\ \A i \in 1 .. before : Pop(modQ)[i] = modQ[i]
  <2>1. /\ Len(Pop(modQ)) = Len(modQ) - 1
        /\ \A i \in 1 .. Len(modQ) - 1 : Pop(modQ)[i] = modQ[i]
    BY <1>2, PopFacts
  <2>2. Len(modQ) - 1 = before
    BY <1>1
  <2> QED
    BY <2>1, <2>2
<1> QED
  BY <1>2, <1>5, <1>6, <1>7, <1>8

-----------------------------------------------------------------------------
(***************************************************************************)
(* The steps that leave the promise alone.                                 *)
(***************************************************************************)
LEMMA PopStutters ==
  ASSUME RefInv, PopModule
  PROVE  UNCHANGED Promise!vars
<1> DEFINE n == Len(modQ)
<1>1. /\ n \in Nat \ {0} /\ modQ' = Pop(modQ) /\ before' = n - 1
      /\ \A i \in 1 .. n - 1 : Pop(modQ)[i] = modQ[i]
      /\ Top(modQ) = modQ[n] /\ Top(modQ) \in Part
      /\ pc = "pop" /\ pc' = "parts"
      /\ UNCHANGED <<input, secondQ, delivered>>
  BY PopFacts DEF PopModule, RefInv, TypeInv, TypeOK, Top
<1>2. Items(cur') = Items(modQ[n])
  BY <1>1 DEF PopModule, Items, Part
<1> HIDE DEF n
<1>3. (1 .. n - 1) \cup {n} = 1 .. n
  BY <1>1
<1>4. Todo' = (Blocks(modQ', before', secondQ') \cup {Items(cur')}) \ {{}}
  BY <1>1, TodoPartsNext
<1>5. Todo = Blocks(modQ, n, secondQ) \ {{}}
  BY <1>1, TodoBetween DEF n
<1>6. Blocks(modQ', n - 1, secondQ) = Blocks(modQ, n - 1, secondQ)
  BY <1>1 DEF Blocks
<1>7. Blocks(modQ, n, secondQ) = Blocks(modQ, n - 1, secondQ) \cup {Items(modQ[n])}
  BY <1>3 DEF Blocks
<1>8. Todo' = Todo
  BY <1>1, <1>2, <1>4, <1>5, <1>6, <1>7
<1> QED
  BY <1>1, <1>8, WrittenSame, Stutters DEF Outcome

LEMMA LambdaStutters ==
  ASSUME RefInv, KeepPart \/ DropPart
  PROVE  UNCHANGED Promise!vars
<1>1. /\ pc = "parts" /\ UNCHANGED <<input, pc, secondQ, cur, before, delivered>>
      /\ before \in Nat /\ count \in Nat /\ Len(modQ) = before + count
  BY DEF KeepPart, DropPart, RefInv, TypeInv, TypeOK, SplitCounted
<1>2. \A i \in 1 .. before : modQ'[i] = modQ[i]
  <2>1. CASE KeepPart
    <3> DEFINE p == [MPart(idx) EXCEPT !.id = Append(@, count)]
    <3>1. p \in Part /\ modQ \in Seq(Part) /\ modQ' = Append(modQ, p)
      <4>1. /\ cur \in Part /\ idx \in Slot /\ count \in Nat /\ modQ \in Seq(Part)
            /\ modQ' = Append(modQ, p)
        BY <2>1 DEF KeepPart, RefInv, TypeInv, TypeOK, Slot
      <4> QED
        BY <4>1, MPartIsPart
    <3> HIDE DEF p
    <3>2. \A i \in 1 .. Len(modQ) : modQ'[i] = modQ[i]
      BY <3>1, PushFacts
    <3>3. 1 .. before \subseteq 1 .. Len(modQ)
      BY <1>1
    <3> QED
      BY <3>2, <3>3
  <2>2. CASE DropPart
    BY <2>2 DEF DropPart
  <2> QED
    BY <2>1, <2>2
<1>3. Blocks(modQ', before, secondQ) = Blocks(modQ, before, secondQ)
  BY <1>2 DEF Blocks
<1>4. Todo' = Todo
  BY <1>1, <1>3, TodoParts, TodoPartsNext
<1> QED
  BY <1>1, <1>4, WrittenSame, Stutters DEF Outcome

LEMMA EmptyStutters ==
  ASSUME RefInv, SplitDone, count = 0, pc' # "parts", Outcome' = Outcome,
         UNCHANGED <<input, modQ, secondQ, delivered>>
  PROVE  UNCHANGED Promise!vars
<1>1. Todo' = Todo
  BY NoPart, TodoParts, TodoBetweenNext DEF SplitDone
<1> QED
  BY <1>1, WrittenSame, Stutters

LEMMA SecondQueueStutters ==
  ASSUME RefInv, AddToSecondQueue
  PROVE  UNCHANGED Promise!vars
<1>1. /\ SplitDone /\ count = 1 /\ pc = "parts" /\ pc' = "pop"
      /\ modQ' = Pop(modQ) /\ secondQ' = Append(secondQ, Top(modQ))
      /\ UNCHANGED <<input, delivered>> /\ secondQ \in Seq(Part)
  BY DEF AddToSecondQueue, SplitDone, RefInv, TypeInv, TypeOK
<1>2. /\ Items(Top(modQ)) = Items(cur) /\ Len(modQ') = before
      /\ \A i \in 1 .. before : modQ'[i] = modQ[i]
  BY <1>1, SinglePart
<1>3. PICK m : m = Len(secondQ)
  OBVIOUS
<1>4. /\ 1 .. Len(secondQ') = 1 .. m \cup {m + 1}
      /\ \A i \in 1 .. m : secondQ'[i] = secondQ[i]
      /\ secondQ'[m + 1] = Top(modQ)
  <2>1. Top(modQ) \in Part
    BY <1>1, SinglePart
  <2> QED
    BY <1>1, <1>3, <2>1, PushFacts
<1>5. Blocks(modQ', before, secondQ') = Blocks(modQ, before, secondQ) \cup {Items(cur)}
  BY <1>2, <1>3, <1>4 DEF Blocks
<1>6. Todo' = Todo
  BY <1>1, <1>2, <1>5, TodoParts, TodoBetweenNext
<1> QED
  BY <1>1, <1>6, WrittenSame, Stutters DEF Outcome

LEMMA SwapStutters ==
  ASSUME RefInv, SwapQueues
  PROVE  UNCHANGED Promise!vars
<1>1. /\ modQ = <<>> /\ modQ' = secondQ /\ secondQ' = <<>> /\ pc = "pop"
      /\ UNCHANGED <<input, pc, delivered>>
  BY DEF SwapQueues
<1>2. 1 .. Len(<<>>) = {}
  BY EmptySeq
<1>3. Blocks(modQ', Len(modQ'), secondQ') = Blocks(modQ, Len(modQ), secondQ)
  BY <1>1, <1>2 DEF Blocks
<1>4. Todo' = Todo
  BY <1>1, <1>3, TodoBetween, TodoBetweenNext
<1> QED
  BY <1>1, <1>4, WrittenSame, Stutters DEF Outcome

-----------------------------------------------------------------------------
(***************************************************************************)
(* A useful split: its parts replace the module, none is empty, they make  *)
(* it up, they are disjoint, and no tied pair is cut since linked symbols  *)
(* are in one slot.                                                        *)
(***************************************************************************)
PartBlocks == {Items(modQ[i]) : i \in before + 1 .. Len(modQ)}

LEMMA TiedInOnePart ==
  ASSUME RefInv, SplitDone, NEW t \in input.tied, t[1] \in Items(cur), t[2] \in Items(cur),
         NEW b \in PartBlocks
  PROVE  t[1] \in b <=> t[2] \in b
<1>1. /\ input \in InputModule /\ cur \in Part /\ SlotParts
      /\ KeepsLinks(place, Links(input, cur.defs, cur.ext))
  BY DecomposeAssumption DEF RefInv, TypeInv, TypeOK, BlockInv, LinkInv, SplitDone
<1>2. t \in Sym \X Sym
  BY <1>1 DEF InputModule
<1>3. t[1] \in cur.defs /\ t[2] \in cur.defs /\ t = <<t[1], t[2]>>
  BY <1>2, SymAssumption DEF Items
<1>4. t \in Links(input, cur.defs, cur.ext)
  BY <1>3 DEF Links
<1>5. PlaceOf(t[1]) = PlaceOf(t[2])
  BY <1>1, <1>3, <1>4 DEF KeepsLinks, PlaceOf
<1>6. PICK i \in before + 1 .. Len(modQ) : b = Items(modQ[i])
  BY DEF PartBlocks
<1>7. PICK k \in Slot : \A x : x \in b <=> x \in Items(cur) /\ PlaceOf(x) = k
  BY <1>1, <1>6 DEF SlotParts
<1> QED
  BY <1>5, <1>7

LEMMA RequeueRefines ==
  ASSUME RefInv, Requeue, count # 0
  PROVE  Promise!Next
<1> DEFINE b == Items(cur)
           B == Blocks(modQ, before, secondQ)
<1>1. /\ SplitDone /\ pc = "parts" /\ pc' = "pop" /\ count # 1
      /\ UNCHANGED <<input, modQ, secondQ, delivered>>
      /\ before \in Nat /\ count \in Nat /\ Len(modQ) = before + count
  BY DEF Requeue, SplitDone, RefInv, TypeInv, TypeOK, SplitCounted
<1>2. PICK n : n = Len(modQ)
  OBVIOUS
<1>3. /\ before + 1 \in before + 1 .. n /\ before + 2 \in before + 1 .. n
      /\ before + 1 # before + 2
      /\ 1 .. n = 1 .. before \cup (before + 1 .. n)
  BY <1>1, <1>2
<1>4. \A i \in before + 1 .. n : Items(modQ[i]) # {}
  BY <1>1, <1>2 DEF RefInv, ShrinkInv, Parted
<1>5. \A i, j \in before + 1 .. n : i # j => Items(modQ[i]) \cap Items(modQ[j]) = {}
  BY <1>1, <1>2 DEF RefInv, ShrinkInv
<1>6. {} \notin PartBlocks
  BY <1>2, <1>4 DEF PartBlocks
<1>7. UNION PartBlocks = b
  BY <1>1, PartsMakeUp DEF PartBlocks
<1>8. \E p, q \in PartBlocks : p # q
  <2>1. /\ Items(modQ[before + 1]) \in PartBlocks
        /\ Items(modQ[before + 2]) \in PartBlocks
    BY <1>2, <1>3 DEF PartBlocks
  <2>2. Items(modQ[before + 1]) # Items(modQ[before + 2])
    BY <1>3, <1>4, <1>5
  <2> QED
    BY <2>1, <2>2
<1>9. \A p, q \in PartBlocks : p # q => p \cap q = {}
  BY <1>2, <1>5 DEF PartBlocks
<1>10. \A t \in input.tied : {t[1], t[2]} \subseteq b => \A p \in PartBlocks : t[1] \in p <=> t[2] \in p
  BY <1>1, TiedInOnePart
<1>11. b # {}
  BY <1>6, <1>7, <1>8
<1>12. Todo = (B \cup {b}) \ {{}}
  BY <1>1, TodoParts
<1>13. Todo' = (B \cup PartBlocks) \ {{}}
  <2>1. Todo' = Blocks(modQ, n, secondQ) \ {{}}
    BY <1>1, <1>2, TodoBetweenNext
  <2>2. Blocks(modQ, n, secondQ) = B \cup PartBlocks
    BY <1>2, <1>3 DEF Blocks, PartBlocks
  <2> QED
    BY <2>1, <2>2
<1>14. b \notin B
  BY <1>1, <1>11, OthersApart
<1> HIDE DEF b, B
<1>15. Todo' = (Todo \ {b}) \cup PartBlocks
  BY <1>6, <1>12, <1>13, <1>14
<1>16. b \in Todo
  BY <1>11, <1>12
<1>17. Outcome = "running" /\ UNCHANGED <<input, Written, Outcome>>
  BY <1>1, WrittenSame DEF Outcome
<1> QED
  BY <1>6, <1>7, <1>8, <1>9, <1>10, <1>15, <1>16, <1>17, Refines

(***************************************************************************)
(* A fragment is all of the module whose split failed.                     *)
(***************************************************************************)
LEMMA WriteRefines ==
  ASSUME RefInv, NEW ok \in BOOLEAN, WriteFragment(ok)
  PROVE  Promise!Next
<1> DEFINE b == Items(cur)
           B == Blocks(modQ, before, secondQ)
           d == [name |-> curModIdx, part |-> Top(modQ), ok |-> ok]
<1>1. /\ SplitDone /\ count = 1 /\ pc = "parts" /\ pc' \in {"pop", "aborted"}
      /\ modQ' = Pop(modQ) /\ delivered' = delivered \cup {d} /\ d.part = Top(modQ)
      /\ UNCHANGED <<input, secondQ>>
  BY DEF WriteFragment, SplitDone
<1>2. /\ Items(Top(modQ)) = b /\ b # {} /\ Len(modQ') = before
      /\ \A i \in 1 .. before : modQ'[i] = modQ[i]
  BY <1>1, SinglePart
<1> HIDE DEF d
<1>3. Todo = (B \cup {b}) \ {{}}
  BY <1>1, TodoParts
<1>4. Todo' = B \ {{}}
  <2>1. Blocks(modQ', before, secondQ) = B
    BY <1>2 DEF Blocks
  <2> QED
    BY <1>1, <1>2, <2>1, TodoBetweenNext
<1>5. b \notin B
  BY <1>1, <1>2, OthersApart
<1>6. Written' = Written \cup {b}
  <2>1. Useful(d.part) /\ Items(d.part) = b
    BY <1>1, <1>2 DEF Useful
  <2>2. Written' = {Items(e.part) : e \in {f \in delivered \cup {d} : Useful(f.part)}}
    BY <1>1 DEF Written, Useful, Items
  <2> QED
    BY <2>1, <2>2 DEF Written
<1> HIDE DEF b, B
<1>7. Todo' = Todo \ {b} /\ b \in Todo
  BY <1>2, <1>3, <1>4, <1>5
<1>8. Outcome = "running" /\ UNCHANGED <<input, Outcome>>
  BY <1>1 DEF Outcome
<1> QED
  BY <1>6, <1>7, <1>8, Writes

LEMMA ReturnRefines ==
  ASSUME RefInv, Return
  PROVE  Promise!Next
<1>1. /\ modQ = <<>> /\ secondQ = <<>> /\ pc = "pop" /\ pc' = "done"
      /\ UNCHANGED <<input, modQ, secondQ, delivered>>
  BY DEF Return, RefInv, BlockInv
<1>2. 1 .. Len(<<>>) = {}
  BY EmptySeq
<1>3. Blocks(modQ, Len(modQ), secondQ) = {}
  BY <1>1, <1>2 DEF Blocks
<1>4. Todo = {} /\ Todo' = {}
  BY <1>1, <1>3, TodoBetween, TodoBetweenNext
<1> QED
  BY <1>1, <1>4, WrittenSame, Succeeds DEF Outcome

-----------------------------------------------------------------------------
(***************************************************************************)
(* Every step of decompose is one of Decomposition, or none.               *)
(***************************************************************************)
LEMMA PromiseInit ==
  ASSUME Init
  PROVE  Promise!Init
<1>1. /\ input \in Inputs /\ modQ = <<Whole>> /\ secondQ = <<>> /\ delivered = {} /\ pc = "pop"
  BY DEF Init
<1>2. 1 .. Len(<<>>) = {} /\ Len(<<Whole>>) = 1 /\ 1 .. 1 = {1} /\ <<Whole>>[1] = Whole
  BY EmptySeq
<1>3. Items(Whole) = ItemsOf(input)
  BY DEF Items, Whole, ItemsOf
<1>4. Blocks(modQ, Len(modQ), secondQ) = {ItemsOf(input)}
  BY <1>1, <1>2, <1>3 DEF Blocks
<1>5. Todo = {ItemsOf(input)} \ {{}}
  BY <1>1, <1>4, TodoBetween
<1>6. Written = {} /\ Outcome = "running"
  BY <1>1 DEF Written, Outcome
<1> QED
  BY <1>1, <1>5, <1>6 DEF Promise!Init, Todo, Written, Outcome

LEMMA PromiseStep ==
  ASSUME RefInv, [Next]_vars
  PROVE  [Promise!Next]_(Promise!vars)
<1>1. CASE PopModule
  BY <1>1, PopStutters
<1>2. CASE KeepPart \/ DropPart
  BY <1>2, LambdaStutters
<1>3. CASE AssertFails
  <2>1. /\ SplitDone /\ ~SplitAsserts /\ pc = "parts" /\ pc' = "aborted"
        /\ UNCHANGED <<input, modQ, secondQ, delivered>>
    BY <1>3 DEF AssertFails, SplitDone
  <2>2. count = 0
    <3>1. Len(modQ) = before + count /\ count + empty = SplitFactor /\ before \in Nat /\ count \in Nat
      BY <2>1 DEF RefInv, TypeInv, TypeOK, SplitCounted, SplitDone
    <3>2. Len(modQ) - before = count
      BY <3>1
    <3> QED
      BY <2>1, <3>1, <3>2 DEF SplitAsserts
  <2> QED
    BY <2>1, <2>2, EmptyStutters DEF Outcome
<1>4. CASE Requeue
  <2>1. CASE count = 0
    BY <1>4, <2>1, EmptyStutters DEF Requeue, SplitDone, Outcome
  <2>2. CASE count # 0
    BY <1>4, <2>2, RequeueRefines
  <2> QED
    BY <2>1, <2>2
<1>5. CASE AddToSecondQueue
  BY <1>5, SecondQueueStutters
<1>6. ASSUME NEW ok \in BOOLEAN, WriteFragment(ok) PROVE Promise!Next
  BY <1>6, WriteRefines
<1>7. CASE SwapQueues
  BY <1>7, SwapStutters
<1>8. CASE Return
  BY <1>8, ReturnRefines
<1>9. CASE UNCHANGED vars
  <2>1. UNCHANGED <<input, pc, modQ, secondQ, cur, before, delivered>>
    BY <1>9 DEF vars
  <2>2. Todo' = Todo /\ Outcome' = Outcome
    BY <2>1 DEF Todo, Pending, Items, Outcome
  <2> QED
    BY <2>1, <2>2, WrittenSame, Stutters
<1> QED
  BY <1>1, <1>2, <1>3, <1>4, <1>5, <1>6, <1>7, <1>8, <1>9 DEF Next

LEMMA RefInvariant == Spec => []RefInv
<1> DEFINE Inv == TypeInv /\ LinkInv /\ ShrinkInv /\ BlockInv
<1>1. Init => Inv
  <2>1. Init => ShrinkInv /\ BlockInv
    BY DEF Init, ShrinkInv, BlockInv
  <2> QED
    BY <2>1, TypeInvInit, LinkInvInit
<1>2. Inv /\ [Next]_vars => Inv'
  BY TypeInvNext, LinkInvNext, ShrinkNext, BlockNext
<1>3. Inv /\ ExactlyOnce => RefInv
  BY DEF RefInv
<1> HIDE DEF Inv
<1> QED
  BY <1>1, <1>2, <1>3, Conservation, PTL DEF Spec

(***************************************************************************)
(* decompose keeps the safety of its promise: the contents of the input    *)
(* are cut into smaller blocks that separate nothing that is tied, each is *)
(* written once, and success comes when nothing is left to write. (That it *)
(* comes at all is the liveness of the promise, which is model-checked.)   *)
(***************************************************************************)
THEOREM RefinesPromise == Spec => Promise!Init /\ [][Promise!Next]_(Promise!vars)
<1>1. Init => Promise!Init
  BY PromiseInit
<1>2. RefInv /\ [Next]_vars => [Promise!Next]_(Promise!vars)
  BY PromiseStep
<1> QED
  BY <1>1, <1>2, RefInvariant, PTL DEF Spec
=============================================================================
