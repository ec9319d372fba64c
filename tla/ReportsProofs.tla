---------------------------- MODULE ReportsProofs ----------------------------
(***************************************************************************)
(* Theorems about the reports of allplay: what asmscan, finduses and       *)
(* finddirectuses print is what the modules of the database hold, and the  *)
(* queries that cypher writes rebuild the database; and about bundles:     *)
(* uncombine undoes combine. All of them for every session.                *)
(***************************************************************************)
EXTENDS GraphsProofs

-----------------------------------------------------------------------------
(***************************************************************************)
(* Documents: what tables hold under the keys of their items.              *)
(***************************************************************************)
Key == STRING \cup {"", "several", "module-level", "inline"} \cup File \cup Path

IsDocument(t) == DOMAIN t \subseteq Seq(Key) /\ <<>> \in DOMAIN t

\* The item is in the document t, under this key.
Holds(t, key, item) ==
  \A q \in DOMAIN item : <<key>> \o q \in DOMAIN t /\ t[<<key>> \o q] = item[q]

LEMMA PathFacts ==
  ASSUME NEW key \in Key, NEW q \in Seq(Key)
  PROVE  /\ <<key>> \o q \in Seq(Key) /\ <<key>> \o q # <<>>
         /\ (<<key>> \o q)[1] = key /\ Tail(<<key>> \o q) = q
<1>1. <<key>> \in Seq(Key) /\ Len(<<key>>) = 1 /\ <<key>>[1] = key
  OBVIOUS
<1>2. <<key>> \o q \in Seq(Key) /\ Len(<<key>> \o q) = 1 + Len(q) /\ Len(q) \in Nat
  BY <1>1, ConcatProperties, LenProperties
<1>3. (<<key>> \o q)[1] = key
  BY <1>1, ConcatProperties
<1>4. <<key>> \o q # <<>>
  BY <1>2, EmptySeq
<1> QED
  BY <1>1, <1>2, <1>3, <1>4, HeadTailProperties, ConcatProperties

LEMMA ShortPaths ==
  ASSUME NEW a, NEW b, NEW c
  PROVE  <<a>> \o <<>> = <<a>> /\ <<a>> \o <<b>> = <<a, b>> /\ <<a>> \o <<b, c>> = <<a, b, c>>
<1> DEFINE S == {a, b, c}
<1>1. <<a>> \in Seq(S) /\ <<b>> \in Seq(S) /\ <<b, c>> \in Seq(S) /\ <<a, b>> \in Seq(S) /\ <<a, b, c>> \in Seq(S)
  OBVIOUS
<1>2. <<a>> \o <<>> = <<a>>
  OBVIOUS
<1>3. <<a>> \o <<b>> = <<a, b>>
  <2>1. /\ Len(<<a>>) = 1 /\ Len(<<b>>) = 1 /\ Len(<<a, b>>) = 2
        /\ <<a, b>>[1] = a /\ <<a, b>>[2] = b /\ <<a>>[1] = a /\ <<b>>[1] = b
    OBVIOUS
  <2>2. <<a>> \o <<b>> \in Seq(S) /\ Len(<<a>> \o <<b>>) = 2
    BY <1>1, <2>1, ConcatProperties
  <2>3. (<<a>> \o <<b>>)[1] = a /\ (<<a>> \o <<b>>)[2] = b
    BY <1>1, <2>1, <2>2, ConcatProperties
  <2> HIDE DEF S
  <2>4. \A i \in 1 .. 2 : (<<a>> \o <<b>>)[i] = <<a, b>>[i]
    BY <2>1, <2>3
  <2> QED
    BY <1>1, <2>1, <2>2, <2>4, SeqEqual
<1>4. <<a>> \o <<b, c>> = <<a, b, c>>
  <2>1. /\ Len(<<a>>) = 1 /\ Len(<<b, c>>) = 2 /\ Len(<<a, b, c>>) = 3
        /\ <<a, b, c>>[1] = a /\ <<a, b, c>>[2] = b /\ <<a, b, c>>[3] = c
        /\ <<a>>[1] = a /\ <<b, c>>[1] = b /\ <<b, c>>[2] = c
    OBVIOUS
  <2>2. <<a>> \o <<b, c>> \in Seq(S) /\ Len(<<a>> \o <<b, c>>) = 3
    BY <1>1, <2>1, ConcatProperties
  <2>3. (<<a>> \o <<b, c>>)[1] = a /\ (<<a>> \o <<b, c>>)[2] = b /\ (<<a>> \o <<b, c>>)[3] = c
    BY <1>1, <2>1, <2>2, ConcatProperties
  <2> HIDE DEF S
  <2>4. \A i \in 1 .. 3 : (<<a>> \o <<b, c>>)[i] = <<a, b, c>>[i]
    BY <2>1, <2>3
  <2> QED
    BY <1>1, <2>1, <2>2, <2>4, SeqEqual
<1> QED
  BY <1>2, <1>3, <1>4

LEMMA SingleFacts ==
  ASSUME NEW item
  PROVE  IsDocument(Single(item)) /\ DOMAIN Single(item) = {<<>>} /\ Single(item)[<<>>] = item
<1>1. <<>> \in Seq(Key)
  BY EmptySeq
<1> QED
  BY <1>1 DEF Single, IsDocument

LEMMA InsertFacts ==
  ASSUME NEW t, NEW item, NEW key \in Key, IsDocument(t), IsDocument(item)
  PROVE  /\ IsDocument(Insert(t, key, item))
         /\ Holds(Insert(t, key, item), key, item)
         /\ \A p \in DOMAIN t : p = <<>> \/ p[1] # key =>
              p \in DOMAIN Insert(t, key, item) /\ Insert(t, key, item)[p] = t[p]
<1> DEFINE rest == {p \in DOMAIN t : p = <<>> \/ p[1] # key}
           below == {<<key>> \o q : q \in DOMAIN item}
<1>1. Insert(t, key, item) = [p \in rest \cup below |-> IF p \in rest THEN t[p] ELSE item[Tail(p)]]
  BY DEF Insert
<1>2. ASSUME NEW q \in DOMAIN item
      PROVE  /\ <<key>> \o q \in Seq(Key) /\ <<key>> \o q \notin rest
             /\ Tail(<<key>> \o q) = q
  BY PathFacts DEF IsDocument
<1>3. <<>> \in rest /\ rest \cup below \subseteq Seq(Key)
  BY <1>2 DEF IsDocument
<1> HIDE DEF rest
<1>4. IsDocument(Insert(t, key, item))
  BY <1>1, <1>3 DEF IsDocument
<1>5. Holds(Insert(t, key, item), key, item)
  BY <1>1, <1>2 DEF Holds
<1>6. \A p \in rest : p \in DOMAIN Insert(t, key, item) /\ Insert(t, key, item)[p] = t[p]
  BY <1>1
<1> QED
  BY <1>4, <1>5, <1>6 DEF rest

LEMMA InsertKeeps ==
  ASSUME NEW t, NEW item, NEW key \in Key, IsDocument(t), IsDocument(item),
         NEW other \in Key, other # key, NEW old, IsDocument(old), Holds(t, other, old)
  PROVE  Holds(Insert(t, key, item), other, old)
<1> SUFFICES ASSUME NEW q \in DOMAIN old
             PROVE  /\ <<other>> \o q \in DOMAIN Insert(t, key, item)
                    /\ Insert(t, key, item)[<<other>> \o q] = old[q]
  BY DEF Holds
<1>1. q \in Seq(Key)
  BY DEF IsDocument
<1>2. (<<other>> \o q)[1] = other
  BY <1>1, PathFacts
<1>3. <<other>> \o q \in DOMAIN t /\ t[<<other>> \o q] = old[q]
  BY DEF Holds
<1>4. ASSUME NEW p \in DOMAIN t, p[1] # key
      PROVE  p \in DOMAIN Insert(t, key, item) /\ Insert(t, key, item)[p] = t[p]
  BY <1>4, InsertFacts, Zenon
<1> QED
  BY <1>2, <1>3, <1>4

LEMMA TableOfFacts ==
  ASSUME NEW items, DOMAIN items \subseteq Key, \A key \in DOMAIN items : IsDocument(items[key])
  PROVE  /\ IsDocument(TableOf(items))
         /\ \A key \in DOMAIN items : Holds(TableOf(items), key, items[key])
         /\ IsEmpty(TableOf(items)) <=> DOMAIN items = {}
<1> DEFINE paths == UNION {{<<key>> \o q : q \in DOMAIN items[key]} : key \in DOMAIN items}
<1>1. TableOf(items) = [p \in {<<>>} \cup paths |-> IF p = <<>> THEN Table ELSE items[p[1]][Tail(p)]]
  BY DEF TableOf
<1>2. ASSUME NEW key \in DOMAIN items, NEW q \in DOMAIN items[key]
      PROVE  /\ <<key>> \o q \in Seq(Key) /\ <<key>> \o q # <<>>
             /\ (<<key>> \o q)[1] = key /\ Tail(<<key>> \o q) = q
             /\ <<key>> \o q \in paths
  <2>1. key \in Key /\ q \in Seq(Key)
    BY DEF IsDocument
  <2>2. <<key>> \o q \in paths
    <3>1. <<key>> \o q \in {<<key>> \o r : r \in DOMAIN items[key]}
      OBVIOUS
    <3> QED
      BY <3>1, Zenon
  <2> HIDE DEF paths
  <2> QED
    BY <2>1, <2>2, PathFacts
<1>3. ASSUME NEW p \in paths
      PROVE  \E key \in DOMAIN items : \E q \in DOMAIN items[key] : p = <<key>> \o q
  BY Zenon
<1>4. ASSUME NEW key \in DOMAIN items PROVE paths # {}
  BY <1>2, <1>4 DEF IsDocument
<1>5. <<>> \notin paths
  BY <1>2, <1>3
<1>6. DOMAIN items = {} => paths = {}
  OBVIOUS
<1> HIDE DEF paths
<1>7. <<>> \in Seq(Key)
  BY EmptySeq
<1>8. IsDocument(TableOf(items))
  <2>1. ASSUME NEW p \in paths PROVE p \in Seq(Key)
    <3>1. PICK key \in DOMAIN items : \E q \in DOMAIN items[key] : p = <<key>> \o q
      BY <1>3
    <3> QED
      BY <1>2, <3>1, Zenon
  <2> QED
    BY <1>1, <1>7, <2>1 DEF IsDocument
<1>9. IsEmpty(TableOf(items)) <=> DOMAIN items = {}
  <2>1. DOMAIN TableOf(items) = {<<>>} \cup paths
    BY <1>1
  <2>2. {<<>>} \cup paths = {<<>>} <=> paths = {}
    BY <1>5
  <2> QED
    BY <1>4, <1>6, <2>1, <2>2 DEF IsEmpty
<1>10. ASSUME NEW key \in DOMAIN items PROVE Holds(TableOf(items), key, items[key])
  <2>1. ASSUME NEW q \in DOMAIN items[key]
        PROVE  <<key>> \o q \in DOMAIN TableOf(items) /\ TableOf(items)[<<key>> \o q] = items[key][q]
    <3> DEFINE p == <<key>> \o q
    <3>1. p \in paths /\ p # <<>> /\ p[1] = key /\ Tail(p) = q
      BY <1>2
    <3> HIDE DEF p
    <3>2. p \in DOMAIN TableOf(items) /\ TableOf(items)[p] = items[key][q]
      BY <1>1, <3>1
    <3> QED
      BY <3>2 DEF p
  <2> QED
    BY <2>1 DEF Holds
<1> QED
  BY <1>8, <1>9, <1>10

-----------------------------------------------------------------------------
(***************************************************************************)
(* What is printed of one module.                                          *)
(***************************************************************************)
IsModule(M) == M \in Content_Module /\ NamesDiffer(M)

LEMMA InlineTableFacts ==
  ASSUME NEW M, IsModule(M)
  PROVE  /\ IsDocument(InlineTable(M))
         /\ IsEmpty(InlineTable(M)) <=> InlineAsm(M) = {}
         /\ \A k \in InlineAsm(M) : M.funcs[k].name # "" =>
              Holds(InlineTable(M), M.funcs[k].name, MakeArray(M.funcs[k].asm))
<1> DEFINE names == {M.funcs[i].name : i \in InlineAsm(M)}
           last(n) == CHOOSE i \in InlineAsm(M) :
                        M.funcs[i].name = n /\ \A j \in InlineAsm(M) : M.funcs[j].name = n => j <= i
           items == [n \in names |-> MakeArray(M.funcs[last(n)].asm)]
<1>1. InlineTable(M) = TableOf(items)
  BY DEF InlineTable
<1>2. M.funcs \in Seq(Content_Function)
  BY DEF IsModule, Content_Module
<1>3. \A i \in InlineAsm(M) : i \in DOMAIN M.funcs /\ i \in Nat /\ M.funcs[i].name \in Key
  <2> SUFFICES ASSUME NEW i \in InlineAsm(M)
               PROVE  i \in DOMAIN M.funcs /\ i \in Nat /\ M.funcs[i].name \in Key
    OBVIOUS
  <2> HIDE DEF last, names, items
  <2>1. i \in 1 .. Len(M.funcs) /\ i \in DOMAIN M.funcs /\ Len(M.funcs) \in Nat
    BY <1>2, LenProperties DEF InlineAsm
  <2>2. M.funcs[i] \in Content_Function
    BY <1>2, <2>1, ElementOfSeq
  <2>3. M.funcs[i].name \in STRING
    BY <2>2 DEF Content_Function
  <2>4. M.funcs[i].name \in Key
    BY <2>3, Zenon DEF Key
  <2> QED
    BY <2>1, <2>4
<1>4. ASSUME NEW k \in InlineAsm(M), M.funcs[k].name # ""
      PROVE  last(M.funcs[k].name) = k
  <2>1. \A i \in InlineAsm(M) : M.funcs[i].name = M.funcs[k].name => i = k
    BY <1>3, <1>4 DEF IsModule, NamesDiffer
  <2>2. k <= k
    BY <1>3
  <2>3. \E i \in InlineAsm(M) :
          M.funcs[i].name = M.funcs[k].name /\ \A j \in InlineAsm(M) : M.funcs[j].name = M.funcs[k].name => j <= i
    BY <2>1, <2>2, Zenon
  <2> QED
    BY <2>1, <2>3, Zenon
<1> HIDE DEF last
<1>5. DOMAIN items = names /\ names \subseteq Key
  BY <1>3
<1>6. \A n \in names : items[n] = MakeArray(M.funcs[last(n)].asm)
  OBVIOUS
<1>7. \A k \in InlineAsm(M) : M.funcs[k].name \in names
  OBVIOUS
<1>8. names = {} <=> InlineAsm(M) = {}
  OBVIOUS
<1> HIDE DEF names, items
<1>9. \A n \in names : IsDocument(items[n])
  BY <1>6, SingleFacts DEF MakeArray
<1>10. /\ IsDocument(TableOf(items)) /\ (IsEmpty(TableOf(items)) <=> names = {})
       /\ \A n \in names : Holds(TableOf(items), n, items[n])
  BY <1>5, <1>9, TableOfFacts
<1> QED
  BY <1>1, <1>4, <1>6, <1>7, <1>8, <1>10

LEMMA AsmTableFacts ==
  ASSUME NEW M, IsModule(M)
  PROVE  /\ IsDocument(AsmTable(M))
         /\ IsEmpty(AsmTable(M)) => ~HasAsm(M)
         /\ M.asm # "" => Holds(AsmTable(M), "module-level", MakeValue(M.asm))
         /\ InlineAsm(M) # {} => Holds(AsmTable(M), "inline", InlineTable(M))
<1> DEFINE level == IF M.asm = "" THEN EmptyTable ELSE Insert(EmptyTable, "module-level", MakeValue(M.asm))
<1>1. AsmTable(M) = IF IsEmpty(InlineTable(M)) THEN level ELSE Insert(level, "inline", InlineTable(M))
  BY DEF AsmTable
<1>2. "module-level" \in Key /\ "inline" \in Key /\ "inline" # "module-level"
  BY DEF Key
<1>3. IsDocument(EmptyTable) /\ IsDocument(MakeValue(M.asm)) /\ <<>> \in DOMAIN MakeValue(M.asm)
  BY SingleFacts DEF EmptyTable, MakeValue
<1>4. IsDocument(InlineTable(M)) /\ (IsEmpty(InlineTable(M)) <=> InlineAsm(M) = {})
  BY InlineTableFacts
<1>5. IsDocument(level) /\ (M.asm # "" => Holds(level, "module-level", MakeValue(M.asm)))
  BY <1>2, <1>3, InsertFacts
<1> HIDE DEF level
<1>6. /\ IsDocument(AsmTable(M))
      /\ M.asm # "" => Holds(AsmTable(M), "module-level", MakeValue(M.asm))
      /\ InlineAsm(M) # {} => Holds(AsmTable(M), "inline", InlineTable(M))
  <2>1. CASE InlineAsm(M) = {}
    BY <1>1, <1>4, <1>5, <2>1
  <2>2. CASE InlineAsm(M) # {}
    <3>1. AsmTable(M) = Insert(level, "inline", InlineTable(M))
      BY <1>1, <1>4, <2>2
    <3>2. IsDocument(AsmTable(M)) /\ Holds(AsmTable(M), "inline", InlineTable(M))
      BY <1>2, <1>4, <1>5, <3>1, InsertFacts
    <3>3. M.asm # "" => Holds(AsmTable(M), "module-level", MakeValue(M.asm))
      BY <1>2, <1>3, <1>4, <1>5, <3>1, InsertKeeps
    <3> QED
      BY <3>2, <3>3
  <2> QED
    BY <2>1, <2>2
<1>7. ASSUME NEW t, NEW key \in Key, NEW item, IsDocument(item), Holds(t, key, item)
      PROVE  ~IsEmpty(t)
  <2>1. <<>> \in DOMAIN item /\ <<>> \in Seq(Key)
    BY <1>7, EmptySeq DEF IsDocument
  <2>2. <<key>> \o <<>> # <<>>
    BY <2>1, PathFacts
  <2> QED
    BY <1>7, <2>1, <2>2 DEF Holds, IsEmpty
<1> QED
  BY <1>2, <1>3, <1>4, <1>6, <1>7 DEF HasAsm, HasLevelAsm, HasInlineAsm

LEMMA AsmTablePrinted ==
  ASSUME NEW doc, NEW f, f \in Key, f \in DOMAIN Content,
         ~IsEmpty(AsmTable(Content[f])) => Holds(doc, f, AsmTable(Content[f]))
  PROVE  AsmPrinted(doc, f)
<1> DEFINE M == Content[f]
<1>1. IsModule(M)
  BY CommandAssumption DEF IsModule
<1>2. ASSUME M.asm # ""
      PROVE  <<f, "module-level">> \in DOMAIN doc
             /\ doc[<<f, "module-level">>] = [type |-> "string", text |-> M.asm]
  <2>1. Holds(AsmTable(M), "module-level", MakeValue(M.asm)) /\ Holds(doc, f, AsmTable(M))
    BY <1>1, <1>2, AsmTableFacts DEF HasAsm, HasLevelAsm
  <2>2. <<>> \in DOMAIN MakeValue(M.asm) /\ MakeValue(M.asm)[<<>>] = [type |-> "string", text |-> M.asm]
    BY SingleFacts DEF MakeValue
  <2>3. <<"module-level">> \in DOMAIN AsmTable(M)
        /\ AsmTable(M)[<<"module-level">>] = [type |-> "string", text |-> M.asm]
    BY <2>1, <2>2, ShortPaths DEF Holds
  <2> QED
    BY <2>1, <2>3, ShortPaths DEF Holds
<1>3. ASSUME NEW k \in InlineAsm(M), M.funcs[k].name # ""
      PROVE  <<f, "inline", M.funcs[k].name>> \in DOMAIN doc
             /\ doc[<<f, "inline", M.funcs[k].name>>] = [type |-> "array", items |-> M.funcs[k].asm]
  <2> DEFINE n == M.funcs[k].name
             array == MakeArray(M.funcs[k].asm)
  <2>1. Holds(AsmTable(M), "inline", InlineTable(M)) /\ Holds(doc, f, AsmTable(M))
    BY <1>1, <1>3, AsmTableFacts DEF HasAsm, HasInlineAsm
  <2>2. Holds(InlineTable(M), n, array)
    BY <1>1, <1>3, InlineTableFacts
  <2>3. <<>> \in DOMAIN array /\ array[<<>>] = [type |-> "array", items |-> M.funcs[k].asm]
    BY SingleFacts DEF MakeArray
  <2> HIDE DEF array, M, n
  <2>4. <<n>> \in DOMAIN InlineTable(M) /\ InlineTable(M)[<<n>>] = array[<<>>]
    BY <2>2, <2>3, ShortPaths DEF Holds
  <2>5. <<"inline", n>> \in DOMAIN AsmTable(M) /\ AsmTable(M)[<<"inline", n>>] = array[<<>>]
    BY <2>1, <2>4, ShortPaths DEF Holds
  <2>6. <<f, "inline", n>> \in DOMAIN doc /\ doc[<<f, "inline", n>>] = array[<<>>]
    <3>1. <<f>> \o <<"inline", n>> = <<f, "inline", n>>
      BY ShortPaths, Zenon
    <3> QED
      BY <2>1, <2>5, <3>1 DEF Holds
  <2> QED
    BY <2>3, <2>6 DEF n
<1> QED
  BY <1>2, <1>3 DEF AsmPrinted

LEMMA CallTableFacts ==
  ASSUME NEW F \in Content_Function
  PROVE  /\ IsDocument(CallTable(F))
         /\ \A u \in Calls(F) :
              /\ <<F.users[u].in>> \in DOMAIN CallTable(F)
              /\ Len(CallTable(F)[<<F.users[u].in>>].items) = Cardinality(CallsFrom(F, F.users[u].in))
<1> DEFINE callers == {F.users[i].in : i \in Calls(F)}
           calls(f) == Selected(F.users, CallsFrom(F, f))
           kinds(f) == [n \in DOMAIN calls(f) |-> calls(f)[n].kind]
           items == [f \in callers |-> MakeArray(kinds(f))]
<1>1. CallTable(F) = TableOf(items)
  BY DEF CallTable
<1>2. F.users \in Seq([in : STRING, kind : {"call", "instruction", "constant"}])
  BY DEF Content_Function
<1>3. \A u \in Calls(F) : F.users[u].in \in callers
  OBVIOUS
<1>4. callers \subseteq Key
  <2> SUFFICES ASSUME NEW u \in Calls(F) PROVE F.users[u].in \in STRING
    BY DEF Key
  <2>1. u \in DOMAIN F.users /\ DOMAIN F.users = 1 .. Len(F.users)
    BY <1>2, LenProperties DEF Calls
  <2>2. F.users[u] \in [in : STRING, kind : {"call", "instruction", "constant"}]
    BY <1>2, <2>1, ElementOfSeq
  <2> QED
    BY <2>2
<1>5. ASSUME NEW f PROVE Len(kinds(f)) = Cardinality(CallsFrom(F, f))
  <2>1. IsFiniteSet(1 .. Len(F.users)) /\ CallsFrom(F, f) \subseteq 1 .. Len(F.users)
    <3> HIDE DEF callers, kinds, items
    <3>1. Len(F.users) \in Nat /\ DOMAIN F.users = 1 .. Len(F.users)
      BY <1>2, LenProperties
    <3> QED
      BY <3>1, FS_Interval DEF CallsFrom, Calls
  <2>2. Cardinality(CallsFrom(F, f)) \in Nat
    BY <2>1, FS_Subset, FS_CardinalityType
  <2>3. DOMAIN kinds(f) = 1 .. Cardinality(CallsFrom(F, f))
    BY DEF Selected
  <2>4. kinds(f) = [n \in 1 .. Cardinality(CallsFrom(F, f)) |-> calls(f)[n].kind]
    BY <2>3
  <2> HIDE DEF kinds, calls, items, callers
  <2> QED
    BY <2>2, <2>4, FunctionIsTable
<1>6. \A f \in callers : items[f] = MakeArray(kinds(f))
  OBVIOUS
<1>7. DOMAIN items = callers
  OBVIOUS
<1> HIDE DEF callers, kinds, items
<1>8. \A f \in callers : /\ IsDocument(items[f]) /\ <<>> \in DOMAIN items[f]
                         /\ items[f][<<>>] = [type |-> "array", items |-> kinds(f)]
  BY <1>6, SingleFacts DEF MakeArray
<1>9. IsDocument(TableOf(items)) /\ \A f \in callers : Holds(TableOf(items), f, items[f])
  BY <1>4, <1>7, <1>8, TableOfFacts
<1>10. ASSUME NEW f \in callers
       PROVE  /\ <<f>> \in DOMAIN CallTable(F)
              /\ CallTable(F)[<<f>>] = [type |-> "array", items |-> kinds(f)]
  <2>1. <<f>> \o <<>> = <<f>>
    BY ShortPaths
  <2> QED
    BY <1>1, <1>8, <1>9, <2>1 DEF Holds
<1> QED
  <2>1. IsDocument(CallTable(F))
    BY <1>1, <1>9
  <2>2. ASSUME NEW u \in Calls(F)
        PROVE  /\ <<F.users[u].in>> \in DOMAIN CallTable(F)
               /\ CallTable(F)[<<F.users[u].in>>].items = kinds(F.users[u].in)
    <3>1. F.users[u].in \in callers
      BY <1>3
    <3>2. /\ <<F.users[u].in>> \in DOMAIN CallTable(F)
          /\ CallTable(F)[<<F.users[u].in>>] = [type |-> "array", items |-> kinds(F.users[u].in)]
      BY <1>10, <3>1
    <3> QED
      BY <3>2
  <2> QED
    BY <1>5, <2>1, <2>2

LEMMA CallTablePrinted ==
  ASSUME NEW doc, NEW f, f \in Key, f \in DOMAIN Content,
         \A i \in FunctionNamed(Content[f], cmd.arg) : Holds(doc, f, CallTable(Content[f].funcs[i]))
  PROVE  CallsPrinted(doc, f)
<1> SUFFICES ASSUME NEW i \in FunctionNamed(Content[f], cmd.arg)
             PROVE  LET F == Content[f].funcs[i]
                    IN  \A u \in Calls(F) :
                          Len(doc[<<f, F.users[u].in>>].items) = Cardinality(CallsFrom(F, F.users[u].in))
  BY DEF CallsPrinted
<1> DEFINE F == Content[f].funcs[i]
<1>1. F \in Content_Function
  BY CommandAssumption, ElementOfSeq, LenProperties DEF FunctionNamed, Content_Module
<1>2. Holds(doc, f, CallTable(F))
  OBVIOUS
<1> HIDE DEF F
<1>3. ASSUME NEW u \in Calls(F)
      PROVE  Len(doc[<<f, F.users[u].in>>].items) = Cardinality(CallsFrom(F, F.users[u].in))
  <2>1. <<f>> \o <<F.users[u].in>> = <<f, F.users[u].in>>
    BY ShortPaths, Zenon
  <2>2. /\ <<F.users[u].in>> \in DOMAIN CallTable(F)
        /\ Len(CallTable(F)[<<F.users[u].in>>].items) = Cardinality(CallsFrom(F, F.users[u].in))
    BY <1>1, <1>3, CallTableFacts, Zenon
  <2>3. doc[<<f, F.users[u].in>>] = CallTable(F)[<<F.users[u].in>>]
    BY <1>2, <2>1, <2>2 DEF Holds
  <2> QED
    BY <2>2, <2>3
<1> QED
  BY <1>3 DEF F

-----------------------------------------------------------------------------
(***************************************************************************)
(* What is counted: modules by their checksums, allexes by their modules,  *)
(* and the places of a module.                                             *)
(***************************************************************************)
CRCs(I) == {infos[i].crc : i \in I}

LEMMA CountCRCs ==
  ASSUME LoadedAllexes, NEW I \in SUBSET DOMAIN infos
  PROVE  Cardinality(CRCs(I)) = Cardinality(I) /\ Cardinality(I) \in Nat
<1> DEFINE f == [i \in I |-> infos[i].crc]
<1>1. IsFiniteSet(I)
  <2>1. DOMAIN infos = 1 .. Len(infos) /\ IsFiniteSet(1 .. Len(infos))
    BY LenProperties, FS_Interval DEF LoadedAllexes, DataInv, DataType
  <2> QED
    BY <2>1, FS_Subset
<1>2. f \in Bijection(I, CRCs(I))
  BY LoadedFacts DEF CRCs, Bijection, Injection, Surjection, IsInjective
<1> QED
  BY <1>1, <1>2, FS_Bijection, FS_CardinalityType DEF ExistsBijection

\* By checksums one finds the allexes that hold modules of a set.
LEMMA HoldingCRCs ==
  ASSUME LoadedAllexes, NEW I \in SUBSET DOMAIN infos,
         NEW a \in DOMAIN allexes, NEW k \in DOMAIN allexes[a].modules
  PROVE  /\ allexes[a].modules[k].crc \in CRCs(I) <=> \E i \in I : infos[i] = allexes[a].modules[k]
         /\ \E i \in DOMAIN infos : infos[i] = allexes[a].modules[k]
<1>1. PICK j \in DOMAIN infos : infos[j] = allexes[a].modules[k]
  BY LoadedFacts
<1>2. \A i \in I : infos[i].crc = infos[j].crc => i = j
  BY LoadedFacts
<1> QED
  BY <1>1, <1>2 DEF CRCs

LEMMA MatchingLevel ==
  ASSUME LoadedAllexes
  PROVE  Matching(CRCs(ModulesWhere(HasLevelAsm))) = AllexesWhere(HasLevelAsm)
<1> DEFINE I == ModulesWhere(HasLevelAsm)
<1>1. I = {i \in DOMAIN infos : HasLevelAsm(Content[infos[i].file])}
  BY DEF ModulesWhere
<1> HIDE DEF I
<1>2. ASSUME NEW a \in DOMAIN allexes
      PROVE  HasModuleIn(allexes[a], CRCs(I)) <=>
               \E k \in DOMAIN allexes[a].modules : HasLevelAsm(Content[allexes[a].modules[k].file])
  <2>1. ASSUME NEW k \in DOMAIN allexes[a].modules
        PROVE  allexes[a].modules[k].crc \in CRCs(I) <=> HasLevelAsm(Content[allexes[a].modules[k].file])
    BY <1>1, HoldingCRCs
  <2> QED
    BY <2>1 DEF HasModuleIn
<1>3. {a \in DOMAIN allexes : HasModuleIn(allexes[a], CRCs(I))} =
        {a \in DOMAIN allexes :
           \E k \in DOMAIN allexes[a].modules : HasLevelAsm(Content[allexes[a].modules[k].file])}
  BY <1>2
<1> QED
  BY <1>3 DEF I, Matching, AllexesWhere

LEMMA MatchingInline ==
  ASSUME LoadedAllexes
  PROVE  Matching(CRCs(ModulesWhere(HasInlineAsm))) = AllexesWhere(HasInlineAsm)
<1> DEFINE I == ModulesWhere(HasInlineAsm)
<1>1. I = {i \in DOMAIN infos : HasInlineAsm(Content[infos[i].file])}
  BY DEF ModulesWhere
<1> HIDE DEF I
<1>2. ASSUME NEW a \in DOMAIN allexes
      PROVE  HasModuleIn(allexes[a], CRCs(I)) <=>
               \E k \in DOMAIN allexes[a].modules : HasInlineAsm(Content[allexes[a].modules[k].file])
  <2>1. ASSUME NEW k \in DOMAIN allexes[a].modules
        PROVE  allexes[a].modules[k].crc \in CRCs(I) <=> HasInlineAsm(Content[allexes[a].modules[k].file])
    BY <1>1, HoldingCRCs
  <2> QED
    BY <2>1 DEF HasModuleIn
<1>3. {a \in DOMAIN allexes : HasModuleIn(allexes[a], CRCs(I))} =
        {a \in DOMAIN allexes :
           \E k \in DOMAIN allexes[a].modules : HasInlineAsm(Content[allexes[a].modules[k].file])}
  BY <1>2
<1> QED
  BY <1>3 DEF I, Matching, AllexesWhere

LEMMA MatchingAsm ==
  ASSUME LoadedAllexes
  PROVE  Matching(CRCs(ModulesWhere(HasLevelAsm)) \cup CRCs(ModulesWhere(HasInlineAsm))) =
           AllexesWhere(HasAsm)
<1> DEFINE I == ModulesWhere(HasLevelAsm) \cup ModulesWhere(HasInlineAsm)
<1>1. I = {i \in DOMAIN infos : HasAsm(Content[infos[i].file])}
  BY DEF ModulesWhere, HasAsm
<1>2. CRCs(I) = CRCs(ModulesWhere(HasLevelAsm)) \cup CRCs(ModulesWhere(HasInlineAsm))
  BY DEF CRCs
<1> HIDE DEF I
<1>3. ASSUME NEW a \in DOMAIN allexes
      PROVE  HasModuleIn(allexes[a], CRCs(I)) <=>
               \E k \in DOMAIN allexes[a].modules : HasAsm(Content[allexes[a].modules[k].file])
  <2>1. ASSUME NEW k \in DOMAIN allexes[a].modules
        PROVE  allexes[a].modules[k].crc \in CRCs(I) <=> HasAsm(Content[allexes[a].modules[k].file])
    BY <1>1, HoldingCRCs
  <2> QED
    BY <2>1 DEF HasModuleIn
<1>4. {a \in DOMAIN allexes : HasModuleIn(allexes[a], CRCs(I))} =
        {a \in DOMAIN allexes :
           \E k \in DOMAIN allexes[a].modules : HasAsm(Content[allexes[a].modules[k].file])}
  BY <1>3
<1> QED
  BY <1>2, <1>4 DEF Matching, AllexesWhere

LEMMA MatchingRefers ==
  ASSUME LoadedAllexes
  PROVE  Matching(CRCs(ModulesWhere(Refers))) = AllexesWhere(Refers)
<1> DEFINE I == ModulesWhere(Refers)
<1>1. I = {i \in DOMAIN infos : Refers(Content[infos[i].file])}
  BY DEF ModulesWhere
<1> HIDE DEF I
<1>2. ASSUME NEW a \in DOMAIN allexes
      PROVE  HasModuleIn(allexes[a], CRCs(I)) <=>
               \E k \in DOMAIN allexes[a].modules : Refers(Content[allexes[a].modules[k].file])
  <2>1. ASSUME NEW k \in DOMAIN allexes[a].modules
        PROVE  allexes[a].modules[k].crc \in CRCs(I) <=> Refers(Content[allexes[a].modules[k].file])
    BY <1>1, HoldingCRCs
  <2> QED
    BY <2>1 DEF HasModuleIn
<1>3. {a \in DOMAIN allexes : HasModuleIn(allexes[a], CRCs(I))} =
        {a \in DOMAIN allexes :
           \E k \in DOMAIN allexes[a].modules : Refers(Content[allexes[a].modules[k].file])}
  BY <1>2
<1> QED
  BY <1>3 DEF I, Matching, AllexesWhere

\* A module occurs as often as allexes hold it, if none holds it twice.
LEMMA OccurrencesOf ==
  ASSUME LoadedAllexes, NoneTwice, NEW i \in DOMAIN infos
  PROVE  Occurrences(infos[i].crc) = Cardinality(Holding(i))
<1> DEFINE c == infos[i].crc
           at(a) == CHOOSE k \in DOMAIN allexes[a].modules : allexes[a].modules[k] = infos[i]
           f == [a \in Holding(i) |-> <<a, at(a)>>]
<1>1. IsFiniteSet(Holding(i))
  <2>1. DOMAIN allexes = 1 .. Len(allexes) /\ IsFiniteSet(1 .. Len(allexes))
    BY LenProperties, FS_Interval DEF LoadedAllexes, DataInv, DataType
  <2>2. Holding(i) \subseteq DOMAIN allexes
    BY DEF Holding
  <2> QED
    BY <2>1, <2>2, FS_Subset
<1>2. ASSUME NEW a \in Holding(i)
      PROVE  a \in DOMAIN allexes /\ at(a) \in DOMAIN allexes[a].modules /\ allexes[a].modules[at(a)] = infos[i]
  BY DEF Holding
<1>3. ASSUME NEW x
      PROVE  x \in PlacesOf(c) <=>
               \E a \in DOMAIN allexes : \E k \in DOMAIN allexes[a].modules :
                 allexes[a].modules[k].crc = c /\ x = <<a, k>>
  BY DEF PlacesOf
<1>4. ASSUME NEW a \in DOMAIN allexes, NEW k \in DOMAIN allexes[a].modules, allexes[a].modules[k].crc = c
      PROVE  a \in Holding(i) /\ k = at(a)
  <2>1. allexes[a].modules[k] = infos[i]
    BY <1>4, LoadedFacts
  <2>2. a \in Holding(i)
    BY <2>1 DEF Holding
  <2> QED
    BY <1>2, <2>1, <2>2 DEF NoneTwice
<1> HIDE DEF at
<1>5. \A a \in Holding(i) : f[a] \in PlacesOf(c)
  BY <1>2, <1>3
<1>6. \A x \in PlacesOf(c) : \E a \in Holding(i) : f[a] = x
  BY <1>3, <1>4
<1>7. \A a, b \in Holding(i) : f[a] = f[b] => a = b
  OBVIOUS
<1>8. f \in [Holding(i) -> PlacesOf(c)]
  BY <1>5
<1> HIDE DEF f
<1>9. f \in Bijection(Holding(i), PlacesOf(c))
  BY <1>6, <1>7, <1>8 DEF Bijection, Injection, Surjection, IsInjective
<1> QED
  BY <1>1, <1>9, FS_Bijection DEF ExistsBijection, Occurrences

-----------------------------------------------------------------------------
(***************************************************************************)
(* The searches. So far they have remembered the checksums of exactly the  *)
(* modules read that have what is searched for, and put into the document  *)
(* what those hold; when they have reported, what they say is right.       *)
(***************************************************************************)
Before(I) == {i \in I : i < next}

FileOf(i) == infos[i].file

ReadInv ==
  /\ {"doc", "first", "second", "names"} \subseteq DOMAIN mem
  /\ IsDocument(mem.doc)
  /\ \A i \in Before(DOMAIN infos) : FileOf(i) \in DOMAIN Content

AsmInv ==
  /\ mem.first = CRCs(Before(ModulesWhere(HasLevelAsm)))
  /\ mem.second = CRCs(Before(ModulesWhere(HasInlineAsm)))
  /\ \A i \in Before(DOMAIN infos) :
       ~IsEmpty(AsmTable(Content[FileOf(i)])) => Holds(mem.doc, FileOf(i), AsmTable(Content[FileOf(i)]))

CallsInv ==
  \A i \in Before(DOMAIN infos) : \A k \in FunctionNamed(Content[FileOf(i)], cmd.arg) :
     Holds(mem.doc, FileOf(i), CallTable(Content[FileOf(i)].funcs[k]))

UsesInv ==
  /\ mem.first = CRCs(Before(ModulesWhere(Refers)))
  /\ \A i \in Before(DOMAIN infos) :
       infos[i].crc \in DOMAIN mem.names /\ mem.names[infos[i].crc] = FileOf(i)
  /\ cmd.name = "finddirectuses" => CallsInv

UsesSearches == {"finduses", "finddirectuses"}

SearchInv ==
  /\ cmd.name \in UsesSearches => mode = "allexes"
  /\ cmd.name \in Searches /\ stage \in Early => ~kept
  /\ cmd.name \in Searches /\ stage = "modules" =>
       pc = "done" /\ ReadInv /\ (IF cmd.name = "asmscan" THEN AsmInv ELSE UsesInv)
  /\ cmd.name \in Searches /\ stage \in {"close", "success"} /\ kept =>
       pc = "done" /\ (IF cmd.name = "asmscan" THEN AsmRight ELSE UsesRight)

\* Of what is searched for nothing changes once the database is loaded.
LEMMA WhereSame ==
  ASSUME UNCHANGED <<cmd, infos, allexes>>
  PROVE  /\ ModulesWhere(HasLevelAsm)' = ModulesWhere(HasLevelAsm)
         /\ ModulesWhere(HasInlineAsm)' = ModulesWhere(HasInlineAsm)
         /\ ModulesWhere(Refers)' = ModulesWhere(Refers)
         /\ AllexesWhere(HasLevelAsm)' = AllexesWhere(HasLevelAsm)
         /\ AllexesWhere(HasInlineAsm)' = AllexesWhere(HasInlineAsm)
         /\ AllexesWhere(HasAsm)' = AllexesWhere(HasAsm)
         /\ AllexesWhere(Refers)' = AllexesWhere(Refers)
         /\ (NoneTwice' <=> NoneTwice)
         /\ \A i : Holding(i)' = Holding(i)
<1>1. /\ ModulesWhere(HasLevelAsm)' = ModulesWhere(HasLevelAsm)
      /\ ModulesWhere(HasInlineAsm)' = ModulesWhere(HasInlineAsm)
  BY DEF ModulesWhere, HasLevelAsm, HasInlineAsm
<1>2. ModulesWhere(Refers)' = ModulesWhere(Refers)
  BY DEF ModulesWhere, Refers, FunctionNamed
<1>3. /\ AllexesWhere(HasLevelAsm)' = AllexesWhere(HasLevelAsm)
      /\ AllexesWhere(HasInlineAsm)' = AllexesWhere(HasInlineAsm)
      /\ AllexesWhere(HasAsm)' = AllexesWhere(HasAsm)
  BY DEF AllexesWhere, HasAsm, HasLevelAsm, HasInlineAsm
<1>4. AllexesWhere(Refers)' = AllexesWhere(Refers)
  BY DEF AllexesWhere, Refers, FunctionNamed
<1>5. (NoneTwice' <=> NoneTwice) /\ \A i : Holding(i)' = Holding(i)
  BY DEF NoneTwice, Holding
<1> QED
  BY <1>1, <1>2, <1>3, <1>4, <1>5

LEMMA SearchRest ==
  ASSUME SearchInv, Scanning, UNCHANGED <<cmd, next, mem, out>>,
         kept' = kept \/ cmd.name \notin Searches,
         stage' = stage \/ (stage' \in {"success", "error"} /\ stage = "close")
         \/ stage' \in {"aborted", "fatal", "error"} \/ (stage' = "close" /\ stage = "modules" /\ kept' = kept)
  PROVE  SearchInv'
<1>1. mode' = mode /\ (pc = "done" => UNCHANGED <<pc, infos, allexes>>)
  BY DoneRests
<1>2. CASE cmd.name \notin Searches
  BY <1>1, <1>2 DEF SearchInv, UsesSearches, Searches
<1>3. CASE cmd.name \in Searches /\ pc # "done"
  BY <1>1, <1>3 DEF SearchInv, Early
<1>4. CASE cmd.name \in Searches /\ pc = "done"
  <2>1. UNCHANGED <<cmd, infos, allexes, mem, out, next, mode, pc, kept>>
    BY <1>1, <1>4
  <2> USE <2>1
  <2>2. ReadInv <=> ReadInv'
    BY DEF ReadInv, Before, FileOf
  <2>3. AsmInv <=> AsmInv'
    BY WhereSame DEF AsmInv, Before, FileOf, CRCs
  <2>4. UsesInv <=> UsesInv'
    BY WhereSame DEF UsesInv, CallsInv, Before, FileOf, CRCs, FunctionNamed
  <2>5. AsmRight <=> AsmRight'
    BY WhereSame DEF AsmRight
  <2>6. UsesRight <=> UsesRight'
    <3> DEFINE CallsShown == \A i \in DOMAIN infos : CallsPrinted(out.doc, infos[i].file)
               Counted == NoneTwice => \A i \in ModulesWhere(Refers) :
                            \E n \in DOMAIN out.uses :
                               out.uses[n] = [count |-> Cardinality(Holding(i)), name |-> infos[i].file]
    <3>1. CallsShown' <=> CallsShown
      BY DEF CallsPrinted, FunctionNamed
    <3>2. Counted' <=> Counted
      BY WhereSame
    <3> HIDE DEF CallsShown, Counted
    <3>3. UsesRight <=>
            /\ out.modules = Cardinality(ModulesWhere(Refers))
            /\ out.matching = AllexesWhere(Refers)
            /\ cmd.name = "finddirectuses" =>
                 /\ \A n, m \in DOMAIN out.uses : n < m => out.uses[n].count >= out.uses[m].count
                 /\ Len(out.uses) = Cardinality(ModulesWhere(Refers))
                 /\ Counted /\ CallsShown
      BY DEF UsesRight, Counted, CallsShown
    <3>4. UsesRight' <=>
            /\ out'.modules = Cardinality(ModulesWhere(Refers)')
            /\ out'.matching = AllexesWhere(Refers)'
            /\ cmd'.name = "finddirectuses" =>
                 /\ \A n, m \in DOMAIN out'.uses : n < m => out'.uses[n].count >= out'.uses[m].count
                 /\ Len(out'.uses) = Cardinality(ModulesWhere(Refers)')
                 /\ Counted' /\ CallsShown'
      BY DEF UsesRight, Counted, CallsShown
    <3> QED
      BY <3>1, <3>2, <3>3, <3>4, WhereSame
  <2> QED
    BY <1>4, <2>2, <2>3, <2>4, <2>5, <2>6 DEF SearchInv, Early
<1> QED
  BY <1>2, <1>3, <1>4

LEMMA NotOfSearch ==
  ASSUME ExportStep \/ GraphStep \/ BundleStep \/ TomlReport, IsAtEmit, "name" \in DOMAIN cmd
  PROVE  cmd'.name \notin Searches
<1>1. CASE ExportStep
  BY <1>1, Zenon DEF ExportStep, NeoOpen, NeoAborts, NeoModule, NeoAllexe, NeoFinish, CypherOpen,
     CypherModule, CypherFinish, Loaded, ReadsModule, ReadsModules, ModulesDone, Neo, Succeed, Searches
<1>2. CASE GraphStep
  BY <1>2, Zenon DEF GraphStep, GraphCommand, HashStart, HashModule, HashSort, HashEmitGraph, EmitGraph,
     HashEmitCSV, HashEmitNothing, Loaded, ReadsModule, ReadsModules, ModulesDone, Searches, Succeed, IsAtEmit
<1>3. CASE UncombineOutput
  BY <1>3 DEF UncombineOutput, Searches
<1>4. CASE BundleStep /\ ~UncombineOutput
  BY <1>4, Zenon DEF BundleStep, CombineStart, CombineModule, CombineWrite, TakeApart, UncombinePart,
     DecomposePart, TakenApart, PrintSource, Loaded, ReadsModule, ReadsModules, ModulesDone, HasPart,
     Takers, Searches, Succeed
<1>5. CASE TomlReport
  BY <1>5, Zenon DEF TomlReport, Loaded, Searches, Succeed
<1> QED
  BY <1>1, <1>2, <1>3, <1>4, <1>5

LEMMA ModulesOf ==
  ASSUME DataType, NEW i \in DOMAIN infos
  PROVE  i \in Nat \ {0} /\ i <= Len(infos) /\ Len(infos) \in Nat /\ DOMAIN infos = 1 .. Len(infos)
         /\ FileOf(i) \in Key
<1>1. Len(infos) \in Nat /\ DOMAIN infos = 1 .. Len(infos)
  BY LenProperties DEF DataType
<1>2. infos[i] \in ModuleInfo
  BY <1>1, ElementOfSeq DEF DataType
<1>3. infos[i].file \in File \cup Path \cup {"", "several"}
  BY <1>2 DEF ModuleInfo
<1>4. FileOf(i) \in Key
  BY <1>3, Zenon DEF FileOf, Key
<1> QED
  BY <1>1, <1>4

LEMMA NoneBefore ==
  ASSUME DataType, next = 1, NEW I \in SUBSET DOMAIN infos
  PROVE  Before(I) = {}
BY ModulesOf DEF Before

LEMMA AllBefore ==
  ASSUME DataType, next \in Nat, next > Len(infos), NEW I \in SUBSET DOMAIN infos
  PROVE  Before(I) = I
BY ModulesOf DEF Before

LEMMA BeforeNext ==
  ASSUME DataType, next \in Nat, next' = next + 1, UNCHANGED infos, NEW I \in SUBSET DOMAIN infos
  PROVE  /\ {i \in I : i < next'} = Before(I) \cup (I \cap {next})
         /\ {infos'[i].crc : i \in {i \in I : i < next'}} =
              IF next \in I THEN CRCs(Before(I)) \cup {infos[next].crc} ELSE CRCs(Before(I))
<1>1. {i \in I : i < next'} = Before(I) \cup (I \cap {next})
  BY ModulesOf DEF Before
<1>2. {infos'[i].crc : i \in Before(I) \cup (I \cap {next})} =
        IF next \in I THEN CRCs(Before(I)) \cup {infos[next].crc} ELSE CRCs(Before(I))
  BY DEF CRCs
<1> QED
  BY <1>1, <1>2

LEMMA SearchStarts ==
  ASSUME SearchInv, DataType, PositionInv, SearchStart
  PROVE  SearchInv'
<1>1. /\ stage = "scan" /\ stage' = "modules" /\ pc = "done" /\ cmd.name \in Searches
      /\ UNCHANGED <<infos, allexes, adding, mode, pc, cmd, next, kept>>
      /\ mem' = [doc |-> EmptyTable, first |-> {}, second |-> {}, names |-> [c \in {} |-> ""]]
  BY DEF SearchStart, Loaded, scanVars, ioVars
<1>2. next' = 1 /\ DataType'
  BY <1>1 DEF PositionInv, DataType
<1>3. \A I \in SUBSET DOMAIN infos' : {i \in I : i < next'} = {}
  <2>1. \A i \in DOMAIN infos : i \in Nat \ {0}
    BY ModulesOf
  <2> QED
    BY <1>1, <1>2, <2>1
<1>4. IsDocument(EmptyTable)
  BY SingleFacts DEF EmptyTable
<1>5. Before(DOMAIN infos)' = {}
  BY <1>3 DEF Before
<1>6. ReadInv'
  BY <1>1, <1>4, <1>5 DEF ReadInv
<1>7. CRCs(Before(ModulesWhere(HasLevelAsm)))' = {} /\ CRCs(Before(ModulesWhere(HasInlineAsm)))' = {}
  BY <1>3 DEF CRCs, Before, ModulesWhere
<1>8. CRCs(Before(ModulesWhere(Refers)))' = {}
  BY <1>3 DEF CRCs, Before, ModulesWhere
<1>9. AsmInv' /\ UsesInv'
  BY <1>1, <1>5, <1>7, <1>8 DEF AsmInv, UsesInv, CallsInv
<1> QED
  BY <1>1, <1>6, <1>9 DEF SearchInv, Early

LEMMA AsmModuleRead ==
  ASSUME SearchInv, DataType, PositionInv, AsmModule
  PROVE  SearchInv'
<1> DEFINE M == Content[FileOf(next)]
           table == AsmTable(M)
<1>1. /\ stage = "modules" /\ cmd.name = "asmscan" /\ next <= Len(infos) /\ FileOf(next) \in DOMAIN Content
      /\ next' = next + 1
      /\ UNCHANGED <<infos, allexes, mode, pc, cmd, stage, kept>>
      /\ mem' = [mem EXCEPT
           !.doc = IF IsEmpty(table) THEN @ ELSE Insert(@, FileOf(next), table),
           !.first = IF M.asm = "" THEN @ ELSE @ \cup {infos[next].crc},
           !.second = IF IsEmpty(InlineTable(M)) THEN @ ELSE @ \cup {infos[next].crc}]
  BY DEF AsmModule, ReadsModule, ReadsModules, CanLoad, FileOf, scanVars, ioVars
<1>2. pc = "done" /\ ReadInv /\ AsmInv
  BY <1>1 DEF SearchInv, Searches
<1>3. next \in Nat \ {0} /\ next \in DOMAIN infos /\ FileOf(next) \in Key
  <2>1. next \in Nat \ {0} /\ Len(infos) \in Nat /\ DOMAIN infos = 1 .. Len(infos)
    BY LenProperties DEF PositionInv, DataType
  <2>2. next \in DOMAIN infos
    BY <1>1, <2>1
  <2> QED
    BY <2>1, <2>2, ModulesOf
<1>4. IsModule(M)
  BY <1>1, CommandAssumption DEF IsModule
<1>5. IsDocument(table) /\ (IsEmpty(InlineTable(M)) <=> ~HasInlineAsm(M)) /\ (M.asm = "" <=> ~HasLevelAsm(M))
  BY <1>4, AsmTableFacts, InlineTableFacts DEF HasInlineAsm, HasLevelAsm
<1> HIDE DEF table
<1>6. /\ DOMAIN mem' = DOMAIN mem
      /\ mem'.doc = IF IsEmpty(table) THEN mem.doc ELSE Insert(mem.doc, FileOf(next), table)
      /\ mem'.first = IF M.asm = "" THEN mem.first ELSE mem.first \cup {infos[next].crc}
      /\ mem'.second = IF IsEmpty(InlineTable(M)) THEN mem.second ELSE mem.second \cup {infos[next].crc}
  BY <1>1, <1>2 DEF ReadInv
<1>7. Before(DOMAIN infos)' = Before(DOMAIN infos) \cup {next}
  BY <1>1, <1>3, BeforeNext DEF Before
<1>8. /\ IsDocument(mem'.doc)
      /\ ~IsEmpty(table) => Holds(mem'.doc, FileOf(next), table)
      /\ \A old : \A other \in Key :
           other # FileOf(next) /\ IsDocument(old) /\ Holds(mem.doc, other, old) => Holds(mem'.doc, other, old)
  <2>1. IsDocument(mem.doc)
    BY <1>2 DEF ReadInv
  <2>2. CASE IsEmpty(table)
    BY <1>6, <2>1, <2>2
  <2>3. CASE ~IsEmpty(table)
    <3>1. mem'.doc = Insert(mem.doc, FileOf(next), table)
      BY <1>6, <2>3
    <3>2. IsDocument(mem'.doc) /\ Holds(mem'.doc, FileOf(next), table)
      <4>1. /\ IsDocument(Insert(mem.doc, FileOf(next), table))
            /\ Holds(Insert(mem.doc, FileOf(next), table), FileOf(next), table)
        BY <1>3, <1>5, <2>1, InsertFacts, Zenon
      <4> QED
        BY <3>1, <4>1
    <3>3. ASSUME NEW other \in Key, NEW old, other # FileOf(next), IsDocument(old), Holds(mem.doc, other, old)
          PROVE  Holds(mem'.doc, other, old)
      BY <1>3, <1>5, <2>1, <3>1, <3>3, InsertKeeps
    <3> QED
      BY <3>2, <3>3
  <2> QED
    BY <2>2, <2>3
<1>9. ReadInv'
  BY <1>1, <1>2, <1>6, <1>7, <1>8 DEF ReadInv, FileOf
<1>10. /\ next \in ModulesWhere(HasLevelAsm) <=> HasLevelAsm(M)
       /\ next \in ModulesWhere(HasInlineAsm) <=> HasInlineAsm(M)
       /\ ModulesWhere(HasLevelAsm) \subseteq DOMAIN infos
       /\ ModulesWhere(HasInlineAsm) \subseteq DOMAIN infos
  BY <1>3 DEF ModulesWhere, FileOf
<1>11. mem'.first = CRCs(Before(ModulesWhere(HasLevelAsm)))'
  <2>1. {infos'[i].crc : i \in {i \in ModulesWhere(HasLevelAsm) : i < next'}} = mem'.first
    BY <1>1, <1>2, <1>3, <1>5, <1>6, <1>10, BeforeNext DEF AsmInv
  <2> QED
    BY <1>1, <2>1, WhereSame DEF CRCs, Before
<1>12. mem'.second = CRCs(Before(ModulesWhere(HasInlineAsm)))'
  <2>1. {infos'[i].crc : i \in {i \in ModulesWhere(HasInlineAsm) : i < next'}} = mem'.second
    BY <1>1, <1>2, <1>3, <1>5, <1>6, <1>10, BeforeNext DEF AsmInv
  <2> QED
    BY <1>1, <2>1, WhereSame DEF CRCs, Before
<1>13. ASSUME NEW i \in Before(DOMAIN infos) \cup {next}, ~IsEmpty(AsmTable(Content[FileOf(i)]))
       PROVE  Holds(mem'.doc, FileOf(i), AsmTable(Content[FileOf(i)]))
  <2>1. CASE FileOf(i) = FileOf(next)
    <3>1. AsmTable(Content[FileOf(i)]) = table
      BY <2>1 DEF table
    <3> QED
      BY <1>8, <1>13, <2>1, <3>1
  <2>2. CASE FileOf(i) # FileOf(next)
    <3>1. i \in Before(DOMAIN infos) /\ i \in DOMAIN infos /\ FileOf(i) \in DOMAIN Content
      BY <1>2, <1>13, <2>2 DEF Before, ReadInv
    <3>2. FileOf(i) \in Key /\ IsDocument(AsmTable(Content[FileOf(i)]))
      BY <3>1, ModulesOf, AsmTableFacts, CommandAssumption DEF IsModule
    <3>3. Holds(mem.doc, FileOf(i), AsmTable(Content[FileOf(i)]))
      BY <1>2, <1>13, <3>1 DEF AsmInv
    <3> QED
      BY <1>8, <2>2, <3>2, <3>3
  <2> QED
    BY <2>1, <2>2
<1>14. \A i : FileOf(i)' = FileOf(i)
  BY <1>1 DEF FileOf
<1>15. AsmInv'
  BY <1>7, <1>11, <1>12, <1>13, <1>14 DEF AsmInv
<1> QED
  BY <1>1, <1>2, <1>9, <1>15 DEF SearchInv, UsesSearches, Early

LEMMA OneFunctionNamed ==
  ASSUME NEW M, IsModule(M), NEW n, NEW i \in FunctionNamed(M, n), NEW j \in FunctionNamed(M, n)
  PROVE  i = j
BY DEF FunctionNamed, IsModule, NamesDiffer

LEMMA SearchModuleRead ==
  ASSUME SearchInv, DataInv, PositionInv, SearchModule
  PROVE  SearchInv'
<1> DEFINE M == Content[FileOf(next)]
           found == FunctionNamed(M, cmd.arg)
           table == CallTable(M.funcs[CHOOSE i \in found : TRUE])
           keeps == found = {} \/ cmd.name = "finduses"
           names == [c \in DOMAIN mem.names \cup {infos[next].crc} |->
                       IF c = infos[next].crc THEN FileOf(next) ELSE mem.names[c]]
<1>1. /\ stage = "modules" /\ cmd.name \in UsesSearches /\ next <= Len(infos) /\ FileOf(next) \in DOMAIN Content
      /\ next' = next + 1
      /\ UNCHANGED <<infos, allexes, mode, pc, cmd, stage, kept>>
      /\ mem' = [mem EXCEPT
           !.names = names,
           !.first = IF found = {} THEN @ ELSE @ \cup {infos[next].crc},
           !.doc = IF keeps THEN @ ELSE Insert(@, FileOf(next), table)]
  BY DEF SearchModule, ReadsModule, ReadsModules, CanLoad, FileOf, scanVars, ioVars, UsesSearches
<1>2. pc = "done" /\ mode = "allexes" /\ ReadInv /\ UsesInv
  BY <1>1 DEF SearchInv, Searches, UsesSearches
<1>3. next \in Nat \ {0} /\ next \in DOMAIN infos /\ FileOf(next) \in Key
  <2>1. next \in Nat \ {0} /\ Len(infos) \in Nat /\ DOMAIN infos = 1 .. Len(infos)
    BY LenProperties DEF PositionInv, DataInv, DataType
  <2>2. next \in DOMAIN infos
    BY <1>1, <2>1
  <2> QED
    BY <2>1, <2>2, ModulesOf DEF DataInv
<1>4. IsModule(M)
  BY <1>1, CommandAssumption DEF IsModule
<1>5. \A k \in found : IsDocument(CallTable(M.funcs[k])) /\ table = CallTable(M.funcs[k])
  <2> SUFFICES ASSUME NEW k \in found
               PROVE  IsDocument(CallTable(M.funcs[k])) /\ table = CallTable(M.funcs[k])
    OBVIOUS
  <2>1. M.funcs[k] \in Content_Function
    BY <1>4, ElementOfSeq, LenProperties DEF FunctionNamed, IsModule, Content_Module
  <2>2. (CHOOSE i \in found : TRUE) \in found
    OBVIOUS
  <2>3. (CHOOSE i \in found : TRUE) = k
    BY <1>4, <2>2, OneFunctionNamed, Zenon
  <2> QED
    BY <2>1, <2>3, CallTableFacts
<1> HIDE DEF table, names
<1>6. /\ DOMAIN mem' = DOMAIN mem
      /\ mem'.names = names
      /\ mem'.doc = IF keeps THEN mem.doc ELSE Insert(mem.doc, FileOf(next), table)
      /\ mem'.first = IF found = {} THEN mem.first ELSE mem.first \cup {infos[next].crc}
  BY <1>1, <1>2 DEF ReadInv
<1>7. Before(DOMAIN infos)' = Before(DOMAIN infos) \cup {next}
  BY <1>1, <1>3, BeforeNext DEF Before, DataInv
<1>8. /\ IsDocument(mem'.doc)
      /\ ~keeps => Holds(mem'.doc, FileOf(next), table)
      /\ \A old : \A other \in Key :
           other # FileOf(next) /\ IsDocument(old) /\ Holds(mem.doc, other, old) => Holds(mem'.doc, other, old)
  <2>1. IsDocument(mem.doc)
    BY <1>2 DEF ReadInv
  <2>2. CASE keeps
    BY <1>6, <2>1, <2>2
  <2>3. CASE ~keeps
    <3>1. mem'.doc = Insert(mem.doc, FileOf(next), table) /\ IsDocument(table)
      BY <1>5, <1>6, <2>3
    <3>2. IsDocument(mem'.doc) /\ Holds(mem'.doc, FileOf(next), table)
      <4>1. /\ IsDocument(Insert(mem.doc, FileOf(next), table))
            /\ Holds(Insert(mem.doc, FileOf(next), table), FileOf(next), table)
        BY <1>3, <2>1, <3>1, InsertFacts, Zenon
      <4> QED
        BY <3>1, <4>1
    <3>3. ASSUME NEW other \in Key, NEW old, other # FileOf(next), IsDocument(old), Holds(mem.doc, other, old)
          PROVE  Holds(mem'.doc, other, old)
      BY <1>3, <2>1, <3>1, <3>3, InsertKeeps
    <3> QED
      BY <3>2, <3>3
  <2> QED
    BY <2>2, <2>3
<1>9. ReadInv'
  BY <1>1, <1>2, <1>6, <1>7, <1>8 DEF ReadInv, FileOf
<1>10. (next \in ModulesWhere(Refers) <=> found # {}) /\ ModulesWhere(Refers) \subseteq DOMAIN infos
  BY <1>3 DEF ModulesWhere, FileOf, Refers
<1>11. mem'.first = CRCs(Before(ModulesWhere(Refers)))'
  <2>1. {infos'[i].crc : i \in {i \in ModulesWhere(Refers) : i < next'}} = mem'.first
    BY <1>1, <1>2, <1>3, <1>6, <1>10, BeforeNext DEF UsesInv, DataInv
  <2> QED
    BY <1>1, <2>1, WhereSame DEF CRCs, Before
<1>12. ASSUME NEW i \in Before(DOMAIN infos) \cup {next}
       PROVE  infos[i].crc \in DOMAIN names /\ names[infos[i].crc] = FileOf(i)
  <2>1. i = next \/ (i \in Before(DOMAIN infos) /\ i \in DOMAIN infos)
    BY DEF Before
  <2>2. infos[i].crc = infos[next].crc => i = next
    BY <1>2, <1>3, <2>1 DEF DataInv
  <2> QED
    BY <1>2, <2>1, <2>2 DEF UsesInv, names
<1>13. ASSUME NEW i \in Before(DOMAIN infos) \cup {next}, cmd.name = "finddirectuses",
              NEW k \in FunctionNamed(Content[FileOf(i)], cmd.arg)
       PROVE  Holds(mem'.doc, FileOf(i), CallTable(Content[FileOf(i)].funcs[k]))
  <2>1. CASE FileOf(i) = FileOf(next)
    <3>1. k \in found /\ Content[FileOf(i)] = M
      BY <1>13, <2>1
    <3>2. table = CallTable(Content[FileOf(i)].funcs[k]) /\ ~keeps
      BY <1>5, <1>13, <3>1
    <3> QED
      BY <1>8, <2>1, <3>2
  <2>2. CASE FileOf(i) # FileOf(next)
    <3>1. i \in Before(DOMAIN infos) /\ i \in DOMAIN infos /\ FileOf(i) \in DOMAIN Content
      BY <1>2, <1>13, <2>2 DEF Before, ReadInv
    <3>2. Content[FileOf(i)].funcs[k] \in Content_Function
      BY <3>1, CommandAssumption, ElementOfSeq, LenProperties DEF FunctionNamed, Content_Module
    <3>3. FileOf(i) \in Key /\ IsDocument(CallTable(Content[FileOf(i)].funcs[k]))
      BY <3>1, <3>2, ModulesOf, CallTableFacts DEF DataInv
    <3>4. Holds(mem.doc, FileOf(i), CallTable(Content[FileOf(i)].funcs[k]))
      BY <1>2, <1>13, <3>1 DEF UsesInv, CallsInv
    <3> QED
      BY <1>8, <2>2, <3>3, <3>4
  <2> QED
    BY <2>1, <2>2
<1>14. \A i : FileOf(i)' = FileOf(i)
  BY <1>1 DEF FileOf
<1>15. cmd.name = "finddirectuses" => CallsInv'
  BY <1>1, <1>7, <1>13, <1>14 DEF CallsInv, FunctionNamed
<1>16. UsesInv'
  BY <1>1, <1>6, <1>7, <1>11, <1>12, <1>14, <1>15 DEF UsesInv
<1> QED
  BY <1>1, <1>2, <1>9, <1>16 DEF SearchInv, UsesSearches, Early

-----------------------------------------------------------------------------
LEMMA AsmReports ==
  ASSUME SearchInv, DataInv, PositionInv, AsmReport
  PROVE  SearchInv'
<1>1. /\ stage = "modules" /\ cmd.name = "asmscan" /\ next > Len(infos) /\ next \in Nat
      /\ UNCHANGED <<infos, allexes, mode, pc, cmd>> /\ stage' = "close"
      /\ out' = [doc |-> mem.doc,
                 matching |-> Matching(mem.first \cup mem.second),
                 modules |-> <<Cardinality(mem.first), Cardinality(mem.second)>>,
                 allexes |-> <<Len(Matching(mem.first)), Len(Matching(mem.second))>>]
  BY DEF AsmReport, ModulesDone, Succeed, scanVars, PositionInv
<1>2. pc = "done" /\ ReadInv /\ AsmInv
  BY <1>1 DEF SearchInv, Searches
<1> DEFINE L == ModulesWhere(HasLevelAsm)
           N == ModulesWhere(HasInlineAsm)
<1>3. L \in SUBSET DOMAIN infos /\ N \in SUBSET DOMAIN infos
  BY DEF ModulesWhere
<1> HIDE DEF L, N
<1>4. Before(L) = L /\ Before(N) = N /\ Before(DOMAIN infos) = DOMAIN infos
  BY <1>1, <1>3, AllBefore DEF DataInv
<1>5. mem.first = CRCs(L) /\ mem.second = CRCs(N)
  BY <1>2, <1>4 DEF AsmInv, L, N
<1>6. ASSUME mode = "allexes"
      PROVE  /\ out'.modules = <<Cardinality(L), Cardinality(N)>>
             /\ out'.allexes = <<Len(AllexesWhere(HasLevelAsm)), Len(AllexesWhere(HasInlineAsm))>>
             /\ out'.matching = AllexesWhere(HasAsm)
  <2>1. LoadedAllexes
    BY <1>2, <1>6 DEF LoadedAllexes
  <2>2. Cardinality(mem.first) = Cardinality(L) /\ Cardinality(mem.second) = Cardinality(N)
    BY <1>3, <1>5, <2>1, CountCRCs
  <2>3. /\ Matching(mem.first) = AllexesWhere(HasLevelAsm)
        /\ Matching(mem.second) = AllexesWhere(HasInlineAsm)
        /\ Matching(mem.first \cup mem.second) = AllexesWhere(HasAsm)
    BY <1>5, <2>1, MatchingLevel, MatchingInline, MatchingAsm DEF L, N
  <2> QED
    BY <1>1, <2>2, <2>3
<1>7. ASSUME NEW i \in DOMAIN infos PROVE AsmPrinted(out'.doc, FileOf(i))
  <2>1. FileOf(i) \in Key /\ FileOf(i) \in DOMAIN Content
    BY <1>2, <1>4, ModulesOf DEF ReadInv, DataInv
  <2>2. ~IsEmpty(AsmTable(Content[FileOf(i)])) => Holds(mem.doc, FileOf(i), AsmTable(Content[FileOf(i)]))
    BY <1>2, <1>4 DEF AsmInv
  <2>3. AsmPrinted(mem.doc, FileOf(i))
    BY <2>1, <2>2, AsmTablePrinted
  <2> QED
    BY <1>1, <2>3
<1>8. AsmRight'
  BY <1>1, <1>6, <1>7, WhereSame DEF AsmRight, FileOf, L, N
<1> QED
  BY <1>1, <1>2, <1>8 DEF SearchInv, UsesSearches, Early

LEMMA UsesReports ==
  ASSUME SearchInv, DataInv, PositionInv, UsesReport
  PROVE  SearchInv'
<1>1. /\ stage = "modules" /\ cmd.name \in UsesSearches /\ next > Len(infos) /\ next \in Nat
      /\ UNCHANGED <<infos, allexes, mode, pc, cmd>> /\ stage' = "close"
      /\ out'.modules = Cardinality(mem.first) /\ out'.matching = Matching(mem.first)
  BY DEF UsesReport, ModulesDone, Succeed, scanVars, PositionInv, UsesSearches
<1>2. pc = "done" /\ mode = "allexes" /\ ReadInv /\ UsesInv
  BY <1>1 DEF SearchInv, Searches, UsesSearches
<1>3. LoadedAllexes
  BY <1>2 DEF LoadedAllexes
<1> DEFINE R == ModulesWhere(Refers)
<1>4. R \in SUBSET DOMAIN infos
  BY DEF ModulesWhere
<1> HIDE DEF R
<1>5. Before(R) = R /\ Before(DOMAIN infos) = DOMAIN infos
  BY <1>1, <1>4, AllBefore DEF DataInv
<1>6. mem.first = CRCs(R)
  BY <1>2, <1>5 DEF UsesInv, R
<1>7. out'.modules = Cardinality(R) /\ Cardinality(R) \in Nat /\ Cardinality(mem.first) = Cardinality(R)
  BY <1>1, <1>3, <1>4, <1>6, CountCRCs
<1>8. out'.matching = AllexesWhere(Refers)
  BY <1>1, <1>3, <1>6, MatchingRefers DEF R
<1>9. ASSUME cmd.name = "finddirectuses"
      PROVE  /\ \A n, m \in DOMAIN out'.uses : n < m => out'.uses[n].count >= out'.uses[m].count
             /\ Len(out'.uses) = Cardinality(R)
             /\ NoneTwice => \A i \in R :
                  \E n \in DOMAIN out'.uses :
                     out'.uses[n] = [count |-> Cardinality(Holding(i)), name |-> FileOf(i)]
             /\ \A i \in DOMAIN infos : CallsPrinted(out'.doc, FileOf(i))
  <2>1. out'.doc = mem.doc /\ out'.uses \in MostFrequentFirst(mem.first)
    BY <1>9 DEF UsesReport
  <2>2. PICK order \in [1 .. Cardinality(R) -> mem.first] :
          /\ \A c \in mem.first : \E n \in DOMAIN order : order[n] = c
          /\ \A n, m \in DOMAIN order : n < m => Occurrences(order[n]) >= Occurrences(order[m])
          /\ out'.uses = [n \in DOMAIN order |->
                            [count |-> Occurrences(order[n]), name |-> mem.names[order[n]]]]
    BY <1>7, <2>1 DEF MostFrequentFirst
  <2>3. DOMAIN out'.uses = 1 .. Cardinality(R) /\ DOMAIN order = 1 .. Cardinality(R)
    BY <2>2
  <2>4. \A n \in DOMAIN order :
          out'.uses[n] = [count |-> Occurrences(order[n]), name |-> mem.names[order[n]]]
    BY <2>2
  <2>5. \A n, m \in DOMAIN out'.uses : n < m => out'.uses[n].count >= out'.uses[m].count
    BY <2>2, <2>3, <2>4
  <2>6. Len(out'.uses) = Cardinality(R)
    BY <1>7, <2>2, <2>3, FunctionIsTable
  <2>7. ASSUME NoneTwice, NEW i \in R
        PROVE  \E n \in DOMAIN out'.uses :
                 out'.uses[n] = [count |-> Cardinality(Holding(i)), name |-> FileOf(i)]
    <3>1. i \in DOMAIN infos /\ infos[i].crc \in mem.first
      BY <1>4, <1>6 DEF CRCs
    <3>2. PICK n \in DOMAIN order : order[n] = infos[i].crc
      BY <2>2, <3>1
    <3>3. Occurrences(infos[i].crc) = Cardinality(Holding(i))
      BY <1>3, <2>7, <3>1, OccurrencesOf
    <3>4. mem.names[infos[i].crc] = FileOf(i)
      BY <1>2, <1>5, <3>1 DEF UsesInv
    <3> QED
      BY <2>3, <2>4, <3>2, <3>3, <3>4
  <2>8. ASSUME NEW i \in DOMAIN infos PROVE CallsPrinted(out'.doc, FileOf(i))
    <3>1. FileOf(i) \in Key /\ FileOf(i) \in DOMAIN Content
      BY <1>2, <1>5, ModulesOf DEF ReadInv, DataInv
    <3>2. \A k \in FunctionNamed(Content[FileOf(i)], cmd.arg) :
            Holds(mem.doc, FileOf(i), CallTable(Content[FileOf(i)].funcs[k]))
      BY <1>2, <1>5, <1>9 DEF UsesInv, CallsInv
    <3>3. CallsPrinted(mem.doc, FileOf(i))
      BY <3>1, <3>2, CallTablePrinted
    <3> QED
      BY <2>1, <3>3
  <2> QED
    BY <2>5, <2>6, <2>7, <2>8
<1>10. UsesRight'
  <2>1. ASSUME cmd.name = "finddirectuses", NEW i \in DOMAIN infos
        PROVE  CallsPrinted(out.doc, infos[i].file)'
    BY <1>1, <1>9, <2>1 DEF CallsPrinted, FunctionNamed, FileOf
  <2>2. /\ R' = R /\ AllexesWhere(Refers)' = AllexesWhere(Refers) /\ (NoneTwice' <=> NoneTwice)
        /\ \A i : Holding(i)' = Holding(i)
    BY <1>1, WhereSame DEF R
  <2> QED
    BY <1>1, <1>7, <1>8, <1>9, <2>1, <2>2 DEF UsesRight, FileOf, R
<1> QED
  BY <1>1, <1>2, <1>10 DEF SearchInv, UsesSearches, Early

LEMMA SearchNext ==
  ASSUME SearchInv, OutputInv, PositionInv, DataInv, [AllplayNext]_vars
  PROVE  SearchInv'
<1>0. Scanning /\ IsAtEmit /\ "name" \in DOMAIN cmd
  BY ScansOnly DEF OutputInv, OutputType
<1>1. CASE UNCHANGED commandVars
  BY <1>0, <1>1, SearchRest DEF commandVars
<1>2. CASE LoadFails \/ ModuleFails \/ CloseOutput \/ DiskFull \/ End
  BY <1>0, <1>2, SearchRest DEF LoadFails, ModuleFails, CloseOutput, DiskFull, End, ReadsModules, ioVars
<1>3. CASE ReportStep /\ ~TomlReport
  <2>1. CASE SearchStart
    BY <2>1, SearchStarts DEF DataInv
  <2>2. CASE AsmModule
    BY <2>2, AsmModuleRead DEF DataInv
  <2>3. CASE SearchAborts
    BY <1>0, <2>3, SearchRest DEF SearchAborts, Abort
  <2>4. CASE SearchModule
    BY <2>4, SearchModuleRead
  <2>5. CASE AsmReport
    BY <2>5, AsmReports
  <2>6. CASE UsesReport
    BY <2>6, UsesReports
  <2> QED
    BY <1>3, <2>1, <2>2, <2>3, <2>4, <2>5, <2>6 DEF ReportStep
<1>4. CASE ExportStep \/ GraphStep \/ BundleStep \/ TomlReport
  <2>1. cmd'.name \notin Searches
    BY <1>0, <1>4, NotOfSearch
  <2> QED
    BY <2>1 DEF SearchInv, Searches, UsesSearches
<1> QED
  BY <1>1, <1>2, <1>3, <1>4 DEF AllplayNext, AllplayStep, CommandStep, Others, vars

LEMMA SearchInit ==
  ASSUME CommandInit
  PROVE  SearchInv
<1>1. stage = "scan" /\ mode = Loader(cmd) /\ kept = FALSE
  BY DEF CommandInit
<1> QED
  BY <1>1 DEF SearchInv, Loader, BCScanners, UsesSearches

LEMMA SearchInvariant == AllplaySpec => []SearchInv
<1>1. SearchInv /\ SessionInv /\ [AllplayNext]_vars => SearchInv'
  BY SearchNext DEF SessionInv, ScanInv
<1> QED
  BY <1>1, SearchInit, SessionInvariant, PTL DEF AllplaySpec

(***************************************************************************)
(* asmscan counts every module with assembly once and every allexe that    *)
(* holds one, lists those allexes, and prints the assembly of all modules, *)
(* whatever modules and allexes the database holds.                        *)
(***************************************************************************)
THEOREM AsmIsReported == AllplaySpec => []AsmReported
<1>1. ASSUME SearchInv, PositionInv, Succeeded({"asmscan"}) PROVE AsmRight
  BY <1>1 DEF SearchInv, PositionInv, Succeeded, Searches
<1>2. SearchInv /\ SessionInv => AsmReported
  BY <1>1 DEF AsmReported, SessionInv
<1> QED
  BY <1>2, SearchInvariant, SessionInvariant, PTL

(***************************************************************************)
(* finduses and finddirectuses count and list the modules and the allexes  *)
(* that refer to the symbol, and no others; finddirectuses prints all the  *)
(* calls, and each such module with the number of the allexes that hold    *)
(* it, the most used first.                                                *)
(***************************************************************************)
THEOREM UsesAreReported == AllplaySpec => []UsesReported
<1>1. ASSUME SearchInv, PositionInv, Succeeded({"finduses", "finddirectuses"}) PROVE UsesRight
  BY <1>1 DEF SearchInv, PositionInv, Succeeded, Searches
<1>2. SearchInv /\ SessionInv => UsesReported
  BY <1>1 DEF UsesReported, SessionInv
<1> QED
  BY <1>2, SearchInvariant, SessionInvariant, PTL

-----------------------------------------------------------------------------
(***************************************************************************)
(* The queries of cypher, as a text of clauses.                            *)
(***************************************************************************)
MakesModule(c) == c.clause = "module"

\* The statement of the i-th clause opens with the h-th.
OpensAt(T, h, i) ==
  /\ h \in Nat \ {0} /\ i \in Nat /\ h <= i
  /\ h = 1 \/ T[h - 1] = EndOfStatement
  /\ \A j \in h .. i - 1 : T[j] # EndOfStatement

LEMMA OpeningIs ==
  ASSUME NEW h, NEW i, OpensAt(out.text, h, i)
  PROVE  Opening(i) = h
<1> DEFINE T == out.text
           P(g) == /\ g = 1 \/ T[g - 1] = EndOfStatement
                   /\ \A j \in g .. i - 1 : T[j] # EndOfStatement
<1>1. h \in 1 .. i /\ i \in Nat /\ P(h)
  BY DEF OpensAt
<1>2. ASSUME NEW g \in 1 .. i, NEW k \in 1 .. i, P(g), P(k), g < k PROVE FALSE
  <2>1. k # 1 /\ k - 1 \in g .. i - 1
    BY <1>1, <1>2
  <2>2. T[k - 1] = EndOfStatement /\ T[k - 1] # EndOfStatement
    BY <1>2, <2>1
  <2> QED
    BY <2>2
<1> HIDE DEF P
<1>3. ASSUME NEW g \in 1 .. i, P(g) PROVE g = h
  <2>1. ~(g < h) /\ ~(h < g)
    BY <1>1, <1>2, <1>3
  <2> QED
    BY <1>1, <2>1
<1>4. Opening(i) = CHOOSE g \in 1 .. i : P(g)
  BY Zenon DEF Opening, P
<1>5. \E g \in 1 .. i : P(g)
  BY <1>1
<1>6. (CHOOSE g \in 1 .. i : P(g)) \in 1 .. i /\ P(CHOOSE g \in 1 .. i : P(g))
  BY <1>5, Zenon
<1> QED
  BY <1>3, <1>4, <1>6, Zenon

\* What follows a statement does not change where it opens.
LEMMA OpensLater ==
  ASSUME NEW T, NEW U, NEW n \in Nat, \A i \in 1 .. n : U[i] = T[i],
         NEW h, NEW i \in 1 .. n, OpensAt(T, h, i)
  PROVE  OpensAt(U, h, i)
<1>1. h \in Nat \ {0} /\ i \in Nat /\ h <= i
  BY DEF OpensAt
<1>2. h = 1 \/ (h - 1 \in 1 .. n /\ U[h - 1] = T[h - 1])
  BY <1>1
<1>3. ASSUME NEW j \in h .. i - 1 PROVE U[j] # EndOfStatement
  <2>1. j \in 1 .. n
    BY <1>1
  <2> QED
    BY <2>1 DEF OpensAt
<1> QED
  BY <1>1, <1>2, <1>3 DEF OpensAt

ModuleClauses(T) == {i \in DOMAIN T : MakesModule(T[i])}

\* Statements that create n modules, in batches.
Creating(T, n) ==
  /\ IsTable(T)
  /\ \A i \in DOMAIN T : MakesModule(T[i]) \/ T[i] = EndOfStatement
  /\ \A i \in ModuleClauses(T) : \E h : OpensAt(T, h, i) /\ i - h < BatchSize
  /\ IsFiniteSet(ModuleClauses(T)) /\ Cardinality(ModuleClauses(T)) = n

\* The last idx of them are in a statement that has not ended.
Batched(T, idx, n) ==
  /\ Creating(T, n)
  /\ idx \in Nat /\ idx < BatchSize /\ idx <= Len(T)
  /\ idx # Len(T) => T[Len(T) - idx] = EndOfStatement
  /\ \A j \in Len(T) - idx + 1 .. Len(T) : MakesModule(T[j])

LEMMA NoEnd ==
  ASSUME NEW c, c.clause \in {"module", "match", "contains", "allexe"}
  PROVE  c # EndOfStatement
BY DEF EndOfStatement

LEMMA OneClause ==
  ASSUME NEW c
  PROVE  IsTable(<<c>>) /\ Len(<<c>>) = 1 /\ <<c>>[1] = c /\ DOMAIN <<c>> = 1 .. 1
<1>1. <<c>> \in Seq({c})
  OBVIOUS
<1>2. Len(<<c>>) = 1 /\ <<c>>[1] = c /\ DOMAIN <<c>> = 1 .. 1
  OBVIOUS
<1>3. IsTable(<<c>>)
  BY <1>1, InTable
<1> QED
  BY <1>2, <1>3

LEMMA MoreClauses ==
  ASSUME NEW T, IsTable(T), NEW c
  PROVE  /\ IsTable(T \o <<c>>) /\ Len(T) \in Nat /\ DOMAIN T = 1 .. Len(T)
         /\ Len(T \o <<c>>) = Len(T) + 1 /\ DOMAIN (T \o <<c>>) = 1 .. Len(T) + 1
         /\ \A i \in 1 .. Len(T) : (T \o <<c>>)[i] = T[i]
         /\ (T \o <<c>>)[Len(T) + 1] = c
<1> DEFINE U == T \o <<c>>  e == <<c>>
<1>1. IsTable(e) /\ Len(e) = 1 /\ e[1] = c
  BY OneClause
<1>2. Len(T) \in Nat /\ DOMAIN T = 1 .. Len(T)
  BY TableFacts
<1> HIDE DEF e
<1>3. /\ IsTable(T \o e) /\ Len(T \o e) = Len(T) + 1
      /\ \A i \in 1 .. Len(T) + 1 : (T \o e)[i] = IF i <= Len(T) THEN T[i] ELSE e[i - Len(T)]
  BY <1>1, ConcatTables
<1>4. DOMAIN (T \o e) = 1 .. Len(T) + 1
  BY <1>3, TableFacts
<1>5. \A i \in 1 .. Len(T) : (T \o e)[i] = T[i]
  BY <1>2, <1>3
<1>6. (T \o e)[Len(T) + 1] = c
  BY <1>1, <1>2, <1>3
<1> QED
  BY <1>2, <1>3, <1>4, <1>5, <1>6 DEF e

\* A module is added to the statement.
LEMMA BatchGrows ==
  ASSUME NEW T, NEW idx, NEW n \in Nat, Batched(T, idx, n), NEW c, MakesModule(c)
  PROVE  LET U == T \o <<c>>
         IN  /\ Creating(U, n + 1) /\ Len(U) = Len(T) + 1 /\ Len(T) \in Nat
             /\ idx # Len(T) => U[Len(U) - (idx + 1)] = EndOfStatement
             /\ \A j \in Len(U) - (idx + 1) + 1 .. Len(U) : MakesModule(U[j])
<1> DEFINE U == T \o <<c>>  l == Len(T)
<1>1. /\ IsTable(T) /\ idx \in Nat /\ idx < BatchSize /\ idx <= l
      /\ idx # l => T[l - idx] = EndOfStatement
      /\ \A j \in l - idx + 1 .. l : MakesModule(T[j])
      /\ \A i \in DOMAIN T : MakesModule(T[i]) \/ T[i] = EndOfStatement
      /\ \A i \in ModuleClauses(T) : \E h : OpensAt(T, h, i) /\ i - h < BatchSize
      /\ IsFiniteSet(ModuleClauses(T)) /\ Cardinality(ModuleClauses(T)) = n
  BY DEF Batched, Creating
<1>2. /\ IsTable(U) /\ l \in Nat /\ DOMAIN T = 1 .. l /\ Len(U) = l + 1 /\ DOMAIN U = 1 .. l + 1
      /\ \A i \in 1 .. l : U[i] = T[i]
      /\ U[l + 1] = c
  BY <1>1, MoreClauses
<1> HIDE DEF U, l
<1>3. ASSUME NEW i \in DOMAIN U PROVE MakesModule(U[i]) \/ U[i] = EndOfStatement
  <2>1. i \in DOMAIN T \/ i = l + 1
    BY <1>2
  <2> QED
    BY <1>1, <1>2, <2>1
<1>4. ModuleClauses(U) = ModuleClauses(T) \cup {l + 1} /\ l + 1 \notin ModuleClauses(T)
  BY <1>2 DEF ModuleClauses
<1>5. IsFiniteSet(ModuleClauses(U)) /\ Cardinality(ModuleClauses(U)) = n + 1
  BY <1>1, <1>4, FS_AddElement
<1>6. OpensAt(U, l - idx + 1, l + 1)
  <2>1. l - idx + 1 \in Nat \ {0} /\ l - idx + 1 <= l + 1 /\ (l - idx + 1) - 1 = l - idx /\ (l + 1) - 1 = l
    BY <1>1, <1>2
  <2>2. l - idx + 1 = 1 \/ U[l - idx] = EndOfStatement
    <3>1. idx = l => l - idx + 1 = 1
      BY <1>1, <1>2
    <3>2. idx # l => l - idx \in 1 .. l
      BY <1>1, <1>2
    <3> QED
      BY <1>1, <1>2, <3>1, <3>2
  <2>3. ASSUME NEW j \in l - idx + 1 .. l PROVE U[j] # EndOfStatement
    <3>1. j \in 1 .. l /\ MakesModule(U[j])
      BY <1>1, <1>2
    <3> QED
      BY <3>1, NoEnd DEF MakesModule
  <2> QED
    BY <1>2, <2>1, <2>2, <2>3 DEF OpensAt
<1>7. ASSUME NEW i \in ModuleClauses(U) PROVE \E h : OpensAt(U, h, i) /\ i - h < BatchSize
  <2>1. CASE i = l + 1
    <3>1. (l + 1) - (l - idx + 1) = idx
      BY <1>1, <1>2
    <3> QED
      BY <1>1, <1>6, <2>1, <3>1
  <2>2. CASE i # l + 1
    <3>1. i \in ModuleClauses(T) /\ i \in 1 .. l
      BY <1>2, <1>4, <2>2 DEF ModuleClauses
    <3>2. PICK h : OpensAt(T, h, i) /\ i - h < BatchSize
      BY <1>1, <3>1
    <3>3. OpensAt(U, h, i)
      BY <1>2, <3>1, <3>2, OpensLater
    <3> QED
      BY <3>2, <3>3
  <2> QED
    BY <2>1, <2>2
<1>8. Creating(U, n + 1)
  BY <1>2, <1>3, <1>5, <1>7 DEF Creating
<1>9. ASSUME idx # l PROVE U[Len(U) - (idx + 1)] = EndOfStatement
  <2>1. Len(U) - (idx + 1) = l - idx /\ l - idx \in 1 .. l
    BY <1>1, <1>2, <1>9
  <2> QED
    BY <1>1, <1>2, <1>9, <2>1
<1>10. ASSUME NEW j \in Len(U) - (idx + 1) + 1 .. Len(U) PROVE MakesModule(U[j])
  <2>1. j \in l - idx + 1 .. l + 1
    BY <1>1, <1>2
  <2>2. CASE j = l + 1
    BY <1>2, <2>2
  <2>3. CASE j # l + 1
    <3>1. j \in l - idx + 1 .. l /\ j \in 1 .. l
      BY <1>1, <1>2, <2>1, <2>3
    <3> QED
      BY <1>1, <1>2, <3>1
  <2> QED
    BY <2>2, <2>3
<1> QED
  BY <1>2, <1>8, <1>9, <1>10 DEF U, l

\* The statement ends.
LEMMA BatchEnds ==
  ASSUME NEW T, NEW n \in Nat, Creating(T, n)
  PROVE  LET U == T \o <<EndOfStatement>>
         IN  Creating(U, n) /\ Len(U) = Len(T) + 1 /\ U[Len(U)] = EndOfStatement
<1> DEFINE U == T \o <<EndOfStatement>>  l == Len(T)
<1>1. /\ IsTable(T)
      /\ \A i \in DOMAIN T : MakesModule(T[i]) \/ T[i] = EndOfStatement
      /\ \A i \in ModuleClauses(T) : \E h : OpensAt(T, h, i) /\ i - h < BatchSize
      /\ IsFiniteSet(ModuleClauses(T)) /\ Cardinality(ModuleClauses(T)) = n
  BY DEF Creating
<1>2. /\ IsTable(U) /\ l \in Nat /\ DOMAIN T = 1 .. l /\ Len(U) = l + 1 /\ DOMAIN U = 1 .. l + 1
      /\ \A i \in 1 .. l : U[i] = T[i]
      /\ U[l + 1] = EndOfStatement
  BY <1>1, MoreClauses
<1> HIDE DEF U, l
<1>3. ~MakesModule(EndOfStatement)
  BY NoEnd DEF MakesModule
<1>4. ModuleClauses(U) = ModuleClauses(T)
  BY <1>2, <1>3 DEF ModuleClauses
<1>5. ASSUME NEW i \in ModuleClauses(U) PROVE \E h : OpensAt(U, h, i) /\ i - h < BatchSize
  <2>1. i \in ModuleClauses(T) /\ i \in 1 .. l
    BY <1>2, <1>4 DEF ModuleClauses
  <2>2. PICK h : OpensAt(T, h, i) /\ i - h < BatchSize
    BY <1>1, <2>1
  <2>3. OpensAt(U, h, i)
    BY <1>2, <2>1, <2>2, OpensLater
  <2> QED
    BY <2>2, <2>3
<1>6. ASSUME NEW i \in DOMAIN U PROVE MakesModule(U[i]) \/ U[i] = EndOfStatement
  <2>1. i \in DOMAIN T \/ i = l + 1
    BY <1>2
  <2> QED
    BY <1>1, <1>2, <2>1
<1>7. Creating(U, n)
  BY <1>1, <1>2, <1>4, <1>5, <1>6 DEF Creating
<1> QED
  BY <1>2, <1>7 DEF U, l

LEMMA TablesFlattened ==
  ASSUME NEW n \in Nat, NEW ss, ss = [i \in 1 .. n |-> ss[i]], \A i \in 1 .. n : IsTable(ss[i])
  PROVE  Initial(ss, n) = ss /\ \E off : Placed(ss, n, off)
<1> DEFINE X == UNION {Values(ss[i]) : i \in 1 .. n}
<1>1. ASSUME NEW i \in 1 .. n PROVE ss[i] \in Seq(X)
  <2>1. Values(ss[i]) \subseteq X
    OBVIOUS
  <2>2. ss[i] \in Seq(Values(ss[i]))
    BY DEF IsTable
  <2> HIDE DEF X
  <2> QED
    BY <2>1, <2>2, SeqMonotonic
<1> HIDE DEF X
<1>2. ss \in [1 .. n -> Seq(X)]
  BY <1>1
<1> QED
  BY <1>2, FlattenPlaces

(***************************************************************************)
(* The statement of an allexe.                                             *)
(***************************************************************************)
Relates(s, A) ==
  LET m == Len(A.modules)
  IN  /\ m \in Nat /\ Len(s) = m + 2
      /\ s[1].clause = "match" /\ s[1].path = Short[A.file]
      /\ \A j \in 1 .. m : /\ s[j + 1].clause = "contains" /\ s[j + 1].index = j - 1
                           /\ s[j + 1].crc = A.modules[j].crc
      /\ s[m + 2] = EndOfStatement

LEMMA RelateFacts ==
  ASSUME NEW A \in AllexeType
  PROVE  IsTable(Relate(A)) /\ Relates(Relate(A), A)
<1> DEFINE m == Len(A.modules)
           f == [clause |-> "match", path |-> Short[A.file]]
           l == [i \in 1 .. m |-> [clause |-> "contains", index |-> i - 1, crc |-> A.modules[i].crc]]
           w == <<f>> \o l
           t == w \o <<EndOfStatement>>
<1>1. m \in Nat /\ DOMAIN A.modules = 1 .. m
  BY LenProperties DEF AllexeType
<1>2. Relate(A) = t
  BY <1>1 DEF Relate
<1>3. IsTable(l) /\ Len(l) = m
  <2>1. l \in [1 .. m -> {l[i] : i \in 1 .. m}]
    OBVIOUS
  <2> HIDE DEF l, m
  <2> QED
    BY <1>1, <2>1, FunctionIsTable
<1>4. \A j \in 1 .. m : /\ l[j].clause = "contains" /\ l[j].index = j - 1
                        /\ l[j].crc = A.modules[j].crc
  OBVIOUS
<1>5. f.clause = "match" /\ f.path = Short[A.file]
  OBVIOUS
<1>6. IsTable(<<f>>) /\ Len(<<f>>) = 1 /\ <<f>>[1] = f
  BY OneClause
<1> DEFINE e == <<f>>
<1> HIDE DEF l, f, m
<1>7. /\ IsTable(w) /\ Len(w) = 1 + m
      /\ \A i \in 1 .. 1 + m : w[i] = IF i <= 1 THEN e[i] ELSE l[i - 1]
  <2> HIDE DEF e
  <2>1. IsTable(e) /\ Len(e) = 1 /\ w = e \o l
    BY <1>6 DEF e
  <2> HIDE DEF w
  <2>2. /\ IsTable(e \o l) /\ Len(e \o l) = Len(e) + Len(l)
        /\ \A i \in 1 .. Len(e) + Len(l) : (e \o l)[i] = IF i <= Len(e) THEN e[i] ELSE l[i - Len(e)]
    BY <1>3, <2>1, ConcatTables
  <2> QED
    BY <1>1, <1>3, <2>1, <2>2
<1>8. w[1] = f
  BY <1>1, <1>6, <1>7
<1>9. ASSUME NEW j \in 1 .. m PROVE w[j + 1] = l[j]
  <2>1. j + 1 \in 1 .. 1 + m /\ ~(j + 1 <= 1) /\ (j + 1) - 1 = j
    BY <1>1
  <2> HIDE DEF w
  <2> QED
    BY <1>7, <2>1
<1> HIDE DEF w, e
<1>10. /\ IsTable(t) /\ Len(t) = Len(w) + 1
       /\ \A i \in 1 .. Len(w) : t[i] = w[i]
       /\ t[Len(w) + 1] = EndOfStatement
  <2>1. IsTable(w)
    BY <1>7
  <2> DEFINE x == EndOfStatement
  <2> HIDE DEF x
  <2>2. /\ IsTable(w \o <<x>>) /\ Len(w \o <<x>>) = Len(w) + 1
        /\ \A i \in 1 .. Len(w) : (w \o <<x>>)[i] = w[i]
        /\ (w \o <<x>>)[Len(w) + 1] = x
    BY <2>1, MoreClauses
  <2> QED
    BY <2>2 DEF x
<1> HIDE DEF t
<1>11. Len(t) = m + 2 /\ Len(w) + 1 = m + 2
  BY <1>1, <1>7, <1>10
<1>12. t[1] = f /\ t[m + 2] = EndOfStatement
  BY <1>1, <1>7, <1>8, <1>10, <1>11
<1>13. \A j \in 1 .. m : t[j + 1] = l[j]
  BY <1>1, <1>7, <1>9, <1>10
<1>14. Relates(t, A)
  BY <1>1, <1>4, <1>5, <1>11, <1>12, <1>13, Zenon DEF Relates, m
<1> QED
  BY <1>2, <1>10, <1>14

(***************************************************************************)
(* The whole text: the first p clauses create the modules, the next ones   *)
(* the allexes, and the statement of the a-th allexe follows after off[a]. *)
(***************************************************************************)
CreatesModules(F, p) ==
  /\ \A i \in 1 .. p : MakesModule(F[i]) \/ F[i] = EndOfStatement
  /\ \A i \in {i \in 1 .. p : MakesModule(F[i])} : \E h : OpensAt(F, h, i) /\ i - h < BatchSize
  /\ Cardinality({i \in 1 .. p : MakesModule(F[i])}) = Len(infos)

CreatesAllexes(F, p) ==
  \A a \in 1 .. Len(allexes) : F[p + a].clause = "allexe" /\ F[p + a].path = Short[allexes[a].file]

RelatesAllexes(F, q, off) ==
  /\ off \in [1 .. Len(allexes) + 1 -> Nat] /\ off[1] = 0
  /\ Len(F) = q + off[Len(allexes) + 1]
  /\ \A a \in 1 .. Len(allexes) :
       LET m == Len(allexes[a].modules)
           s == q + off[a]
       IN  /\ m \in Nat /\ off[a + 1] = off[a] + (m + 2) /\ s + (m + 2) <= Len(F)
           /\ F[s + 1].clause = "match" /\ F[s + 1].path = Short[allexes[a].file]
           /\ \A j \in 1 .. m : /\ F[s + (j + 1)].clause = "contains" /\ F[s + (j + 1)].index = j - 1
                                /\ F[s + (j + 1)].crc = allexes[a].modules[j].crc
           /\ F[s + (m + 2)] = EndOfStatement
  /\ \A i \in q + 1 .. Len(F) :
       \E a \in 1 .. Len(allexes) : \E j \in 1 .. Len(allexes[a].modules) + 2 : i = (q + off[a]) + j

Described(F, p, off) ==
  /\ IsTable(F) /\ p \in Nat
  /\ CreatesModules(F, p)
  /\ CreatesAllexes(F, p)
  /\ F[(p + Len(allexes)) + 1] = EndOfStatement
  /\ RelatesAllexes(F, (p + Len(allexes)) + 1, off)

LEMMA ConcatPlaces ==
  ASSUME NEW s, NEW t, IsTable(s), IsTable(t)
  PROVE  /\ IsTable(s \o t) /\ Len(s) \in Nat /\ Len(t) \in Nat /\ Len(s \o t) = Len(s) + Len(t)
         /\ \A i \in 1 .. Len(s) : (s \o t)[i] = s[i]
         /\ \A j \in 1 .. Len(t) : (s \o t)[Len(s) + j] = t[j]
<1>1. /\ IsTable(s \o t) /\ Len(s \o t) = Len(s) + Len(t)
      /\ \A i \in 1 .. Len(s) + Len(t) : (s \o t)[i] = IF i <= Len(s) THEN s[i] ELSE t[i - Len(s)]
  BY ConcatTables
<1>2. Len(s) \in Nat /\ Len(t) \in Nat
  BY TableFacts
<1>3. \A i \in 1 .. Len(s) : (s \o t)[i] = s[i]
  BY <1>1, <1>2
<1>4. ASSUME NEW j \in 1 .. Len(t) PROVE (s \o t)[Len(s) + j] = t[j]
  <2>1. Len(s) + j \in 1 .. Len(s) + Len(t) /\ ~(Len(s) + j <= Len(s)) /\ (Len(s) + j) - Len(s) = j
    BY <1>2
  <2> QED
    BY <1>1, <2>1
<1> QED
  BY <1>1, <1>2, <1>3, <1>4

\* The last batch ends, if it was begun.
LEMMA BatchesEnd ==
  ASSUME NEW T, NEW idx, NEW n \in Nat, Batched(T, idx, n)
  PROVE  Creating(T \o (IF idx # 0 THEN <<EndOfStatement>> ELSE <<>>), n)
<1>1. Creating(T, n) /\ IsTable(T)
  BY DEF Batched, Creating
<1>2. CASE idx # 0
  BY <1>1, <1>2, BatchEnds
<1>3. CASE idx = 0
  <2>1. T \o <<>> = T
    BY <1>1, ConcatEmptySeq DEF IsTable
  <2> QED
    BY <1>1, <1>3, <2>1
<1> QED
  BY <1>2, <1>3

LEMMA CreatedThen ==
  ASSUME NEW T, NEW F, Creating(T, Len(infos)), \A i \in 1 .. Len(T) : F[i] = T[i]
  PROVE  CreatesModules(F, Len(T))
<1> DEFINE l == Len(T)
<1>1. l \in Nat /\ DOMAIN T = 1 .. l
  BY TableFacts DEF Creating
<1> HIDE DEF l
<1>2. \A i \in 1 .. l : F[i] = T[i]
  BY DEF l
<1>3. {i \in 1 .. l : MakesModule(F[i])} = ModuleClauses(T)
  BY <1>1, <1>2 DEF ModuleClauses
<1>4. \A i \in 1 .. l : MakesModule(F[i]) \/ F[i] = EndOfStatement
  BY <1>1, <1>2 DEF Creating
<1>5. ASSUME NEW i \in {i \in 1 .. l : MakesModule(F[i])} PROVE \E h : OpensAt(F, h, i) /\ i - h < BatchSize
  <2>1. i \in ModuleClauses(T) /\ i \in 1 .. l
    BY <1>3
  <2>2. PICK h : OpensAt(T, h, i) /\ i - h < BatchSize
    BY <2>1 DEF Creating
  <2>3. OpensAt(F, h, i)
    BY <1>1, <1>2, <2>1, <2>2, OpensLater
  <2> QED
    BY <2>2, <2>3
<1>6. Cardinality({i \in 1 .. l : MakesModule(F[i])}) = Len(infos)
  BY <1>3 DEF Creating
<1> QED
  BY <1>4, <1>5, <1>6 DEF CreatesModules, l

AllexeClauses == [i \in DOMAIN allexes |-> [clause |-> "allexe", path |-> Short[allexes[i].file]]]

RelateClauses == FlattenSeq([i \in DOMAIN allexes |-> Relate(allexes[i])])

LEMMA AllexeClausesFacts ==
  ASSUME DataInv
  PROVE  /\ IsTable(AllexeClauses) /\ Len(AllexeClauses) = Len(allexes)
         /\ \A a \in 1 .. Len(allexes) :
              AllexeClauses[a].clause = "allexe" /\ AllexeClauses[a].path = Short[allexes[a].file]
<1>1. Len(allexes) \in Nat /\ DOMAIN allexes = 1 .. Len(allexes)
  BY LenProperties DEF DataInv, DataType
<1>2. AllexeClauses \in [1 .. Len(allexes) -> {AllexeClauses[a] : a \in 1 .. Len(allexes)}]
  <2>1. AllexeClauses = [a \in 1 .. Len(allexes) |-> AllexeClauses[a]]
    BY <1>1 DEF AllexeClauses
  <2> QED
    BY <2>1
<1>3. IsTable(AllexeClauses) /\ Len(AllexeClauses) = Len(allexes)
  BY <1>1, <1>2, FunctionIsTable
<1>4. \A a \in 1 .. Len(allexes) :
        AllexeClauses[a].clause = "allexe" /\ AllexeClauses[a].path = Short[allexes[a].file]
  BY <1>1 DEF AllexeClauses
<1> QED
  BY <1>3, <1>4

\* Where the statements are among themselves.
LEMMA RelateClausesFacts ==
  ASSUME DataInv
  PROVE  /\ IsTable(RelateClauses)
         /\ \E off : RelatesAllexes(RelateClauses, 0, off)
<1> DEFINE n == Len(allexes)
           ss == [i \in 1 .. n |-> Relate(allexes[i])]
           R == RelateClauses
<1>1. n \in Nat /\ DOMAIN allexes = 1 .. n
  BY LenProperties DEF DataInv, DataType
<1>2. ASSUME NEW a \in 1 .. n PROVE allexes[a] \in AllexeType
  BY <1>1, ElementOfSeq DEF DataInv, DataType
<1>3. ASSUME NEW a \in 1 .. n PROVE ss[a] = Relate(allexes[a])
  OBVIOUS
<1>4. ASSUME NEW a \in 1 .. n PROVE IsTable(ss[a]) /\ Relates(ss[a], allexes[a])
  BY <1>2, <1>3, RelateFacts
<1>5. ss = [i \in 1 .. n |-> ss[i]]
  OBVIOUS
<1>6. R = FlattenSeq(ss)
  BY <1>1 DEF RelateClauses
<1> HIDE DEF ss, R
<1>7. Initial(ss, n) = ss /\ \E off : Placed(ss, n, off)
  BY <1>1, <1>4, <1>5, TablesFlattened
<1> HIDE DEF n
<1>8. PICK off : Placed(ss, n, off)
  BY <1>7
<1>9. /\ off \in [1 .. n + 1 -> Nat] /\ off[1] = 0
      /\ \A a \in 1 .. n : off[a + 1] = off[a] + Len(ss[a])
      /\ IsTable(R) /\ Len(R) = off[n + 1]
      /\ \A a \in 1 .. n : \A j \in 1 .. Len(ss[a]) : off[a] + j \in 1 .. Len(R) /\ R[off[a] + j] = ss[a][j]
      /\ \A i \in 1 .. Len(R) : \E a \in 1 .. n : \E j \in 1 .. Len(ss[a]) : i = off[a] + j
  <2>1. FlattenSeq(Initial(ss, n)) = R
    BY <1>6, <1>7
  <2> QED
    BY <1>8, <2>1 DEF Placed
<1>10. ASSUME NEW a \in 1 .. n
       PROVE  LET m == Len(allexes[a].modules)
                  s == 0 + off[a]
              IN  /\ m \in Nat /\ off[a + 1] = off[a] + (m + 2) /\ s + (m + 2) <= Len(R)
                  /\ R[s + 1].clause = "match" /\ R[s + 1].path = Short[allexes[a].file]
                  /\ \A j \in 1 .. m : /\ R[s + (j + 1)].clause = "contains" /\ R[s + (j + 1)].index = j - 1
                                       /\ R[s + (j + 1)].crc = allexes[a].modules[j].crc
                  /\ R[s + (m + 2)] = EndOfStatement
  <2> DEFINE m == Len(allexes[a].modules)  w == ss[a]  o == off[a]
  <2>1. /\ m \in Nat /\ Len(w) = m + 2
        /\ w[1].clause = "match" /\ w[1].path = Short[allexes[a].file]
        /\ \A j \in 1 .. m : /\ w[j + 1].clause = "contains" /\ w[j + 1].index = j - 1
                             /\ w[j + 1].crc = allexes[a].modules[j].crc
        /\ w[m + 2] = EndOfStatement
    BY <1>4 DEF Relates
  <2>2. o \in Nat
    <3>1. a \in 1 .. n + 1
      BY <1>1 DEF n
    <3> QED
      BY <1>9, <3>1
  <2>3. off[a + 1] = o + Len(w) /\ \A j \in 1 .. Len(w) : R[o + j] = w[j]
    BY <1>9
  <2> HIDE DEF m, w, o
  <2>4. 1 \in 1 .. Len(w) /\ m + 2 \in 1 .. Len(w) /\ \A j \in 1 .. m : j + 1 \in 1 .. Len(w)
    BY <2>1
  <2>5. R[o + 1] = w[1] /\ R[o + (m + 2)] = w[m + 2] /\ \A j \in 1 .. m : R[o + (j + 1)] = w[j + 1]
    BY <2>3, <2>4
  <2>6. 0 + o = o
    BY <2>2
  <2>7. off[a + 1] = o + (m + 2)
    BY <2>1, <2>3
  <2>8. /\ m \in Nat /\ off[a + 1] = o + (m + 2) /\ o + (m + 2) <= Len(R)
        /\ R[o + 1].clause = "match" /\ R[o + 1].path = Short[allexes[a].file]
        /\ \A j \in 1 .. m : /\ R[o + (j + 1)].clause = "contains" /\ R[o + (j + 1)].index = j - 1
                             /\ R[o + (j + 1)].crc = allexes[a].modules[j].crc
        /\ R[o + (m + 2)] = EndOfStatement
    <3>1. o + Len(w) \in 1 .. Len(R)
      BY <1>9, <2>1, <2>4 DEF o, w
    <3>2. Len(R) \in Nat
      BY <1>9, TableFacts
    <3> QED
      BY <2>1, <2>5, <2>7, <3>1, <3>2
  <2> QED
    BY <2>6, <2>8 DEF m, o
<1>11. ASSUME NEW i \in 0 + 1 .. Len(R)
       PROVE  \E a \in 1 .. n : \E j \in 1 .. Len(allexes[a].modules) + 2 : i = (0 + off[a]) + j
  <2>1. PICK a \in 1 .. n : \E j \in 1 .. Len(ss[a]) : i = off[a] + j
    BY <1>9
  <2>2. PICK j \in 1 .. Len(ss[a]) : i = off[a] + j
    BY <2>1
  <2>3. Len(ss[a]) = Len(allexes[a].modules) + 2
    BY <1>4 DEF Relates
  <2>4. off[a] \in Nat
    <3>1. a \in 1 .. n + 1
      BY <1>1 DEF n
    <3> QED
      BY <1>9, <3>1
  <2> QED
    BY <2>2, <2>3, <2>4
<1>12. Len(R) = 0 + off[n + 1]
  BY <1>1, <1>9 DEF n
<1>13. RelatesAllexes(R, 0, off)
  BY <1>9, <1>10, <1>11, <1>12 DEF RelatesAllexes, n
<1> QED
  BY <1>9, <1>13 DEF R

LEMMA RelatesShifted ==
  ASSUME DataInv, NEW R, NEW off, RelatesAllexes(R, 0, off), IsTable(R),
         NEW F, NEW q \in Nat, Len(F) = q + Len(R), \A j \in 1 .. Len(R) : F[q + j] = R[j]
  PROVE  RelatesAllexes(F, q, off)
<1> DEFINE n == Len(allexes)  r == Len(R)
<1>1. n \in Nat /\ r \in Nat
  BY TableFacts, LenProperties DEF DataInv, DataType
<1>2. /\ off \in [1 .. n + 1 -> Nat] /\ off[1] = 0 /\ r = 0 + off[n + 1]
      /\ \A i \in 0 + 1 .. r :
           \E a \in 1 .. n : \E j \in 1 .. Len(allexes[a].modules) + 2 : i = (0 + off[a]) + j
  BY DEF RelatesAllexes
<1>3. \A j \in 1 .. r : F[q + j] = R[j]
  OBVIOUS
<1>4. ASSUME NEW a \in 1 .. n PROVE off[a] \in Nat /\ off[a + 1] \in Nat
  <2>1. a \in 1 .. n + 1 /\ a + 1 \in 1 .. n + 1
    BY <1>1
  <2> QED
    BY <1>2, <2>1
<1>5. Len(F) = q + off[n + 1]
  BY <1>1, <1>2
<1>6. ASSUME NEW a \in 1 .. n
      PROVE  LET m == Len(allexes[a].modules)
                 s == q + off[a]
             IN  /\ m \in Nat /\ off[a + 1] = off[a] + (m + 2) /\ s + (m + 2) <= Len(F)
                 /\ F[s + 1].clause = "match" /\ F[s + 1].path = Short[allexes[a].file]
                 /\ \A j \in 1 .. m : /\ F[s + (j + 1)].clause = "contains" /\ F[s + (j + 1)].index = j - 1
                                      /\ F[s + (j + 1)].crc = allexes[a].modules[j].crc
                 /\ F[s + (m + 2)] = EndOfStatement
  <2> DEFINE m == Len(allexes[a].modules)  o == off[a]  s == 0 + o
  <2>1. /\ m \in Nat /\ off[a + 1] = o + (m + 2) /\ s + (m + 2) <= r
        /\ R[s + 1].clause = "match" /\ R[s + 1].path = Short[allexes[a].file]
        /\ \A j \in 1 .. m : /\ R[s + (j + 1)].clause = "contains" /\ R[s + (j + 1)].index = j - 1
                             /\ R[s + (j + 1)].crc = allexes[a].modules[j].crc
        /\ R[s + (m + 2)] = EndOfStatement
    BY DEF RelatesAllexes
  <2>2. o \in Nat /\ s = o
    BY <1>4
  <2> HIDE DEF m, o, s, n, r
  <2>3. ASSUME NEW j \in 1 .. m + 2 PROVE F[(q + o) + j] = R[s + j]
    <3>1. o + j \in 1 .. r /\ s + j = o + j /\ (q + o) + j = q + (o + j)
      BY <1>1, <2>1, <2>2
    <3> QED
      BY <1>3, <3>1
  <2>4. (q + o) + (m + 2) <= q + r
    BY <1>1, <2>1, <2>2
  <2>5. 1 \in 1 .. m + 2 /\ m + 2 \in 1 .. m + 2 /\ \A j \in 1 .. m : j + 1 \in 1 .. m + 2
    BY <2>1
  <2>6. F[(q + o) + 1] = R[s + 1] /\ F[(q + o) + (m + 2)] = R[s + (m + 2)]
    BY <2>3, <2>5
  <2>7. \A j \in 1 .. m : F[(q + o) + (j + 1)] = R[s + (j + 1)]
    BY <2>3, <2>5
  <2>8. Len(F) = q + r
    BY DEF r
  <2>9. /\ m \in Nat /\ off[a + 1] = o + (m + 2) /\ (q + o) + (m + 2) <= Len(F)
        /\ F[(q + o) + 1].clause = "match" /\ F[(q + o) + 1].path = Short[allexes[a].file]
        /\ \A j \in 1 .. m : /\ F[(q + o) + (j + 1)].clause = "contains" /\ F[(q + o) + (j + 1)].index = j - 1
                             /\ F[(q + o) + (j + 1)].crc = allexes[a].modules[j].crc
        /\ F[(q + o) + (m + 2)] = EndOfStatement
    BY <2>1, <2>4, <2>6, <2>7, <2>8
  <2> QED
    BY <2>9 DEF m, o
<1>7. ASSUME NEW i \in q + 1 .. Len(F)
      PROVE  \E a \in 1 .. n : \E j \in 1 .. Len(allexes[a].modules) + 2 : i = (q + off[a]) + j
  <2>1. i - q \in 0 + 1 .. r /\ i = q + (i - q)
    BY <1>1
  <2> DEFINE k == i - q
  <2>2. k \in 0 + 1 .. r /\ i = q + k
    BY <2>1
  <2> HIDE DEF k, n, r
  <2>3. PICK a \in 1 .. n : \E j \in 1 .. Len(allexes[a].modules) + 2 : k = (0 + off[a]) + j
    BY <1>2, <2>2
  <2>4. PICK j \in 1 .. Len(allexes[a].modules) + 2 : k = (0 + off[a]) + j
    BY <2>3
  <2>5. off[a] \in Nat /\ j \in Int
    BY <1>4
  <2> DEFINE o == off[a]
  <2> HIDE DEF o
  <2>6. i = (q + o) + j
    BY <2>2, <2>4, <2>5 DEF o
  <2> QED
    BY <2>6 DEF o
<1> QED
  BY <1>2, <1>5, <1>6, <1>7 DEF RelatesAllexes

(***************************************************************************)
(* The text that cypher leaves.                                            *)
(***************************************************************************)
LEMMA QueriesWritten ==
  ASSUME DataInv, NEW T, NEW idx, Batched(T, idx, Len(infos))
  PROVE  LET end == IF idx # 0 THEN <<EndOfStatement>> ELSE <<>>
         IN  \E p, off : Described(T \o end \o AllexeClauses \o <<EndOfStatement>> \o RelateClauses, p, off)
<1> DEFINE end == IF idx # 0 THEN <<EndOfStatement>> ELSE <<>>
           k == Len(allexes)
           T1 == T \o end
           p == Len(T1)
           T2 == T1 \o AllexeClauses
           T3 == T2 \o <<EndOfStatement>>
           F == T3 \o RelateClauses
           q == (p + k) + 1
<1>1. Len(infos) \in Nat /\ k \in Nat
  BY LenProperties DEF DataInv, DataType
<1>2. Creating(T1, Len(infos))
  BY <1>1, BatchesEnd
<1>3. IsTable(T1)
  BY <1>2 DEF Creating
<1>4. /\ IsTable(AllexeClauses) /\ Len(AllexeClauses) = k
      /\ \A a \in 1 .. k : AllexeClauses[a].clause = "allexe" /\ AllexeClauses[a].path = Short[allexes[a].file]
  BY AllexeClausesFacts
<1> HIDE DEF T1, k
<1>5. /\ IsTable(T2) /\ p \in Nat /\ Len(T2) = p + k
      /\ \A i \in 1 .. p : T2[i] = T1[i]
      /\ \A j \in 1 .. k : T2[p + j] = AllexeClauses[j]
  BY <1>3, <1>4, ConcatPlaces
<1> HIDE DEF T2, p
<1>6. /\ IsTable(T3) /\ Len(T3) = q
      /\ \A i \in 1 .. p + k : T3[i] = T2[i]
      /\ T3[q] = EndOfStatement
  <2> DEFINE x == EndOfStatement
  <2> HIDE DEF x
  <2>1. IsTable(T2)
    BY <1>5
  <2>2. /\ IsTable(T2 \o <<x>>) /\ Len(T2 \o <<x>>) = Len(T2) + 1
        /\ \A i \in 1 .. Len(T2) : (T2 \o <<x>>)[i] = T2[i]
        /\ (T2 \o <<x>>)[Len(T2) + 1] = x
    BY <2>1, MoreClauses
  <2> QED
    BY <1>5, <2>2 DEF x
<1>7. PICK off : RelatesAllexes(RelateClauses, 0, off)
  BY RelateClausesFacts
<1> HIDE DEF T3
<1>8. IsTable(RelateClauses)
  BY RelateClausesFacts
<1>9. /\ IsTable(F) /\ Len(F) = q + Len(RelateClauses)
      /\ \A i \in 1 .. q : F[i] = T3[i]
      /\ \A j \in 1 .. Len(RelateClauses) : F[q + j] = RelateClauses[j]
  BY <1>6, <1>8, ConcatPlaces
<1> HIDE DEF F, q
<1>10. q \in Nat /\ q = (p + k) + 1
  BY <1>1, <1>5 DEF q
<1>11. RelatesAllexes(F, q, off)
  BY <1>7, <1>8, <1>9, <1>10, RelatesShifted
<1>12. \A i \in 1 .. p : F[i] = T1[i]
  BY <1>1, <1>5, <1>6, <1>9, <1>10
<1>13. CreatesModules(F, p)
  BY <1>2, <1>12, CreatedThen DEF p
<1>14. CreatesAllexes(F, p)
  <2>1. ASSUME NEW a \in 1 .. k PROVE F[p + a] = AllexeClauses[a]
    <3>1. p + a \in 1 .. p + k /\ p + a \in 1 .. q
      BY <1>1, <1>5, <1>10
    <3> QED
      BY <1>5, <1>6, <1>9, <3>1
  <2> QED
    BY <1>4, <2>1 DEF CreatesAllexes, k
<1>15. F[(p + k) + 1] = EndOfStatement
  BY <1>1, <1>5, <1>6, <1>9, <1>10
<1>16. Described(F, p, off)
  BY <1>5, <1>9, <1>10, <1>11, <1>13, <1>14, <1>15 DEF Described, k
<1> QED
  BY <1>16 DEF F, T3, T2, T1

(***************************************************************************)
(* The statement of the a-th allexe, after the o-th clause.                *)
(***************************************************************************)
StatementAfter(F, o, a) ==
  LET m == Len(allexes[a].modules)
  IN  /\ o \in Nat \ {0} /\ m \in Nat /\ o + (m + 2) <= Len(F)
      /\ DOMAIN allexes[a].modules = 1 .. m
      /\ F[o] = EndOfStatement
      /\ F[o + 1].clause = "match" /\ F[o + 1].path = Short[allexes[a].file]
      /\ \A j \in 1 .. m : /\ F[o + (j + 1)].clause = "contains" /\ F[o + (j + 1)].index = j - 1
                           /\ F[o + (j + 1)].crc = allexes[a].modules[j].crc
                           /\ OpensAt(F, o + 1, o + (j + 1))
      /\ F[o + (m + 2)] = EndOfStatement

LEMMA StatementFacts ==
  ASSUME DataInv, NEW F, NEW p, NEW off, Described(F, p, off), NEW a \in 1 .. Len(allexes)
  PROVE  StatementAfter(F, ((p + Len(allexes)) + 1) + off[a], a)
<1> DEFINE k == Len(allexes)
           q == (p + k) + 1
           o == q + off[a]
           m == Len(allexes[a].modules)
<1>1. k \in Nat /\ DOMAIN allexes = 1 .. k /\ p \in Nat /\ q \in Nat \ {0}
  BY LenProperties DEF DataInv, DataType, Described
<1>2. RelatesAllexes(F, q, off) /\ F[q] = EndOfStatement
  BY DEF Described
<1> HIDE DEF q
<1>3. /\ off \in [1 .. k + 1 -> Nat] /\ off[1] = 0
      /\ \A b \in 1 .. k : off[b + 1] = off[b] + (Len(allexes[b].modules) + 2)
      /\ \A b \in 1 .. k : F[(q + off[b]) + (Len(allexes[b].modules) + 2)] = EndOfStatement
      /\ \A b \in 1 .. k : Len(allexes[b].modules) \in Nat
  BY <1>2 DEF RelatesAllexes
<1>4. /\ m \in Nat /\ o + (m + 2) <= Len(F)
      /\ F[o + 1].clause = "match" /\ F[o + 1].path = Short[allexes[a].file]
      /\ \A j \in 1 .. m : /\ F[o + (j + 1)].clause = "contains" /\ F[o + (j + 1)].index = j - 1
                           /\ F[o + (j + 1)].crc = allexes[a].modules[j].crc
      /\ F[o + (m + 2)] = EndOfStatement
  BY <1>2 DEF RelatesAllexes
<1>5. \A b \in 1 .. k : off[b] \in Nat
  <2> HIDE DEF k
  <2> SUFFICES ASSUME NEW b \in 1 .. k PROVE off[b] \in Nat
    OBVIOUS
  <2>1. b \in 1 .. k + 1
    BY <1>1
  <2> QED
    BY <1>3, <2>1
<1>6. o \in Nat \ {0}
  BY <1>1, <1>5
<1>7. DOMAIN allexes[a].modules = 1 .. m
  <2>1. allexes[a] \in AllexeType
    BY <1>1, ElementOfSeq DEF DataInv, DataType
  <2> QED
    BY <2>1, LenProperties DEF AllexeType
<1>8. F[o] = EndOfStatement
  <2>1. CASE a = 1
    <3>1. o = q
      BY <1>1, <1>3, <2>1
    <3> QED
      BY <1>2, <3>1
  <2>2. CASE a # 1
    <3> HIDE DEF k, o
    <3>1. PICK b \in 1 .. k : a = b + 1
      <4>1. a - 1 \in 1 .. k /\ a = (a - 1) + 1
        BY <1>1, <2>2 DEF k
      <4> QED
        BY <4>1
    <3>2. off[a] = off[b] + (Len(allexes[b].modules) + 2)
      BY <1>3, <3>1
    <3>3. off[b] \in Nat /\ Len(allexes[b].modules) \in Nat
      BY <1>3, <1>5
    <3>4. o = (q + off[b]) + (Len(allexes[b].modules) + 2)
      BY <1>1, <3>2, <3>3 DEF o
    <3> QED
      BY <1>3, <3>4
  <2> QED
    BY <2>1, <2>2
<1> HIDE DEF o, m
<1>9. ASSUME NEW j \in 1 .. m PROVE OpensAt(F, o + 1, o + (j + 1))
  <2>1. o + 1 \in Nat \ {0} /\ o + (j + 1) \in Nat /\ o + 1 <= o + (j + 1) /\ (o + 1) - 1 = o
    BY <1>4, <1>6
  <2>2. ASSUME NEW i \in o + 1 .. (o + (j + 1)) - 1 PROVE F[i] # EndOfStatement
    <3>1. i \in Int /\ o + 1 <= i /\ i <= o + j
      BY <1>4, <1>6
    <3>2. CASE i = o + 1
      BY <1>4, <3>2, NoEnd
    <3>3. CASE i # o + 1
      <4> DEFINE l == (i - o) - 1
      <4>1. l \in 1 .. m /\ i = o + (l + 1)
        BY <1>4, <1>6, <3>1, <3>3
      <4> HIDE DEF l
      <4>2. F[o + (l + 1)].clause = "contains"
        BY <1>4, <4>1
      <4> QED
        BY <4>1, <4>2, NoEnd
    <3> QED
      BY <3>2, <3>3
  <2> QED
    BY <1>8, <2>1, <2>2 DEF OpensAt
<1>10. StatementAfter(F, o, a)
  BY <1>4, <1>6, <1>7, <1>8, <1>9 DEF StatementAfter, m
<1> QED
  BY <1>10 DEF o, q

(***************************************************************************)
(* The clauses of each kind.                                               *)
(***************************************************************************)
ClausesOf(F, kind) == {i \in DOMAIN F : F[i].clause = kind}

ClausesInOrder(F, p, k, q, off) ==
  /\ p \in Nat /\ k \in Nat /\ Len(F) \in Nat /\ DOMAIN F = 1 .. Len(F) /\ q <= Len(F)
  /\ \A i \in DOMAIN F :
       \/ i \in 1 .. p /\ F[i].clause \in {"module", "end"}
       \/ i \in p + 1 .. p + k /\ F[i].clause = "allexe"
       \/ F[i].clause \in {"match", "end"}
       \/ /\ F[i].clause = "contains"
          /\ \E a \in 1 .. k : \E j \in 1 .. Len(allexes[a].modules) : i = (q + off[a]) + (j + 1)

LEMMA ModulesFirst ==
  ASSUME DataInv, NEW F, NEW p, NEW off, Described(F, p, off)
  PROVE  ClausesInOrder(F, p, Len(allexes), (p + Len(allexes)) + 1, off)
<1> DEFINE k == Len(allexes)
           q == (p + k) + 1
<1>1. p \in Nat /\ k \in Nat /\ Len(F) \in Nat /\ DOMAIN F = 1 .. Len(F)
  BY TableFacts, LenProperties DEF DataInv, DataType, Described
<1>2. /\ CreatesModules(F, p) /\ CreatesAllexes(F, p) /\ F[q] = EndOfStatement
      /\ RelatesAllexes(F, q, off)
  BY DEF Described
<1>3. EndOfStatement.clause = "end"
  BY DEF EndOfStatement
<1>4. ASSUME NEW i \in 1 .. p PROVE F[i].clause \in {"module", "end"}
  BY <1>2, <1>3 DEF CreatesModules, MakesModule
<1>5. ASSUME NEW i \in p + 1 .. p + k PROVE F[i].clause = "allexe"
  <2>1. i - p \in 1 .. k /\ p + (i - p) = i
    BY <1>1
  <2>2. F[p + (i - p)].clause = "allexe"
    BY <1>2, <2>1 DEF CreatesAllexes
  <2> QED
    BY <2>1, <2>2
<1>6. q <= Len(F)
  <2>1. Len(F) = q + off[k + 1] /\ off \in [1 .. k + 1 -> Nat]
    BY <1>2 DEF RelatesAllexes
  <2>2. off[k + 1] \in Nat
    BY <1>1, <2>1
  <2> QED
    BY <1>1, <2>1, <2>2
<1>7. ASSUME NEW i \in q + 1 .. Len(F)
      PROVE  \/ F[i].clause \in {"match", "end"}
             \/ /\ F[i].clause = "contains"
                /\ \E a \in 1 .. k : \E j \in 1 .. Len(allexes[a].modules) : i = (q + off[a]) + (j + 1)
  <2>1. PICK a \in 1 .. k : \E j \in 1 .. Len(allexes[a].modules) + 2 : i = (q + off[a]) + j
    BY <1>2 DEF RelatesAllexes
  <2> DEFINE m == Len(allexes[a].modules)  o == q + off[a]
  <2>2. StatementAfter(F, o, a)
    BY StatementFacts
  <2>3. /\ m \in Nat /\ o \in Nat
        /\ F[o + 1].clause = "match"
        /\ \A j \in 1 .. m : F[o + (j + 1)].clause = "contains"
        /\ F[o + (m + 2)] = EndOfStatement
    BY <2>2 DEF StatementAfter
  <2>4. PICK j \in 1 .. m + 2 : i = o + j
    BY <2>1
  <2> HIDE DEF m, o
  <2>5. CASE j = 1
    BY <2>3, <2>4, <2>5
  <2>6. CASE j = m + 2
    BY <1>3, <2>3, <2>4, <2>6
  <2>7. CASE j # 1 /\ j # m + 2
    <3>1. j - 1 \in 1 .. m /\ (j - 1) + 1 = j
      BY <2>3, <2>7
    <3>2. i = o + ((j - 1) + 1)
      BY <2>4, <3>1
    <3>3. F[i].clause = "contains"
      BY <2>3, <3>1, <3>2
    <3> QED
      BY <3>1, <3>2, <3>3 DEF m, o
  <2> QED
    BY <2>5, <2>6, <2>7
<1>8. ASSUME NEW i \in DOMAIN F PROVE i \in 1 .. p \/ i \in p + 1 .. p + k \/ i = q \/ i \in q + 1 .. Len(F)
  BY <1>1
<1> HIDE DEF q, k
<1>9. ASSUME NEW i \in DOMAIN F
      PROVE  \/ i \in 1 .. p /\ F[i].clause \in {"module", "end"}
             \/ i \in p + 1 .. p + k /\ F[i].clause = "allexe"
             \/ F[i].clause \in {"match", "end"}
             \/ /\ F[i].clause = "contains"
                /\ \E a \in 1 .. k : \E j \in 1 .. Len(allexes[a].modules) : i = (q + off[a]) + (j + 1)
  BY <1>2, <1>3, <1>4, <1>5, <1>7, <1>8
<1>10. ClausesInOrder(F, p, k, q, off)
  BY <1>1, <1>6, <1>9 DEF ClausesInOrder, q
<1> QED
  BY <1>10 DEF q, k

LEMMA KindsOfClauses ==
  ASSUME DataInv, NEW F, NEW p, NEW off, Described(F, p, off)
  PROVE  LET k == Len(allexes)
             q == (p + k) + 1
         IN  /\ ClausesOf(F, "module") = {i \in 1 .. p : MakesModule(F[i])}
             /\ ClausesOf(F, "allexe") = p + 1 .. p + k
             /\ \A i \in ClausesOf(F, "contains") :
                  \E a \in 1 .. k : \E j \in 1 .. Len(allexes[a].modules) : i = (q + off[a]) + (j + 1)
<1> DEFINE k == Len(allexes)
           q == (p + k) + 1
<1> HIDE DEF q
<1>1. /\ p \in Nat /\ k \in Nat /\ Len(F) \in Nat /\ DOMAIN F = 1 .. Len(F) /\ q <= Len(F)
      /\ \A i \in DOMAIN F :
           \/ i \in 1 .. p /\ F[i].clause \in {"module", "end"}
           \/ i \in p + 1 .. p + k /\ F[i].clause = "allexe"
           \/ F[i].clause \in {"match", "end"}
           \/ /\ F[i].clause = "contains"
              /\ \E a \in 1 .. k : \E j \in 1 .. Len(allexes[a].modules) : i = (q + off[a]) + (j + 1)
  <2>1. ClausesInOrder(F, p, k, q, off)
    BY ModulesFirst DEF q
  <2> HIDE DEF k
  <2> QED
    BY <2>1, Zenon DEF ClausesInOrder
<1> USE DEF q
<1>2. \A a \in 1 .. k : F[p + a].clause = "allexe"
  BY DEF Described, CreatesAllexes
<1> HIDE DEF k
<1>3. ASSUME NEW i \in p + 1 .. p + k PROVE F[i].clause = "allexe" /\ i \in DOMAIN F
  <2>1. i - p \in 1 .. k /\ p + (i - p) = i /\ i \in 1 .. Len(F)
    BY <1>1
  <2>2. F[p + (i - p)].clause = "allexe"
    BY <1>2, <2>1
  <2> QED
    BY <1>1, <2>1, <2>2
<1>4. 1 .. p \subseteq DOMAIN F
  BY <1>1
<1> HIDE DEF q
<1>5. ClausesOf(F, "module") = {i \in 1 .. p : MakesModule(F[i])}
  BY <1>1, <1>4 DEF ClausesOf, MakesModule
<1>6. ClausesOf(F, "allexe") = p + 1 .. p + k
  BY <1>1, <1>3 DEF ClausesOf
<1>7. \A i \in ClausesOf(F, "contains") :
        \E a \in 1 .. k : \E j \in 1 .. Len(allexes[a].modules) : i = (q + off[a]) + (j + 1)
  BY <1>1 DEF ClausesOf
<1> QED
  BY <1>5, <1>6, <1>7 DEF k, q

\* The elements between two positions.
LEMMA Between ==
  ASSUME NEW s, NEW p \in Nat, NEW k \in Nat
  PROVE  Selected(s, p + 1 .. p + k) = [n \in 1 .. k |-> s[p + n]]
<1> DEFINE I == p + 1 .. p + k
<1>1. IsFiniteSet(I) /\ Cardinality(I) = k /\ I \in SUBSET Nat
  <2>1. IsFiniteSet(I) /\ Cardinality(I) = IF p + 1 > p + k THEN 0 ELSE (p + k) - (p + 1) + 1
    BY FS_Interval
  <2> HIDE DEF I
  <2>2. Cardinality(I) = k
    BY <2>1
  <2> QED
    BY <2>1, <2>2 DEF I
<1>2. ASSUME NEW n \in 1 .. k PROVE Nth(I, n) = p + n
  <2>1. UpTo(I, p + n) = p + 1 .. p + n /\ p + n \in I
    BY DEF UpTo
  <2>2. Cardinality(p + 1 .. p + n) = IF p + 1 > p + n THEN 0 ELSE (p + n) - (p + 1) + 1
    BY FS_Interval
  <2>3. Cardinality(UpTo(I, p + n)) = n
    <3> HIDE DEF I
    <3> QED
      BY <2>1, <2>2
  <2>4. Nth(I, Cardinality(UpTo(I, p + n))) = p + n
    <3> HIDE DEF I
    <3> QED
      BY <1>1, <2>1, NthOfRank
  <2> QED
    BY <2>3, <2>4
<1> HIDE DEF I
<1>3. Selected(s, I) = [n \in 1 .. k |-> s[p + n]]
  BY <1>1, <1>2 DEF Selected
<1> QED
  BY <1>3 DEF I

LEMMA ExecutedIs ==
  ASSUME DataInv, NEW p, NEW off, Described(out.text, p, off)
  PROVE  /\ Contained \subseteq Executed
         /\ ShortPathsDiffer => Executed \subseteq Contained
<1> DEFINE T == out.text
           k == Len(allexes)
           q == (p + k) + 1
           A == Clauses("allexe")
           I == {i \in DOMAIN T : T[i].clause = "contains"}
           edges(i) == {<<b - 1, T[i].index, T[i].crc>> : b \in {b \in DOMAIN A : A[b].path = T[Opening(i)].path}}
<1>1. DOMAIN allexes = 1 .. k /\ k \in Nat /\ p \in Nat
  BY LenProperties DEF DataInv, DataType, Described
<1>2. DOMAIN A = 1 .. k /\ \A b \in 1 .. k : A[b].path = Short[allexes[b].file]
  <2>1. ClausesOf(T, "allexe") = p + 1 .. p + k
    BY KindsOfClauses
  <2>2. A = Selected(T, p + 1 .. p + k)
    BY <2>1 DEF Clauses, ClausesOf
  <2> HIDE DEF A, k
  <2>3. A = [b \in 1 .. k |-> T[p + b]]
    <3> HIDE DEF T
    <3>1. Selected(T, p + 1 .. p + k) = [n \in 1 .. k |-> T[p + n]]
      BY <1>1, Between
    <3> QED
      BY <2>2, <3>1
  <2>4. \A b \in 1 .. k : T[p + b].path = Short[allexes[b].file]
    BY DEF Described, CreatesAllexes, k
  <2> QED
    BY <2>3, <2>4
<1>3. Executed = UNION {edges(i) : i \in I}
  BY Zenon DEF Executed
<1>4. \A i \in I : \E a \in 1 .. k : \E j \in 1 .. Len(allexes[a].modules) : i = (q + off[a]) + (j + 1)
  BY KindsOfClauses DEF ClausesOf
<1>5. ASSUME NEW a \in 1 .. k, NEW j \in DOMAIN allexes[a].modules
      PROVE  LET i == (q + off[a]) + (j + 1)
             IN  /\ i \in I /\ j \in 1 .. Len(allexes[a].modules)
                 /\ T[i].index = j - 1 /\ T[i].crc = allexes[a].modules[j].crc
                 /\ T[Opening(i)].path = Short[allexes[a].file]
  <2> DEFINE o == q + off[a]  m == Len(allexes[a].modules)  i == o + (j + 1)
  <2>1. StatementAfter(T, o, a)
    BY StatementFacts
  <2>2. /\ o \in Nat \ {0} /\ m \in Nat /\ o + (m + 2) <= Len(T)
        /\ j \in 1 .. m
        /\ T[o + 1].path = Short[allexes[a].file]
        /\ T[i].clause = "contains" /\ T[i].index = j - 1 /\ T[i].crc = allexes[a].modules[j].crc
        /\ OpensAt(T, o + 1, i)
    BY <2>1 DEF StatementAfter
  <2>3. DOMAIN T = 1 .. Len(T) /\ Len(T) \in Nat
    BY TableFacts DEF Described
  <2>4. Opening(i) = o + 1
    BY <2>2, OpeningIs
  <2> HIDE DEF o, m, T
  <2>5. i \in 1 .. Len(T)
    <3>1. o \in Nat \ {0} /\ m \in Nat /\ o + (m + 2) <= Len(T) /\ j \in 1 .. m /\ Len(T) \in Nat
      BY <2>2, <2>3
    <3> QED
      BY <3>1
  <2>6. i \in I
    BY <2>2, <2>3, <2>5
  <2> QED
    BY <2>2, <2>4, <2>6 DEF o, m
<1> HIDE DEF I, A, T
<1>6. ASSUME NEW a \in 1 .. k, NEW j \in DOMAIN allexes[a].modules
      PROVE  /\ (q + off[a]) + (j + 1) \in I
             /\ edges((q + off[a]) + (j + 1)) =
                  {<<b - 1, j - 1, allexes[a].modules[j].crc>> :
                     b \in {b \in 1 .. k : Short[allexes[b].file] = Short[allexes[a].file]}}
  <2> DEFINE i == (q + off[a]) + (j + 1)
  <2>1. /\ i \in I
        /\ T[i].index = j - 1 /\ T[i].crc = allexes[a].modules[j].crc
        /\ T[Opening(i)].path = Short[allexes[a].file]
    BY <1>5
  <2> HIDE DEF i, k
  <2> QED
    BY <1>2, <2>1 DEF i
<1>7. ASSUME NEW x \in Contained PROVE x \in Executed
  <2>1. PICK a \in DOMAIN allexes : \E j \in DOMAIN allexes[a].modules :
               x = <<a - 1, j - 1, allexes[a].modules[j].crc>>
    BY DEF Contained
  <2>2. PICK j \in DOMAIN allexes[a].modules : x = <<a - 1, j - 1, allexes[a].modules[j].crc>>
    BY <2>1
  <2> DEFINE i == (q + off[a]) + (j + 1)
  <2>3. a \in 1 .. k
    BY <1>1
  <2>4. /\ i \in I
        /\ edges(i) = {<<b - 1, j - 1, allexes[a].modules[j].crc>> :
                         b \in {b \in 1 .. k : Short[allexes[b].file] = Short[allexes[a].file]}}
    BY <1>6, <2>3
  <2> HIDE DEF i, edges, k
  <2>5. x \in edges(i)
    BY <2>2, <2>3, <2>4
  <2> QED
    BY <1>3, <2>4, <2>5
<1>8. ASSUME ShortPathsDiffer, NEW x \in Executed PROVE x \in Contained
  <2>1. PICK i \in I : x \in edges(i)
    BY <1>3
  <2>2. PICK a \in 1 .. k : \E j \in 1 .. Len(allexes[a].modules) : i = (q + off[a]) + (j + 1)
    BY <1>4
  <2>3. PICK j \in 1 .. Len(allexes[a].modules) : i = (q + off[a]) + (j + 1)
    BY <2>2
  <2>4. j \in DOMAIN allexes[a].modules
    <3>1. allexes[a] \in AllexeType
      BY <1>1, ElementOfSeq DEF DataInv, DataType
    <3> QED
      BY <3>1, LenProperties DEF AllexeType
  <2> HIDE DEF edges, k
  <2>5. edges(i) = {<<b - 1, j - 1, allexes[a].modules[j].crc>> :
                      b \in {b \in 1 .. k : Short[allexes[b].file] = Short[allexes[a].file]}}
    BY <1>6, <2>3, <2>4
  <2>6. PICK b \in 1 .. k : /\ Short[allexes[b].file] = Short[allexes[a].file]
                            /\ x = <<b - 1, j - 1, allexes[a].modules[j].crc>>
    BY <2>1, <2>5
  <2>7. b = a
    BY <1>1, <1>8, <2>6 DEF ShortPathsDiffer
  <2> QED
    BY <1>1, <2>4, <2>6, <2>7 DEF Contained
<1> QED
  BY <1>7, <1>8

LEMMA DescribedShows ==
  ASSUME DataInv, NEW p, NEW off, Described(out.text, p, off)
  PROVE  /\ Contained \subseteq Executed
         /\ ShortPathsDiffer => Executed = Contained
         /\ Last(out.text) = EndOfStatement
         /\ \A i \in DOMAIN out.text : out.text[i].clause = "module" => i - Opening(i) < BatchSize
         /\ Len(Clauses("module")) = Len(infos)
<1> DEFINE T == out.text
           k == Len(allexes)
           q == (p + k) + 1
           M == {i \in 1 .. p : MakesModule(T[i])}
<1>1. Contained \subseteq Executed /\ (ShortPathsDiffer => Executed \subseteq Contained)
  BY ExecutedIs
<1>2. CreatesModules(T, p) /\ RelatesAllexes(T, q, off) /\ T[q] = EndOfStatement /\ k \in Nat /\ p \in Nat
  BY LenProperties DEF Described, DataInv, DataType
<1>3. Last(T) = EndOfStatement
  <2>1. Len(T) = q + off[k + 1] /\ off[1] = 0
    BY <1>2 DEF RelatesAllexes
  <2>2. CASE k = 0
    <3>1. Len(T) = q
      BY <1>2, <2>1, <2>2
    <3> QED
      BY <1>2, <3>1 DEF Last
  <2>3. CASE k # 0
    <3>1. k \in 1 .. k
      BY <1>2, <2>3
    <3> DEFINE m == Len(allexes[k].modules)
    <3>2. off[k + 1] = off[k] + (m + 2) /\ m \in Nat /\ T[(q + off[k]) + (m + 2)] = EndOfStatement
      BY <1>2, <3>1 DEF RelatesAllexes
    <3>3. off[k] \in Nat
      <4>1. off \in [1 .. k + 1 -> Nat] /\ k \in 1 .. k + 1
        BY <1>2, <3>1 DEF RelatesAllexes
      <4> HIDE DEF k
      <4> QED
        BY <4>1
    <3> DEFINE o == off[k]
    <3> HIDE DEF m, T, k
    <3>4. Len(T) = q + (o + (m + 2)) /\ o \in Nat /\ m \in Nat /\ p \in Nat /\ k \in Nat
      BY <1>2, <2>1, <3>2, <3>3
    <3> HIDE DEF o
    <3>5. Len(T) = (q + o) + (m + 2)
      BY <3>4
    <3> QED
      BY <3>2, <3>5 DEF Last, o
  <2> QED
    BY <2>2, <2>3
<1>4. ClausesOf(T, "module") = M
  BY KindsOfClauses
<1>5. Cardinality(M) = Len(infos) /\ \A i \in M : \E h : OpensAt(T, h, i) /\ i - h < BatchSize
  BY <1>2 DEF CreatesModules
<1>6. ASSUME NEW i \in DOMAIN T, T[i].clause = "module" PROVE i - Opening(i) < BatchSize
  <2>1. i \in M
    BY <1>4, <1>6 DEF ClausesOf
  <2>2. PICK h : OpensAt(T, h, i) /\ i - h < BatchSize
    BY <1>5, <2>1
  <2>3. Opening(i) = h
    BY <2>2, OpeningIs
  <2> QED
    BY <2>2, <2>3
<1>7. Len(Clauses("module")) = Len(infos)
  <2> DEFINE n == Cardinality(M)
  <2>1. n \in Nat
    BY <1>5, LenProperties DEF DataInv, DataType
  <2>2. Clauses("module") = Selected(T, M)
    BY <1>4 DEF Clauses, ClausesOf
  <2> HIDE DEF T, M
  <2>3. Clauses("module") = [j \in 1 .. n |-> T[Nth(M, j)]]
    BY <2>2 DEF Selected
  <2> DEFINE S == [j \in 1 .. n |-> T[Nth(M, j)]]
  <2>4. S \in [1 .. n -> {T[Nth(M, j)] : j \in 1 .. n}]
    OBVIOUS
  <2> HIDE DEF S, n
  <2>5. Len(S) = n
    BY <2>1, <2>4, FunctionIsTable
  <2> QED
    BY <1>5, <2>3, <2>5 DEF S, n
<1> QED
  BY <1>1, <1>3, <1>6, <1>7

-----------------------------------------------------------------------------
(***************************************************************************)
(* cypher: while it names the modules it has created those before next,    *)
(* and a statement that has not ended creates idx of them; what it keeps   *)
(* is the text of the database.                                            *)
(***************************************************************************)
CypherInv ==
  cmd.name = "cypher" =>
    /\ stage = "modules" => pc = "done" /\ ~kept /\ Batched(out.text, mem.idx, next - 1)
    /\ stage \in {"close", "success"} /\ kept => pc = "done" /\ \E p, off : Described(out.text, p, off)

LEMMA TextSame ==
  ASSUME UNCHANGED <<infos, allexes>>
  PROVE  /\ (\E p, off : Described(out.text, p, off))' <=> \E p, off : Described(out'.text, p, off)
         /\ Batched(out.text, mem.idx, next - 1)' <=> Batched(out'.text, mem'.idx, next' - 1)
<1>1. ASSUME NEW p, NEW off PROVE Described(out.text, p, off)' <=> Described(out'.text, p, off)
  BY DEF Described, CreatesModules, CreatesAllexes, RelatesAllexes, OpensAt
<1>2. Batched(out.text, mem.idx, next - 1)' <=> Batched(out'.text, mem'.idx, next' - 1)
  BY DEF Batched, Creating, ModuleClauses, OpensAt
<1> QED
  BY <1>1, <1>2

LEMMA CypherRest ==
  ASSUME CypherInv, Scanning, Quietly
  PROVE  CypherInv'
<1> SUFFICES ASSUME cmd.name = "cypher" PROVE CypherInv'
  BY DEF CypherInv, Quietly
<1>1. pc = "done" => UNCHANGED <<pc, infos, allexes>>
  BY EndedRests
<1>2. UNCHANGED <<cmd, next, mem, out, kept>>
  BY DEF Quietly
<1>3. ASSUME stage' = "modules" PROVE pc' = "done" /\ ~kept' /\ Batched(out.text, mem.idx, next - 1)'
  <2>1. stage = "modules"
    BY <1>3 DEF Quietly
  <2>2. pc = "done" /\ ~kept /\ Batched(out.text, mem.idx, next - 1)
    BY <2>1 DEF CypherInv
  <2>3. UNCHANGED <<pc, infos, allexes>>
    BY <1>1, <2>2
  <2> QED
    BY <1>2, <2>2, <2>3, TextSame
<1>4. ASSUME stage' \in {"close", "success"}, kept'
      PROVE  pc' = "done" /\ (\E p, off : Described(out.text, p, off))'
  <2>1. stage \in {"close", "success"} /\ kept
    BY <1>4 DEF Quietly, CypherInv
  <2>2. pc = "done" /\ \E p, off : Described(out.text, p, off)
    BY <2>1 DEF CypherInv
  <2>3. UNCHANGED <<pc, infos, allexes>>
    BY <1>1, <2>2
  <2> QED
    BY <1>2, <2>2, <2>3, TextSame
<1> QED
  BY <1>3, <1>4 DEF CypherInv

LEMMA CypherOpened ==
  ASSUME CypherInv, OutputInv, PositionInv, DataInv, CypherOpen
  PROVE  CypherInv'
<1>1. /\ stage = "scan" /\ pc = "done" /\ cmd.name = "cypher"
      /\ stage' \in {"modules", "close"}
      /\ mem' = [idx |-> 0] /\ out' = [text |-> <<>>]
      /\ UNCHANGED <<cmd, pc, infos, allexes, next, kept>>
  BY DEF CypherOpen, Loaded, scanVars, dbVars
<1>2. ~kept /\ next = 1
  BY <1>1 DEF OutputInv, KeptInv, KeptOutputs, Early, PositionInv
<1>3. out'.text = <<>> /\ mem'.idx = 0 /\ next' - 1 = 0
  BY <1>1, <1>2
<1>4. Batched(<<>>, 0, 0)
  <2>1. Len(<<>>) = 0 /\ IsTable(<<>>) /\ DOMAIN <<>> = {}
    <3>1. DOMAIN <<>> = {} /\ Len(<<>>) = 0
      OBVIOUS
    <3>2. IsTable(<<>>)
      BY EmptySeq DEF IsTable
    <3> QED
      BY <3>1, <3>2
  <2>2. ModuleClauses(<<>>) = {}
    BY <2>1 DEF ModuleClauses
  <2>3. IsFiniteSet({}) /\ Cardinality({}) = 0
    BY FS_EmptySet
  <2>4. Creating(<<>>, 0)
    BY <2>1, <2>2, <2>3 DEF Creating
  <2> QED
    BY <2>1, <2>4, ExportsAssumption DEF Batched
<1>5. Batched(out.text, mem.idx, next - 1)'
  BY <1>1, <1>3, <1>4, TextSame
<1> QED
  BY <1>1, <1>2, <1>5 DEF CypherInv

LEMMA CypherContinues ==
  ASSUME CypherInv, PositionInv, CypherModule
  PROVE  CypherInv'
<1> DEFINE create == [clause |-> "module", crc |-> infos[next].crc, path |-> Short[infos[next].file]]
           T == out.text
           idx == mem.idx
           n == next - 1
<1>1. /\ stage = "modules" /\ cmd.name = "cypher"
      /\ out' = [text |-> T \o IF Full(idx) THEN <<create, EndOfStatement>> ELSE <<create>>]
      /\ mem' = [idx |-> IF Full(idx) THEN 0 ELSE idx + 1]
      /\ next' = next + 1
      /\ UNCHANGED <<cmd, stage, pc, infos, allexes, kept>>
  BY Zenon DEF CypherModule, scanVars, dbVars, ioVars
<1>2. pc = "done" /\ ~kept /\ Batched(T, idx, n)
  BY <1>1 DEF CypherInv
<1>3. n \in Nat /\ n + 1 = next' - 1
  BY <1>1 DEF PositionInv
<1>4. MakesModule(create)
  BY DEF MakesModule
<1>5. /\ IsTable(T) /\ idx \in Nat /\ idx < BatchSize /\ idx <= Len(T)
  BY <1>2 DEF Batched, Creating
<1> DEFINE U == T \o <<create>>
<1> HIDE DEF create, T, idx, n
<1>6. /\ Creating(U, n + 1) /\ Len(U) = Len(T) + 1 /\ Len(T) \in Nat
      /\ idx # Len(T) => U[Len(U) - (idx + 1)] = EndOfStatement
      /\ \A j \in Len(U) - (idx + 1) + 1 .. Len(U) : MakesModule(U[j])
  BY <1>2, <1>3, <1>4, BatchGrows
<1>7. CASE Full(idx)
  <2> DEFINE x == EndOfStatement
             V == U \o <<x>>
  <2>1. out'.text = T \o <<create, x>> /\ mem'.idx = 0
    BY <1>1, <1>7
  <2> HIDE DEF x
  <2>2. T \o <<create, x>> = V
    <3>1. T \in Seq(Values(T) \cup {create, x})
      BY <1>5, SeqMonotonic DEF IsTable
    <3>2. T \o <<create, x>> = (T \o <<create>>) \o <<x>>
      BY <3>1
    <3> QED
      BY <3>2
  <2> HIDE DEF U
  <2>3. Creating(V, n + 1) /\ Len(V) = Len(U) + 1 /\ V[Len(V)] = EndOfStatement
    BY <1>3, <1>6, BatchEnds DEF x
  <2> HIDE DEF V
  <2>4. Len(V) - 0 = Len(V) /\ 0 <= Len(V) /\ Len(V) - 0 + 1 .. Len(V) = {}
    BY <1>6, <2>3
  <2>5. Batched(V, 0, n + 1)
    BY <2>3, <2>4, ExportsAssumption DEF Batched
  <2>6. Batched(out.text, mem.idx, next - 1)'
    BY <1>1, <1>3, <2>1, <2>2, <2>5, TextSame
  <2> QED
    BY <1>1, <1>2, <2>6 DEF CypherInv
<1>8. CASE ~Full(idx)
  <2>1. out'.text = U /\ mem'.idx = idx + 1
    BY <1>1, <1>8
  <2> HIDE DEF U
  <2>2. idx + 1 \in Nat /\ idx + 1 < BatchSize /\ idx + 1 <= Len(U)
    BY <1>5, <1>6, <1>8, ExportsAssumption DEF Full
  <2>3. idx + 1 # Len(U) => U[Len(U) - (idx + 1)] = EndOfStatement
    BY <1>5, <1>6
  <2>4. Batched(U, idx + 1, n + 1)
    BY <1>6, <2>2, <2>3 DEF Batched
  <2>5. Batched(out.text, mem.idx, next - 1)'
    BY <1>1, <1>3, <2>1, <2>4, TextSame
  <2> QED
    BY <1>1, <1>2, <2>5 DEF CypherInv
<1> QED
  BY <1>7, <1>8

LEMMA CypherFinishes ==
  ASSUME CypherInv, PositionInv, DataInv, CypherFinish
  PROVE  CypherInv'
<1> DEFINE T == out.text
           idx == mem.idx
           end == IF idx # 0 THEN <<EndOfStatement>> ELSE <<>>
<1>1. /\ stage = "modules" /\ cmd.name = "cypher" /\ next > Len(infos)
      /\ out' = [text |-> T \o end \o AllexeClauses \o <<EndOfStatement>> \o RelateClauses]
      /\ stage' = "close"
      /\ UNCHANGED <<cmd, pc, infos, allexes>>
  BY Zenon DEF CypherFinish, ModulesDone, Succeed, scanVars, dbVars, AllexeClauses, RelateClauses
<1>2. pc = "done" /\ Batched(T, idx, next - 1)
  BY <1>1 DEF CypherInv
<1>3. next - 1 = Len(infos)
  <2>1. next <= Len(infos) + 1
    BY <1>1 DEF PositionInv, NoParts, Takers
  <2> QED
    BY <1>1, <2>1, LenProperties DEF PositionInv, DataInv, DataType
<1>4. Batched(T, idx, Len(infos))
  BY <1>2, <1>3
<1>5. \E p, off : Described(T \o end \o AllexeClauses \o <<EndOfStatement>> \o RelateClauses, p, off)
  BY <1>4, QueriesWritten
<1>6. out'.text = T \o end \o AllexeClauses \o <<EndOfStatement>> \o RelateClauses
  BY <1>1
<1> HIDE DEF T, end
<1>7. (\E p, off : Described(out.text, p, off))'
  BY <1>1, <1>5, <1>6, TextSame
<1> QED
  BY <1>1, <1>2, <1>7 DEF CypherInv

CypherCommand == CypherOpen \/ CypherModule \/ CypherFinish

LEMMA NotCypher ==
  ASSUME CommandActs, ~CypherCommand, IsAtEmit, "name" \in DOMAIN cmd
  PROVE  cmd'.name # "cypher"
<1>1. CASE ExportStep
  BY <1>1, Zenon DEF ExportStep, NeoOpen, NeoAborts, NeoModule, NeoAllexe, NeoFinish, CypherCommand,
     Loaded, ReadsModule, ReadsModules, ModulesDone, Neo, Succeed
<1>2. CASE ReportStep
  BY <1>2, Zenon DEF ReportStep, SearchStart, AsmModule, SearchAborts, SearchModule, AsmReport, UsesReport,
     TomlReport, Loaded, ReadsModule, ReadsModules, ModulesDone, Searches, Succeed
<1>3. CASE GraphStep
  BY <1>3, Zenon DEF GraphStep, GraphCommand, HashStart, HashModule, HashSort, HashEmitGraph,
     HashEmitCSV, HashEmitNothing, Loaded, ReadsModule, ReadsModules, ModulesDone, Succeed, IsAtEmit
<1>4. CASE UncombineOutput
  BY <1>4 DEF UncombineOutput
<1>5. CASE BundleStep /\ ~UncombineOutput
  BY <1>5, Zenon DEF BundleStep, CombineStart, CombineModule, CombineWrite, TakeApart, UncombinePart,
     DecomposePart, TakenApart, PrintSource, Loaded, ReadsModule, ReadsModules, ModulesDone, HasPart,
     Takers, Succeed
<1> QED
  BY <1>1, <1>2, <1>3, <1>4, <1>5 DEF CommandActs

LEMMA CypherNext ==
  ASSUME CypherInv, OutputInv, PositionInv, DataInv, [AllplayNext]_vars
  PROVE  CypherInv'
<1>1. Scanning /\ IsAtEmit /\ "name" \in DOMAIN cmd
  BY ScansOnly DEF OutputInv, OutputType
<1>2. CASE ~CommandActs
  BY <1>1, <1>2, QuietSteps, CypherRest
<1>3. CASE CypherCommand
  BY <1>1, <1>3, CypherOpened, CypherContinues, CypherFinishes DEF CypherCommand
<1>4. CASE CommandActs /\ ~CypherCommand
  BY <1>1, <1>4, NotCypher DEF CypherInv
<1> QED
  BY <1>2, <1>3, <1>4

LEMMA CypherInvariant == AllplaySpec => []CypherInv
<1>1. CommandInit => CypherInv
  BY DEF CommandInit, CypherInv
<1>2. CypherInv /\ SessionInv /\ [AllplayNext]_vars => CypherInv'
  BY CypherNext DEF SessionInv, ScanInv
<1> QED
  BY <1>1, <1>2, SessionInvariant, PTL DEF AllplaySpec

(***************************************************************************)
(* The queries of cypher rebuild any database whose allexes differ in      *)
(* their names, miss nothing of the others, and create the modules in      *)
(* batches that all end.                                                   *)
(***************************************************************************)
THEOREM QueriesAreRight == AllplaySpec => []QueriesShowDatabase
<1>1. ASSUME CypherInv, PositionInv, DataInv PROVE QueriesShowDatabase
  <2>1. SUFFICES ASSUME Succeeded({"cypher"}) PROVE QueriesShowDatabase
    BY DEF QueriesShowDatabase
  <2>2. PICK p, off : Described(out.text, p, off)
    BY <1>1, <2>1 DEF CypherInv, PositionInv, Succeeded
  <2> QED
    BY <1>1, <2>2, DescribedShows, Zenon DEF QueriesShowDatabase
<1>2. CypherInv /\ SessionInv => QueriesShowDatabase
  BY <1>1 DEF SessionInv, ScanInv
<1> QED
  BY <1>2, CypherInvariant, SessionInvariant, PTL

-----------------------------------------------------------------------------
(***************************************************************************)
(* combine and uncombine. While combine reads, its buffer holds the        *)
(* modules of the files before next; what it has written is all of them,   *)
(* and what uncombine takes apart after it.                                *)
(***************************************************************************)
BundledParts == [i \in DOMAIN infos |-> Content[infos[i].file].parts]

HasFiles == "files" \in DOMAIN out

RoundInv ==
  /\ cmd.name = "combine" /\ stage = "modules" =>
       /\ pc = "done"
       /\ \A i \in 1 .. next - 1 : infos[i].file \in DOMAIN Content
       /\ mem.buffer = FlattenSeq(Initial(BundledParts, next - 1))
  /\ cmd.name = "combine" /\ kept => pc = "done" /\ out.combined = FlattenSeq(BundledParts)
  /\ cmd.name = "uncombine" /\ stage = "scan" => pc # "done" /\ ~HasFiles
  /\ cmd.name = "uncombine" /\ HasFiles /\ pc = "done" => mem.parts = FlattenSeq(BundledParts)

\* Nothing is scanned for uncombine.
LEMMA UncombineScansNothing ==
  ASSUME [AllplayNext]_vars, IsAtEmit, cmd.name = "uncombine"
  PROVE  UNCHANGED <<pc, infos>>
<1>1. CASE CommandStep
  <2>1. "uncombine" \notin Scans
    BY DEF Scans
  <2> QED
    BY <1>1, <2>1, Zenon DEF CommandStep, LoadFails, ModuleFails, CloseOutput, DiskFull, End, scanVars, dbVars
<1>2. CASE ExportStep \/ ReportStep \/ GraphStep \/ BundleStep
  BY <1>2, ExportSteps, ReportSteps, GraphSteps, BundlesRest
     DEF Starts, Opens, Reads, Continues, Sorts, Emits, Gives, Aborts, Resting, scanVars, dbVars
<1>3. CASE Others \/ UNCHANGED vars
  BY <1>3 DEF Others, Unlink, Vanish, vars, scanVars, dbVars
<1> QED
  BY <1>1, <1>2, <1>3 DEF AllplayNext, AllplayStep

\* What the other commands do leaves this alone: none of them is called with these names.
LEMMA RoundElsewhere ==
  ASSUME cmd'.name \notin {"combine", "uncombine"}
  PROVE  RoundInv'
BY DEF RoundInv

RoundCommand == CombineStart \/ CombineModule \/ CombineWrite \/ TakeApart \/ UncombineOutput
                \/ UncombinePart \/ TakenApart

LEMMA NotRound ==
  ASSUME CommandActs, ~RoundCommand, IsAtEmit
  PROVE  cmd'.name \notin {"combine", "uncombine"}
<1>1. CASE ExportStep
  BY <1>1, Zenon DEF ExportStep, NeoOpen, NeoAborts, NeoModule, NeoAllexe, NeoFinish, CypherOpen,
     CypherModule, CypherFinish, Loaded, ReadsModule, ReadsModules, ModulesDone, Neo, Succeed
<1>2. CASE ReportStep
  BY <1>2, Zenon DEF ReportStep, SearchStart, AsmModule, SearchAborts, SearchModule, AsmReport, UsesReport,
     TomlReport, Loaded, ReadsModule, ReadsModules, ModulesDone, Searches, Succeed
<1>3. CASE GraphStep
  BY <1>3, Zenon DEF GraphStep, GraphCommand, HashStart, HashModule, HashSort, HashEmitGraph,
     HashEmitCSV, HashEmitNothing, Loaded, ReadsModule, ReadsModules, ModulesDone, Succeed, IsAtEmit
<1>4. CASE BundleStep
  BY <1>4, Zenon DEF BundleStep, RoundCommand, DecomposePart, PrintSource, HasPart
<1> QED
  BY <1>1, <1>2, <1>3, <1>4 DEF CommandActs

LEMMA RoundRest ==
  ASSUME RoundInv, OutputInv, PositionInv, [AllplayNext]_vars, Scanning, Quietly
  PROVE  RoundInv'
<1>1. UNCHANGED <<cmd, next, mem, out, kept>> /\ (pc = "done" => UNCHANGED <<pc, infos>>)
  BY EndedRests DEF Quietly
<1>2. BundledParts' = BundledParts \/ infos' # infos
  BY DEF BundledParts
<1>3. CASE cmd.name = "uncombine"
  <2>1. stage' = "scan" => stage = "scan"
    BY DEF Quietly
  <2>2. UNCHANGED <<pc, infos>>
    BY <1>3, UncombineScansNothing DEF OutputInv, OutputType
  <2> QED
    BY <1>1, <1>2, <1>3, <2>1, <2>2 DEF RoundInv, HasFiles, Quietly
<1>4. CASE cmd.name = "combine"
  <2>1. stage' = "modules" => stage = "modules"
    BY DEF Quietly
  <2> QED
    BY <1>1, <1>2, <1>4, <2>1 DEF RoundInv
<1>5. CASE cmd.name \notin {"combine", "uncombine"}
  BY <1>1, <1>5, RoundElsewhere
<1> QED
  BY <1>3, <1>4, <1>5

LEMMA RoundReads ==
  ASSUME RoundInv, OutputInv, PositionInv, DataInv, CombineModule
  PROVE  RoundInv'
<1> DEFINE n == next - 1
<1>1. /\ stage = "modules" /\ cmd.name = "combine" /\ next <= Len(infos) /\ CanLoad(infos[next].file)
      /\ mem' = [buffer |-> mem.buffer \o Content[infos[next].file].parts]
      /\ next' = next + 1 /\ UNCHANGED <<cmd, stage, pc, infos, kept>>
  BY DEF CombineModule, ReadsModule, ReadsModules, scanVars, dbVars, ioVars
<1>2. /\ pc = "done" /\ ~kept
      /\ \A i \in 1 .. n : infos[i].file \in DOMAIN Content
      /\ mem.buffer = FlattenSeq(Initial(BundledParts, n))
  BY <1>1 DEF RoundInv, OutputInv, CombineInv, Early
<1>3. /\ n \in Nat /\ next = n + 1 /\ next' - 1 = n + 1 /\ n + 1 <= Len(infos)
      /\ Len(infos) \in Nat /\ DOMAIN infos = 1 .. Len(infos)
  BY <1>1, LenProperties DEF PositionInv, DataInv, DataType
<1> HIDE DEF n
<1>4. \A i \in 1 .. n + 1 : infos[i].file \in DOMAIN Content
  BY <1>1, <1>2, <1>3 DEF CanLoad
<1>5. \A i \in 1 .. n + 1 : BundledParts[i] \in Seq(STRING)
  BY <1>3, <1>4, CommandAssumption DEF BundledParts, Content_Module
<1>6. FlattenSeq(Initial(BundledParts, n + 1)) = FlattenSeq(Initial(BundledParts, n)) \o BundledParts[n + 1]
  BY <1>3, <1>5, FlattenFirst
<1>7. BundledParts[n + 1] = Content[infos[next].file].parts
  BY <1>3 DEF BundledParts
<1>8. mem'.buffer = FlattenSeq(Initial(BundledParts, n + 1))
  BY <1>1, <1>2, <1>6, <1>7
<1>9. BundledParts' = BundledParts
  BY <1>1 DEF BundledParts
<1>10. (\A i \in 1 .. next - 1 : infos[i].file \in DOMAIN Content)'
  BY <1>1, <1>3, <1>4
<1>11. (mem.buffer = FlattenSeq(Initial(BundledParts, next - 1)))'
  BY <1>3, <1>8, <1>9
<1> QED
  BY <1>1, <1>2, <1>10, <1>11 DEF RoundInv

LEMMA RoundWrites ==
  ASSUME RoundInv, OutputInv, PositionInv, DataInv, CombineWrite
  PROVE  RoundInv'
<1>1. /\ stage = "modules" /\ cmd.name = "combine" /\ next > Len(infos)
      /\ stage' \in {"close", "fatal"} /\ UNCHANGED <<cmd, pc, infos>>
      /\ kept' = kept \/ out' = [combined |-> mem.buffer]
  BY DEF CombineWrite, ModulesDone, Fail, scanVars, dbVars
<1>2. pc = "done" /\ ~kept /\ mem.buffer = FlattenSeq(Initial(BundledParts, next - 1))
  BY <1>1 DEF RoundInv, OutputInv, CombineInv, Early
<1>3. next - 1 = Len(infos) /\ DOMAIN infos = 1 .. Len(infos)
  BY <1>1, LenProperties DEF PositionInv, DataInv, DataType, NoParts, Takers
<1>4. Initial(BundledParts, Len(infos)) = BundledParts
  BY <1>3 DEF Initial, BundledParts
<1>5. mem.buffer = FlattenSeq(BundledParts)
  BY <1>2, <1>3, <1>4
<1>6. BundledParts' = BundledParts
  BY <1>1 DEF BundledParts
<1> QED
  BY <1>1, <1>2, <1>5, <1>6 DEF RoundInv

LEMMA RoundNext ==
  ASSUME RoundInv, OutputInv, PositionInv, DataInv, [AllplayNext]_vars
  PROVE  RoundInv'
<1>1. Scanning /\ IsAtEmit
  BY ScansOnly DEF OutputInv, OutputType
<1>2. CASE ~CommandActs
  BY <1>1, <1>2, QuietSteps, RoundRest
<1>3. CASE CommandActs /\ ~RoundCommand
  BY <1>1, <1>3, NotRound, RoundElsewhere
<1>4. CASE CombineStart
  <2>1. /\ stage = "scan" /\ pc = "done" /\ cmd.name = "combine" /\ mem' = [buffer |-> <<>>]
        /\ UNCHANGED <<cmd, pc, infos, next, kept>>
    BY <1>4 DEF CombineStart, Loaded, scanVars, dbVars, ioVars
  <2>2. ~kept /\ next = 1
    BY <2>1 DEF OutputInv, CombineInv, Early, PositionInv
  <2>3. next' - 1 = 0 /\ 1 .. 0 = {}
    BY <2>1, <2>2
  <2>4. Initial(BundledParts', 0) = <<>>
    BY <2>3 DEF Initial
  <2> QED
    BY <2>1, <2>2, <2>3, <2>4, FlattenNone DEF RoundInv
<1>5. CASE TakeApart
  <2>1. /\ stage = "scan" /\ cmd.name \in Takers /\ UNCHANGED <<cmd, pc, infos>>
        /\ \/ stage' = "modules"
           \/ stage' = "close" /\ UNCHANGED out
    BY <1>5 DEF TakeApart, Fail, scanVars, dbVars
  <2> QED
    BY <2>1 DEF RoundInv, Takers, HasFiles
<1>6. CASE UncombineOutput
  <2>1. /\ cmd.name = "combine" /\ stage = "success" /\ stage' = "modules" /\ UNCHANGED <<pc, infos>>
        /\ cmd' = [cmd EXCEPT !.name = "uncombine", !.arg = "o"] /\ mem' = [parts |-> out.combined]
    BY <1>6 DEF UncombineOutput, Succeeded, scanVars, dbVars
  <2>2. out.combined = FlattenSeq(BundledParts)
    BY <2>1 DEF RoundInv, PositionInv
  <2>3. cmd'.name = "uncombine" /\ BundledParts' = BundledParts
    BY <2>1 DEF OutputInv, OutputType, BundledParts
  <2> QED
    BY <2>1, <2>2, <2>3 DEF RoundInv
<1>7. CASE UncombinePart \/ TakenApart
  <2>1. /\ stage = "modules" /\ cmd.name \in Takers /\ stage' # "scan" /\ UNCHANGED <<cmd, pc, infos, mem>>
        /\ out' = out \/ \E fs : out' = [out EXCEPT !.files = fs]
    <3>1. CASE TakenApart
      BY <3>1 DEF TakenApart, Succeed, scanVars, dbVars
    <3>2. CASE UncombinePart
      BY <3>2 DEF UncombinePart, HasPart, WritePart, Fail, Takers, scanVars, dbVars
    <3> QED
      BY <1>7, <3>1, <3>2
  <2>2. DOMAIN out' = DOMAIN out /\ BundledParts' = BundledParts
    BY <2>1 DEF BundledParts
  <2> QED
    BY <2>1, <2>2 DEF RoundInv, HasFiles, Takers
<1> QED
  BY <1>1, <1>2, <1>3, <1>4, <1>5, <1>6, <1>7, RoundReads, RoundWrites DEF RoundCommand

LEMMA RoundInvariant == AllplaySpec => []RoundInv
<1>1. CommandInit => RoundInv
  BY DEF CommandInit, Init, RoundInv, HasFiles
<1>2. RoundInv /\ SessionInv /\ [AllplayNext]_vars => RoundInv'
  BY RoundNext DEF SessionInv, ScanInv
<1> QED
  BY <1>1, <1>2, SessionInvariant, PTL DEF AllplaySpec

-----------------------------------------------------------------------------
(***************************************************************************)
(* The files of uncombine are the first of the modules it takes apart, and *)
(* those that are not cut short by a full disk are complete. If the names  *)
(* of the numbers below that of the modules differ, each file has the name *)
(* of its number and no other output is touched.                           *)
(***************************************************************************)
Untouched == \A o \in Output \ {"o"} : disk[o] = "old"

IsNamed(o, n) == \E i \in 1 .. n : o = UncombineName(i)

NamesUsed ==
  /\ \A i \in 1 .. Len(out.files) : out.files[i].name = UncombineName(i)
  /\ \A o \in Output \ {"o"} : disk[o] = "complete" <=> IsNamed(o, Len(out.files))
  /\ \A o \in Output \ {"o"} : disk[o] # "old" => IsNamed(o, Len(out.files) + 1)

FilesRight ==
  /\ IsTable(out.files) /\ ~NoParts /\ Len(out.files) <= Len(mem.parts)
  /\ \A i \in 1 .. Len(out.files) : out.files[i].part = mem.parts[i]
  /\ kept => Len(out.files) = Len(mem.parts)
  /\ stage # "fatal" =>
       \A o \in Output : (\E i \in 1 .. Len(out.files) : out.files[i].name = o) => disk[o] = "complete"
  /\ NamesSort => NamesUsed

FilesInv ==
  /\ cmd.name = "combine" => Untouched
  /\ cmd.name = "uncombine" =>
       /\ stage \in Early => ~kept
       /\ stage = "scan" => ~HasFiles /\ Untouched
       /\ stage = "modules" => HasFiles /\ Len(out.files) = next - 1
       /\ HasFiles => FilesRight
       /\ kept => HasFiles

LEMMA FilesElsewhere ==
  ASSUME cmd'.name \notin {"combine", "uncombine"}
  PROVE  FilesInv'
BY DEF FilesInv

LEMMA NamesSame ==
  ASSUME UNCHANGED mem
  PROVE  /\ NamesSort' <=> NamesSort
         /\ \A o, n : IsNamed(o, n)' <=> IsNamed(o, n)
         /\ \A i : UncombineName(i)' = UncombineName(i)
<1>1. ASSUME NEW i PROVE UncombineName(i)' = UncombineName(i)
  BY DEF UncombineName
<1>2. ASSUME NEW o, NEW n PROVE IsNamed(o, n)' <=> IsNamed(o, n)
  BY <1>1 DEF IsNamed
<1>3. NamesSort' <=> NamesSort
  BY <1>1 DEF NamesSort
<1> QED
  BY <1>1, <1>2, <1>3

\* What is left of files when nothing is written.
LEMMA FilesSame ==
  ASSUME FilesRight, UNCHANGED <<disk, mem, out>>, stage = "fatal" => stage' = "fatal",
         kept' => Len(out.files) = Len(mem.parts)
  PROVE  FilesRight'
<1>1. NamesUsed => NamesUsed'
  BY NamesSame DEF NamesUsed
<1>2. NamesSort' <=> NamesSort
  BY NamesSame
<1> QED
  BY <1>1, <1>2 DEF FilesRight, NoParts

LEMMA FilesRest ==
  ASSUME FilesInv, OutputInv, [AllplayNext]_vars, Quietly, ~CommandActs
  PROVE  FilesInv'
<1>1. UNCHANGED <<cmd, next, mem, out, kept>>
  BY DEF Quietly
<1> SUFFICES ASSUME cmd.name \in {"combine", "uncombine"} PROVE FilesInv'
  BY <1>1, FilesElsewhere
<1>2. open = <<>>
  BY DEF OutputInv, OutputType, KeptOutputs, Neo
<1>3. UNCHANGED disk
  <2>1. CASE CommandStep
    BY <1>2, <2>1 DEF CommandStep, LoadFails, ModuleFails, CloseOutput, DiskFull, End, commandVars, ioVars
  <2> QED
    BY <2>1 DEF AllplayNext, AllplayStep, CommandActs, Others, vars, commandVars
<1>4. Untouched => Untouched'
  BY <1>3 DEF Untouched
<1>5. /\ stage = "fatal" => stage' = "fatal"
      /\ stage' \in Early => stage = stage'
  BY DEF Quietly, Early
<1>6. HasFiles' <=> HasFiles
  BY <1>1 DEF HasFiles
<1>7. FilesRight => FilesRight'
  BY <1>1, <1>3, <1>5, FilesSame DEF FilesRight
<1> QED
  BY <1>1, <1>4, <1>5, <1>6, <1>7 DEF FilesInv, Early

LEMMA FilesStart ==
  ASSUME NEW s \in Seq(STRING), stage' # "fatal", UNCHANGED disk, Untouched, ~kept',
         mem' = [parts |-> s], out' = [files |-> <<>>]
  PROVE  FilesRight' /\ HasFiles' /\ Len(out'.files) = 0
<1>1. out'.files = <<>> /\ mem'.parts = s /\ HasFiles' /\ ~NoParts'
  BY DEF HasFiles, NoParts
<1>2. Len(<<>>) = 0 /\ IsTable(<<>>) /\ 1 .. 0 = {} /\ Len(s) \in Nat
  <2>1. IsTable(<<>>)
    BY EmptySeq DEF IsTable
  <2> QED
    BY <2>1, LenProperties
<1>3. \A o \in Output \ {"o"} : disk'[o] = "old"
  BY DEF Untouched
<1>4. NamesUsed'
  BY <1>1, <1>2, <1>3 DEF NamesUsed, IsNamed
<1> QED
  BY <1>1, <1>2, <1>4 DEF FilesRight

\* A file is written: the next one of the modules, under the next name.
LEMMA FilesGrow ==
  ASSUME FilesRight, OutputInv, NEW name, name = UncombineName(next), Len(out.files) = next - 1,
         next \in Nat \ {0}, next <= Len(mem.parts), HasFiles, mem.parts \in Seq(STRING),
         disk' = [disk EXCEPT ![name] = "complete"], stage # "fatal",
         out' = [out EXCEPT !.files = Append(@, [name |-> name, part |-> mem.parts[next]])],
         UNCHANGED <<stage, kept, mem>>, ~kept
  PROVE  FilesRight' /\ HasFiles' /\ Len(out'.files) = next
<1> DEFINE F == out.files
           G == out'.files
           n == Len(F)
           e == [name |-> name, part |-> mem.parts[next]]
<1>1. G = Append(F, e) /\ DOMAIN out' = DOMAIN out
  BY DEF HasFiles
<1>2. e.name = name /\ e.part = mem.parts[next]
  OBVIOUS
<1> HIDE DEF e, G
<1>3. /\ IsTable(G) /\ Len(G) = n + 1 /\ (\A i \in 1 .. n : G[i] = F[i]) /\ G[n + 1] = e
  BY <1>1, AppendToTable DEF FilesRight
<1>4. n \in Nat /\ n + 1 = next /\ 1 .. n + 1 = 1 .. n \cup {n + 1} /\ Len(mem.parts) \in Nat
  BY LenProperties
<1>5. \A o \in Output : disk'[o] = IF o = name THEN "complete" ELSE disk[o]
  BY DEF OutputInv, OutputType
<1> HIDE DEF F, n
<1>6. \A i \in 1 .. n + 1 : G[i].part = mem.parts[i]
  BY <1>2, <1>3, <1>4 DEF FilesRight, F, n
<1>7. ASSUME NEW o \in Output, NEW i \in 1 .. n + 1, G[i].name = o
      PROVE  disk'[o] = "complete"
  <2>1. CASE i = n + 1
    BY <1>2, <1>3, <1>5, <1>7, <2>1
  <2>2. CASE i \in 1 .. n
    <3>1. F[i].name = o
      BY <1>3, <1>7, <2>2
    <3>2. disk[o] = "complete"
      BY <2>2, <3>1 DEF FilesRight, F, n
    <3> QED
      BY <1>5, <3>2
  <2> QED
    BY <1>4, <2>1, <2>2
<1>8. ASSUME NamesSort PROVE NamesUsed'
  <2>1. NamesUsed
    BY <1>8 DEF FilesRight
  <2>2. \A i \in 1 .. n + 1 : G[i].name = UncombineName(i)
    BY <1>2, <1>3, <1>4, <2>1 DEF NamesUsed, F, n
  <2>3. \A o : /\ IsNamed(o, n + 1) <=> IsNamed(o, n) \/ o = name
               /\ IsNamed(o, n + 1) => IsNamed(o, n + 1 + 1)
    <3>1. 1 .. n + 1 \subseteq 1 .. n + 1 + 1
      BY <1>4
    <3> QED
      BY <1>4, <3>1 DEF IsNamed
  <2>4. \A o \in Output \ {"o"} : disk'[o] = "complete" <=> IsNamed(o, n + 1)
    BY <1>5, <2>1, <2>3 DEF NamesUsed, F, n
  <2>5. \A o \in Output \ {"o"} : disk'[o] # "old" => IsNamed(o, n + 1 + 1)
    BY <1>5, <2>1, <2>3 DEF NamesUsed, F, n
  <2>6. Len(out'.files) = n + 1 /\ out'.files = G
    BY <1>3 DEF G
  <2> QED
    BY <2>2, <2>4, <2>5, <2>6, NamesSame DEF NamesUsed
<1>9. NamesSort' => NamesUsed'
  BY <1>8, NamesSame
<1>10. /\ IsTable(out.files)' /\ ~NoParts' /\ ~kept' /\ HasFiles'
       /\ Len(out.files)' = n + 1 /\ n + 1 <= Len(mem'.parts) /\ out'.files = G
  BY <1>1, <1>3, <1>4 DEF G, FilesRight, NoParts, HasFiles
<1> QED
  BY <1>4, <1>6, <1>7, <1>9, <1>10 DEF FilesRight

\* The disk is full: the file that is being written is cut short.
LEMMA FilesCut ==
  ASSUME FilesRight, OutputInv, NEW name, name = UncombineName(next), Len(out.files) = next - 1,
         next \in Nat \ {0}, next <= Len(mem.parts),
         disk' = [disk EXCEPT ![name] = "partial"], stage' = "fatal",
         UNCHANGED <<kept, mem, out>>, ~kept
  PROVE  FilesRight'
<1> DEFINE n == Len(out.files)
<1>1. n \in Nat /\ n + 1 = next /\ 1 .. n + 1 = 1 .. n \cup {n + 1} /\ n + 1 \notin 1 .. n
  OBVIOUS
<1>2. \A o \in Output : disk'[o] = IF o = name THEN "partial" ELSE disk[o]
  BY DEF OutputInv, OutputType
<1>3. ASSUME NamesSort PROVE NamesUsed'
  <2>1. NamesUsed
    BY <1>3 DEF FilesRight
  <2>2. ~IsNamed(name, n) /\ IsNamed(name, n + 1)
    <3>1. next \in 1 .. Len(mem.parts) /\ \A i \in 1 .. n : i \in 1 .. Len(mem.parts) /\ i # next
      BY LenProperties DEF FilesRight
    <3> QED
      BY <1>1, <1>3, <3>1 DEF NamesSort, IsNamed
  <2> HIDE DEF n
  <2>3. \A o \in Output \ {"o"} : disk'[o] = "complete" <=> IsNamed(o, n)
    BY <1>2, <2>1, <2>2 DEF NamesUsed, n
  <2>4. \A o \in Output \ {"o"} : disk'[o] # "old" => IsNamed(o, n + 1)
    BY <1>2, <2>1, <2>2 DEF NamesUsed, n
  <2> QED
    BY <2>1, <2>3, <2>4, NamesSame DEF NamesUsed, n
<1>4. NamesSort' => NamesUsed'
  BY <1>3, NamesSame
<1> QED
  BY <1>4 DEF FilesRight, NoParts

LEMMA FilesPart ==
  ASSUME FilesInv, OutputInv, PositionInv, UncombinePart
  PROVE  FilesInv'
<1> DEFINE name == UncombineName(next)
<1>1. /\ stage = "modules" /\ cmd.name = "uncombine" /\ next <= Len(mem.parts)
      /\ UNCHANGED <<cmd, mem, kept>>
      /\ \/ stage' = "close" /\ UNCHANGED <<next, disk, out>>
         \/ /\ disk' = [disk EXCEPT ![name] = "complete"]
            /\ out' = [out EXCEPT !.files = Append(@, [name |-> name, part |-> mem.parts[next]])]
            /\ next' = next + 1 /\ UNCHANGED stage
         \/ /\ disk' = [disk EXCEPT ![name] = "partial"]
            /\ stage' = "fatal" /\ UNCHANGED out
  BY DEF UncombinePart, HasPart, WritePart, Fail
<1>2. /\ FilesRight /\ HasFiles /\ Len(out.files) = next - 1 /\ ~kept
      /\ next \in Nat \ {0} /\ mem.parts \in Seq(STRING)
  BY <1>1 DEF FilesInv, PositionInv, Early, Takers
<1> HIDE DEF name
<1>3. CASE stage' = "close" /\ UNCHANGED <<next, disk, out>>
  <2>1. FilesRight' /\ HasFiles'
    BY <1>1, <1>2, <1>3, FilesSame DEF HasFiles
  <2> QED
    BY <1>1, <1>3, <2>1 DEF FilesInv, Early
<1>4. CASE /\ disk' = [disk EXCEPT ![name] = "complete"]
           /\ out' = [out EXCEPT !.files = Append(@, [name |-> name, part |-> mem.parts[next]])]
           /\ next' = next + 1 /\ UNCHANGED stage
  <2>1. FilesRight' /\ HasFiles' /\ Len(out'.files) = next
    BY <1>1, <1>2, <1>4, FilesGrow DEF name
  <2>2. next' - 1 = next
    BY <1>2, <1>4
  <2> QED
    BY <1>1, <1>2, <1>4, <2>1, <2>2 DEF FilesInv
<1>5. CASE /\ disk' = [disk EXCEPT ![name] = "partial"]
           /\ stage' = "fatal" /\ UNCHANGED out
  <2>1. FilesRight'
    BY <1>1, <1>2, <1>5, FilesCut DEF name
  <2> QED
    BY <1>1, <1>5, <2>1 DEF FilesInv, Early
<1> QED
  BY <1>1, <1>3, <1>4, <1>5

LEMMA FilesNext ==
  ASSUME FilesInv, OutputInv, PositionInv, [AllplayNext]_vars
  PROVE  FilesInv'
<1>1. IsAtEmit /\ "name" \in DOMAIN cmd
  BY DEF OutputInv, OutputType
<1>2. CASE ~CommandActs
  BY <1>2, QuietSteps, FilesRest
<1>3. CASE CommandActs /\ ~RoundCommand
  BY <1>1, <1>3, NotRound, FilesElsewhere
<1>4. CASE CombineStart \/ CombineModule
  <2>1. cmd.name = "combine" /\ UNCHANGED <<cmd, disk>>
    BY <1>4 DEF CombineStart, CombineModule, Loaded, ReadsModule, ReadsModules, ioVars
  <2> QED
    BY <2>1 DEF FilesInv, Untouched
<1>5. CASE CombineWrite
  <2>1. /\ cmd.name = "combine" /\ UNCHANGED cmd
        /\ disk' = disk \/ \E x : disk' = [disk EXCEPT !["o"] = x]
    BY <1>5 DEF CombineWrite, ModulesDone, Fail
  <2>2. \A o \in Output \ {"o"} : disk'[o] = disk[o]
    BY <2>1 DEF OutputInv, OutputType
  <2> QED
    BY <2>1, <2>2 DEF FilesInv, Untouched
<1>6. CASE TakeApart
  <2>1. CASE cmd.name # "uncombine"
    <3>1. cmd.name = "decompose" /\ UNCHANGED cmd
      BY <1>6, <2>1 DEF TakeApart, Takers
    <3> QED
      BY <3>1, FilesElsewhere
  <2>2. CASE cmd.name = "uncombine"
    <3>1. /\ stage = "scan" /\ UNCHANGED <<cmd, next, disk, kept>>
          /\ \/ stage' = "close" /\ UNCHANGED out
             \/ /\ stage' = "modules" /\ CanLoad(cmd.arg)
                /\ mem' = [parts |-> Content[cmd.arg].parts] /\ out' = [files |-> <<>>]
      BY <1>6, <2>2 DEF TakeApart, Fail
    <3>2. ~HasFiles /\ Untouched /\ ~kept /\ next = 1
      BY <2>2, <3>1 DEF FilesInv, PositionInv, Early
    <3>3. CASE stage' = "close" /\ UNCHANGED out
      BY <2>2, <3>1, <3>2, <3>3 DEF FilesInv, HasFiles, Early
    <3>4. CASE stage' = "modules" /\ CanLoad(cmd.arg)
               /\ mem' = [parts |-> Content[cmd.arg].parts] /\ out' = [files |-> <<>>]
      <4>1. FilesRight' /\ HasFiles' /\ Len(out'.files) = 0
        BY <3>1, <3>2, <3>4, PartsOfFile, FilesStart
      <4>2. next' - 1 = 0
        BY <3>1, <3>2
      <4> QED
        BY <2>2, <3>1, <3>2, <3>4, <4>1, <4>2 DEF FilesInv
    <3> QED
      BY <3>1, <3>3, <3>4
  <2> QED
    BY <2>1, <2>2
<1>7. CASE UncombineOutput
  <2>1. /\ cmd.name = "combine" /\ stage = "success"
        /\ cmd' = [cmd EXCEPT !.name = "uncombine", !.arg = "o"]
        /\ stage' = "modules" /\ next' = 1 /\ kept' = FALSE /\ UNCHANGED disk
        /\ mem' = [parts |-> out.combined] /\ out' = [files |-> <<>>]
    BY <1>7 DEF UncombineOutput, Succeeded
  <2>2. out.combined \in Seq(STRING) /\ Untouched
    BY <2>1 DEF PositionInv, FilesInv
  <2>3. FilesRight' /\ HasFiles' /\ Len(out'.files) = 0
    BY <2>1, <2>2, FilesStart
  <2>4. cmd'.name = "uncombine" /\ next' - 1 = 0
    BY <1>1, <2>1
  <2> QED
    BY <2>1, <2>3, <2>4 DEF FilesInv
<1>8. CASE TakenApart
  <2>1. /\ stage = "modules" /\ cmd.name \in Takers /\ next > Len(mem.parts)
        /\ kept' = TRUE /\ stage' = "close" /\ UNCHANGED <<cmd, next, disk, mem, out>>
    BY <1>8 DEF TakenApart, Succeed
  <2>2. CASE cmd.name = "uncombine"
    <3>1. FilesRight /\ HasFiles /\ Len(out.files) = next - 1
      BY <2>1, <2>2 DEF FilesInv
    <3>2. Len(out.files) = Len(mem.parts)
      <4>1. next \in Nat /\ next <= Len(mem.parts) + 1 /\ Len(mem.parts) \in Nat
        BY <2>1, LenProperties DEF PositionInv
      <4> QED
        BY <2>1, <3>1, <4>1
    <3>3. FilesRight' /\ HasFiles'
      BY <2>1, <3>1, <3>2, FilesSame DEF HasFiles
    <3> QED
      BY <2>1, <2>2, <3>3 DEF FilesInv, Early
  <2>3. CASE cmd.name # "uncombine"
    BY <2>1, <2>3, FilesElsewhere DEF Takers
  <2> QED
    BY <2>2, <2>3
<1> QED
  BY <1>2, <1>3, <1>4, <1>5, <1>6, <1>7, <1>8, FilesPart DEF RoundCommand

LEMMA FilesInvariant == AllplaySpec => []FilesInv
<1>1. CommandInit => FilesInv
  BY DEF CommandInit, FilesInv, HasFiles, Untouched
<1>2. FilesInv /\ SessionInv /\ [AllplayNext]_vars => FilesInv'
  BY FilesNext DEF SessionInv
<1> QED
  BY <1>1, <1>2, SessionInvariant, PTL DEF AllplaySpec

\* The files hold the first of the modules, in order.
LEMMA FilesHold ==
  ASSUME FilesRight, mem.parts \in Seq(STRING)
  PROVE  /\ Len(out.files) \in Nat /\ DOMAIN out.files = 1 .. Len(out.files)
         /\ [i \in DOMAIN out.files |-> out.files[i].part] = SubSeq(mem.parts, 1, Len(out.files))
         /\ kept => [i \in DOMAIN out.files |-> out.files[i].part] = mem.parts
<1> DEFINE n == Len(out.files)
           P == mem.parts
           F == [i \in DOMAIN out.files |-> out.files[i].part]
<1>1. n \in Nat /\ DOMAIN out.files = 1 .. n
  BY TableFacts DEF FilesRight
<1>2. n <= Len(P) /\ \A i \in 1 .. n : F[i] = P[i]
  BY <1>1 DEF FilesRight
<1>3. Len(P) \in Nat /\ DOMAIN P = 1 .. Len(P) /\ P \in [1 .. Len(P) -> STRING]
  BY LenProperties
<1>4. F = SubSeq(P, 1, n)
  <2>1. SubSeq(P, 1, n) = [i \in 1 .. n |-> P[i]]
    <3>1. SubSeq(P, 1, n) = [i \in 1 .. n - 1 + 1 |-> P[i + 1 - 1]]
      BY <1>1, <1>2, <1>3
    <3> QED
      BY <1>1, <3>1
  <2> QED
    BY <1>1, <1>2, <2>1
<1>5. ASSUME kept PROVE F = P
  <2>1. n = Len(P)
    BY <1>5 DEF FilesRight
  <2> QED
    BY <1>1, <1>2, <1>3, <2>1
<1> QED
  BY <1>1, <1>4, <1>5

(***************************************************************************)
(* Uncombining what combine has written gives back the modules of the      *)
(* database, all of them, in order and complete: for every database, and   *)
(* whatever is removed or cannot be created meanwhile.                     *)
(***************************************************************************)
THEOREM UncombineUndoesCombine == AllplaySpec => []UndoesCombine
<1>1. ASSUME RoundInv, FilesInv, PositionInv, OutputInv PROVE UndoesCombine
  <2>1. SUFFICES ASSUME Succeeded({"uncombine"}), pc = "done" PROVE UndoesCombine
    BY DEF UndoesCombine
  <2>2. cmd.name = "uncombine" /\ stage = "success" /\ kept
    BY <1>1, <2>1 DEF Succeeded, PositionInv
  <2>3. FilesRight /\ HasFiles /\ mem.parts = FlattenSeq(BundledParts)
    BY <1>1, <2>1, <2>2 DEF FilesInv, RoundInv
  <2>4. mem.parts \in Seq(STRING)
    BY <1>1, <2>3 DEF FilesRight, PositionInv
  <2>5. /\ [i \in DOMAIN out.files |-> out.files[i].part] = FlattenSeq(BundledParts)
        /\ DOMAIN out.files = 1 .. Len(out.files)
    BY <2>2, <2>3, <2>4, FilesHold
  <2>6. \A o \in Output : (\E i \in DOMAIN out.files : out.files[i].name = o) => disk[o] = "complete"
    BY <2>2, <2>3, <2>5 DEF FilesRight
  <2> QED
    BY <2>5, <2>6 DEF UndoesCombine, BundledParts
<1> QED
  BY <1>1, RoundInvariant, FilesInvariant, SessionInvariant, PTL DEF SessionInv

(***************************************************************************)
(* Where the padded numbers of the modules are names of one length that    *)
(* differ, which no prover here can tell of strings, uncombine leaves the  *)
(* first modules of any input under these names, in order, all but one     *)
(* that is cut short complete, and touches no other output, in whatever    *)
(* way it ends; and it undoes combine.                                     *)
(***************************************************************************)
THEOREM RoundTrips == AllplaySpec => [](NamesSort => RoundTrip)
<1>1. ASSUME FilesInv, PositionInv, OutputInv, NamesSort PROVE UncombinedInOrder
  <2>1. SUFFICES ASSUME Ended, cmd.name = "uncombine", HasFiles PROVE UncombinedInOrder
    BY DEF UncombinedInOrder, HasFiles
  <2> DEFINE name(i) == out.files[i].name
             n == Len(out.files)
             touched == {o \in Output \ {"o"} : disk[o] # "old"}
  <2>2. FilesRight /\ NamesUsed /\ mem.parts \in Seq(STRING)
    BY <1>1, <2>1 DEF FilesInv, FilesRight, PositionInv
  <2>3. /\ n \in Nat /\ DOMAIN out.files = 1 .. n
        /\ [i \in DOMAIN out.files |-> out.files[i].part] = SubSeq(mem.parts, 1, n)
    BY <2>2, FilesHold
  <2>4. stage = "success" => n = Len(mem.parts)
    BY <1>1, <2>2 DEF PositionInv, FilesRight
  <2>5. \A i \in 1 .. n : name(i) = UncombineName(i) /\ i \in 1 .. Len(mem.parts)
    BY <2>2, <2>3, LenProperties DEF NamesUsed, FilesRight
  <2>6. {name(i) : i \in 1 .. n} = {o \in touched : disk[o] = "complete"}
    <3>1. \A i \in 1 .. n : name(i) \in Output \ {"o"} /\ disk[name(i)] = "complete"
      BY <1>1, <2>2, <2>5 DEF NamesSort, NamesUsed, IsNamed
    <3>2. \A o \in Output \ {"o"} : disk[o] = "complete" => \E i \in 1 .. n : o = name(i)
      BY <2>2, <2>5 DEF NamesUsed, IsNamed
    <3> QED
      BY <3>1, <3>2
  <2>7. touched \subseteq {UncombineName(i) : i \in 1 .. n + 1}
    BY <2>2 DEF NamesUsed, IsNamed
  <2> QED
    BY <1>1, <2>3, <2>4, <2>5, <2>6, <2>7 DEF UncombinedInOrder
<1>2. FilesInv /\ SessionInv /\ UndoesCombine => (NamesSort => RoundTrip)
  BY <1>1 DEF SessionInv, RoundTrip
<1> QED
  BY <1>2, FilesInvariant, SessionInvariant, UncombineUndoesCombine, PTL
=============================================================================
