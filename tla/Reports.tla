------------------------------- MODULE Reports -------------------------------
(***************************************************************************)
(* The subcommands that report on the database: asmscan (AsmScan.cpp),     *)
(* finduses (FindUses.cpp), finddirectuses (FindDirectUses.cpp) and toml   *)
(* (TOML.cpp). They print a document (its text is in TomlText) and counts  *)
(* of modules, which they remember by their checksums.                     *)
(***************************************************************************)
EXTENDS Command, Toml, SequencesExt

Searches == {"asmscan", "finduses", "finddirectuses"}

SearchStart ==
  /\ Loaded(Searches)
  /\ stage' = "modules"
  /\ mem' = [doc |-> EmptyTable, first |-> {}, second |-> {}, names |-> [c \in {} |-> ""]]
  /\ UNCHANGED <<scanVars, cmd, next, ioVars, out>>

(***************************************************************************)
(* asmscan on one module: a table for the module, if it has any assembly,  *)
(* with its module-level assembly and, in a table of its own, the inline   *)
(* assembly of each function. mem.first are the modules with module-level  *)
(* assembly, mem.second those with inline assembly.                        *)
(***************************************************************************)
InlineAsm(M) == {i \in DOMAIN M.funcs : M.funcs[i].asm # <<>>}

\* Of functions without a name the last one counts.
InlineTable(M) ==
  LET last(n) == CHOOSE i \in InlineAsm(M) :
                   M.funcs[i].name = n /\ \A j \in InlineAsm(M) : M.funcs[j].name = n => j <= i
  IN  TableOf([n \in {M.funcs[i].name : i \in InlineAsm(M)} |-> MakeArray(M.funcs[last(n)].asm)])

AsmTableEither(M) ==   \* mutant: inline assembly only where there is none at the module's level
  IF M.asm # "" THEN Insert(EmptyTable, "module-level", MakeValue(M.asm))
  ELSE IF IsEmpty(InlineTable(M)) THEN EmptyTable ELSE Insert(EmptyTable, "inline", InlineTable(M))

AsmTable(M) ==
  LET level == IF M.asm = "" THEN EmptyTable ELSE Insert(EmptyTable, "module-level", MakeValue(M.asm))
  IN  IF IsEmpty(InlineTable(M)) THEN level ELSE Insert(level, "inline", InlineTable(M))

AsmModule ==
  /\ ReadsModule({"asmscan"})
  /\ LET MI == infos[next]
         M == Content[MI.file]
     IN  mem' = [mem EXCEPT
           !.doc = IF IsEmpty(AsmTable(M)) THEN @ ELSE Insert(@, MI.file, AsmTable(M)),
           !.first = IF M.asm = "" THEN @ ELSE @ \cup {MI.crc},
           !.second = IF IsEmpty(InlineTable(M)) THEN @ ELSE @ \cup {MI.crc}]
  /\ next' = next + 1
  /\ UNCHANGED <<scanVars, cmd, stage, ioVars, out>>

(***************************************************************************)
(* finduses and finddirectuses on one module, which must not define the    *)
(* symbol, but use it, finddirectuses says only by calls: these are        *)
(* assertions. mem.first are the modules that refer to it.                 *)
(***************************************************************************)
FunctionNamed(M, n) == {i \in DOMAIN M.funcs : M.funcs[i].name = n /\ n # ""}

AddressTaken(F) == \E i \in DOMAIN F.users : F.users[i].kind # "call"

Expected(F) ==
  F.decl /\ F.users # <<>> /\ (cmd.name = "finddirectuses" => ~AddressTaken(F))

\* The users of a function that are instructions, and those in function f.
Calls(F) == {i \in DOMAIN F.users : F.users[i].kind # "constant"}
CallsFrom(F, f) == {i \in Calls(F) : F.users[i].in = f}

CallTableAnew(F) ==   \* mutant: contains is not asked
  LET calls(f) == Selected(F.users, CallsFrom(F, f))
  IN  TableOf([f \in {F.users[i].in : i \in Calls(F)} |-> MakeArray(<<Last(calls(f)).kind>>)])

\* An array for each function with such users.
CallTable(F) ==
  LET calls(f) == Selected(F.users, CallsFrom(F, f))
  IN  TableOf([f \in {F.users[i].in : i \in Calls(F)} |->
                 MakeArray([n \in DOMAIN calls(f) |-> calls(f)[n].kind])])

SearchAborts ==
  /\ ReadsModule({"finduses", "finddirectuses"})
  /\ asserts
  /\ LET M == Content[infos[next].file]
     IN  \E i \in FunctionNamed(M, cmd.arg) : ~Expected(M.funcs[i])
  /\ Abort
  /\ UNCHANGED <<scanVars, cmd, next, kept, mem, out>>

SearchModule ==
  /\ ReadsModule({"finduses", "finddirectuses"})
  /\ LET MI == infos[next]
         M == Content[MI.file]
         found == FunctionNamed(M, cmd.arg)
     IN  /\ asserts => \A i \in found : Expected(M.funcs[i])
         /\ mem' = [mem EXCEPT
              !.names = [c \in DOMAIN @ \cup {MI.crc} |-> IF c = MI.crc THEN MI.file ELSE mem.names[c]],
              !.first = IF found = {} THEN @ ELSE @ \cup {MI.crc},
              !.doc = IF found = {} \/ cmd.name = "finduses" THEN @
                      ELSE Insert(@, MI.file, CallTable(M.funcs[CHOOSE i \in found : TRUE]))]
  /\ next' = next + 1
  /\ UNCHANGED <<scanVars, cmd, stage, ioVars, out>>

-----------------------------------------------------------------------------
(***************************************************************************)
(* What follows the modules: the allexes with such modules, in order; for  *)
(* finddirectuses, how often each such module occurs, most frequent first; *)
(* the document; and the counts.                                           *)
(***************************************************************************)
HasModuleIn(A, crcs) == \E k \in DOMAIN A.modules : A.modules[k].crc \in crcs

Matching(crcs) == Selected(allexes, {a \in DOMAIN allexes : HasModuleIn(allexes[a], crcs)})

\* How often the module with checksum c occurs in allexes.
PlacesOf(c) ==
  UNION {{<<a, k>> : k \in {k \in DOMAIN allexes[a].modules : allexes[a].modules[k].crc = c}} :
         a \in DOMAIN allexes}

Occurrences(c) == Cardinality(PlacesOf(c))

\* The sorted lists; where counts are equal the order is arbitrary.
MostFrequentFirst(crcs) ==
  {[i \in DOMAIN order |-> [count |-> Occurrences(order[i]), name |-> mem.names[order[i]]]] :
     order \in {s \in [1 .. Cardinality(crcs) -> crcs] :
                  /\ \A c \in crcs : \E i \in DOMAIN s : s[i] = c
                  /\ \A i, j \in DOMAIN s : i < j => Occurrences(s[i]) >= Occurrences(s[j])}}

AsmReport ==
  /\ ModulesDone({"asmscan"})
  /\ out' =
       [doc |-> mem.doc,
        matching |-> Matching(mem.first \cup mem.second),
        modules |-> <<Cardinality(mem.first), Cardinality(mem.second)>>,
        allexes |-> <<Len(Matching(mem.first)), Len(Matching(mem.second))>>]
  /\ Succeed

UsesReport ==
  /\ ModulesDone({"finduses", "finddirectuses"})
  /\ LET matching == Matching(mem.first)
         modules == Cardinality(mem.first)
     IN  IF cmd.name = "finduses" THEN out' = [matching |-> matching, modules |-> modules]
         ELSE \E uses \in MostFrequentFirst(mem.first) :
                out' = [matching |-> matching, modules |-> modules, doc |-> mem.doc, uses |-> uses]
  /\ Succeed

(***************************************************************************)
(* toml: the files of the modules of each allexe.                          *)
(***************************************************************************)
TomlReport ==
  /\ Loaded({"toml"})
  /\ LET files(A) == [k \in DOMAIN A.modules |-> A.modules[k].file]
         at(p) == CHOOSE A \in ToSet(allexes) : A.file = p
     IN  out' = [doc |-> TableOf([p \in {A.file : A \in ToSet(allexes)} |-> MakeArray(files(at(p)))])]
  /\ Succeed

ReportStep ==
  \/ SearchStart \/ AsmModule \/ SearchAborts \/ SearchModule
  \/ AsmReport \/ UsesReport \/ TomlReport

-----------------------------------------------------------------------------
ModulesWhere(P(_)) == {i \in DOMAIN infos : P(Content[infos[i].file])}

\* The allexes that hold such a module, looked up in the modules themselves.
AllexesWhere(P(_)) ==
  Selected(allexes, {a \in DOMAIN allexes :
                       \E k \in DOMAIN allexes[a].modules : P(Content[allexes[a].modules[k].file])})

HasLevelAsm(M) == M.asm # ""
HasInlineAsm(M) == InlineAsm(M) # {}
HasAsm(M) == HasLevelAsm(M) \/ HasInlineAsm(M)

AsmPrinted(doc, f) ==
  LET M == Content[f]
      printed(path, item) == path \in DOMAIN doc /\ doc[path] = item
  IN  /\ M.asm # "" => printed(<<f, "module-level">>, [type |-> "string", text |-> M.asm])
      /\ \A k \in InlineAsm(M) : M.funcs[k].name # "" =>
           printed(<<f, "inline", M.funcs[k].name>>, [type |-> "array", items |-> M.funcs[k].asm])

AsmRight ==
  /\ mode = "allexes" =>
       /\ out.modules =
            <<Cardinality(ModulesWhere(HasLevelAsm)), Cardinality(ModulesWhere(HasInlineAsm))>>
       /\ out.allexes = <<Len(AllexesWhere(HasLevelAsm)), Len(AllexesWhere(HasInlineAsm))>>
       /\ out.matching = AllexesWhere(HasAsm)
  /\ \A i \in DOMAIN infos : AsmPrinted(out.doc, infos[i].file)

(***************************************************************************)
(* asmscan of allexes counts each module with assembly of a kind once,     *)
(* counts and lists the allexes that hold one, and prints the assembly of  *)
(* all modules, that of every function with a name complete. (With         *)
(* -bc-scanner all modules have checksum 0, so that its sets of modules    *)
(* have at most one element.)                                              *)
(***************************************************************************)
AsmReported == Succeeded({"asmscan"}) => AsmRight

Refers(M) == FunctionNamed(M, cmd.arg) # {}

NoneTwice ==
  \A i \in DOMAIN allexes : \A k, l \in DOMAIN allexes[i].modules :
     allexes[i].modules[k] = allexes[i].modules[l] => k = l

Holding(i) == {a \in DOMAIN allexes : \E k \in DOMAIN allexes[a].modules : allexes[a].modules[k] = infos[i]}

CallsPrinted(doc, f) ==
  \A i \in FunctionNamed(Content[f], cmd.arg) :
    LET F == Content[f].funcs[i]
    IN  \A u \in Calls(F) :
          Len(doc[<<f, F.users[u].in>>].items) = Cardinality(CallsFrom(F, F.users[u].in))

UsesRight ==
  /\ out.modules = Cardinality(ModulesWhere(Refers))
  /\ out.matching = AllexesWhere(Refers)
  /\ cmd.name = "finddirectuses" =>
       /\ \A n, m \in DOMAIN out.uses : n < m => out.uses[n].count >= out.uses[m].count
       /\ Len(out.uses) = Cardinality(ModulesWhere(Refers))
       /\ NoneTwice => \A i \in ModulesWhere(Refers) :
            \E n \in DOMAIN out.uses :
               out.uses[n] = [count |-> Cardinality(Holding(i)), name |-> infos[i].file]
       /\ \A i \in DOMAIN infos : CallsPrinted(out.doc, infos[i].file)

(***************************************************************************)
(* finduses and finddirectuses count and list exactly the allexes with a   *)
(* module that refers to the symbol. finddirectuses also prints every call *)
(* under its caller, and the modules, the most used first: the number of a *)
(* module is that of its allexes, provided none holds it twice.            *)
(***************************************************************************)
UsesReported == Succeeded({"finduses", "finddirectuses"}) => UsesRight
=============================================================================
