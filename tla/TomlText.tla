------------------------------ MODULE TomlText ------------------------------
(***************************************************************************)
(* The text of the documents that asmscan, finddirectuses and toml print:  *)
(* toml_writer, and the parser of the same header as a reader of what it   *)
(* writes. A text is a sequence of characters. The tabs that indent it are *)
(* left out.                                                               *)
(***************************************************************************)
EXTENDS Reports, SequencesExt

CONSTANT Spell   \* the characters of each name and string

-----------------------------------------------------------------------------
(***************************************************************************)
(* toml_writer. A control character without an escape of its own is        *)
(* written as a hexadecimal number of one or two digits.                   *)
(***************************************************************************)
Letters == {"a", "b", "c", "d", "e", "f", "g", "i", "l", "m", "n", "o", "u", "v", "w", "x", "0", "1", "2", "3", "-", "_"}
ShortEscapes == ("^H" :> "b") @@ ("\t" :> "t") @@ ("\n" :> "n") @@ ("\f" :> "f") @@ ("\r" :> "r")
                  @@ ("\"" :> "\"") @@ ("\\" :> "\\")
Hex == ("^A" :> <<"1">>) @@ ("^P" :> <<"1", "0">>)

EscapeQuoteOnly(c) ==   \* mutant: backslashes are not escaped
  CASE c = "\"" -> <<"\\", "\"">>
    [] OTHER -> <<c>>

EscapeChar(c) ==
  CASE c \in DOMAIN ShortEscapes -> <<"\\", ShortEscapes[c]>>
    [] c \in DOMAIN Hex -> <<"\\", "u">> \o Hex[c]
    [] OTHER -> <<c>>

Escaped(s) == FlattenSeq([i \in DOMAIN s |-> EscapeChar(s[i])])

Quoted(s) == <<"\"">> \o Escaped(s) \o <<"\"">>

KeyText(key) == IF ToSet(Spell[key]) \subseteq Letters THEN Spell[key] ELSE Quoted(Spell[key])

EndLine(text) == IF text # <<>> /\ Last(text) = "\n" THEN text ELSE Append(text, "\n")

Header(path) ==
  LET name == FlattenSeq([i \in DOMAIN path |-> (IF i > 1 THEN <<".">> ELSE <<>>) \o KeyText(path[i])])
  IN  <<"[">> \o name \o <<"]">>

WriteArray(text, items) ==
  LET item(acc, i) == EndLine(IF i > 1 THEN acc \o <<",", " ">> ELSE acc) \o Quoted(Spell[items[i]])
      all == FoldLeftDomain(item, text \o <<"[">>, items)
  IN  (IF items = <<>> THEN all ELSE EndLine(all)) \o <<"]">>

WriteItem(text, key, item) ==
  LET head == text \o KeyText(key) \o <<" ", "=", " ">>
  IN  IF item.type = "array" THEN WriteArray(head, item.items)
      ELSE head \o Quoted(Spell[item.text])

\* The keys of the items at these paths, in some order (that of the map).
KeysAt(paths) == SetToSeq({Last(p) : p \in paths})

RECURSIVE WriteTable(_, _, _)
WriteTable(text, t, path) ==
  LET below == {p \in DOMAIN t : p # <<>> /\ Front(p) = path}
      values == KeysAt({p \in below : t[p].type # "table"})
      tables == KeysAt({p \in below : t[p].type = "table"})
      headed == IF path = <<>> THEN text ELSE EndLine(text \o Header(path))
      value(acc, i) == WriteItem(IF i > 1 THEN EndLine(acc) ELSE acc, values[i],
                                 t[Append(path, values[i])])
      table(acc, i) == WriteTable(IF values # <<>> \/ i > 1 THEN EndLine(acc) ELSE acc, t,
                                  Append(path, tables[i]))
  IN  EndLine(FoldLeftDomain(table, FoldLeftDomain(value, headed, values), tables))

Written(t) == WriteTable(<<>>, t, <<>>)

-----------------------------------------------------------------------------
(***************************************************************************)
(* The parser, as far as texts of this writer need it: table headers,      *)
(* bare and quoted keys, strings and arrays of strings. Each operator      *)
(* reads from position i and returns what it read and where it ends; an    *)
(* exception ends at 0. Positions behind the text count as ends of lines.  *)
(***************************************************************************)
Exception == [at |-> 0]
At(t, i) == IF i <= Len(t) THEN t[i] ELSE "\n"

RECURSIVE SkipSpace(_, _)
SkipSpace(t, i) == IF At(t, i) \in {" ", "\t"} THEN SkipSpace(t, i + 1) ELSE i

RECURSIVE SkipLines(_, _)
SkipLines(t, i) ==
  LET j == SkipSpace(t, i)
  IN  IF j <= Len(t) /\ t[j] = "\n" THEN SkipLines(t, j + 1) ELSE j

HexDigits == {"a", "b", "c", "d", "e", "f", "0", "1", "2", "3"}
CodePoint == (<<"0", "0", "0", "1">> :> "^A") @@ (<<"0", "0", "1", "0">> :> "^P")

Unicode(t, i) ==
  LET digits == SubSeq(t, i, i + 3)
  IN  IF i + 3 > Len(t) \/ ~(ToSet(digits) \subseteq HexDigits) THEN Exception
      ELSE [at |-> i + 4, val |-> IF digits \in DOMAIN CodePoint THEN CodePoint[digits] ELSE "other"]

EscapeCode(t, i) ==
  IF \E c \in DOMAIN ShortEscapes : ShortEscapes[c] = At(t, i)
  THEN [at |-> i + 1, val |-> CHOOSE c \in DOMAIN ShortEscapes : ShortEscapes[c] = t[i]]
  ELSE IF At(t, i) = "u" THEN Unicode(t, i + 1) ELSE Exception

RECURSIVE StringLiteral(_, _, _)
StringLiteral(t, i, val) ==
  CASE At(t, i) = "\n" -> Exception
    [] At(t, i) = "\"" -> [at |-> SkipSpace(t, i + 1), val |-> val]
    [] At(t, i) = "\\" ->
         LET e == EscapeCode(t, i + 1)
         IN  IF e.at = 0 THEN Exception ELSE StringLiteral(t, e.at, Append(val, e.val))
    [] OTHER -> StringLiteral(t, i + 1, Append(val, t[i]))

RECURSIVE BareKey(_, _, _)
BareKey(t, i, val) ==
  CASE At(t, i) \in {".", "=", "]", "\n"} ->
         IF val = <<>> THEN Exception ELSE [at |-> i, val |-> val]
    [] At(t, i) \in {" ", "\t"} ->
         IF At(t, SkipSpace(t, i)) \in {".", "=", "]", "\n"} /\ val # <<>>
         THEN [at |-> SkipSpace(t, i), val |-> val] ELSE Exception
    [] At(t, i) \in {"#", "["} -> Exception
    [] OTHER -> BareKey(t, i + 1, Append(val, t[i]))

SimpleKey(t, i) ==
  LET j == SkipSpace(t, i)
  IN  IF At(t, j) = "\"" THEN StringLiteral(t, j + 1, <<>>) ELSE BareKey(t, j, <<>>)

\* parse_key: simple keys joined with dots, up to the character end.
RECURSIVE DottedKey(_, _, _, _)
DottedKey(t, i, end, parts) ==
  IF At(t, i) \in {end, "\n"} THEN Exception
  ELSE LET k == SimpleKey(t, i)
           more == Append(parts, k.val)
       IN  CASE k.at = 0 -> Exception
             [] k.at # 0 /\ At(t, k.at) \in {end, "\n"} -> [at |-> k.at, val |-> more]
             [] k.at # 0 /\ At(t, k.at) = "." -> DottedKey(t, k.at + 1, end, more)
             [] OTHER -> Exception

RECURSIVE ArrayItems(_, _, _)
ArrayItems(t, i, items) ==
  IF At(t, i) = "]" THEN [at |-> i + 1, val |-> items]
  ELSE LET v == IF At(t, i) = "\"" THEN StringLiteral(t, i + 1, <<>>) ELSE Exception
           j == SkipLines(t, v.at)
       IN  IF v.at = 0 \/ j > Len(t) THEN Exception
           ELSE IF t[j] = "," THEN ArrayItems(t, SkipLines(t, j + 1), Append(items, v.val))
           ELSE [at |-> j + 1, val |-> Append(items, v.val)]

ParseValue(t, i) ==
  CASE At(t, i) = "\"" ->
         LET s == StringLiteral(t, i + 1, <<>>)
         IN  IF s.at = 0 THEN s ELSE [at |-> s.at, val |-> [type |-> "string", text |-> s.val]]
    [] At(t, i) = "[" ->
         LET a == ArrayItems(t, SkipLines(t, i + 1), <<>>)
         IN  IF a.at = 0 THEN a ELSE [at |-> a.at, val |-> [type |-> "array", items |-> a.val]]
    [] OTHER -> Exception

(***************************************************************************)
(* The tables on the way to an item are created unless they are there.     *)
(***************************************************************************)
Opened(doc, path) ==
  [p \in DOMAIN doc \cup Prefixes(path) |-> IF p \in DOMAIN doc THEN doc[p] ELSE [type |-> "table"]]

ValueOnTheWay(doc, path) == \E p \in DOMAIN doc : IsPrefix(p, path) /\ doc[p].type # "table"

\* A table may be opened again only if there are tables and nothing else in it.
Redefined(doc, path) ==
  /\ path \in DOMAIN doc
  /\ LET below == {p \in DOMAIN doc : Len(p) = Len(path) + 1 /\ IsPrefix(path, p)}
     IN  below = {} \/ \E p \in below : doc[p].type = "string"

NotToml == <<>> :> [type |-> "exception"]

RECURSIVE ReadLines(_, _, _, _)
ReadLines(t, i, table, doc) ==
  LET j == SkipLines(t, i)
      header == DottedKey(t, j + 1, "]", <<>>)
      key == DottedKey(t, j, "=", <<>>)
      path == table \o key.val
      value == ParseValue(t, SkipSpace(t, key.at + 1))
  IN  CASE j > Len(t) -> doc
        [] j <= Len(t) /\ At(t, j) = "[" ->
             IF \/ header.at = 0 \/ At(t, header.at) # "]"
                \/ At(t, SkipSpace(t, header.at + 1)) # "\n"
                \/ \E k \in DOMAIN header.val : header.val[k] = <<>>
                \/ ValueOnTheWay(doc, header.val) \/ Redefined(doc, header.val)
             THEN NotToml
             ELSE ReadLines(t, header.at + 1, header.val, Opened(doc, header.val))
        [] OTHER ->
             IF \/ key.at = 0 \/ At(t, key.at) # "="
                \/ path \in DOMAIN doc \/ ValueOnTheWay(doc, Front(path))
                \/ value.at = 0 \/ At(t, SkipSpace(t, value.at)) # "\n"
             THEN NotToml
             ELSE ReadLines(t, value.at, table, (path :> value.val) @@ Opened(doc, Front(path)))

Read(t) == ReadLines(t, 1, <<>>, EmptyTable)

(***************************************************************************)
(* A document with its names and strings spelled out, as a reader gets it. *)
(***************************************************************************)
Spelled(t) ==
  LET path(p) == [i \in DOMAIN p |-> Spell[p[i]]]
      item(x) == CASE x.type = "array" ->
                        [type |-> "array", items |-> [i \in DOMAIN x.items |-> Spell[x.items[i]]]]
                   [] x.type = "string" -> [type |-> "string", text |-> Spell[x.text]]
                   [] OTHER -> x
  IN  [q \in {path(p) : p \in DOMAIN t} |-> item(t[CHOOSE p \in DOMAIN t : path(p) = q])]

\* The names and strings of a document.
KeyNames(t) == UNION {ToSet(p) : p \in DOMAIN t}
Strings(t) ==
  KeyNames(t)
  \cup (UNION {ToSet(t[p].items) : p \in {p \in DOMAIN t : t[p].type = "array"}})
  \cup {t[p].text : p \in {p \in DOMAIN t : t[p].type = "string"}}

-----------------------------------------------------------------------------
(***************************************************************************)
(* What is printed is TOML that says what was meant, provided no name is   *)
(* empty and there is no control character but the usual ones: the parser  *)
(* of cpptoml reads the document back.                                     *)
(***************************************************************************)
Plain(t) == \A s \in Strings(t) : ToSet(Spell[s]) \cap DOMAIN Hex = {}

ReadsBack ==
  Succeeded({"asmscan", "finddirectuses", "toml"}) =>
    (Plain(out.doc) /\ "" \notin KeyNames(out.doc) => Read(Written(out.doc)) = Spelled(out.doc))
=============================================================================
