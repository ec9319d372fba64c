-------------------------------- MODULE Toml --------------------------------
(***************************************************************************)
(* The documents of cpptoml.h, as far as allplay makes them: tables and    *)
(* arrays of strings. A document maps the path of each of its items to the *)
(* item.                                                                   *)
(***************************************************************************)
EXTENDS Naturals, Sequences, FiniteSets

Table == [type |-> "table"]
Single(item) == [p \in {<<>>} |-> item]

EmptyTable == Single(Table)
MakeArray(items) == Single([type |-> "array", items |-> items])
MakeValue(s) == Single([type |-> "string", text |-> s])

\* The table with these items, a function from keys.
TableOf(items) ==
  LET paths == UNION {{<<key>> \o q : q \in DOMAIN items[key]} : key \in DOMAIN items}
  IN  [p \in {<<>>} \cup paths |-> IF p = <<>> THEN Table ELSE items[p[1]][Tail(p)]]

\* insert: an item that was there before is replaced.
Insert(t, key, item) ==
  LET rest == {p \in DOMAIN t : p = <<>> \/ p[1] # key}
  IN  [p \in rest \cup {<<key>> \o q : q \in DOMAIN item} |->
         IF p \in rest THEN t[p] ELSE item[Tail(p)]]

IsEmpty(t) == DOMAIN t = {<<>>}
=============================================================================
