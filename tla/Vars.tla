-------------------------------- MODULE Vars --------------------------------
(* Values and their types (var.rs), addresses (address.rs), the storage of an *)
(* entity (entity/storage.rs) and the set command (machine/cmd/set.rs).       *)
(*                                                                            *)
(* A value and a text have one shape, [t, form, n, items]: t is the variant,  *)
(* n its numbers, items the elements of a list, of the rows of a grid or of a *)
(* map.  A float counts halves, so that truncation shows.  A text is a string *)
(* value; form says what it can be parsed as: a "word" (n = length and        *)
(* identity), an "int", a "frac"tional number, a "bool", a text in one        *)
(* "quoted" pair or with an "open" quote, a list "csv" of texts, or what the  *)
(* code prints for vectors ("described") and for lists, grids and maps        *)
(* ("debug"), which nothing parses.                                           *)
EXTENDS Integers, Sequences, FiniteSets, SequencesExt

CONSTANTS
  MaxInt,   \* the largest Int; the code's is 2^31 - 1
  Dotted    \* [names with a separator in them -> their parts]

ASSUME MaxIntAssumption == MaxInt \in Nat \ {0}

SEPARATOR == "."

\* The outcome of a call: Ok(value), an error, or a panic (unwrap, todo,
\* unimplemented).
Ok(v) == [st |-> "ok", val |-> <<v>>]
Err   == [st |-> "err", val |-> <<>>]
Panic == [st |-> "panic", val |-> <<>>]
IsOk(r)  == r.st = "ok"
The(r)   == r.val[1]
Then(r, F(_)) == IF IsOk(r) THEN F(The(r)) ELSE r
\* collect::<Result<Vec<_>, _>>: the first outcome that is not Ok, if any.
Collect(rs) ==
  IF \A k \in DOMAIN rs : IsOk(rs[k]) THEN Ok([k \in DOMAIN rs |-> The(rs[k])])
  ELSE rs[CHOOSE k \in DOMAIN rs :
            ~IsOk(rs[k]) /\ \A j \in 1..(k - 1) : IsOk(rs[j])]

-----------------------------------------------------------------------------
(* Types                                                                      *)

Elems == {"string", "int", "float", "bool", "byte", "vec2", "vec3"}
VarType ==
  (Elems \cup {"list", "grid", "map"}) \X {""} \cup {"list", "grid"} \X Elems

\* VarType::to_str.
ToStr(t) ==
  IF t[2] = "" THEN t[1]
  ELSE t[1] \o "_" \o (IF t[2] = "string" THEN "str" ELSE t[2])

\* The names VarType::from_str takes for a type.  Grids of strings have no
\* short name here, lists and grids of no type none at all.
NamesOf(t) ==
  IF t = <<"string", "">> THEN {"string", "str"}
  ELSE IF t[2] # ""
  THEN {t[1] \o "_" \o t[2]}
       \cup (IF t = <<"list", "string">> THEN {"list_str"} ELSE {})
  ELSE IF t[1] \in {"list", "grid"} THEN {} ELSE {t[1]}
FromStr(s) ==
  IF \E t \in VarType : s \in NamesOf(t)
  THEN Ok(CHOOSE t \in VarType : s \in NamesOf(t)) ELSE Panic

-----------------------------------------------------------------------------
(* Values                                                                     *)

V(t, n) == [t |-> t, form |-> "", n |-> n, items |-> <<>>]
Text(form, n) == [t |-> "string", form |-> form, n |-> n, items |-> <<>>]
Many(t, items) == [t |-> t, form |-> "", n |-> <<>>, items |-> items]
Csv(texts) == [t |-> "string", form |-> "csv", n |-> <<>>, items |-> texts]
EmptyText == Text("word", <<0, 0>>)

Wrap(i) == ((i + MaxInt + 1) % (2 * MaxInt + 2)) - MaxInt - 1
Clamp(i) == IF i > MaxInt THEN MaxInt ELSE IF i < -MaxInt - 1 THEN -MaxInt - 1 ELSE i
Trunc(h) == Clamp(IF h >= 0 THEN h \div 2 ELSE -((-h) \div 2))

\* VarType::default_value and Var::new.
DefaultValue(t) ==
  CASE t[1] = "string" -> EmptyText
    [] t[1] \in {"int", "float", "bool", "byte"} -> V(t[1], <<0>>)
    [] t[1] = "vec2" -> V("vec2", <<0, 0>>)
    [] t[1] = "vec3" -> V("vec3", <<0, 0, 0>>)
    [] OTHER -> Many(t[1], <<>>)

\* Var::get_type: a list or grid is typed by its first element.
GetType(v) ==
  LET first == IF v.t = "list" THEN v.items
               ELSE IF v.items = <<>> THEN <<>> ELSE v.items[1].items
      elem == IF v.t \in {"list", "grid"} /\ first # <<>> /\ first[1].t \in Elems
              THEN first[1].t ELSE ""
  IN  <<v.t, elem>>

\* VarType::from_json_value, of a value read from JSON: a null (form "null")
\* is a boolean here and a number for FromJson.
JsonType(j) == IF j.form = "null" THEN <<"bool", "">> ELSE <<j.t, "">>

Sign(i) == IF i < 0 THEN 1 ELSE 0
TextLen(s) ==
  CASE s.form = "word" -> s.n[1]
    [] s.form = "int"  -> 1 + Sign(s.n[1])
    [] s.form = "frac" -> 3 + Sign(s.n[1])
    [] s.form = "bool" -> 5 - s.n[1]

\* Var::to_string; a whole float is printed without its fraction.
TextOf(v) ==
  CASE v.t = "string" -> v
    [] v.t \in {"int", "byte"} -> Text("int", v.n)
    [] v.t = "float" -> IF v.n[1] % 2 = 0 THEN Text("int", <<v.n[1] \div 2>>)
                        ELSE Text("frac", v.n)
    [] v.t = "bool" -> Text("bool", v.n)
    [] v.t \in {"vec2", "vec3"} -> Text("described", v.n)
    [] OTHER -> Text("debug", <<Len(v.items)>>)

SumOf(ns) == FoldLeft(LAMBDA a, b : a + b, 0, ns)
\* Var::to_int, to_float (in halves) and to_bool.
ToInt(v) ==
  CASE v.t = "string" -> Wrap(TextLen(v))
    [] v.t = "float"  -> Trunc(v.n[1])
    [] v.t \in {"vec2", "vec3"} -> Wrap(SumOf([k \in DOMAIN v.n |-> Trunc(v.n[k])]))
    [] v.t \in {"list", "grid", "map"} -> Len(v.items)
    [] OTHER -> v.n[1]
ToFloat(v) ==
  CASE v.t = "string" -> 2 * TextLen(v)
    [] v.t \in {"float", "vec2", "vec3"} -> SumOf(v.n)
    [] v.t \in {"list", "grid", "map"} -> 2 * Len(v.items)
    [] OTHER -> 2 * v.n[1]
ToBool(v) ==
  CASE v.t = "string" -> TextLen(v) > 0
    [] v.t \in {"list", "grid", "map"} -> v.items # <<>>
    [] OTHER -> \A k \in DOMAIN v.n : v.n[k] > 0

Bit(b) == IF b THEN 1 ELSE 0
\* Var::coerce and set_coerce.
Coerce(v, t) ==
  CASE t = <<"string", "">> -> Ok(TextOf(v))
    [] t = <<"int", "">>    -> Ok(V("int", <<ToInt(v)>>))
    [] t = <<"float", "">>  -> Ok(V("float", <<ToFloat(v)>>))
    [] t = <<"bool", "">>   -> Ok(V("bool", <<Bit(ToBool(v))>>))
    [] OTHER -> Panic

\* str::split(','), and the parsers of the standard library for one number.
Split(s) == IF s.form = "csv" THEN s.items ELSE <<s>>
ParseInt(s) ==
  IF s.form = "int" /\ s.n[1] \in (-MaxInt - 1)..MaxInt THEN Ok(V("int", s.n)) ELSE Err
ParseFloat(s) ==
  IF s.form = "int" THEN Ok(V("float", <<2 * s.n[1]>>))
  ELSE IF s.form = "frac" THEN Ok(V("float", s.n)) ELSE Err
ParseBool(s) == IF s.form = "bool" THEN Ok(V("bool", s.n)) ELSE Err
ParseByte(s) == IF s.form = "int" /\ s.n[1] \in 0..255 THEN Ok(V("byte", s.n)) ELSE Err
ParseElem(s, e) ==
  CASE e = "string" -> Ok(s)
    [] e = "int"    -> ParseInt(s)
    [] e = "float"  -> ParseFloat(s)
    [] e = "bool"   -> ParseBool(s)
    [] e = "byte"   -> ParseByte(s)
    [] OTHER -> Panic

\* list_from_str.
ListFromStr(s, t) ==
  LET parsed == Collect([k \in DOMAIN Split(s) |-> ParseElem(Split(s)[k], t[2])])
  IN  IF IsOk(parsed) THEN Ok(Many("list", The(parsed))) ELSE parsed

VecFromStr(s, size) ==
  LET parts == Split(s)
      parsed == Collect([k \in DOMAIN parts |-> ParseFloat(parts[k])])
  IN  IF Len(parts) # size THEN Err
      ELSE IF ~IsOk(parsed) THEN parsed
      ELSE Ok(V(IF size = 2 THEN "vec2" ELSE "vec3",
                [k \in 1..size |-> The(parsed)[k].n[1]]))

\* Var::from_str with a target type.
ValueFromStr(s, t) ==
  CASE t[1] = "vec2" -> VecFromStr(s, 2)
    [] t[1] = "vec3" -> VecFromStr(s, 3)
    [] t[1] = "list" -> ListFromStr(s, t)
    [] t[1] \in {"grid", "map"} -> Panic
    [] OTHER -> ParseElem(s, t[1])

\* Var::from_str without one: quotes are kept, fractions stay strings.
ValueGuessed(s) ==
  CASE s.form = "open" -> Err
    [] s.form = "bool" -> ParseBool(s)
    [] s.form = "int" /\ IsOk(ParseInt(s)) -> ParseInt(s)
    [] OTHER -> Ok(s)

\* Var::from_serde of a JSON value; `as i32` keeps the low bits.
JsonLeaf(j) ==
  IF j.form = "null" THEN V("int", <<0>>)
  ELSE IF j.t = "int" THEN V("int", <<Wrap(j.n[1])>>) ELSE j
JsonPart(items, k) ==
  IF k > Len(items) THEN 0
  ELSE IF items[k].t \in {"int", "float"} THEN ToFloat(items[k]) ELSE 0
FromJson(t, j) ==
  IF j.t = "list" /\ t = <<"vec2", "">>
  THEN Ok(V("vec2", <<JsonPart(j.items, 1), JsonPart(j.items, 2)>>))
  ELSE IF j.t = "list" /\ t = <<"vec3", "">> THEN Panic
  ELSE IF j.t \in {"list", "map"}
  THEN Ok(Many(j.t, [k \in DOMAIN j.items |-> JsonLeaf(j.items[k])]))
  ELSE Ok(JsonLeaf(j))

-----------------------------------------------------------------------------
(* Addresses.  The text of an address is the sequence of its parts; a name    *)
(* that contains the separator is several of them.                            *)

Segs(name) == IF name \in DOMAIN Dotted THEN Dotted[name] ELSE <<name>>

AddressText(a) ==
  Segs(a.entity) \o Segs(a.comp) \o <<ToStr(a.type)>> \o Segs(a.name)
LocalText(a) == Segs(a.comp) \o <<ToStr(a.type)>> \o Segs(a.name)
\* Variant: without its type.
ShortTextBare(a) == (IF a.comp = "" THEN <<>> ELSE Segs(a.comp)) \o Segs(a.name)
\* A ShortLocalAddress has a component or none (comp = "").
ShortText(a) ==
  (IF a.comp = "" THEN <<>> ELSE Segs(a.comp)) \o <<ToStr(a.type)>> \o Segs(a.name)

AddressFrom(s) ==
  IF Len(s) # 4 THEN Err
  ELSE Then(FromStr(s[3]), LAMBDA t :
         Ok([entity |-> s[1], comp |-> s[2], type |-> t, name |-> s[4]]))
LocalFrom(s) ==
  IF Len(s) # 3 THEN Err
  ELSE Then(FromStr(s[2]), LAMBDA t :
         Ok([comp |-> s[1], type |-> t, name |-> s[3]]))
ShortFrom(s) ==
  CASE Len(s) = 2 -> Then(FromStr(s[1]), LAMBDA t :
                       Ok([comp |-> "", type |-> t, name |-> s[2]]))
    [] Len(s) = 3 -> LocalFrom(s)
    [] OTHER -> Err
ShortFromWithType(s, t) ==
  IF Len(s) = 1 THEN Ok([comp |-> "", type |-> t, name |-> s[1]]) ELSE Err

\* into_address: an entity and a component for a text that has none.
IntoAddress(a, entity, comp) ==
  [entity |-> entity, comp |-> comp, type |-> a.type, name |-> a.name]
ToLocal(a) == [comp |-> a.comp, type |-> a.type, name |-> a.name]
StorageIndex(a) == <<a.comp, a.name>>

-----------------------------------------------------------------------------
(* The storage of an entity: a function from (component, variable) to values  *)

Put(map, key, v) == [k \in DOMAIN map \cup {key} |-> IF k = key THEN v ELSE map[k]]
GetVar(map, idx) == IF idx \in DOMAIN map THEN Ok(map[idx]) ELSE Err
SetFromStr(map, idx, s) ==
  Then(GetVar(map, idx), LAMBDA old :
    Then(ValueFromStr(s, GetType(old)), LAMBDA v : Ok(Put(map, idx, v))))
\* The variable has to be there; its type is not looked at.
SetFromVar(map, local, v) ==
  Then(GetVar(map, StorageIndex(local)), LAMBDA old :
    Ok(Put(map, StorageIndex(local), v)))
AllAsStrings(map) ==
  {<<Segs(k[1]) \o <<ToStr(GetType(map[k]))>> \o Segs(k[2]), TextOf(map[k])>> :
     k \in DOMAIN map}
RemoveCompVars(map, comp) ==
  [k \in {k \in DOMAIN map : k[1] # comp} |-> map[k]]
\* Variant: the variables of those names of all components.
RemoveVarsModel(map, comp, vars) == [k \in {k \in DOMAIN map : k[2] \notin vars} |-> map[k]]
RemoveCompVarsModel(map, comp, vars) ==
  [k \in {k \in DOMAIN map : k \notin {comp} \X vars} |-> map[k]]

-----------------------------------------------------------------------------
(* The set command: `set <target> [=] <source> [=> <out>]`.  An argument is   *)
(* its parts, with the text it is when it has one part only.                  *)

Arg(parts, text) == [parts |-> parts, text |-> text]
\* A fraction has the separator in it, so it never reaches the parser of values.
PartsOf(arg) ==
  IF arg.parts = <<>> /\ arg.text.form = "frac" THEN <<"1", "5">> ELSE arg.parts
TargetFrom(arg) ==
  CASE Len(PartsOf(arg)) < 2 -> Err
    [] Len(PartsOf(arg)) \in 2..3 ->
         Then(ShortFrom(PartsOf(arg)), LAMBDA a : Ok([kind |-> "local", addr |-> a]))
    [] Len(PartsOf(arg)) = 4 ->
         Then(AddressFrom(PartsOf(arg)), LAMBDA a : Ok([kind |-> "address", addr |-> a]))
    [] OTHER -> Panic
SourceFrom(arg, type) ==
  IF Len(PartsOf(arg)) > 1 THEN TargetFrom(arg)
  ELSE Then(ValueFromStr(arg.text, type), LAMBDA v : Ok([kind |-> "value", addr |-> v]))
\* Variant: the value is read as what it looks like.
SetNewGuessing(target, source) ==
  Then(TargetFrom(target), LAMBDA tgt :
    Then(IF Len(PartsOf(source)) > 1 THEN TargetFrom(source)
         ELSE Then(ValueGuessed(source.text), LAMBDA v : Ok([kind |-> "value", addr |-> v])),
      LAMBDA src : Ok([target |-> tgt, source |-> src])))
\* Set::new; a missing source is the empty text.
SetNew(target, source) ==
  Then(TargetFrom(target), LAMBDA tgt :
    Then(SourceFrom(source, tgt.addr.type), LAMBDA src :
      Ok([target |-> tgt, source |-> src])))
\* The worker's SetVars and GetVar on the entities in memory (a function from
\* names to storages).  Pairs for absent entities are passed over; a missing
\* variable stops the rest, and what was set before stays set.
SetVars(ents, pairs) ==
  LET lost(k) == /\ pairs[k].addr.entity \in DOMAIN ents
                 /\ StorageIndex(pairs[k].addr) \notin DOMAIN ents[pairs[k].addr.entity]
      done == {k \in DOMAIN pairs : \A j \in 1..k : ~lost(j)}
      last(e, idx) == {k \in done : /\ pairs[k].addr.entity = e
                                     /\ StorageIndex(pairs[k].addr) = idx
                                     /\ \A j \in done : j > k => \/ pairs[j].addr.entity # e
                                          \/ StorageIndex(pairs[j].addr) # idx}
      value(e, idx) == IF last(e, idx) = {} THEN ents[e][idx]
                       ELSE pairs[CHOOSE k \in last(e, idx) : TRUE].val
  IN  [ents |-> [e \in DOMAIN ents |-> [idx \in DOMAIN ents[e] |-> value(e, idx)]],
       ok |-> \A k \in DOMAIN pairs : k \in done]
GetVarAt(ents, addr) ==
  IF addr.entity \in DOMAIN ents THEN GetVar(ents[addr.entity], StorageIndex(addr)) ELSE Err

\* Set::execute: only a full address can be written, and any error kills the
\* machine.  A source without an entity is looked for in the entity "entity".
SetExecute(ents, cmd) ==
  LET src == cmd.source
      value == CASE src.kind = "value" -> Ok(src.addr)
                 [] src.kind = "local" -> GetVarAt(ents, IntoAddress(src.addr, "entity", "component"))
                 [] OTHER -> GetVarAt(ents, src.addr)
      set == SetVars(ents, <<[addr |-> cmd.target.addr, val |-> The(value)]>>)
  IN  IF cmd.target.kind = "local" \/ ~IsOk(value) THEN Panic
      ELSE IF set.ok THEN Ok(set.ents) ELSE Panic
=============================================================================
