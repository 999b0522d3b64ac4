------------------------------- MODULE MCData -------------------------------
(* Data for TLC: an Int of at most 5, three entities on up to three workers.  *)
EXTENDS Data, TLC

I(i) == V("int", <<i>>)
Float(h) == V("float", <<h>>)
Bool(b) == V("bool", <<b>>)
Word(i) == Text("word", <<3, i>>)

\* Names with a separator in them.
MCDotted == "c.d" :> <<"c", "d">> @@ "int.x" :> <<"int", "x">>
MCLuaNames == {"x.lua"}
MCNumbers == {"7"}

Entity(comps, store) == [comps |-> comps, store |-> store]
A == Entity({"c"}, <<"c", "x">> :> I(2) @@ <<"c", "s">> :> Word(1))
B == Entity({"c", "d"}, <<"c", "x">> :> I(2) @@ <<"d", "y">> :> Float(3))
D == Entity({"d"}, <<"d", "y">> :> Float(5) @@ <<"d", "b">> :> Bool(1))

Part(entities, archived, archive) ==
  [entities |-> entities, archived |-> archived, archive |-> archive]
Worker(order, entities) == [part |-> Part(entities, <<>>, FALSE), order |-> order]
Alone == <<Worker(<<"b", "a", "d">>, "a" :> A @@ "b" :> B @@ "d" :> D)>>
Spread == <<Worker(<<"a">>, "a" :> A), Worker(<<"d", "b">>, "b" :> B @@ "d" :> D)>>
Three == <<Worker(<<"a">>, "a" :> A), Worker(<<"b">>, "b" :> B), Worker(<<>>, <<>>)>>
\* At u1 the leader knows the workers, at u2 the first has peers that know only the leader.
MCClusters ==
  [u \in {"u1", "u2"} |->
     [workers |-> IF u = "u1" THEN Spread ELSE <<Spread[1], Spread[2], Worker(<<>>, <<>>)>>,
      peers |-> IF u = "u1" THEN <<{}, {}>> ELSE <<{2, 3}, {}, {}>>,
      led |-> IF u = "u1" THEN {1, 2} ELSE {2, 3}]]

Addr(e, c, t, n) == [entity |-> e, comp |-> c, type |-> <<t, "">>, name |-> n]
Local(c, t, n) == ToLocal(Addr("", c, t, n))
All == Map("All", <<>>, <<>>)

-----------------------------------------------------------------------------
Names == {<<"a">>, <<"b", "d">>, <<"d", "z", "d">>}
Filters ==
  {Filter("Name", n) : n \in Names}
  \cup {Filter("AllComponents", c) : c \in {<<>>, <<"c">>, <<"c", "d">>}}
  \cup {Filter("Component", <<c>>) : c \in {"c", "d"}}
  \cup {NodeFilter("Local", 0)}
  \cup {VarRange(Local("c", "int", "x"), I(l), I(3)) : l \in {1, 2}}
  \cup {VarRange(Local("d", "float", "y"), Word(1), Float(4)),
        VarRange(Local("c", "string", "s"), I(2), I(4))}
UpTo2(S) == {<<>>} \cup {<<x>> : x \in S} \cup {<<x, y>> : x \in S, y \in S}
Archived == "z" :> A @@ "a" :> B
Selects ==
  {[kind |-> "select", part |-> Part(Alone[1].part.entities, Archived, archive),
    order |-> Alone[1].order,
    query |-> [DefaultQuery EXCEPT !.filters = fs, !.limits = lim, !.archive = arch]] :
     archive \in BOOLEAN, fs \in UpTo2(Filters), lim \in {<<>>, <<1>>, <<2>>},
     arch \in {"Ignore", "Include"}}

Maps2 == {<<All>>, <<Map("Var", <<"x">>, <<>>)>>, <<Map("Component", <<"d">>, <<>>)>>,
          <<Map("Components", <<"c", "d">>, <<>>), All>>,
          <<Map("SelectAddrs", <<>>, <<Addr("b", "c", "int", "x")>>), Map("Var", <<"b">>, <<>>)>>,
          <<Map("VarType", <<"int", "">>, <<>>)>>, <<>>}
Views ==
  {[kind |-> "view", workers |-> w,
    query |-> [DefaultQuery EXCEPT !.filters = fs, !.mappings = ms]] :
     w \in {Alone, Spread, Three}, ms \in Maps2,
     fs \in {<<>>, <<Filter("Name", <<"b">>)>>, <<Filter("Component", <<"c">>)>>}}

-----------------------------------------------------------------------------
Stores == "a" :> A.store @@ "b" :> B.store
Variables == {Addr("a", "c", "int", "x"), Addr("a", "c", "string", "s"), Addr("a", "c", "int", "z"),
            Addr("b", "c", "int", "x"), Addr("far", "c", "int", "x")}
Pairs == {[addr |-> a, val |-> v] : a \in Variables, v \in {I(1), Float(1)}}
Pulls ==
  {[kind |-> "pull", ents |-> Stores, pack |-> pack, pairs |-> <<p, q, r>>] :
     p \in Pairs, q \in Pairs, r \in {x \in Pairs : x.val = I(1)},
     pack \in {"AddressedVars", "TypedAddressedVars"}}

Values == {I(4), I(-2), Float(3), Float(4), Float(-3), Bool(1), Bool(0), Word(2), EmptyText,
           V("byte", <<3>>), V("vec2", <<2, 3>>), V("vec3", <<1, 2, 3>>),
           Many("list", <<I(1), I(2)>>), Many("list", <<>>),
           Many("grid", <<Many("row", <<Word(1)>>)>>), Many("map", <<>>)}
Given == {Arg(<<>>, Text("int", <<i>>)) : i \in {1, 9}}
         \cup {Arg(<<>>, Text("frac", <<3>>)), Arg(<<>>, Word(2)), Arg(<<>>, EmptyText)}
         \cup {Arg(AddressText(a), EmptyText) : a \in Variables}
         \cup {Arg(<<"int", "x">>, EmptyText), Arg(<<"c", "int", "x">>, EmptyText)}
Sets == {[kind |-> "set", ents |-> Stores, target |-> t, source |-> s] : t \in Given, s \in Given}

TypesOfText == VarType \ {<<"map", "string">>}
Texts ==
  {[kind |-> "text", addr |-> [entity |-> e, comp |-> c, type |-> t, name |-> n], val |-> v] :
     e \in {"a", "c.d"}, c \in {"c", "c.d"}, n \in {"x", "c.d", "int.x"}, t \in TypesOfText, v \in {Word(2)}}
  \cup {[kind |-> "text", addr |-> Addr("a", "c", "int", "x"), val |-> v] : v \in Values}

WireFilters ==
  Filters \cup {Filter("Id", <<"7">>), NodeFilter("Remote", 2), Filter("SomeComponents", <<"c">>),
                [Filter("AttrRange", <<"c">>) EXCEPT !.low = Float(3)],
                [Filter("Distance", <<"3">>) EXCEPT !.addr = [k \in 1..3 |-> Addr("a", "c", "int", "x")]],
                VarRange(Local("c.d", "int", "x"), I(1), I(3))}
WireMaps == {All, Map("Var", <<"x">>, <<>>), Map("Component", <<"c">>, <<>>),
             Map("SelectAddrs", <<>>, <<Addr("a", "c", "int", "x"), Addr("a", "c", "bool", "s")>>),
             Map("SelectAddrs", <<>>, <<Addr("a", "c.d", "int", "x")>>)}
            \cup {Map("VarType", t, <<>>) : t \in VarType}
Products == {Empty} \cup {Product("Var", SetToBag({v, I(4)})) : v \in Values}
            \cup {Product("AddressedVar",
                    [Addr("a", "c", "int", "x") EXCEPT !.type = GetType(v)] :> v) : v \in Values}
            \cup {Product("AddressedVar", Addr("a", "c.d", "int", "x") :> I(1)),
                  Product("String", SetToBag({Word(1)}))}
Response(encoding, transport) ==
  [kind |-> "RegisterClientResponse", client_id |-> "c", encoding |-> encoding, transport |-> transport]
Responses == {Response(e, t) : e \in ToSet(Encodings),
               t \in {"Quic", "WebSocket", "SecureWebSocket", "HttpServer", "GrpcServer"}}
Wires ==
  {[kind |-> "wire", filter |-> NodeFilter("Local", 0), map |-> All, product |-> Empty, response |-> r] : r \in Responses} \cup
  {[kind |-> "wire", filter |-> f, map |-> All, product |-> Empty, response |-> Response("Json", "Quic")] : f \in WireFilters}
  \cup {[kind |-> "wire", filter |-> NodeFilter("Local", 0), map |-> m, product |-> Empty, response |-> Response("Json", "Quic")] : m \in WireMaps}
  \cup {[kind |-> "wire", filter |-> NodeFilter("Local", 0), map |-> All, product |-> p, response |-> Response("Bincode", "GrpcServer")] : p \in Products}

Storages == {A.store, B.store, D.store, <<"c", "x">> :> V("vec2", <<1, 2>>) @@ <<"d", "c.d">> :> I(1),
             <<"c", "g">> :> Many("grid", <<Many("row", <<Word(1)>>)>>) @@ <<"c.d", "x">> :> Float(4)}
Stores2 == {[kind |-> "store", store |-> s, comp |-> c, names |-> n] :
              s \in Storages, c \in {"c", "d"}, n \in SUBSET {"x", "y"}}

Written(what, how) == [what |-> what, how |-> how]
Commands(hows) == {Written("command", how) : how \in hows}
Directives(names) == {Written(name, "line") : name \in names}
Conditions == {"if", "else", "endif"}
Scripts ==
  {[kind |-> "script", written |-> w] :
     w \in [1..3 -> Commands({"line", "after", "split", "noted", "hidden", "open"})
                    \cup Directives(Conditions \cup {"log", "print", "include"})]
           \cup [1..5 -> Commands({"line", "after"}) \cup Directives(Conditions)]}

-----------------------------------------------------------------------------
File(includes, behaviors, components, prefabs, entities) ==
  [name |-> <<>>, includes |-> includes, scenarios |-> <<>>, behaviors |-> behaviors,
   components |-> components, prefabs |-> prefabs, entities |-> entities]
Defs(name, of) == [name |-> name, vars |-> of]
Fab(name, comps) == [name |-> name, components |-> comps]
Start(name, prefab) == [name |-> name, prefab |-> prefab, data |-> <<>>]
Behavior(name, type, path, script) ==
  [name |-> name, type |-> type, path |-> path, lib |-> <<>>, script |-> script, synced |-> FALSE,
   debug |-> FALSE, triggers |-> <<"step">>, targets |-> "global" :> <<>>]
\* The manifest, two files in a directory and one beside it, and what each may include.
Null == [Text("word", <<0, 0>>) EXCEPT !.form = "null"]
Root(includes) ==
  File(includes, <<Behavior("top", "", <<"sub", "x.lua">>, <<>>)>>,
       <<Defs("c", <<"x">> :> I(9) @@ <<"int", "y">> :> I(1))>>,
       <<Fab("p", <<"c", "d">>), Fab("q", <<"e">>)>>,
       <<[Start("a", <<"p">>) EXCEPT !.data = <<"c", "int", "x">> :> I(4)],
         Start("b", <<"q">>), Start("e", <<>>)>>)
InSub(includes) ==
  File(includes, <<Behavior("in", "lua", <<"x.lua">>, <<>>), Behavior("own", "rust", <<"lib">>, <<>>)>>,
       <<Defs("d", <<"vec2", "v">> :> Many("list", <<I(1), Float(1)>>) @@ <<"n">> :> Bool(1)),
         Defs("c", <<"z">> :> Bool(0))>>, <<>>, <<>>)
Other(includes) ==
  File(includes, <<>>, <<Defs("e", <<"string", "s">> :> Word(1) @@ <<"u">> :> Null)>>,
       <<Fab("p", <<"e">>)>>, <<>>)
Systems ==
  {[files |-> <<"model">> :> Root(r) @@ <<"sub", "one">> :> InSub(s) @@ <<"sub", "two">> :> Other(o)
              @@ <<"side">> :> File(<<<<"sub", "two">>>>, <<>>, <<>>, <<>>, <<>>),
    dirs |-> <<"sub">> :> d, texts |-> <<"sub", "x.lua">> :> <<>>] :
     r \in {<<>>, <<<<"sub", "one">>, <<"sub", "two">>>>, <<<<"sub", "*">>>>, <<<<"sub">>, <<"side">>>>, <<<<"gone">>>>, <<<<"*">>>>,
            <<<<"sub", "one">>, <<"side">>>>},
     s \in {<<>>, <<<<"two">>>>, <<<<"one">>>>}, o \in {<<>>, <<<<"one">>>>}, d \in {<<>>, <<"two", "one">>}}
VarX == RegisterVarNew(<<<<"int", "x">>>>, <<Text("frac", <<1>>)>>)
VarU == RegisterVarNew(<<<<"float", "u">>>>, <<>>)
Registered ==
  {<<>>, <<RegisterComponent("c", {The(VarX)}), RegisterComponent("e", {The(VarU)})>>,
   <<RegisterPrefab(The(RegisterPrefabNew("q", <<"c">>, <<>>))), RegisterComponent("d", {})>>}
Models == {[kind |-> "model", fs |-> fs, registered |-> r] : fs \in Systems, r \in Registered}

MCJobs == Stores2 \cup Scripts \cup Models \cup Selects \cup Views \cup Pulls \cup Sets \cup Texts \cup Wires

-----------------------------------------------------------------------------
Proto(filters, maps, layout, scope) ==
  ClientQuery(CHOOSE i \in 0..8 : Descriptions[i + 1] = layout, 0, filters, maps, scope)
Name(n) == ProtoFilter("Name", n, <<>>, EmptyText, EmptyText, <<>>)
Comp(c) == NameIs("Component", c)
Length(lo) == ProtoFilter("VarRange", <<>>, <<<<"c", "string", "s">>>>, Word(lo), Text("word", <<4, 1>>), <<>>)
MCProtoQueries ==
  {Proto(fs, <<All>>, l, 0) : l \in {"None", "Addressed"},
     fs \in {<<>>, <<Name(<<"a", "d">>)>>, <<Name(<<"a">>), Comp("d")>>}}
  \cup {Proto(<<Comp("c"), Comp("d")>>, <<Map("Var", <<"y">>, <<>>)>>, "Addressed", 2),
        Proto(<<ProtoFilter("missing", <<>>, <<>>, EmptyText, EmptyText, <<>>)>>, <<All>>, "None", 0),
        Proto(<<>>, <<All>>, "Entity", 0), Proto(<<>>, <<All>>, "None", 1),
        StringQuery(8, 0), EntityQuery("a", 0), ComponentQuery("c", 0)}
=============================================================================
