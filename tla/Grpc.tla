-------------------------------- MODULE Grpc --------------------------------
(* What a query and its answer become on the wire of the gRPC server          *)
(* (server/grpc/conversions.rs, query_conversions.rs), the server's handling  *)
(* of the messages about data (server/mod.rs), and the queries the client     *)
(* library builds (clients/grpc-client).                                      *)
(*                                                                            *)
(* On the wire enumerations are numbers, addresses and bounds are texts (a    *)
(* text of an address is the sequence of its parts, see Vars), and a field    *)
(* may be missing: kind = "missing".                                          *)
EXTENDS Query

CONSTANT Numbers     \* the texts that parse as an entity id

Joined(parts) == FoldLeft(LAMBDA a, b : a \o SEPARATOR \o b, Head(parts), Tail(parts))

-----------------------------------------------------------------------------
(* Filters                                                                    *)

\* A filter of the wire: names (of a distance filter its distances), addresses
\* as texts (three to a point), bounds as texts, and for Node its type and value.
ProtoFilter(kind, names, addr, low, high, num) ==
  [kind |-> kind, names |-> names, addr |-> addr, low |-> low, high |-> high, num |-> num]
NodeFilter(where, id) == [Filter("Node", <<where>>) EXCEPT !.low = V("int", <<id>>)]

\* Variant: every text is the name of a string variable.
LocalByDefault(s) ==
  Ok([comp |-> "default", type |-> <<"string", "">>, name |-> Joined(s)])
\* A text that is not an address becomes the name of a string variable of the
\* component (and the entity) "default"; one with an unknown type is a panic.
LocalOrDefault(s) ==
  IF LocalFrom(s) # Err THEN LocalFrom(s)
  ELSE Ok([comp |-> "default", type |-> <<"string", "">>, name |-> Joined(s)])
AddressOrDefault(s) ==
  IF AddressFrom(s) # Err THEN AddressFrom(s)
  ELSE Ok([entity |-> "default", comp |-> "default", type |-> <<"string", "">>,
           name |-> Joined(s)])
DistanceKinds == {"Distance", "DistanceMultiPoint"}

FilterFromProto(f) ==
  CASE f.kind \in {"AllComponents", "SomeComponents", "Component", "Name"} ->
         Ok(Filter(f.kind, f.names))
    [] f.kind = "Id" -> Ok(Filter("Id", SelectSeq(f.names, LAMBDA n : n \in Numbers)))
    [] f.kind = "VarRange" ->
         Then(LocalOrDefault(f.addr[1]), LAMBDA a : Ok(VarRange(a, f.low, f.high)))
    [] f.kind \in DistanceKinds ->
         Then(Collect([k \in DOMAIN f.addr |-> AddressOrDefault(f.addr[k])]), LAMBDA addrs :
           Ok([Filter(f.kind, f.names) EXCEPT !.addr = addrs]))
    [] f.kind = "AttrRange" ->
         Ok([Filter("AttrRange", f.names) EXCEPT !.low = f.low, !.high = f.high])
    [] f.kind = "Node" ->
         Ok(NodeFilter(IF f.num[1] = 1 THEN "Remote" ELSE "Local",
                       IF f.num[1] \in {0, 1} THEN f.num[2] ELSE 0))
    [] f.kind = "missing" -> Ok(Filter("Component", <<"default">>))

\* The other way; a node filter for node 0 is one for any node (id 0 is None).
FilterToProto(f) ==
  LET bounds == <<TextOf(f.low), TextOf(f.high)>>
  IN  CASE f.kind = "VarRange" ->
             ProtoFilter(f.kind, <<>>, <<LocalText(f.addr[1])>>, bounds[1], bounds[2], <<>>)
        [] f.kind \in DistanceKinds ->
             ProtoFilter(f.kind, f.names, [k \in DOMAIN f.addr |-> AddressText(f.addr[k])],
                         EmptyText, EmptyText, <<>>)
        [] f.kind = "AttrRange" ->
             ProtoFilter(f.kind, f.names, <<>>, bounds[1], bounds[2], <<>>)
        [] f.kind = "Node" ->
             ProtoFilter(f.kind, <<>>, <<>>, EmptyText, EmptyText,
                         <<Bit(f.names[1] = "Remote"), f.low.n[1]>>)
        [] OTHER -> ProtoFilter(f.kind, f.names, <<>>, EmptyText, EmptyText, <<>>)

-----------------------------------------------------------------------------
(* Mappings                                                                   *)

\* Addresses that do not parse are dropped; a type name out of the table
\* stands for strings.
MapTypes ==
  [s \in {"string", "int", "float", "bool", "byte", "vec2", "vec3", "list", "grid", "map"} |->
     <<s, "">>]
MapFromProto(m) ==
  LET from == [k \in DOMAIN m.addrs |-> AddressFrom(m.addrs[k])]
      good == SelectSeq(from, IsOk)
  IN  CASE m.kind = "SelectAddrs" ->
             IF Panic \in ToSet(from) THEN Panic
             ELSE Ok(Map("SelectAddrs", <<>>, [k \in DOMAIN good |-> The(good[k])]))
        [] m.kind \in {"Var", "VarName"} -> Ok(Map("Var", m.names, <<>>))
        [] m.kind = "VarType" ->
             Ok(Map("VarType",
                    IF m.names[1] \in DOMAIN MapTypes THEN MapTypes[m.names[1]]
                    ELSE <<"string", "">>, <<>>))
        [] m.kind = "missing" -> Ok(Map("All", <<>>, <<>>))
        [] OTHER -> Ok(Map(m.kind, m.names, <<>>))
MapToProto(m) ==
  CASE m.kind = "SelectAddrs" ->
         Map(m.kind, <<>>, [k \in DOMAIN m.addrs |-> AddressText(m.addrs[k])])
    [] m.kind = "VarType" ->
         Map(m.kind, IF m.names[2] = "" THEN <<m.names[1]>> ELSE <<"string">>, <<>>)
    [] OTHER -> m

-----------------------------------------------------------------------------
(* Queries                                                                    *)

\* Description, Layout and Scope of query.rs, as the wire numbers them; it has
\* no Scope::Broadcasts.
Descriptions == <<"NativeDescribed", "Addressed", "Entity", "EntityMany",
                  "Component", "Var", "ComponentVar", "Ordered", "None">>
Layouts == <<"Var", "String", "Typed">>
Scopes == <<"Global", "LocalNode", "LocalWorker", "Edges", "Workers", "Time">>
Nth(names, i, other) == IF i + 1 \in DOMAIN names THEN names[i + 1] ELSE other

\* QueryRequest into Message.  What the wire has no field for is the default,
\* and the numbers of a scope are one.
QueryFromProto(q) ==
  LET filters == Collect([k \in DOMAIN q.filters |-> FilterFromProto(q.filters[k])])
      maps == Collect([k \in DOMAIN q.mappings |-> MapFromProto(q.mappings[k])])
  IN  Then(filters, LAMBDA fs : Then(maps, LAMBDA ms :
        Ok([description |-> Nth(Descriptions, q.description, "None"),
            layout |-> Nth(Layouts, q.layout, "String"),
            filters |-> fs, mappings |-> ms,
            scope |-> Nth(Scopes, q.scope, "Global"),
            archive |-> DefaultQuery.archive, limits |-> DefaultQuery.limits])))

-----------------------------------------------------------------------------
(* Values and products                                                        *)

Wire(t) ==
  CASE t = "byte" -> "ByteValue" [] t = "vec2" -> "Vec2Value" [] t = "vec3" -> "Vec3Value"
    [] t = "int" -> "IntValue" [] t = "float" -> "FloatValue" [] t = "bool" -> "BoolValue"
    [] t = "string" -> "StringValue" [] t = "list" -> "ListValue"
    [] t = "grid" -> "GridValue" [] t = "map" -> "MapValue"
Case(value, v, items) == [value |-> value, form |-> v.form, n |-> v.n, items |-> items]
\* The rows of a grid are messages of their own; a map's keys go along.
RECURSIVE VarToProto(_)
VarToProto(v) ==
  Case(IF v.t = "row" THEN "row" ELSE Wire(v.t), v,
       [k \in DOMAIN v.items |-> VarToProto(v.items[k])])

Of2(value) == CHOOSE t \in Elems \cup {"list", "grid", "map"} : Wire(t) = value
\* A missing value, and a byte that is not one byte, are errors.
RECURSIVE VarFromProto(_)
VarFromProto(p) ==
  CASE p.value = "missing" -> Err
    [] p.value = "ByteValue" /\ Len(p.n) # 1 -> Err
    [] OTHER ->
         Then(Collect([k \in DOMAIN p.items |-> VarFromProto(p.items[k])]), LAMBDA items :
           Ok([t |-> IF p.value = "row" THEN "row" ELSE Of2(p.value),
               form |-> p.form, n |-> p.n, items |-> items]))

\* A list of values is a bag here; all other products but Empty become Empty.
ProductToProto(p) ==
  CASE p.kind = "Var" ->
         Product("VarList", {[var |-> VarToProto(v), times |-> p.data[v]] : v \in DOMAIN p.data})
    [] p.kind = "AddressedVar" ->
         Product("AddressedVarMap",
                 {[addr |-> AddressText(a), var |-> VarToProto(p.data[a])] : a \in DOMAIN p.data})
    [] OTHER -> Product("Empty", {})

\* QueryProduct from the wire: the first entry that does not convert fails it.
EntryFromProto(e) ==
  Then(AddressFrom(e.addr), LAMBDA a : Then(VarFromProto(e.var), LAMBDA v : Ok(<<a, v>>)))
AllOk(results) == \A r \in results : IsOk(r)
ProductFromProto(p) ==
  LET entries == {EntryFromProto(e) : e \in p.data}
      vars == {<<VarFromProto(e.var), e.times>> : e \in p.data}
  IN  CASE p.kind = "AddressedVarMap" ->
             IF Panic \in entries THEN Panic
             ELSE IF ~AllOk(entries) THEN Err
             ELSE Ok(Product("AddressedVar",
                    [a \in {The(e)[1] : e \in entries} |->
                       The(CHOOSE e \in entries : The(e)[1] = a)[2]]))
        [] p.kind = "VarList" ->
             IF ~AllOk({x[1] : x \in vars}) THEN Err
             ELSE Ok(Product("Var",
                    [v \in {The(x[1]) : x \in vars} |-> (CHOOSE x \in vars : The(x[1]) = v)[2]]))
        [] p.kind = "Empty" -> Ok(Empty)
        [] p.kind = "missing" -> Err

-----------------------------------------------------------------------------
(* Registering                                                                *)

Encodings == <<"Bincode", "MsgPack", "Json">>
Transports == <<"GrpcServer", "WebSocket", "Quic">>
\* Numbers that stand for nothing are dropped.
Known(names, ids) ==
  LET known == SelectSeq(ids, LAMBDA i : i \in DOMAIN names)
  IN  [k \in DOMAIN known |-> names[known[k]]]
RegisterFromProto(req) ==
  [is_blocking |-> req.is_blocking, auth_token |-> req.auth_pair,
   encodings |-> Known(Encodings, req.encodings),
   transports |-> Known(Transports, req.transports)]
\* The answer: transports the wire has no name for are Unspecified (0).
RegisterToProto(resp) ==
  IF resp.kind = "RegisterClientResponse"
  THEN [client_id |-> resp.client_id,
        encoding |-> CHOOSE i \in 1..3 : Encodings[i] = resp.encoding,
        transport |-> CASE resp.transport = "GrpcServer" -> 1
                        [] resp.transport \in {"WebSocket", "SecureWebSocket"} -> 2
                        [] OTHER -> 0]
  ELSE [client_id |-> "", encoding |-> 3, transport |-> 1]

-----------------------------------------------------------------------------
(* The server                                                                 *)

\* handle_message for a query: the worker's product, and what the client gets:
\* an error is turned into a message that is not a product, and so Empty.
ServeQuery(answer) ==
  CASE answer.st = "ok" -> Ok(ProductToProto(The(answer)))
    [] answer.st = "err" -> Ok(Product("Empty", {}))
    [] OTHER -> answer

\* Variant: whatever pack is written.
ServePullAny(ents, kind, pairs) == SetVars(ents, pairs)
\* handle_message for data pulled in: only AddressedVars are written, the
\* other packs are answered as if they were.  The entities of other workers
\* are not reached.
ServePull(ents, kind, pairs) ==
  IF kind = "AddressedVars" THEN SetVars(ents, pairs) ELSE [ents |-> ents, ok |-> TRUE]

-----------------------------------------------------------------------------
(* The client library                                                         *)

ClientQuery(description, layout, filters, mappings, scope) ==
  [description |-> description, layout |-> layout, filters |-> filters,
   mappings |-> mappings, scope |-> scope]
NameIs(kind, name) == ProtoFilter(kind, <<name>>, <<>>, EmptyText, EmptyText, <<>>)
StringQuery(description, scope) == ClientQuery(description, 1, <<>>, <<>>, scope)
EntityQuery(name, scope) == ClientQuery(2, 2, <<NameIs("Name", name)>>, <<>>, scope)
ComponentQuery(name, scope) == ClientQuery(4, 2, <<NameIs("Component", name)>>, <<>>, scope)
StatusQuery == ClientQuery(1, 0, <<>>, <<Map("All", <<>>, <<>>)>>, 0)

\* parse_query_product takes the wire's own cases apart and decodes nothing.
ParseProduct(p) == IF p.kind = "missing" THEN Err ELSE Ok(p)
=============================================================================
