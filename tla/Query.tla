------------------------------- MODULE Query -------------------------------
(* What a query selects, maps and returns on one worker's partition           *)
(* (query/process.rs), and how the products of several workers are put        *)
(* together (query.rs, worker/mod.rs).                                        *)
(*                                                                            *)
(* A partition is [entities, archived, archive]: two functions from names to  *)
(* [comps, store], and whether there is an archive.  The hash order in which  *)
(* the entities in memory are listed is a parameter, order.  A product is     *)
(* [kind, data]; a list of values in no particular order is a bag of them,    *)
(* and where the last of several values wins, data has all the candidates.    *)
EXTENDS Vars, Bags

Filter(kind, names) ==
  [kind |-> kind, names |-> names, addr |-> <<>>, low |-> EmptyText, high |-> EmptyText]
VarRange(addr, low, high) ==
  [kind |-> "VarRange", names |-> <<>>, addr |-> <<addr>>, low |-> low, high |-> high]
Map(kind, names, addrs) == [kind |-> kind, names |-> names, addrs |-> addrs]

\* Query::default.
DefaultQuery ==
  [description |-> "None", layout |-> "Var", filters |-> <<>>, mappings |-> <<>>,
   scope |-> "Global", archive |-> "Ignore", limits |-> <<>>]

-----------------------------------------------------------------------------
(* Selecting                                                                  *)

\* Variant: one more than the limit.
TruncateLate(sel, limits) ==
  IF limits # <<>> /\ Len(sel) > limits[1] + 1 THEN SubSeq(sel, 1, limits[1] + 1) ELSE sel
Truncate(sel, limits) ==
  IF limits # <<>> /\ Len(sel) > limits[1] THEN SubSeq(sel, 1, limits[1]) ELSE sel

HasAll(entity, comps) == ToSet(comps) \subseteq entity.comps
Named(names, sel) == SelectSeq(names, LAMBDA n : n \in ToSet(sel))
WithAll(part, sel, comps) == SelectSeq(sel, LAMBDA e : HasAll(part.entities[e], comps))
\* Filter::Component looks at every entity, whatever is selected so far, and
\* stops at the limit.
WithComponent(part, order, comp) == WithAll(part, order, <<comp>>)

Between(v, low, high) ==
  CASE v.type = "string" -> TextLen(TextOf(v.var)) > ToInt(low) /\ TextLen(TextOf(v.var)) < ToInt(high)
    [] v.type = "int" -> v.var.n[1] > ToInt(low) /\ v.var.n[1] < ToInt(high)
    [] v.type = "float" -> v.var.n[1] > ToFloat(low) /\ v.var.n[1] < ToFloat(high)
\* Filter::VarRange: a variable that is not of the address's type is an error.
InRange(part, sel, f) ==
  LET addr == f.addr[1]
      type == addr.type[1]
      has(e) == StorageIndex(addr) \in DOMAIN part.entities[e].store
      var(e) == part.entities[e].store[StorageIndex(addr)]
      asked == {k \in DOMAIN sel : has(sel[k])}
  IN  IF asked # {} /\ (addr.type[2] # "" \/ type \notin {"string", "int", "float"})
      THEN Panic
      ELSE IF type # "string" /\ \E k \in asked : var(sel[k]).t # type
      THEN Err
      ELSE Ok(SelectSeq(sel, LAMBDA e : has(e) /\ Between([type |-> type, var |-> var(e)], f.low, f.high)))

\* One filter: what stays selected in memory and among the archived, which
\* only Filter::Name keeps.
ApplyFilter(part, order, q, sel, f) ==
  LET keep(mem, arch) ==
        Ok([mem |-> Truncate(mem, q.limits), arch |-> Truncate(arch, q.limits)])
  IN  CASE f.kind = "Name" ->
             keep(Named(f.names, sel.mem),
                  IF q.archive = "Ignore" THEN <<>> ELSE Named(f.names, sel.arch))
        [] f.kind = "AllComponents" -> keep(WithAll(part, sel.mem, f.names), <<>>)
        [] f.kind = "Component" -> keep(WithComponent(part, order, f.names[1]), <<>>)
        [] f.kind = "Node" -> keep(sel.mem, <<>>)
        [] f.kind = "VarRange" ->
             Then(InRange(part, sel.mem, f), LAMBDA mem : keep(mem, <<>>))
        [] OTHER -> Panic

\* The entities a query selects.  No filter, no limit.
Select(part, order, q) ==
  FoldLeft(LAMBDA res, f : Then(res, LAMBDA sel : ApplyFilter(part, order, q, sel, f)),
           IF q.archive # "Include" THEN Ok([mem |-> order, arch |-> <<>>])
           ELSE IF part.archive
           THEN Ok([mem |-> order, arch |-> SetToSeq(DOMAIN part.archived)]) ELSE Err,
           q.filters)

-----------------------------------------------------------------------------
(* Mapping                                                                    *)

\* Nothing is mapped after Map::All.
Effective(maps) ==
  {maps[k] : k \in {k \in DOMAIN maps : \A j \in 1..(k - 1) : maps[j].kind # "All"}}

\* SelectAddrs does not look at the entity of an address.
Maps(m, idx) ==
  CASE m.kind = "All" -> TRUE
    [] m.kind = "Var" -> m.names[1] = idx[2]
    [] m.kind = "Components" -> idx[1] \in ToSet(m.names)
    [] m.kind = "Component" -> m.names[1] = idx[1]
    [] m.kind = "SelectAddrs" -> \E a \in ToSet(m.addrs) : StorageIndex(a) = idx

\* The data of the archived entities is mapped by Map::All only.
Mapped(part, sel, q) ==
  LET maps == Effective(q.mappings)
      archived == IF q.archive # "Ignore" /\ \E m \in maps : m.kind = "All"
                  THEN ToSet(sel.arch) ELSE {}
      mem == UNION {{<<e, idx[1], idx[2]>> : idx \in {idx \in DOMAIN part.entities[e].store :
                       \E m \in maps : Maps(m, idx)}} : e \in ToSet(sel.mem)}
      arch == UNION {{<<e, idx[1], idx[2]>> : idx \in DOMAIN part.archived[e].store} :
                      e \in archived}
  IN  [k \in mem \cup arch |->
         (IF k \in mem THEN part.entities ELSE part.archived)[k[1]].store[<<k[2], k[3]>>]]

-----------------------------------------------------------------------------
(* Laying out                                                                 *)

Product(kind, data) == [kind |-> kind, data |-> data]
Empty == Product("Empty", <<>>)

\* The values at the keys K as a bag, under the operator Of.
BagAt(data, K, Of(_)) ==
  [v \in {Of(data[k]) : k \in K} |-> Cardinality({k \in K : Of(data[k]) = v})]
Of(data, e) == {k \in DOMAIN data : k[1] = e}
Entities(data) == {k[1] : k \in DOMAIN data}
AddressOf(k, v) == [entity |-> k[1], comp |-> k[2], type |-> GetType(v), name |-> k[3]]
Addressed(data, K) ==
  [a \in {AddressOf(k, data[k]) : k \in K} |-> data[<<a.entity, a.comp, a.name>>]]

LayOut(data, q) ==
  LET shape == <<q.description, q.layout>>
      typed == {k \in DOMAIN data : data[k].t \in {"float", "bool", "int"}}
  IN  CASE shape = <<"None", "Var">> ->
             Ok(Product("Var", BagAt(data, DOMAIN data, LAMBDA v : v)))
        [] shape = <<"None", "String">> ->
             Ok(Product("String", BagAt(data, DOMAIN data, TextOf)))
        [] shape = <<"NativeDescribed", "Var">> -> Ok(Product("NativeAddressedVar", data))
        [] shape = <<"Entity", "Var">> ->
             Ok(Product("NameAddressedVar",
                        [e \in Entities(data) |-> {data[k] : k \in Of(data, e)}]))
        [] shape = <<"EntityMany", "Var">> ->
             Ok(Product("NameAddressedVars",
                        [e \in Entities(data) |-> BagAt(data, Of(data, e), LAMBDA v : v)]))
        [] shape = <<"Addressed", "Var">> ->
             Ok(Product("AddressedVar", Addressed(data, DOMAIN data)))
        [] shape = <<"Addressed", "Typed">> ->
             Ok(Product("AddressedTyped", Addressed(data, typed)))
        [] OTHER -> Panic

\* process_query on one partition.  A mapping by type is not implemented.
ProcessQuery(part, order, q) ==
  Then(Select(part, order, q), LAMBDA sel :
    IF \E m \in Effective(q.mappings) : m.kind = "VarType" THEN Panic
    ELSE LayOut(Mapped(part, sel, q), q))

-----------------------------------------------------------------------------
(* Putting together                                                           *)

\* Variant: of values by themselves the last answer counts.
MergeLast(p, other) ==
  CASE p.kind = "Empty" \/ (p.kind = "Var" /\ other.kind = "Var") -> Ok(other)
    [] p.kind = other.kind -> Ok(Product(p.kind, other.data @@ p.data))
    [] OTHER -> Panic
\* QueryProduct::merge.  What is extended is overridden by the other.
Merge(p, other) ==
  CASE p.kind = "Empty" -> Ok(other)
    [] p.kind \in {"Var", "String"} /\ other.kind = p.kind ->
         Ok(Product(p.kind, p.data (+) other.data))
    [] p.kind \in {"NameAddressedVar", "NameAddressedVars", "AddressedVar"}
       /\ other.kind = p.kind -> Ok(Product(p.kind, other.data @@ p.data))
    [] OTHER -> Panic

\* A global query: the answers of the other workers as they come, then the
\* worker's own.
MergeAll(products) ==
  FoldLeft(LAMBDA res, p : Then(res, LAMBDA sum : Merge(sum, p)), Ok(Empty), products)

\* to_vec, to_map, to_named_map and to_named_map_many.
ToVec(p) ==
  CASE p.kind = "Var" -> Ok(p.data)
    [] p.kind = "AddressedVar" -> Ok(BagAt(p.data, DOMAIN p.data, LAMBDA v : v))
    [] OTHER -> Panic
ToMapping(p, kind) ==
  CASE p.kind = kind -> Ok(p.data)
    [] p.kind = "Var" -> Err
    [] OTHER -> Panic
ToMap(p) == ToMapping(p, "AddressedVar")
ToNamedMap(p) == ToMapping(p, "NameAddressedVar")
ToNamedMapMany(p) == ToMapping(p, "NameAddressedVars")
=============================================================================
