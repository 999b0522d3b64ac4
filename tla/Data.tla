-------------------------------- MODULE Data --------------------------------
(* How data leaves and enters a cluster: a client that connects, asks and     *)
(* disconnects (GrpcClient), and single calls of the functions below it.      *)
(* A behavior is the one or the other: job says which, and a job that is a    *)
(* call ends with its outcome in out.                                         *)
EXTENDS GrpcClient, ModelFiles

CONSTANT Jobs

VARIABLES job, out

vars == <<clientVars, job, out>>

Init == ClientInit /\ job \in Jobs \cup {[kind |-> "client"]} /\ out = <<>>

Client == job.kind = "client" /\ ClientNext /\ UNCHANGED <<job, out>>

Call(kind, outcome) ==
  /\ job.kind = kind
  /\ out = <<>>
  /\ out' = <<outcome>>
  /\ UNCHANGED <<clientVars, job>>

\* A query's filters on one partition.
Selecting == Call("select", Select(job.part, job.order, job.query))

\* The same query laid out in several ways, on one or more workers.
Shapes == {<<"None", "Var">>, <<"None", "String">>, <<"Addressed", "Var">>,
           <<"EntityMany", "Var">>, <<"Entity", "Var">>, <<"NativeDescribed", "Var">>,
           <<"Addressed", "Typed">>}
Shaped(q, shape) == [q EXCEPT !.description = shape[1], !.layout = shape[2]]
AnswerOf(workers, q) ==
  Then(Collect([k \in DOMAIN workers |->
         ProcessQuery(workers[k].part, workers[k].order, q)]), MergeAll)
Viewing ==
  Call("view", [shape \in Shapes |-> AnswerOf(job.workers, Shaped(job.query, shape))])

\* Data pulled in from a client, and a set command of a script.
Pulling == Call("pull", ServePull(job.ents, job.pack, job.pairs))
Setting ==
  Call("set", Then(SetNew(job.target, job.source), LAMBDA cmd : SetExecute(job.ents, cmd)))

\* An address and a value as texts, and read back; and the value coerced.
Basic == {"string", "int", "float", "bool"}
Reading ==
  Call("text",
       [address |-> AddressFrom(AddressText(job.addr)),
        local |-> LocalFrom(LocalText(ToLocal(job.addr))),
        short |-> ShortFrom(ShortText([ToLocal(job.addr) EXCEPT !.comp = ""])),
        value |-> ValueFromStr(TextOf(job.val), GetType(job.val)),
        coerced |-> [t \in Basic |-> Then(Coerce(job.val, <<t, "">>), LAMBDA v :
                                      Coerce(v, GetType(job.val)))]])

\* The variables of an entity as texts, each put back; and a component gone.
Exporting ==
  LET back(e) == Then(LocalFrom(e[1]), LAMBDA a : SetFromStr(job.store, StorageIndex(a), e[2]))
  IN  Call("store",
           [texts |-> [e \in AllAsStrings(job.store) |-> back(e)],
            rest |-> RemoveCompVars(job.store, job.comp),
            restOfModel |-> RemoveCompVarsModel(job.store, job.comp, job.names)])

\* A filter, a mapping, a product and a registration over the wire and back.
Sending ==
  Call("wire",
       [filter |-> FilterFromProto(FilterToProto(job.filter)),
        map |-> MapFromProto(MapToProto(job.map)),
        product |-> ProductFromProto(ProductToProto(job.product)),
        response |-> RegisterFromProto(
          [is_blocking |-> FALSE, auth_pair |-> <<>>,
           encodings |-> <<RegisterToProto(job.response).encoding, 0>>,
           transports |-> <<9, RegisterToProto(job.response).transport>>])])

\* A script is written as commands and directives.  A command is on a line of
\* its own ("line"), behind the last line and a semicolon ("after"), over two
\* lines ("split"), before a comment ("noted"), in one ("hidden"), or on the
\* line behind a comment that ends in a continuation sign ("open").
CommandNames == <<"c1", "c2", "c3", "c4", "c5">>
WordsOf(k, what) ==
  CASE what = "command" -> (IF k % 2 = 1 THEN <<"@", "t", "o", "=">> ELSE <<>>) \o <<CommandNames[k], "arg">>
    [] what = "print" -> <<"!", "print", "$">>
    [] OTHER -> <<"!", what>>
CommandOf(k) ==
  IF k % 2 = 1 THEN Instruction("command", "t", "o", CommandNames[k], <<"arg">>)
  ELSE Instruction("command", "", "", CommandNames[k], <<"arg">>)
LinesOf(words, how) ==
  CASE how = "split" -> <<<<words[1], "\\">>, Tail(words)>>
    [] how = "noted" -> <<words \o <<"#", "z">>>>
    [] how = "hidden" -> <<<<"#">> \o words>>
    [] how = "open" -> <<<<"#", "z", "\\">>, words>>
    [] OTHER -> <<words>>
\* The text, and of each thing written the line it begins at and the comment
\* it is in or behind: none, one behind another instruction, a whole line, or
\* one that continues.
Lay(s, w) ==
  LET words == WordsOf(Len(s.items) + 1, w.what)
      joins == w.how = "after" /\ s.lines # <<>>
      line == IF joins THEN Last(s.items).line ELSE Len(s.lines) + 1
      comment == CASE w.how = "hidden" -> "whole" [] w.how = "open" -> "open" [] joins -> s.comment [] OTHER -> ""
  IN  [lines |-> IF joins THEN Front(s.lines) \o <<Last(s.lines) \o <<";">> \o words>>
                 ELSE s.lines \o LinesOf(words, w.how),
       comment |-> IF w.how = "noted" THEN "behind" ELSE comment,
       items |-> Append(s.items, [what |-> w.what, line |-> line, comment |-> comment])]
Laid(written) == FoldLeft(Lay, [lines |-> <<>>, comment |-> "", items |-> <<>>], written)
Compiling == Call("script", FromScript(Laid(job.written).lines))

\* A model read from files; what scripts register, merged into it; and the
\* entities it starts with before and after.
Merged(model, others) == FoldLeft(MergeModel, model, others)
Loading ==
  Call("model",
       LET model == Load(job.fs)
       IN  [read |-> FromFiles(job.fs), model |-> model,
            before |-> Then(model, InitializeEntities),
            after |-> Then(model, LAMBDA m : InitializeEntities(Merged(m, job.registered)))])

Next ==
  \/ Client
  \/ Selecting \/ Viewing
  \/ Pulling \/ Setting
  \/ Reading \/ Exporting \/ Sending
  \/ Compiling
  \/ Loading
Spec == Init /\ [][Next]_vars

-----------------------------------------------------------------------------
(* Properties                                                                 *)

Done(kind) == job.kind = kind /\ out # <<>>
Result == out[1]

\* The filters of a query (query/process.rs) select the entities that meet every one
\* of them (query.rs:256-262), in memory and, if asked for, of the archive: with a
\* limit no more than the limit, without one all that are in memory. Not so where
\* Filter::Component stands behind another filter: there it starts from all entities
\* again (process.rs:225-236), and others may be selected too.
SelectionRight ==
  Done("select") /\ IsOk(Result) =>
    LET q == job.query
        meeting(ents) == {e \in DOMAIN ents : MeetsAll(e, ents[e], q.filters)}
        mem == ToSet(The(Result).mem)
        arch == ToSet(The(Result).arch)
        limited == q.limits # <<>> /\ q.filters # <<>>
    IN  /\ ~Forgets(q.filters) => mem \subseteq meeting(job.part.entities)
        /\ arch \subseteq meeting(job.part.archived)
        /\ arch # {} => q.archive = "Include"
        /\ IF limited
           THEN Len(The(Result).mem) <= q.limits[1] /\ Len(The(Result).arch) <= q.limits[1]
           ELSE meeting(job.part.entities) \subseteq mem

\* What a query returns (query/process.rs, query.rs, worker/mod.rs:1762) is
\* one set of data in whatever description: the bag of values, of their texts,
\* and the values by entity agree with the values by address, whatever way the
\* entities are spread over workers.  Two descriptions exist for one worker
\* only: with more, the query panics rather than leave something out.
ViewsAgree ==
  Done("view") =>
    LET by(d, l) == Result[<<d, l>>]
        addressed == The(Then(by("Addressed", "Var"), ToMap))
        vec(r) == The(Then(r, ToVec))
        values(K) == BagAt(addressed, K, LAMBDA v : v)
        entities == {a.entity : a \in DOMAIN addressed}
        ofEntity(e) == {a \in DOMAIN addressed : a.entity = e}
        typed == {a \in DOMAIN addressed : addressed[a].t \in {"int", "float", "bool"}}
    IN  IF ~IsOk(by("Addressed", "Var")) THEN \A s \in Shapes : ~IsOk(Result[s])
        ELSE /\ vec(by("None", "Var")) = values(DOMAIN addressed)
             /\ vec(by("Addressed", "Var")) = values(DOMAIN addressed)
             /\ The(by("None", "String")).data = BagAt(addressed, DOMAIN addressed, TextOf)
             /\ The(Then(by("EntityMany", "Var"), ToNamedMapMany)) =
                  [e \in entities |-> values(ofEntity(e))]
             /\ The(Then(by("Entity", "Var"), ToNamedMap)) =
                  [e \in entities |-> {addressed[a] : a \in ofEntity(e)}]
             /\ IsOk(by("NativeDescribed", "Var")) =>
                  Cardinality(DOMAIN The(by("NativeDescribed", "Var")).data)
                    = Cardinality(DOMAIN addressed)
             /\ IsOk(by("Addressed", "Typed")) =>
                  The(by("Addressed", "Typed")).data = [a \in typed |-> addressed[a]]

\* What a query selects and how its answer is laid out (query/process.rs,
\* query.rs): the right entities, and the same data in every description.
QueriesRight == SelectionRight /\ ViewsAgree

\* Data pulled in (server/mod.rs:704, worker/manager.rs:660).  A write is passed over
\* if it comes in another pack than addressed variables, or if its entity is not in
\* this worker's memory: the answer is the same "done" (server/mod.rs:706-720).  Of the
\* others, those in front of a write to a variable its entity does not have are carried
\* out, the last one to a variable being the one that stays; that write fails, with
\* the answer; and nothing else changes.
WritesLand ==
  Done("pull") =>
    LET passed(k) == job.pack # "AddressedVars" \/ job.pairs[k].addr.entity \notin DOMAIN job.ents
        missing(k) == ~passed(k) /\ ~IsOk(GetVarAt(job.ents, job.pairs[k].addr))
        carried == {k \in DOMAIN job.pairs : ~passed(k) /\ \A j \in 1..k : ~missing(j)}
        writes(e, idx) == {k \in carried : /\ job.pairs[k].addr.entity = e
                                           /\ StorageIndex(job.pairs[k].addr) = idx}
    IN  /\ Result.ok = \A k \in DOMAIN job.pairs : k \in carried \/ passed(k)
        /\ \A e \in DOMAIN job.ents : \A idx \in DOMAIN job.ents[e] :
             Result.ents[e][idx] =
               IF writes(e, idx) = {} THEN job.ents[e][idx]
               ELSE job.pairs[CHOOSE k \in writes(e, idx) : \A j \in writes(e, idx) : j <= k].val

\* A set command (machine/cmd/set.rs) that does not kill its machine has
\* written one variable, the one of its target, with a value that is or was
\* read from its source; a value given as a text has the target's type.  Not so
\* if the entity of its target is not in this worker's memory: then nothing is
\* written, and the machine goes on as if it were.
SetLands ==
  Done("set") /\ IsOk(Result) =>
    LET target == The(AddressFrom(job.target.parts))
        changed == {<<e, idx>> : e \in DOMAIN job.ents, idx \in UNION {DOMAIN job.ents[e2] : e2 \in DOMAIN job.ents}}
        is(ents, x) == IF x[1] \in DOMAIN ents /\ x[2] \in DOMAIN ents[x[1]] THEN <<ents[x[1]][x[2]]>> ELSE <<>>
        at == <<target.entity, StorageIndex(target)>>
    IN  /\ \A x \in changed : x # at => is(The(Result), x) = is(job.ents, x)
        /\ IF target.entity \notin DOMAIN job.ents THEN The(Result) = job.ents
           ELSE LET new == The(Result)[at[1]][at[2]]
                IN  IF Len(job.source.parts) > 1 THEN \E x \in changed : is(job.ents, x) = <<new>>
                    ELSE TextOf(new) = job.source.text /\ GetType(new) = target.type

\* A write, by a client's data pull (server/mod.rs:704) or by a script's set command
\* (machine/cmd/set.rs), is carried out where it was to be and nowhere else, or fails,
\* or is passed over for the reasons named above, which its caller is not told.
WritesRight == WritesLand /\ SetLands

\* A name without a separator, and an address that its text says.
Plain(name) == name \notin DOMAIN Dotted
Said(a) ==
  /\ \A field \in DOMAIN a \ {"type"} : Plain(a[field])
  /\ a.type \notin {<<"list", "">>, <<"grid", "">>, <<"grid", "string">>}

\* A text that stands for an address or a value (address.rs, var.rs) reads
\* back as what it was written for or not at all, and does read back if no
\* name in it has a separator and the type has a name; a value only if it has
\* no elements.  A value coerced to another type and back is itself, where
\* the other has room for it.
\* One kind of address reads back as another: a short one without a component whose
\* name has a separator is taken for one with a component, that is called like its
\* type, and of the type that its name begins with (address.rs:29-48, 120-133).
TextsRead ==
  Done("text") =>
    LET a == job.addr
        back(r, x, may) == (IsOk(r) => The(r) = x) /\ (may => IsOk(r))
        bare == [ToLocal(a) EXCEPT !.comp = ""]
    IN  /\ back(Result.address, a, Said(a))
        /\ back(Result.local, ToLocal(a), Said(ToLocal(a)))
        /\ IF Plain(a.name) THEN back(Result.short, bare, Said(bare))
           ELSE IsOk(Result.short) => /\ The(Result.short).comp = ToStr(a.type)
                                      /\ ToStr(The(Result.short).type) = Head(Dotted[a.name])
        /\ back(Result.value, job.val, job.val.t \notin {"vec2", "vec3", "list", "grid", "map"})
        /\ \A t \in Basic :
             t = job.val.t \/ <<job.val.t, t>> \in {<<"int", "float">>, <<"bool", "int">>, <<"bool", "float">>}
             => Result.coerced[t] = Ok(job.val)

\* What an entity's variables are printed as (entity/storage.rs) says each of
\* them, and what is set from it is the variable it was; a component that
\* goes takes its own variables and nothing else.
ExportSaysAll ==
  Done("store") =>
    LET store == job.store
        scalar(v) == v.t \notin {"vec2", "vec3", "list", "grid", "map"}
        others(gone) == DOMAIN store \ ({job.comp} \X gone)
        all == {idx[2] : idx \in DOMAIN store}
    IN  /\ \A e \in DOMAIN Result.texts : IsOk(Result.texts[e]) => The(Result.texts[e]) = store
        /\ \A idx \in DOMAIN store : Plain(idx[1]) /\ Plain(idx[2]) =>
             \E e \in DOMAIN Result.texts :
               /\ Head(e[1]) = idx[1] /\ Last(e[1]) = idx[2]
               /\ scalar(store[idx]) => IsOk(Result.texts[e])
        /\ Result.rest = [idx \in others(all) |-> store[idx]]
        /\ Result.restOfModel = [idx \in others(job.names) |-> store[idx]]

\* A request and an answer cross the wire (server/grpc/conversions.rs) as what
\* they were, or not at all, but for what the wire cannot say: bounds become
\* texts and a type of elements is lost, an address that cannot be read back is
\* replaced in a filter and dropped from a mapping, a product of another kind
\* than values by themselves or by address is empty, and of a registration the
\* transports without a number are left out.
WireKeeps ==
  Done("wire") =>
    LET f == job.filter
        g == The(Result.filter)
        texts == IF f.kind \in {"VarRange", "AttrRange"}
                 THEN <<TextOf(f.low), TextOf(f.high)>> ELSE <<f.low, f.high>>
        m == job.map
        typed == IF m.kind # "VarType" \/ m.names[2] = "" THEN m.names ELSE <<"string", "">>
        p == job.product
        back == Result.product
    IN  /\ IsOk(Result.filter) =>
             /\ <<g.kind, g.names, g.low, g.high>> = <<f.kind, f.names, texts[1], texts[2]>>
             /\ Len(g.addr) = Len(f.addr)
             /\ \A k \in DOMAIN f.addr : Said(f.addr[k]) => g.addr[k] = f.addr[k]
        /\ IsOk(Result.map) =>
             The(Result.map) = [m EXCEPT !.names = typed, !.addrs = SelectSeq(@, Said)]
        /\ IsOk(back) => The(back) = IF p.kind \in {"Var", "AddressedVar"} THEN p ELSE Empty
        /\ p.kind = "AddressedVar" /\ (\A a \in DOMAIN p.data : Said(a)) => IsOk(back)
        /\ p.kind # "AddressedVar" => IsOk(back)
        /\ Result.response.encodings = <<job.response.encoding>>
        /\ ToSet(Result.response.transports) \subseteq
             {job.response.transport} \cup
             (IF job.response.transport = "SecureWebSocket" THEN {"WebSocket"} ELSE {})

\* What leaves as a text (address.rs, var.rs, entity/storage.rs) or as a message
\* (server/grpc/conversions.rs) comes back as what it was or not at all, but for
\* the short addresses and the parts of messages that are named above.
RoundTrips == TextsRead /\ ExportSaysAll /\ WireKeeps

\* A machine runs the commands of its script's text (machine/script): those that
\* were written and no others, in order and with the lines they begin at, however
\* they are laid out: cut by semicolons, continued, followed by a comment; those in a
\* comment are not run (script/mod.rs:66-81).  Conditions are balanced, but for a last
\* one that stays open, or the script is refused; it is too for an include, which the
\* code does not know the file of, and for a print of a name.
\* Where the code and the documents differ, either is accepted here:
\* - a command behind a comment that ends in a continuation sign is lost with it
\*   (parser.rs:63-94);
\* - a command behind a semicolon in a comment is run (parser.rs:96-112), though what
\*   is behind a '#' is to be ignored (examples/tour/behaviors/script.bw:27-30);
\* - of a condition one branch is to be run (preprocessor.rs:142-143); the code runs
\*   neither, and all that is claimed is that it never runs both.
ScriptsRight ==
  Done("script") =>
    LET items == Laid(job.written).items
        marks(k) == {j \in 1..(k - 1) : items[j].what \in {"if", "else", "endif"}}
        last(k) == IF marks(k) = {} THEN 0 ELSE CHOOSE j \in marks(k) : \A i \in marks(k) : i <= j
        at(k) == IF last(k) = 0 THEN "endif" ELSE items[last(k)].what
        follows(k) ==
          CASE items[k].what = "if" -> at(k) = "endif"
            [] items[k].what = "else" -> at(k) = "if"
            [] items[k].what = "endif" -> at(k) # "endif"
            [] items[k].what = "print" -> at(k) = "if"
            [] OTHER -> items[k].what # "include"
        may == {k \in DOMAIN items : items[k].what = "command" /\ items[k].comment # "whole"}
        must == {k \in may : items[k].comment = "" /\ at(k) = "endif"}
        ran == {k \in may : \E j \in DOMAIN The(Result) : The(Result)[j].instr = CommandOf(k)}
    IN  /\ IsOk(Result) = \A k \in DOMAIN items : follows(k)
        /\ IsOk(Result) =>
             /\ must \subseteq ran
             /\ LET order == SetToSortSeq(ran, <)
                IN  The(Result) = [j \in DOMAIN order |->
                                     [line |-> items[order[j]].line, instr |-> CommandOf(order[j])]]
             /\ ~\E i, k \in ran : at(i) = "if" /\ at(k) = "else" /\ last(last(k)) = last(i)

\* The paths an include leads to: the files of a directory, which may be written
\* with a "/*" behind it, or what the file includes.
Beside(path, include) == IF path = <<>> THEN include ELSE Parent(path) \o include
Directory(path) == IF Len(path) > 1 /\ Last(path) = "*" THEN Front(path) ELSE path
Included(fs, path) ==
  LET dir == Directory(path)
  IN  IF dir \in DOMAIN fs.dirs THEN [k \in DOMAIN fs.dirs[dir] |-> Append(dir, fs.dirs[dir][k])]
      ELSE IF path \in DOMAIN fs.files
      THEN [k \in DOMAIN fs.files[path].includes |-> Beside(path, fs.files[path].includes[k])]
      ELSE <<>>
\* All walks along includes from path, as the sequence of their ends; one that
\* comes back to where it was ends in "again", one that leads nowhere in "lost".
RECURSIVE Walks(_, _, _)
Walks(fs, path, seen) ==
  IF path \in seen THEN <<<<"again">>>>
  ELSE IF path \notin DOMAIN fs.files /\ Directory(path) \notin DOMAIN fs.dirs THEN <<<<"lost">>>>
  ELSE <<path>> \o FlattenSeq([k \in DOMAIN Included(fs, path) |->
                     Walks(fs, Included(fs, path)[k], seen \cup {path})])

\* Reading a model (model/intermediate.rs) takes in every file its includes
\* lead to, once for every way that leads to it, each path being relative to
\* the file that names it, for the behaviors' scripts too; it fails for a
\* missing file, and does not end if an include comes back to its file.  The "*" of a
\* manifest, which is to include all files (examples/tour/model.toml:35-36), is a
\* missing file: only an end "/*" is taken for a directory (intermediate.rs:71).
IncludesRight ==
  Done("model") =>
    LET fs == job.fs
        walks == Walks(fs, <<"model">>, {})
        files == SelectSeq(walks, LAMBDA p : p \in DOMAIN fs.files)
        count(c) == Cardinality({<<k, j>> \in (DOMAIN files) \X (1..3) :
                       /\ j \in DOMAIN fs.files[files[k]].components
                       /\ fs.files[files[k]].components[j] = c})
        read == The(Result.read)
    IN  IF <<"again">> \in ToSet(walks) THEN ~IsOk(Result.read)
        ELSE IF <<"lost">> \in ToSet(walks) THEN Result.read = Err
        ELSE /\ IsOk(Result.read)
             /\ \A p \in ToSet(files) : \A c \in ToSet(fs.files[p].components) :
                  Cardinality({j \in DOMAIN read.components : read.components[j] = c}) = count(c)
             /\ \A p \in ToSet(files) : \A b \in ToSet(fs.files[p].behaviors) :
                  b.path # <<>> /\ b.type # "rust" =>
                    \E r \in ToSet(read.behaviors) : r.name = b.name /\ r.path = Parent(p) \o b.path

\* The entities a model starts with (entity/mod.rs, model/mod.rs) have the
\* components of their prefab and exactly the variables of one definition of
\* each, that of the manifest if it has one; each has a value, the default
\* that was written, or the one of the type it was declared with.  The data the model
\* gives an entity to start with is not sent along (leader/mod.rs:818-823): the values
\* are those of the definitions whatever it says.
SpawnedAsDefined ==
  Done("model") /\ IsOk(Result.before) =>
    LET ents == The(Result.before)
        root == job.fs.files[<<"model">>]
        defs(c) == IF \E j \in DOMAIN root.components : root.components[j].name = c
                   THEN ToSet(root.components)
                   ELSE UNION {ToSet(job.fs.files[p].components) : p \in DOMAIN job.fs.files}
        fits(e, d) ==
          /\ {idx[2] : idx \in {idx \in DOMAIN e.store : idx[1] = d.name}} = {Last(k) : k \in DOMAIN d.vars}
          /\ \A k \in DOMAIN d.vars :
               d.vars[k].t \notin {"list", "map"} => e.store[<<d.name, Last(k)>>] = JsonLeaf(d.vars[k])
        start == {e \in ToSet(The(Result.read).entities) : e.prefab # <<>>}
    IN  /\ \A e \in start : \E p \in ToSet(The(Result.read).prefabs) :
             p.name = e.prefab[1] /\ ents[e.name].comps = ToSet(p.components)
        /\ \A name \in DOMAIN ents : \A c \in ents[name].comps :
          \E d \in defs(c) : d.name = c /\ fits(ents[name], d)

\* What scripts register at run time (machine/cmd/register.rs) changes no
\* entity that the model could spawn before (model/mod.rs, merge).
MergeKeeps ==
  Done("model") /\ IsOk(Result.before) =>
    /\ IsOk(Result.after)
    /\ \A name \in DOMAIN The(Result.before) : The(Result.after)[name] = The(Result.before)[name]

\* A model is what its files and its includes say (model/intermediate.rs), its
\* entities are spawned with the components and the defaults defined there, and what
\* is merged later (model/mod.rs) does not change them.
ModelsRight == IncludesRight /\ SpawnedAsDefined /\ MergeKeeps
=============================================================================
