----------------------------- MODULE ModelFiles -----------------------------
(* Models: reading one from files (model/intermediate.rs), normalising it     *)
(* (model/mod.rs, model/behavior.rs), merging models, and the commands that   *)
(* register parts of one (machine/cmd/register.rs).                           *)
(*                                                                            *)
(* A path is a sequence of names, <<>> the root.  A file system is            *)
(* [files, dirs, texts]: functions from paths to intermediate models, to the  *)
(* names in a directory, and to scripts.  Loading stops after MaxReads        *)
(* includes with the outcome Endless.                                         *)
EXTENDS ScriptText

CONSTANTS MaxReads, LuaNames   \* LuaNames: the names with ".lua" in them

ASSUME MaxReadsAssumption == MaxReads \in Nat

Endless == [st |-> "endless", val |-> <<>>]

Parent(path) == SubSeq(path, 1, Len(path) - 1)
Or(option, other) == IF option # <<>> THEN option ELSE other

-----------------------------------------------------------------------------
(* The intermediate model                                                     *)

MergeIntermediate(m, o) ==
  [name |-> Or(m.name, o.name), includes |-> m.includes \o o.includes,
   scenarios |-> m.scenarios \o o.scenarios, behaviors |-> m.behaviors \o o.behaviors,
   components |-> m.components \o o.components, prefabs |-> m.prefabs \o o.prefabs,
   entities |-> m.entities \o o.entities]

\* What is in a directory, for a path that names one; an end "/*" is taken off
\* first, a path that is "*" stays what it is.
Plainly(path) == IF Len(path) > 1 /\ Last(path) = "*" THEN Parent(path) ELSE path
Listing(fs, path) ==
  [k \in DOMAIN fs.dirs[Plainly(path)] |-> Append(Plainly(path), fs.dirs[Plainly(path)][k])]

\* The paths of an included file are made relative to the file system.  A rust
\* behavior's library has a place of its own.
Artifact(b) ==
  IF b.type # "rust" THEN b.lib
  ELSE <<"target", IF b.debug THEN "debug" ELSE "release", "lib" \o b.name \o ".so">>
NormalBehavior(b, path) ==
  [b EXCEPT !.lib = Parent(path) \o b.path \o Artifact(b),
            !.path = IF b.path = <<>> /\ b.type # "rust" THEN path ELSE Parent(path) \o b.path]
\* Variant: the paths of included files stay as they are.
NormalIncludesNever(includes, path) == includes
NormalIncludes(includes, path) == [k \in DOMAIN includes |-> Parent(path) \o includes[k]]
Normal(m, path) ==
  [m EXCEPT !.includes = NormalIncludes(m.includes, path),
            !.behaviors = [k \in DOMAIN @ |-> NormalBehavior(@[k], path)]]

\* One turn of the include loop, on [stack, model, st].
IncludeNext(fs, s) ==
  LET path == Last(s.stack)
      rest == Front(s.stack)
      file == Normal(fs.files[path], path)
  IN  IF s.st # "ok" \/ s.stack = <<>> THEN s
      ELSE IF Plainly(path) \in DOMAIN fs.dirs
      THEN [s EXCEPT !.stack = rest \o Listing(fs, path)]
      ELSE IF path \notin DOMAIN fs.files THEN [s EXCEPT !.st = "err"]
      ELSE [s EXCEPT !.stack = rest \o file.includes, !.model = MergeIntermediate(@, file)]
FromFiles(fs) ==
  LET root == fs.files[<<"model">>]
      end == FoldLeft(LAMBDA s, k : IncludeNext(fs, s),
                      [stack |-> root.includes, model |-> root, st |-> "ok"],
                      [k \in 1..MaxReads |-> k])
  IN  IF <<"model">> \notin DOMAIN fs.files \/ end.st = "err" THEN Err
      ELSE IF end.stack # <<>> THEN Endless ELSE Ok(end.model)

-----------------------------------------------------------------------------
(* The model                                                                  *)

\* Behavior::from_intermediate.  The script of a machine is read from the disk
\* (nothing is there here), not from the file system given; what cargo builds
\* is taken to be where the behavior says.
Script(fs, b) ==
  IF b.script # <<>> THEN Ok(b.script[1])
  ELSE IF b.path \in DOMAIN fs.texts THEN Ok(fs.texts[b.path]) ELSE Err
IsLua(path) == \E k \in DOMAIN path : path[k] \in LuaNames
Inner(kind, content, b) == [kind |-> kind, content |-> content, synced |-> b.synced]
Lua(fs, b) == Then(Script(fs, b), LAMBDA s : Ok(Inner("Lua", s, b)))
InnerOf(fs, b) ==
  CASE b.type = "lua" -> Lua(fs, b)
    [] b.type = "machine" ->
         IF b.script = <<>> THEN Err
         ELSE Then(FromScript(b.script[1]), LAMBDA logic : Ok(Inner("Machine", b.script[1], b)))
    [] b.type = "rust" -> Ok(Inner("Dynlib", b.lib, b))
    [] b.type = "wasm" -> Ok(Inner("Wasm", b.lib, b))
    [] OTHER -> IF IsLua(b.path) \/ b.script # <<>> THEN Lua(fs, b) ELSE Err

Targets(b) ==
  LET keys == DOMAIN b.targets
  IN  IF ~(keys \subseteq {"global", "worker", "components"}) THEN Panic
      ELSE Ok((IF "global" \in keys THEN {<<"GlobalSingleton">>} ELSE {})
              \cup (IF "worker" \in keys /\ "all" \in ToSet(b.targets["worker"])
                    THEN {<<"PerWorker">>} ELSE {})
              \cup (IF "components" \in keys
                    THEN {<<"PerEntityWithAllComponents", b.targets["components"]>>} ELSE {}))
BehaviorFrom(fs, b) ==
  Then(InnerOf(fs, b), LAMBDA inner : Then(Targets(b), LAMBDA targets :
    Ok([name |-> b.name, triggers |-> b.triggers, targets |-> targets, inner |-> inner])))

\* A variable with a bare name is declared an int if its default is a string,
\* and a string if it is a number.
Key(key, j) ==
  CASE Len(key) > 1 -> key
    [] j.form # "null" /\ j.t = "string" -> <<"int">> \o key
    [] j.form # "null" /\ j.t \in {"int", "float"} -> <<"string">> \o key
    [] OTHER -> key
VarNew(key, j) ==
  LET short == ShortFrom(key)
      addr == IF short = Err THEN ShortFromWithType(key, JsonType(j)) ELSE short
  IN  Then(addr, LAMBDA a : Then(FromJson(a.type, j), LAMBDA default :
        Ok([name |-> a.name, type |-> a.type, default |-> <<default>>])))

\* The variables of a component come in no particular order.
ComponentFrom(c) ==
  LET vars == {VarNew(Key(k, c.vars[k]), c.vars[k]) : k \in DOMAIN c.vars}
      fails == {v \in vars : ~IsOk(v)}
  IN  IF fails # {} THEN CHOOSE v \in fails : TRUE
      ELSE Ok([name |-> c.name, vars |-> {The(v) : v \in vars}])

\* The key of a start value has to be an address.
EntityFrom(e) ==
  LET data == {Then(LocalFrom(k), LAMBDA a : Then(FromJson(<<"none", "">>, e.data[k]),
                      LAMBDA v : Ok(<<a, v>>))) : k \in DOMAIN e.data}
  IN  IF \E d \in data : ~IsOk(d) THEN Panic
      ELSE Ok([name |-> e.name, prefab |-> e.prefab, data |-> {The(d) : d \in data}])

FromIntermediate(fs, im) ==
  LET components == Collect([k \in DOMAIN im.components |-> ComponentFrom(im.components[k])])
      behaviors == Collect([k \in DOMAIN im.behaviors |-> BehaviorFrom(fs, im.behaviors[k])])
      entities == Collect([k \in DOMAIN im.entities |-> EntityFrom(im.entities[k])])
  IN  Then(components, LAMBDA cs : Then(behaviors, LAMBDA bs : Then(entities, LAMBDA es :
        Ok([scenarios |-> im.scenarios, components |-> cs, prefabs |-> im.prefabs,
            behaviors |-> bs, entities |-> es]))))
Load(fs) == Then(FromFiles(fs), LAMBDA im : FromIntermediate(fs, im))

\* Variant: what is merged goes first.
MergeModelFirst(m, o) ==
  [m EXCEPT !.prefabs = o.prefabs \o @, !.components = o.components \o @,
            !.entities = @ \o o.entities]
\* Model::merge: a prefab that is there stays; neither behaviors nor
\* scenarios are taken over.
HasPrefab(prefabs, name) == \E k \in DOMAIN prefabs : prefabs[k].name = name
MergeModel(m, o) ==
  [m EXCEPT !.prefabs = FoldLeft(LAMBDA ps, p : IF HasPrefab(ps, p.name) THEN ps ELSE Append(ps, p),
                                 @, o.prefabs),
            !.components = @ \o o.components,
            !.entities = @ \o o.entities]

\* get_prefab and get_component: the first of the name.
FindFirst(defs, name) ==
  LET those == SelectSeq(defs, LAMBDA d : d.name = name)
  IN  IF those = <<>> THEN Err ELSE Ok(those[1])

-----------------------------------------------------------------------------
(* Entities of a model (entity/mod.rs, worker/part.rs, leader/mod.rs)         *)

\* Variant: the default that was written is passed over.
InitialOfType(var) == DefaultValue(var.type)
\* Entity::attach: the variables of the component with their defaults, or
\* those of their types.
Initial(var) == Or(var.default, <<DefaultValue(var.type)>>)[1]
Attach(e, comp, model) ==
  Then(FindFirst(model.components, comp), LAMBDA c :
    LET new == {<<comp, v.name>> : v \in c.vars}
        value(idx) == Initial(CHOOSE v \in c.vars : v.name = idx[2])
    IN  Ok([comps |-> e.comps \cup {comp},
            store |-> [idx \in DOMAIN e.store \cup new |->
                         IF idx \in new THEN value(idx) ELSE e.store[idx]]]))
NoEntity == [comps |-> {}, store |-> <<>>]
FromPrefab(prefab, model) ==
  FoldLeft(LAMBDA e, comp : Then(e, LAMBDA ent : Attach(ent, comp, model)),
           Ok(NoEntity), prefab.components)

\* Partition::spawn_entity, for the entities a model starts with.  (The start
\* values the model gives them are not sent along.)
SpawnEntity(ents, name, prefab, model) ==
  Then(IF prefab = <<>> THEN Ok(NoEntity)
       ELSE Then(FindFirst(model.prefabs, prefab[1]), LAMBDA p : FromPrefab(p, model)),
    LAMBDA e : Ok(Put(ents, name, e)))
InitializeEntities(model) ==
  FoldLeft(LAMBDA res, e : Then(res, LAMBDA ents : SpawnEntity(ents, e.name, e.prefab, model)),
           Ok(<<>>), model.entities)

-----------------------------------------------------------------------------
(* Registering from a script                                                  *)

NoModel == [scenarios |-> <<>>, components |-> <<>>, prefabs |-> <<>>,
            behaviors |-> <<>>, entities |-> <<>>]

\* `register var`: only a number is taken for a default.
RegisterVarNew(free, default) ==
  IF free = <<>> \/ ShortFrom(free[1]) = Err THEN Err
  ELSE Then(ShortFrom(free[1]), LAMBDA a :
         Ok([name |-> a.name, type |-> a.type,
             default |-> IF default = <<>> \/ ~IsOk(ParseFloat(default[1])) THEN <<>>
                         ELSE <<The(ParseFloat(default[1]))>>]))
\* `register prefab`: an option may be given once; what it sets is read, and
\* then not used.
RegisterPrefabNew(name, comps, setters) ==
  IF Len(comps) > 1 \/ Len(setters) > 1 THEN Err
  ELSE IF \E k \in DOMAIN setters : \/ ~IsOk(LocalFrom(setters[k][1]))
                                    \/ ~IsOk(ValueGuessed(setters[k][2]))
  THEN Panic ELSE Ok([name |-> name, components |-> comps])
RegisterPrefab(prefab) == [NoModel EXCEPT !.prefabs = <<prefab>>]
RegisterComponent(name, vars) ==
  [NoModel EXCEPT !.components = <<[name |-> name, vars |-> vars]>>]
=============================================================================
