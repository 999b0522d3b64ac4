------------------------------- MODULE Script -------------------------------
(***************************************************************************)
(* What a machine's script means.  A script is a list of commands, one per *)
(* line; some of them open a block that the matching "end" closes.  A run  *)
(* goes through the body of one state, or of the whole script, skips the   *)
(* procedures and states it meets on the way, skips an "if" that is false, *)
(* goes into the procedures it calls and comes back behind the call, and   *)
(* registers each component block with the variables declared in it, if    *)
(* the cluster takes it.                                                   *)
(*                                                                         *)
(* Machine implements this specification for the scripts of Supported,     *)
(* with blocks found by a search and a call stack of bounded size.         *)
(***************************************************************************)
EXTENDS Naturals, Sequences, FiniteSets

CONSTANTS
  StateNames,
  None          \* no component open

VARIABLES
  program,      \* the commands: a sequence of records [op, name]
  state,        \* name of the state the next run starts in
  line,         \* next line of the run, 0 when there is none
  until,        \* line before which the run ends
  returns,      \* call and end lines of the procedures being run
  open,         \* the component block being run, [name, vars], or None
  merged,       \* components registered so far
  alive,        \* FALSE once the machine has failed or was stopped
  stopped       \* TRUE once it was stopped from outside

vars == <<program, state, line, until, returns, open, merged, alive, stopped>>

Openers == {"if", "loop", "for", "proc", "state", "component", "machine"}

Lines(p) == 1..Len(p)
Count(p, i, j, ops) == Cardinality({l \in i..j : p[l].op \in ops})

\* The "end" that closes the block opened on line i; 0 if it is missing.
Partner(p, i) ==
  LET Closed(j) == Count(p, i, j, Openers) = Count(p, i, j, {"end"})
      ends == {j \in i..Len(p) : Closed(j)}
  IN  IF ends = {} THEN 0 ELSE CHOOSE j \in ends : \A k \in ends : j <= k

\* The innermost block around line i; 0 at the top of the script.
Around(p, i) ==
  LET blocks == {l \in 1..(i - 1) : p[l].op \in Openers /\ Partner(p, l) >= i}
  IN  IF blocks = {} THEN 0 ELSE CHOOSE l \in blocks : \A k \in blocks : k <= l

\* The block that the "end" on line i closes.
OpenerOf(p, i) == CHOOSE l \in Lines(p) : p[l].op \in Openers /\ Partner(p, l) = i

\* The last declaration of a name counts.
Declared(p, op, n) ==
  LET ls == {l \in Lines(p) : p[l] = [op |-> op, name |-> n]}
  IN  IF ls = {} THEN 0 ELSE CHOOSE l \in ls : \A k \in ls : k <= l

Init ==
  /\ state \in StateNames
  /\ line = 0 /\ until = 0 /\ returns = <<>> /\ open = None
  /\ merged = {} /\ alive = TRUE /\ stopped = FALSE

-----------------------------------------------------------------------------
Rest == line = 0 /\ alive
At(ops) == alive /\ line \in Lines(program) /\ program[line].op \in ops
           /\ ~(returns = <<>> /\ open = None /\ line >= until)
Pass(l) == line' = l /\ UNCHANGED <<program, state, until, returns, open, merged, alive, stopped>>

Begin(s, first, end) ==
  /\ Rest
  /\ state' = s /\ line' = first /\ until' = end
  /\ UNCHANGED <<program, returns, open, merged, alive, stopped>>

BeginState ==
  LET l == Declared(program, "state", state)
  IN  l # 0 /\ state # "_main" /\ Begin(state, l + 1, Partner(program, l))

\* The whole script is the body of the state "_main", and what is run if the
\* script declares no states.
Stateless(p) ==
  \A l \in Lines(p) : p[l].op = "state" => p[l].name = "_main"
BeginWhole ==
  /\ state = "_main" \/ Stateless(program)
  /\ Begin("_main", 1, Len(program) + 1)

Finish ==
  /\ alive /\ line > 0
  /\ line > Len(program) \/ (returns = <<>> /\ open = None /\ line >= until)
  /\ line' = 0 /\ until' = 0
  /\ UNCHANGED <<program, state, returns, open, merged, alive, stopped>>

Ordinary == At({"act", "log", "machine"}) /\ Pass(line + 1)
If == At({"if"}) /\ \/ Pass(line + 1)
                    \/ Pass(Partner(program, line) + 1)
Skip == At({"proc", "state"}) /\ Pass(Partner(program, line) + 1)

Goto ==
  /\ At({"goto"})
  /\ line' = line + 1 /\ state' = program[line].name
  /\ UNCHANGED <<program, until, returns, open, merged, alive, stopped>>

Call ==
  LET l == Declared(program, "proc", program[line].name)
  IN  /\ At({"call"}) /\ l # 0
      /\ line' = l + 1
      /\ returns' = Append(returns, [call |-> line, end |-> Partner(program, l)])
      /\ UNCHANGED <<program, state, until, open, merged, alive, stopped>>

Component ==
  /\ At({"component"})
  /\ line' = line + 1
  /\ open' = [name |-> program[line].name, vars |-> {}]
  /\ UNCHANGED <<program, state, until, returns, merged, alive, stopped>>

Var ==
  /\ At({"var"})
  /\ line' = line + 1
  /\ open' = IF open = None THEN None
             ELSE [open EXCEPT !.vars = @ \cup {program[line].name}]
  /\ UNCHANGED <<program, state, until, returns, merged, alive, stopped>>

EndProc ==
  /\ At({"end"}) /\ program[OpenerOf(program, line)].op = "proc"
  /\ returns # <<>> /\ returns[Len(returns)].end = line
  /\ line' = returns[Len(returns)].call + 1
  /\ returns' = SubSeq(returns, 1, Len(returns) - 1)
  /\ UNCHANGED <<program, state, until, open, merged, alive, stopped>>

\* The cluster may refuse the component, or not be there: nobody is told.
EndComponent ==
  /\ At({"end"}) /\ program[OpenerOf(program, line)].op = "component"
  /\ open # None
  /\ line' = line + 1 /\ open' = None
  /\ merged' = merged \cup {open} \/ merged' = merged
  /\ UNCHANGED <<program, state, until, returns, alive, stopped>>

EndOther ==
  /\ At({"end"}) /\ program[OpenerOf(program, line)].op \notin {"proc", "component"}
  /\ Pass(line + 1)

\* Between runs, clients make the machine change its state and shut it down.
Redirect(s) ==
  /\ Rest /\ state' = s
  /\ UNCHANGED <<program, line, until, returns, open, merged, alive, stopped>>

Stop ==
  /\ Rest
  /\ alive' = FALSE /\ stopped' = TRUE
  /\ UNCHANGED <<program, state, line, until, returns, open, merged>>

\* A run is asked for in a state that a script with states does not declare.
NoState ==
  /\ Rest /\ ~Stateless(program)
  /\ state # "_main" /\ Declared(program, "state", state) = 0

\* A machine may fail where it has no state to run, where a command asks others
\* for something or takes up space on its stack, and nowhere else.
Fails ==
  /\ NoState \/ At({"act", "if", "call", "component"})
  /\ alive' = FALSE /\ line' = 0 /\ until' = 0 /\ returns' = <<>> /\ open' = None
  /\ UNCHANGED <<program, state, merged, stopped>>

Next ==
  \/ BeginState \/ BeginWhole \/ Finish
  \/ Stop \/ Fails \/ \E s \in StateNames : Redirect(s)
  \/ Ordinary \/ If \/ Skip \/ Goto \/ Call \/ Component \/ Var
  \/ EndProc \/ EndComponent \/ EndOther

Spec == Init /\ [][Next]_vars
=============================================================================
