------------------------------ MODULE Machine ------------------------------
(***************************************************************************)
(* The interpreter of machine scripts.                                     *)
(*                                                                         *)
(* A machine is a task that serves one request at a time.  A Step request, *)
(* or an event it is triggered by, makes it fetch its logic through its    *)
(* worker and run it from the first line of its current state until the    *)
(* state's last line, with a call stack of bounded size.  Clients may also *)
(* execute single commands on it, or shut it down.  The task ends, and     *)
(* with it the machine, when it fails to fetch the logic or does not find  *)
(* its state in it, and when a command panics.                             *)
(*                                                                         *)
(* Lines are counted from 1.  Commands are kept apart as far as control    *)
(* goes: "log" stands for those that always succeed (print, spawn, invoke, *)
(* and query and trigger, which are never executed), "act" for those that  *)
(* may panic (set, eval, prefab).  Conditions depend on variables that     *)
(* anybody may write, so they may have any value.                          *)
(***************************************************************************)
EXTENDS Naturals, Sequences, FiniteSets

CONSTANTS
  Programs,     \* the scripts: sequences of commands [op, name]
  StateNames,   \* names of states, "start" and "_main" among them
  ProcNames,    \* names of procedures
  CompNames,    \* names of components
  VarNames,     \* names of variables of components
  Depth,        \* capacity of the call stack (32 in the code)
  None          \* no name, and no component

Unnamed == {"act", "log", "machine", "if", "else", "loop", "break", "for", "end"}
Command ==
  [op : Unnamed, name : {None}]
  \cup [op : {"state", "goto"}, name : StateNames]
  \cup [op : {"proc", "call"}, name : ProcNames]
  \cup [op : {"component"}, name : CompNames]
  \cup [op : {"var"}, name : VarNames]

ASSUME MachineAssumption ==
  /\ Depth \in Nat \ {0}
  /\ {"start", "_main"} \subseteq StateNames
  /\ Programs \subseteq Seq(Command)
  /\ \A c \in CompNames, v \in SUBSET VarNames : None # [name |-> c, vars |-> v]

VARIABLES
  program,      \* Logic.commands of the machine's behavior
  state,        \* Machine.state
  line,         \* execute's cmd_n, 0 when nothing is being executed
  until,        \* execute's end
  stack,        \* execute's call_stack
  merged,       \* components the machine had merged into the model
  alive,        \* the task is there
  stopped       \* history: it was shut down, or was not given its logic

vars == <<program, state, line, until, stack, merged, alive, stopped>>

Frame == [kind : {"if"}]
         \cup [kind : {"loop"}, start : Nat]
         \cup [kind : {"proc"}, call : Nat, end : Nat]
         \cup [kind : {"component"}, name : CompNames, vars : SUBSET VarNames]

-----------------------------------------------------------------------------
(* Loading: finding the ends of blocks. *)

Openers == {"if", "loop", "for", "proc", "state", "component", "machine"}

\* The commands that each block command's constructor gives the search as
\* openings of other blocks (start_blocks).
IfOthers == {"proc", "for"}
LoopOthers == {"proc", "for"}
ProcedureOthers == {"if", "else", "for", "state"}
ForInOthers == {"if", "else", "for", "proc"}
StateOthers == {"if", "else", "for", "proc", "component"}
ComponentOthers == {"if", "else", "for", "proc", "state"}
MachineOthers == {"if", "else", "for", "proc", "state"}
Others == [if |-> IfOthers, loop |-> LoopOthers, proc |-> ProcedureOthers,
           for |-> ForInOthers, state |-> StateOthers,
           component |-> ComponentOthers, machine |-> MachineOthers]
Middles(kind) == IF kind = "if" THEN {"else"} ELSE {}

NotFound == [end |-> 0, elses |-> {}]
Else(l, found) == [found EXCEPT !.elses = @ \cup {l}]

\* Mutant of Scan: a block of the same kind is counted like any other, so
\* that an "else" in it is taken for its own.
ScanNoSkip(p, kind, at, l, diff) ==
  IF l > Len(p) THEN NotFound
  ELSE CASE p[l].op \in Others[kind] \cup {kind} -> at[l + 1][diff + 1]
         [] p[l].op \in Middles(kind) -> Else(l, at[l + 1][diff])
         [] p[l].op = "end" ->
              IF diff > 0 THEN at[l + 1][diff - 1] ELSE [end |-> l, elses |-> {}]
         [] OTHER -> at[l + 1][diff]

\* What is found from line l on, with diff other blocks open; at is what is
\* found from the lines behind it. A block of the same kind is skipped by a
\* search of its own.
Scan(p, kind, at, l, diff) ==
  IF l > Len(p) THEN NotFound
  ELSE CASE p[l].op \in Others[kind] -> at[l + 1][diff + 1]
         [] p[l].op \in Middles(kind) -> Else(l, at[l + 1][diff])
         [] p[l].op = "end" ->
              IF diff > 0 THEN at[l + 1][diff - 1] ELSE [end |-> l, elses |-> {}]
         [] p[l].op \in {kind} \ Others[kind] ->
              LET inner == at[l + 1][0]
              IN  IF inner.end = 0 THEN NotFound ELSE at[inner.end + 1][diff]
         [] OTHER -> at[l + 1][diff]

Search(p, kind, from) ==
  LET at[l \in Nat] == [diff \in Nat |-> Scan(p, kind, at, l, diff)]
  IN  at[from][0]

Block(p, l) == Search(p, p[l].op, l + 1)
EndOf(p, l) == Block(p, l).end

\* A script is loaded if each of its blocks has an end.
Loads(p) == \A l \in 1..Len(p) : p[l].op \in Openers => EndOf(p, l) # 0

\* Later declarations of a name replace earlier ones, and "_main" is the whole
\* script whatever the script declares.
Declaration(p, op, name) ==
  LET ls == {l \in 1..Len(p) : p[l] = [op |-> op, name |-> name]}
  IN  IF ls = {} THEN 0 ELSE CHOOSE l \in ls : \A k \in ls : k <= l

DeclaredStates(p) == {p[l].name : l \in {k \in 1..Len(p) : p[k].op = "state"}}
                     \cup {"_main"}

First(p, s) == IF s = "_main" THEN 1 ELSE Declaration(p, "state", s) + 1
Until(p, s) == IF s = "_main" THEN Len(p) + 1
               ELSE EndOf(p, Declaration(p, "state", s))

-----------------------------------------------------------------------------
(* Requests to the task, between runs. *)

Init ==
  /\ program \in {p \in Programs : Loads(p)}
  /\ state = "start"
  /\ line = 0 /\ until = 0 /\ stack = <<>>
  /\ merged = {} /\ alive = TRUE /\ stopped = FALSE

Rest == alive /\ line = 0

Die ==
  /\ alive' = FALSE /\ line' = 0 /\ until' = 0 /\ stack' = <<>>
  /\ UNCHANGED <<program, state, merged, stopped>>

\* execute: a state the logic does not have is an error that ends the task.
Begin(s) ==
  \/ /\ s \in DeclaredStates(program)
     /\ line' = First(program, s) /\ until' = Until(program, s)
     /\ state' = s
     /\ UNCHANGED <<program, stack, merged, alive, stopped>>
  \/ s \notin DeclaredStates(program) /\ Die

BeginEvent == Rest /\ Begin(state)

BeginStep ==
  /\ Rest
  /\ Begin(IF DeclaredStates(program) = {"_main"} THEN "_main" ELSE state)

\* The task ends for a reason outside of the script.
Stop ==
  /\ Rest
  /\ alive' = FALSE /\ stopped' = TRUE
  /\ UNCHANGED <<program, state, line, until, stack, merged>>

\* The worker lost its leader, or does not answer.
FetchFails == Stop

\* Single commands run with a stack of their own, and the line they would jump
\* to is ignored: all that is left of them is a change of state.
Redirect(s) ==
  /\ Rest /\ state' = s
  /\ UNCHANGED <<program, line, until, stack, merged, alive, stopped>>

Shutdown == Stop

-----------------------------------------------------------------------------
(* Commands. *)

Done == line > Len(program) \/ (stack = <<>> /\ line >= until)
Cmd(op) == alive /\ line > 0 /\ ~Done /\ program[line].op = op
Name == program[line].name

Go(l) == line' = l /\ UNCHANGED <<program, state, until, stack, merged, alive, stopped>>
Top(kind) == stack # <<>> /\ stack[Len(stack)].kind = kind
Popped == SubSeq(stack, 1, Len(stack) - 1)

\* Pushing onto a full stack panics.
Push(frame, l) ==
  \/ /\ Len(stack) < Depth
     /\ stack' = Append(stack, frame) /\ line' = l
     /\ UNCHANGED <<program, state, until, merged, alive, stopped>>
  \/ Len(stack) = Depth /\ Die

Finish ==
  /\ alive /\ line > 0 /\ Done
  /\ line' = 0 /\ until' = 0 /\ stack' = <<>>
  /\ UNCHANGED <<program, state, merged, alive, stopped>>

Log == Cmd("log") /\ Go(line + 1)
Act == Cmd("act") /\ (Go(line + 1) \/ Die)

\* Commands that are parsed and not executed.
Unexecuted ==
  /\ \E op \in {"else", "break", "for", "machine"} : Cmd(op)
  /\ Go(line + 1)

IfTrue == Cmd("if") /\ Push([kind |-> "if"], line + 1)

IfFalse ==
  LET block == Block(program, line)
      else == CHOOSE l \in block.elses : \A k \in block.elses : l <= k
  IN  /\ Cmd("if")
      /\ \/ block.elses # {} /\ Push([kind |-> "if"], else)
         \/ block.elses = {} /\ Go(block.end + 1)

\* The condition's variable is not there.
IfFails == Cmd("if") /\ Die

Loop == Cmd("loop") /\ Push([kind |-> "loop", start |-> line], line + 1)

Procedure == Cmd("proc") /\ Go(EndOf(program, line) + 1)

State == Cmd("state") /\ Go(EndOf(program, line) + 1)

\* Mutant of Call: the call returns to itself.
CallAgain ==
  LET l == Declaration(program, "proc", Name)
  IN  /\ Cmd("call")
      /\ \/ l # 0 /\ Push([kind |-> "proc", call |-> line - 1,
                           end |-> EndOf(program, l)], l + 1)
         \/ l = 0 /\ Die

Call ==
  LET l == Declaration(program, "proc", Name)
  IN  /\ Cmd("call")
      /\ \/ l # 0 /\ Push([kind |-> "proc", call |-> line,
                           end |-> EndOf(program, l)], l + 1)
         \/ l = 0 /\ Die

ComponentBlock ==
  /\ Cmd("component")
  /\ Push([kind |-> "component", name |-> Name, vars |-> {}], line + 1)

RegisterVar ==
  /\ Cmd("var")
  /\ line' = line + 1
  /\ stack' = IF Top("component")
              THEN LET frame == stack[Len(stack)]
                   IN  [stack EXCEPT ![Len(stack)] =
                          [frame EXCEPT !.vars = frame.vars \cup {Name}]]
              ELSE stack
  /\ UNCHANGED <<program, state, until, merged, alive, stopped>>

Goto ==
  /\ Cmd("goto")
  /\ state' = Name /\ line' = line + 1
  /\ UNCHANGED <<program, until, stack, merged, alive, stopped>>

\* What an end does depends on the frame on top, not on the block it closes:
\* an if's frame stays, a loop starts over, a procedure's frame is popped and,
\* at the procedure's own end, returned from, a component is sent to the model.
EndPlain == Cmd("end") /\ (stack = <<>> \/ Top("if")) /\ Go(line + 1)

EndLoop == Cmd("end") /\ Top("loop") /\ Go(stack[Len(stack)].start + 1)

\* Mutant of EndProcedure: the frame is left on the stack.
EndProcedureKept ==
  LET frame == stack[Len(stack)]
  IN  Cmd("end") /\ Top("proc")
      /\ Go(IF frame.end = line THEN frame.call + 1 ELSE line + 1)

EndProcedure ==
  LET frame == stack[Len(stack)]
  IN  /\ Cmd("end") /\ Top("proc")
      /\ stack' = Popped
      /\ line' = IF frame.end = line THEN frame.call + 1 ELSE line + 1
      /\ UNCHANGED <<program, state, until, merged, alive, stopped>>

\* Mutant of EndComponent: the frame's variables are not sent.
EndComponentBare ==
  LET frame == stack[Len(stack)]
  IN  /\ Cmd("end") /\ Top("component")
      /\ stack' = Popped /\ line' = line + 1
      /\ merged' = merged \cup {[name |-> frame.name, vars |-> {}]}
      /\ UNCHANGED <<program, state, until, alive, stopped>>

\* The answer to MergeModel is dropped: where the worker has no leader, or its
\* leader fails, the run goes on without the component.
EndComponent ==
  LET frame == stack[Len(stack)]
  IN  /\ Cmd("end") /\ Top("component")
      /\ stack' = Popped /\ line' = line + 1
      /\ \/ merged' = merged \cup {[name |-> frame.name, vars |-> frame.vars]}
         \/ merged' = merged
      /\ UNCHANGED <<program, state, until, alive, stopped>>

Run ==
  \/ Finish \/ Log \/ Act \/ Unexecuted
  \/ IfTrue \/ IfFalse \/ IfFails \/ Loop
  \/ Procedure \/ State \/ Call \/ Goto
  \/ ComponentBlock \/ RegisterVar
  \/ EndPlain \/ EndLoop \/ EndProcedure \/ EndComponent

Next ==
  \/ BeginEvent \/ BeginStep \/ FetchFails \/ Shutdown
  \/ \E s \in StateNames : Redirect(s)
  \/ Run

Spec == Init /\ [][Next]_vars

\* The executor polls the task, and a run does not wait for anything that the
\* worker does not answer or refuse.
FairSpec == Spec /\ WF_vars(Run)

-----------------------------------------------------------------------------
(* Properties. *)

\* The interpreter's state is well typed, and the stack within its capacity.
TypeOK ==
  /\ program \in Programs
  /\ state \in StateNames
  /\ line \in 0..(Len(program) + 1) /\ until \in 0..(Len(program) + 1)
  /\ stack \in Seq(Frame) /\ Len(stack) <= Depth
  /\ merged \subseteq [name : CompNames, vars : SUBSET VarNames]
  /\ alive \in BOOLEAN /\ stopped \in BOOLEAN

\* What the script means, and what the interpreter makes of it.
ReturnsOf(frames) ==
  LET below[i \in 0..Len(frames)] ==
        IF i = 0 THEN <<>>
        ELSE IF frames[i].kind = "proc"
             THEN Append(below[i - 1], [call |-> frames[i].call, end |-> frames[i].end])
             ELSE below[i - 1]
  IN  below[Len(frames)]
OpenOf(frames) ==
  LET components == {i \in DOMAIN frames : frames[i].kind = "component"}
      f == frames[CHOOSE i \in components : \A j \in components : j <= i]
  IN  IF components = {} THEN None ELSE [name |-> f.name, vars |-> f.vars]
Returns == ReturnsOf(stack)
Open == OpenOf(stack)

Meaning == INSTANCE Script WITH returns <- Returns, open <- Open

Inside(p, l) == (l + 1)..(Meaning!Partner(p, l) - 1)
Blocks(p) == {l \in DOMAIN p : p[l].op \in Openers}

\* The block on line l contains no kind of block that its search does not know,
\* and an "else" only where the search takes it for the innermost if's.
Known(p, l) ==
  /\ Meaning!Partner(p, l) # 0
  /\ \A k \in Inside(p, l) :
       /\ p[k].op \in Openers => p[k].op \in Others[p[l].op] \cup {p[l].op}
       /\ p[k].op = "else" =>
            p[l].op = "if" /\ p[Meaning!Around(p, k)].op = "if"

\* The search finds the end that closes the block, and an if its own elses, in
\* every script and for every block that contains only what its search knows
\* (command_search, and the lists each block command gives it).
EndsFound ==
  \A l \in Blocks(program) : Known(program, l) =>
    /\ EndOf(program, l) = Meaning!Partner(program, l)
    /\ program[l].op = "if" =>
         Block(program, l).elses =
           {k \in Inside(program, l) : program[k].op = "else"
                                        /\ Meaning!Around(program, k) = l}

\* The fragment in which the interpreter does what the script means: no loops
\* and no else; only blocks their search knows; ifs outside procedures, states
\* and components; nothing but plain commands in components.  A script without
\* states is not in it: its whole body should be run whatever happens
\* (script.bw:202), but an event makes the machine look for the state "start"
\* and end.
Supported(p) ==
  /\ ~Meaning!Stateless(p)
  /\ \A l \in DOMAIN p : p[l].op \notin {"else", "loop", "break", "for"}
  /\ \A l \in DOMAIN p : p[l].op = "end" =>
       \E k \in Blocks(p) : Meaning!Partner(p, k) = l
  /\ \A l \in Blocks(p) :
       /\ Known(p, l)
       /\ \A k \in Inside(p, l) :
            /\ p[k].op = "if" => p[l].op \in {"if", "machine"}
            /\ p[l].op = "component" => p[k].op \in {"var", "act", "log", "goto"}

SupportedPrograms == {p \in Programs : Loads(p) /\ Supported(p)}

\* Scripts outside the fragment are idle machines to the specification.
Idle(x, y) == IF program \in SupportedPrograms THEN x ELSE y
Intended == INSTANCE Script WITH
  state   <- Idle(state, "start"),
  line    <- Idle(line, 0),
  until   <- Idle(until, 0),
  returns <- Idle(Returns, <<>>),
  open    <- Idle(Open, None),
  merged  <- Idle(merged, {}),
  alive   <- Idle(alive, TRUE),
  stopped <- Idle(stopped, FALSE)

\* In that fragment the interpreter implements the meaning of the script: the
\* stack of frames, its leftovers included, the ends found by searching and the
\* bounded capacity add nothing but that a machine may die where it pushes.
\* Between runs it fails only where it is sent to a state the script does not
\* have; a component may be lost on its way to the leader, but none is registered
\* that the script does not declare, or with other variables.
ImplementsScript == Intended!Spec

\* A run comes to an end, possibly by the death of the machine (a recursion
\* overflows the stack), if the script has no loop and each procedure is what it
\* looks like: its search finds its own end, and no block in it has an end that
\* pops the procedure's frame without returning.
Terminating(p) ==
  /\ \A l \in DOMAIN p : p[l].op # "loop"
  /\ \A l \in Blocks(p) : p[l].op = "proc" =>
       /\ EndOf(p, l) = Meaning!Partner(p, l)
       /\ \A k \in Inside(p, l) : p[k].op \notin {"for", "machine"}
TerminatingPrograms == {p \in Programs : Loads(p) /\ Terminating(p)}
RunEnds == (line > 0 /\ program \in TerminatingPrograms) ~> (line = 0)
=============================================================================
