----------------------------- MODULE MCMachine -----------------------------
(* Machine for TLC.  The scripts are a block with one command, possibly in    *)
(* another block, and possibly a call, alone or in a block, behind them.     *)
EXTENDS Machine, TLC

C(op, name) == [op |-> op, name |-> name]
Plain(op) == <<C(op, None)>>
Wrap(opener, body) == opener \o body \o Plain("end")

Commands == {<<>>, Plain("act"), Plain("log"), <<C("call", "p")>>, <<C("goto", "next")>>,
             <<C("var", "x")>>, Plain("break"), Plain("else")}
Opening == {Plain(k) : k \in {"if", "loop", "for", "machine"}}
           \cup {<<C("proc", "p")>>, <<C("component", "c")>>}
           \cup {<<C("state", s)>> : s \in {"start", "next"}}

Flat == {Wrap(o, b) : o \in Opening, b \in Commands}
Nested == {Wrap(o, b) : o \in Opening, b \in Flat}
After == {<<>>, <<C("call", "p")>>}
         \cup {Wrap(o, <<C("call", "p")>>) : o \in Opening}
MCPrograms == {x \o y : x \in Flat \cup Nested, y \in After}
=============================================================================
