----------------------------- MODULE ScriptText -----------------------------
(* From the text of a script to the commands a machine starts from: the       *)
(* parser (machine/script/parser.rs), the preprocessor                        *)
(* (machine/script/preprocessor.rs) and Logic::from_script (machine/mod.rs).  *)
(*                                                                            *)
(* A line is a sequence of words.  The signs are words of their own; "\\" is  *)
(* the last word of a line that goes on in the next one, and a quoted         *)
(* argument is one word.                                                      *)
EXTENDS Vars

-----------------------------------------------------------------------------
(* One line                                                                   *)

\* Values end where a comment begins (parse_next_value, shlex::split).
Uncommented(words) ==
  LET at == SelectInSeq(words, LAMBDA w : w = "#") IN IF at = 0 THEN words ELSE SubSeq(words, 1, at - 1)

Instruction(kind, tag, output, name, args) ==
  [kind |-> kind, tag |-> tag, output |-> output, name |-> name, args |-> args]
NoInstruction == Instruction("none", "", "", "", <<>>)

\* `[@tag] [output =] [name] [arguments]`
ParseCommand(words) ==
  LET tagged == Head(words) = "@"
      rest == IF tagged THEN SubSeq(words, 3, Len(words)) ELSE words
      assigns == Len(rest) > 1 /\ rest[2] = "="
      named == IF assigns THEN SubSeq(rest, 3, Len(rest)) ELSE rest
      first(s) == IF s = <<>> THEN "" ELSE Head(s)
  IN  Instruction("command", IF tagged THEN words[2] ELSE "", IF assigns THEN rest[1] ELSE "",
                  first(named), SubSeq(named, 2, Len(named)))

\* `! name [arguments]`
ParseDirective(words) ==
  IF Len(words) = 1 THEN Err
  ELSE Ok(Instruction("directive", "", "", words[2], SubSeq(words, 3, Len(words))))

ParseLine(text) ==
  LET words == Uncommented(text)
  IN  CASE words = <<>> -> Ok(NoInstruction)
        [] words # <<>> /\ Head(words) = "!" -> ParseDirective(words)
        [] OTHER -> Ok(ParseCommand(words))

-----------------------------------------------------------------------------
(* All lines                                                                  *)

\* Variant: semicolons are left to the parser of one line.
CutNever(text) == <<text>>
\* A line is cut at every semicolon, those in its comment too.
Cut(text) ==
  IF ";" \notin ToSet(text) THEN <<text>>
  ELSE LET pieces == FoldLeft(LAMBDA ps, w : IF w = ";" THEN Append(ps, <<>>)
                                             ELSE [ps EXCEPT ![Len(ps)] = Append(@, w)],
                              <<<<>>>>, text)
       IN  SelectSeq(pieces, LAMBDA p : p # <<>>)

Continues(text) == text # <<>> /\ Last(text) = "\\"

\* One turn of parse_script.  A line that continues is held and put before the
\* next one, under its own number, whatever it is; of the others, those that
\* begin with a comment sign are passed over and the rest are cut.
ReadLine(s, line) ==
  LET text == s.held \o line
      at == IF s.at # 0 THEN s.at ELSE s.number
      pieces == IF text # <<>> /\ Head(text) = "#" THEN <<>> ELSE Cut(text)
  IN  IF Continues(text)
      THEN [s EXCEPT !.number = @ + 1, !.held = Front(text), !.at = at]
      ELSE [number |-> s.number + 1, held |-> <<>>, at |-> 0,
            read |-> s.read \o [k \in DOMAIN pieces |-> [text |-> pieces[k], line |-> at]]]
ParseScript(lines) ==
  LET read == FoldLeft(ReadLine, [number |-> 1, held |-> <<>>, at |-> 0, read |-> <<>>], lines).read
  IN  Collect([k \in DOMAIN read |-> Then(ParseLine(read[k].text),
                LAMBDA i : Ok([line |-> read[k].line, instr |-> i]))])

-----------------------------------------------------------------------------
(* Preprocessing                                                              *)

Is(i, name) == i.instr.kind = "directive" /\ i.instr.name = name
EliminateEmpty(instrs) == SelectSeq(instrs, LAMBDA i : i.instr.kind # "none")
EliminateDirectives(instrs) == SelectSeq(instrs, LAMBDA i : i.instr.kind # "directive")

\* An include needs to know the file it is in, which from_script does not tell.
RunIncludes(instrs) ==
  IF \E k \in DOMAIN instrs : Is(instrs[k], "include") THEN Panic ELSE Ok(instrs)

\* No condition is evaluated: the commands of both branches go, directives
\* stay in the else branch.
Conditional(s, i) ==
  LET to(where) == [s EXCEPT !.at = where]
      keep == [s EXCEPT !.out = Append(@, i)]
      fail == [s EXCEPT !.ok = FALSE]
  IN  CASE ~s.ok -> s
        [] i.instr.kind = "command" -> IF s.at = "" THEN keep ELSE s
        [] Is(i, "if") -> IF s.at = "" THEN to("if") ELSE fail
        [] Is(i, "else") -> IF s.at = "if" THEN to("else") ELSE fail
        [] Is(i, "endif") -> IF s.at # "" THEN to("") ELSE fail
        [] OTHER -> IF s.at = "if" THEN s ELSE keep
\* Variant: the unbalanced is accepted.
RunConditionalsAnyway(instrs) ==
  Ok(FoldLeft(Conditional, [out |-> <<>>, at |-> "", ok |-> TRUE], instrs).out)
RunConditionals(instrs) ==
  LET end == FoldLeft(Conditional, [out |-> <<>>, at |-> "", ok |-> TRUE], instrs)
  IN  IF end.ok THEN Ok(end.out) ELSE Err

\* run_print, with no data to look names up in: nothing to print panics, and a
\* name, which starts with "$", is an error.
RunPrint(args) ==
  CASE args = <<>> -> Panic
    [] args # <<>> /\ args[1] = "$" -> Err
    [] OTHER -> Ok(args)
RunRemaining(instrs) ==
  LET prints == SelectSeq(instrs, LAMBDA i : Is(i, "print"))
  IN  Then(Collect([k \in DOMAIN prints |-> RunPrint(prints[k].instr.args)]), LAMBDA ps : Ok(instrs))

Preprocess(instrs) ==
  Then(RunIncludes(EliminateEmpty(instrs)), LAMBDA a :
    Then(RunConditionals(a), LAMBDA b :
      Then(RunRemaining(b), LAMBDA c : Ok(EliminateDirectives(c)))))

\* Logic::from_script unwraps both results and gives no file.
FromScript(lines) ==
  LET result == Then(ParseScript(lines), Preprocess)
  IN  IF IsOk(result) THEN result ELSE Panic
=============================================================================
