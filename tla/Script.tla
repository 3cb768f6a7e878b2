-------------------------------- MODULE Script --------------------------------
(***************************************************************************)
(* qs_script.c with the calls of qs_api.c around it: a script is parsed     *)
(* statement by statement, then its tree is run, as often as the program    *)
(* that embeds it asks, with variables that this program may set in         *)
(* between.  Expressions are evaluated on one stack that is kept with the   *)
(* script and never emptied.  A value is a block of memory: its beginning   *)
(* holds the number as text, its last four bytes hold it in binary.         *)
(* Numbers have at most three characters, and arithmetic does not overflow. *)
(***************************************************************************)
EXTENDS ScriptMeaning, FiniteSets

CONSTANTS
    Programs,      \* the scripts, each a sequence of statements
    Given,         \* the variables that the embedding program sets
    Numbers,       \* the values it gives them
    MaxRuns        \* how often a script is run

ASSUME ScriptAssumption == MaxTurns \in Nat /\ MaxRuns \in Nat \ {0} /\ Numbers \subseteq Int

VARIABLES
    script,     \* the script
    phase,      \* parse, ready, run, or how it went wrong: failed, stuck, endless
    pos,        \* the next token, and then the next statement
    tree,       \* rootnode_munit
    fns,        \* f_hash_munit: name -> root node
    m,          \* the variables, the stack, the value returned last
    meant,      \* what the variables should be
    runs        \* the runs so far

vars == <<script, phase, pos, tree, fns, m, meant, runs>>

-----------------------------------------------------------------------------
\* A block: the text, the number in the last four bytes, that in the bytes 4 to 7, the size.  A
\* token has 8 bytes, a number of the stack 24, and what an assignment wrote 128.
Literal(n)  == [text |-> n, bin |-> n, low |-> n, size |-> 8]
Computed(n) == [text |-> n, bin |-> n, low |-> 0, size |-> 24]
CacheSize == 128

\* m.vars: the block of each variable; m.blocks: the blocks, and which of them are free again
NewBlock(s, x, c) ==
    [s EXCEPT !.blocks = Append(@, c),
              !.vars = (x :> Len(s.blocks) + 1) @@ @,
              !.free = IF x \in DOMAIN s.vars THEN @ \cup {s.vars[x]} ELSE @]

\* qs_array_push and qs_array_pop: a variable is pushed as its block, not as its value
Push(s, entry) == [s EXCEPT !.stack = Append(@, entry)]
Value(c)   == [block |-> 0, cell |-> c]
Top(s)     == s.stack[Len(s.stack)]
Pop(s)     == [s EXCEPT !.stack = SubSeq(@, 1, Len(@) - 1),
                        !.dangling = @ \/ Top(s).block \in s.free]
TopCell(s) == IF Top(s).block = 0 THEN Top(s).cell ELSE s.blocks[Top(s).block]

No(s)       == [s EXCEPT !.ok = FALSE]
Return(s, c) == [s EXCEPT !.ok = TRUE, !.ret = c]

Calculate_Reversed(o, a, b) == IF o = "-" THEN b - a ELSE Worth(o, a, b)
Calculate(o, a, b) ==
    CASE o = "+" -> a + b
      [] o = "-" -> a - b
      [] o = "*" -> a * b
      [] o \in Comparisons \cup {"=="} ->
            IF (o = "==" /\ a = b) \/ (o \in {"<", "<="} /\ a < b) \/ (o \in {">", ">="} /\ a > b)
               \/ (o \in {"<=", ">="} /\ a = b) THEN 1 ELSE 0
      [] o = "&&" -> IF a = 0 \/ b = 0 THEN 0 ELSE 1
      [] o = "||" -> IF a = 0 /\ b = 0 THEN 0 ELSE 1

\* an operator takes the binary numbers of two entries, or the text of the only one there is
Apply(s, o) ==
    LET a == Pop(s)
    IN  CASE Len(s.stack) = 0 -> No(s)
          [] Len(s.stack) = 1 /\ o = "-" -> Push(a, Value(Computed(-TopCell(s).text)))
          [] Len(s.stack) = 1 /\ o = "+" -> Push(a, Value(Computed(TopCell(s).text)))
          [] Len(s.stack) = 1 /\ o \notin {"+", "-"} -> No(s)
          [] OTHER -> Push(Pop(a), Value(Computed(Calculate(o, TopCell(a).bin, TopCell(s).bin))))

RECURSIVE Core(_, _, _), ExprFrom(_, _, _), Call(_, _, _), Branch(_, _, _), All(_, _, _),
          UntilReturn(_, _, _), Turn(_, _, _)

\* the operands and operators of one element
Pushed(fs, s, e) ==
    CASE e.id = "NUM" -> Push(s, Value(Literal(e.num)))
      [] e.id = "VAR" -> IF e.text \in DOMAIN s.vars THEN Push(s, [Value(Literal(0)) EXCEPT !.block = s.vars[e.text]])
                         ELSE Push(s, Value(Computed(0)))
      [] e.id = "CHILD" -> LET c == Call(fs, s, e.node) IN IF c.ok THEN Push(c, Value(c.ret)) ELSE c
      [] e.id = "OP" -> Apply(s, e.text)
      [] e.id = "MINUS" -> IF s.stack = << >> THEN No(s) ELSE Push(Pop(s), Value(Computed(-TopCell(s).text)))
      [] OTHER -> s

\* the result is what is on top of the stack, whoever left it there
Result_NotTaken(s) == IF s.stack = << >> THEN No(s) ELSE Return(s, TopCell(s))
Result(s) == IF s.stack = << >> THEN No(s) ELSE Return(Pop(s), TopCell(s))

\* qs_exec_expr: an operator that has no operands ends it at once
ExprFrom(fs, s, node) ==
    IF node = << >> THEN Result(s)
    ELSE LET r == Pushed(fs, [s EXCEPT !.ok = TRUE], node[1])
         IN  IF node[1].id \in {"OP", "MINUS"} /\ ~r.ok THEN r ELSE ExprFrom(fs, r, Tail(node))

\* qs_exec_function: the arguments, then the parameters, which are variables like any other.  A
\* parameter gets a block of 8 bytes, and the first 8 bytes of its argument.
Bind(s, x, c) == NewBlock(s, x, [c EXCEPT !.bin = c.low, !.size = 8])
Call(fs, s, node) ==
    LET f == node[1].text
        Args[i \in 1 .. Len(node)] ==
            IF i = 1 THEN [s |-> [s EXCEPT !.left = @ - 1], cells |-> << >>]
            ELSE LET before == Args[i - 1]
                     a == ExprFrom(fs, before.s, node[i].node)
                 IN  [s |-> a, cells |-> IF a.ok THEN Append(before.cells, a.ret) ELSE before.cells]
        args == Args[Len(node)]
        header == fs[f][1].node
        Bound[i \in 1 .. Len(header)] ==
            IF i = 1 THEN args.s
            ELSE IF i - 1 > Len(args.cells) THEN Bound[i - 1]
            ELSE Bind(Bound[i - 1], header[i].node[1].text, args.cells[i - 1])
    IN  IF f \notin DOMAIN fs \/ s.left = 0 THEN No(s)
        ELSE Core(fs, Bound[Len(header)], fs[f][2].node)

\* qs_exec_core, an assignment: into the block that is there, if that has room
Assign(fs, s, node) ==
    LET e == ExprFrom(fs, s, node[2].node)
        x == node[1].text
        c == [e.ret EXCEPT !.size = CacheSize]
    IN  IF ~e.ok \/ node[3].text # "=" THEN e
        ELSE IF x \in DOMAIN e.vars /\ e.blocks[e.vars[x]].size >= CacheSize
             THEN [e EXCEPT !.blocks[e.vars[x]] = c]
             ELSE NewBlock(e, x, c)

\* qs_exec_if: a condition is true if it is 1; all statements of the branch are run
Branch(fs, s, node) ==
    LET c == ExprFrom(fs, s, node[2].node[1].node)
    IN  IF node = << >> THEN s
        ELSE IF node[1].id = "ELSE" THEN All(fs, s, node[2].node)
        ELSE IF ~c.ok THEN c
        ELSE IF c.ret.bin = 1 THEN All(fs, c, node[3].node)
        ELSE Branch(fs, c, SubSeq(node, 4, Len(node)))
All(fs, s, node) == IF node = << >> THEN s ELSE All(fs, Core(fs, s, node[1].node), Tail(node))

\* qs_exec_while
Turn(fs, s, node) ==
    LET c == ExprFrom(fs, s, node[2].node[1].node)
    IN  IF ~c.ok \/ c.ret.bin # 1 \/ c.left = 0 THEN c
        ELSE Turn(fs, [All(fs, c, node[3].node) EXCEPT !.left = IF @ = 0 THEN 0 ELSE @ - 1], node)

UntilReturn(fs, s, node) ==
    IF node = << >> THEN s
    ELSE LET r == Core(fs, s, node[1].node) IN IF r.ok THEN r ELSE UntilReturn(fs, r, Tail(node))

\* qs_exec_core: only a return in the statements of a function itself ends it, and gives its value
Core(fs, s, node) ==
    CASE node[1].id = "VAR"      -> No(Assign(fs, s, node))
      [] node[1].id = "FUNCTION" -> No(Call(fs, s, node))
      [] node[1].id = "IF"       -> No(Branch(fs, s, node))
      [] node[1].id = "WHILE"    -> No(Turn(fs, s, node))
      [] node[1].id = "CHILD"    -> UntilReturn(fs, No(s), node)
      [] node[1].id = "RETURN"   -> ExprFrom(fs, s, node[2].node)
      [] OTHER                   -> No(s)

-----------------------------------------------------------------------------
\* qs_init_script
Init ==
    /\ script \in Programs /\ phase = "parse" /\ pos = 1 /\ tree = << >> /\ fns = << >>
    /\ m = [vars |-> << >>, blocks |-> << >>, free |-> {}, stack |-> << >>, ret |-> Literal(0),
            ok |-> FALSE, left |-> 0, dangling |-> FALSE]
    /\ meant = << >> /\ runs = 0

\* qs_parse_code, one round of its loop
Parse ==
    /\ phase = "parse" /\ pos <= Len(AllPrinted(script))
    /\ LET r == OneStatement(AllPrinted(script), [i |-> pos, node |-> tree, fns |-> fns])
       IN  /\ tree' = r.node /\ fns' = r.fns
           /\ pos' = IF r.i < 0 THEN pos ELSE r.i
           /\ phase' = CASE r.i = Stuck -> "stuck" [] r.i = Error \/ r.i = pos -> "failed" [] OTHER -> "parse"
    /\ UNCHANGED <<script, m, meant, runs>>

Parsed ==
    /\ phase = "parse" /\ pos > Len(AllPrinted(script))
    /\ phase' = "ready" /\ pos' = 1
    /\ UNCHANGED <<script, tree, fns, m, meant, runs>>

\* api_qs_script_set_argv_integer, with qs_add_hash_integer: into the block of the variable
SetArgument(x, n) ==
    /\ phase = "ready" /\ runs < MaxRuns
    /\ m' = IF x \in DOMAIN m.vars
            THEN [m EXCEPT !.blocks[m.vars[x]] =
                     [@ EXCEPT !.text = n, !.bin = n, !.low = IF m.blocks[m.vars[x]].size = 8 THEN n ELSE @]]
            ELSE NewBlock(m, x, Computed(n))
    /\ meant' = (x :> n) @@ meant
    /\ UNCHANGED <<script, phase, pos, tree, fns, runs>>

Start ==
    /\ phase = "ready" /\ runs < MaxRuns /\ phase' = "run" /\ pos' = 1 /\ runs' = runs + 1
    /\ UNCHANGED <<script, tree, fns, m, meant>>

\* the statements at the top of the script that are in the tree: all but the definitions
Steps == SelectSeq(script, LAMBDA x : x.k # "def")

\* qs_exec, one round of its loop
Exec ==
    /\ phase = "run" /\ pos <= Len(tree)
    /\ m' = Core(fns, [m EXCEPT !.left = MaxTurns], tree[pos].node)
    /\ meant' = Does(Table(script), meant, Steps[pos]).env
    /\ pos' = pos + 1
    /\ phase' = IF m'.left = 0 THEN "endless" ELSE "run"
    /\ UNCHANGED <<script, tree, fns, runs>>

Finish ==
    /\ phase = "run" /\ pos > Len(tree) /\ phase' = "ready" /\ pos' = 1
    /\ UNCHANGED <<script, tree, fns, m, meant, runs>>

Next ==
    \/ Parse \/ Parsed \/ Start \/ Exec \/ Finish
    \/ \E x \in Given, n \in Numbers : SetArgument(x, n)

Spec == Init /\ [][Next]_vars

-----------------------------------------------------------------------------
\* What a script may have in it that the engine does not do as written.

\* two operators of one level without parentheses between them
Crowded(p) == \E e \in Expressions(p) : e.k = "op" /\ Rank(e.l) = Rank(e)
\* the value of a call that gives none
GivesNone(p, f) == f \notin DOMAIN Table(p) \/ LastOf(Table(p)[f].body).k # "ret"
EmptyHanded(p) ==
    \E e \in Expressions(p) : e.k \in {"op", "neg"} /\
        \E x \in {e.l} \cup (IF e.k = "op" THEN {e.r} ELSE {}) : x.k = "call" /\ GivesNone(p, x.f)
NoValue(p) ==
    \/ EmptyHanded(p)
    \/ \E c \in Calls(p) : \E i \in DOMAIN c.args : c.args[i].k = "call" /\ GivesNone(p, c.args[i].f)
    \/ \E x \in Statements(p) : /\ x.k \in {"set", "ret"} /\ x.e.k = "call" /\ GivesNone(p, x.e.f)
\* an argument that is no literal
ComputedArgument(p) == \E c \in Calls(p) : \E i \in DOMAIN c.args : c.args[i].k # "num"
\* a return inside of an if or a while, which does not return
HiddenReturn(p) ==
    \E x \in Statements(p) : x.k \in {"if", "while"} /\ \E y \in Within(x) : y.k = "ret"
\* return ( ... ), a call of a function of that name
ReturnCalled(p) == \E x \in Statements(p) : x.k = "ret" /\ Written(x.e)[1].text = "("
\* a while at the end of a block
ClosingWhile(p) ==
    \E x \in Statements(p) : \E b \in Bodies(x) : b # << >> /\ LastOf(b).k = "while"
\* a condition that is a number, and no comparison
BareCondition(p) ==
    \E x \in Statements(p) : \E c \in Conditions(x) : Rank(c) > 2
\* an operand that waits on the stack while a call assigns to it
Overtaken(p) ==
    \E e \in Expressions(p) : /\ e.k = "op" /\ e.l.k = "var"
                              /\ \E c \in Parts(e.r) : c.k = "call" /\ e.l.x \in Changes(p, c.f)
Augmented(p) == \E x \in Statements(p) : x.k = "set" /\ x.by # "="

Plain(p) ==
    ~ (\/ Crowded(p) \/ NoValue(p) \/ ComputedArgument(p) \/ HiddenReturn(p) \/ ReturnCalled(p)
       \/ BareCondition(p) \/ Overtaken(p) \/ Augmented(p))

\* The parser comes to the end of every script without an error, except that it hangs at a while
\* which ends a block (qs_parse_while looks at the closing brace for ever), and fails at two
\* operators of one level and at what follows return ( ... ).
ParsedToTheEnd ==
    /\ phase = "stuck" => ClosingWhile(script)
    /\ phase = "failed" => Crowded(script) \/ ReturnCalled(script)

\* Between two statements the stack is empty, unless an expression had two operators of one level
\* or an operand without a value: what such a one leaves is there for the next that lacks a value.
StackEmptied ==
    phase \in {"ready", "run"} /\ m.stack # << >> => Crowded(script) \/ EmptyHanded(script)

\* After every statement of a script that has none of the above, run any number of times and with
\* variables set in between, each variable has the value the script says, as text and in binary,
\* and no block was read after it was given back.
MeansWhatItSays ==
    phase \in {"ready", "run"} /\ Plain(script) =>
        /\ ~m.dangling
        /\ DOMAIN m.vars = DOMAIN meant
        /\ \A x \in DOMAIN m.vars : LET c == m.blocks[m.vars[x]]
                                    IN  c.text = meant[x] /\ c.bin = meant[x]
=============================================================================
