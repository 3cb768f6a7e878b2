----------------------------- MODULE ScriptParser -----------------------------
(***************************************************************************)
(* qs_script.c, the parser: from the tokens of a script to the tree that    *)
(* qs_exec runs, by recursive descent.  A node is the sequence of its       *)
(* elements.  An expression becomes its postfix form, in the order in which *)
(* the elements are added.  Strings, arrays, hashes and the function        *)
(* literals are left out: the tokens are names, numbers, operators, signs   *)
(* and the words if, else and while.                                        *)
(***************************************************************************)
EXTENDS Integers, Sequences, TLC

Token(type, text)   == [type |-> type, text |-> text, num |-> 0]
NumToken(n)         == [type |-> "NUM", text |-> "#", num |-> n]
Element(id, token)  == [id |-> id, text |-> token.text, num |-> token.num, node |-> << >>]
Child(node)         == [id |-> "CHILD", text |-> "", num |-> 0, node |-> node]

\* what an index can be that is no position
Error == -1      \* a syntax error
Stuck == -2      \* the parser never comes back

Assignments == {"=", "+="}
Comparisons == {">=", "<=", ">", "<"}
Relations   == {"||", "&&"}
Operators   == <<Relations, Comparisons \cup {"=="}, {"+", "-"}, {"*"}>>

\* p: the index, the node that is being built, and the functions found so far
At(t, i)    == IF i \in 1 .. Len(t) THEN t[i] ELSE Token("NONE", "")
Is(t, p, s) == At(t, p.i).text = s
Skip(p, n)  == [p EXCEPT !.i = @ + n]
Add(p, e)   == [p EXCEPT !.node = Append(@, e)]
Inside(p)   == [p EXCEPT !.node = << >>]
Back(p, c)  == [c EXCEPT !.node = Append(p.node, Child(@))]

RECURSIVE Rule(_, _, _), Level(_, _, _), Operand(_, _), Symbol(_, _), Right(_, _), ArgumentList(_, _, _),
          Condition(_, _, _, _), BlockFrom(_, _), IfFrom(_, _), WhileFrom(_, _)

\* the two rules that the others contain
Expression(t, p)   == Rule("expression", t, p)
OneStatement(t, p) == Rule("statement", t, p)

-----------------------------------------------------------------------------
\* qs_parse_rel, _cmp, _addsub, _muldiv: one operator at each level, and no more
Level(k, t, p) ==
    IF k > Len(Operators) THEN Operand(t, p)
    ELSE LET l == Level(k + 1, t, p)
             o == At(t, l.i)
         IN  IF o.text \notin Operators[k] THEN l
             ELSE Add(Level(k + 1, t, Skip(l, 1)), Element("OP", o))

\* qs_parse_expr: where no operand is, nothing is read
Operand(t, p) ==
    LET o == At(t, p.i)
        inner == Expression(t, Skip(p, 1))
    IN  CASE o.text = "("      -> IF Is(t, inner, ")") THEN Skip(inner, 1) ELSE inner
          [] o.type = "NUM"    -> Skip(Add(p, Element("NUM", o)), 1)
          [] o.type = "SYMBOL" -> Symbol(t, p)
          [] o.text = "-"      -> Add(Operand(t, Skip(p, 1)), Element("MINUS", o))
          [] OTHER             -> p

\* the right side of an assignment, up to its semicolon; what one round leaves is read by the next
Right(t, p) ==
    LET e == Expression(t, p)
        r == IF Is(t, e, ")") THEN Skip(e, 1) ELSE e
        o == At(t, r.i)
    IN  IF p.i > Len(t) THEN p
        ELSE IF o.text = ";" THEN Skip(r, 1)
        ELSE IF o.text \in Comparisons \cup Relations
             THEN Right(t, Skip(Add(r, Element("CMP", o)), 1))
        ELSE IF r.i = p.i THEN r ELSE Right(t, r)

\* the arguments of a call, or the parameters of a function; p.node is the current one
ArgumentList(t, p, done) ==
    LET more  == Is(t, p, ",")
        ready == IF more THEN Append(done, Child(p.node)) ELSE done
        e == Expression(t, IF more THEN Inside(Skip(p, 1)) ELSE p)
        o == At(t, e.i)
        r == IF o.text \in Comparisons \cup Relations THEN Skip(Add(e, Element("CMP", o)), 1) ELSE e
        Close(q, ds) == [q EXCEPT !.node = Append(ds, Child(@))]
    IN  IF p.i > Len(t) THEN Close(p, done)
        ELSE IF Is(t, p, ")") THEN Close(Skip(p, 1), done)
        ELSE IF Is(t, r, ";") THEN Close(Skip(r, 1), ready)
        ELSE IF r.i = p.i THEN Close(r, ready)
        ELSE ArgumentList(t, r, ready)

\* qs_parse_function_args
Arguments(t, p) ==
    LET name == <<Element("FUNCTION", At(t, p.i))>>
        Named(q) == Back(p, [q EXCEPT !.node = name \o @])
    IN  IF At(t, p.i + 1).text # "(" THEN Named(Inside(Skip(p, 1)))
        ELSE IF At(t, p.i + 2).text = ")" THEN Named(Inside(Skip(p, 3)))
        ELSE Named(ArgumentList(t, Inside(Skip(p, 2)), << >>))

-----------------------------------------------------------------------------
\* qs_parse_block: up to the closing brace, or to where a statement of it fails
BlockFrom_KeepBrace(t, p) ==
    LET r == OneStatement(t, p)
    IN  IF p.i > Len(t) \/ Is(t, p, "}") \/ r.i < 0 THEN p ELSE BlockFrom(t, r)
BlockFrom(t, p) ==
    LET r == OneStatement(t, p)
    IN  IF p.i > Len(t) THEN p
        ELSE IF Is(t, p, "}") THEN Skip(p, 1)
        ELSE IF r.i < 0 THEN r ELSE BlockFrom(t, r)
Block(t, p) == Back(p, BlockFrom(t, Inside(Skip(p, 1))))

\* qs_parse_function: kept in a table of its own; of two functions with one name the first
Function(t, p) ==
    LET name == At(t, p.i).text
        root == Block(t, Arguments(t, Inside(p)))
    IN  IF p.i > Len(t) THEN p
        ELSE [root EXCEPT !.node = p.node, !.fns = @ @@ (name :> root.node)]

\* qs_parse_symbol.  A name before "(" is a call, whatever the name is.
Symbol(t, p) ==
    LET name == At(t, p.i)
        next == At(t, p.i + 1)
        value  == Expression(t, Inside(Skip(p, 1)))
        right  == Right(t, Inside(Skip(p, 2)))
    IN  CASE name.text = "def" -> Function(t, Skip(p, 1))
          [] name.text # "def" /\ p.i = Len(t) -> Skip(p, 1)
          [] next.text \in Assignments ->
                Back(p, [right EXCEPT !.node = <<Element("VAR", name), Child(@), Element("ASSIGN", next)>>])
          [] next.text = "(" -> Arguments(t, p)
          [] name.text = "return" /\ next.text \notin Assignments \cup {"("} ->
                Back(p, [value EXCEPT !.node = <<Element("RETURN", name), Child(@)>>])
          [] OTHER -> Skip(Add(p, Element("VAR", name)), 1)

-----------------------------------------------------------------------------
\* A condition, up to its parenthesis: in an if an operator of splits that is left over ends one
\* expression and begins another.
Condition(t, p, done, splits) ==
    LET r == Expression(t, p)
        o == At(t, r.i)
        Close(q) == [q EXCEPT !.node = Append(done, Child(@))]
    IN  IF p.i > Len(t) THEN Close(p)
        ELSE IF o.text = ")" THEN Close(Skip(r, 1))
        ELSE IF o.text \in splits
             THEN Condition(t, Inside(Skip(r, 1)), done \o <<Child(r.node), Element("CMP", o)>>, splits)
        ELSE IF r.i = p.i THEN Close(r)
        ELSE Condition(t, r, done, splits)

\* qs_parse_if: the branches, for as long as one ends at an else
IfFrom(t, p) ==
    LET c == IF Is(t, p, "(")
             THEN Back(p, Condition(t, Inside(Skip(p, 1)), << >>, Operators[2] \cup Relations)) ELSE p
        b == IF (Is(t, p, "(") \/ Is(t, p, "{")) /\ c.i <= Len(t) THEN OneStatement(t, c) ELSE c
        e == At(t, b.i)
    IN  IF At(t, p.i).type # "SIGN" THEN p
        ELSE IF b.i < 0 \/ e.type # "ELSE" THEN b
        ELSE IF At(t, b.i + 1).type = "IF"
             THEN IfFrom(t, Skip(Add(b, Element("ELSEIF", e)), 2))
             ELSE IfFrom(t, Skip(Add(b, Element("ELSE", e)), 1))

\* qs_parse_while: after the body the loop begins again, and a sign that opens no condition is
\* looked at for ever
WhileFrom(t, p) ==
    LET c == Back(p, Condition(t, Inside(Skip(p, 1)), << >>, {}))
        b == IF c.i <= Len(t) THEN OneStatement(t, c) ELSE c
    IN  IF At(t, p.i).type # "SIGN" THEN p
        ELSE IF ~Is(t, p, "(") THEN [p EXCEPT !.i = Stuck]
        ELSE IF b.i < 0 \/ b.i > Len(t) THEN b
        ELSE WhileFrom(t, b)

\* qs_parse_code_core
Statement(t, p) ==
    LET o == At(t, p.i)
        body == [Skip(p, 1) EXCEPT !.node = <<Element(o.type, o)>>]
    IN  CASE o.type = "SYMBOL" -> Symbol(t, p)
          [] o.type = "IF"     -> Back(p, IfFrom(t, body))
          [] o.type = "WHILE"  -> Back(p, WhileFrom(t, body))
          [] o.text = ";"      -> Skip(p, 1)
          [] o.text = "{"      -> Block(t, p)
          [] OTHER             -> [p EXCEPT !.i = Error]

Rule(r, t, p) == IF r = "statement" THEN Statement(t, p) ELSE Level(1, t, p)
=============================================================================
