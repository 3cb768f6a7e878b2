---------------------------- MODULE ScriptMeaning ----------------------------
(***************************************************************************)
(* What a script says: statements and expressions as its author thinks of   *)
(* them, the tokens they are written with, and what they do, operand by     *)
(* operand and statement by statement.  It takes nothing from the parser or *)
(* from the executor of qs_script.c, which are compared with it.  The       *)
(* language has one space of variables, and a parameter is a variable that  *)
(* the call sets: so far the meaning follows the code.                      *)
(*                                                                          *)
(* Expressions: num, var, neg, op and call.  Statements: set, if, while,    *)
(* ret, do (a call), and def at the top of a script.                        *)
(***************************************************************************)
EXTENDS ScriptParser

CONSTANT MaxTurns      \* calls and turns of loops in one statement: beyond, it does not end

Num(n)          == [k |-> "num", n |-> n]
Var(x)          == [k |-> "var", x |-> x]
Neg(e)          == [k |-> "neg", l |-> e]
Op(o, l, r)     == [k |-> "op", o |-> o, l |-> l, r |-> r]
CallOf(f, args) == [k |-> "call", f |-> f, args |-> args]
Set(x, by, e)   == [k |-> "set", x |-> x, by |-> by, e |-> e]
IfElse(arms, other) == [k |-> "if", arms |-> arms, other |-> other]
While(c, body)  == [k |-> "while", c |-> c, body |-> body]
Ret(e)          == [k |-> "ret", e |-> e]
Do(e)           == [k |-> "do", e |-> e]
Def(f, ps, body) == [k |-> "def", f |-> f, ps |-> ps, body |-> body]

RECURSIVE Written(_), ListWritten(_), Printed(_), AllPrinted(_), ArmsPrinted(_),
          Eval(_, _, _), EvalAll(_, _, _), Run(_, _, _), RunAll(_, _, _), Loop(_, _, _),
          Parts(_), Within(_)

-----------------------------------------------------------------------------
\* The tokens, with the parentheses that the precedences call for.
Sign(s) == Token("SIGN", s)
Name(s) == Token("SYMBOL", s)
Rank(e) == IF e.k = "op" THEN CHOOSE i \in 1 .. Len(Operators) : e.o \in Operators[i]
           ELSE Len(Operators) + 1
Bracketed(s) == <<Sign("(")>> \o s \o <<Sign(")")>>
Fit(e, rank) == IF Rank(e) < rank THEN Bracketed(Written(e)) ELSE Written(e)

Written(e) ==
    CASE e.k = "num"  -> <<NumToken(e.n)>>
      [] e.k = "var"  -> <<Name(e.x)>>
      [] e.k = "neg"  -> <<Token("OP", "-")>> \o Fit(e.l, Len(Operators) + 1)
      [] e.k = "op"   -> Fit(e.l, Rank(e)) \o <<Token("OP", e.o)>> \o Fit(e.r, Rank(e) + 1)
      [] e.k = "call" -> <<Name(e.f)>> \o Bracketed(ListWritten(e.args))
ListWritten(es) ==
    IF es = << >> THEN << >>
    ELSE Written(es[1]) \o (IF Len(es) > 1 THEN <<Sign(",")>> ELSE << >>) \o ListWritten(Tail(es))

InBraces(body) == <<Sign("{")>> \o AllPrinted(body) \o <<Sign("}")>>
Printed(s) ==
    CASE s.k = "set"   -> <<Name(s.x), Token("OP", s.by)>> \o Written(s.e) \o <<Sign(";")>>
      [] s.k = "if"    -> ArmsPrinted(s.arms)
                          \o (IF s.other = << >> THEN << >>
                              ELSE <<Token("ELSE", "else")>> \o InBraces(s.other))
      [] s.k = "while" -> <<Token("WHILE", "while")>> \o Bracketed(Written(s.c)) \o InBraces(s.body)
      [] s.k = "ret"   -> <<Name("return")>> \o Written(s.e) \o <<Sign(";")>>
      [] s.k = "do"    -> Written(s.e) \o <<Sign(";")>>
      [] s.k = "def"   -> <<Name("def"), Name(s.f)>> \o Bracketed(ListWritten(s.ps)) \o InBraces(s.body)
ArmsPrinted(arms) ==
    <<Token("IF", "if")>> \o Bracketed(Written(arms[1].c)) \o InBraces(arms[1].body)
    \o (IF Len(arms) > 1 THEN <<Token("ELSE", "else")>> \o ArmsPrinted(Tail(arms)) ELSE << >>)
AllPrinted(ss) == IF ss = << >> THEN << >> ELSE Printed(ss[1]) \o AllPrinted(Tail(ss))

-----------------------------------------------------------------------------
\* What they do: to s, the variables, the last value and the turns that are left.  fs has the
\* definitions of the functions.
Truth(b) == IF b THEN 1 ELSE 0
Worth(o, a, b) ==
    CASE o = "+" -> a + b  [] o = "-" -> a - b  [] o = "*" -> a * b
      [] o = "<" -> Truth(a < b)   [] o = "<=" -> Truth(a <= b)  [] o = "==" -> Truth(a = b)
      [] o = ">" -> Truth(a > b)   [] o = ">=" -> Truth(a >= b)
      [] o = "&&" -> Truth(a # 0 /\ b # 0)  [] o = "||" -> Truth(a # 0 \/ b # 0)

Put(s, x, v) == [s EXCEPT !.env = (x :> v) @@ @]

Eval(fs, s, e) ==
    CASE e.k = "num" -> [s EXCEPT !.val = e.n]
      [] e.k = "var" -> [s EXCEPT !.val = IF e.x \in DOMAIN s.env THEN s.env[e.x] ELSE 0]
      [] e.k = "neg" -> [Eval(fs, s, e.l) EXCEPT !.val = -@]
      [] e.k = "op"  -> LET l == Eval(fs, s, e.l)
                            r == Eval(fs, l, e.r)
                        IN  [r EXCEPT !.val = Worth(e.o, l.val, r.val)]
      [] e.k = "call" ->
            IF s.left = 0 \/ e.f \notin DOMAIN fs THEN s
            ELSE LET a == EvalAll(fs, [s EXCEPT !.args = << >>, !.left = @ - 1], e.args)
                     Bound[i \in 0 .. Len(a.args)] ==
                         IF i = 0 THEN a ELSE Put(Bound[i - 1], fs[e.f].ps[i].x, a.args[i])
                 IN  [RunAll(fs, Bound[Len(a.args)], fs[e.f].body) EXCEPT !.args = s.args, !.back = FALSE]
EvalAll(fs, s, es) ==
    IF es = << >> THEN s
    ELSE LET v == Eval(fs, s, es[1])
         IN  EvalAll(fs, [v EXCEPT !.args = Append(s.args, v.val)], Tail(es))

Run(fs, s, x) ==
    CASE x.k = "set"   -> LET v == Eval(fs, s, x.e)
                              old == IF x.x \in DOMAIN v.env THEN v.env[x.x] ELSE 0
                          IN  Put(v, x.x, IF x.by = "+=" THEN old + v.val ELSE v.val)
      [] x.k = "if"    -> LET c == Eval(fs, s, x.arms[1].c)
                          IN  IF c.val # 0 THEN RunAll(fs, c, x.arms[1].body)
                              ELSE IF Len(x.arms) > 1 THEN Run(fs, c, [x EXCEPT !.arms = Tail(@)])
                              ELSE RunAll(fs, c, x.other)
      [] x.k = "while" -> Loop(fs, s, x)
      [] x.k = "ret"   -> [Eval(fs, s, x.e) EXCEPT !.back = TRUE]
      [] x.k = "do"    -> Eval(fs, s, x.e)
      [] x.k = "def"   -> s
RunAll(fs, s, xs) == IF xs = << >> \/ s.back THEN s ELSE RunAll(fs, Run(fs, s, xs[1]), Tail(xs))
Loop(fs, s, x) ==
    LET c == Eval(fs, s, x.c)
    IN  IF s.back \/ s.left = 0 \/ c.val = 0 THEN [c EXCEPT !.back = s.back]
        ELSE Loop(fs, [RunAll(fs, c, x.body) EXCEPT !.left = IF @ = 0 THEN 0 ELSE @ - 1], x)

\* a statement at the top of the script, with env
Does(fs, env, x) == Run(fs, [env |-> env, val |-> 0, args |-> << >>, back |-> FALSE, left |-> MaxTurns], x)

-----------------------------------------------------------------------------
\* The expressions within an expression, and the statements within a statement.
Parts(e) ==
    {e} \cup (CASE e.k = "op"   -> Parts(e.l) \cup Parts(e.r)
                [] e.k = "neg"  -> Parts(e.l)
                [] e.k = "call" -> UNION {Parts(e.args[i]) : i \in DOMAIN e.args}
                [] OTHER        -> {})
Bodies(x) ==
    CASE x.k = "if" -> {x.arms[i].body : i \in DOMAIN x.arms} \cup {x.other}
      [] x.k \in {"while", "def"} -> {x.body}
      [] OTHER -> {}
Within(x) == {x} \cup UNION {UNION {Within(b[i]) : i \in DOMAIN b} : b \in Bodies(x)}
Statements(p) == UNION {Within(p[i]) : i \in DOMAIN p}
Conditions(x) ==
    CASE x.k = "if" -> {x.arms[i].c : i \in DOMAIN x.arms}
      [] x.k = "while" -> {x.c}
      [] OTHER -> {}
Expressions(p) ==
    UNION {Parts(e) : e \in UNION {(IF x.k \in {"set", "ret", "do"} THEN {x.e} ELSE {}) \cup Conditions(x)
                                   : x \in Statements(p)}}
Calls(p) == {e \in Expressions(p) : e.k = "call"}
Functions(p) == {x \in Statements(p) : x.k = "def"}
Table(p) == [f \in {d.f : d \in Functions(p)} |-> CHOOSE d \in Functions(p) : d.f = f]
LastOf(body) == body[Len(body)]

\* what a call of f sets, the functions that it calls included
Reached(p, f) ==
    LET next(fs) == fs \cup {c.f : c \in UNION {Calls(Table(p)[g].body) : g \in fs \cap DOMAIN Table(p)}}
    IN  next(next({f}))
Changes(p, f) ==
    LET ds == {d \in Functions(p) : d.f \in Reached(p, f)}
    IN  UNION {{d.ps[i].x : i \in DOMAIN d.ps} \cup {x.x : x \in {y \in Statements(d.body) : y.k = "set"}}
               : d \in ds}
=============================================================================
