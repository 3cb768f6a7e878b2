---------------------------- MODULE ScriptPrograms ----------------------------
(***************************************************************************)
(* The scripts that the engine is checked with: a function, a statement     *)
(* that sets a variable, one statement of every kind with every expression  *)
(* of a small set in it, and one that reads what that left.                 *)
(***************************************************************************)
EXTENDS Script

x == Var("x")
n == Var("n")
one == Num(1)
two == Num(2)
Add1(e) == Op("+", e, one)

Bodies1 ==
    { <<Set("x", "=", n), Ret(Op("*", x, two))>>,
      <<Set("x", "=", Add1(n))>>,
      <<IfElse(<<[c |-> Op("==", n, one), body |-> <<Ret(two)>>]>>, << >>), Ret(n)>>,
      <<Ret(Op("*", Add1(n), two))>>,
      <<IfElse(<<[c |-> Op(">", n, one), body |-> <<Set("x", "=", CallOf("f", <<one>>))>>]>>, << >>), Ret(x)>>,
      <<While(Op("<", x, two), <<Set("x", "=", Add1(x))>>), Ret(x)>>,
      <<While(Op("<", x, two), <<Set("x", "=", Add1(x))>>)>> }

Leaves == {one, x, Var("y"), CallOf("f", <<two>>), CallOf("f", <<x>>), CallOf("g", <<one>>)}
Chosen == {"+", "-", "*", "<", "&&"}
Simple == {Op(o, l, r) : o \in Chosen, l \in Leaves, r \in Leaves \ {Var("y")}}
Nested == {Op(o, e, r) : o \in Chosen, e \in {Op(q, two, x) : q \in Chosen} \cup {Op("-", x, one)}, r \in {two, CallOf("f", <<one>>)}}
     \cup {Op(o, l, Op(q, x, one)) : o \in Chosen, q \in Chosen, l \in {two, x}}
     \cup {Neg(x), Neg(Add1(x)), Op("-", one, Neg(two)), CallOf("f", <<Add1(x)>>)}
All1 == Leaves \cup Simple \cup Nested

Tests == {Op("==", x, one), Op("<", x, two), Op("&&", Op("<", x, two), Op(">=", Var("y"), one)), x,
          Op("<", Op("-", Op("-", x, one), one), one), Op("==", Op("==", x, one), Num(0))}
Short == {<<Set("y", "=", two)>>, <<Set("y", "+=", one)>>, <<Do(CallOf("f", <<two>>))>>}
Bodies2 == Short \cup {<<While(Op("<", x, two), <<Set("x", "=", Add1(x))>>)>>,
                      <<While(Op("<", x, two), <<Set("x", "=", Add1(x))>>), Set("y", "=", x)>>,
                      <<IfElse(<<[c |-> Op("<=", x, one), body |-> <<Set("x", "=", two)>>]>>, << >>)>>}

Middles ==
    {Set("x", "=", e) : e \in All1}
    \cup {IfElse(<<[c |-> c, body |-> b]>>, d) : c \in Tests, b \in Bodies2, d \in {<< >>} \cup Short}
    \cup {IfElse(<<[c |-> c, body |-> b], [c |-> Op(">", x, one), body |-> <<Set("y", "=", Num(3))>>]>>, d)
           : c \in Tests, b \in Short, d \in {<< >>} \cup Short}
    \cup {While(c, b \o <<Set("x", "=", Add1(x))>>) : c \in Tests, b \in {<< >>} \cup Bodies2}

Firsts == {<< >>, <<Set("x", "=", one)>>, <<Set("x", "=", Add1(one))>>}
Lasts  == {<<Set("y", "=", Op("+", x, Var("y")))>>, <<Set("y", "=", CallOf("g", << >>))>>}

AllPrograms ==
    {<<Def("f", <<n>>, b)>> \o a \o <<c>> \o d : b \in Bodies1, a \in Firsts, c \in Middles, d \in Lasts}
=============================================================================
