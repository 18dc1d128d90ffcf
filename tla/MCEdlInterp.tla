---------------------------- MODULE MCEdlInterp ----------------------------
(* Small programs for the interpreter: a main that declares x, runs one      *)
(* simple and one compound statement and prints x, and a function f(x).      *)
EXTENDS EdlFrontend, EdlInterp

E(op, n, v) == [op |-> op, n |-> n, v |-> v]
None == E("none", "", 0)
Lit(v) == E("lit", "", v)
S(kind, name, e, then, else) ==
  [kind |-> kind, name |-> name, e |-> e, then |-> then, else |-> else, at |-> << >>]
Let(n, e) == S("let", n, e, << >>, << >>)
Var(n, e) == S("var", n, e, << >>, << >>)
Set(n, e) == S("assign", n, e, << >>, << >>)
Prn(n) == S("print", "", E("name", n, 0), << >>, << >>)
Ret(e) == S("return", "", e, << >>, << >>)
IfElse(n, v, b1, b2) == S("if", "", E("less", n, v), b1, b2)
Loop(n, v, b) == S("while", "", E("less", n, v), b, << >>)
Braces(b) == S("block", "", None, b, << >>)
Break == S("break", "", None, << >>, << >>)
Continue == S("continue", "", None, << >>, << >>)
Fn(params, void, body) == [params |-> params, void |-> void, body |-> body]

\* f calls itself when its argument is 0, from inside a block.
Recursive ==
  Fn(<<"x">>, FALSE,
     <<IfElse("x", 1, <<Braces(<<Let("y", E("call", "x", 1)), Ret(E("plus", "y", 1))>>)>>, << >>),
       Ret(E("plus", "x", 1))>>)

Plainest == {Let("y", Lit(0)), Var("x", Lit(1)), Var("y", E("plus", "x", 1)),
             Set("x", E("plus", "x", 1)), Set("y", E("name", "x", 0)), Prn("y"),
             Set("x", E("call", "x", 0)), Break, Continue, Ret(None)}
Inner == Plainest \cup {IfElse("x", 2, <<s>>, << >>) : s \in Plainest \ {Prn("y")}}
                  \cup {Braces(<<s>>) : s \in {Break, Continue, Ret(None), Var("x", Lit(1)), Let("y", Lit(0))}}
Bodies(stmts) == {<< >>} \cup {<<s>> : s \in stmts} \cup {<<s, t>> : s \in stmts, t \in stmts}

Compound(b) == {IfElse("x", 1, b, <<Let("y", Lit(2))>>), Loop("x", 2, b),
                Loop("x", 2, <<Braces(b), Set("x", E("plus", "x", 1))>>), Braces(b)}
MainsOf(firsts) ==
  {<<Fn(<< >>, TRUE, <<Var("x", Lit(0))>> \o first \o <<s, Prn("x")>>), Recursive>> :
     first \in firsts, s \in UNION {Compound(b) : b \in Bodies(Inner)}}

\* Bodies of f, called once.
Tails == {<<Ret(E("name", "x", 0))>>, << >>,
          <<IfElse("x", 1, <<Ret(Lit(0))>>, <<Ret(Lit(1))>>)>>,
          <<IfElse("x", 1, <<Ret(Lit(0))>>, << >>)>>,
          <<Braces(<<Ret(Lit(2))>>)>>,
          <<Loop("x", 1, <<Ret(Lit(0))>>)>>}
Heads == {<< >>, <<Let("x", Lit(1))>>, <<Var("y", Lit(0)), Loop("y", 1, <<Set("y", E("plus", "y", 1)), Continue>>)>>,
          <<Loop("x", 1, <<Braces(<<Ret(E("plus", "x", 2))>>)>>)>>,
          <<Loop("x", 1, <<Braces(<<Break>>)>>)>>, <<Prn("y")>>}
Functions ==
  {<<Fn(<< >>, TRUE, <<Var("y", Lit(0)), Set("y", E("call", "y", a)), Prn("y")>>),
     Fn(<<"x">>, FALSE, h \o t)>> : a \in 0 .. 1, h \in Heads, t \in Tails}

AllPrograms == MainsOf({<< >>, <<Var("y", Lit(0))>>, <<Let("y", E("call", "x", 1))>>}) \cup Functions
FewPrograms == MainsOf({<< >>})
=============================================================================
