----------------------------- MODULE EdlSyntax -----------------------------
(***************************************************************************)
(* What the front end and the interpreter of EDL share.  A function is      *)
(* [params, void, body]; a statement is [kind, name, e, then, else, at] with *)
(* an expression e of [op, n, v]: every value is an integer here and an     *)
(* expression is a literal v, the variable n, n + v, the test n < v, the    *)
(* call f(n + v) of the program's other function, or none.                  *)
(*                                                                         *)
(* Then the rules that the one enforces and the other relies on, as         *)
(* judgements about bodies: they say the same as EdlFrontend without its    *)
(* recursion.                                                              *)
(***************************************************************************)
EXTENDS Integers, Sequences, FiniteSets, SequencesExt, TLC

UsesName(e) == e.op \in {"name", "plus", "less", "call"}
IsDecl(s) == s.kind \in {"let", "var"}

\* The first entry of that name, 0 if there is none: of a scope (lookupLocal),
\* and of a frame.
LookupLocal(scope, n) == SelectInSeq(scope, LAMBDA sym : sym.name = n)

-----------------------------------------------------------------------------
(* Rules.                                                                  *)

\* A judgement: in a body, or what is left of one, the names visible denote these
\* declarations; so many bare blocks of the function are around it; it is in a
\* loop or not, of a void function or not; and it has to end by a return.
Judgement(body, sym, level, loop, void, ends) ==
  [body |-> body, sym |-> sym, level |-> level, loop |-> loop, void |-> void, ends |-> ends]

With(f, d, v) == [x \in {d} \cup DOMAIN f |-> IF x = d THEN v ELSE f[x]]

\* The judgement of the whole body of function f.
OfFunction(fn, f) ==
  Judgement(fn.body, [n \in {fn.params[i] : i \in DOMAIN fn.params} |-> <<f>>], 0,
            FALSE, fn.void, ~fn.void)

\* Those that one about a body with statement s first rests on.
NamesUsed(s) == (IF UsesName(s.e) THEN {s.e.n} ELSE {})
                  \cup (IF s.kind = "assign" THEN {s.name} ELSE {})
MustEnd(d) == d.ends /\ Tail(d.body) = << >>

AfterIt(d) ==
  LET s == Head(d.body)
  IN  Judgement(Tail(d.body), IF IsDecl(s) THEN With(d.sym, s.name, s.at) ELSE d.sym, d.level,
                d.loop, d.void, d.ends /\ ~MustEnd(d))

Inside(d, body) ==
  LET loop == Head(d.body).kind = "while"
  IN  Judgement(body, d.sym, IF Head(d.body).kind = "block" THEN d.level + 1 ELSE d.level,
                d.loop \/ loop, d.void, ~loop /\ MustEnd(d))

\* An expression where its statement has one, an integer or a test, and a call
\* only of a function that has a value.
Simples == {"let", "var", "assign", "print", "return"}

Shaped(s, calls) ==
  /\ s.kind \in Simples \cup {"if", "while", "block", "break", "continue"}
  /\ s.kind \in Simples \ {"return"} => s.e.op \in {"lit", "name", "plus", "call"}
  /\ s.kind = "return" => s.e.op \in {"lit", "name", "plus", "call", "none"}
  /\ s.kind \in {"if", "while"} => s.e.op = "less"
  /\ s.kind \in {"block", "break", "continue"} => s.e.op = "none"
  /\ s.name \in STRING /\ s.e.n \in STRING /\ s.e.v \in Nat
  /\ s.e.op = "call" => calls

\* The rules, for judgement d among those of J.
Kept(d, J, calls) ==
  LET s == Head(d.body)
  IN  IF d.body = << >> THEN ~d.ends
      ELSE /\ Shaped(s, calls)
           /\ NamesUsed(s) \subseteq DOMAIN d.sym
           /\ s.kind \in {"break", "continue"} => d.loop
           /\ s.kind = "return" => (s.e.op = "none") = d.void
           /\ MustEnd(d) => s.kind \in {"return", "block", "if"}
           /\ AfterIt(d) \in J
           /\ s.kind \in {"if", "while", "block"} => Inside(d, s.then) \in J
           /\ s.kind = "if" => Inside(d, s.else) \in J

Callable(p) == /\ 2 \in DOMAIN p /\ ~p[2].void
               /\ DOMAIN p[2].params = {1} /\ p[2].params[1] \in STRING

\* An occurrence of a name in s is bound to what the name denotes.
NamesOf(s) ==
  (IF UsesName(s.e) THEN {<<s.e.n, "e">>} ELSE {})
    \cup (IF s.kind = "assign" THEN {<<s.name, "target">>} ELSE {})
Denotes(s, sym, nodeSym) == \A nr \in NamesOf(s) : nodeSym[<<s.at, nr[2]>>].at = sym[nr[1]]

\* The declarations: where each is, its name and its level.
Declarations(p, J) ==
  {<<Head(d.body).at, Head(d.body).name, d.level>> : d \in {x \in J : x.body # << >> /\ IsDecl(Head(x.body))}}
    \cup (IF Callable(p) THEN {<< <<2>>, p[2].params[1], 0 >>} ELSE {})

\* Program p, its names bound by nodeSym, keeps the rules: they hold of the
\* judgements J.
Judged(p, nodeSym, J) ==
  /\ \A d \in J : /\ d = Judgement(d.body, d.sym, d.level, d.loop, d.void, d.ends)
                  /\ d.level \in Nat
                  /\ d.loop \in BOOLEAN /\ d.void \in BOOLEAN /\ d.ends \in BOOLEAN
                  /\ Kept(d, J, Callable(p))
                  /\ d.body # << >> => Denotes(Head(d.body), d.sym, nodeSym)
  /\ \A x, y \in Declarations(p, J) : x[1] = y[1] => x = y
  /\ OfFunction(p[1], 1) \in J /\ p[1].params = << >>
  /\ Callable(p) => OfFunction(p[2], 2) \in J

-----------------------------------------------------------------------------
(* Programs the interpreter's flat frames cannot confuse.  Local(body) are  *)
(* the names declared in the frame body runs in: in it, and in its ifs and  *)
(* loops, but not in its bare blocks, which have frames of their own.       *)

\* A loop declares none.  An if declares none that is visible around it or that
\* is declared later; and nothing is declared twice.
Unconfused(d, Local(_)) ==
  LET s == Head(d.body)
      rest == Local(Tail(d.body))
      inner == Local(s.then) \cup Local(s.else)
  IN  /\ rest \subseteq Local(d.body)
      /\ IsDecl(s) => s.name \in Local(d.body) \ rest
      /\ s.kind = "if" => /\ inner \subseteq Local(d.body)
                          /\ inner \cap (rest \cup DOMAIN d.sym) = {}
      /\ s.kind = "while" => Local(s.then) = {}

Plain(p, J, Local(_)) ==
  /\ \A d \in J : d.body # << >> => Unconfused(d, Local)
  /\ Callable(p) => p[2].params[1] \notin Local(p[2].body)
=============================================================================
