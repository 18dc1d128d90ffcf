---------------------------- MODULE EdlFrontend ----------------------------
(***************************************************************************)
(* What the front end of the EDL compiler (edl/src/edl) makes of a program  *)
(* before it runs: dense node ids (assignIds of ast.edl), name resolution   *)
(* (scopes.edl, resolve.edl) and the rules of typecheck.edl that are about  *)
(* control and binding rather than about types.                             *)
(***************************************************************************)
EXTENDS EdlSyntax

\* assignIds: here the id of a node is its path from its function.
RECURSIVE Placed(_, _)
Placed(body, path) ==
  [k \in DOMAIN body |->
     [body[k] EXCEPT !.at = Append(path, k),
                     !.then = Placed(@, path \o <<k, 1>>),
                     !.else = Placed(@, path \o <<k, 2>>)]]

-----------------------------------------------------------------------------
(* scopes.edl: a scope is a sequence of symbols [name, kind, at]; a chain of *)
(* scopes is a sequence, the innermost last.                                *)

\* lookup: walks the chain outwards; Unknown where the code returns nil.
Unknown == [name |-> "", kind |-> "error", at |-> << >>]

Lookup(scopes, n) ==
  LET k == SelectLastInSeq(scopes, LAMBDA scope : LookupLocal(scope, n) # 0)
  IN  IF k = 0 THEN Unknown ELSE scopes[k][LookupLocal(scopes[k], n)]

-----------------------------------------------------------------------------
(* resolve.edl: the state of the pass is the scope chain, the binding of    *)
(* each identifier (nodeSym: an occurrence is a statement's path and "e" or  *)
(* "target"), and whether an error has been reported.                       *)

BindIdent(st, occ, n) ==
  LET sym == Lookup(st.scopes, n)
  IN  [st EXCEPT !.nodeSym = (occ :> sym) @@ @,
                 !.error = @ \/ sym = Unknown]

ResolveExpr(st, s) == IF UsesName(s.e) THEN BindIdent(st, <<s.at, "e">>, s.e.n) ELSE st

\* declare: false, and nothing declared, when the innermost scope has the name.
Declare(st, sym) ==
  LET inner == Len(st.scopes)
  IN  IF LookupLocal(st.scopes[inner], sym.name) # 0
      THEN [st EXCEPT !.error = TRUE]
      ELSE [st EXCEPT !.scopes[inner] = Append(@, sym)]

RECURSIVE ResolveStmt(_, _)

ResolveBlock_LeavesScopeOpen(st, body) ==
  FoldLeft(LAMBDA acc, s : ResolveStmt(acc, s),
           [st EXCEPT !.scopes = Append(@, << >>)], body)

\* A block has a scope of its own, gone when the block ends.
ResolveBlock(st, body) ==
  LET inside == FoldLeft(LAMBDA acc, s : ResolveStmt(acc, s),
                         [st EXCEPT !.scopes = Append(@, << >>)], body)
  IN  [inside EXCEPT !.scopes = st.scopes]

\* An initialiser is resolved before its name is declared, a condition outside
\* the block it guards.  (The list of pending names only chooses between two
\* error messages for a name that is not in scope.)
ResolveStmt(st, s) ==
  CASE IsDecl(s) ->
         Declare(ResolveExpr(st, s), [name |-> s.name, kind |-> s.kind, at |-> s.at])
    [] s.kind = "assign" -> ResolveExpr(BindIdent(st, <<s.at, "target">>, s.name), s)
    [] s.kind = "if" -> ResolveBlock(ResolveBlock(ResolveExpr(st, s), s.then), s.else)
    [] s.kind \in {"while", "block"} -> ResolveBlock(ResolveExpr(st, s), s.then)
    [] OTHER -> ResolveExpr(st, s)

Param(fn, f) ==
  FoldLeft(LAMBDA acc, n : Declare(acc, [name |-> n, kind |-> "param", at |-> <<f>>]),
           [scopes |-> << << >> >>, nodeSym |-> << >>, error |-> FALSE], fn.params)

\* resolveFunctionBodies: the parameters are in a scope around the body's.
Resolved(fn, f) == ResolveBlock(Param(fn, f), fn.body)

-----------------------------------------------------------------------------
(* typecheck.edl.                                                          *)

RECURSIVE Terminates(_), CheckStmt(_, _, _, _)

\* "every path leaves the function", for the last statement of a body.
TerminatesBody(body) == body # << >> /\ Terminates(Last(body))
Terminates_IfWithoutElse(s) ==
  CASE s.kind = "return" -> TRUE
    [] s.kind = "block" -> TerminatesBody(s.then)
    [] s.kind = "if" -> TerminatesBody(s.then)
    [] OTHER -> FALSE

Terminates(s) ==
  CASE s.kind = "return" -> TRUE
    [] s.kind = "block" -> TerminatesBody(s.then)
    [] s.kind = "if" -> TerminatesBody(s.then) /\ TerminatesBody(s.else)
    [] OTHER -> FALSE

CheckStmt_DepthOfBlocks(s, depth, void, nodeSym) ==
  /\ s.kind = "assign" => nodeSym[<<s.at, "target">>].kind # "let"
  /\ s.kind \in {"break", "continue"} => depth > 0
  /\ s.kind = "return" => (s.e.op = "none") = void
  /\ \A k \in DOMAIN s.then : CheckStmt(s.then[k], depth + 1, void, nodeSym)
  /\ \A k \in DOMAIN s.else : CheckStmt(s.else[k], depth + 1, void, nodeSym)

\* A let is not assigned to, break and continue are inside a loop of their
\* function, a void function returns nothing and any other a value.
CheckStmt(s, depth, void, nodeSym) ==
  /\ s.kind = "assign" => nodeSym[<<s.at, "target">>].kind # "let"
  /\ s.kind \in {"break", "continue"} => depth > 0
  /\ s.kind = "return" => (s.e.op = "none") = void
  /\ LET inner == IF s.kind = "while" THEN depth + 1 ELSE depth
     IN  \A k \in DOMAIN s.then : CheckStmt(s.then[k], inner, void, nodeSym)
  /\ \A k \in DOMAIN s.else : CheckStmt(s.else[k], depth, void, nodeSym)

TypeChecks(fn, nodeSym) ==
  /\ \A k \in DOMAIN fn.body : CheckStmt(fn.body[k], 0, fn.void, nodeSym)
  /\ fn.void \/ TerminatesBody(fn.body)

-----------------------------------------------------------------------------
(* The driver: resolution, then type checking, each only if all went well   *)
(* before.  A program is a sequence of functions, main first.               *)

Place(prog) ==
  [f \in DOMAIN prog |-> [prog[f] EXCEPT !.body = Placed(@, <<f>>)]]

Accepted(prog) ==
  LET res == [f \in DOMAIN prog |-> Resolved(prog[f], f)]
  IN  /\ \A f \in DOMAIN prog : ~res[f].error
      /\ \A f \in DOMAIN prog : TypeChecks(prog[f], res[f].nodeSym)

\* The side table for the whole program.
NodeSym(prog) ==
  FoldLeft(LAMBDA table, f : table @@ Resolved(prog[f], f).nodeSym,
           << >>, [f \in DOMAIN prog |-> f])

\* compile: the nodes are numbered, then resolved, then checked.
Compile(p) ==
  LET placed == Place(p)
  IN  [accepted |-> Accepted(placed), prog |-> placed, nodeSym |-> NodeSym(placed)]

-----------------------------------------------------------------------------
(* What can be derived about a program.                                    *)

\* The judgements that d rests on, itself among them.
RECURSIVE Derived(_)
Derived(d) ==
  IF d.body = << >> THEN {d}
  ELSE LET s == Head(d.body)
       IN  {d} \cup Derived(AfterIt(d))
             \cup (IF s.kind \in {"if", "while", "block"} THEN Derived(Inside(d, s.then)) ELSE {})
             \cup (IF s.kind = "if" THEN Derived(Inside(d, s.else)) ELSE {})
AllDerived(p) == UNION {Derived(OfFunction(p[f], f)) : f \in DOMAIN p}

\* The names a body declares in the frame it runs in.
RECURSIVE DeclaredIn(_)
DeclaredIn(body) ==
  UNION {LET s == body[k]
         IN  CASE IsDecl(s) -> {s.name}
               [] s.kind \in {"if", "while"} -> DeclaredIn(s.then) \cup DeclaredIn(s.else)
               [] OTHER -> {}
         : k \in DOMAIN body}
=============================================================================
