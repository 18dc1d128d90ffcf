----------------------------- MODULE EdlInterp -----------------------------
(***************************************************************************)
(* The interpreter of EDL, edl/src/edl/interp.edl: it walks the IR, which    *)
(* names variables by their name alone, and finds a name by scanning a       *)
(* stack of frames.  evalCall and a bare block push a frame; the bodies of   *)
(* if and while run in the frame they are in.                               *)
(*                                                                         *)
(* The recursion of evalStmt, execBody and evalCall is a stack ctl of what   *)
(* is under way: the rest of a body, a while loop, a bare block, a call and  *)
(* the statement that awaits its value.  env is a history variable: for each *)
(* call under way the value of every declaration it has executed, which is   *)
(* what a program means when its names denote what resolution bound them to. *)
(***************************************************************************)
EXTENDS EdlSyntax

CONSTANTS Programs,   \* what the program may be: sequences of functions
          FrontEnd(_), \* what the front end makes of one: [accepted, prog, nodeSym]
          Judgements(_), \* what can be derived about one (EdlSyntax)
          Local(_),   \* the names that a body declares in its frame
          MaxInt,     \* bound on the values a program computes
          MaxCalls,   \* bound on the calls under way
          MaxOut,     \* bound on the values printed
          MaxBindings \* bound on the bindings of a frame: a declaration in a
                      \* loop adds one at every turn

ASSUME InterpAssumption == MaxInt \in Nat

VARIABLES prog,       \* the program, its nodes numbered
          nodeSym,    \* what resolution bound each identifier to
          frames,     \* interp.frames: each a sequence of [name, val]
          ctl, flow, returnValue,
          out,        \* what print has printed, oldest first
          env

vars == <<prog, nodeSym, frames, ctl, flow, returnValue, out, env>>

Void == -1
Value == 0 .. MaxInt

-----------------------------------------------------------------------------
(* Frames.                                                                 *)

\* lookup and setBinding: innermost frame first, but within a frame the
\* binding that was made first.
FrameOf_OldestFirst(n) == SelectInSeq(frames, LAMBDA fr : LookupLocal(fr, n) # 0)
FrameOf(n) == SelectLastInSeq(frames, LAMBDA fr : LookupLocal(fr, n) # 0)

Look(n) == IF FrameOf(n) = 0 THEN Void
           ELSE frames[FrameOf(n)][LookupLocal(frames[FrameOf(n)], n)].val

Bound(n, v) ==
  [frames EXCEPT ![Len(frames)] = Append(@, [name |-> n, val |-> v])]

Rebound(n, v) ==
  IF FrameOf(n) = 0 THEN Bound(n, v)
  ELSE [frames EXCEPT ![FrameOf(n)][LookupLocal(frames[FrameOf(n)], n)].val = v]

\* Expressions without a call.  The intVal of a void value is 0.
IntVal(n) == IF Look(n) = Void THEN 0 ELSE Look(n)
Eval(e) == CASE e.op = "lit" -> e.v
             [] e.op = "name" -> Look(e.n)
             [] e.op = "plus" -> IntVal(e.n) + e.v
             [] OTHER -> Void
Holds(e) == IntVal(e.n) < e.v

-----------------------------------------------------------------------------
Top == Last(ctl)
Body(b) == [k |-> "body", rest |-> b]
AtStmt == ctl # << >> /\ Top.k = "body" /\ flow = "normal" /\ Top.rest # << >>
Stmt == Head(Top.rest)
Advanced == Append(Front(ctl), Body(Tail(Top.rest)))

Current(kinds) == AtStmt /\ Stmt.kind \in kinds

Init ==
  /\ \E p \in Programs :
       LET c == FrontEnd(p)
       IN  c.accepted /\ prog = c.prog /\ nodeSym = c.nodeSym
  /\ frames = << << >> >>
  /\ ctl = <<Body(prog[1].body)>>
  /\ flow = "normal"
  /\ returnValue = Void
  /\ out = << >>
  /\ env = << << >> >>

\* A declaration executed in the current call, in the reference semantics.
Declared(d, v) == [env EXCEPT ![Len(env)] = With(@, d, v)]

\* What a statement s does with the value v of its expression.
Finish(s, v, c) ==
  CASE s.kind \in {"let", "var"} ->
         /\ Len(Last(frames)) < MaxBindings
         /\ frames' = Bound(s.name, v)
         /\ env' = Declared(s.at, v)
         /\ ctl' = c
         /\ UNCHANGED <<flow, returnValue, out>>
    [] s.kind = "assign" ->
         /\ frames' = Rebound(s.name, v)
         /\ env' = Declared(nodeSym[<<s.at, "target">>].at, v)
         /\ ctl' = c
         /\ UNCHANGED <<flow, returnValue, out>>
    [] s.kind = "print" ->
         /\ Len(out) < MaxOut
         /\ out' = Append(out, v)
         /\ ctl' = c
         /\ UNCHANGED <<frames, env, flow, returnValue>>
    [] s.kind = "return" ->
         /\ returnValue' = v
         /\ flow' = "return"
         /\ ctl' = c
         /\ UNCHANGED <<frames, env, out>>

Simple ==
  /\ Current({"let", "var", "assign", "print", "return"})
  /\ Stmt.e.op # "call"
  /\ Eval(Stmt.e) <= MaxInt
  /\ Finish(Stmt, Eval(Stmt.e), Advanced)
  /\ UNCHANGED <<prog, nodeSym>>

If ==
  /\ Current({"if"})
  /\ ctl' = Append(Advanced, Body(IF Holds(Stmt.e) THEN Stmt.then ELSE Stmt.else))
  /\ UNCHANGED <<prog, nodeSym, frames, flow, returnValue, out, env>>

While ==
  /\ Current({"while"})
  /\ ctl' = Append(Advanced, [k |-> "while", s |-> Stmt])
  /\ UNCHANGED <<prog, nodeSym, frames, flow, returnValue, out, env>>

Block ==
  /\ Current({"block"})
  /\ frames' = Append(frames, << >>)
  /\ ctl' = Advanced \o <<[k |-> "block"], Body(Stmt.then)>>
  /\ UNCHANGED <<prog, nodeSym, flow, returnValue, out, env>>

Jump ==
  /\ Current({"break", "continue"})
  /\ flow' = Stmt.kind
  /\ ctl' = Advanced
  /\ UNCHANGED <<prog, nodeSym, frames, returnValue, out, env>>

-----------------------------------------------------------------------------
(* evalCall: the argument is evaluated in the caller's frames.              *)

Calls == {i \in DOMAIN ctl : ctl[i].k = "call"}

Call ==
  /\ AtStmt
  /\ Stmt.e.op = "call"
  /\ Cardinality(Calls) < MaxCalls
  /\ LET arg == IntVal(Stmt.e.n) + Stmt.e.v
     IN  /\ arg <= MaxInt
         /\ frames' = Append(frames, <<[name |-> prog[2].params[1], val |-> arg]>>)
         /\ env' = Append(env, [d \in {<<2>>} |-> arg])
  /\ ctl' = Advanced \o <<[k |-> "call", s |-> Stmt], Body(prog[2].body)>>
  /\ flow' = "normal"
  /\ returnValue' = Void
  /\ UNCHANGED <<prog, nodeSym, out>>

\* The callee's body is over: its frame goes, the flow is the caller's again,
\* which was normal, and the statement that made the call gets the value.
AtReturn == ctl # << >> /\ Top.k = "call"

Return_LosesValue ==
  /\ AtReturn
  /\ returnValue' = Void
  /\ frames' = Front(frames)
  /\ env' = Front(env)
  /\ flow' = "normal"
  /\ ctl' = Append(Front(ctl), [k |-> "deliver", s |-> Top.s])
  /\ UNCHANGED <<prog, nodeSym, out>>

Return ==
  /\ AtReturn
  /\ frames' = Front(frames)
  /\ env' = Front(env)
  /\ flow' = "normal"
  /\ ctl' = Append(Front(ctl), [k |-> "deliver", s |-> Top.s])
  /\ UNCHANGED <<prog, nodeSym, returnValue, out>>

Deliver ==
  /\ ctl # << >> /\ Top.k = "deliver"
  /\ Finish(Top.s, returnValue, Front(ctl))
  /\ UNCHANGED <<prog, nodeSym>>

-----------------------------------------------------------------------------
(* Ends.                                                                   *)

\* execBody returns: nothing left, or something to leave for.
EndBody ==
  /\ ctl # << >> /\ Top.k = "body"
  /\ flow # "normal" \/ Top.rest = << >>
  /\ ctl' = Front(ctl)
  /\ UNCHANGED <<prog, nodeSym, frames, flow, returnValue, out, env>>

\* The while loop after its body, or before the first turn.
AtLoop == ctl # << >> /\ Top.k = "while"

EndLoop_KeepsFlow ==
  /\ AtLoop
  /\ flow \in {"break", "return"}
  /\ ctl' = Front(ctl)
  /\ UNCHANGED <<prog, nodeSym, frames, flow, returnValue, out, env>>

\* break ends here; return goes on to the end of the call.
EndLoop ==
  /\ AtLoop
  /\ flow \in {"break", "return"}
  /\ flow' = IF flow = "break" THEN "normal" ELSE flow
  /\ ctl' = Front(ctl)
  /\ UNCHANGED <<prog, nodeSym, frames, returnValue, out, env>>

Turn ==
  /\ AtLoop
  /\ flow \in {"normal", "continue"}
  /\ flow' = "normal"
  /\ ctl' = IF Holds(Top.s.e) THEN Append(ctl, Body(Top.s.then)) ELSE Front(ctl)
  /\ UNCHANGED <<prog, nodeSym, frames, returnValue, out, env>>

EndBlock_OnlyIfNormal ==
  /\ ctl # << >> /\ Top.k = "block"
  /\ frames' = IF flow = "normal" THEN Front(frames) ELSE frames
  /\ ctl' = Front(ctl)
  /\ UNCHANGED <<prog, nodeSym, flow, returnValue, out, env>>

\* The block's frame goes however the block was left.
EndBlock ==
  /\ ctl # << >> /\ Top.k = "block"
  /\ frames' = Front(frames)
  /\ ctl' = Front(ctl)
  /\ UNCHANGED <<prog, nodeSym, flow, returnValue, out, env>>

Next == \/ Simple \/ If \/ While \/ Block \/ Jump
        \/ Call \/ Return \/ Deliver
        \/ EndBody \/ EndLoop \/ Turn \/ EndBlock

Spec == Init /\ [][Next]_vars

-----------------------------------------------------------------------------
(* Properties.                                                             *)

\* What the variables range over: in particular an accepted program never
\* binds, prints or returns the void value of a name that was not found.
TypeOK ==
  /\ \A k \in DOMAIN frames : \A j \in DOMAIN frames[k] : frames[k][j].val \in Value
  /\ flow \in {"normal", "return", "break", "continue"}
  /\ returnValue \in Value \cup {Void}
  /\ out \in Seq(Value)
  /\ \A k \in DOMAIN env : \A d \in DOMAIN env[k] : env[k][d] \in Value

\* The frames that are there while the first m of what is under way, c, are.
Opened(c, m) == 1 + Cardinality({i \in 1 .. m : c[i].k \in {"call", "block"}})

\* Every frame belongs to a call or a block that is still under way: return,
\* break and continue out of nested blocks, loops and calls leave none behind
\* and take none too many.
FramesMatch ==
  /\ Len(frames) = Opened(ctl, Len(ctl))
  /\ Len(env) = 1 + Cardinality(Calls)

\* The statement, or loop, whose names are looked up next.
Looking == IF AtStmt THEN {Stmt}
           ELSE IF AtLoop /\ flow \in {"normal", "continue"} THEN {Top.s} ELSE {}

\* The frames of the current call: those since the last call began.
Base == Opened(ctl, SelectLastInSeq(ctl, LAMBDA c : c.k = "call"))

\* lookup scans the frames of every caller, but a name that resolution has
\* accepted is always found in the frames of the call that uses it.
StaysInCall ==
  \A s \in Looking : \A nr \in NamesOf(s) : FrameOf(nr[1]) >= Base

\* break and continue travel no further than a loop of their own call.
FlowCaught ==
  flow \in {"break", "continue"} =>
    SelectLastInSeq(ctl, LAMBDA c : c.k = "while")
      > SelectLastInSeq(ctl, LAMBDA c : c.k = "call")

\* The static check of missing returns is sound: a call of a function with a
\* result ends by a return statement of its own, never by falling off its end.
ValueReturned == AtReturn /\ ~prog[2].void => flow = "return" /\ returnValue # Void

\* The names in the IR are "final names" with "no names left to look up": what
\* the interpreter finds for a name is the current value of the declaration
\* that resolution bound it to.
NamesMeanDeclarations ==
  \A s \in Looking : \A nr \in NamesOf(s) :
    Look(nr[1]) = env[Len(env)][nodeSym[<<s.at, nr[2]>>].at]

\* So it is for the programs that flat frames cannot confuse.
PlainNames == Plain(prog, Judgements(prog), Local) => NamesMeanDeclarations

\* What the front end accepts keeps the rules that EdlSyntax states without its
\* recursion: the resolver's scopes, the depth of loops that the type checker
\* counts and its search for a return on every path agree with the judgements.
RulesKept == Judged(prog, nodeSym, Judgements(prog))
=============================================================================
