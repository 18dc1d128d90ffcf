--------------------------- MODULE EdlInterpProofs ---------------------------
(***************************************************************************)
(* Theorems about EdlInterp, for any programs that keep the rules of         *)
(* EdlSyntax: of any number of statements, nested in any way, with any depth *)
(* of calls.  The invariant says of everything under way which judgement it *)
(* fits: what is still to run in a body may use the names of a judgement,   *)
(* all of them in frames of its own call.                                   *)
(* For the programs that EdlSyntax calls plain a second invariant, in the    *)
(* last part, says what every name in every frame stands for.               *)
(***************************************************************************)
EXTENDS EdlInterp, FiniteSetTheorems, SequenceTheorems, WellFoundedInduction, TLAPS

(* ------------------------ The inductive invariant ----------------------- *)

Binding == [name : STRING, val : Value]
IsSeq(s) == s \in Seq({s[i] : i \in DOMAIN s})

Has(fr, n) == \E j \in DOMAIN fr : fr[j].name = n

\* Whether one of the first i items of c is a call, and whether one is a loop
\* of the last of those calls.
CallIn(c, i) == \E k \in 1 .. i : c[k].k = "call"
Looped(c, i) == \E w \in 1 .. i : c[w].k = "while" /\ \A k \in w + 1 .. i : c[k].k # "call"

\* Item i of c finds n in a frame of its own call.
Seen(n, c, fr, i) ==
  \E g \in 1 .. Opened(c, i) :
    Has(fr[g], n) /\ \A k \in 1 .. i : c[k].k = "call" => Opened(c, k) <= g

\* The name that item i has declared and the call above it is still to bind.
Owed(c, i) == IF i < Len(c) /\ c[i + 1].k \in {"call", "deliver"} /\ IsDecl(c[i + 1].s)
              THEN {c[i + 1].s.name} ELSE {}

Fits(d, c, fr, i) ==
  /\ \A n \in DOMAIN d.sym \ Owed(c, i) : Seen(n, c, fr, i)
  /\ d.loop => Looped(c, i)
  /\ d.void = prog[IF CallIn(c, i) THEN 2 ELSE 1].void

\* Item i of c is justified by a judgement of J.
ItemOK(J, c, fr, i) ==
  /\ c[i].k \in {"body", "while", "block", "call", "deliver"}
  /\ c[i].k = "body" => \E d \in J : d.body = c[i].rest /\ Fits(d, c, fr, i)
  /\ c[i].k = "while" => \E d \in J : /\ d.body # << >> /\ Head(d.body) = c[i].s
                                      /\ c[i].s.kind = "while" /\ Fits(d, c, fr, i)
  /\ c[i].k \in {"call", "deliver"} =>
       c[i].s.e.op = "call" /\ Shaped(c[i].s, Callable(prog))
Items(J, c, fr) == \A i \in 1 .. Len(c) : ItemOK(J, c, fr, i)

\* What a call waits for: a body that ends by a return, with nothing left to do
\* in what is below it, unless it is returning already.
Passed(it) == it.k = "block" \/ (it.k = "body" /\ it.rest = << >>)
Ending(J, it) == \/ it.k = "body" /\ \E d \in J : d.body = it.rest /\ d.ends
                 \/ it.k \in {"call", "deliver"} /\ it.s.kind = "return"
Ends(J, c, i) == \E x \in i + 1 .. Len(c) : Ending(J, c[x]) /\ \A j \in i + 1 .. x - 1 : Passed(c[j])
LastCall(c, i) == c[i].k = "call" /\ \A j \in i + 1 .. Len(c) : c[j].k # "call"
Endings(J, c, fl) ==
  \A i \in 1 .. Len(c) : c[i].k = "call" => (fl = "return" /\ LastCall(c, i)) \/ Ends(J, c, i)

FlowOK(c, fl, rv) ==
  /\ fl \in {"normal", "return", "break", "continue"}
  /\ fl \in {"break", "continue"} => Looped(c, Len(c))
  /\ fl = "return" /\ CallIn(c, Len(c)) => rv \in Value
  /\ \A i \in 1 .. Len(c) : c[i].k = "deliver" => i = Len(c) /\ fl = "normal" /\ rv \in Value

EnvOK(e) == IsSeq(e) /\ \A k \in DOMAIN e : \A d \in DOMAIN e[k] : e[k][d] \in Value

Typed ==
  /\ IsSeq(ctl)
  /\ frames \in Seq(Seq(Binding))
  /\ EnvOK(env)
  /\ out \in Seq(Value)
  /\ returnValue \in Value \cup {Void}

IInv(J) == /\ Typed /\ FramesMatch
           /\ Items(J, ctl, frames) /\ Endings(J, ctl, flow) /\ FlowOK(ctl, flow, returnValue)

(* --------------------------- First and last ---------------------------- *)

LEMMA Least == ASSUME NEW T \in SUBSET Nat, T # {} PROVE \E x \in T : \A y \in T : x <= y
<1> DEFINE R == {ss \in Nat \X Nat : ss[1] < ss[2]}
<1>1. IsWellFoundedOn(R, Nat)
  BY NatLessThanWellFounded DEF OpToRel
<1>2. PICK x \in T : \A y \in T : ~ (<<y, x>> \in R)
  <2> HIDE DEF R
  <2> QED BY <1>1, WFMin
<1>3. ASSUME NEW y \in T PROVE x <= y
  <2>1. ~ (<<y, x>> \in R) /\ x \in Nat /\ y \in Nat
    BY <1>2
  <2>2. ~ (y < x)
    BY <2>1
  <2> QED BY <2>1, <2>2
<1> QED BY <1>3

LEMMA Greatest ==
  ASSUME NEW n \in Nat, NEW T \in SUBSET (1 .. n), T # {} PROVE \E x \in T : \A y \in T : x >= y
<1> DEFINE U == {n - x : x \in T}
<1>1. U \in SUBSET Nat /\ U # {}
  <2>1. \A x \in T : n - x \in Nat
    OBVIOUS
  <2> QED BY <2>1
<1>2. PICK u \in U : \A y \in U : u <= y
  <2> HIDE DEF U
  <2> QED BY <1>1, Least
<1>3. PICK x \in T : u = n - x
  BY <1>2
<1>4. ASSUME NEW y \in T PROVE x >= y
  <2>1. n - x <= n - y
    BY <1>2, <1>3
  <2> QED BY <2>1
<1> QED BY <1>4

\* What SelectInSeq and SelectLastInSeq choose of the indices I.
LEMMA FirstOf ==
  ASSUME NEW n \in Nat, NEW I \in SUBSET (1 .. n), I # {}
  PROVE  Min(I) \in I /\ \A y \in I : Min(I) <= y
<1>1. \E x \in I : \A y \in I : x <= y
  BY Least
<1> QED BY <1>1 DEF Min

LEMMA LastOf ==
  ASSUME NEW n \in Nat, NEW I \in SUBSET (1 .. n), I # {}
  PROVE  Max(I) \in I /\ \A y \in I : Max(I) >= y
<1>1. \E x \in I : \A y \in I : x >= y
  BY Greatest
<1> QED BY <1>1 DEF Max

\* lookupLocal.
LEMMA LookupIn ==
  ASSUME NEW S, NEW fr \in Seq(S), NEW n
  PROVE  /\ Has(fr, n) => LookupLocal(fr, n) \in DOMAIN fr /\ fr[LookupLocal(fr, n)].name = n
         /\ ~Has(fr, n) => LookupLocal(fr, n) = 0
<1> DEFINE I == {i \in 1 .. Len(fr) : fr[i].name = n}
<1>1. LookupLocal(fr, n) = IF I # {} THEN Min(I) ELSE 0
  BY DEF LookupLocal, SelectInSeq
<1>2. DOMAIN fr = 1 .. Len(fr) /\ Len(fr) \in Nat
  BY LenProperties
<1>3. Has(fr, n) <=> I # {}
  BY <1>2 DEF Has
<1>4. I # {} => Min(I) \in I
  <2>1. I \in SUBSET (1 .. Len(fr))
    OBVIOUS
  <2> HIDE DEF I
  <2> QED BY <2>1, <1>2, FirstOf
<1> QED BY <1>1, <1>2, <1>3, <1>4

LEMMA LookupFinds ==
  ASSUME NEW S, NEW fr \in Seq(S), NEW n PROVE LookupLocal(fr, n) # 0 <=> Has(fr, n)
<1>1. DOMAIN fr = 1 .. Len(fr) /\ Len(fr) \in Nat
  BY LenProperties
<1> QED BY <1>1, LookupIn

\* lookup: 0 if no frame has the name, else the last that has it.
LEMMA FrameFound ==
  ASSUME NEW S, frames \in Seq(Seq(S)), NEW n
  PROVE  LET f == FrameOf(n)
         IN  \/ f = 0 /\ \A g \in DOMAIN frames : ~Has(frames[g], n)
             \/ f \in DOMAIN frames /\ Has(frames[f], n)
                  /\ \A g \in DOMAIN frames : Has(frames[g], n) => g <= f
<1> DEFINE I == {i \in 1 .. Len(frames) : LookupLocal(frames[i], n) # 0}
<1>1. FrameOf(n) = IF I # {} THEN Max(I) ELSE 0
  BY DEF FrameOf, SelectLastInSeq
<1>2. DOMAIN frames = 1 .. Len(frames) /\ Len(frames) \in Nat
  BY LenProperties
<1>3. I = {i \in DOMAIN frames : Has(frames[i], n)}
  <2>1. \A i \in DOMAIN frames : frames[i] \in Seq(S)
    BY <1>2, ElementOfSeq
  <2> QED BY <1>2, <2>1, LookupFinds
<1>4. I # {} => Max(I) \in I /\ \A y \in I : Max(I) >= y
  <2>1. I \in SUBSET (1 .. Len(frames))
    OBVIOUS
  <2> HIDE DEF I
  <2> QED BY <2>1, <1>2, LastOf
<1>5. CASE I = {}
  <2> HIDE DEF I
  <2> QED BY <1>1, <1>3, <1>5
<1>6. CASE I # {}
  <2>1. FrameOf(n) \in I /\ \A y \in I : FrameOf(n) >= y
    BY <1>1, <1>4, <1>6
  <2>2. \A y \in I : y \in Int
    OBVIOUS
  <2> HIDE DEF I
  <2> QED BY <1>3, <2>1, <2>2
<1> QED BY <1>5, <1>6

(* ------------------------------- Counting ------------------------------ *)

\* How many of the first m items of c are of the kinds K.
Count(c, m, K) == Cardinality({i \in 1 .. m : c[i].k \in K})

LEMMA CountType == ASSUME NEW c, NEW m \in Nat, NEW K PROVE Count(c, m, K) \in Nat
<1>1. IsFiniteSet(1 .. m)
  BY FS_Interval
<1>2. IsFiniteSet({i \in 1 .. m : c[i].k \in K})
  BY <1>1, FS_Subset
<1> QED BY <1>2, FS_CardinalityType DEF Count

LEMMA CountNone == ASSUME NEW c, NEW K PROVE Count(c, 0, K) = 0
<1>1. {i \in 1 .. 0 : c[i].k \in K} = {}
  OBVIOUS
<1> QED BY <1>1, FS_EmptySet DEF Count

LEMMA CountNext ==
  ASSUME NEW c, NEW m \in Nat, NEW K
  PROVE  Count(c, m + 1, K) = Count(c, m, K) + (IF c[m + 1].k \in K THEN 1 ELSE 0)
<1> DEFINE I == {i \in 1 .. m : c[i].k \in K}
<1>1. IsFiniteSet(I)
  <2>1. IsFiniteSet(1 .. m)
    BY FS_Interval
  <2> QED BY <2>1, FS_Subset
<1>2. CASE c[m + 1].k \in K
  <2>1. {i \in 1 .. m + 1 : c[i].k \in K} = I \cup {m + 1} /\ m + 1 \notin I
    BY <1>2
  <2> HIDE DEF I
  <2>2. Cardinality(I \cup {m + 1}) = Cardinality(I) + 1
    BY <1>1, <2>1, FS_AddElement
  <2> QED BY <1>2, <2>1, <2>2 DEF Count, I
<1>3. CASE ~(c[m + 1].k \in K)
  <2>1. {i \in 1 .. m + 1 : c[i].k \in K} = I
    BY <1>3
  <2>2. Count(c, m + 1, K) = Count(c, m, K)
    BY <2>1 DEF Count
  <2> QED BY <1>3, <2>2, CountType
<1> QED BY <1>2, <1>3

LEMMA CountMore ==
  ASSUME NEW c, NEW i \in Nat, NEW j \in Nat, i <= j, NEW K PROVE Count(c, i, K) <= Count(c, j, K)
<1> DEFINE I == {x \in 1 .. i : c[x].k \in K}
           J == {x \in 1 .. j : c[x].k \in K}
<1>1. I \subseteq J
  OBVIOUS
<1>2. IsFiniteSet(J)
  <2>1. IsFiniteSet(1 .. j)
    BY FS_Interval
  <2> QED BY <2>1, FS_Subset
<1> HIDE DEF I, J
<1>3. Cardinality(I) <= Cardinality(J)
  BY <1>1, <1>2, FS_Subset
<1> QED BY <1>3 DEF I, J, Count

LEMMA CountSame ==
  ASSUME NEW c, NEW e, NEW m \in Nat, NEW K, \A i \in 1 .. m : e[i].k = c[i].k
  PROVE  Count(e, m, K) = Count(c, m, K)
<1>1. {i \in 1 .. m : e[i].k \in K} = {i \in 1 .. m : c[i].k \in K}
  OBVIOUS
<1> QED BY <1>1 DEF Count

Framed == {"call", "block"}

LEMMA OpenedIs == ASSUME NEW c, NEW m PROVE Opened(c, m) = 1 + Count(c, m, Framed)
BY DEF Opened, Count, Framed

LEMMA OpenedOK ==
  ASSUME NEW c
  PROVE  /\ Opened(c, 0) = 1
         /\ \A m \in Nat : Opened(c, m) \in Nat /\ Opened(c, m) >= 1
         /\ \A m \in Nat : Opened(c, m + 1) = Opened(c, m) + (IF c[m + 1].k \in Framed THEN 1 ELSE 0)
         /\ \A i, j \in Nat : i <= j => Opened(c, i) <= Opened(c, j)
<1>1. \A m : Opened(c, m) = 1 + Count(c, m, Framed)
  BY OpenedIs
<1>2. \A m \in Nat : Count(c, m, Framed) \in Nat
  BY CountType
<1>3. Count(c, 0, Framed) = 0
  BY CountNone
<1>4. \A m \in Nat : Opened(c, m + 1) = Opened(c, m) + (IF c[m + 1].k \in Framed THEN 1 ELSE 0)
  BY <1>1, <1>2, CountNext
<1>5. \A i, j \in Nat : i <= j => Opened(c, i) <= Opened(c, j)
  BY <1>1, <1>2, CountMore
<1> QED BY <1>1, <1>2, <1>3, <1>4, <1>5
(* ------------------------------ Sequences ------------------------------ *)

LEMMA SeqIs == ASSUME NEW S, NEW s \in Seq(S) PROVE IsSeq(s)
<1>1. DOMAIN s = 1 .. Len(s) /\ Len(s) \in Nat
  BY LenProperties
<1>2. s = [i \in 1 .. Len(s) |-> s[i]]
  BY SeqDef
<1> DEFINE T == {s[i] : i \in DOMAIN s}
<1>3. \A i \in 1 .. Len(s) : s[i] \in T
  BY <1>1
<1>4. s \in Seq(T)
  <2> HIDE DEF T
  <2> QED BY <1>1, <1>2, <1>3
<1> QED BY <1>4 DEF IsSeq

LEMMA IsSeqLen == ASSUME NEW s, IsSeq(s)
                  PROVE Len(s) \in Nat /\ DOMAIN s = 1 .. Len(s) /\ (s = << >> <=> Len(s) = 0)
<1> DEFINE T == {s[i] : i \in DOMAIN s}
<1>1. s \in Seq(T)
  BY DEF IsSeq
<1> HIDE DEF T
<1> QED BY <1>1, LenProperties, EmptySeq

LEMMA Pushed ==
  ASSUME NEW s, IsSeq(s), NEW x
  PROVE  /\ IsSeq(Append(s, x)) /\ Len(Append(s, x)) = Len(s) + 1
         /\ \A i \in 1 .. Len(s) : Append(s, x)[i] = s[i]
         /\ Append(s, x)[Len(s) + 1] = x
<1> DEFINE T == {s[i] : i \in DOMAIN s} \cup {x}
<1>1. s \in Seq(T) /\ x \in T
  BY SeqMonotonic DEF IsSeq
<1> HIDE DEF T
<1>2. /\ Append(s, x) \in Seq(T) /\ Len(Append(s, x)) = Len(s) + 1
      /\ \A i \in 1 .. Len(s) : Append(s, x)[i] = s[i]
      /\ Append(s, x)[Len(s) + 1] = x
  BY <1>1, AppendProperties
<1>3. IsSeq(Append(s, x))
  BY <1>2, SeqIs
<1> QED BY <1>2, <1>3

LEMMA Popped ==
  ASSUME NEW s, IsSeq(s), s # << >>
  PROVE  /\ IsSeq(Front(s)) /\ Len(Front(s)) = Len(s) - 1 /\ Len(s) \in Nat \ {0}
         /\ \A i \in 1 .. Len(s) - 1 : Front(s)[i] = s[i]
         /\ Last(s) = s[Len(s)]
<1> DEFINE T == {s[i] : i \in DOMAIN s}
<1>1. s \in Seq(T)
  BY DEF IsSeq
<1> HIDE DEF T
<1>2. Len(s) \in Nat \ {0}
  BY <1>1, EmptySeq, LenProperties
<1>3. Front(s) = SubSeq(s, 1, Len(s) - 1) /\ Last(s) = s[Len(s)]
  BY DEF Front, Last
<1> DEFINE f == SubSeq(s, 1, Len(s) - 1)
<1>4. f \in Seq(T) /\ Len(f) = Len(s) - 1 /\ \A i \in 1 .. Len(s) - 1 : f[i] = s[i]
  <2>1. \A i \in 1 .. Len(s) - 1 : s[i] \in T
    BY <1>1, <1>2, ElementOfSeq
  <2>2. 1 \in Int /\ Len(s) - 1 \in Int
    BY <1>2
  <2> HIDE DEF f
  <2>3. /\ f \in Seq(T) /\ Len(f) = IF 1 <= Len(s) - 1 THEN (Len(s) - 1) - 1 + 1 ELSE 0
        /\ \A i \in 1 .. (Len(s) - 1) - 1 + 1 : f[i] = s[1 + i - 1]
    BY <2>1, <2>2, SubSeqProperties DEF f
  <2>4. Len(f) = Len(s) - 1
    <3>1. ASSUME NEW k \in Nat \ {0}, NEW l, l = IF 1 <= k - 1 THEN (k - 1) - 1 + 1 ELSE 0
          PROVE  l = k - 1
      BY <3>1
    <3> QED BY <1>2, <2>3, <3>1
  <2>5. ASSUME NEW i \in 1 .. Len(s) - 1 PROVE f[i] = s[i]
    <3>1. i \in 1 .. (Len(s) - 1) - 1 + 1 /\ 1 + i - 1 = i
      BY <1>2
    <3> QED BY <2>3, <3>1
  <2> QED BY <2>3, <2>4, <2>5
<1> HIDE DEF f
<1>5. IsSeq(f)
  BY <1>4, SeqIs
<1> QED BY <1>2, <1>3, <1>4, <1>5 DEF f

\* What is under way when the top is replaced, and one or two items are pushed.
LEMMA Replaced ==
  ASSUME NEW s, IsSeq(s), s # << >>, NEW x
  PROVE  LET r == Append(Front(s), x)
         IN  /\ IsSeq(r) /\ Len(r) = Len(s) /\ Len(s) \in Nat \ {0}
             /\ \A i \in 1 .. Len(s) - 1 : r[i] = s[i]
             /\ r[Len(s)] = x
<1>1. /\ IsSeq(Front(s)) /\ Len(Front(s)) = Len(s) - 1 /\ Len(s) \in Nat \ {0}
      /\ \A i \in 1 .. Len(s) - 1 : Front(s)[i] = s[i]
  BY Popped
<1> DEFINE f == Front(s)
<1> HIDE DEF f
<1>2. /\ IsSeq(f) /\ Len(f) = Len(s) - 1 /\ Len(s) \in Nat \ {0}
      /\ \A i \in 1 .. Len(s) - 1 : f[i] = s[i]
  BY <1>1 DEF f
<1>3. /\ IsSeq(Append(f, x)) /\ Len(Append(f, x)) = Len(f) + 1
      /\ \A i \in 1 .. Len(f) : Append(f, x)[i] = f[i]
      /\ Append(f, x)[Len(f) + 1] = x
  BY <1>2, Pushed
<1> QED BY <1>2, <1>3 DEF f

LEMMA Pushed2 ==
  ASSUME NEW s, IsSeq(s), NEW x, NEW y, NEW r, r = s \o <<x, y>>
  PROVE  /\ IsSeq(r) /\ Len(r) = Len(s) + 2
         /\ \A i \in 1 .. Len(s) : r[i] = s[i]
         /\ r[Len(s) + 1] = x /\ r[Len(s) + 2] = y
<1> DEFINE T == {s[i] : i \in DOMAIN s} \cup {x, y}
<1>1. s \in Seq(T) /\ x \in T /\ y \in T
  BY SeqMonotonic DEF IsSeq
<1> HIDE DEF T
<1>2. <<x, y>> \in Seq(T) /\ Len(<<x, y>>) = 2 /\ <<x, y>>[1] = x /\ <<x, y>>[2] = y
  BY <1>1
<1> DEFINE t == <<x, y>>
<1> HIDE DEF t
<1>3. t \in Seq(T) /\ Len(t) = 2 /\ t[1] = x /\ t[2] = y
  BY <1>2 DEF t
<1>4. /\ s \o t \in Seq(T) /\ Len(s \o t) = Len(s) + 2
      /\ \A i \in 1 .. Len(s) : (s \o t)[i] = s[i]
      /\ (s \o t)[Len(s) + 1] = x /\ (s \o t)[Len(s) + 2] = y
  <2>1. /\ s \o t \in Seq(T) /\ Len(s \o t) = Len(s) + Len(t)
        /\ \A i \in 1 .. Len(s) + Len(t) : (s \o t)[i] = IF i <= Len(s) THEN s[i] ELSE t[i - Len(s)]
    BY <1>1, <1>3, ConcatProperties
  <2>2. Len(s) \in Nat
    BY <1>1, LenProperties
  <2> DEFINE u == s \o t
  <2> HIDE DEF u
  <2>3. /\ u \in Seq(T) /\ Len(u) = Len(s) + 2
        /\ \A i \in 1 .. Len(s) + 2 : u[i] = IF i <= Len(s) THEN s[i] ELSE t[i - Len(s)]
    BY <2>1, <1>3 DEF u
  <2>4. u[Len(s) + 1] = t[1] /\ u[Len(s) + 2] = t[2]
    BY <2>2, <2>3
  <2> QED BY <1>3, <2>2, <2>3, <2>4 DEF u
<1>5. IsSeq(s \o t)
  BY <1>4, SeqIs
<1> QED BY <1>4, <1>5 DEF t

(* -------------------- What is under way, and changes ------------------- *)

\* As far as two stacks agree on the kinds, they agree on frames and loops.
LEMMA Agreed ==
  ASSUME NEW c, NEW e, NEW i \in Nat, \A j \in 1 .. i : e[j].k = c[j].k
  PROVE  /\ \A j \in 0 .. i : Opened(e, j) = Opened(c, j)
         /\ \A j \in 0 .. i : CallIn(e, j) <=> CallIn(c, j)
         /\ \A j \in 0 .. i : Looped(e, j) <=> Looped(c, j)
<1>1. ASSUME NEW j \in 0 .. i PROVE Opened(e, j) = Opened(c, j)
  <2>1. j \in Nat /\ \A x \in 1 .. j : e[x].k = c[x].k
    OBVIOUS
  <2>2. Count(e, j, Framed) = Count(c, j, Framed)
    BY <2>1, CountSame
  <2> QED BY <2>2, OpenedIs
<1>2. ASSUME NEW j \in 0 .. i PROVE CallIn(e, j) <=> CallIn(c, j)
  BY DEF CallIn
<1>3. ASSUME NEW j \in 0 .. i PROVE Looped(e, j) <=> Looped(c, j)
  BY DEF Looped
<1> QED BY <1>1, <1>2, <1>3

\* Frames that have lost no name.
Grown(fr, fr2, m) == \A g \in 1 .. m : \A n : Has(fr[g], n) => Has(fr2[g], n)

LEMMA SeenKept ==
  ASSUME NEW c, NEW e, NEW fr, NEW fr2, NEW i \in Nat,
         \A j \in 1 .. i : e[j].k = c[j].k, Grown(fr, fr2, Opened(c, i)),
         NEW n, Seen(n, c, fr, i)
  PROVE  Seen(n, e, fr2, i)
<1>1. \A j \in 0 .. i : Opened(e, j) = Opened(c, j)
  BY Agreed
<1>2. PICK g \in 1 .. Opened(c, i) :
        Has(fr[g], n) /\ \A k \in 1 .. i : c[k].k = "call" => Opened(c, k) <= g
  BY DEF Seen
<1>3. Has(fr2[g], n)
  BY <1>2 DEF Grown
<1>4. \A k \in 1 .. i : e[k].k = "call" => Opened(e, k) <= g
  <2>1. \A k \in 1 .. i : k \in 0 .. i
    OBVIOUS
  <2> QED BY <1>1, <1>2, <2>1
<1>5. g \in 1 .. Opened(e, i)
  BY <1>1
<1> QED BY <1>3, <1>4, <1>5 DEF Seen

\* One more item, which is not a call.
LEMMA SeenAbove ==
  ASSUME NEW c, NEW fr, NEW i \in Nat, c[i + 1].k # "call", NEW n, Seen(n, c, fr, i)
  PROVE  Seen(n, c, fr, i + 1)
<1>1. PICK g \in 1 .. Opened(c, i) :
        Has(fr[g], n) /\ \A k \in 1 .. i : c[k].k = "call" => Opened(c, k) <= g
  BY DEF Seen
<1>2. Opened(c, i) \in Nat /\ Opened(c, i + 1) \in Nat /\ Opened(c, i) <= Opened(c, i + 1)
  BY OpenedOK
<1>3. g \in 1 .. Opened(c, i + 1)
  BY <1>2
<1>4. \A k \in 1 .. i + 1 : c[k].k = "call" => Opened(c, k) <= g
  <2>1. \A k \in 1 .. i + 1 : k \in 1 .. i \/ k = i + 1
    OBVIOUS
  <2> QED BY <1>1, <2>1
<1> QED BY <1>1, <1>3, <1>4 DEF Seen

\* A name in the frame of the last item is seen there.
LEMMA SeenHere ==
  ASSUME NEW c, NEW fr, NEW i \in Nat, NEW n, Has(fr[Opened(c, i)], n)
  PROVE  Seen(n, c, fr, i)
<1>1. /\ Opened(c, i) \in Nat /\ Opened(c, i) >= 1
      /\ \A k \in 1 .. i : Opened(c, k) <= Opened(c, i)
  <2>1. \A k \in 1 .. i : k \in Nat /\ k <= i
    OBVIOUS
  <2> QED BY <2>1, OpenedOK
<1>2. Opened(c, i) \in 1 .. Opened(c, i)
  BY <1>1
<1> QED BY <1>1, <1>2 DEF Seen

LEMMA InCallAbove ==
  ASSUME NEW c, NEW i \in Nat, c[i + 1].k # "call"
  PROVE  /\ CallIn(c, i + 1) <=> CallIn(c, i)
         /\ Looped(c, i) => Looped(c, i + 1)
         /\ c[i + 1].k = "while" => Looped(c, i + 1)
<1>1. \A k \in 1 .. i + 1 : k \in 1 .. i \/ k = i + 1
  OBVIOUS
<1>2. CallIn(c, i + 1) <=> CallIn(c, i)
  BY <1>1 DEF CallIn
<1>3. ASSUME Looped(c, i) PROVE Looped(c, i + 1)
  <2>1. PICK w \in 1 .. i : c[w].k = "while" /\ \A k \in w + 1 .. i : c[k].k # "call"
    BY <1>3 DEF Looped
  <2>2. \A k \in w + 1 .. i + 1 : k \in w + 1 .. i \/ k = i + 1
    OBVIOUS
  <2>3. w \in 1 .. i + 1
    OBVIOUS
  <2> QED BY <2>1, <2>2, <2>3 DEF Looped
<1>4. ASSUME c[i + 1].k = "while" PROVE Looped(c, i + 1)
  <2>1. i + 1 \in 1 .. i + 1 /\ (i + 1) + 1 .. i + 1 = {}
    OBVIOUS
  <2> QED BY <1>4, <2>1 DEF Looped
<1> QED BY <1>2, <1>3, <1>4

\* A judgement that fits item i fits it in the new stack, and so does one with
\* the names it sees there.
LEMMA FitsKept ==
  ASSUME NEW c, NEW e, NEW fr, NEW fr2, NEW i \in Nat,
         \A j \in 1 .. i : e[j].k = c[j].k, Grown(fr, fr2, Opened(c, i)),
         NEW d, Fits(d, c, fr, i), NEW b, b.loop = d.loop, b.void = d.void,
         \A n \in DOMAIN b.sym \ Owed(e, i) : n \in DOMAIN d.sym \ Owed(c, i) \/ Seen(n, e, fr2, i)
  PROVE  Fits(b, e, fr2, i)
<1>1. \A n \in DOMAIN b.sym \ Owed(e, i) : Seen(n, e, fr2, i)
  BY SeenKept DEF Fits
<1>2. i \in 0 .. i
  OBVIOUS
<1>3. (CallIn(e, i) <=> CallIn(c, i)) /\ (Looped(e, i) <=> Looped(c, i))
  BY <1>2, Agreed
<1> QED BY <1>1, <1>3 DEF Fits

\* One that fits the top fits what is pushed on it, unless that is a call.
LEMMA FitsAbove ==
  ASSUME NEW e, NEW fr, NEW i \in Nat, e[i + 1].k # "call",
         NEW d, Fits(d, e, fr, i), Owed(e, i) = {},
         NEW b, b.sym = d.sym, b.void = d.void, b.loop => d.loop \/ Looped(e, i + 1)
  PROVE  Fits(b, e, fr, i + 1)
<1>1. \A n \in DOMAIN b.sym \ Owed(e, i + 1) : Seen(n, e, fr, i + 1)
  BY SeenAbove DEF Fits
<1>2. (CallIn(e, i + 1) <=> CallIn(e, i)) /\ (Looped(e, i) => Looped(e, i + 1))
  BY InCallAbove
<1> QED BY <1>1, <1>2 DEF Fits

\* The items that a step does not touch stay justified.
LEMMA ItemsKept ==
  ASSUME NEW J, NEW c, NEW e, NEW fr, NEW fr2, NEW m \in Nat,
         Len(c) \in Nat, Len(e) \in Nat, m <= Len(c), m <= Len(e),
         Items(J, c, fr), \A j \in 1 .. m : e[j] = c[j],
         Grown(fr, fr2, Opened(c, m)),
         \A n \in Owed(c, m) : n \in Owed(e, m) \/ Seen(n, e, fr2, m)
  PROVE  \A i \in 1 .. m : ItemOK(J, e, fr2, i)
<1> SUFFICES ASSUME NEW i \in 1 .. m PROVE ItemOK(J, e, fr2, i)
  OBVIOUS
<1>1. i \in Nat /\ i <= m /\ e[i] = c[i] /\ ItemOK(J, c, fr, i)
  BY DEF Items
<1>2. \A j \in 1 .. i : e[j].k = c[j].k
  BY <1>1
<1>3. Grown(fr, fr2, Opened(c, i))
  <2>1. Opened(c, i) <= Opened(c, m) /\ Opened(c, i) \in Nat /\ Opened(c, m) \in Nat
    BY <1>1, OpenedOK
  <2> QED BY <2>1 DEF Grown
<1>4. \A n \in Owed(c, i) : n \in Owed(e, i) \/ Seen(n, e, fr2, i)
  <2>1. CASE i = m
    BY <2>1
  <2>2. CASE i < m
    <3>1. e[i + 1] = c[i + 1] /\ i < Len(c) /\ i < Len(e)
      BY <2>2
    <3> QED BY <3>1 DEF Owed
  <2> QED BY <1>1, <2>1, <2>2
<1>5. ASSUME NEW d, Fits(d, c, fr, i) PROVE Fits(d, e, fr2, i)
  <2>1. \A n \in DOMAIN d.sym \ Owed(e, i) : n \in DOMAIN d.sym \ Owed(c, i) \/ Seen(n, e, fr2, i)
    BY <1>4
  <2> QED BY <1>1, <1>2, <1>3, <1>5, <2>1, FitsKept
<1> QED BY <1>1, <1>5 DEF ItemOK

(* ------------------------------- Frames -------------------------------- *)

LEMMA BoundOK ==
  ASSUME frames \in Seq(Seq(Binding)), frames # << >>, NEW n \in STRING, NEW v \in Value
  PROVE  LET b == Bound(n, v)
         IN  /\ b \in Seq(Seq(Binding)) /\ Len(b) = Len(frames) /\ Len(b) \in Nat \ {0}
             /\ Grown(frames, b, Len(b)) /\ Has(b[Len(b)], n)
<1> DEFINE l == Len(frames)
           r == [name |-> n, val |-> v]
           fr == frames[l]
           a == Append(fr, r)
<1>1. l \in Nat \ {0} /\ DOMAIN frames = 1 .. l /\ l \in 1 .. l
  BY EmptySeq, LenProperties
<1>2. r \in Binding /\ r.name = n
  BY DEF Binding
<1>3. fr \in Seq(Binding)
  BY <1>1, ElementOfSeq
<1> HIDE DEF r, fr
<1>4. /\ a \in Seq(Binding) /\ Len(a) = Len(fr) + 1 /\ a[Len(fr) + 1] = r
      /\ \A j \in 1 .. Len(fr) : a[j] = fr[j]
  BY <1>2, <1>3, AppendProperties
<1>5. Len(fr) \in Nat /\ DOMAIN fr = 1 .. Len(fr) /\ DOMAIN a = 1 .. Len(fr) + 1
  BY <1>3, <1>4, LenProperties
<1>6. Bound(n, v) = [frames EXCEPT ![l] = a]
  BY DEF Bound, r, fr
<1> HIDE DEF a, l
<1> DEFINE b == [frames EXCEPT ![l] = a]
<1>7. /\ b \in Seq(Seq(Binding)) /\ Len(b) = l
      /\ b[l] = a /\ \A g \in 1 .. l : g # l => b[g] = frames[g]
  <2>1. l = Len(frames)
    BY DEF l
  <2>2. \A g \in 1 .. l : b[g] = IF g = l THEN a ELSE frames[g]
    BY <1>1, <1>4, <2>1, ExceptSeq
  <2>3. b \in Seq(Seq(Binding)) /\ Len(b) = l
    BY <1>1, <1>4, <2>1, ExceptSeq
  <2> HIDE DEF b
  <2> QED BY <1>1, <2>2, <2>3
<1>8. Has(a, n)
  <2>1. Len(fr) + 1 \in DOMAIN a /\ a[Len(fr) + 1].name = n
    BY <1>2, <1>4, <1>5
  <2> QED BY ONLY <2>1 DEF Has
<1>9. \A x : Has(fr, x) => Has(a, x)
  <2>1. \A j \in DOMAIN fr : j \in DOMAIN a /\ a[j] = fr[j]
    BY <1>4, <1>5
  <2> QED BY <2>1 DEF Has
<1>10. Grown(frames, b, l)
  BY <1>7, <1>9 DEF Grown, fr
<1> HIDE DEF b
<1> QED BY <1>1, <1>6, <1>7, <1>8, <1>10 DEF b, l

LEMMA ReboundOK ==
  ASSUME frames \in Seq(Seq(Binding)), frames # << >>, NEW n \in STRING, NEW v \in Value
  PROVE  LET b == Rebound(n, v)
         IN  /\ b \in Seq(Seq(Binding)) /\ Len(b) = Len(frames) /\ Len(b) \in Nat \ {0}
             /\ Grown(frames, b, Len(b))
<1>1. CASE FrameOf(n) = 0
  BY <1>1, BoundOK DEF Rebound
<1>2. CASE FrameOf(n) # 0
  <2> DEFINE f == FrameOf(n)
             fr == frames[f]
             j == LookupLocal(fr, n)
             a == [fr EXCEPT ![j] = [@ EXCEPT !.val = v]]
  <2>1. f \in DOMAIN frames /\ Has(frames[f], n)
    BY <1>2, FrameFound
  <2>2. DOMAIN frames = 1 .. Len(frames) /\ Len(frames) \in Nat \ {0}
    BY EmptySeq, LenProperties
  <2>3. fr \in Seq(Binding)
    BY <2>1, <2>2, ElementOfSeq
  <2>4. j \in DOMAIN fr
    <3> HIDE DEF fr
    <3>1. Has(fr, n)
      BY <2>1 DEF fr
    <3> QED BY <2>3, <3>1, LookupIn
  <2>5. Rebound(n, v) = [frames EXCEPT ![f] = a]
    BY <1>2 DEF Rebound
  <2> HIDE DEF f, fr, j
  <2>6. DOMAIN fr = 1 .. Len(fr) /\ Len(fr) \in Nat
    BY <2>3, LenProperties
  <2>7. fr[j] \in Binding
    BY <2>3, <2>4, <2>6, ElementOfSeq
  <2> DEFINE r == [fr[j] EXCEPT !.val = v]
  <2>8. r \in Binding /\ r.name = fr[j].name
    BY <2>7 DEF Binding
  <2>9. a = [fr EXCEPT ![j] = r]
    OBVIOUS
  <2> HIDE DEF r, a
  <2>10. a \in Seq(Binding) /\ Len(a) = Len(fr) /\ \A x \in DOMAIN fr : a[x] = IF x = j THEN r ELSE fr[x]
    BY <2>3, <2>4, <2>8, <2>9, ExceptSeq, LenProperties
  <2>11. DOMAIN a = DOMAIN fr
    BY <2>6, <2>10, LenProperties
  <2>12. \A x : Has(fr, x) => Has(a, x)
    BY <2>8, <2>10, <2>11 DEF Has
  <2> DEFINE b == [frames EXCEPT ![f] = a]
  <2>13. /\ b \in Seq(Seq(Binding)) /\ Len(b) = Len(frames)
         /\ \A g \in DOMAIN frames : b[g] = IF g = f THEN a ELSE frames[g]
    BY <2>1, <2>2, <2>10, ExceptSeq, LenProperties
  <2>14. Grown(frames, b, Len(frames))
    BY <2>2, <2>12, <2>13 DEF Grown, fr
  <2> HIDE DEF b
  <2> QED BY <2>2, <2>5, <2>13, <2>14 DEF b
<1> QED BY <1>1, <1>2

\* A new frame above the others, and the last one gone.
LEMMA FramePushed ==
  ASSUME frames \in Seq(Seq(Binding)), NEW fr \in Seq(Binding)
  PROVE  LET b == Append(frames, fr)
         IN  /\ b \in Seq(Seq(Binding)) /\ Len(b) = Len(frames) + 1 /\ Len(frames) \in Nat
             /\ Grown(frames, b, Len(frames)) /\ b[Len(b)] = fr
<1> DEFINE b == Append(frames, fr)
<1>1. /\ b \in Seq(Seq(Binding)) /\ Len(b) = Len(frames) + 1
      /\ \A i \in 1 .. Len(frames) : b[i] = frames[i]
      /\ b[Len(frames) + 1] = fr
  BY AppendProperties
<1>2. Len(frames) \in Nat
  BY LenProperties
<1> HIDE DEF b
<1>3. Grown(frames, b, Len(frames))
  BY <1>1 DEF Grown
<1> QED BY <1>1, <1>2, <1>3 DEF b

LEMMA FramePopped ==
  ASSUME frames \in Seq(Seq(Binding)), frames # << >>
  PROVE  LET b == Front(frames)
         IN  /\ b \in Seq(Seq(Binding)) /\ Len(b) = Len(frames) - 1 /\ Len(frames) \in Nat \ {0}
             /\ Grown(frames, b, Len(b))
<1>1. IsSeq(frames)
  BY SeqIs
<1> DEFINE b == Front(frames)
<1>2. /\ IsSeq(b) /\ Len(b) = Len(frames) - 1 /\ Len(frames) \in Nat \ {0}
      /\ \A i \in 1 .. Len(frames) - 1 : b[i] = frames[i]
  BY <1>1, Popped
<1>3. b \in Seq(Seq(Binding))
  <2>1. b = SubSeq(frames, 1, Len(frames) - 1)
    BY DEF Front
  <2>2. \A i \in 1 .. Len(frames) - 1 : frames[i] \in Seq(Binding)
    BY <1>2, ElementOfSeq
  <2>3. 1 \in Int /\ Len(frames) - 1 \in Int
    BY <1>2
  <2> QED BY <2>1, <2>2, <2>3, SubSeqProperties
<1> HIDE DEF b
<1>4. Grown(frames, b, Len(b))
  BY <1>2 DEF Grown
<1> QED BY <1>2, <1>3, <1>4 DEF b

(* -------------------------- What a step changes ------------------------- *)

LEMMA EnvDeclared ==
  ASSUME EnvOK(env), env # << >>, NEW d, NEW v \in Value
  PROVE  EnvOK(Declared(d, v)) /\ Len(Declared(d, v)) = Len(env)
<1> DEFINE l == Len(env)
           x == With(env[l], d, v)
           b == [env EXCEPT ![l] = x]
           T == {env[i] : i \in DOMAIN env} \cup {x}
<1>1. IsSeq(env) /\ l \in Nat \ {0} /\ DOMAIN env = 1 .. l /\ l \in 1 .. l
  BY IsSeqLen DEF EnvOK
<1>2. env \in Seq(T) /\ x \in T
  BY <1>1, SeqMonotonic DEF IsSeq
<1>3. \A y \in DOMAIN x : x[y] \in Value
  <2>1. \A y \in DOMAIN env[l] : env[l][y] \in Value
    BY <1>1 DEF EnvOK
  <2>2. DOMAIN x = {d} \cup DOMAIN env[l] /\ \A y \in DOMAIN x : x[y] = IF y = d THEN v ELSE env[l][y]
    BY DEF With
  <2> HIDE DEF x
  <2> QED BY <2>1, <2>2
<1>4. Declared(d, v) = b
  BY DEF Declared
<1> HIDE DEF T, x
<1>5. b \in Seq(T) /\ Len(b) = l /\ \A i \in 1 .. l : b[i] = IF i = l THEN x ELSE env[i]
  BY <1>1, <1>2, ExceptSeq
<1> HIDE DEF b
<1>6. IsSeq(b) /\ DOMAIN b = 1 .. l
  BY <1>1, <1>5, SeqIs, LenProperties
<1>7. \A k \in DOMAIN b : \A y \in DOMAIN b[k] : b[k][y] \in Value
  BY <1>1, <1>3, <1>5, <1>6 DEF EnvOK
<1> QED BY <1>4, <1>5, <1>6, <1>7 DEF EnvOK

LEMMA EnvPushed ==
  ASSUME EnvOK(env), NEW d, NEW v \in Value
  PROVE  EnvOK(Append(env, [y \in {d} |-> v])) /\ Len(Append(env, [y \in {d} |-> v])) = Len(env) + 1
<1> DEFINE x == [y \in {d} |-> v]
           b == Append(env, x)
<1>1. DOMAIN x = {d} /\ x[d] = v
  OBVIOUS
<1> HIDE DEF x
<1>2. /\ IsSeq(b) /\ Len(b) = Len(env) + 1 /\ b[Len(env) + 1] = x
      /\ \A i \in 1 .. Len(env) : b[i] = env[i]
  BY Pushed DEF EnvOK
<1> HIDE DEF b
<1>3. DOMAIN b = 1 .. Len(env) + 1 /\ DOMAIN env = 1 .. Len(env) /\ Len(env) \in Nat
  BY <1>2, IsSeqLen DEF EnvOK
<1>4. \A k \in DOMAIN b : \A y \in DOMAIN b[k] : b[k][y] \in Value
  <2> SUFFICES ASSUME NEW k \in DOMAIN b PROVE \A y \in DOMAIN b[k] : b[k][y] \in Value
    OBVIOUS
  <2>1. CASE k = Len(env) + 1
    BY <1>1, <1>2, <2>1
  <2>2. CASE k \in 1 .. Len(env)
    BY <1>2, <1>3, <2>2 DEF EnvOK
  <2> QED BY <1>3, <2>1, <2>2
<1> QED BY <1>2, <1>4 DEF EnvOK, b, x

LEMMA EnvPopped ==
  ASSUME EnvOK(env), env # << >>
  PROVE  EnvOK(Front(env)) /\ Len(Front(env)) = Len(env) - 1
<1> DEFINE b == Front(env)
<1>1. /\ IsSeq(b) /\ Len(b) = Len(env) - 1 /\ Len(env) \in Nat \ {0}
      /\ \A i \in 1 .. Len(env) - 1 : b[i] = env[i]
  BY Popped DEF EnvOK
<1> HIDE DEF b
<1>2. DOMAIN b = 1 .. Len(env) - 1 /\ DOMAIN env = 1 .. Len(env)
  BY <1>1, IsSeqLen DEF EnvOK
<1>3. \A k \in DOMAIN b : k \in DOMAIN env /\ b[k] = env[k]
  BY <1>1, <1>2
<1> QED BY <1>1, <1>3 DEF EnvOK, b

\* The value of a name that is found.
LEMMA LookOK ==
  ASSUME frames \in Seq(Seq(Binding)), NEW n
  PROVE  /\ FrameOf(n) # 0 => Look(n) \in Value
         /\ FrameOf(n) = 0 => Look(n) = Void
         /\ IntVal(n) \in Nat
<1>1. CASE FrameOf(n) = 0
  BY <1>1 DEF Look, IntVal
<1>2. CASE FrameOf(n) # 0
  <2> DEFINE f == FrameOf(n)
             fr == frames[f]
             j == LookupLocal(fr, n)
  <2>1. f \in DOMAIN frames /\ Has(frames[f], n)
    BY <1>2, FrameFound
  <2>2. fr \in Seq(Binding)
    BY <2>1, LenProperties, ElementOfSeq
  <2>3. Look(n) = fr[j].val
    BY <1>2 DEF Look
  <2> HIDE DEF fr
  <2>4. j \in DOMAIN fr
    BY <2>1, <2>2, LookupIn DEF fr
  <2> HIDE DEF j
  <2>5. fr[j] \in Binding
    BY <2>2, <2>4, LenProperties, ElementOfSeq
  <2>6. Look(n) \in Value
    BY <2>3, <2>5 DEF Binding
  <2>7. \A v \in Value : v \in Nat
    BY InterpAssumption DEF Value
  <2>8. IntVal(n) \in Nat
    BY <2>6, <2>7 DEF IntVal
  <2> QED BY <1>2, <2>6, <2>8
<1> QED BY <1>1, <1>2

LEMMA EvalOK ==
  ASSUME frames \in Seq(Seq(Binding)), NEW e, e.v \in Nat, Eval(e) <= MaxInt,
         e.op \in {"lit", "name", "plus", "none"}, e.op = "name" => FrameOf(e.n) # 0
  PROVE  Eval(e) \in Value \cup {Void} /\ (e.op # "none" => Eval(e) \in Value)
<1>1. \A x \in Nat : x <= MaxInt => x \in Value
  BY InterpAssumption DEF Value
<1>2. CASE e.op = "lit"
  BY <1>1, <1>2 DEF Eval
<1>3. CASE e.op = "name"
  BY <1>3, LookOK DEF Eval
<1>4. CASE e.op = "plus"
  <2>1. Eval(e) = IntVal(e.n) + e.v
    BY <1>4 DEF Eval
  <2>2. IntVal(e.n) \in Nat
    BY LookOK
  <2>3. Eval(e) \in Nat
    BY <2>1, <2>2
  <2> QED BY <1>1, <2>3
<1>5. CASE e.op = "none"
  BY <1>5 DEF Eval
<1> QED BY <1>2, <1>3, <1>4, <1>5

LEMMA FinishOK ==
  ASSUME Typed, frames # << >>, env # << >>,
         NEW s, s.kind \in Simples, s.name \in STRING,
         NEW v \in Value \cup {Void}, s.kind # "return" => v \in Value,
         NEW c, Finish(s, v, c)
  PROVE  /\ ctl' = c
         /\ frames' \in Seq(Seq(Binding)) /\ Len(frames') = Len(frames)
         /\ Grown(frames, frames', Len(frames))
         /\ IsDecl(s) => Has(frames'[Len(frames)], s.name)
         /\ EnvOK(env') /\ Len(env') = Len(env)
         /\ out' \in Seq(Value) /\ returnValue' \in Value \cup {Void}
         /\ s.kind = "return" => flow' = "return" /\ returnValue' = v
         /\ s.kind # "return" => flow' = flow /\ returnValue' = returnValue
<1>1. /\ frames \in Seq(Seq(Binding)) /\ EnvOK(env) /\ out \in Seq(Value)
      /\ returnValue \in Value \cup {Void}
  BY DEF Typed
<1>2. CASE s.kind \in {"let", "var"}
  <2>1. /\ ctl' = c /\ UNCHANGED <<flow, returnValue, out>>
        /\ frames' = Bound(s.name, v) /\ env' = Declared(s.at, v)
    BY <1>2 DEF Finish
  <2>2. EnvOK(env') /\ Len(env') = Len(env)
    BY <1>1, <1>2, <2>1, EnvDeclared
  <2>3. /\ frames' \in Seq(Seq(Binding)) /\ Len(frames') = Len(frames)
        /\ Grown(frames, frames', Len(frames)) /\ Has(frames'[Len(frames)], s.name)
    BY <1>1, <1>2, <2>1, BoundOK
  <2> QED BY <1>1, <1>2, <2>1, <2>2, <2>3
<1>3. CASE s.kind = "assign"
  <2>1. /\ ctl' = c /\ UNCHANGED <<flow, returnValue, out>>
        /\ frames' = Rebound(s.name, v)
        /\ env' = Declared(nodeSym[<<s.at, "target">>].at, v)
    BY <1>3 DEF Finish
  <2>2. EnvOK(env') /\ Len(env') = Len(env)
    BY <1>1, <1>3, <2>1, EnvDeclared
  <2>3. /\ frames' \in Seq(Seq(Binding)) /\ Len(frames') = Len(frames)
        /\ Grown(frames, frames', Len(frames))
    BY <1>1, <1>3, <2>1, ReboundOK
  <2> QED BY <1>1, <1>3, <2>1, <2>2, <2>3 DEF IsDecl
<1>4. ASSUME frames' = frames, env' = env PROVE
        /\ frames' \in Seq(Seq(Binding)) /\ Len(frames') = Len(frames)
        /\ Grown(frames, frames', Len(frames)) /\ EnvOK(env') /\ Len(env') = Len(env)
  BY <1>1, <1>4 DEF Grown
<1>5. CASE s.kind = "print"
  <2>1. /\ ctl' = c /\ UNCHANGED <<flow, returnValue, frames, env>> /\ out' = Append(out, v)
    BY <1>5 DEF Finish
  <2>2. out' \in Seq(Value)
    BY <1>1, <1>5, <2>1, AppendProperties
  <2> QED BY <1>1, <1>4, <1>5, <2>1, <2>2 DEF IsDecl
<1>6. CASE s.kind = "return"
  <2>1. ctl' = c /\ UNCHANGED <<out, frames, env>> /\ flow' = "return" /\ returnValue' = v
    BY <1>6 DEF Finish
  <2> QED BY <1>1, <1>4, <1>6, <2>1 DEF IsDecl
<1> QED BY <1>2, <1>3, <1>5, <1>6 DEF Simples

(* ------------------ What is under way after a step --------------------- *)

Matches(c, fr, ev) ==
  Len(fr) = Opened(c, Len(c)) /\ Len(ev) = 1 + Count(c, Len(c), {"call"})

LEMMA CallsAre ==
  ASSUME NEW c, IsSeq(c)
  PROVE  Cardinality({i \in DOMAIN c : c[i].k = "call"}) = Count(c, Len(c), {"call"})
<1>1. {i \in DOMAIN c : c[i].k = "call"} = {i \in 1 .. Len(c) : c[i].k \in {"call"}}
  BY IsSeqLen
<1> QED BY <1>1 DEF Count

LEMMA MatchedIs == IsSeq(ctl) => (FramesMatch <=> Matches(ctl, frames, env))
<1>1. ASSUME IsSeq(ctl) PROVE Cardinality(Calls) = Count(ctl, Len(ctl), {"call"})
  BY <1>1, CallsAre DEF Calls
<1> QED BY <1>1 DEF FramesMatch, Matches

LEMMA MatchedIsNext == IsSeq(ctl') => (FramesMatch' <=> Matches(ctl', frames', env'))
<1>1. ASSUME IsSeq(ctl') PROVE Cardinality(Calls') = Count(ctl', Len(ctl'), {"call"})
  BY <1>1, CallsAre DEF Calls
<1> QED BY <1>1 DEF FramesMatch, Matches, Opened

\* One item more.
LEMMA MatchesMore ==
  ASSUME NEW c, NEW m \in Nat
  PROVE  /\ Opened(c, m + 1) = Opened(c, m) + (IF c[m + 1].k \in {"call", "block"} THEN 1 ELSE 0)
         /\ Count(c, m + 1, {"call"}) = Count(c, m, {"call"}) + (IF c[m + 1].k = "call" THEN 1 ELSE 0)
         /\ Opened(c, m) \in Nat /\ Opened(c, m) >= 1 /\ Count(c, m, {"call"}) \in Nat
<1>1. /\ Opened(c, m + 1) = Opened(c, m) + (IF c[m + 1].k \in {"call", "block"} THEN 1 ELSE 0)
      /\ Opened(c, m) \in Nat /\ Opened(c, m) >= 1
  BY OpenedOK DEF Framed
<1>2. Count(c, m + 1, {"call"}) = Count(c, m, {"call"}) + (IF c[m + 1].k \in {"call"} THEN 1 ELSE 0)
  BY CountNext
<1>3. Count(c, m, {"call"}) \in Nat
  BY CountType
<1> QED BY <1>1, <1>2, <1>3

LEMMA MatchesNext ==
  ASSUME NEW c, NEW m \in Nat
  PROVE  /\ c[m + 1].k \notin {"call", "block"} =>
              Opened(c, m + 1) = Opened(c, m) /\ Count(c, m + 1, {"call"}) = Count(c, m, {"call"})
         /\ c[m + 1].k = "block" =>
              Opened(c, m + 1) = Opened(c, m) + 1 /\ Count(c, m + 1, {"call"}) = Count(c, m, {"call"})
         /\ c[m + 1].k = "call" =>
              Opened(c, m + 1) = Opened(c, m) + 1 /\ Count(c, m + 1, {"call"}) = Count(c, m, {"call"}) + 1
<1> DEFINE k == c[m + 1].k
<1>1. /\ Opened(c, m + 1) = Opened(c, m) + (IF k \in {"call", "block"} THEN 1 ELSE 0)
      /\ Count(c, m + 1, {"call"}) = Count(c, m, {"call"}) + (IF k = "call" THEN 1 ELSE 0)
      /\ Opened(c, m) \in Nat /\ Count(c, m, {"call"}) \in Nat
  BY MatchesMore
<1> HIDE DEF k
<1>2. k \notin {"call", "block"} =>
        Opened(c, m + 1) = Opened(c, m) /\ Count(c, m + 1, {"call"}) = Count(c, m, {"call"})
  BY <1>1
<1>3. k = "block" =>
        Opened(c, m + 1) = Opened(c, m) + 1 /\ Count(c, m + 1, {"call"}) = Count(c, m, {"call"})
  BY <1>1
<1>4. k = "call" =>
        Opened(c, m + 1) = Opened(c, m) + 1 /\ Count(c, m + 1, {"call"}) = Count(c, m, {"call"}) + 1
  BY <1>1
<1> QED BY <1>2, <1>3, <1>4 DEF k

LEMMA MatchesSame ==
  ASSUME NEW c, NEW e, NEW m \in Nat, \A j \in 1 .. m : e[j].k = c[j].k
  PROVE  Opened(e, m) = Opened(c, m) /\ Count(e, m, {"call"}) = Count(c, m, {"call"})
<1>1. m \in 0 .. m
  OBVIOUS
<1>2. Opened(e, m) = Opened(c, m)
  BY <1>1, Agreed
<1>3. Count(e, m, {"call"}) = Count(c, m, {"call"})
  BY CountSame
<1> QED BY <1>2, <1>3

LEMMA GrownLess ==
  ASSUME NEW fr, NEW fr2, NEW c, NEW i \in Nat, NEW j \in Nat, i <= j, Grown(fr, fr2, Opened(c, j))
  PROVE  Grown(fr, fr2, Opened(c, i))
<1>1. Opened(c, i) <= Opened(c, j) /\ Opened(c, i) \in Nat /\ Opened(c, j) \in Nat
  BY OpenedOK
<1>2. \A g \in 1 .. Opened(c, i) : g \in 1 .. Opened(c, j)
  BY <1>1
<1> QED BY <1>2 DEF Grown

\* The stack without its top.
LEMMA ItemsPopped ==
  ASSUME NEW J, NEW c, IsSeq(c), c # << >>, NEW fr, NEW fr2, Items(J, c, fr),
         Grown(fr, fr2, Opened(c, Len(c) - 1)),
         \A x \in Owed(c, Len(c) - 1) : Seen(x, Front(c), fr2, Len(c) - 1)
  PROVE  Items(J, Front(c), fr2)
<1> DEFINE e == Front(c)
<1>1. /\ Len(e) = Len(c) - 1 /\ Len(c) \in Nat \ {0}
      /\ \A i \in 1 .. Len(c) - 1 : e[i] = c[i]
  BY Popped
<1> HIDE DEF e
<1>2. \A x \in Owed(c, Len(c) - 1) : Seen(x, e, fr2, Len(c) - 1)
  BY DEF e
<1> DEFINE m == Len(c) - 1
<1>3. m \in Nat /\ m <= Len(c) /\ m <= Len(e) /\ Len(c) \in Nat /\ Len(e) \in Nat
  BY <1>1
<1>4. \A i \in 1 .. m : ItemOK(J, e, fr2, i)
  BY <1>1, <1>2, <1>3, ItemsKept
<1> QED BY <1>1, <1>4 DEF Items, e

\* The top body goes on after its first statement.
LEMMA ItemsAdvanced ==
  ASSUME NEW J, NEW c, IsSeq(c), c # << >>, NEW fr, NEW fr2, Items(J, c, fr),
         NEW e, Len(e) \in Nat, Len(e) >= Len(c),
         \A i \in 1 .. Len(c) - 1 : e[i] = c[i],
         NEW d \in J, d.body = c[Len(c)].rest, Fits(d, c, fr, Len(c)),
         c[Len(c)].k = "body", e[Len(c)] = Body(Tail(d.body)), AfterIt(d) \in J,
         Grown(fr, fr2, Opened(c, Len(c))),
         IsDecl(Head(d.body)) =>
           Seen(Head(d.body).name, e, fr2, Len(c)) \/ Head(d.body).name \in Owed(e, Len(c))
  PROVE  /\ \A i \in 1 .. Len(c) : ItemOK(J, e, fr2, i)
         /\ \A x \in DOMAIN d.sym : x \in Owed(e, Len(c)) \/ Seen(x, e, fr2, Len(c))
         /\ Fits(AfterIt(d), e, fr2, Len(c))
<1> DEFINE n == Len(c)
           a == AfterIt(d)
<1>1. n \in Nat \ {0}
  BY IsSeqLen
<1>2. e[n].k = "body" /\ e[n].rest = Tail(d.body)
  BY DEF Body
<1>3. \A j \in 1 .. n : e[j].k = c[j].k
  BY <1>1, <1>2
<1>4. Owed(c, n) = {}
  BY <1>1 DEF Owed
<1>5. a.loop = d.loop /\ a.void = d.void /\ a.body = Tail(d.body)
      /\ DOMAIN a.sym = IF IsDecl(Head(d.body)) THEN DOMAIN d.sym \cup {Head(d.body).name} ELSE DOMAIN d.sym
  BY DEF AfterIt, Judgement, With
<1> HIDE DEF a
<1>6. Fits(a, e, fr2, n)
  <2>1. \A x \in DOMAIN a.sym \ Owed(e, n) : x \in DOMAIN d.sym \ Owed(c, n) \/ Seen(x, e, fr2, n)
    BY <1>4, <1>5
  <2>2. Fits(d, c, fr, n) /\ Grown(fr, fr2, Opened(c, n)) /\ n \in Nat
    BY <1>1
  <2>3. a.loop = d.loop /\ a.void = d.void
    BY <1>5
  <2> HIDE DEF n
  <2> QED BY ONLY <1>3, <2>1, <2>2, <2>3, FitsKept
<1>7. ItemOK(J, e, fr2, n)
  BY <1>2, <1>5, <1>6 DEF ItemOK, a
<1>8. \A i \in 1 .. n - 1 : ItemOK(J, e, fr2, i)
  <2>1. Owed(c, n - 1) = {}
    BY <1>1 DEF Owed
  <2>2. Grown(fr, fr2, Opened(c, n - 1))
    <3>1. n \in Nat /\ n - 1 \in Nat /\ n - 1 <= n
      BY <1>1
    <3> QED BY <3>1, GrownLess
  <2>3. n - 1 \in Nat /\ n - 1 <= Len(c) /\ n - 1 <= Len(e) /\ Len(c) \in Nat
    BY <1>1
  <2> QED BY <2>1, <2>2, <2>3, ItemsKept
<1>9. \A x \in DOMAIN d.sym : x \in Owed(e, n) \/ Seen(x, e, fr2, n)
  BY <1>5, <1>6 DEF Fits
<1>10. \A i \in 1 .. n : i \in 1 .. n - 1 \/ i = n
  BY <1>1
<1> QED BY <1>6, <1>7, <1>8, <1>9, <1>10 DEF a

\* Where a call below what a step touches still waits for what it waited for.
LEMMA EndsBelow ==
  ASSUME NEW J, NEW c, NEW e, NEW m \in Nat, Len(e) \in Nat, m <= Len(e),
         \A j \in 1 .. m : e[j] = c[j],
         NEW i \in 1 .. m, NEW x \in i + 1 .. m, Ending(J, c[x]),
         \A j \in i + 1 .. x - 1 : Passed(c[j])
  PROVE  Ends(J, e, i)
<1>1. x \in i + 1 .. Len(e) /\ e[x] = c[x]
  OBVIOUS
<1>2. \A j \in i + 1 .. x - 1 : e[j] = c[j]
  OBVIOUS
<1> QED BY <1>1, <1>2 DEF Ends

LEMMA PassedKinds == \A it : Passed(it) => it.k \in {"block", "body"}
BY DEF Passed

LEMMA EndingsPopped ==
  ASSUME NEW J, NEW c, IsSeq(c), c # << >>, NEW fl, NEW fl2, Endings(J, c, fl),
         fl = "return" => fl2 = "return", c[Len(c)].k # "call",
         \A i \in 1 .. Len(c) - 1 : c[i].k = "call" /\ Ending(J, c[Len(c)])
             /\ (\A j \in i + 1 .. Len(c) - 1 : Passed(c[j])) => fl2 = "return"
  PROVE  Endings(J, Front(c), fl2)
<1> DEFINE e == Front(c)
           n == Len(c)
<1>1. /\ Len(e) = n - 1 /\ n \in Nat \ {0}
      /\ \A i \in 1 .. n - 1 : e[i] = c[i]
  BY Popped
<1> HIDE DEF e
<1> SUFFICES ASSUME NEW i \in 1 .. n - 1, e[i].k = "call"
             PROVE  (fl2 = "return" /\ LastCall(e, i)) \/ Ends(J, e, i)
  BY <1>1 DEF Endings, e
<1>2. c[i].k = "call" /\ i \in 1 .. n
  BY <1>1
<1>3. ASSUME \A j \in i + 1 .. n - 1 : c[j].k # "call" PROVE LastCall(e, i)
  BY <1>1, <1>2, <1>3 DEF LastCall
<1>4. CASE fl = "return" /\ LastCall(c, i)
  <2>1. \A j \in i + 1 .. n - 1 : c[j].k # "call"
    BY <1>1, <1>4 DEF LastCall
  <2> QED BY <1>3, <1>4, <2>1
<1>5. CASE Ends(J, c, i)
  <2>1. PICK x \in i + 1 .. n : Ending(J, c[x]) /\ \A j \in i + 1 .. x - 1 : Passed(c[j])
    BY <1>5 DEF Ends
  <2>2. CASE x = n
    <3>1. fl2 = "return"
      BY <1>2, <2>1, <2>2
    <3>2. \A j \in i + 1 .. n - 1 : c[j].k # "call"
      BY <2>1, <2>2, PassedKinds
    <3> QED BY <1>3, <3>1, <3>2
  <2>3. CASE x # n
    <3>1. n - 1 \in Nat /\ x \in i + 1 .. n - 1
      <4>1. n \in Nat \ {0}
        BY <1>1
      <4> HIDE DEF n
      <4> QED BY <2>3, <4>1
    <3>2. Len(e) \in Nat /\ n - 1 <= Len(e)
      BY <1>1
    <3> QED BY <1>1, <2>1, <3>1, <3>2, EndsBelow
  <2> QED BY <2>2, <2>3
<1> QED BY <1>2, <1>4, <1>5 DEF Endings

LEMMA EndingsAdvanced ==
  ASSUME NEW J, NEW c, IsSeq(c), c # << >>, Endings(J, c, "normal"), NEW fl2,
         NEW e, Len(e) \in Nat, Len(e) >= Len(c), \A i \in 1 .. Len(c) - 1 : e[i] = c[i],
         c[Len(c)].k = "body", c[Len(c)].rest # << >>, e[Len(c)] = Body(Tail(c[Len(c)].rest)),
         \A d \in J : d.body = c[Len(c)].rest => AfterIt(d) \in J,
         \A d \in J : d.body = c[Len(c)].rest /\ MustEnd(d) =>
           \/ fl2 = "return" /\ Len(e) = Len(c)
           \/ \E x \in Len(c) + 1 .. Len(e) :
                Ending(J, e[x]) /\ \A j \in Len(c) + 1 .. x - 1 : Passed(e[j]),
         \A i \in Len(c) + 1 .. Len(e) : e[i].k = "call" => Ends(J, e, i)
  PROVE  Endings(J, e, fl2)
<1> DEFINE n == Len(c)
<1>1. n \in Nat \ {0}
  BY IsSeqLen
<1>2. e[n].k = "body" /\ e[n].rest = Tail(c[n].rest)
  BY DEF Body
<1> SUFFICES ASSUME NEW i \in 1 .. n - 1, e[i].k = "call"
             PROVE  (fl2 = "return" /\ LastCall(e, i)) \/ Ends(J, e, i)
  <2>1. \A i \in 1 .. Len(e) : i \in 1 .. n - 1 \/ i = n \/ i \in n + 1 .. Len(e)
    BY <1>1
  <2> QED BY <1>2, <2>1 DEF Endings
<1>3. c[i].k = "call" /\ i \in 1 .. n
  BY <1>1
<1>4. PICK x \in i + 1 .. n : Ending(J, c[x]) /\ \A j \in i + 1 .. x - 1 : Passed(c[j])
  BY <1>3 DEF Endings, Ends
<1>5. CASE x # n
  <2>1. n - 1 \in Nat /\ x \in i + 1 .. n - 1 /\ n - 1 <= Len(e)
    BY <1>1, <1>5
  <2> QED BY <1>4, <2>1, EndsBelow
<1>6. CASE x = n
  <2>1. PICK d \in J : d.body = c[n].rest /\ d.ends
    BY <1>4, <1>6 DEF Ending
  <2>2. \A j \in i + 1 .. n - 1 : e[j] = c[j] /\ Passed(e[j])
    <3>1. (\A j \in 1 .. n - 1 : e[j] = c[j]) /\ i \in 1 .. n - 1
      OBVIOUS
    <3> HIDE DEF n
    <3> QED BY ONLY <1>1, <1>4, <1>6, <3>1
  <2>3. CASE ~MustEnd(d)
    <3>1. AfterIt(d) \in J /\ AfterIt(d).ends /\ AfterIt(d).body = Tail(c[n].rest)
      BY <2>1, <2>3 DEF AfterIt, Judgement
    <3>2. Ending(J, e[n])
      BY <1>2, <3>1 DEF Ending
    <3>3. n \in i + 1 .. Len(e)
      BY <1>1
    <3> QED BY <2>2, <3>2, <3>3 DEF Ends
  <2>4. CASE MustEnd(d)
    <3>1. Passed(e[n])
      BY <1>2, <2>1, <2>4 DEF Passed, MustEnd
    <3>2. CASE fl2 = "return" /\ Len(e) = n
      <4>1. \A j \in i + 1 .. Len(e) : j \in i + 1 .. n - 1 \/ j = n
        BY <1>1, <3>2
      <4> QED BY <1>2, <2>2, <3>2, <4>1, PassedKinds DEF LastCall
    <3>3. ASSUME NEW y \in n + 1 .. Len(e), Ending(J, e[y]),
                 \A j \in n + 1 .. y - 1 : Passed(e[j])
          PROVE  Ends(J, e, i)
      <4>1. \A j \in i + 1 .. y - 1 : j \in i + 1 .. n - 1 \/ j = n \/ j \in n + 1 .. y - 1
        BY <1>1
      <4>2. y \in i + 1 .. Len(e)
        BY <1>1
      <4> QED BY <2>2, <3>1, <3>3, <4>1, <4>2 DEF Ends
    <3> QED BY <2>1, <2>4, <3>2, <3>3
  <2> QED BY <2>3, <2>4
<1> QED BY <1>5, <1>6

LEMMA FlowPopped ==
  ASSUME NEW c, IsSeq(c), c # << >>, NEW fl, NEW rv, FlowOK(c, fl, rv), NEW fl2, NEW rv2,
         fl2 \in {"normal", "return", "break", "continue"},
         fl2 \in {"break", "continue"} => fl2 = fl /\ c[Len(c)].k # "while",
         fl2 = "return" /\ CallIn(c, Len(c)) => rv2 \in Value
  PROVE  FlowOK(Front(c), fl2, rv2)
<1> DEFINE e == Front(c)
           n == Len(c)
<1>1. /\ Len(e) = n - 1 /\ n \in Nat \ {0}
      /\ \A i \in 1 .. n - 1 : e[i] = c[i]
  BY Popped
<1> HIDE DEF e
<1>2. ASSUME fl2 \in {"break", "continue"} PROVE Looped(e, n - 1)
  <2>1. PICK w \in 1 .. n : c[w].k = "while" /\ \A k \in w + 1 .. n : c[k].k # "call"
    BY <1>2 DEF FlowOK, Looped
  <2>2. w \in 1 .. n - 1
    BY <1>1, <1>2, <2>1
  <2>3. \A k \in w + 1 .. n - 1 : k \in w + 1 .. n /\ e[k] = c[k]
    BY <1>1, <2>2
  <2> QED BY <1>1, <2>1, <2>2, <2>3 DEF Looped
<1>3. CallIn(e, n - 1) => CallIn(c, n)
  <2>1. \A k \in 1 .. n - 1 : k \in 1 .. n /\ e[k] = c[k]
    BY <1>1
  <2> QED BY <2>1 DEF CallIn
<1>4. \A i \in 1 .. n - 1 : e[i].k # "deliver"
  <2>1. \A i \in 1 .. n - 1 : i \in 1 .. n /\ i # n /\ e[i] = c[i]
    BY <1>1
  <2> QED BY <2>1 DEF FlowOK
<1> QED BY <1>1, <1>2, <1>3, <1>4 DEF FlowOK, e

LEMMA FlowPushed ==
  ASSUME NEW c, IsSeq(c), c # << >>, NEW fl, NEW rv, FlowOK(c, fl, rv), NEW fl2, NEW rv2,
         NEW e, Len(e) \in Nat, \A i \in 1 .. Len(c) - 1 : e[i] = c[i],
         \A i \in Len(c) .. Len(e) : e[i].k # "deliver",
         fl2 \in {"normal", "return", "break", "continue"},
         fl2 \in {"break", "continue"} => Looped(e, Len(e)),
         fl2 = "return" /\ CallIn(e, Len(e)) => rv2 \in Value
  PROVE  FlowOK(e, fl2, rv2)
<1> DEFINE n == Len(c)
<1>1. n \in Nat \ {0}
  BY IsSeqLen
<1>2. ASSUME NEW i \in 1 .. Len(e) PROVE e[i].k # "deliver"
  <2>1. CASE i \in 1 .. n - 1
    <3>1. i \in 1 .. n /\ i # n /\ e[i] = c[i]
      BY <1>1, <2>1
    <3> QED BY <3>1 DEF FlowOK
  <2>2. CASE i \in n .. Len(e)
    BY <2>2
  <2> QED BY <1>1, <2>1, <2>2
<1> QED BY <1>2 DEF FlowOK

(* -------------------------------- Steps --------------------------------- *)

LEMMA AtTop ==
  ASSUME NEW J, IInv(J), ctl # << >>
  PROVE  LET n == Len(ctl)
         IN  /\ IsSeq(ctl) /\ n \in Nat \ {0} /\ Top = ctl[n]
             /\ frames \in Seq(Seq(Binding)) /\ EnvOK(env) /\ frames # << >> /\ env # << >>
             /\ Len(frames) = Opened(ctl, n) /\ Len(env) = 1 + Count(ctl, n, {"call"})
             /\ ItemOK(J, ctl, frames, n) /\ Owed(ctl, n) = {}
             /\ CallIn(ctl, n) => Callable(prog)
<1> DEFINE n == Len(ctl)
<1>1. IsSeq(ctl) /\ frames \in Seq(Seq(Binding)) /\ EnvOK(env)
  BY DEF IInv, Typed
<1>2. n \in Nat \ {0} /\ Top = ctl[n]
  BY <1>1, Popped DEF Top
<1>3. Len(frames) = Opened(ctl, n) /\ Len(env) = 1 + Count(ctl, n, {"call"})
  BY <1>1, MatchedIs DEF IInv, Matches
<1>4. Opened(ctl, n) \in Nat /\ Opened(ctl, n) >= 1 /\ Count(ctl, n, {"call"}) \in Nat
  BY <1>2, MatchesMore
<1>5. frames # << >> /\ env # << >>
  <2>1. Len(frames) # 0 /\ Len(env) # 0
    BY <1>3, <1>4
  <2>2. Len(<< >>) = 0
    OBVIOUS
  <2> QED BY <2>1, <2>2
<1>6. \A i \in 1 .. n : ItemOK(J, ctl, frames, i)
  BY DEF IInv, Items
<1>7. ItemOK(J, ctl, frames, n)
  BY <1>2, <1>6
<1>8. CallIn(ctl, n) => Callable(prog)
  <2>1. ASSUME NEW i \in 1 .. n, ctl[i].k = "call" PROVE Callable(prog)
    BY <1>6, <2>1 DEF ItemOK, Shaped
  <2> QED BY <2>1 DEF CallIn
<1>9. Owed(ctl, n) = {}
  BY <1>2 DEF Owed
<1> QED BY <1>1, <1>2, <1>3, <1>5, <1>7, <1>8, <1>9

\* The judgement of the statement that is executed next.
LEMMA AtStatement ==
  ASSUME NEW J, Judged(prog, nodeSym, J), IInv(J), AtStmt
  PROVE  /\ ctl # << >> /\ flow = "normal"
         /\ ctl[Len(ctl)].k = "body" /\ ctl[Len(ctl)].rest # << >>
         /\ Stmt = Head(ctl[Len(ctl)].rest)
         /\ Advanced = Append(Front(ctl), Body(Tail(ctl[Len(ctl)].rest)))
         /\ \E d \in J : /\ d.body = ctl[Len(ctl)].rest /\ Fits(d, ctl, frames, Len(ctl))
                         /\ \A n \in DOMAIN d.sym : Seen(n, ctl, frames, Len(ctl))
         /\ \A d \in J : d.body = ctl[Len(ctl)].rest =>
              /\ Shaped(Stmt, Callable(prog))
              /\ NamesUsed(Stmt) \subseteq DOMAIN d.sym
              /\ Stmt.kind \in {"break", "continue"} => d.loop
              /\ Stmt.kind = "return" => (Stmt.e.op = "none") = d.void
              /\ MustEnd(d) => Stmt.kind \in {"return", "block", "if"}
              /\ AfterIt(d) \in J
              /\ Stmt.kind \in {"if", "while", "block"} => Inside(d, Stmt.then) \in J
              /\ Stmt.kind = "if" => Inside(d, Stmt.else) \in J
<1>1. /\ ctl # << >> /\ flow = "normal" /\ Top = ctl[Len(ctl)]
      /\ ctl[Len(ctl)].k = "body" /\ ctl[Len(ctl)].rest # << >>
      /\ ItemOK(J, ctl, frames, Len(ctl)) /\ Owed(ctl, Len(ctl)) = {}
  BY AtTop DEF AtStmt
<1>2. /\ Stmt = Head(ctl[Len(ctl)].rest)
      /\ Advanced = Append(Front(ctl), Body(Tail(ctl[Len(ctl)].rest)))
  BY <1>1 DEF Stmt, Advanced
<1>3. PICK d \in J : d.body = ctl[Len(ctl)].rest /\ Fits(d, ctl, frames, Len(ctl))
  BY <1>1 DEF ItemOK
<1>4. \A n \in DOMAIN d.sym : Seen(n, ctl, frames, Len(ctl))
  BY <1>1, <1>3 DEF Fits
<1>5. ASSUME NEW b \in J, b.body = ctl[Len(ctl)].rest
      PROVE  /\ Shaped(Stmt, Callable(prog))
             /\ NamesUsed(Stmt) \subseteq DOMAIN b.sym
             /\ Stmt.kind \in {"break", "continue"} => b.loop
             /\ Stmt.kind = "return" => (Stmt.e.op = "none") = b.void
             /\ MustEnd(b) => Stmt.kind \in {"return", "block", "if"}
             /\ AfterIt(b) \in J
             /\ Stmt.kind \in {"if", "while", "block"} => Inside(b, Stmt.then) \in J
             /\ Stmt.kind = "if" => Inside(b, Stmt.else) \in J
  <2>1. Kept(b, J, Callable(prog)) /\ b.body # << >> /\ Head(b.body) = Stmt
    BY <1>1, <1>2, <1>5 DEF Judged
  <2> QED BY <2>1 DEF Kept
<1> QED BY <1>1, <1>2, <1>3, <1>4, <1>5

\* What lookup finds is a name of the current call.
LEMMA SeenFound ==
  ASSUME NEW J, IInv(J), ctl # << >>, NEW x, Seen(x, ctl, frames, Len(ctl))
  PROVE  FrameOf(x) # 0 /\ \A k \in 1 .. Len(ctl) : ctl[k].k = "call" => FrameOf(x) >= Opened(ctl, k)
<1>1. /\ frames \in Seq(Seq(Binding)) /\ Len(frames) = Opened(ctl, Len(ctl))
      /\ Len(ctl) \in Nat
  BY AtTop
<1>2. PICK g \in 1 .. Opened(ctl, Len(ctl)) :
        Has(frames[g], x) /\ \A k \in 1 .. Len(ctl) : ctl[k].k = "call" => Opened(ctl, k) <= g
  BY DEF Seen
<1>3. g \in DOMAIN frames /\ DOMAIN frames = 1 .. Len(frames)
  BY <1>1, LenProperties
<1>4. FrameOf(x) \in DOMAIN frames /\ g <= FrameOf(x)
  BY <1>1, <1>2, <1>3, FrameFound
<1>5. ASSUME NEW k \in 1 .. Len(ctl), ctl[k].k = "call" PROVE FrameOf(x) >= Opened(ctl, k)
  <2>1. Opened(ctl, k) <= g /\ Opened(ctl, k) \in Nat
    <3>1. k \in Nat
      OBVIOUS
    <3> QED BY <1>2, <1>5, <3>1, OpenedOK
  <2>2. FrameOf(x) \in Nat /\ g \in Nat
    BY <1>3, <1>4
  <2> HIDE DEF FrameOf
  <2> QED BY <1>4, <2>1, <2>2
<1>6. FrameOf(x) # 0
  BY <1>3, <1>4
<1> QED BY <1>5, <1>6

Stepped(J) ==
  /\ Typed' /\ Matches(ctl', frames', env')
  /\ Items(J, ctl', frames') /\ Endings(J, ctl', flow') /\ FlowOK(ctl', flow', returnValue')

LEMMA SteppedIs == ASSUME NEW J, prog' = prog, Stepped(J) PROVE IInv(J)'
<1>1. FramesMatch'
  BY MatchedIsNext DEF Stepped, Typed
<1>2. Items(J, ctl, frames)'
  <2>1. ASSUME NEW d, NEW i, Fits(d, ctl', frames', i) PROVE Fits(d, ctl, frames, i)'
    BY <2>1 DEF Fits
  <2>2. Callable(prog)' = Callable(prog)
    BY DEF Callable
  <2>3. ASSUME NEW i, ItemOK(J, ctl', frames', i) PROVE ItemOK(J, ctl, frames, i)'
    BY <2>1, <2>2, <2>3 DEF ItemOK
  <2> QED BY <2>3 DEF Stepped, Items
<1>3. Endings(J, ctl, flow)' /\ FlowOK(ctl, flow, returnValue)'
  BY DEF Stepped
<1> QED BY <1>1, <1>2, <1>3 DEF IInv, Stepped

\* A statement that takes the top one step further, with what it pushes.
LEMMA AdvancedStep ==
  ASSUME NEW J, Judged(prog, nodeSym, J), IInv(J), AtStmt,
         frames' \in Seq(Seq(Binding)), EnvOK(env'), out' \in Seq(Value),
         returnValue' \in Value \cup {Void},
         IsSeq(ctl'), Len(ctl') \in Nat, Len(ctl') >= Len(ctl),
         \A i \in 1 .. Len(ctl) - 1 : ctl'[i] = ctl[i],
         ctl'[Len(ctl)] = Body(Tail(ctl[Len(ctl)].rest)),
         Grown(frames, frames', Opened(ctl, Len(ctl))),
         Matches(ctl', frames', env'),
         IsDecl(Stmt) => Seen(Stmt.name, ctl', frames', Len(ctl)) \/ Stmt.name \in Owed(ctl', Len(ctl)),
         \A i \in Len(ctl) + 1 .. Len(ctl') :
           ctl'[i].k # "deliver" /\ ItemOK(J, ctl', frames', i)
             /\ (ctl'[i].k = "call" => Ends(J, ctl', i)),
         \A d \in J : d.body = ctl[Len(ctl)].rest /\ MustEnd(d) =>
           \/ flow' = "return" /\ Len(ctl') = Len(ctl)
           \/ \E x \in Len(ctl) + 1 .. Len(ctl') :
                Ending(J, ctl'[x]) /\ \A j \in Len(ctl) + 1 .. x - 1 : Passed(ctl'[j]),
         flow' \in {"normal", "return", "break", "continue"},
         flow' \in {"break", "continue"} => Looped(ctl', Len(ctl')),
         flow' = "return" /\ CallIn(ctl', Len(ctl')) => returnValue' \in Value
  PROVE  Stepped(J)
<1> DEFINE n == Len(ctl)
<1>1. /\ IsSeq(ctl) /\ n \in Nat \ {0} /\ ctl # << >> /\ flow = "normal"
      /\ ctl[n].k = "body" /\ ctl[n].rest # << >> /\ Stmt = Head(ctl[n].rest)
  BY AtTop, AtStatement
<1>2. PICK d \in J : d.body = ctl[n].rest /\ Fits(d, ctl, frames, n)
  BY AtStatement
<1>3. \A b \in J : b.body = ctl[n].rest => AfterIt(b) \in J
  BY AtStatement
<1>4. Items(J, ctl, frames) /\ Endings(J, ctl, "normal") /\ FlowOK(ctl, flow, returnValue)
  BY <1>1 DEF IInv
<1>5. Items(J, ctl', frames')
  <2>1. AfterIt(d) \in J /\ Head(d.body) = Stmt
    BY <1>1, <1>2, <1>3
  <2>2. \A i \in 1 .. n : ItemOK(J, ctl', frames', i)
    BY <1>1, <1>2, <1>4, <2>1, ItemsAdvanced
  <2>3. \A i \in 1 .. Len(ctl') : i \in 1 .. n \/ i \in n + 1 .. Len(ctl')
    BY <1>1
  <2> QED BY <2>2, <2>3 DEF Items
<1>6. Endings(J, ctl', flow')
  <2>1. \A i \in n + 1 .. Len(ctl') : ctl'[i].k = "call" => Ends(J, ctl', i)
    OBVIOUS
  <2> QED BY <1>1, <1>3, <1>4, <2>1, EndingsAdvanced
<1>7. FlowOK(ctl', flow', returnValue')
  <2>1. \A i \in n .. Len(ctl') : ctl'[i].k # "deliver"
    <3>1. ctl'[n].k = "body"
      BY DEF Body
    <3>2. \A i \in n .. Len(ctl') : i = n \/ i \in n + 1 .. Len(ctl')
      BY <1>1
    <3> QED BY <3>1, <3>2
  <2> QED BY <1>1, <1>4, <2>1, FlowPushed
<1>8. Typed'
  BY DEF Typed
<1> QED BY <1>5, <1>6, <1>7, <1>8 DEF Stepped

LEMMA AdvancedTo ==
  ASSUME NEW J, Judged(prog, nodeSym, J), IInv(J), AtStmt
  PROVE  /\ IsSeq(Advanced) /\ Len(Advanced) = Len(ctl)
         /\ \A i \in 1 .. Len(ctl) - 1 : Advanced[i] = ctl[i]
         /\ Advanced[Len(ctl)] = Body(Tail(ctl[Len(ctl)].rest))
         /\ \A i \in 1 .. Len(ctl) : Advanced[i].k = ctl[i].k
<1> DEFINE n == Len(ctl)
           t == Body(Tail(ctl[n].rest))
<1>1. /\ IsSeq(ctl) /\ ctl # << >> /\ ctl[n].k = "body"
      /\ Advanced = Append(Front(ctl), t)
  BY AtTop, AtStatement
<1>2. t.k = "body"
  BY DEF Body
<1> HIDE DEF t
<1>3. /\ IsSeq(Advanced) /\ Len(Advanced) = n /\ n \in Nat \ {0}
      /\ \A i \in 1 .. n - 1 : Advanced[i] = ctl[i]
      /\ Advanced[n] = t
  BY <1>1, Replaced
<1>4. \A i \in 1 .. n : i \in 1 .. n - 1 \/ i = n
  BY <1>3
<1>5. \A i \in 1 .. n : Advanced[i].k = ctl[i].k
  BY <1>1, <1>2, <1>3, <1>4
<1> QED BY <1>3, <1>5 DEF t

LEMMA SimpleStep ==
  ASSUME NEW J, Judged(prog, nodeSym, J), IInv(J), Simple PROVE Stepped(J)
<1> DEFINE n == Len(ctl)
           s == Stmt
           v == Eval(Stmt.e)
<1>1. /\ AtStmt /\ s.kind \in Simples /\ s.e.op # "call" /\ v <= MaxInt
      /\ Finish(s, v, Advanced)
  BY DEF Simple, Current, Simples
<1>2. /\ IsSeq(ctl) /\ n \in Nat \ {0} /\ ctl # << >> /\ flow = "normal"
      /\ ctl[n].k = "body" /\ ctl[n].rest # << >>
      /\ frames \in Seq(Seq(Binding)) /\ frames # << >> /\ env # << >>
      /\ Len(frames) = Opened(ctl, n) /\ Len(env) = 1 + Count(ctl, n, {"call"})
      /\ CallIn(ctl, n) => Callable(prog)
  BY <1>1, AtTop, AtStatement
<1>3. PICK d \in J : /\ d.body = ctl[n].rest /\ Fits(d, ctl, frames, n)
                     /\ \A x \in DOMAIN d.sym : Seen(x, ctl, frames, n)
  BY <1>1, AtStatement
<1>4. /\ Shaped(s, Callable(prog)) /\ NamesUsed(s) \subseteq DOMAIN d.sym
      /\ s.kind = "return" => (s.e.op = "none") = d.void
  BY <1>1, <1>3, AtStatement
<1>5. /\ s.e.op \in {"lit", "name", "plus", "none"} /\ s.e.v \in Nat /\ s.name \in STRING
      /\ s.kind # "return" => s.e.op # "none"
  BY <1>1, <1>4 DEF Shaped, Simples
<1>6. s.e.op = "name" => FrameOf(s.e.n) # 0
  <2>1. s.e.op = "name" => s.e.n \in NamesUsed(s)
    BY DEF NamesUsed, UsesName
  <2> QED BY <1>2, <1>3, <1>4, <2>1, SeenFound
<1>7. v \in Value \cup {Void} /\ (s.e.op # "none" => v \in Value)
  BY <1>1, <1>2, <1>5, <1>6, EvalOK
<1> HIDE DEF s, v
<1>8. /\ ctl' = Advanced
      /\ frames' \in Seq(Seq(Binding)) /\ Len(frames') = Len(frames)
      /\ Grown(frames, frames', Len(frames))
      /\ IsDecl(s) => Has(frames'[Len(frames)], s.name)
      /\ EnvOK(env') /\ Len(env') = Len(env)
      /\ out' \in Seq(Value) /\ returnValue' \in Value \cup {Void}
      /\ s.kind = "return" => flow' = "return" /\ returnValue' = v
      /\ s.kind # "return" => flow' = flow /\ returnValue' = returnValue
  <2>1. Typed /\ (s.kind # "return" => v \in Value)
    BY <1>5, <1>7 DEF IInv
  <2> QED BY <1>1, <1>2, <1>5, <1>7, <2>1, FinishOK
<1>9. /\ IsSeq(ctl') /\ Len(ctl') = n
      /\ \A i \in 1 .. n - 1 : ctl'[i] = ctl[i]
      /\ ctl'[n] = Body(Tail(ctl[n].rest))
  BY <1>1, <1>8, AdvancedTo
<1>10. \A j \in 1 .. n : ctl'[j].k = ctl[j].k
  BY <1>1, <1>8, AdvancedTo
<1>11. Matches(ctl', frames', env')
  <2>1. Opened(ctl', n) = Opened(ctl, n) /\ Count(ctl', n, {"call"}) = Count(ctl, n, {"call"})
    BY <1>2, <1>10, MatchesSame
  <2> QED BY <1>2, <1>8, <1>9, <2>1 DEF Matches
<1>12. IsDecl(s) => Seen(s.name, ctl', frames', n)
  <2>1. Opened(ctl', n) = Len(frames)
    BY <1>2, <1>10, MatchesSame
  <2> QED BY <1>2, <1>8, <2>1, SeenHere
<1>13. \A b \in J : b.body = ctl[n].rest /\ MustEnd(b) => flow' = "return" /\ Len(ctl') = n
  <2>1. \A b \in J : b.body = ctl[n].rest /\ MustEnd(b) => s.kind \in {"return", "block", "if"}
    BY <1>1, AtStatement DEF s
  <2> QED BY <1>1, <1>8, <1>9, <2>1 DEF Simples
<1>14. flow' = "return" /\ CallIn(ctl', n) => returnValue' \in Value
  <2>1. n \in 0 .. n
    BY <1>2
  <2>2. CallIn(ctl', n) => CallIn(ctl, n)
    BY <1>2, <1>10, <2>1, Agreed
  <2>3. CallIn(ctl, n) => ~d.void
    BY <1>2, <1>3 DEF Fits, Callable
  <2>4. flow' = "return" => s.kind = "return"
    BY <1>2, <1>8
  <2> QED BY <1>4, <1>7, <1>8, <2>2, <2>3, <2>4
<1>15. flow' \in {"normal", "return"}
  BY <1>2, <1>8
<1>16. \A i \in n + 1 .. Len(ctl') : FALSE
  BY <1>2, <1>9
<1>17. Grown(frames, frames', Opened(ctl, n))
  BY <1>2, <1>8
<1> HIDE DEF n
<1> QED BY <1>1, <1>2, <1>8, <1>9, <1>11, <1>12, <1>13, <1>14, <1>15, <1>16, <1>17, AdvancedStep DEF s, n

\* What the top's statement pushes sees what the statement sees.
LEMMA PushedFits ==
  ASSUME NEW J, Judged(prog, nodeSym, J), IInv(J), AtStmt,
         NEW e, \A i \in 1 .. Len(ctl) : e[i].k = ctl[i].k,
         e[Len(ctl) + 1].k \in {"body", "while", "block"},
         NEW fr, Grown(frames, fr, Opened(ctl, Len(ctl))),
         NEW d \in J, d.body = ctl[Len(ctl)].rest, Fits(d, ctl, frames, Len(ctl)),
         NEW b, b.sym = d.sym, b.void = d.void, b.loop => d.loop \/ Looped(e, Len(ctl) + 1)
  PROVE  Fits(b, e, fr, Len(ctl) + 1)
<1> DEFINE n == Len(ctl)
<1>1. n \in Nat \ {0} /\ Owed(ctl, n) = {} /\ ctl # << >>
  BY AtTop, AtStatement
<1>2. Owed(e, n) = {}
  BY DEF Owed
<1>3. Fits(d, e, fr, n)
  <2>1. \A x \in DOMAIN d.sym \ Owed(e, n) : x \in DOMAIN d.sym \ Owed(ctl, n) \/ Seen(x, e, fr, n)
    BY <1>1
  <2> QED BY <1>1, <2>1, FitsKept
<1> QED BY <1>1, <1>2, <1>3, FitsAbove

LEMMA IfStep ==
  ASSUME NEW J, Judged(prog, nodeSym, J), IInv(J), If PROVE Stepped(J)
<1> DEFINE n == Len(ctl)
           b == IF Holds(Stmt.e) THEN Stmt.then ELSE Stmt.else
<1>1. /\ AtStmt /\ Stmt.kind = "if" /\ ctl' = Append(Advanced, Body(b))
      /\ UNCHANGED <<prog, nodeSym, frames, flow, returnValue, out, env>>
  BY DEF If, Current
<1>2. /\ n \in Nat \ {0} /\ ctl # << >> /\ flow = "normal" /\ Stmt = Head(ctl[n].rest)
      /\ frames \in Seq(Seq(Binding)) /\ EnvOK(env)
      /\ Len(frames) = Opened(ctl, n) /\ Len(env) = 1 + Count(ctl, n, {"call"})
      /\ out \in Seq(Value) /\ returnValue \in Value \cup {Void}
  BY <1>1, AtTop, AtStatement DEF IInv, Typed
<1>3. PICK d \in J : d.body = ctl[n].rest /\ Fits(d, ctl, frames, n)
  BY <1>1, AtStatement
<1>4. \A x \in J : x.body = ctl[n].rest => Inside(x, b) \in J
  <2>1. \A x \in J : x.body = ctl[n].rest => Inside(x, Stmt.then) \in J /\ Inside(x, Stmt.else) \in J
    BY <1>1, AtStatement
  <2> QED BY <2>1
<1> HIDE DEF b
<1>5. \A x \in J : x.body = ctl[n].rest =>
        /\ Inside(x, b).body = b /\ Inside(x, b).sym = x.sym /\ Inside(x, b).void = x.void
        /\ Inside(x, b).loop = x.loop /\ Inside(x, b).ends = MustEnd(x)
  <2>1. \A x \in J : x.loop \in BOOLEAN
    BY DEF Judged
  <2>2. \A x \in J : MustEnd(x) \in BOOLEAN
    BY DEF MustEnd, Judged
  <2> QED BY <1>1, <1>2, <2>1, <2>2 DEF Inside, Judgement
<1>6. /\ IsSeq(ctl') /\ Len(ctl') = n + 1
      /\ \A i \in 1 .. n : ctl'[i] = Advanced[i]
      /\ ctl'[n + 1] = Body(b)
  BY <1>1, AdvancedTo, Pushed
<1>7. /\ \A i \in 1 .. n - 1 : ctl'[i] = ctl[i]
      /\ ctl'[n] = Body(Tail(ctl[n].rest))
      /\ \A i \in 1 .. n : ctl'[i].k = ctl[i].k
  <2>1. n \in 1 .. n /\ \A i \in 1 .. n - 1 : i \in 1 .. n
    BY <1>2
  <2> QED BY <1>1, <1>6, <2>1, AdvancedTo
<1>8. ctl'[n + 1].k = "body" /\ ctl'[n + 1].rest = b
  BY <1>6 DEF Body
<1>9. Grown(frames, frames', Opened(ctl, n))
  BY <1>1 DEF Grown
<1>10. ItemOK(J, ctl', frames', n + 1)
  <2>1. Fits(Inside(d, b), ctl', frames', n + 1)
    BY <1>1, <1>3, <1>5, <1>7, <1>8, <1>9, PushedFits
  <2> QED BY <1>3, <1>4, <1>5, <1>8, <2>1 DEF ItemOK
<1>11. Matches(ctl', frames', env')
  <2>1. Opened(ctl', n) = Opened(ctl, n) /\ Count(ctl', n, {"call"}) = Count(ctl, n, {"call"})
    BY <1>2, <1>7, MatchesSame
  <2>2. Opened(ctl', n + 1) = Opened(ctl', n) /\ Count(ctl', n + 1, {"call"}) = Count(ctl', n, {"call"})
    BY <1>2, <1>8, MatchesNext
  <2> QED BY <1>1, <1>2, <1>6, <2>1, <2>2 DEF Matches
<1>12. \A x \in J : x.body = ctl[n].rest /\ MustEnd(x) =>
         \E y \in n + 1 .. Len(ctl') : Ending(J, ctl'[y]) /\ \A j \in n + 1 .. y - 1 : Passed(ctl'[j])
  <2> SUFFICES ASSUME NEW x \in J, x.body = ctl[n].rest, MustEnd(x)
               PROVE  Ending(J, ctl'[n + 1])
    BY <1>2, <1>6
  <2> QED BY <1>4, <1>5, <1>8 DEF Ending
<1>13. \A i \in n + 1 .. Len(ctl') : i = n + 1
  BY <1>2, <1>6
<1>14. Len(ctl') \in Nat /\ Len(ctl') >= n
  BY <1>2, <1>6
<1>15. ~IsDecl(Stmt)
  BY <1>1 DEF IsDecl
<1> HIDE DEF n
<1> QED BY <1>1, <1>2, <1>6, <1>7, <1>8, <1>9, <1>10, <1>11, <1>12, <1>13, <1>14, <1>15, AdvancedStep DEF n

LEMMA WhileStep ==
  ASSUME NEW J, Judged(prog, nodeSym, J), IInv(J), While PROVE Stepped(J)
<1> DEFINE n == Len(ctl)
           it == [k |-> "while", s |-> Stmt]
<1>1. /\ AtStmt /\ Stmt.kind = "while" /\ ctl' = Append(Advanced, it)
      /\ UNCHANGED <<prog, nodeSym, frames, flow, returnValue, out, env>>
  BY DEF While, Current
<1>2. /\ n \in Nat \ {0} /\ ctl # << >> /\ flow = "normal"
      /\ Stmt = Head(ctl[n].rest) /\ ctl[n].rest # << >>
      /\ frames \in Seq(Seq(Binding)) /\ EnvOK(env)
      /\ Len(frames) = Opened(ctl, n) /\ Len(env) = 1 + Count(ctl, n, {"call"})
      /\ out \in Seq(Value) /\ returnValue \in Value \cup {Void}
  BY <1>1, AtTop, AtStatement DEF IInv, Typed
<1>3. PICK d \in J : d.body = ctl[n].rest /\ Fits(d, ctl, frames, n)
  BY <1>1, AtStatement
<1>4. it.k = "while" /\ it.s = Stmt
  OBVIOUS
<1> HIDE DEF it
<1>6. /\ IsSeq(ctl') /\ Len(ctl') = n + 1
      /\ \A i \in 1 .. n : ctl'[i] = Advanced[i]
      /\ ctl'[n + 1] = it
  BY <1>1, AdvancedTo, Pushed
<1>7. /\ \A i \in 1 .. n - 1 : ctl'[i] = ctl[i]
      /\ ctl'[n] = Body(Tail(ctl[n].rest))
      /\ \A i \in 1 .. n : ctl'[i].k = ctl[i].k
  <2>1. n \in 1 .. n /\ \A i \in 1 .. n - 1 : i \in 1 .. n
    BY <1>2
  <2> QED BY <1>1, <1>6, <2>1, AdvancedTo
<1>9. Grown(frames, frames', Opened(ctl, n))
  BY <1>1 DEF Grown
<1>10. ItemOK(J, ctl', frames', n + 1)
  <2>1. Fits(d, ctl', frames', n + 1)
    BY <1>1, <1>3, <1>4, <1>6, <1>7, <1>9, PushedFits
  <2> QED BY <1>1, <1>2, <1>3, <1>4, <1>6, <2>1 DEF ItemOK
<1>11. Matches(ctl', frames', env')
  <2>1. Opened(ctl', n) = Opened(ctl, n) /\ Count(ctl', n, {"call"}) = Count(ctl, n, {"call"})
    BY <1>2, <1>7, MatchesSame
  <2>2. Opened(ctl', n + 1) = Opened(ctl', n) /\ Count(ctl', n + 1, {"call"}) = Count(ctl', n, {"call"})
    BY <1>2, <1>4, <1>6, MatchesNext
  <2> QED BY <1>1, <1>2, <1>6, <2>1, <2>2 DEF Matches
<1>12. \A x \in J : x.body = ctl[n].rest => ~MustEnd(x)
  BY <1>1, AtStatement
<1>13. \A i \in n + 1 .. Len(ctl') : i = n + 1
  BY <1>2, <1>6
<1>14. Len(ctl') \in Nat /\ Len(ctl') >= n
  BY <1>2, <1>6
<1>15. ~IsDecl(Stmt)
  BY <1>1 DEF IsDecl
<1> HIDE DEF n
<1> QED BY <1>1, <1>2, <1>4, <1>6, <1>7, <1>9, <1>10, <1>11, <1>12, <1>13, <1>14, <1>15, AdvancedStep DEF n

LEMMA AdvancedAndPushed ==
  ASSUME NEW J, Judged(prog, nodeSym, J), IInv(J), AtStmt, NEW x, NEW y, ctl' = Advanced \o <<x, y>>
  PROVE  /\ IsSeq(ctl') /\ Len(ctl') = Len(ctl) + 2
         /\ \A i \in 1 .. Len(ctl) - 1 : ctl'[i] = ctl[i]
         /\ ctl'[Len(ctl)] = Body(Tail(ctl[Len(ctl)].rest))
         /\ \A i \in 1 .. Len(ctl) : ctl'[i].k = ctl[i].k
         /\ ctl'[Len(ctl) + 1] = x /\ ctl'[Len(ctl) + 2] = y
<1> DEFINE n == Len(ctl)
<1>1. /\ IsSeq(Advanced) /\ Len(Advanced) = n
      /\ \A i \in 1 .. n - 1 : Advanced[i] = ctl[i]
      /\ Advanced[n] = Body(Tail(ctl[n].rest))
      /\ \A i \in 1 .. n : Advanced[i].k = ctl[i].k
  BY AdvancedTo
<1>2. n \in Nat \ {0}
  BY AtTop, AtStatement
<1>3. /\ IsSeq(ctl') /\ Len(ctl') = n + 2
      /\ \A i \in 1 .. n : ctl'[i] = Advanced[i]
      /\ ctl'[n + 1] = x /\ ctl'[n + 2] = y
  <2> DEFINE a == Advanced
  <2>1. IsSeq(a) /\ Len(a) = n /\ ctl' = a \o <<x, y>>
    BY <1>1
  <2> HIDE DEF a
  <2>2. IsSeq(ctl')
    <3>1. ASSUME NEW f, IsSeq(f), NEW r, r = f \o <<x, y>> PROVE IsSeq(r)
      BY <3>1, Pushed2
    <3> QED BY <2>1, <3>1
  <2>5. Len(ctl') = Len(a) + 2
    BY <2>1, Pushed2
  <2>3. \A i \in 1 .. Len(a) : ctl'[i] = a[i]
    BY <2>1, Pushed2
  <2>4. ctl'[Len(a) + 1] = x /\ ctl'[Len(a) + 2] = y
    BY <2>1, Pushed2
  <2> QED BY <2>1, <2>2, <2>3, <2>4, <2>5 DEF a
<1>4. n \in 1 .. n /\ \A i \in 1 .. n - 1 : i \in 1 .. n
  BY <1>2
<1> QED BY <1>1, <1>3, <1>4

LEMMA BlockStep ==
  ASSUME NEW J, Judged(prog, nodeSym, J), IInv(J), Block PROVE Stepped(J)
<1> DEFINE n == Len(ctl)
           it == [k |-> "block"]
           b == Stmt.then
<1>1. /\ AtStmt /\ Stmt.kind = "block" /\ ctl' = Advanced \o <<it, Body(b)>>
      /\ frames' = Append(frames, << >>)
      /\ UNCHANGED <<prog, nodeSym, flow, returnValue, out, env>>
  BY DEF Block, Current
<1>2. /\ n \in Nat \ {0} /\ ctl # << >> /\ flow = "normal" /\ Stmt = Head(ctl[n].rest)
      /\ frames \in Seq(Seq(Binding)) /\ EnvOK(env)
      /\ Len(frames) = Opened(ctl, n) /\ Len(env) = 1 + Count(ctl, n, {"call"})
      /\ out \in Seq(Value) /\ returnValue \in Value \cup {Void}
  BY <1>1, AtTop, AtStatement DEF IInv, Typed
<1>3. PICK d \in J : d.body = ctl[n].rest /\ Fits(d, ctl, frames, n)
  BY <1>1, AtStatement
<1>4. \A x \in J : x.body = ctl[n].rest => Inside(x, b) \in J
  BY <1>1, AtStatement
<1>5. \A x \in J : x.body = ctl[n].rest =>
        /\ Inside(x, b).body = b /\ Inside(x, b).sym = x.sym /\ Inside(x, b).void = x.void
        /\ Inside(x, b).loop = x.loop /\ Inside(x, b).ends = MustEnd(x)
  <2>1. \A x \in J : x.loop \in BOOLEAN
    BY DEF Judged
  <2>2. \A x \in J : MustEnd(x) \in BOOLEAN
    BY DEF MustEnd, Judged
  <2> HIDE DEF b
  <2> QED BY <1>1, <1>2, <2>1, <2>2 DEF Inside, Judgement
<1> HIDE DEF b
<1>it. it.k = "block"
  OBVIOUS
<1> HIDE DEF it
<1>6. /\ IsSeq(ctl') /\ Len(ctl') = n + 2
      /\ \A i \in 1 .. n - 1 : ctl'[i] = ctl[i]
      /\ ctl'[n] = Body(Tail(ctl[n].rest))
      /\ \A i \in 1 .. n : ctl'[i].k = ctl[i].k
      /\ ctl'[n + 1] = it /\ ctl'[n + 2] = Body(b)
  BY <1>1, AdvancedAndPushed
<1>8. ctl'[n + 1].k = "block" /\ ctl'[n + 2].k = "body" /\ ctl'[n + 2].rest = b
  BY <1>6, <1>it DEF Body
<1>9. /\ frames' \in Seq(Seq(Binding)) /\ Len(frames') = Len(frames) + 1
      /\ Grown(frames, frames', Opened(ctl, n))
  <2>1. << >> \in Seq(Binding)
    OBVIOUS
  <2> QED BY <1>1, <1>2, <2>1, FramePushed
<1>10. ItemOK(J, ctl', frames', n + 1)
  BY <1>8 DEF ItemOK
<1>11. ItemOK(J, ctl', frames', n + 2)
  <2>1. Fits(d, ctl', frames', n + 1)
    BY <1>1, <1>3, <1>6, <1>8, <1>9, PushedFits
  <2>2. Owed(ctl', n + 1) = {}
    <3>1. (n + 1) + 1 = n + 2
      BY <1>2
    <3> QED BY <1>8, <3>1 DEF Owed
  <2>3. Fits(Inside(d, b), ctl', frames', n + 2)
    <3>1. n + 1 \in Nat /\ (n + 1) + 1 = n + 2
      BY <1>2
    <3>2. ctl'[(n + 1) + 1].k # "call"
      BY <1>8, <3>1
    <3>3. Fits(Inside(d, b), ctl', frames', (n + 1) + 1)
      BY <1>3, <1>5, <2>1, <2>2, <3>1, <3>2, FitsAbove
    <3> QED BY <3>1, <3>3
  <2> QED BY <1>3, <1>4, <1>5, <1>8, <2>3 DEF ItemOK
<1>12. Matches(ctl', frames', env')
  <2>1. Opened(ctl', n) = Opened(ctl, n) /\ Count(ctl', n, {"call"}) = Count(ctl, n, {"call"})
    BY <1>2, <1>6, MatchesSame
  <2>2. Opened(ctl', n + 1) = Opened(ctl', n) + 1 /\ Count(ctl', n + 1, {"call"}) = Count(ctl', n, {"call"})
    BY <1>2, <1>8, MatchesNext
  <2>3. n + 1 \in Nat /\ (n + 1) + 1 = n + 2
    BY <1>2
  <2>4. /\ Opened(ctl', (n + 1) + 1) = Opened(ctl', n + 1)
        /\ Count(ctl', (n + 1) + 1, {"call"}) = Count(ctl', n + 1, {"call"})
    <3>1. ctl'[(n + 1) + 1].k = "body"
      BY <1>8, <2>3
    <3> QED BY <2>3, <3>1, MatchesNext
  <2> QED BY <1>1, <1>2, <1>6, <1>9, <2>1, <2>2, <2>3, <2>4 DEF Matches
<1>13. \A x \in J : x.body = ctl[n].rest /\ MustEnd(x) =>
         \E y \in n + 1 .. Len(ctl') : Ending(J, ctl'[y]) /\ \A j \in n + 1 .. y - 1 : Passed(ctl'[j])
  <2> SUFFICES ASSUME NEW x \in J, x.body = ctl[n].rest, MustEnd(x)
               PROVE  Ending(J, ctl'[n + 2]) /\ \A j \in n + 1 .. (n + 2) - 1 : Passed(ctl'[j])
    <3>1. n + 2 \in n + 1 .. Len(ctl')
      BY <1>2, <1>6
    <3> QED BY <3>1
  <2>1. Ending(J, ctl'[n + 2])
    BY <1>4, <1>5, <1>8 DEF Ending
  <2>2. \A j \in n + 1 .. (n + 2) - 1 : j = n + 1
    BY <1>2
  <2> QED BY <1>8, <2>1, <2>2 DEF Passed
<1>14. \A i \in n + 1 .. Len(ctl') : i = n + 1 \/ i = n + 2
  <2>1. Len(ctl') = n + 2
    BY <1>6
  <2> HIDE DEF n
  <2> QED BY <1>2, <2>1
<1>15. Len(ctl') \in Nat /\ Len(ctl') >= n
  BY <1>2, <1>6
<1>16. ~IsDecl(Stmt)
  BY <1>1 DEF IsDecl
<1> HIDE DEF n
<1> QED BY <1>1, <1>2, <1>6, <1>8, <1>9, <1>10, <1>11, <1>12, <1>13, <1>14, <1>15, <1>16, AdvancedStep DEF n

LEMMA JumpStep ==
  ASSUME NEW J, Judged(prog, nodeSym, J), IInv(J), Jump PROVE Stepped(J)
<1> DEFINE n == Len(ctl)
<1>1. /\ AtStmt /\ Stmt.kind \in {"break", "continue"} /\ ctl' = Advanced /\ flow' = Stmt.kind
      /\ UNCHANGED <<prog, nodeSym, frames, returnValue, out, env>>
  BY DEF Jump, Current
<1>2. /\ n \in Nat \ {0} /\ ctl # << >>
      /\ frames \in Seq(Seq(Binding)) /\ EnvOK(env)
      /\ Len(frames) = Opened(ctl, n) /\ Len(env) = 1 + Count(ctl, n, {"call"})
      /\ out \in Seq(Value) /\ returnValue \in Value \cup {Void}
  BY <1>1, AtTop, AtStatement DEF IInv, Typed
<1>3. PICK d \in J : d.body = ctl[n].rest /\ Fits(d, ctl, frames, n)
  BY <1>1, AtStatement
<1>4. d.loop /\ \A x \in J : x.body = ctl[n].rest => ~MustEnd(x)
  BY <1>1, <1>3, AtStatement
<1>5. /\ IsSeq(ctl') /\ Len(ctl') = n
      /\ \A i \in 1 .. n - 1 : ctl'[i] = ctl[i]
      /\ ctl'[n] = Body(Tail(ctl[n].rest))
      /\ \A i \in 1 .. n : ctl'[i].k = ctl[i].k
  BY <1>1, AdvancedTo
<1>6. Looped(ctl', n)
  <2>1. n \in 0 .. n
    BY <1>2
  <2> QED BY <1>2, <1>3, <1>4, <1>5, <2>1, Agreed DEF Fits
<1>7. Matches(ctl', frames', env')
  <2>1. Opened(ctl', n) = Opened(ctl, n) /\ Count(ctl', n, {"call"}) = Count(ctl, n, {"call"})
    BY <1>2, <1>5, MatchesSame
  <2> QED BY <1>1, <1>2, <1>5, <2>1 DEF Matches
<1>8. Grown(frames, frames', Opened(ctl, n))
  BY <1>1 DEF Grown
<1>9. ~IsDecl(Stmt) /\ flow' \in {"break", "continue"}
  BY <1>1 DEF IsDecl
<1>10. \A i \in n + 1 .. Len(ctl') : FALSE
  BY <1>2, <1>5
<1> HIDE DEF n
<1>11. /\ frames' \in Seq(Seq(Binding)) /\ EnvOK(env') /\ out' \in Seq(Value)
       /\ returnValue' \in Value \cup {Void}
  BY <1>1, <1>2
<1>12. /\ Looped(ctl', Len(ctl')) /\ flow' # "return"
       /\ flow' \in {"normal", "return", "break", "continue"}
       /\ Len(ctl') \in Nat /\ Len(ctl') >= n
  BY <1>2, <1>5, <1>6, <1>9
<1> QED BY <1>1, <1>4, <1>5, <1>7, <1>8, <1>9, <1>10, <1>11, <1>12, AdvancedStep DEF n

LEMMA CallStep ==
  ASSUME NEW J, Judged(prog, nodeSym, J), IInv(J), Call PROVE Stepped(J)
<1> DEFINE n == Len(ctl)
           it == [k |-> "call", s |-> Stmt]
           b == prog[2].body
           arg == IntVal(Stmt.e.n) + Stmt.e.v
           p == prog[2].params[1]
           fr == <<[name |-> p, val |-> arg]>>
           o == OfFunction(prog[2], 2)
<1>1. /\ AtStmt /\ Stmt.e.op = "call" /\ arg <= MaxInt
      /\ frames' = Append(frames, fr) /\ env' = Append(env, [y \in {<<2>>} |-> arg])
      /\ ctl' = Advanced \o <<it, Body(b)>>
      /\ flow' = "normal" /\ returnValue' = Void
      /\ UNCHANGED <<prog, nodeSym, out>>
  BY DEF Call
<1>2. /\ n \in Nat \ {0} /\ ctl # << >>
      /\ frames \in Seq(Seq(Binding)) /\ EnvOK(env)
      /\ Len(frames) = Opened(ctl, n) /\ Len(env) = 1 + Count(ctl, n, {"call"})
      /\ out \in Seq(Value)
  BY <1>1, AtTop, AtStatement DEF IInv, Typed
<1>3. PICK d \in J : d.body = ctl[n].rest /\ Fits(d, ctl, frames, n)
  BY <1>1, AtStatement
<1>4. Shaped(Stmt, Callable(prog))
  BY <1>1, <1>3, AtStatement
<1>5. /\ Stmt.kind \in Simples /\ Stmt.e.v \in Nat /\ p \in STRING
      /\ Callable(prog) /\ ~prog[2].void /\ DOMAIN prog[2].params = {1}
  BY <1>1, <1>4 DEF Shaped, Callable, Simples
<1>6. arg \in Value
  <2>1. IntVal(Stmt.e.n) \in Nat
    BY <1>2, LookOK
  <2>2. arg \in Nat
    BY <1>5, <2>1
  <2> QED BY <1>1, <2>2, InterpAssumption DEF Value
<1>7. o \in J /\ o.body = b /\ DOMAIN o.sym = {p} /\ o.loop = FALSE /\ o.void = prog[2].void /\ o.ends = TRUE
  <2>1. o \in J
    BY <1>5 DEF Judged
  <2>2. {prog[2].params[i] : i \in DOMAIN prog[2].params} = {p}
    BY <1>5
  <2> QED BY <1>5, <2>1, <2>2 DEF OfFunction, Judgement
<1> HIDE DEF arg, o, b
<1>8. fr \in Seq(Binding) /\ Has(fr, p)
  <2>1. [name |-> p, val |-> arg] \in Binding
    BY <1>5, <1>6 DEF Binding
  <2>2. 1 \in DOMAIN fr /\ fr[1].name = p
    OBVIOUS
  <2> QED BY <2>1, <2>2 DEF Has
<1>it. it.k = "call" /\ it.s = Stmt
  OBVIOUS
<1> HIDE DEF it, fr, p
<1>9. /\ IsSeq(ctl') /\ Len(ctl') = n + 2
      /\ \A i \in 1 .. n - 1 : ctl'[i] = ctl[i]
      /\ ctl'[n] = Body(Tail(ctl[n].rest))
      /\ \A i \in 1 .. n : ctl'[i].k = ctl[i].k
      /\ ctl'[n + 1] = it /\ ctl'[n + 2] = Body(b)
  BY <1>1, AdvancedAndPushed
<1>10. /\ ctl'[n + 1].k = "call" /\ ctl'[n + 1].s = Stmt
       /\ ctl'[n + 2].k = "body" /\ ctl'[n + 2].rest = b
  BY <1>9, <1>it DEF Body
<1>11. /\ frames' \in Seq(Seq(Binding)) /\ Len(frames') = Len(frames) + 1
       /\ Grown(frames, frames', Opened(ctl, n)) /\ frames'[Len(frames')] = fr
  BY <1>1, <1>2, <1>8, FramePushed
<1>12. EnvOK(env') /\ Len(env') = Len(env) + 1
  BY <1>1, <1>2, <1>6, EnvPushed
<1>13. (n + 1) + 1 = n + 2 /\ n + 1 \in Nat /\ n + 2 \in Nat /\ n \in Nat
  BY <1>2
<1>14. /\ Opened(ctl', n + 2) = Opened(ctl, n) + 1
       /\ Count(ctl', n + 2, {"call"}) = Count(ctl, n, {"call"}) + 1
  <2>1. Opened(ctl', n) = Opened(ctl, n) /\ Count(ctl', n, {"call"}) = Count(ctl, n, {"call"})
    BY <1>9, <1>13, MatchesSame
  <2>2. Opened(ctl', n + 1) = Opened(ctl', n) + 1 /\ Count(ctl', n + 1, {"call"}) = Count(ctl', n, {"call"}) + 1
    BY <1>10, <1>13, MatchesNext
  <2>3. /\ Opened(ctl', (n + 1) + 1) = Opened(ctl', n + 1)
        /\ Count(ctl', (n + 1) + 1, {"call"}) = Count(ctl', n + 1, {"call"})
    <3>1. ctl'[(n + 1) + 1].k = "body"
      BY <1>10, <1>13
    <3> QED BY <1>13, <3>1, MatchesNext
  <2> QED BY <1>13, <2>1, <2>2, <2>3
<1>15. Matches(ctl', frames', env')
  <2>1. Count(ctl, n, {"call"}) \in Nat /\ Opened(ctl, n) \in Nat
    BY <1>13, MatchesMore
  <2> QED BY <1>2, <1>9, <1>11, <1>12, <1>14, <2>1 DEF Matches
<1>16. ItemOK(J, ctl', frames', n + 1)
  BY <1>1, <1>4, <1>10 DEF ItemOK
<1>17. ItemOK(J, ctl', frames', n + 2)
  <2>1. Seen(p, ctl', frames', n + 2)
    <3>1. Has(frames'[Opened(ctl', n + 2)], p)
      BY <1>2, <1>8, <1>11, <1>14
    <3> QED BY <1>13, <3>1, SeenHere
  <2>2. CallIn(ctl', n + 2)
    <3>1. n + 1 \in 1 .. n + 2
      BY <1>2
    <3> QED BY <1>10, <3>1 DEF CallIn
  <2>3. Fits(o, ctl', frames', n + 2)
    BY <1>7, <2>1, <2>2 DEF Fits
  <2> QED BY <1>7, <1>10, <2>3 DEF ItemOK
<1>18. Ends(J, ctl', n + 1)
  <2>1. Ending(J, ctl'[n + 2])
    BY <1>7, <1>10 DEF Ending
  <2>2. n + 2 \in (n + 1) + 1 .. Len(ctl') /\ (n + 1) + 1 .. (n + 2) - 1 = {}
    <3>1. Len(ctl') = n + 2
      BY <1>9
    <3> HIDE DEF n
    <3> QED BY <1>2, <3>1
  <2> QED BY <2>1, <2>2 DEF Ends
<1>19. \A x \in J : x.body = ctl[n].rest /\ MustEnd(x) =>
         \E y \in n + 1 .. Len(ctl') : Ending(J, ctl'[y]) /\ \A j \in n + 1 .. y - 1 : Passed(ctl'[j])
  <2> SUFFICES ASSUME NEW x \in J, x.body = ctl[n].rest, MustEnd(x) PROVE Ending(J, ctl'[n + 1])
    <3>1. n + 1 \in n + 1 .. Len(ctl') /\ n + 1 .. (n + 1) - 1 = {}
      <4>1. Len(ctl') = n + 2
        BY <1>9
      <4> HIDE DEF n
      <4> QED BY <1>2, <4>1
    <3> QED BY <3>1
  <2>1. Stmt.kind = "return"
    BY <1>1, <1>5, AtStatement DEF Simples
  <2> QED BY <1>10, <2>1 DEF Ending
<1>20. IsDecl(Stmt) => Stmt.name \in Owed(ctl', n)
  <2>1. n < Len(ctl')
    <3>1. Len(ctl') = n + 2
      BY <1>9
    <3> HIDE DEF n
    <3> QED BY <1>2, <3>1
  <2> QED BY <1>10, <2>1 DEF Owed
<1>21. \A i \in n + 1 .. Len(ctl') : i = n + 1 \/ i = n + 2
  <2>1. Len(ctl') = n + 2
    BY <1>9
  <2> HIDE DEF n
  <2> QED BY <1>2, <2>1
<1>22. Len(ctl') \in Nat /\ Len(ctl') >= n
  <2>1. Len(ctl') = n + 2
    BY <1>9
  <2> HIDE DEF n
  <2> QED BY <1>2, <2>1
<1>23. \A i \in n + 1 .. Len(ctl') :
         /\ ctl'[i].k # "deliver" /\ ItemOK(J, ctl', frames', i)
         /\ ctl'[i].k = "call" => Ends(J, ctl', i)
  BY <1>10, <1>16, <1>17, <1>18, <1>21
<1> HIDE DEF n
<1> QED BY <1>1, <1>2, <1>9, <1>11, <1>12, <1>15, <1>19, <1>20, <1>22, <1>23, AdvancedStep DEF n

LEMMA PoppedCounts ==
  ASSUME NEW c, IsSeq(c), c # << >>
  PROVE  LET e == Front(c)
             n == Len(c)
         IN  /\ n - 1 \in Nat /\ (n - 1) + 1 = n /\ Len(e) = n - 1
             /\ Opened(e, n - 1) = Opened(c, n - 1) /\ Count(e, n - 1, {"call"}) = Count(c, n - 1, {"call"})
             /\ c[n].k \notin {"call", "block"} =>
                  Opened(c, n) = Opened(e, n - 1) /\ Count(c, n, {"call"}) = Count(e, n - 1, {"call"})
             /\ c[n].k = "block" =>
                  Opened(c, n) = Opened(e, n - 1) + 1 /\ Count(c, n, {"call"}) = Count(e, n - 1, {"call"})
             /\ c[n].k = "call" =>
                  Opened(c, n) = Opened(e, n - 1) + 1 /\ Count(c, n, {"call"}) = Count(e, n - 1, {"call"}) + 1
<1> DEFINE e == Front(c)
           m == Len(c) - 1
<1>1. /\ Len(e) = Len(c) - 1 /\ Len(c) \in Nat \ {0}
      /\ \A i \in 1 .. Len(c) - 1 : e[i] = c[i]
  BY Popped
<1>2. m \in Nat /\ m + 1 = Len(c)
  BY <1>1
<1> HIDE DEF e
<1>3. Opened(e, m) = Opened(c, m) /\ Count(e, m, {"call"}) = Count(c, m, {"call"})
  BY <1>1, <1>2, MatchesSame
<1>4. /\ c[m + 1].k \notin {"call", "block"} =>
           Opened(c, m + 1) = Opened(c, m) /\ Count(c, m + 1, {"call"}) = Count(c, m, {"call"})
      /\ c[m + 1].k = "block" =>
           Opened(c, m + 1) = Opened(c, m) + 1 /\ Count(c, m + 1, {"call"}) = Count(c, m, {"call"})
      /\ c[m + 1].k = "call" =>
           Opened(c, m + 1) = Opened(c, m) + 1 /\ Count(c, m + 1, {"call"}) = Count(c, m, {"call"}) + 1
  <2> HIDE DEF m
  <2> QED BY <1>2, MatchesNext
<1> QED BY <1>1, <1>2, <1>3, <1>4 DEF e

\* A step that only takes the top away.
LEMMA PoppedStep ==
  ASSUME NEW J, Judged(prog, nodeSym, J), IInv(J), ctl # << >>, ctl' = Front(ctl),
         frames' \in Seq(Seq(Binding)), EnvOK(env'), out' \in Seq(Value),
         returnValue' \in Value \cup {Void},
         Len(frames') = Opened(ctl', Len(ctl')), Len(env') = 1 + Count(ctl', Len(ctl'), {"call"}),
         Grown(frames, frames', Opened(ctl, Len(ctl) - 1)),
         \A x \in Owed(ctl, Len(ctl) - 1) : Seen(x, ctl', frames', Len(ctl) - 1),
         flow = "return" => flow' = "return", ctl[Len(ctl)].k # "call",
         \A i \in 1 .. Len(ctl) - 1 : ctl[i].k = "call" /\ Ending(J, ctl[Len(ctl)])
             /\ (\A j \in i + 1 .. Len(ctl) - 1 : Passed(ctl[j])) => flow' = "return",
         flow' \in {"normal", "return", "break", "continue"},
         flow' \in {"break", "continue"} => flow' = flow /\ ctl[Len(ctl)].k # "while",
         flow' = "return" /\ CallIn(ctl, Len(ctl)) => returnValue' \in Value
  PROVE  Stepped(J)
<1>1. IsSeq(ctl) /\ Items(J, ctl, frames) /\ Endings(J, ctl, flow) /\ FlowOK(ctl, flow, returnValue)
  BY DEF IInv, Typed
<1>2. IsSeq(ctl')
  BY <1>1, Popped
<1>3. Items(J, ctl', frames')
  BY <1>1, ItemsPopped
<1>4. Endings(J, ctl', flow')
  BY <1>1, EndingsPopped
<1>5. FlowOK(ctl', flow', returnValue')
  BY <1>1, FlowPopped
<1> QED BY <1>2, <1>3, <1>4, <1>5 DEF Stepped, Typed, Matches

\* The same where frames and calls stay as they are.
LEMMA PoppedPlain ==
  ASSUME NEW J, IInv(J), ctl # << >>, ctl' = Front(ctl),
         ctl[Len(ctl)].k \in {"body", "while"}, UNCHANGED <<frames, env, out, returnValue>>
  PROVE  /\ frames' \in Seq(Seq(Binding)) /\ EnvOK(env') /\ out' \in Seq(Value)
         /\ returnValue' \in Value \cup {Void}
         /\ Len(frames') = Opened(ctl', Len(ctl')) /\ Len(env') = 1 + Count(ctl', Len(ctl'), {"call"})
         /\ Grown(frames, frames', Opened(ctl, Len(ctl) - 1))
         /\ \A x \in Owed(ctl, Len(ctl) - 1) : Seen(x, ctl', frames', Len(ctl) - 1)
<1>1. /\ IsSeq(ctl) /\ Len(frames) = Opened(ctl, Len(ctl))
      /\ Len(env) = 1 + Count(ctl, Len(ctl), {"call"})
      /\ frames \in Seq(Seq(Binding)) /\ EnvOK(env) /\ out \in Seq(Value)
      /\ returnValue \in Value \cup {Void}
  BY AtTop DEF IInv, Typed
<1>2. /\ (Len(ctl) - 1) + 1 = Len(ctl) /\ Len(ctl') = Len(ctl) - 1
      /\ Opened(ctl, Len(ctl)) = Opened(ctl', Len(ctl) - 1)
      /\ Count(ctl, Len(ctl), {"call"}) = Count(ctl', Len(ctl) - 1, {"call"})
  BY <1>1, PoppedCounts
<1>3. Owed(ctl, Len(ctl) - 1) = {}
  BY <1>2 DEF Owed
<1>4. Grown(frames, frames', Opened(ctl, Len(ctl) - 1))
  BY DEF Grown
<1> QED BY <1>1, <1>2, <1>3, <1>4

LEMMA EndBodyStep ==
  ASSUME NEW J, Judged(prog, nodeSym, J), IInv(J), EndBody PROVE Stepped(J)
<1> DEFINE n == Len(ctl)
<1>1. /\ ctl # << >> /\ Top.k = "body" /\ (flow # "normal" \/ Top.rest = << >>)
      /\ ctl' = Front(ctl)
      /\ UNCHANGED <<prog, nodeSym, frames, flow, returnValue, out, env>>
  BY DEF EndBody
<1>2. IsSeq(ctl) /\ n \in Nat \ {0} /\ Top = ctl[n]
  BY <1>1, AtTop
<1>3. FlowOK(ctl, flow, returnValue)
  BY DEF IInv
<1>4. ASSUME NEW i \in 1 .. n - 1, ctl[i].k = "call", Ending(J, ctl[n]),
             \A j \in i + 1 .. n - 1 : Passed(ctl[j])
      PROVE  flow = "return"
  <2>1. PICK d \in J : d.body = ctl[n].rest /\ d.ends
    BY <1>1, <1>2, <1>4 DEF Ending
  <2>2. ctl[n].rest # << >>
    BY <2>1 DEF Judged, Kept
  <2>3. flow # "normal"
    BY <1>1, <1>2, <2>2
  <2>4. ~Looped(ctl, n)
    <3> SUFFICES ASSUME NEW w \in 1 .. n, ctl[w].k = "while", \A k \in w + 1 .. n : ctl[k].k # "call"
                 PROVE  FALSE
      BY DEF Looped
    <3>1. w # n /\ w # i
      BY <1>1, <1>2, <1>4
    <3>2. CASE w < i
      <4>1. i \in w + 1 .. n
        BY <1>2, <3>2
      <4> QED BY <1>4, <4>1
    <3>3. CASE w > i
      <4>1. w \in i + 1 .. n - 1
        BY <1>2, <3>1, <3>3
      <4> QED BY <1>4, <4>1, PassedKinds
    <3> QED BY <1>2, <3>1, <3>2, <3>3
  <2> QED BY <1>3, <2>3, <2>4 DEF FlowOK
<1>5. ctl[n].k = "body" /\ flow' = flow
  BY <1>1, <1>2
<1>6. /\ frames' \in Seq(Seq(Binding)) /\ EnvOK(env') /\ out' \in Seq(Value)
      /\ returnValue' \in Value \cup {Void}
      /\ Len(frames') = Opened(ctl', Len(ctl')) /\ Len(env') = 1 + Count(ctl', Len(ctl'), {"call"})
      /\ Grown(frames, frames', Opened(ctl, n - 1))
      /\ \A x \in Owed(ctl, n - 1) : Seen(x, ctl', frames', n - 1)
  BY <1>1, <1>5, PoppedPlain
<1>7. /\ flow \in {"normal", "return", "break", "continue"}
      /\ flow = "return" /\ CallIn(ctl, n) => returnValue' \in Value
  BY <1>1, <1>3 DEF FlowOK
<1> QED BY <1>1, <1>4, <1>5, <1>6, <1>7, PoppedStep

LEMMA EndLoopStep ==
  ASSUME NEW J, Judged(prog, nodeSym, J), IInv(J), EndLoop PROVE Stepped(J)
<1> DEFINE n == Len(ctl)
<1>1. /\ ctl # << >> /\ Top.k = "while" /\ flow \in {"break", "return"}
      /\ flow' = (IF flow = "break" THEN "normal" ELSE flow) /\ ctl' = Front(ctl)
      /\ UNCHANGED <<prog, nodeSym, frames, returnValue, out, env>>
  BY DEF EndLoop, AtLoop
<1>2. Top = ctl[n] /\ FlowOK(ctl, flow, returnValue)
  BY <1>1, AtTop DEF IInv
<1>3. ctl[n].k = "while" /\ ~Ending(J, ctl[n])
  BY <1>1, <1>2 DEF Ending
<1>4. /\ frames' \in Seq(Seq(Binding)) /\ EnvOK(env') /\ out' \in Seq(Value)
      /\ returnValue' \in Value \cup {Void}
      /\ Len(frames') = Opened(ctl', Len(ctl')) /\ Len(env') = 1 + Count(ctl', Len(ctl'), {"call"})
      /\ Grown(frames, frames', Opened(ctl, n - 1))
      /\ \A x \in Owed(ctl, n - 1) : Seen(x, ctl', frames', n - 1)
  BY <1>1, <1>3, PoppedPlain
<1>5. /\ flow' \in {"normal", "return"} /\ (flow = "return" => flow' = "return")
      /\ flow' = "return" /\ CallIn(ctl, n) => returnValue' \in Value
  BY <1>1, <1>2 DEF FlowOK
<1> QED BY <1>1, <1>3, <1>4, <1>5, PoppedStep

LEMMA EndBlockStep ==
  ASSUME NEW J, Judged(prog, nodeSym, J), IInv(J), EndBlock PROVE Stepped(J)
<1> DEFINE n == Len(ctl)
<1>1. /\ ctl # << >> /\ Top.k = "block" /\ frames' = Front(frames) /\ ctl' = Front(ctl)
      /\ UNCHANGED <<prog, nodeSym, flow, returnValue, out, env>>
  BY DEF EndBlock
<1>2. /\ IsSeq(ctl) /\ Top = ctl[n] /\ FlowOK(ctl, flow, returnValue)
      /\ Len(frames) = Opened(ctl, n) /\ Len(env) = 1 + Count(ctl, n, {"call"})
      /\ frames \in Seq(Seq(Binding)) /\ frames # << >> /\ EnvOK(env) /\ out \in Seq(Value)
      /\ returnValue \in Value \cup {Void}
  BY <1>1, AtTop DEF IInv, Typed
<1>3. ctl[n].k = "block" /\ ~Ending(J, ctl[n])
  BY <1>1, <1>2 DEF Ending
<1>4. /\ frames' \in Seq(Seq(Binding)) /\ Len(frames') = Len(frames) - 1
      /\ Grown(frames, frames', Len(frames'))
  BY <1>1, <1>2, FramePopped
<1>5. /\ (n - 1) + 1 = n /\ n - 1 \in Nat /\ Len(ctl') = n - 1
      /\ Opened(ctl, n) = Opened(ctl', n - 1) + 1 /\ Opened(ctl', n - 1) = Opened(ctl, n - 1)
      /\ Count(ctl, n, {"call"}) = Count(ctl', n - 1, {"call"})
  BY <1>1, <1>2, <1>3, PoppedCounts
<1>6. Opened(ctl, n - 1) \in Nat
  BY <1>5, MatchesMore
<1>7. Len(frames') = Opened(ctl', Len(ctl')) /\ Len(env') = 1 + Count(ctl', Len(ctl'), {"call"})
  BY <1>1, <1>2, <1>4, <1>5, <1>6
<1>8. Owed(ctl, n - 1) = {}
  BY <1>3, <1>5 DEF Owed
<1>9. Grown(frames, frames', Opened(ctl, n - 1))
  BY <1>4, <1>5, <1>7
<1>10. EnvOK(env') /\ out' \in Seq(Value) /\ returnValue' \in Value \cup {Void} /\ flow' = flow
  BY <1>1, <1>2
<1>11. /\ flow' \in {"normal", "return", "break", "continue"}
       /\ flow' = "return" /\ CallIn(ctl, n) => returnValue' \in Value
  BY <1>1, <1>2 DEF FlowOK
<1> QED BY <1>1, <1>3, <1>4, <1>7, <1>8, <1>9, <1>10, <1>11, PoppedStep

LEMMA DeliverStep ==
  ASSUME NEW J, Judged(prog, nodeSym, J), IInv(J), Deliver PROVE Stepped(J)
<1> DEFINE n == Len(ctl)
           s == ctl[n].s
<1>1. /\ ctl # << >> /\ Top.k = "deliver" /\ Finish(Top.s, returnValue, Front(ctl))
      /\ UNCHANGED <<prog, nodeSym>>
  BY DEF Deliver
<1>2. /\ IsSeq(ctl) /\ Top = ctl[n] /\ FlowOK(ctl, flow, returnValue) /\ ItemOK(J, ctl, frames, n)
      /\ n \in Nat \ {0} /\ Len(frames) = Opened(ctl, n) /\ Len(env) = 1 + Count(ctl, n, {"call"})
      /\ frames # << >> /\ env # << >> /\ Typed
  BY <1>1, AtTop DEF IInv
<1>3. ctl[n].k = "deliver" /\ Finish(s, returnValue, Front(ctl))
  BY <1>1, <1>2
<1>4. s.e.op = "call" /\ Shaped(s, Callable(prog))
  BY <1>2, <1>3 DEF ItemOK
<1>5. s.kind \in Simples /\ s.name \in STRING
  BY <1>4 DEF Shaped, Simples
<1>6. flow = "normal" /\ returnValue \in Value
  <2>1. n \in 1 .. n
    BY <1>2
  <2> QED BY <1>2, <1>3, <2>1 DEF FlowOK
<1> HIDE DEF s
<1>7. /\ ctl' = Front(ctl)
      /\ frames' \in Seq(Seq(Binding)) /\ Len(frames') = Len(frames)
      /\ Grown(frames, frames', Len(frames))
      /\ IsDecl(s) => Has(frames'[Len(frames)], s.name)
      /\ EnvOK(env') /\ Len(env') = Len(env)
      /\ out' \in Seq(Value) /\ returnValue' \in Value \cup {Void}
      /\ s.kind = "return" => flow' = "return" /\ returnValue' = returnValue
      /\ s.kind # "return" => flow' = flow /\ returnValue' = returnValue
  BY <1>2, <1>3, <1>5, <1>6, FinishOK
<1>8. /\ (n - 1) + 1 = n /\ n - 1 \in Nat /\ Len(ctl') = n - 1
      /\ Opened(ctl, n) = Opened(ctl', n - 1) /\ Opened(ctl', n - 1) = Opened(ctl, n - 1)
      /\ Count(ctl, n, {"call"}) = Count(ctl', n - 1, {"call"})
  BY <1>1, <1>2, <1>3, <1>7, PoppedCounts
<1>9. Len(frames') = Opened(ctl', Len(ctl')) /\ Len(env') = 1 + Count(ctl', Len(ctl'), {"call"})
  BY <1>2, <1>7, <1>8
<1>10. Grown(frames, frames', Opened(ctl, n - 1))
  BY <1>2, <1>7, <1>8
<1>11. \A x \in Owed(ctl, n - 1) : Seen(x, ctl', frames', n - 1)
  <2> SUFFICES ASSUME NEW x \in Owed(ctl, n - 1) PROVE Seen(x, ctl', frames', n - 1)
    OBVIOUS
  <2>1. IsDecl(s) /\ x = s.name
    BY <1>8 DEF Owed, s
  <2>2. Has(frames'[Opened(ctl', n - 1)], x)
    BY <1>2, <1>7, <1>8, <2>1
  <2> QED BY <1>8, <2>2, SeenHere
<1>12. Ending(J, ctl[n]) => flow' = "return"
  BY <1>3, <1>7 DEF Ending, s
<1>13. /\ flow' \in {"normal", "return"} /\ flow # "return" /\ ctl[n].k # "call"
       /\ returnValue' \in Value
  BY <1>3, <1>6, <1>7
<1> QED BY <1>1, <1>7, <1>9, <1>10, <1>11, <1>12, <1>13, PoppedStep

\* A call ends by a return of its own, with the value of that return.
LEMMA ReturnHasValue ==
  ASSUME NEW J, IInv(J), AtReturn PROVE flow = "return" /\ returnValue \in Value
<1> DEFINE n == Len(ctl)
<1>1. n \in Nat \ {0} /\ ctl[n].k = "call"
  BY AtTop DEF AtReturn
<1>2. Endings(J, ctl, flow) /\ FlowOK(ctl, flow, returnValue)
  BY DEF IInv
<1>3. n \in 1 .. n /\ n + 1 .. n = {}
  BY <1>1
<1>4. flow = "return"
  BY <1>1, <1>2, <1>3 DEF Endings, Ends
<1>5. CallIn(ctl, n)
  BY <1>1, <1>3 DEF CallIn
<1> QED BY <1>2, <1>4, <1>5 DEF FlowOK

LEMMA ReturnStep ==
  ASSUME NEW J, Judged(prog, nodeSym, J), IInv(J), Return PROVE Stepped(J)
<1> DEFINE n == Len(ctl)
           it == [k |-> "deliver", s |-> Top.s]
           e == Append(Front(ctl), it)
<1>1. /\ AtReturn /\ ctl # << >> /\ frames' = Front(frames) /\ env' = Front(env)
      /\ flow' = "normal" /\ ctl' = e /\ UNCHANGED <<prog, nodeSym, returnValue, out>>
  BY DEF Return, AtReturn
<1>2. /\ IsSeq(ctl) /\ Top = ctl[n] /\ ItemOK(J, ctl, frames, n)
      /\ n \in Nat \ {0} /\ Len(frames) = Opened(ctl, n) /\ Len(env) = 1 + Count(ctl, n, {"call"})
      /\ frames \in Seq(Seq(Binding)) /\ frames # << >> /\ EnvOK(env) /\ env # << >>
      /\ out \in Seq(Value) /\ returnValue \in Value \cup {Void}
  BY <1>1, AtTop DEF IInv, Typed
<1>3. Items(J, ctl, frames) /\ Endings(J, ctl, flow) /\ FlowOK(ctl, flow, returnValue)
  BY DEF IInv
<1>4. flow = "return" /\ returnValue \in Value
  BY <1>1, ReturnHasValue
<1>5. ctl[n].k = "call"
  BY <1>1, <1>2 DEF AtReturn
<1>6. it.k = "deliver" /\ it.s = ctl[n].s
  BY <1>2
<1> HIDE DEF it
<1>7. /\ IsSeq(ctl') /\ Len(ctl') = n
      /\ \A i \in 1 .. n - 1 : ctl'[i] = ctl[i]
      /\ ctl'[n] = it
  <2>1. ctl' = Append(Front(ctl), it) /\ IsSeq(ctl) /\ ctl # << >>
    BY <1>1, <1>2
  <2> HIDE DEF e
  <2> QED BY <2>1, Replaced
<1> HIDE DEF e
<1>8. /\ n - 1 \in Nat /\ (n - 1) + 1 = n /\ n - 1 < n /\ n - 1 <= Len(ctl) /\ n - 1 <= Len(ctl')
      /\ Len(ctl) \in Nat /\ Len(ctl') \in Nat
  BY <1>2, <1>7
<1>9. /\ frames' \in Seq(Seq(Binding)) /\ Len(frames') = Len(frames) - 1
      /\ Grown(frames, frames', Len(frames'))
  BY <1>1, <1>2, FramePopped
<1>10. EnvOK(env') /\ Len(env') = Len(env) - 1
  BY <1>1, <1>2, EnvPopped
<1>11. /\ Opened(ctl, n) = Opened(ctl, n - 1) + 1 /\ Opened(ctl', n) = Opened(ctl, n - 1)
       /\ Count(ctl, n, {"call"}) = Count(ctl, n - 1, {"call"}) + 1
       /\ Count(ctl', n, {"call"}) = Count(ctl, n - 1, {"call"})
       /\ Opened(ctl, n - 1) \in Nat /\ Count(ctl, n - 1, {"call"}) \in Nat
  <2>1. /\ Opened(ctl', n - 1) = Opened(ctl, n - 1)
        /\ Count(ctl', n - 1, {"call"}) = Count(ctl, n - 1, {"call"})
    BY <1>7, <1>8, MatchesSame
  <2> DEFINE m == n - 1
  <2>2. m \in Nat /\ m + 1 = n /\ ctl[m + 1].k = "call" /\ ctl'[m + 1].k = "deliver"
    BY <1>5, <1>6, <1>7, <1>8
  <2> HIDE DEF m
  <2>3. /\ Opened(ctl, m + 1) = Opened(ctl, m) + 1
        /\ Count(ctl, m + 1, {"call"}) = Count(ctl, m, {"call"}) + 1
    BY <2>2, MatchesNext
  <2>4. /\ Opened(ctl', m + 1) = Opened(ctl', m)
        /\ Count(ctl', m + 1, {"call"}) = Count(ctl', m, {"call"})
    BY <2>2, MatchesNext
  <2>5. Opened(ctl, m) \in Nat /\ Count(ctl, m, {"call"}) \in Nat
    BY <2>2, MatchesMore
  <2> QED BY <2>1, <2>2, <2>3, <2>4, <2>5 DEF m
<1>12. Matches(ctl', frames', env')
  <2>1. Len(frames') = Opened(ctl', n)
    BY <1>2, <1>9, <1>11
  <2>2. Len(env') = 1 + Count(ctl', n, {"call"})
    BY <1>2, <1>10, <1>11
  <2> QED BY <1>7, <2>1, <2>2 DEF Matches
<1>13. Items(J, ctl', frames')
  <2>1. Owed(ctl, n - 1) = Owed(ctl', n - 1)
    BY <1>5, <1>6, <1>7, <1>8 DEF Owed
  <2>2. Grown(frames, frames', Opened(ctl, n - 1))
    <3>1. Len(frames') = Opened(ctl, n - 1)
      BY <1>2, <1>9, <1>11
    <3> QED BY <1>9, <3>1
  <2>3. \A i \in 1 .. n - 1 : ItemOK(J, ctl', frames', i)
    BY <1>3, <1>7, <1>8, <2>1, <2>2, ItemsKept
  <2>4. ItemOK(J, ctl', frames', n)
    BY <1>2, <1>5, <1>6, <1>7 DEF ItemOK
  <2>5. \A i \in 1 .. n : i \in 1 .. n - 1 \/ i = n
    BY <1>2
  <2> QED BY <1>7, <2>3, <2>4, <2>5 DEF Items
<1>14. Endings(J, ctl', flow')
  <2> SUFFICES ASSUME NEW i \in 1 .. n, ctl'[i].k = "call" PROVE Ends(J, ctl', i)
    BY <1>7 DEF Endings
  <2>1. i \in 1 .. n - 1 /\ ctl[i].k = "call"
    BY <1>2, <1>6, <1>7
  <2>2. ~LastCall(ctl, i)
    <3>1. n \in i + 1 .. n
      BY <1>2, <2>1
    <3> QED BY <1>5, <3>1 DEF LastCall
  <2>3. PICK x \in i + 1 .. n : Ending(J, ctl[x]) /\ \A j \in i + 1 .. x - 1 : Passed(ctl[j])
    BY <1>2, <1>3, <2>1, <2>2 DEF Endings, Ends
  <2>4. CASE x \in i + 1 .. n - 1
    BY <1>7, <1>8, <2>1, <2>3, <2>4, EndsBelow
  <2>5. CASE x = n
    <3>1. Ending(J, ctl'[n])
      BY <1>5, <1>6, <1>7, <2>3, <2>5 DEF Ending
    <3>2. \A j \in i + 1 .. n - 1 : Passed(ctl'[j])
      <4>1. \A j \in i + 1 .. n - 1 : j \in 1 .. n - 1
        BY <2>1
      <4> QED BY <1>7, <2>3, <2>5, <4>1
    <3>3. n \in i + 1 .. Len(ctl')
      BY <1>2, <1>7, <2>1
    <3> QED BY <3>1, <3>2, <3>3 DEF Ends
  <2> QED BY <1>2, <2>3, <2>4, <2>5
<1>15. FlowOK(ctl', flow', returnValue')
  <2>1. \A i \in 1 .. n : ctl'[i].k = "deliver" => i = n
    <3> SUFFICES ASSUME NEW i \in 1 .. n - 1 PROVE ctl'[i].k # "deliver"
      BY <1>2
    <3>1. i \in 1 .. n /\ i # n
      BY <1>2
    <3> QED BY <1>3, <1>7, <3>1 DEF FlowOK
  <2> QED BY <1>1, <1>4, <1>7, <2>1 DEF FlowOK
<1> QED BY <1>1, <1>2, <1>7, <1>9, <1>10, <1>12, <1>13, <1>14, <1>15 DEF Stepped, Typed

LEMMA TurnStep ==
  ASSUME NEW J, Judged(prog, nodeSym, J), IInv(J), Turn PROVE Stepped(J)
<1> DEFINE n == Len(ctl)
           s == ctl[n].s
           t == Body(s.then)
<1>1. /\ ctl # << >> /\ Top.k = "while" /\ flow \in {"normal", "continue"} /\ flow' = "normal"
      /\ (ctl' = Append(ctl, Body(Top.s.then)) \/ ctl' = Front(ctl))
      /\ UNCHANGED <<prog, nodeSym, frames, returnValue, out, env>>
  BY DEF Turn, AtLoop
<1>2. /\ IsSeq(ctl) /\ Top = ctl[n] /\ ItemOK(J, ctl, frames, n)
      /\ n \in Nat \ {0} /\ Len(frames) = Opened(ctl, n) /\ Len(env) = 1 + Count(ctl, n, {"call"})
      /\ frames \in Seq(Seq(Binding)) /\ EnvOK(env)
      /\ out \in Seq(Value) /\ returnValue \in Value \cup {Void} /\ Owed(ctl, n) = {}
  BY <1>1, AtTop DEF IInv, Typed
<1>3. Items(J, ctl, frames) /\ Endings(J, ctl, flow) /\ FlowOK(ctl, flow, returnValue)
  BY DEF IInv
<1>4. ctl[n].k = "while" /\ ~Ending(J, ctl[n])
  BY <1>1, <1>2 DEF Ending
<1>5. CASE ctl' = Front(ctl)
  <2>1. /\ frames' \in Seq(Seq(Binding)) /\ EnvOK(env') /\ out' \in Seq(Value)
        /\ returnValue' \in Value \cup {Void}
        /\ Len(frames') = Opened(ctl', Len(ctl')) /\ Len(env') = 1 + Count(ctl', Len(ctl'), {"call"})
        /\ Grown(frames, frames', Opened(ctl, n - 1))
        /\ \A x \in Owed(ctl, n - 1) : Seen(x, ctl', frames', n - 1)
    BY <1>1, <1>4, <1>5, PoppedPlain
  <2> QED BY <1>1, <1>4, <1>5, <2>1, PoppedStep
<1>6. CASE ctl' = Append(ctl, Body(Top.s.then))
  <2>1. t.k = "body" /\ t.rest = s.then
    BY DEF Body
  <2>2. ctl' = Append(ctl, t)
    BY <1>2, <1>6
  <2> HIDE DEF t
  <2>3. /\ IsSeq(ctl') /\ Len(ctl') = n + 1
        /\ \A i \in 1 .. n : ctl'[i] = ctl[i]
        /\ ctl'[n + 1] = t
    BY <1>2, <2>2, Pushed
  <2>4. PICK d \in J : d.body # << >> /\ Head(d.body) = s /\ s.kind = "while" /\ Fits(d, ctl, frames, n)
    BY <1>2, <1>4 DEF ItemOK
  <2> DEFINE b == Inside(d, s.then)
  <2>5. b \in J /\ b.body = s.then /\ b.sym = d.sym /\ b.void = d.void
    <3>1. Kept(d, J, Callable(prog))
      BY DEF Judged
    <3>2. b \in J
      BY <2>4, <3>1 DEF Kept
    <3> QED BY <3>2 DEF Inside, Judgement
  <2> HIDE DEF b, s
  <2>6. Looped(ctl', n + 1)
    <3>1. n \in 1 .. n + 1 /\ n \in 1 .. n /\ \A k \in n + 1 .. n + 1 : k = n + 1
      BY <1>2
    <3> QED BY <1>4, <2>1, <2>3, <3>1 DEF Looped
  <2>7. Owed(ctl', n) = {}
    BY <2>1, <2>3 DEF Owed
  <2>8. Grown(frames, frames', Opened(ctl, n))
    BY <1>1 DEF Grown
  <2>9. Fits(d, ctl', frames', n)
    <3>1. \A x \in DOMAIN d.sym \ Owed(ctl', n) : x \in DOMAIN d.sym \ Owed(ctl, n) \/ Seen(x, ctl', frames', n)
      BY <1>2
    <3>2. \A j \in 1 .. n : ctl'[j].k = ctl[j].k
      BY <2>3
    <3> QED BY <1>2, <2>4, <2>8, <3>1, <3>2, FitsKept
  <2>10. Fits(b, ctl', frames', n + 1)
    <3>1. ctl'[n + 1].k # "call" /\ n \in Nat
      BY <1>2, <2>1, <2>3
    <3> QED BY <2>5, <2>6, <2>7, <2>9, <3>1, FitsAbove
  <2>11. Items(J, ctl', frames')
    <3>1. ItemOK(J, ctl', frames', n + 1)
      BY <2>1, <2>3, <2>5, <2>10 DEF ItemOK
    <3>2. n \in Nat /\ n <= Len(ctl) /\ n <= Len(ctl') /\ Len(ctl') \in Nat
      BY <1>2, <2>3
    <3>3. \A i \in 1 .. n : ItemOK(J, ctl', frames', i)
      BY <1>2, <1>3, <2>3, <2>8, <3>2, ItemsKept
    <3>4. \A i \in 1 .. n + 1 : i \in 1 .. n \/ i = n + 1
      BY <1>2
    <3> QED BY <2>3, <3>1, <3>3, <3>4 DEF Items
  <2>12. Endings(J, ctl', flow')
    <3> SUFFICES ASSUME NEW i \in 1 .. n, ctl'[i].k = "call" PROVE Ends(J, ctl', i)
      <4>1. \A i \in 1 .. n + 1 : i \in 1 .. n \/ i = n + 1
        BY <1>2
      <4> QED BY <2>1, <2>3, <4>1 DEF Endings
    <3>1. PICK x \in i + 1 .. n : Ending(J, ctl[x]) /\ \A j \in i + 1 .. x - 1 : Passed(ctl[j])
      BY <1>1, <1>3, <2>3 DEF Endings, Ends
    <3>2. n \in Nat /\ n <= Len(ctl') /\ Len(ctl') \in Nat
      BY <1>2, <2>3
    <3> QED BY <2>3, <3>1, <3>2, EndsBelow
  <2>13. FlowOK(ctl', flow', returnValue')
    <3>1. \A i \in 1 .. n - 1 : ctl'[i] = ctl[i]
      BY <1>2, <2>3
    <3>2. n \in 1 .. n /\ \A i \in n .. Len(ctl') : i = n \/ i = n + 1
      BY <1>2, <2>3
    <3>3. \A i \in n .. Len(ctl') : ctl'[i].k # "deliver"
      BY <1>4, <2>1, <2>3, <3>2
    <3>4. Len(ctl') \in Nat
      BY <1>2, <2>3
    <3> QED BY <1>1, <1>2, <1>3, <3>1, <3>3, <3>4, FlowPushed
  <2>14. Matches(ctl', frames', env')
    <3>1. Opened(ctl', n) = Opened(ctl, n) /\ Count(ctl', n, {"call"}) = Count(ctl, n, {"call"})
      BY <1>2, <2>3, MatchesSame
    <3>2. Opened(ctl', n + 1) = Opened(ctl', n) /\ Count(ctl', n + 1, {"call"}) = Count(ctl', n, {"call"})
      <4>1. ctl'[n + 1].k = "body" /\ n \in Nat
        BY <1>2, <2>1, <2>3
      <4> QED BY <4>1, MatchesNext
    <3> QED BY <1>1, <1>2, <2>3, <3>1, <3>2 DEF Matches
  <2> QED BY <1>1, <1>2, <2>3, <2>11, <2>12, <2>13, <2>14 DEF Stepped, Typed
<1> QED BY <1>1, <1>5, <1>6

\* What the theorems rest on: the programs that the front end accepts keep the
\* rules.  RulesKept checks it of the resolver and the type checker.
FrontEndRules ==
  \A p \in Programs :
    LET c == FrontEnd(p) IN c.accepted => Judged(c.prog, c.nodeSym, Judgements(c.prog))

Inv == Judged(prog, nodeSym, Judgements(prog)) /\ IInv(Judgements(prog))

LEMMA InitInv == ASSUME FrontEndRules, Init PROVE Inv
<1> DEFINE J == Judgements(prog)
           b == Body(prog[1].body)
           fr == << >>
           e0 == << >>
           o == OfFunction(prog[1], 1)
<1>1. /\ frames = <<fr>> /\ ctl = <<b>> /\ flow = "normal" /\ returnValue = Void
      /\ out = << >> /\ env = <<e0>>
  BY DEF Init
<1>3. Judged(prog, nodeSym, J)
  BY DEF Init, FrontEndRules
<1>4. o \in J /\ o.body = prog[1].body /\ DOMAIN o.sym = {} /\ o.loop = FALSE /\ o.void = prog[1].void
  <2>1. o \in J /\ prog[1].params = << >>
    BY <1>3 DEF Judged
  <2>2. DOMAIN << >> = {}
    OBVIOUS
  <2>3. {prog[1].params[i] : i \in DOMAIN prog[1].params} = {}
    BY <2>1, <2>2
  <2> QED BY <2>1, <2>3 DEF OfFunction, Judgement
<1>5. b.k = "body" /\ b.rest = prog[1].body
  BY DEF Body
<1> HIDE DEF b, o, J
<1>6. IsSeq(ctl) /\ Len(ctl) = 1 /\ ctl[1] = b
  <2>1. ctl \in Seq({b}) /\ Len(ctl) = 1 /\ ctl[1] = b
    BY <1>1
  <2> QED BY <2>1, SeqIs
<1>7. frames \in Seq(Seq(Binding)) /\ Len(frames) = 1
  BY <1>1
<1>8. EnvOK(env) /\ Len(env) = 1
  <2>1. env \in Seq({e0}) /\ Len(env) = 1 /\ DOMAIN env = {1} /\ env[1] = e0 /\ DOMAIN e0 = {}
    BY <1>1
  <2>2. IsSeq(env)
    BY <2>1, SeqIs
  <2> HIDE DEF e0
  <2> QED BY <2>1, <2>2 DEF EnvOK
<1>9. Typed
  BY <1>1, <1>6, <1>7, <1>8 DEF Typed
<1>10. Opened(ctl, 1) = 1 /\ Count(ctl, 1, {"call"}) = 0
  <2>1. Opened(ctl, 0) = 1 /\ Count(ctl, 0, {"call"}) = 0
    BY OpenedOK, CountNone
  <2>2. 0 \in Nat /\ 0 + 1 = 1 /\ ctl[0 + 1].k \notin {"call", "block"}
    BY <1>5, <1>6
  <2>3. Opened(ctl, 0 + 1) = Opened(ctl, 0) /\ Count(ctl, 0 + 1, {"call"}) = Count(ctl, 0, {"call"})
    BY <2>2, MatchesNext
  <2> QED BY <2>1, <2>2, <2>3
<1>11. FramesMatch
  BY <1>6, <1>7, <1>8, <1>10, MatchedIs DEF Matches
<1>12. \A i \in 1 .. 1 : i = 1
  OBVIOUS
<1>13. ~CallIn(ctl, 1)
  BY <1>5, <1>6, <1>12 DEF CallIn
<1>14. Items(J, ctl, frames)
  <2>1. Fits(o, ctl, frames, 1)
    BY <1>4, <1>13 DEF Fits
  <2> QED BY <1>4, <1>5, <1>6, <1>12, <2>1 DEF Items, ItemOK
<1>15. Endings(J, ctl, flow)
  BY <1>5, <1>6, <1>12 DEF Endings
<1>16. FlowOK(ctl, flow, returnValue)
  BY <1>1, <1>5, <1>6, <1>12 DEF FlowOK
<1> QED BY <1>3, <1>9, <1>11, <1>14, <1>15, <1>16 DEF Inv, IInv, J

LEMMA NextInv == Inv /\ [Next]_vars => Inv'
<1> SUFFICES ASSUME Inv, [Next]_vars PROVE Inv'
  OBVIOUS
<1> DEFINE J == Judgements(prog)
<1>1. Judged(prog, nodeSym, J) /\ IInv(J)
  BY DEF Inv
<1>2. ASSUME prog' = prog, nodeSym' = nodeSym, Stepped(J) PROVE Inv'
  <2>1. IInv(J)'
    BY <1>2, SteppedIs
  <2>2. Judged(prog, nodeSym, J)'
    BY <1>1, <1>2
  <2> QED BY <1>2, <2>1, <2>2 DEF Inv
<1>3. CASE Simple
  <2>1. prog' = prog /\ nodeSym' = nodeSym
    BY <1>3 DEF Simple
  <2> QED BY <1>1, <1>2, <1>3, <2>1, SimpleStep
<1>4. CASE If
  <2>1. prog' = prog /\ nodeSym' = nodeSym
    BY <1>4 DEF If
  <2> QED BY <1>1, <1>2, <1>4, <2>1, IfStep
<1>5. CASE While
  <2>1. prog' = prog /\ nodeSym' = nodeSym
    BY <1>5 DEF While
  <2> QED BY <1>1, <1>2, <1>5, <2>1, WhileStep
<1>6. CASE Block
  <2>1. prog' = prog /\ nodeSym' = nodeSym
    BY <1>6 DEF Block
  <2> QED BY <1>1, <1>2, <1>6, <2>1, BlockStep
<1>7. CASE Jump
  <2>1. prog' = prog /\ nodeSym' = nodeSym
    BY <1>7 DEF Jump
  <2> QED BY <1>1, <1>2, <1>7, <2>1, JumpStep
<1>8. CASE Call
  <2>1. prog' = prog /\ nodeSym' = nodeSym
    BY <1>8 DEF Call
  <2> QED BY <1>1, <1>2, <1>8, <2>1, CallStep
<1>9. CASE Return
  <2>1. prog' = prog /\ nodeSym' = nodeSym
    BY <1>9 DEF Return
  <2> QED BY <1>1, <1>2, <1>9, <2>1, ReturnStep
<1>10. CASE Deliver
  <2>1. prog' = prog /\ nodeSym' = nodeSym
    BY <1>10 DEF Deliver
  <2> QED BY <1>1, <1>2, <1>10, <2>1, DeliverStep
<1>11. CASE EndBody
  <2>1. prog' = prog /\ nodeSym' = nodeSym
    BY <1>11 DEF EndBody
  <2> QED BY <1>1, <1>2, <1>11, <2>1, EndBodyStep
<1>12. CASE EndLoop
  <2>1. prog' = prog /\ nodeSym' = nodeSym
    BY <1>12 DEF EndLoop
  <2> QED BY <1>1, <1>2, <1>12, <2>1, EndLoopStep
<1>13. CASE Turn
  <2>1. prog' = prog /\ nodeSym' = nodeSym
    BY <1>13 DEF Turn
  <2> QED BY <1>1, <1>2, <1>13, <2>1, TurnStep
<1>14. CASE EndBlock
  <2>1. prog' = prog /\ nodeSym' = nodeSym
    BY <1>14 DEF EndBlock
  <2> QED BY <1>1, <1>2, <1>14, <2>1, EndBlockStep
<1>15. CASE UNCHANGED vars
  <2>1. UNCHANGED <<prog, nodeSym, frames, ctl, flow, returnValue, out, env>>
    BY <1>15 DEF vars
  <2>2. Stepped(J)
    <3>1. IsSeq(ctl)
      BY <1>1 DEF IInv, Typed
    <3>2. Matches(ctl, frames, env)
      BY <1>1, <3>1, MatchedIs DEF IInv
    <3> QED BY <1>1, <2>1, <3>2 DEF Stepped, IInv, Typed
  <2> QED BY <1>2, <2>1, <2>2
<1> QED BY <1>3, <1>4, <1>5, <1>6, <1>7, <1>8, <1>9, <1>10, <1>11, <1>12, <1>13, <1>14, <1>15 DEF Next

LEMMA AlwaysInv == FrontEndRules /\ Spec => []Inv
<1>1. FrontEndRules /\ Init => Inv
  BY InitInv
<1> QED BY <1>1, NextInv, PTL DEF Spec

(* ------------------------------- Theorems ------------------------------- *)

\* Whatever its statements, every variable a program binds, every value it prints
\* and every value that a call leaves in returnValue is one: evalExpr finds a
\* binding for each name it looks up, and no value is missing where a statement
\* asks for one.
THEOREM TypeIsRight == FrontEndRules /\ Spec => []TypeOK
<1>1. Inv => TypeOK
  <2> SUFFICES ASSUME NEW J, IInv(J) PROVE TypeOK
    BY DEF Inv
  <2>1. Typed /\ flow \in {"normal", "return", "break", "continue"}
    BY DEF IInv, FlowOK
  <2>2. ASSUME NEW k \in DOMAIN frames, NEW j \in DOMAIN frames[k] PROVE frames[k][j].val \in Value
    <3>1. frames \in Seq(Seq(Binding)) /\ DOMAIN frames = 1 .. Len(frames)
      BY <2>1, LenProperties DEF Typed
    <3>2. frames[k] \in Seq(Binding)
      BY <3>1, ElementOfSeq
    <3>3. frames[k][j] \in Binding
      BY <3>2, LenProperties, ElementOfSeq
    <3> QED BY <3>3 DEF Binding
  <2> QED BY <2>1, <2>2 DEF TypeOK, Typed, EnvOK
<1> QED BY <1>1, AlwaysInv, PTL

\* However a call, a loop or a bare block ends, by its last statement or by a
\* return, break or continue from inside other blocks, evalCall and evalStmt have
\* taken away exactly the frames they pushed.
THEOREM FramesAreOpen == FrontEndRules /\ Spec => []FramesMatch
<1>1. Inv => FramesMatch
  BY DEF Inv, IInv
<1> QED BY <1>1, AlwaysInv, PTL

\* lookup goes on into the frames of every caller, and none of them is ever the
\* one it answers from: what resolves in a function has a binding in the frames
\* that its own call has pushed, when it is asked for.
THEOREM NamesStayInCall == FrontEndRules /\ Spec => []StaysInCall
<1>1. Inv => StaysInCall
  <2> SUFFICES ASSUME NEW J, Judged(prog, nodeSym, J), IInv(J), NEW s \in Looking, NEW nr \in NamesOf(s)
               PROVE  FrameOf(nr[1]) >= Base
    BY DEF Inv, StaysInCall
  <2> DEFINE x == nr[1]
             n == Len(ctl)
             k == SelectLastInSeq(ctl, LAMBDA c : c.k = "call")
  <2>1. x \in NamesUsed(s)
    BY DEF NamesOf, NamesUsed
  <2>2. ctl # << >>
    BY DEF Looking, AtStmt, AtLoop
  <2>3. /\ IsSeq(ctl) /\ n \in Nat \ {0} /\ Top = ctl[n] /\ ItemOK(J, ctl, frames, n)
        /\ Owed(ctl, n) = {} /\ frames \in Seq(Seq(Binding)) /\ frames # << >>
    BY <2>2, AtTop
  <2>4. Seen(x, ctl, frames, n)
    <3>1. CASE AtStmt
      <4>1. s = Stmt
        BY <3>1 DEF Looking
      <4>2. PICK d \in J : d.body = ctl[n].rest /\ \A y \in DOMAIN d.sym : Seen(y, ctl, frames, n)
        BY <3>1, AtStatement
      <4>3. NamesUsed(s) \subseteq DOMAIN d.sym
        BY <3>1, <4>1, <4>2, AtStatement
      <4> QED BY <2>1, <4>2, <4>3
    <3>2. CASE ~AtStmt
      <4>1. AtLoop /\ s = Top.s
        BY <3>2 DEF Looking
      <4>2. ctl[n].k = "while" /\ s = ctl[n].s
        BY <2>3, <4>1 DEF AtLoop
      <4>3. PICK d \in J : d.body # << >> /\ Head(d.body) = s /\ Fits(d, ctl, frames, n)
        BY <2>3, <4>2 DEF ItemOK
      <4>4. NamesUsed(s) \subseteq DOMAIN d.sym
        BY <4>3 DEF Judged, Kept
      <4> QED BY <2>1, <2>3, <4>3, <4>4 DEF Fits
    <3> QED BY <3>1, <3>2
  <2>5. FrameOf(x) # 0 /\ \A i \in 1 .. n : ctl[i].k = "call" => FrameOf(x) >= Opened(ctl, i)
    BY <2>2, <2>4, SeenFound
  <2> DEFINE I == {i \in 1 .. n : ctl[i].k = "call"}
  <2>6. k = IF I # {} THEN Max(I) ELSE 0
    BY DEF SelectLastInSeq
  <2>7. Base = Opened(ctl, k)
    BY DEF Base
  <2>8. CASE I = {}
    <3>1. Opened(ctl, k) = 1
      BY <2>6, <2>8, OpenedOK
    <3>2. FrameOf(x) \in DOMAIN frames
      BY <2>3, <2>5, FrameFound
    <3>3. FrameOf(x) \in Nat \ {0}
      BY <2>3, <3>2, LenProperties
    <3> QED BY <2>7, <3>1, <3>3
  <2>9. CASE I # {}
    <3>1. I \in SUBSET (1 .. n) /\ n \in Nat
      BY <2>3
    <3> HIDE DEF I
    <3>2. Max(I) \in I
      BY <2>9, <3>1, LastOf
    <3>3. k \in I
      BY <2>6, <2>9, <3>2
    <3> QED BY <2>5, <2>7, <3>3 DEF I
  <2> QED BY <2>8, <2>9
<1> QED BY <1>1, AlwaysInv, PTL

\* A break or continue that is under way has a loop of its own call to end it: it
\* never leaves a function, and execBody never hands it to the caller.
THEOREM JumpsAreCaught == FrontEndRules /\ Spec => []FlowCaught
<1>1. Inv => FlowCaught
  <2> SUFFICES ASSUME NEW J, IInv(J), flow \in {"break", "continue"}
               PROVE  SelectLastInSeq(ctl, LAMBDA c : c.k = "while")
                        > SelectLastInSeq(ctl, LAMBDA c : c.k = "call")
    BY DEF Inv, FlowCaught
  <2> DEFINE n == Len(ctl)
             W == {i \in 1 .. n : ctl[i].k = "while"}
             C == {i \in 1 .. n : ctl[i].k = "call"}
  <2>1. IsSeq(ctl) /\ Looped(ctl, n)
    BY DEF IInv, FlowOK, Typed
  <2>2. n \in Nat /\ W \in SUBSET (1 .. n) /\ C \in SUBSET (1 .. n)
    BY <2>1, IsSeqLen
  <2>3. PICK w \in 1 .. n : ctl[w].k = "while" /\ \A i \in w + 1 .. n : ctl[i].k # "call"
    BY <2>1 DEF Looped
  <2>4. /\ SelectLastInSeq(ctl, LAMBDA c : c.k = "while") = IF W # {} THEN Max(W) ELSE 0
        /\ SelectLastInSeq(ctl, LAMBDA c : c.k = "call") = IF C # {} THEN Max(C) ELSE 0
    BY DEF SelectLastInSeq
  <2>5. w \in W /\ \A i \in C : i < w
    <3> SUFFICES ASSUME NEW i \in C PROVE i < w
      BY <2>3
    <3>1. i # w /\ i \in 1 .. n
      BY <2>3
    <3>2. ~(i > w)
      BY <2>2, <2>3
    <3> QED BY <3>1, <3>2
  <2> HIDE DEF W, C
  <2>6. Max(W) \in W /\ Max(W) >= w
    BY <2>2, <2>5, LastOf
  <2>7. C # {} => Max(C) \in C
    BY <2>2, LastOf
  <2>8. \A i \in W \cup C : i \in Nat \ {0}
    BY <2>2
  <2> QED BY <2>4, <2>5, <2>6, <2>7, <2>8
<1> QED BY <1>1, AlwaysInv, PTL

\* When evalCall answers with returnValue, the body has just stored it there: no
\* path through a function with a result falls off its end, whatever the nesting
\* of the ifs and blocks that hold its returns.
THEOREM CallsReturnValues == FrontEndRules /\ Spec => []ValueReturned
<1>1. Inv => ValueReturned
  <2> SUFFICES ASSUME NEW J, IInv(J), AtReturn PROVE flow = "return" /\ returnValue # Void
    BY DEF Inv, ValueReturned
  <2>1. Void \notin Value
    BY DEF Void, Value
  <2> QED BY <2>1, ReturnHasValue
<1> QED BY <1>1, AlwaysInv, PTL

(* ---------------------------- What names mean --------------------------- *)

\* What each frame holds is described by D: the call whose frame it is, how many
\* bare blocks of the call are around it, and which declaration each name in it
\* stands for.  Seen from frame m, n means declaration p.
Sees(D, m, n, p) ==
  \E g \in 1 .. m : /\ D[g].call = D[m].call /\ n \in DOMAIN D[g].sym /\ D[g].sym[n] = p
                    /\ \A h \in g + 1 .. m : n \notin DOMAIN D[h].sym

\* After the first l items of c, calls and blocks are stacked as they should be.
Layout(c, l, D) ==
  /\ \A m \in 0 .. l : D[Opened(c, m)].call = 1 + Count(c, m, {"call"})
  /\ \A g \in 1 .. Opened(c, l) : D[g].call \in Nat \ {0} /\ D[g].level \in Nat
  /\ \A g, h \in 1 .. Opened(c, l) :
       g < h => \/ D[g].call < D[h].call
                \/ D[g].call = D[h].call /\ D[g].level < D[h].level

\* The frames hold what D says, with the values that the declarations have.
Held(fr, n) == fr[LookupLocal(fr, n)].val
View(T, D, fr, ev, g) ==
  /\ \A n : Has(fr[g], n) <=> n \in DOMAIN D[g].sym
  /\ \A n \in DOMAIN D[g].sym : /\ D[g].sym[n] \in DOMAIN ev[D[g].call]
                                /\ Held(fr[g], n) = ev[D[g].call][D[g].sym[n]]
                                /\ <<D[g].sym[n], n, D[g].level>> \in T
Views(T, D, fr, ev) == \A g \in 1 .. Len(fr) : View(T, D, fr, ev, g)

\* The body or the loop that judgement d is about is item i of c; with a call
\* above it, it is still before the statement that makes the call.
Pending(c, i) == i < Len(c) /\ c[i + 1].k \in {"call", "deliver"}
Before(d, c, i) ==
  /\ c[i].k = "body" /\ ~Pending(c, i) => d.body = c[i].rest
  /\ c[i].k = "body" /\ Pending(c, i) =>
       d.body # << >> /\ Head(d.body) = c[i + 1].s /\ Tail(d.body) = c[i].rest
  /\ c[i].k = "while" => d.body # << >> /\ Head(d.body) = c[i].s /\ c[i].s.kind = "while"

\* The names that item i is still to declare in its frame, and whether item j is
\* above it in the same frame.
Own(c, i) == IF c[i].k = "body" THEN Local(c[i].rest) \cup Owed(c, i) ELSE {}
Beside(c, i, j) == \A k \in i + 1 .. j : c[k].k \notin Framed

\* Item i sees the declarations of d, what it will declare is not in its frame
\* yet, and what is above it in this frame declares none of these names.
Scoped(d, c, D, i) ==
  /\ d.level = D[Opened(c, i)].level
  /\ \A n \in DOMAIN d.sym : Sees(D, Opened(c, i), n, d.sym[n])
  /\ Own(c, i) \cap DOMAIN D[Opened(c, i)].sym = {}
  /\ \A j \in i + 1 .. Len(c) :
       Beside(c, i, j) => Own(c, j) \cap (Own(c, i) \cup DOMAIN d.sym) = {}

ScopeOK(J, c, D, i) ==
  /\ c[i].k \in {"body", "while"} => \E d \in J : Before(d, c, i) /\ Scoped(d, c, D, i)
  /\ c[i].k \in {"call", "deliver"} => i > 1 /\ c[i - 1].k = "body"
Scopes(J, c, D) == \A i \in 1 .. Len(c) : ScopeOK(J, c, D, i)

Meant(J, T, c, D, fr, ev) == Scopes(J, c, D) /\ Layout(c, Len(c), D) /\ Views(T, D, fr, ev)
Meaning(J) == \E D : Meant(J, Declarations(prog, J), ctl, D, frames, env)

LEMMA SeesSame ==
  ASSUME NEW D, NEW D2, NEW m \in Nat, m >= 1, \A g \in 1 .. m : D2[g] = D[g],
         NEW n, NEW p, Sees(D, m, n, p)
  PROVE  Sees(D2, m, n, p)
<1>1. PICK g \in 1 .. m :
        /\ D[g].call = D[m].call /\ n \in DOMAIN D[g].sym /\ D[g].sym[n] = p
        /\ \A h \in g + 1 .. m : n \notin DOMAIN D[h].sym
  BY DEF Sees
<1>2. m \in 1 .. m /\ \A h \in g + 1 .. m : h \in 1 .. m
  OBVIOUS
<1> QED BY <1>1, <1>2 DEF Sees

LEMMA OpenedSame ==
  ASSUME NEW c, NEW e, NEW i \in Nat, \A j \in 1 .. i : e[j].k = c[j].k
  PROVE  Opened(e, i) = Opened(c, i) /\ Opened(c, i) \in Nat /\ Opened(c, i) >= 1
<1>1. Opened(c, i) \in Nat /\ Opened(c, i) >= 1
  BY OpenedOK
<1>2. Opened(e, i) = Opened(c, i)
  <2>1. i \in 0 .. i
    OBVIOUS
  <2> QED BY <2>1, Agreed
<1> QED BY <1>1, <1>2

\* What a judgement sees at an item it still sees there, unless the item or what
\* is above it has more to declare than before.
LEMMA ScopedSame ==
  ASSUME NEW c, NEW e, NEW D, NEW D2, NEW i \in Nat, \A j \in 1 .. i : e[j].k = c[j].k,
         \A g \in 1 .. Opened(c, i) : D2[g] = D[g],
         NEW d, Scoped(d, c, D, i), Own(e, i) \subseteq Own(c, i),
         \A j \in i + 1 .. Len(e) : Beside(e, i, j) =>
           \/ Own(e, j) = {}
           \/ \E x \in i + 1 .. Len(c) : Beside(c, i, x) /\ Own(e, j) \subseteq Own(c, x)
  PROVE  Scoped(d, e, D2, i)
<1> DEFINE m == Opened(c, i)
<1>1. Opened(e, i) = m /\ m \in Nat /\ m >= 1
  BY OpenedSame
<1>2. D2[m] = D[m]
  <2>1. m \in 1 .. m
    BY <1>1
  <2> QED BY <2>1
<1>3. \A n \in DOMAIN d.sym : Sees(D2, m, n, d.sym[n])
  <2>1. \A n \in DOMAIN d.sym : Sees(D, m, n, d.sym[n])
    BY DEF Scoped
  <2>2. \A g \in 1 .. m : D2[g] = D[g]
    OBVIOUS
  <2> HIDE DEF m
  <2> QED BY <1>1, <2>1, <2>2, SeesSame
<1>4. ASSUME NEW j \in i + 1 .. Len(e), Beside(e, i, j)
      PROVE  Own(e, j) \cap (Own(e, i) \cup DOMAIN d.sym) = {}
  <2>1. CASE Own(e, j) = {}
    BY <2>1
  <2>2. ASSUME NEW x \in i + 1 .. Len(c), Beside(c, i, x), Own(e, j) \subseteq Own(c, x)
        PROVE  Own(e, j) \cap (Own(e, i) \cup DOMAIN d.sym) = {}
    <3>1. Own(c, x) \cap (Own(c, i) \cup DOMAIN d.sym) = {}
      BY <2>2 DEF Scoped
    <3> QED BY <2>2, <3>1
  <2> QED BY <1>4, <2>1, <2>2
<1>5. d.level = D2[m].level /\ Own(e, i) \cap DOMAIN D2[m].sym = {}
  BY <1>2 DEF Scoped
<1> QED BY <1>1, <1>3, <1>4, <1>5 DEF Scoped

\* The first m items, which a step does not touch.
LEMMA ScopesKept ==
  ASSUME NEW J, NEW c, NEW e, NEW D, NEW D2, NEW m \in Nat,
         Len(c) \in Nat, Len(e) \in Nat, m <= Len(c), m <= Len(e),
         \A i \in 1 .. m : ScopeOK(J, c, D, i), \A i \in 1 .. m : e[i] = c[i],
         \A g \in 1 .. Opened(c, m) : D2[g] = D[g],
         Pending(e, m) <=> Pending(c, m), Pending(c, m) => e[m + 1].s = c[m + 1].s,
         \A j \in m + 1 .. Len(e) : Beside(e, m, j) =>
           \/ Own(e, j) = {}
           \/ \E x \in m + 1 .. Len(c) : Beside(c, m, x) /\ Own(e, j) \subseteq Own(c, x)
  PROVE  \A i \in 1 .. m : ScopeOK(J, e, D2, i)
<1> SUFFICES ASSUME NEW i \in 1 .. m PROVE ScopeOK(J, e, D2, i)
  OBVIOUS
<1>1. i \in Nat /\ e[i] = c[i] /\ \A j \in 1 .. i : e[j].k = c[j].k
  OBVIOUS
<1>2. /\ \A j \in 1 .. m : Pending(e, j) <=> Pending(c, j)
      /\ \A j \in 1 .. m : Pending(c, j) => e[j + 1].s = c[j + 1].s
      /\ \A j \in 1 .. m : Owed(e, j) = Owed(c, j)
  <2> SUFFICES ASSUME NEW j \in 1 .. m
               PROVE  /\ Pending(e, j) <=> Pending(c, j)
                      /\ Pending(c, j) => e[j + 1].s = c[j + 1].s
                      /\ Owed(e, j) = Owed(c, j)
    OBVIOUS
  <2>1. (Pending(e, j) <=> Pending(c, j)) /\ (Pending(c, j) => e[j + 1].s = c[j + 1].s)
    <3>1. CASE j = m
      BY <3>1
    <3>2. CASE j < m
      <4>1. j + 1 \in 1 .. m /\ e[j + 1] = c[j + 1] /\ j < Len(c) /\ j < Len(e)
        BY <3>2
      <4> QED BY <4>1 DEF Pending
    <3> QED BY <3>1, <3>2
  <2> QED BY <2>1 DEF Pending, Owed
<1>3. \A j \in 1 .. m : Own(e, j) = Own(c, j)
  BY <1>2 DEF Own
<1>4. \A g \in 1 .. Opened(c, i) : D2[g] = D[g]
  <2>1. i \in Nat /\ i <= m
    OBVIOUS
  <2>2. Opened(c, i) <= Opened(c, m) /\ Opened(c, i) \in Nat /\ Opened(c, m) \in Nat
    BY <2>1, OpenedOK
  <2> QED BY <2>2
<1>5. ASSUME NEW j \in i + 1 .. Len(e), Beside(e, i, j)
      PROVE  \/ Own(e, j) = {}
             \/ \E x \in i + 1 .. Len(c) : Beside(c, i, x) /\ Own(e, j) \subseteq Own(c, x)
  <2>1. CASE j <= m
    <3>1. j \in i + 1 .. Len(c) /\ j \in 1 .. m
      BY <2>1
    <3>2. Beside(c, i, j)
      <4>1. \A k \in i + 1 .. j : k \in 1 .. m
        BY <2>1
      <4> QED BY <1>5, <4>1 DEF Beside
    <3> QED BY <1>3, <3>1, <3>2
  <2>2. CASE j > m
    <3>1. j \in m + 1 .. Len(e) /\ Beside(e, m, j)
      BY <1>5, <2>2 DEF Beside
    <3>2. ASSUME NEW x \in m + 1 .. Len(c), Beside(c, m, x) PROVE x \in i + 1 .. Len(c) /\ Beside(c, i, x)
      <4>1. \A k \in i + 1 .. m : k \in i + 1 .. j /\ k \in 1 .. m
        BY <2>2
      <4>2. \A k \in i + 1 .. m : c[k].k \notin Framed
        BY <1>5, <4>1 DEF Beside
      <4>3. \A k \in i + 1 .. x : k \in i + 1 .. m \/ k \in m + 1 .. x
        OBVIOUS
      <4> QED BY <3>2, <4>2, <4>3 DEF Beside
    <3> QED BY <3>1, <3>2
  <2> QED BY <2>1, <2>2
<1>6. ASSUME NEW d, Scoped(d, c, D, i) PROVE Scoped(d, e, D2, i)
  BY <1>1, <1>3, <1>4, <1>5, <1>6, ScopedSame
<1>7. ASSUME NEW d, Before(d, c, i) PROVE Before(d, e, i)
  BY <1>1, <1>2, <1>7 DEF Before
<1>8. ScopeOK(J, c, D, i)
  OBVIOUS
<1>9. c[i].k \in {"call", "deliver"} => e[i - 1].k = "body"
  <2>1. c[i].k \in {"call", "deliver"} => i - 1 \in 1 .. m /\ c[i - 1].k = "body"
    BY <1>8 DEF ScopeOK
  <2> QED BY <2>1
<1> QED BY <1>1, <1>6, <1>7, <1>8, <1>9 DEF ScopeOK

\* The names of the statement that comes first are the item's own.
LEMMA OwnFirst ==
  ASSUME NEW d, NEW c, NEW i, Before(d, c, i), c[i].k = "body", d.body # << >>, Unconfused(d, Local)
  PROVE  /\ Local(Tail(d.body)) \subseteq Own(c, i)
         /\ IsDecl(Head(d.body)) =>
              Head(d.body).name \in Own(c, i) /\ Head(d.body).name \notin Local(Tail(d.body))
         /\ ~Pending(c, i) => Own(c, i) = Local(d.body)
<1>1. CASE Pending(c, i)
  <2>1. Head(d.body) = c[i + 1].s /\ Tail(d.body) = c[i].rest
    BY <1>1 DEF Before
  <2>2. IsDecl(Head(d.body)) => Owed(c, i) = {Head(d.body).name}
    BY <1>1, <2>1 DEF Owed, Pending
  <2> QED BY <1>1, <2>1, <2>2 DEF Own, Unconfused
<1>2. CASE ~Pending(c, i)
  <2>1. d.body = c[i].rest /\ Owed(c, i) = {}
    BY <1>2 DEF Before, Owed, Pending
  <2>2. Own(c, i) = Local(d.body)
    BY <2>1 DEF Own
  <2> QED BY <2>2 DEF Unconfused
<1> QED BY <1>1, <1>2

\* The body at i without its first statement, nothing new being in its frame
\* unless the statement declares it.
LEMMA ScopedAfter ==
  ASSUME NEW c, NEW e, NEW D, NEW i \in Nat, \A j \in 1 .. i : e[j].k = c[j].k,
         NEW d, Before(d, c, i), Scoped(d, c, D, i), Unconfused(d, Local),
         c[i].k = "body", d.body # << >>, ~IsDecl(Head(d.body)),
         e[i].k = "body", e[i].rest = Tail(d.body), ~Pending(e, i),
         \A j \in i + 1 .. Len(e) : Beside(e, i, j) =>
           Own(e, j) \cap (Local(Tail(d.body)) \cup DOMAIN d.sym) = {}
  PROVE  Before(AfterIt(d), e, i) /\ Scoped(AfterIt(d), e, D, i)
<1> DEFINE a == AfterIt(d)
<1>1. a.body = Tail(d.body) /\ a.sym = d.sym /\ a.level = d.level
  BY DEF AfterIt, Judgement
<1>2. e[i].k = "body" /\ e[i].rest = Tail(d.body)
  OBVIOUS
<1> HIDE DEF a
<1>3. Own(e, i) = Local(Tail(d.body)) /\ Own(e, i) \subseteq Own(c, i)
  <2>1. Owed(e, i) = {}
    BY DEF Owed, Pending
  <2> QED BY <1>2, <2>1, OwnFirst DEF Own
<1>4. Opened(e, i) = Opened(c, i)
  BY OpenedSame
<1>5. Before(a, e, i)
  BY <1>1, <1>2 DEF Before
<1>6. Scoped(a, e, D, i)
  BY <1>1, <1>3, <1>4 DEF Scoped
<1> QED BY <1>5, <1>6 DEF a

\* Layout, one item after the other.
LEMMA LayoutSame ==
  ASSUME NEW c, NEW e, NEW l \in Nat, NEW l2 \in Nat, l2 <= l, NEW D, NEW D2, Layout(c, l, D),
         \A j \in 1 .. l2 : e[j].k = c[j].k, \A g \in 1 .. Opened(c, l2) : D2[g] = D[g]
  PROVE  Layout(e, l2, D2)
<1>1. \A m \in 0 .. l2 : /\ Opened(e, m) = Opened(c, m) /\ Count(e, m, {"call"}) = Count(c, m, {"call"})
                         /\ Opened(c, m) \in 1 .. Opened(c, l2) /\ Opened(c, l2) \in Nat
                         /\ Opened(c, l2) <= Opened(c, l) /\ Opened(c, l) \in Nat
  <2> SUFFICES ASSUME NEW m \in 0 .. l2
               PROVE  /\ Opened(e, m) = Opened(c, m) /\ Count(e, m, {"call"}) = Count(c, m, {"call"})
                      /\ Opened(c, m) \in 1 .. Opened(c, l2) /\ Opened(c, l2) \in Nat
                      /\ Opened(c, l2) <= Opened(c, l) /\ Opened(c, l) \in Nat
    OBVIOUS
  <2>1. m \in Nat /\ m <= l2 /\ \A j \in 1 .. m : e[j].k = c[j].k
    OBVIOUS
  <2>2. Opened(e, m) = Opened(c, m) /\ Count(e, m, {"call"}) = Count(c, m, {"call"})
    BY <2>1, MatchesSame
  <2>3. /\ Opened(c, m) \in Nat /\ Opened(c, m) >= 1 /\ Opened(c, m) <= Opened(c, l2)
        /\ Opened(c, l2) \in Nat /\ Opened(c, l2) <= Opened(c, l) /\ Opened(c, l) \in Nat
    BY <2>1, OpenedOK
  <2> QED BY <2>2, <2>3
<1>2. l2 \in 0 .. l2 /\ \A m \in 0 .. l2 : m \in 0 .. l
  OBVIOUS
<1>3. \A m \in 0 .. l2 : D2[Opened(e, m)].call = 1 + Count(e, m, {"call"})
  BY <1>1, <1>2 DEF Layout
<1>4. /\ \A g \in 1 .. Opened(e, l2) : D2[g] = D[g] /\ g \in 1 .. Opened(c, l)
  BY <1>1, <1>2
<1> QED BY <1>3, <1>4 DEF Layout

LEMMA LayoutMore ==
  ASSUME NEW c, NEW l \in Nat, NEW D, Layout(c, l, D), c[l + 1].k \notin Framed
  PROVE  Layout(c, l + 1, D)
<1>1. Opened(c, l + 1) = Opened(c, l) /\ Count(c, l + 1, {"call"}) = Count(c, l, {"call"})
  BY MatchesNext DEF Framed
<1>2. \A m \in 0 .. l + 1 : m \in 0 .. l \/ m = l + 1
  OBVIOUS
<1>3. l \in 0 .. l
  OBVIOUS
<1> QED BY <1>1, <1>2, <1>3 DEF Layout

\* A frame more, of a block or of a call.
Framing(c, l, D, call, level, sym) ==
  [g \in 1 .. Opened(c, l) + 1 |->
     IF g = Opened(c, l) + 1 THEN [call |-> call, level |-> level, sym |-> sym] ELSE D[g]]

LEMMA LayoutFrame ==
  ASSUME NEW c, NEW l \in Nat, NEW D, Layout(c, l, D), c[l + 1].k \in Framed,
         NEW call, NEW level \in Nat, NEW sym,
         c[l + 1].k = "block" => call = D[Opened(c, l)].call /\ level > D[Opened(c, l)].level,
         c[l + 1].k = "call" => call = D[Opened(c, l)].call + 1
  PROVE  Layout(c, l + 1, Framing(c, l, D, call, level, sym))
<1> DEFINE w == Opened(c, l)
           D2 == Framing(c, l, D, call, level, sym)
           r == [call |-> call, level |-> level, sym |-> sym]
<1>1. w \in Nat /\ w >= 1 /\ Opened(c, l + 1) = w + 1 /\ \A m \in 0 .. l : Opened(c, m) \in 1 .. w
  <2>1. w \in Nat /\ w >= 1 /\ Opened(c, l + 1) = w + 1
    BY OpenedOK
  <2>2. ASSUME NEW m \in 0 .. l PROVE Opened(c, m) \in 1 .. w
    <3>1. m \in Nat /\ m <= l
      OBVIOUS
    <3>2. Opened(c, m) \in Nat /\ Opened(c, m) >= 1 /\ Opened(c, m) <= w
      BY <3>1, OpenedOK
    <3> HIDE DEF w
    <3> QED BY <2>1, <3>2
  <2> QED BY <2>1, <2>2
<1>2. r.call = call /\ r.level = level
  OBVIOUS
<1>3. D2[w + 1] = r /\ \A g \in 1 .. w : D2[g] = D[g]
  <2>1. w + 1 \in 1 .. w + 1 /\ \A g \in 1 .. w : g \in 1 .. w + 1 /\ g # w + 1
    BY <1>1
  <2> QED BY <2>1 DEF Framing
<1> HIDE DEF D2, r
<1>4. \A m \in 0 .. l : D[Opened(c, m)].call = 1 + Count(c, m, {"call"})
  BY DEF Layout
<1>5. Count(c, l, {"call"}) \in Nat /\ D[w].call = 1 + Count(c, l, {"call"})
  BY <1>4, CountType
<1>6. call = 1 + Count(c, l + 1, {"call"})
  BY <1>5, MatchesNext DEF Framed
<1>7. \A m \in 0 .. l + 1 : D2[Opened(c, m)].call = 1 + Count(c, m, {"call"})
  <2>1. \A m \in 0 .. l + 1 : m \in 0 .. l \/ m = l + 1
    OBVIOUS
  <2> HIDE DEF w
  <2> QED BY <1>1, <1>2, <1>3, <1>4, <1>6, <2>1
<1>8. /\ \A g \in 1 .. w : D[g].call \in Nat \ {0} /\ D[g].level \in Nat
      /\ \A g, h \in 1 .. w : g < h => D[g].call < D[h].call \/ (D[g].call = D[h].call /\ D[g].level < D[h].level)
  BY DEF Layout
<1>9. call \in Nat \ {0} /\ (call > D[w].call \/ (call = D[w].call /\ level > D[w].level))
  BY <1>5 DEF Framed
<1>10. \A g \in 1 .. w : D[g].call < call \/ (D[g].call = call /\ D[g].level < level)
  <2> SUFFICES ASSUME NEW g \in 1 .. w PROVE D[g].call < call \/ (D[g].call = call /\ D[g].level < level)
    OBVIOUS
  <2>1. w \in 1 .. w /\ (g = w \/ g < w)
    BY <1>1
  <2> HIDE DEF w
  <2>2. D[g].call \in Nat /\ D[g].level \in Nat /\ D[w].call \in Nat /\ D[w].level \in Nat
    BY <1>8, <2>1
  <2>3. g = w \/ D[g].call < D[w].call \/ (D[g].call = D[w].call /\ D[g].level < D[w].level)
    BY <1>8, <2>1
  <2> QED BY <1>9, <2>2, <2>3
<1> HIDE DEF w
<1>11. \A g \in 1 .. w + 1 : g \in 1 .. w \/ g = w + 1
  BY <1>1
<1>12. \A g \in 1 .. w + 1 : D2[g].call \in Nat \ {0} /\ D2[g].level \in Nat
  BY <1>2, <1>3, <1>8, <1>9, <1>11
<1>13. \A g, h \in 1 .. w + 1 :
         g < h => D2[g].call < D2[h].call \/ (D2[g].call = D2[h].call /\ D2[g].level < D2[h].level)
  BY <1>1, <1>2, <1>3, <1>8, <1>10, <1>11
<1> QED BY <1>1, <1>7, <1>12, <1>13 DEF Layout, D2

Functional(T) == \A x, y \in T : x[1] = y[1] => x = y

\* A declaration has one name in one frame of a call.
LEMMA Apart ==
  ASSUME NEW c, NEW l \in Nat, NEW D, Layout(c, l, D), NEW T, Functional(T), NEW fr, NEW ev,
         Len(fr) = Opened(c, l), Views(T, D, fr, ev),
         NEW g \in 1 .. Len(fr), NEW n, NEW p, NEW h \in 1 .. Len(fr), NEW x,
         <<p, n, D[g].level>> \in T, x \in DOMAIN D[h].sym, D[g].call = D[h].call, D[h].sym[x] = p
  PROVE  g = h /\ n = x
<1>1. <<p, x, D[h].level>> \in T
  BY DEF Views, View
<1>2. <<p, n, D[g].level>> = <<p, x, D[h].level>>
  <2> DEFINE t == <<p, n, D[g].level>>
             u == <<p, x, D[h].level>>
  <2>1. t \in T /\ u \in T /\ t[1] = u[1]
    BY <1>1
  <2> HIDE DEF t, u
  <2>2. t = u
    BY <2>1 DEF Functional
  <2> QED BY <2>2 DEF t, u
<1>3. n = x /\ D[g].level = D[h].level
  BY <1>2
<1>4. Len(fr) \in Nat
  BY OpenedOK
<1>5. D[g].call \in Nat /\ D[h].call \in Nat /\ D[g].level \in Nat /\ D[h].level \in Nat
  BY DEF Layout
<1>6. /\ g < h => D[g].call < D[h].call \/ (D[g].call = D[h].call /\ D[g].level < D[h].level)
      /\ h < g => D[h].call < D[g].call \/ (D[h].call = D[g].call /\ D[h].level < D[g].level)
  BY DEF Layout
<1>7. ~(g < h) /\ ~(h < g)
  BY <1>3, <1>5, <1>6
<1> QED BY <1>3, <1>7

(* Values of names. *)

LEMMA LookupAt ==
  ASSUME NEW S, NEW fr \in Seq(S), NEW n, NEW j \in DOMAIN fr, fr[j].name = n,
         \A k \in DOMAIN fr : k < j => fr[k].name # n
  PROVE  LookupLocal(fr, n) = j
<1> DEFINE I == {i \in 1 .. Len(fr) : fr[i].name = n}
<1>1. LookupLocal(fr, n) = IF I # {} THEN Min(I) ELSE 0
  BY DEF LookupLocal, SelectInSeq
<1>2. DOMAIN fr = 1 .. Len(fr) /\ Len(fr) \in Nat
  BY LenProperties
<1>3. j \in I /\ I \in SUBSET (1 .. Len(fr)) /\ \A k \in I : k \in Nat /\ ~(k < j)
  BY <1>2
<1> HIDE DEF I
<1>4. Min(I) \in I /\ Min(I) <= j
  BY <1>2, <1>3, FirstOf
<1>5. Min(I) \in Nat /\ j \in Nat /\ ~(Min(I) < j)
  BY <1>3, <1>4
<1> QED BY <1>1, <1>3, <1>4, <1>5

LEMMA LookupFirst ==
  ASSUME NEW S, NEW fr \in Seq(S), NEW n, NEW k \in DOMAIN fr, fr[k].name = n
  PROVE  LookupLocal(fr, n) \in DOMAIN fr /\ fr[LookupLocal(fr, n)].name = n /\ LookupLocal(fr, n) <= k
<1> DEFINE I == {i \in 1 .. Len(fr) : fr[i].name = n}
<1>1. LookupLocal(fr, n) = IF I # {} THEN Min(I) ELSE 0
  BY DEF LookupLocal, SelectInSeq
<1>2. DOMAIN fr = 1 .. Len(fr) /\ Len(fr) \in Nat
  BY LenProperties
<1>3. k \in I /\ I \in SUBSET (1 .. Len(fr)) /\ \A i \in I : i \in DOMAIN fr /\ fr[i].name = n
  BY <1>2
<1> HIDE DEF I
<1>4. Min(I) \in I /\ Min(I) <= k
  BY <1>2, <1>3, FirstOf
<1> QED BY <1>1, <1>3, <1>4

\* A name bound at the end of a frame that did not have it.
LEMMA HeldAppended ==
  ASSUME NEW fr \in Seq(Binding), NEW r \in Binding, ~Has(fr, r.name)
  PROVE  LET a == Append(fr, r)
         IN  /\ \A x : Has(a, x) <=> Has(fr, x) \/ x = r.name
             /\ Held(a, r.name) = r.val
             /\ \A x : Has(fr, x) => Held(a, x) = Held(fr, x)
<1> DEFINE a == Append(fr, r)
           l == Len(fr)
<1>1. /\ a \in Seq(Binding) /\ Len(a) = l + 1 /\ a[l + 1] = r
      /\ \A j \in 1 .. l : a[j] = fr[j]
  BY AppendProperties
<1>2. l \in Nat /\ DOMAIN fr = 1 .. l /\ DOMAIN a = 1 .. l + 1
  BY <1>1, LenProperties
<1> HIDE DEF a, l
<1>3. \A j \in 1 .. l + 1 : j \in 1 .. l \/ j = l + 1
  BY <1>2
<1>4. \A x : Has(a, x) <=> Has(fr, x) \/ x = r.name
  BY <1>1, <1>2, <1>3 DEF Has
<1>5. LookupLocal(a, r.name) = l + 1
  <2>1. l + 1 \in DOMAIN a
    BY <1>2
  <2>2. \A k \in DOMAIN a : k < l + 1 => k \in DOMAIN fr /\ a[k] = fr[k]
    BY <1>1, <1>2
  <2>3. \A k \in DOMAIN a : k < l + 1 => a[k].name # r.name
    BY <2>2 DEF Has
  <2> QED BY <1>1, <2>1, <2>3, LookupAt
<1>6. ASSUME NEW x, Has(fr, x) PROVE Held(a, x) = Held(fr, x)
  <2> DEFINE j == LookupLocal(fr, x)
  <2>1. /\ j \in DOMAIN fr /\ fr[j].name = x
        /\ \A k \in DOMAIN fr : fr[k].name = x => j <= k
    BY <1>6, LookupIn, LookupFirst
  <2> HIDE DEF j
  <2>2. j \in DOMAIN a /\ a[j] = fr[j] /\ j \in Nat /\ j <= l
    BY <1>1, <1>2, <2>1
  <2>3. ASSUME NEW k \in DOMAIN a, k < j PROVE a[k].name # x
    <3>1. k \in DOMAIN fr /\ a[k] = fr[k] /\ ~(j <= k)
      BY <1>1, <1>2, <2>2, <2>3
    <3> QED BY <2>1, <3>1
  <2>4. LookupLocal(a, x) = j
    BY <1>1, <2>1, <2>2, <2>3, LookupAt
  <2> QED BY <2>2, <2>4 DEF Held, j
<1>7. Held(a, r.name) = r.val
  BY <1>1, <1>5 DEF Held
<1> QED BY <1>4, <1>6, <1>7 DEF a

\* A new value for the binding that is found.
Put(fr, n, r) == [fr EXCEPT ![LookupLocal(fr, n)] = r]

LEMMA HeldReplaced ==
  ASSUME NEW fr \in Seq(Binding), NEW n, Has(fr, n), NEW r \in Binding, r.name = n
  PROVE  /\ Put(fr, n, r) \in Seq(Binding)
         /\ \A x : Has(Put(fr, n, r), x) <=> Has(fr, x)
         /\ Held(Put(fr, n, r), n) = r.val
         /\ \A x : Has(fr, x) /\ x # n => Held(Put(fr, n, r), x) = Held(fr, x)
<1> DEFINE j == LookupLocal(fr, n)
           a == Put(fr, n, r)
<1>1. /\ j \in DOMAIN fr /\ fr[j].name = n /\ DOMAIN fr = 1 .. Len(fr) /\ Len(fr) \in Nat
  BY LookupIn, LenProperties
<1>4. a = [fr EXCEPT ![j] = r]
  BY DEF Put
<1> HIDE DEF j, a
<1>5. a \in Seq(Binding) /\ Len(a) = Len(fr) /\ \A x \in DOMAIN fr : a[x] = IF x = j THEN r ELSE fr[x]
  <2> DEFINE b == [fr EXCEPT ![j] = r]
  <2>1. b \in Seq(Binding) /\ Len(b) = Len(fr) /\ \A x \in DOMAIN fr : b[x] = IF x = j THEN r ELSE fr[x]
    BY <1>1, ExceptSeq
  <2> QED BY <1>4, <2>1
<1>6. DOMAIN a = DOMAIN fr
  BY <1>1, <1>5, LenProperties
<1>7. \A k \in DOMAIN fr : a[k].name = fr[k].name
  BY <1>1, <1>5
<1>8. \A x : Has(a, x) <=> Has(fr, x)
  BY <1>6, <1>7 DEF Has
<1>9. ASSUME NEW x, Has(fr, x) PROVE LookupLocal(a, x) = LookupLocal(fr, x)
  <2> DEFINE i == LookupLocal(fr, x)
  <2>1. /\ i \in DOMAIN fr /\ fr[i].name = x
        /\ \A k \in DOMAIN fr : fr[k].name = x => i <= k
    BY <1>9, LookupIn, LookupFirst
  <2> HIDE DEF i
  <2>2. \A k \in DOMAIN a : k < i => a[k].name # x
    <3>1. \A k \in DOMAIN fr : k \in Nat /\ i \in Nat
      BY <1>1, <2>1
    <3> QED BY <1>6, <1>7, <2>1, <3>1
  <2>3. LookupLocal(a, x) = i
    BY <1>5, <1>6, <1>7, <2>1, <2>2, LookupAt
  <2> QED BY <2>3 DEF i
<1>10. Held(a, n) = r.val
  <2>1. LookupLocal(a, n) = j
    BY <1>9 DEF j
  <2> QED BY <1>1, <1>5, <2>1 DEF Held
<1>11. ASSUME NEW x, Has(fr, x), x # n PROVE Held(a, x) = Held(fr, x)
  <2> DEFINE i == LookupLocal(fr, x)
  <2>1. i \in DOMAIN fr /\ fr[i].name = x
    BY <1>11, LookupIn
  <2>2. LookupLocal(a, x) = i
    BY <1>9, <1>11
  <2> HIDE DEF i
  <2>3. i # j
    BY <1>1, <1>11, <2>1
  <2>4. a[i] = fr[i]
    BY <1>5, <2>1, <2>3
  <2> QED BY <2>2, <2>4 DEF Held, i
<1> QED BY <1>5, <1>8, <1>10, <1>11 DEF a

\* What a name means is what lookup finds.
LEMMA SeesLook ==
  ASSUME NEW T, NEW D, frames \in Seq(Seq(Binding)), Views(T, D, frames, env),
         NEW n, NEW p, Sees(D, Len(frames), n, p)
  PROVE  /\ FrameOf(n) \in 1 .. Len(frames) /\ Has(frames[FrameOf(n)], n)
         /\ n \in DOMAIN D[FrameOf(n)].sym /\ D[FrameOf(n)].sym[n] = p
         /\ D[FrameOf(n)].call = D[Len(frames)].call
         /\ Look(n) = env[D[Len(frames)].call][p]
<1> DEFINE w == Len(frames)
           f == FrameOf(n)
<1>1. PICK g \in 1 .. w :
        /\ D[g].call = D[w].call /\ n \in DOMAIN D[g].sym /\ D[g].sym[n] = p
        /\ \A h \in g + 1 .. w : n \notin DOMAIN D[h].sym
  BY DEF Sees
<1>2. w \in Nat /\ DOMAIN frames = 1 .. w
  BY LenProperties
<1>3. \A h \in 1 .. w : Has(frames[h], n) <=> n \in DOMAIN D[h].sym
  BY DEF Views, View
<1>4. f \in 1 .. w /\ Has(frames[f], n) /\ \A h \in 1 .. w : Has(frames[h], n) => h <= f
  BY <1>1, <1>2, <1>3, FrameFound
<1> HIDE DEF f
<1>5. f = g
  <2>1. g <= f /\ ~(f \in g + 1 .. w)
    BY <1>1, <1>3, <1>4
  <2> QED BY <1>2, <1>4, <2>1
<1>6. Held(frames[f], n) = env[D[f].call][D[f].sym[n]]
  BY <1>1, <1>5 DEF Views, View
<1>7. Look(n) = Held(frames[f], n)
  BY <1>4 DEF Look, Held, f
<1> QED BY <1>1, <1>4, <1>5, <1>6, <1>7 DEF f

(* The frames after a declaration and after an assignment. *)

Naming(D, w, n, p) ==
  [g \in 1 .. w |->
     IF g = w THEN [call |-> D[w].call, level |-> D[w].level, sym |-> With(D[w].sym, n, p)] ELSE D[g]]

LEMMA NamingIs ==
  ASSUME NEW D, NEW w \in Nat, w >= 1, NEW n, NEW p
  PROVE  LET D2 == Naming(D, w, n, p)
         IN  /\ \A g \in 1 .. w : g # w => D2[g] = D[g]
             /\ \A g \in 1 .. w : D2[g].call = D[g].call /\ D2[g].level = D[g].level
             /\ DOMAIN D2[w].sym = DOMAIN D[w].sym \cup {n}
             /\ D2[w].sym[n] = p
             /\ \A x \in DOMAIN D[w].sym : x # n => D2[w].sym[x] = D[w].sym[x]
<1> DEFINE r == [call |-> D[w].call, level |-> D[w].level, sym |-> With(D[w].sym, n, p)]
           D2 == Naming(D, w, n, p)
<1>1. \A g \in 1 .. w : D2[g] = IF g = w THEN r ELSE D[g]
  BY DEF Naming
<1>2. r.call = D[w].call /\ r.level = D[w].level /\ r.sym = With(D[w].sym, n, p)
  OBVIOUS
<1>3. w \in 1 .. w
  OBVIOUS
<1>4. /\ DOMAIN With(D[w].sym, n, p) = DOMAIN D[w].sym \cup {n}
      /\ With(D[w].sym, n, p)[n] = p
      /\ \A x \in DOMAIN D[w].sym : x # n => With(D[w].sym, n, p)[x] = D[w].sym[x]
  BY DEF With
<1> HIDE DEF r, D2
<1> QED BY <1>1, <1>2, <1>3, <1>4 DEF D2

\* What Declared does to the values of the current call's declarations.
LEMMA DeclaredIs ==
  ASSUME EnvOK(env), env # << >>, NEW d, NEW v
  PROVE  /\ Len(env) \in Nat \ {0}
         /\ \A k \in 1 .. Len(env) : k # Len(env) => Declared(d, v)[k] = env[k]
         /\ d \in DOMAIN Declared(d, v)[Len(env)] /\ Declared(d, v)[Len(env)][d] = v
         /\ \A x \in DOMAIN env[Len(env)] :
              /\ x \in DOMAIN Declared(d, v)[Len(env)]
              /\ x # d => Declared(d, v)[Len(env)][x] = env[Len(env)][x]
<1> DEFINE l == Len(env)
           x == With(env[l], d, v)
<1>1. l \in Nat \ {0} /\ DOMAIN env = 1 .. l /\ l \in 1 .. l
  BY IsSeqLen DEF EnvOK
<1>2. d \in DOMAIN x /\ x[d] = v /\ \A y \in DOMAIN env[l] : y \in DOMAIN x /\ (y # d => x[y] = env[l][y])
  BY DEF With
<1>3. Declared(d, v) = [env EXCEPT ![l] = x]
  BY DEF Declared
<1> HIDE DEF x
<1>4. Declared(d, v)[l] = x
  BY <1>1, <1>3
<1>5. ASSUME NEW k \in 1 .. l, k # l PROVE Declared(d, v)[k] = env[k]
  <2>1. k \in DOMAIN env
    BY <1>1
  <2> HIDE DEF l
  <2> QED BY <1>3, <1>5, <2>1
<1>6. d \in DOMAIN Declared(d, v)[l] /\ Declared(d, v)[l][d] = v
  BY <1>2, <1>4
<1>7. \A y \in DOMAIN env[l] :
        y \in DOMAIN Declared(d, v)[l] /\ (y # d => Declared(d, v)[l][y] = env[l][y])
  BY <1>2, <1>4
<1>8. l \in Nat \ {0}
  BY <1>1
<1> QED BY <1>5, <1>6, <1>7, <1>8

\* No frame is of a later call than the last one.
LEMMA CallsUpTo ==
  ASSUME NEW c, NEW l \in Nat, NEW D, Layout(c, l, D)
  PROVE  \A g \in 1 .. Opened(c, l) : D[g].call \in 1 .. D[Opened(c, l)].call
<1> DEFINE w == Opened(c, l)
<1>1. w \in Nat /\ w >= 1 /\ w \in 1 .. w
  <2>1. w \in Nat /\ w >= 1
    BY OpenedOK
  <2> HIDE DEF w
  <2> QED BY <2>1
<1> SUFFICES ASSUME NEW g \in 1 .. w PROVE D[g].call \in 1 .. D[w].call
  OBVIOUS
<1>2. D[g].call \in Nat \ {0} /\ D[w].call \in Nat \ {0}
  BY <1>1 DEF Layout
<1>3. g < w => D[g].call < D[w].call \/ D[g].call = D[w].call
  BY <1>1 DEF Layout
<1> HIDE DEF w
<1> QED BY <1>1, <1>2, <1>3

\* Any other name than n in frame f keeps its value.
LEMMA ValuesKept ==
  ASSUME NEW c, NEW l \in Nat, NEW D, Layout(c, l, D), NEW T, Functional(T),
         Len(frames) = Opened(c, l), Views(T, D, frames, env),
         EnvOK(env), env # << >>, D[Len(frames)].call = Len(env),
         NEW f \in 1 .. Len(frames), D[f].call = Len(env),
         NEW n, NEW v, NEW p, <<p, n, D[f].level>> \in T,
         NEW g \in 1 .. Len(frames), NEW x \in DOMAIN D[g].sym, ~(g = f /\ x = n)
  PROVE  /\ D[g].sym[x] \in DOMAIN Declared(p, v)[D[g].call]
         /\ Declared(p, v)[D[g].call][D[g].sym[x]] = env[D[g].call][D[g].sym[x]]
<1> DEFINE k == Len(env)
           e == Declared(p, v)
<1>1. /\ k \in Nat \ {0}
      /\ \A j \in 1 .. k : j # k => e[j] = env[j]
      /\ \A y \in DOMAIN env[k] : y \in DOMAIN e[k] /\ (y # p => e[k][y] = env[k][y])
  BY DeclaredIs
<1>2. D[g].call \in 1 .. k
  BY CallsUpTo
<1>3. D[g].sym[x] \in DOMAIN env[D[g].call]
  BY DEF Views, View
<1> HIDE DEF e
<1> DEFINE q == D[g].call
           y == D[g].sym[x]
<1>4. CASE q # k
  <2>1. e[q] = env[q]
    BY <1>1, <1>2, <1>4
  <2> QED BY <1>3, <2>1 DEF e
<1>5. CASE q = k
  <2>1. y # p
    <3>1. CASE y = p
      <4>1. f = g /\ n = x
        BY <1>5, <3>1, Apart
      <4> QED BY <4>1
    <3> QED BY <3>1
  <2>2. y \in DOMAIN env[k]
    BY <1>3, <1>5
  <2> HIDE DEF k, y
  <2>3. y \in DOMAIN e[k] /\ e[k][y] = env[k][y]
    BY <1>1, <2>1, <2>2
  <2> HIDE DEF q
  <2> QED BY <1>5, <2>3 DEF y, q, e
<1> QED BY <1>4, <1>5 DEF e

LEMMA ViewsBound ==
  ASSUME NEW c, NEW l \in Nat, NEW D, Layout(c, l, D), NEW T, Functional(T),
         frames \in Seq(Seq(Binding)), Len(frames) = Opened(c, l), Views(T, D, frames, env),
         EnvOK(env), env # << >>, D[Len(frames)].call = Len(env),
         NEW n \in STRING, NEW v \in Value, NEW p, n \notin DOMAIN D[Len(frames)].sym,
         <<p, n, D[Len(frames)].level>> \in T
  PROVE  Views(T, Naming(D, Len(frames), n, p), Bound(n, v), Declared(p, v))
<1> DEFINE w == Len(frames)
           D2 == Naming(D, w, n, p)
           r == [name |-> n, val |-> v]
           fr == frames[w]
           a == Append(fr, r)
           b == Bound(n, v)
           e == Declared(p, v)
           k == Len(env)
<1>1. w \in Nat /\ w >= 1 /\ w \in 1 .. w /\ DOMAIN frames = 1 .. w
  <2>1. w \in Nat /\ w >= 1
    BY OpenedOK
  <2> QED BY <2>1, LenProperties
<1>2. /\ \A g \in 1 .. w : g # w => D2[g] = D[g]
      /\ \A g \in 1 .. w : D2[g].call = D[g].call /\ D2[g].level = D[g].level
      /\ DOMAIN D2[w].sym = DOMAIN D[w].sym \cup {n}
      /\ D2[w].sym[n] = p
      /\ \A x \in DOMAIN D[w].sym : x # n => D2[w].sym[x] = D[w].sym[x]
  BY <1>1, NamingIs
<1>3. /\ k \in Nat \ {0}
      /\ \A j \in 1 .. k : j # k => e[j] = env[j]
      /\ p \in DOMAIN e[k] /\ e[k][p] = v
      /\ \A x \in DOMAIN env[k] : x \in DOMAIN e[k] /\ (x # p => e[k][x] = env[k][x])
  BY DeclaredIs
<1>4. fr \in Seq(Binding) /\ \A g \in 1 .. w : frames[g] \in Seq(Binding)
  BY <1>1, ElementOfSeq
<1>5. r \in Binding /\ r.name = n /\ r.val = v
  BY DEF Binding
<1>6. \A g \in 1 .. w : View(T, D, frames, env, g)
  BY DEF Views
<1>7. ~Has(fr, n)
  BY <1>1, <1>6 DEF View
<1> HIDE DEF r, fr
<1>8. /\ \A x : Has(a, x) <=> Has(fr, x) \/ x = n
      /\ Held(a, n) = v
      /\ \A x : Has(fr, x) => Held(a, x) = Held(fr, x)
  BY <1>4, <1>5, <1>7, HeldAppended
<1>9. a \in Seq(Binding)
  BY <1>4, <1>5, AppendProperties
<1>10. Len(b) = w /\ b[w] = a /\ \A g \in 1 .. w : g # w => b[g] = frames[g]
  <2>1. b = [frames EXCEPT ![w] = a]
    BY DEF Bound, r, fr
  <2> HIDE DEF b, a
  <2>2. Len(b) = w /\ \A g \in 1 .. w : b[g] = IF g = w THEN a ELSE frames[g]
    BY <1>1, <1>9, <2>1, ExceptSeq
  <2> QED BY <1>1, <2>2
<1>12. ASSUME NEW g \in 1 .. w, NEW x \in DOMAIN D[g].sym
       PROVE  /\ D[g].sym[x] \in DOMAIN e[D[g].call]
              /\ e[D[g].call][D[g].sym[x]] = env[D[g].call][D[g].sym[x]]
  <2>1. ~(g = w /\ x = n)
    OBVIOUS
  <2>2. /\ l \in Nat /\ Layout(c, l, D) /\ Functional(T) /\ Len(frames) = Opened(c, l)
        /\ Views(T, D, frames, env) /\ EnvOK(env) /\ env # << >> /\ D[Len(frames)].call = Len(env)
    OBVIOUS
  <2>3. w \in 1 .. Len(frames) /\ D[w].call = Len(env) /\ <<p, n, D[w].level>> \in T
    BY <1>1
  <2>4. g \in 1 .. Len(frames) /\ x \in DOMAIN D[g].sym
    OBVIOUS
  <2> HIDE DEF w, e
  <2> QED BY ONLY <2>1, <2>2, <2>3, <2>4, ValuesKept DEF e
<1> HIDE DEF w, D2, a, b, e, k
<1>13. ASSUME NEW g \in 1 .. w PROVE View(T, D2, b, e, g)
  <2>1. CASE g # w
    BY <1>2, <1>6, <1>10, <1>12, <2>1 DEF View
  <2>2. CASE g = w
    <3>1. \A x : Has(b[w], x) <=> x \in DOMAIN D2[w].sym
      BY <1>1, <1>2, <1>6, <1>8, <1>10 DEF View, fr
    <3>2. ASSUME NEW x \in DOMAIN D2[w].sym
          PROVE  /\ D2[w].sym[x] \in DOMAIN e[D2[w].call]
                 /\ Held(b[w], x) = e[D2[w].call][D2[w].sym[x]]
                 /\ <<D2[w].sym[x], x, D2[w].level>> \in T
      <4>1. D2[w].call = D[w].call /\ D2[w].level = D[w].level /\ D[w].call = k
        BY <1>1, <1>2 DEF w, k
      <4>2. CASE x = n
        <5>1. D2[w].sym[x] = p /\ Held(b[w], x) = v /\ e[k][p] = v /\ p \in DOMAIN e[k]
          BY <1>2, <1>3, <1>8, <1>10, <4>2
        <5>2. <<p, n, D[w].level>> \in T
          BY DEF w
        <5> QED BY <4>1, <4>2, <5>1, <5>2
      <4>3. CASE x # n
        <5>1. x \in DOMAIN D[w].sym /\ D2[w].sym[x] = D[w].sym[x]
          BY <1>2, <4>3
        <5>2. Has(fr, x) /\ Held(fr, x) = env[D[w].call][D[w].sym[x]] /\ <<D[w].sym[x], x, D[w].level>> \in T
          BY <1>1, <1>6, <5>1 DEF View, fr
        <5>3. Held(b[w], x) = Held(fr, x)
          BY <1>8, <1>10, <5>2
        <5> QED BY <1>1, <1>12, <4>1, <5>1, <5>2, <5>3
      <4> QED BY <4>2, <4>3
    <3> QED BY <2>2, <3>1, <3>2 DEF View
  <2> QED BY <2>1, <2>2
<1> QED BY <1>10, <1>13 DEF Views, w, D2, b, e

LEMMA ViewsRebound ==
  ASSUME NEW c, NEW l \in Nat, NEW D, Layout(c, l, D), NEW T, Functional(T),
         frames \in Seq(Seq(Binding)), Len(frames) = Opened(c, l), Views(T, D, frames, env),
         EnvOK(env), env # << >>, D[Len(frames)].call = Len(env),
         NEW n, NEW v \in Value, NEW p, Sees(D, Len(frames), n, p)
  PROVE  Views(T, D, Rebound(n, v), Declared(p, v))
<1> DEFINE w == Len(frames)
           f == FrameOf(n)
           fr == frames[f]
           a == [fr EXCEPT ![LookupLocal(fr, n)].val = v]
           b == Rebound(n, v)
           e == Declared(p, v)
           k == Len(env)
<1>1. w \in Nat /\ DOMAIN frames = 1 .. w
  BY LenProperties
<1>2. /\ f \in 1 .. w /\ Has(frames[f], n)
      /\ n \in DOMAIN D[f].sym /\ D[f].sym[n] = p /\ D[f].call = k
  BY SeesLook
<1>3. \A g \in 1 .. w : View(T, D, frames, env, g)
  BY DEF Views
<1>4. <<p, n, D[f].level>> \in T
  BY <1>2, <1>3 DEF View
<1>5. p \in DOMAIN e[k] /\ e[k][p] = v
  BY DeclaredIs
<1>6. ASSUME NEW g \in 1 .. w, NEW x \in DOMAIN D[g].sym, ~(g = f /\ x = n)
      PROVE  /\ D[g].sym[x] \in DOMAIN e[D[g].call]
             /\ e[D[g].call][D[g].sym[x]] = env[D[g].call][D[g].sym[x]]
  <2> HIDE DEF f
  <2> QED BY <1>2, <1>4, <1>6, ValuesKept
<1>7. fr \in Seq(Binding)
  BY <1>1, <1>2, ElementOfSeq
<1> HIDE DEF f
<1>8. b = [frames EXCEPT ![f] = a]
  <2>1. f # 0
    BY <1>2
  <2> QED BY <2>1 DEF Rebound, f
<1> HIDE DEF fr, a
<1>9. /\ a \in Seq(Binding)
      /\ \A x : Has(a, x) <=> Has(fr, x)
      /\ Held(a, n) = v
      /\ \A x : Has(fr, x) /\ x # n => Held(a, x) = Held(fr, x)
  <2>1. Has(fr, n)
    BY <1>2 DEF fr
  <2> DEFINE j == LookupLocal(fr, n)
             r == [fr[j] EXCEPT !.val = v]
  <2>2. j \in DOMAIN fr /\ fr[j].name = n /\ DOMAIN fr = 1 .. Len(fr)
    BY <1>7, <2>1, LookupIn, LenProperties
  <2>3. a = [fr EXCEPT ![j] = r]
    BY DEF a
  <2> HIDE DEF j
  <2>4. fr[j] \in Binding
    BY <1>7, <2>2, ElementOfSeq
  <2>5. r \in Binding /\ r.name = n /\ r.val = v
    BY <2>2, <2>4 DEF Binding
  <2> HIDE DEF r
  <2>6. a = Put(fr, n, r)
    BY <2>3 DEF j, Put
  <2> HIDE DEF a
  <2> QED BY <1>7, <2>1, <2>5, <2>6, HeldReplaced
<1> HIDE DEF a, b
<1>10. Len(b) = w /\ \A g \in 1 .. w : b[g] = IF g = f THEN a ELSE frames[g]
  BY <1>2, <1>8, <1>9, ExceptSeq
<1> HIDE DEF w, e, k
<1>11. ASSUME NEW g \in 1 .. w PROVE View(T, D, b, e, g)
  <2>1. CASE g # f
    <3>1. b[g] = frames[g]
      BY <1>10, <2>1
    <3> QED BY <1>3, <1>6, <2>1, <3>1 DEF View
  <2>2. CASE g = f
    <3>1. b[g] = a /\ frames[g] = fr
      BY <1>10, <2>2 DEF fr
    <3>2. \A x : Has(fr, x) <=> x \in DOMAIN D[g].sym
      BY <1>3, <3>1 DEF View
    <3>3. ASSUME NEW x \in DOMAIN D[g].sym
          PROVE  /\ D[g].sym[x] \in DOMAIN e[D[g].call]
                 /\ Held(a, x) = e[D[g].call][D[g].sym[x]]
                 /\ <<D[g].sym[x], x, D[g].level>> \in T
      <4>1. CASE x = n
        BY <1>2, <1>4, <1>5, <1>9, <2>2, <4>1
      <4>2. CASE x # n
        <5>1. Held(a, x) = Held(fr, x)
          BY <1>9, <3>2, <4>2
        <5>2. Held(fr, x) = env[D[g].call][D[g].sym[x]] /\ <<D[g].sym[x], x, D[g].level>> \in T
          BY <1>3, <3>1 DEF View
        <5> QED BY <1>6, <4>2, <5>1, <5>2
      <4> QED BY <4>1, <4>2
    <3> QED BY <1>9, <3>1, <3>2, <3>3 DEF View
  <2> QED BY <2>1, <2>2
<1> QED BY <1>10, <1>11 DEF Views, w, b, e

\* The frames after a push and a pop.
LEMMA ViewsPushed ==
  ASSUME NEW T, NEW D, NEW fr, NEW ev, Views(T, D, fr, ev), NEW w \in Nat, Len(fr) = w,
         NEW D2, NEW fr2, NEW ev2, Len(fr2) = w + 1,
         \A g \in 1 .. w : D2[g] = D[g] /\ fr2[g] = fr[g] /\ ev2[D[g].call] = ev[D[g].call],
         View(T, D2, fr2, ev2, w + 1)
  PROVE  Views(T, D2, fr2, ev2)
<1>1. ASSUME NEW g \in 1 .. w PROVE View(T, D2, fr2, ev2, g)
  BY DEF Views, View
<1>2. \A g \in 1 .. w + 1 : g \in 1 .. w \/ g = w + 1
  OBVIOUS
<1> QED BY <1>1, <1>2 DEF Views

LEMMA ViewsPopped ==
  ASSUME NEW T, NEW D, NEW fr, NEW ev, Views(T, D, fr, ev),
         NEW fr2, NEW ev2, NEW w \in Nat, Len(fr2) = w, Len(fr) \in Nat, w <= Len(fr),
         \A g \in 1 .. w : fr2[g] = fr[g] /\ ev2[D[g].call] = ev[D[g].call]
  PROVE  Views(T, D, fr2, ev2)
<1>1. \A g \in 1 .. w : g \in 1 .. Len(fr)
  OBVIOUS
<1> QED BY <1>1 DEF Views, View

(* What is under way after a declaration and after an assignment. *)

LEMMA LayoutLike ==
  ASSUME NEW c, NEW l \in Nat, NEW D, NEW D2, Layout(c, l, D),
         \A g \in 1 .. Opened(c, l) : D2[g].call = D[g].call /\ D2[g].level = D[g].level
  PROVE  Layout(c, l, D2)
<1>1. \A m \in 0 .. l : Opened(c, m) \in 1 .. Opened(c, l)
  <2> SUFFICES ASSUME NEW m \in 0 .. l PROVE Opened(c, m) \in 1 .. Opened(c, l)
    OBVIOUS
  <2>1. m \in Nat /\ m <= l
    OBVIOUS
  <2>2. /\ Opened(c, m) \in Nat /\ Opened(c, m) >= 1 /\ Opened(c, m) <= Opened(c, l)
        /\ Opened(c, l) \in Nat
    BY <2>1, OpenedOK
  <2> QED BY <2>2
<1> QED BY <1>1 DEF Layout

LEMMA SeesNamed ==
  ASSUME NEW D, NEW w \in Nat, w >= 1, NEW n, NEW p, NEW x, NEW q, x # n, Sees(D, w, x, q)
  PROVE  Sees(Naming(D, w, n, p), w, x, q)
<1> DEFINE D2 == Naming(D, w, n, p)
<1>1. PICK g \in 1 .. w :
        /\ D[g].call = D[w].call /\ x \in DOMAIN D[g].sym /\ D[g].sym[x] = q
        /\ \A h \in g + 1 .. w : x \notin DOMAIN D[h].sym
  BY DEF Sees
<1>2. w \in 1 .. w /\ \A h \in g + 1 .. w : h \in 1 .. w
  OBVIOUS
<1>3. /\ \A h \in 1 .. w : h # w => D2[h] = D[h]
      /\ \A h \in 1 .. w : D2[h].call = D[h].call
      /\ DOMAIN D2[w].sym = DOMAIN D[w].sym \cup {n}
      /\ \A y \in DOMAIN D[w].sym : y # n => D2[w].sym[y] = D[w].sym[y]
  BY NamingIs
<1> HIDE DEF D2
<1>4. D2[g].call = D2[w].call
  BY <1>1, <1>2, <1>3
<1>5. x \in DOMAIN D2[g].sym /\ D2[g].sym[x] = q
  <2>1. CASE g = w
    BY <1>1, <1>3, <2>1
  <2>2. CASE g # w
    BY <1>1, <1>3, <2>2
  <2> QED BY <2>1, <2>2
<1>6. ASSUME NEW h \in g + 1 .. w PROVE x \notin DOMAIN D2[h].sym
  <2>1. x \notin DOMAIN D[h].sym /\ h \in 1 .. w
    BY <1>1, <1>2
  <2>2. CASE h = w
    BY <1>3, <2>1, <2>2
  <2>3. CASE h # w
    BY <1>3, <2>1, <2>3
  <2> QED BY <2>2, <2>3
<1> QED BY <1>4, <1>5, <1>6 DEF Sees, D2

LEMMA SeesNew ==
  ASSUME NEW D, NEW w \in Nat, w >= 1, NEW n, NEW p PROVE Sees(Naming(D, w, n, p), w, n, p)
<1> DEFINE D2 == Naming(D, w, n, p)
<1>1. w \in 1 .. w /\ n \in DOMAIN D2[w].sym /\ D2[w].sym[n] = p /\ \A h \in w + 1 .. w : FALSE
  <2>1. DOMAIN D2[w].sym = DOMAIN D[w].sym \cup {n} /\ D2[w].sym[n] = p
    BY NamingIs
  <2> HIDE DEF D2
  <2> QED BY <2>1
<1> HIDE DEF D2
<1> QED BY <1>1 DEF Sees, D2

\* What is below a body whose own name n is bound.
LEMMA ScopesNamed ==
  ASSUME NEW J, NEW c, NEW D, NEW i \in Nat, i <= Len(c), Len(c) \in Nat,
         \A j \in 1 .. i : ScopeOK(J, c, D, j), NEW n, n \in Own(c, i), NEW p
  PROVE  \A j \in 1 .. i - 1 : ScopeOK(J, c, Naming(D, Opened(c, i), n, p), j)
<1> DEFINE w == Opened(c, i)
           D2 == Naming(D, w, n, p)
<1>1. w \in Nat /\ w >= 1
  BY OpenedOK
<1>2. /\ \A g \in 1 .. w : g # w => D2[g] = D[g]
      /\ \A g \in 1 .. w : D2[g].level = D[g].level
      /\ DOMAIN D2[w].sym = DOMAIN D[w].sym \cup {n}
  BY <1>1, NamingIs
<1> SUFFICES ASSUME NEW j \in 1 .. i - 1 PROVE ScopeOK(J, c, D2, j)
  OBVIOUS
<1> DEFINE u == Opened(c, j)
<1>3. u \in Nat /\ u >= 1 /\ u <= w /\ u \in 1 .. w
  <2>1. j \in Nat /\ j <= i
    OBVIOUS
  <2>2. u \in Nat /\ u >= 1 /\ u <= w
    BY <2>1, OpenedOK
  <2> HIDE DEF u, w
  <2> QED BY <1>1, <2>2
<1>4. u = w => Beside(c, j, i)
  <2> SUFFICES ASSUME u = w, NEW k \in j + 1 .. i PROVE c[k].k \notin Framed
    BY DEF Beside
  <2>1. k - 1 \in Nat /\ (k - 1) + 1 = k /\ j \in Nat /\ j <= k - 1 /\ k \in Nat /\ k <= i
    OBVIOUS
  <2> DEFINE m == k - 1
  <2> HIDE DEF m
  <2>2. m \in Nat /\ m + 1 = k /\ j <= m
    BY <2>1 DEF m
  <2>3. /\ Opened(c, j) <= Opened(c, m) /\ Opened(c, m + 1) <= Opened(c, i)
        /\ Opened(c, m) \in Nat /\ Opened(c, m + 1) \in Nat
        /\ Opened(c, m + 1) = Opened(c, m) + (IF c[m + 1].k \in Framed THEN 1 ELSE 0)
    BY <2>1, <2>2, OpenedOK
  <2>4. Opened(c, j) = Opened(c, i) /\ Opened(c, i) \in Nat
    BY <1>1
  <2>5. ASSUME c[k].k \in Framed PROVE FALSE
    <3>1. Opened(c, m + 1) = Opened(c, m) + 1
      BY <2>2, <2>3, <2>5
    <3> QED BY <2>3, <2>4, <3>1
  <2> QED BY <2>5
<1> HIDE DEF D2, w, u
<1>5. ASSUME NEW d, Scoped(d, c, D, j) PROVE Scoped(d, c, D2, j)
  <2>1. /\ d.level = D[u].level
        /\ \A x \in DOMAIN d.sym : Sees(D, u, x, d.sym[x])
        /\ Own(c, j) \cap DOMAIN D[u].sym = {}
        /\ \A y \in j + 1 .. Len(c) :
             Beside(c, j, y) => Own(c, y) \cap (Own(c, j) \cup DOMAIN d.sym) = {}
    BY <1>5 DEF Scoped, u
  <2>2. CASE u # w
    <3>1. \A g \in 1 .. u : D2[g] = D[g]
      BY <1>1, <1>2, <1>3, <2>2
    <3>2. \A x \in DOMAIN d.sym : Sees(D2, u, x, d.sym[x])
      BY <1>3, <2>1, <3>1, SeesSame
    <3>3. D2[u] = D[u]
      BY <1>3, <3>1
    <3> QED BY <2>1, <3>2, <3>3 DEF Scoped, u
  <2>3. CASE u = w
    <3>1. n \notin Own(c, j) /\ n \notin DOMAIN d.sym
      <4>1. i \in j + 1 .. Len(c)
        OBVIOUS
      <4> QED BY <1>4, <2>1, <2>3, <4>1
    <3>2. \A x \in DOMAIN d.sym : x # n /\ Sees(D2, u, x, d.sym[x])
      BY <1>1, <2>1, <2>3, <3>1, SeesNamed DEF D2
    <3>3. D2[u].level = D[u].level /\ DOMAIN D2[u].sym = DOMAIN D[u].sym \cup {n}
      BY <1>2, <1>3, <2>3
    <3> QED BY <2>1, <3>1, <3>2, <3>3 DEF Scoped, u
  <2> QED BY <2>2, <2>3
<1>6. ScopeOK(J, c, D, j)
  OBVIOUS
<1> QED BY <1>5, <1>6 DEF ScopeOK

After(D, w, s) == IF IsDecl(s) THEN Naming(D, w, s.name, s.at) ELSE D

\* The body at i, which is on top when its first statement is over.
LEMMA ScopesFinished ==
  ASSUME NEW J, NEW p, NEW b, Judged(p, b, J), Plain(p, J, Local),
         NEW c, Len(c) \in Nat, NEW D, NEW i \in Nat, i >= 1, i <= Len(c),
         \A j \in 1 .. i : ScopeOK(J, c, D, j), Layout(c, Len(c), D), c[i].k = "body",
         NEW d \in J, Before(d, c, i), Scoped(d, c, D, i), d.body # << >>,
         NEW e, Len(e) = i, \A j \in 1 .. i - 1 : e[j] = c[j],
         e[i].k = "body", e[i].rest = Tail(d.body)
  PROVE  LET D2 == After(D, Opened(c, i), Head(d.body))
         IN  Scopes(J, e, D2) /\ Layout(e, Len(e), D2)
<1> DEFINE s == Head(d.body)
           w == Opened(c, i)
           D2 == After(D, w, s)
           a == AfterIt(d)
<1>1. e[i].k = "body" /\ e[i].rest = Tail(d.body)
  OBVIOUS
<1>2. /\ i - 1 \in Nat /\ i - 1 <= Len(c) /\ i - 1 <= Len(e) /\ (i - 1) + 1 = i /\ Len(e) \in Nat
      /\ \A j \in 1 .. i : j \in 1 .. i - 1 \/ j = i
  OBVIOUS
<1>3. \A j \in 1 .. i : e[j].k = c[j].k
  BY <1>1, <1>2
<1>4. w \in Nat /\ w >= 1
  BY OpenedOK
<1>5. a \in J
  BY DEF Judged, Kept
<1>6. Unconfused(d, Local)
  BY DEF Plain
<1>7. ~Pending(e, i) /\ Owed(e, i) = {} /\ Own(e, i) = Local(Tail(d.body))
  <2>1. ~Pending(e, i) /\ Owed(e, i) = {}
    BY DEF Pending, Owed
  <2> QED BY <1>1, <2>1 DEF Own
<1>8. /\ Local(Tail(d.body)) \subseteq Own(c, i)
      /\ IsDecl(s) => s.name \in Own(c, i) /\ s.name \notin Local(Tail(d.body))
  BY <1>6, OwnFirst
<1>9. /\ ~Pending(e, i - 1) /\ ~Pending(c, i - 1)
      /\ \A j \in (i - 1) + 1 .. Len(e) : Own(e, j) \subseteq Own(c, j) /\ j \in (i - 1) + 1 .. Len(c)
      /\ \A j \in (i - 1) + 1 .. Len(e) : Beside(c, i - 1, j)
  <2>1. \A j \in (i - 1) + 1 .. Len(e) : j = i
    BY <1>2
  <2>2. Own(e, i) \subseteq Own(c, i)
    BY <1>7, <1>8
  <2>3. Beside(c, i - 1, i)
    BY <1>2 DEF Beside, Framed
  <2> QED BY <1>1, <1>2, <2>1, <2>2, <2>3 DEF Pending
<1> HIDE DEF s, w, a
<1>10. \A j \in 1 .. i - 1 : ScopeOK(J, c, D2, j)
  <2>1. CASE IsDecl(s)
    <3>1. \A j \in 1 .. i - 1 : ScopeOK(J, c, Naming(D, Opened(c, i), s.name, s.at), j)
      BY <1>8, <2>1, ScopesNamed
    <3> QED BY <2>1, <3>1 DEF After, w
  <2>2. CASE ~IsDecl(s)
    BY <1>2, <2>2 DEF After
  <2> QED BY <2>1, <2>2
<1>11. \A j \in 1 .. i - 1 : ScopeOK(J, e, D2, j)
  <2> HIDE DEF D2
  <2>1. \A j \in (i - 1) + 1 .. Len(e) : Beside(e, i - 1, j) =>
          \/ Own(e, j) = {}
          \/ \E x \in (i - 1) + 1 .. Len(c) : Beside(c, i - 1, x) /\ Own(e, j) \subseteq Own(c, x)
    BY <1>9
  <2> DEFINE m == i - 1
  <2>2. m \in Nat /\ m <= Len(c) /\ m <= Len(e) /\ Pending(e, m) = Pending(c, m) /\ ~Pending(c, m)
    BY <1>2, <1>9 DEF Pending
  <2>3. \A j \in m + 1 .. Len(e) : Beside(e, m, j) =>
          \/ Own(e, j) = {}
          \/ \E x \in m + 1 .. Len(c) : Beside(c, m, x) /\ Own(e, j) \subseteq Own(c, x)
    BY <2>1
  <2>4. \A j \in 1 .. m : ScopeOK(J, c, D2, j) /\ e[j] = c[j]
    BY <1>10
  <2> HIDE DEF m
  <2>5. \A j \in 1 .. m : ScopeOK(J, e, D2, j)
    BY <1>2, <2>2, <2>3, <2>4, ScopesKept
  <2> QED BY <2>5 DEF m
<1>12. Before(a, e, i) /\ Scoped(a, e, D2, i)
  <2>1. CASE ~IsDecl(s)
    <3>1. \A j \in i + 1 .. Len(e) : FALSE
      OBVIOUS
    <3>2. Before(a, e, i) /\ Scoped(a, e, D, i)
      BY <1>1, <1>3, <1>6, <1>7, <2>1, <3>1, ScopedAfter DEF a, s
    <3> QED BY <2>1, <3>2 DEF After
  <2>2. CASE IsDecl(s)
    <3>1. D2 = Naming(D, w, s.name, s.at)
      BY <2>2 DEF After
    <3> HIDE DEF D2
    <3>2. a.body = Tail(d.body) /\ a.sym = With(d.sym, s.name, s.at) /\ a.level = d.level
      BY <2>2 DEF AfterIt, Judgement, a, s
    <3>3. Before(a, e, i)
      BY <1>1, <1>7, <3>2 DEF Before
    <3>4. /\ d.level = D[w].level
          /\ \A x \in DOMAIN d.sym : Sees(D, w, x, d.sym[x])
          /\ Own(c, i) \cap DOMAIN D[w].sym = {}
      BY DEF Scoped, w
    <3>5. /\ DOMAIN a.sym = DOMAIN d.sym \cup {s.name}
          /\ a.sym[s.name] = s.at
          /\ \A x \in DOMAIN d.sym : x # s.name => a.sym[x] = d.sym[x]
      BY <3>2 DEF With
    <3>6. Sees(D2, w, s.name, s.at)
      BY <1>4, <3>1, SeesNew
    <3>7. \A x \in DOMAIN d.sym : x # s.name => Sees(D2, w, x, d.sym[x])
      BY <1>4, <3>1, <3>4, SeesNamed
    <3>8. \A x \in DOMAIN a.sym : Sees(D2, w, x, a.sym[x])
      BY <3>5, <3>6, <3>7
    <3>9. D2[w].level = D[w].level /\ DOMAIN D2[w].sym = DOMAIN D[w].sym \cup {s.name}
      <4>1. w \in 1 .. w
        BY <1>4
      <4> QED BY <1>4, <3>1, <4>1, NamingIs
    <3>10. Own(e, i) \cap DOMAIN D2[w].sym = {}
      BY <1>7, <1>8, <2>2, <3>4, <3>9
    <3>11. Opened(e, i) = w
      BY <1>3, OpenedSame DEF w
    <3>12. \A j \in i + 1 .. Len(e) : FALSE
      OBVIOUS
    <3> QED BY <3>2, <3>3, <3>4, <3>8, <3>9, <3>10, <3>11, <3>12 DEF Scoped
  <2> QED BY <2>1, <2>2
<1>13. Scopes(J, e, D2)
  <2>1. ScopeOK(J, e, D2, i)
    BY <1>1, <1>5, <1>12 DEF ScopeOK
  <2> HIDE DEF D2
  <2> QED BY <1>2, <1>11, <2>1 DEF Scopes
<1>14. Layout(e, i, D2)
  <2>1. Layout(e, i, D)
    <3>1. \A g \in 1 .. Opened(c, i) : D[g] = D[g]
      OBVIOUS
    <3> QED BY <1>3, LayoutSame
  <2>2. CASE ~IsDecl(s)
    BY <2>1, <2>2 DEF After
  <2>3. CASE IsDecl(s)
    <3>1. D2 = Naming(D, w, s.name, s.at)
      BY <2>3 DEF After
    <3>2. \A g \in 1 .. w : D2[g].call = D[g].call /\ D2[g].level = D[g].level
      <4>1. \A g \in 1 .. w : /\ Naming(D, w, s.name, s.at)[g].call = D[g].call
                             /\ Naming(D, w, s.name, s.at)[g].level = D[g].level
        BY <1>4, NamingIs
      <4> QED BY <3>1, <4>1
    <3>3. Opened(e, i) = w
      BY <1>3, OpenedSame DEF w
    <3> HIDE DEF D2
    <3> QED BY <2>1, <3>2, <3>3, LayoutLike
  <2> QED BY <2>2, <2>3
<1> QED BY <1>13, <1>14 DEF w, s

\* Finish, of a statement whose names mean what its judgement says.
LEMMA FinishViews ==
  ASSUME NEW J, Judged(prog, nodeSym, J), NEW D, NEW c, NEW l \in Nat, Layout(c, l, D),
         frames \in Seq(Seq(Binding)), Len(frames) = Opened(c, l),
         Views(Declarations(prog, J), D, frames, env),
         EnvOK(env), env # << >>, D[Len(frames)].call = Len(env),
         NEW d \in J, d.body # << >>, d.level = D[Len(frames)].level,
         \A n \in DOMAIN d.sym : Sees(D, Len(frames), n, d.sym[n]),
         IsDecl(Head(d.body)) => Head(d.body).name \notin DOMAIN D[Len(frames)].sym,
         Head(d.body).kind \in Simples, Head(d.body).name \in STRING,
         NEW v, Head(d.body).kind # "return" => v \in Value, NEW e, Finish(Head(d.body), v, e)
  PROVE  ctl' = e /\ Views(Declarations(prog, J), After(D, Len(frames), Head(d.body)), frames', env')
<1> DEFINE s == Head(d.body)
           w == Len(frames)
           T == Declarations(prog, J)
<1>1. Functional(T)
  BY DEF Judged, Functional
<1>2. NamesUsed(s) \subseteq DOMAIN d.sym /\ Denotes(s, d.sym, nodeSym)
  BY DEF Judged, Kept
<1>3. CASE s.kind \in {"let", "var"}
  <2>1. /\ ctl' = e /\ frames' = Bound(s.name, v) /\ env' = Declared(s.at, v)
    BY <1>3 DEF Finish
  <2>2. <<s.at, s.name, D[w].level>> \in T
    BY <1>3 DEF Declarations, IsDecl
  <2>3. IsDecl(s) /\ v \in Value
    BY <1>3 DEF IsDecl
  <2> HIDE DEF T, s
  <2>4. s.name \notin DOMAIN D[w].sym /\ s.name \in STRING /\ Views(T, D, frames, env)
    BY <2>3 DEF s, T
  <2>5. Views(T, Naming(D, w, s.name, s.at), Bound(s.name, v), Declared(s.at, v))
    BY <1>1, <2>2, <2>3, <2>4, ViewsBound
  <2> QED BY <2>1, <2>3, <2>5 DEF After, s, T
<1>4. CASE s.kind = "assign"
  <2> DEFINE p == nodeSym[<<s.at, "target">>].at
  <2>1. ctl' = e /\ frames' = Rebound(s.name, v) /\ env' = Declared(p, v)
    BY <1>4 DEF Finish
  <2>2. s.name \in NamesUsed(s) /\ <<s.name, "target">> \in NamesOf(s)
    BY <1>4 DEF NamesUsed, NamesOf
  <2>3. s.name \in DOMAIN d.sym /\ p = d.sym[s.name]
    <3>1. nodeSym[<<s.at, <<s.name, "target">>[2]>>].at = d.sym[<<s.name, "target">>[1]]
      BY <1>2, <2>2 DEF Denotes
    <3> QED BY <1>2, <2>2, <3>1
  <2>4. Sees(D, w, s.name, p)
    BY <2>3
  <2>5. ~IsDecl(s) /\ v \in Value
    BY <1>4 DEF IsDecl
  <2> HIDE DEF T, s, p
  <2>6. Views(T, D, frames, env)
    BY DEF T
  <2>7. Views(T, D, Rebound(s.name, v), Declared(p, v))
    BY <1>1, <2>4, <2>5, <2>6, ViewsRebound
  <2> QED BY <2>1, <2>5, <2>7 DEF After, s, T
<1>5. CASE s.kind \in {"print", "return"}
  <2>1. ctl' = e /\ frames' = frames /\ env' = env
    BY <1>5 DEF Finish
  <2>2. ~IsDecl(s)
    BY <1>5 DEF IsDecl
  <2> QED BY <2>1, <2>2 DEF After
<1> QED BY <1>3, <1>4, <1>5 DEF Simples

MeantNext(J) == \E D : Meant(J, Declarations(prog, J), ctl', D, frames', env')

\* Simple and Deliver.
LEMMA FinishMeant ==
  ASSUME NEW J, Judged(prog, nodeSym, J), Plain(prog, J, Local), IInv(J), ctl # << >>,
         NEW D, Meant(J, Declarations(prog, J), ctl, D, frames, env),
         NEW i \in Nat, i >= 1, i <= Len(ctl), Opened(ctl, i) = Len(frames), ctl[i].k = "body",
         NEW d \in J, Before(d, ctl, i), Scoped(d, ctl, D, i), d.body # << >>,
         Head(d.body).kind \in Simples, Head(d.body).name \in STRING,
         NEW v, Head(d.body).kind # "return" => v \in Value,
         NEW e, Finish(Head(d.body), v, e),
         Len(e) = i, \A j \in 1 .. i - 1 : e[j] = ctl[j],
         e[i].k = "body", e[i].rest = Tail(d.body)
  PROVE  MeantNext(J)
<1> DEFINE n == Len(ctl)
           s == Head(d.body)
           w == Len(frames)
           D2 == After(D, w, s)
<1>1. /\ n \in Nat \ {0} /\ frames \in Seq(Seq(Binding)) /\ EnvOK(env) /\ env # << >>
      /\ w = Opened(ctl, n) /\ Len(env) = 1 + Count(ctl, n, {"call"})
  BY AtTop
<1>2. /\ Scopes(J, ctl, D) /\ Layout(ctl, n, D) /\ Views(Declarations(prog, J), D, frames, env)
  BY DEF Meant
<1>3. D[w].call = Len(env)
  <2>1. n \in 0 .. n
    BY <1>1
  <2> QED BY <1>1, <1>2, <2>1 DEF Layout
<1>4. /\ d.level = D[w].level
      /\ \A x \in DOMAIN d.sym : Sees(D, w, x, d.sym[x])
      /\ Own(ctl, i) \cap DOMAIN D[w].sym = {}
  BY DEF Scoped
<1>5. IsDecl(s) => s.name \notin DOMAIN D[w].sym
  <2>1. Unconfused(d, Local)
    BY DEF Plain
  <2>2. IsDecl(s) => s.name \in Own(ctl, i)
    BY <2>1, OwnFirst
  <2> QED BY <1>4, <2>2
<1>6. ctl' = e /\ Views(Declarations(prog, J), D2, frames', env')
  <2> HIDE DEF n, w, s, D2
  <2>1. n \in Nat
    BY <1>1
  <2> QED BY <1>1, <1>2, <1>3, <1>4, <1>5, <2>1, FinishViews DEF w, s, D2
<1>7. Scopes(J, e, D2) /\ Layout(e, Len(e), D2)
  <2>1. \A j \in 1 .. i : ScopeOK(J, ctl, D, j)
    <3>1. \A j \in 1 .. i : j \in 1 .. n
      BY <1>1
    <3> QED BY <1>2, <3>1 DEF Scopes
  <2>2. n \in Nat
    BY <1>1
  <2>3. Scopes(J, e, After(D, Opened(ctl, i), Head(d.body))) /\ Layout(e, Len(e), After(D, Opened(ctl, i), Head(d.body)))
    BY <1>2, <2>1, <2>2, ScopesFinished
  <2> QED BY <2>3
<1> HIDE DEF D2
<1> QED BY <1>6, <1>7 DEF Meant, MeantNext

LEMMA SimpleMeant ==
  ASSUME NEW J, Judged(prog, nodeSym, J), Plain(prog, J, Local), IInv(J),
         NEW D, Meant(J, Declarations(prog, J), ctl, D, frames, env), Simple
  PROVE  MeantNext(J)
<1> DEFINE n == Len(ctl)
           s == Stmt
           v == Eval(Stmt.e)
<1>1. /\ AtStmt /\ s.kind \in Simples /\ s.e.op # "call" /\ v <= MaxInt
      /\ Finish(s, v, Advanced)
  BY DEF Simple, Current, Simples
<1>2. /\ IsSeq(ctl) /\ n \in Nat \ {0} /\ ctl # << >>
      /\ ctl[n].k = "body" /\ ctl[n].rest # << >> /\ s = Head(ctl[n].rest)
      /\ frames \in Seq(Seq(Binding)) /\ Len(frames) = Opened(ctl, n)
  BY <1>1, AtTop, AtStatement
<1>3. PICK d \in J : Before(d, ctl, n) /\ Scoped(d, ctl, D, n)
  <2>1. n \in 1 .. n
    BY <1>2
  <2> QED BY <1>2, <2>1 DEF Meant, Scopes, ScopeOK
<1>4. d.body = ctl[n].rest
  BY <1>2, <1>3 DEF Before, Pending
<1>5. PICK b \in J : /\ b.body = ctl[n].rest /\ \A x \in DOMAIN b.sym : Seen(x, ctl, frames, n)
  BY <1>1, AtStatement
<1>6. Shaped(s, Callable(prog)) /\ NamesUsed(s) \subseteq DOMAIN b.sym
  BY <1>1, <1>5, AtStatement
<1>7. /\ s.e.op \in {"lit", "name", "plus", "none"} /\ s.e.v \in Nat /\ s.name \in STRING
      /\ s.kind # "return" => s.e.op # "none"
  BY <1>1, <1>6 DEF Shaped, Simples
<1>8. s.e.op = "name" => FrameOf(s.e.n) # 0
  <2>1. s.e.op = "name" => s.e.n \in NamesUsed(s)
    BY DEF NamesUsed, UsesName
  <2> QED BY <1>2, <1>5, <1>6, <2>1, SeenFound
<1>9. s.kind # "return" => v \in Value
  BY <1>1, <1>2, <1>7, <1>8, EvalOK
<1>10. /\ Len(Advanced) = n /\ \A i \in 1 .. n - 1 : Advanced[i] = ctl[i]
       /\ Advanced[n].k = "body" /\ Advanced[n].rest = Tail(ctl[n].rest)
  <2>1. /\ Len(Advanced) = n /\ \A i \in 1 .. n - 1 : Advanced[i] = ctl[i]
        /\ Advanced[n] = Body(Tail(ctl[n].rest))
    BY <1>1, AdvancedTo
  <2> QED BY <2>1 DEF Body
<1>11. n \in Nat /\ n >= 1 /\ n <= Len(ctl)
  BY <1>2
<1> HIDE DEF n, s, v
<1> QED BY <1>1, <1>2, <1>3, <1>4, <1>7, <1>9, <1>10, <1>11, FinishMeant DEF n, s

LEMMA DeliverMeant ==
  ASSUME NEW J, Judged(prog, nodeSym, J), Plain(prog, J, Local), IInv(J),
         NEW D, Meant(J, Declarations(prog, J), ctl, D, frames, env), Deliver
  PROVE  MeantNext(J)
<1> DEFINE n == Len(ctl)
           i == n - 1
           s == ctl[n].s
           e == Front(ctl)
<1>1. ctl # << >> /\ Top.k = "deliver" /\ Finish(Top.s, returnValue, e)
  BY DEF Deliver
<1>2. /\ IsSeq(ctl) /\ Top = ctl[n] /\ FlowOK(ctl, flow, returnValue) /\ ItemOK(J, ctl, frames, n)
      /\ n \in Nat \ {0} /\ Len(frames) = Opened(ctl, n)
  BY <1>1, AtTop DEF IInv
<1>3. ctl[n].k = "deliver" /\ Finish(s, returnValue, e)
  BY <1>1, <1>2
<1>4. s.kind \in Simples /\ s.name \in STRING
  <2>1. s.e.op = "call" /\ Shaped(s, Callable(prog))
    BY <1>2, <1>3 DEF ItemOK
  <2> QED BY <2>1 DEF Shaped, Simples
<1>5. returnValue \in Value
  <2>1. n \in 1 .. n
    BY <1>2
  <2> QED BY <1>2, <1>3, <2>1 DEF FlowOK
<1> HIDE DEF s
<1>6. n > 1 /\ ctl[i].k = "body" /\ i \in Nat /\ i >= 1 /\ i <= Len(ctl) /\ i + 1 = n
  <2>1. n \in 1 .. n
    BY <1>2
  <2>2. ScopeOK(J, ctl, D, n)
    BY <2>1 DEF Meant, Scopes
  <2>3. n > 1 /\ ctl[n - 1].k = "body"
    BY <1>3, <2>2 DEF ScopeOK
  <2> HIDE DEF n
  <2>4. i \in Nat /\ i >= 1 /\ i <= n /\ i + 1 = n
    BY <1>2, <2>3
  <2> QED BY <2>3, <2>4 DEF n
<1>7. PICK d \in J : Before(d, ctl, i) /\ Scoped(d, ctl, D, i)
  <2>1. i \in 1 .. n
    BY <1>6
  <2> QED BY <1>6, <2>1 DEF Meant, Scopes, ScopeOK
<1>8. d.body # << >> /\ Head(d.body) = s /\ Tail(d.body) = ctl[i].rest
  <2>1. Pending(ctl, i)
    <3>1. i < Len(ctl)
      BY <1>6
    <3> QED BY <1>3, <1>6, <3>1 DEF Pending
  <2> QED BY <1>6, <1>7, <2>1 DEF Before, s
<1>9. Opened(ctl, i) = Len(frames)
  <2> HIDE DEF n, i
  <2>1. i \in Nat /\ ctl[i + 1].k \notin {"call", "block"}
    BY <1>3, <1>6
  <2>2. Opened(ctl, i + 1) = Opened(ctl, i)
    BY <2>1, MatchesNext
  <2> QED BY <1>2, <1>6, <2>2
<1>10. Len(e) = i /\ \A j \in 1 .. i : e[j] = ctl[j]
  BY <1>1, <1>2, Popped
<1>11. e[i].k = "body" /\ e[i].rest = Tail(d.body)
  <2>1. e[i] = ctl[i]
    BY <1>6, <1>10
  <2> QED BY <1>6, <1>8, <2>1
<1>12. \A j \in 1 .. i - 1 : e[j] = ctl[j]
  BY <1>6, <1>10
<1> HIDE DEF i, n, e
<1> QED BY <1>1, <1>3, <1>4, <1>5, <1>6, <1>7, <1>8, <1>9, <1>10, <1>11, <1>12, FinishMeant

\* The top goes, and what is below it is as before.
LEMMA ScopesPopped ==
  ASSUME NEW J, NEW c, IsSeq(c), c # << >>, NEW D, Scopes(J, c, D), Layout(c, Len(c), D),
         c[Len(c)].k \notin {"call", "deliver"}
  PROVE  Scopes(J, Front(c), D) /\ Layout(Front(c), Len(Front(c)), D)
<1> DEFINE e == Front(c)
           m == Len(c) - 1
<1>1. /\ Len(e) = m /\ Len(c) \in Nat \ {0} /\ \A i \in 1 .. m : e[i] = c[i]
  BY Popped
<1> HIDE DEF e
<1>2. /\ m \in Nat /\ m <= Len(c) /\ m <= Len(e) /\ Len(c) \in Nat /\ Len(e) \in Nat /\ m + 1 = Len(c)
      /\ \A j \in m + 1 .. Len(e) : FALSE
  BY <1>1
<1>3. ~Pending(e, m) /\ ~Pending(c, m)
  BY <1>1, <1>2 DEF Pending
<1>4. Layout(e, m, D)
  <2>1. \A j \in 1 .. m : e[j].k = c[j].k
    BY <1>1
  <2> DEFINE l == Len(c)
  <2>2. l \in Nat /\ Layout(c, l, D) /\ m \in Nat /\ m <= l
    BY <1>2
  <2> HIDE DEF l, m
  <2>3. \A g \in 1 .. Opened(c, m) : D[g] = D[g]
    OBVIOUS
  <2> QED BY <2>1, <2>2, <2>3, LayoutSame
<1>5. \A i \in 1 .. m : ScopeOK(J, c, D, i)
  <2>1. \A i \in 1 .. m : i \in 1 .. Len(c)
    BY <1>2
  <2> QED BY <2>1 DEF Scopes
<1>6. \A i \in 1 .. m : ScopeOK(J, e, D, i)
  <2> HIDE DEF m
  <2> QED BY <1>1, <1>2, <1>3, <1>5, ScopesKept
<1> QED BY <1>1, <1>4, <1>6 DEF Scopes, e

LEMMA PoppedMeant ==
  ASSUME NEW J, IInv(J), NEW D, Meant(J, Declarations(prog, J), ctl, D, frames, env),
         ctl # << >>, ctl' = Front(ctl), ctl[Len(ctl)].k \notin {"call", "deliver"},
         UNCHANGED <<frames, env>>
  PROVE  MeantNext(J)
<1>1. IsSeq(ctl)
  BY AtTop
<1>2. Scopes(J, ctl, D) /\ Layout(ctl, Len(ctl), D)
  BY DEF Meant
<1>3. Scopes(J, ctl', D) /\ Layout(ctl', Len(ctl'), D)
  BY <1>1, <1>2, ScopesPopped
<1> QED BY <1>3 DEF Meant, MeantNext

LEMMA EndBodyMeant ==
  ASSUME NEW J, IInv(J), NEW D, Meant(J, Declarations(prog, J), ctl, D, frames, env), EndBody
  PROVE  MeantNext(J)
<1>1. ctl # << >> /\ Top.k = "body" /\ ctl' = Front(ctl) /\ UNCHANGED <<frames, env>>
  BY DEF EndBody
<1>2. ctl[Len(ctl)].k = "body"
  BY <1>1, AtTop
<1> QED BY <1>1, <1>2, PoppedMeant

LEMMA EndLoopMeant ==
  ASSUME NEW J, IInv(J), NEW D, Meant(J, Declarations(prog, J), ctl, D, frames, env), EndLoop
  PROVE  MeantNext(J)
<1>1. ctl # << >> /\ Top.k = "while" /\ ctl' = Front(ctl) /\ UNCHANGED <<frames, env>>
  BY DEF EndLoop, AtLoop
<1>2. ctl[Len(ctl)].k = "while"
  BY <1>1, AtTop
<1> QED BY <1>1, <1>2, PoppedMeant

LEMMA EndBlockMeant ==
  ASSUME NEW J, IInv(J), NEW D, Meant(J, Declarations(prog, J), ctl, D, frames, env), EndBlock
  PROVE  MeantNext(J)
<1> DEFINE w == Len(frames)
<1>1. ctl # << >> /\ Top.k = "block" /\ ctl' = Front(ctl) /\ frames' = Front(frames) /\ env' = env
  BY DEF EndBlock
<1>2. IsSeq(ctl) /\ frames \in Seq(Seq(Binding)) /\ frames # << >> /\ ctl[Len(ctl)].k = "block"
  BY <1>1, AtTop
<1>3. Scopes(J, ctl', D) /\ Layout(ctl', Len(ctl'), D)
  BY <1>1, <1>2, ScopesPopped DEF Meant
<1>4. /\ Len(frames') = w - 1 /\ w \in Nat \ {0} /\ \A g \in 1 .. w - 1 : frames'[g] = frames[g]
  BY <1>1, <1>2, SeqIs, Popped
<1>5. Views(Declarations(prog, J), D, frames', env')
  <2>1. Views(Declarations(prog, J), D, frames, env)
    BY DEF Meant
  <2>2. w - 1 \in Nat /\ w - 1 <= w /\ w \in Nat
    BY <1>4
  <2>3. \A g \in 1 .. w - 1 : frames'[g] = frames[g] /\ env'[D[g].call] = env[D[g].call]
    BY <1>1, <1>4
  <2>4. Len(frames') = w - 1 /\ Len(frames) = w
    BY <1>4
  <2> HIDE DEF w
  <2> QED BY ONLY <2>1, <2>2, <2>3, <2>4, ViewsPopped
<1> QED BY <1>3, <1>5 DEF Meant, MeantNext

\* The judgement of the statement that is executed next, and the names of it.
LEMMA AtMeaning ==
  ASSUME NEW J, Judged(prog, nodeSym, J), IInv(J),
         NEW D, Meant(J, Declarations(prog, J), ctl, D, frames, env), AtStmt
  PROVE  \E d \in J : /\ Before(d, ctl, Len(ctl)) /\ Scoped(d, ctl, D, Len(ctl))
                      /\ d.body = ctl[Len(ctl)].rest /\ d.body # << >> /\ Stmt = Head(d.body)
<1> DEFINE n == Len(ctl)
<1>1. n \in Nat \ {0} /\ ctl[n].k = "body" /\ ctl[n].rest # << >> /\ Stmt = Head(ctl[n].rest)
  BY AtTop, AtStatement
<1>2. PICK d \in J : Before(d, ctl, n) /\ Scoped(d, ctl, D, n)
  <2>1. n \in 1 .. n
    BY <1>1
  <2> QED BY <1>1, <2>1 DEF Meant, Scopes, ScopeOK
<1>3. d.body = ctl[n].rest
  BY <1>1, <1>2 DEF Before, Pending
<1> QED BY <1>1, <1>2, <1>3

LEMMA JumpMeant ==
  ASSUME NEW J, Judged(prog, nodeSym, J), Plain(prog, J, Local), IInv(J),
         NEW D, Meant(J, Declarations(prog, J), ctl, D, frames, env), Jump
  PROVE  MeantNext(J)
<1> DEFINE n == Len(ctl)
<1>1. AtStmt /\ Stmt.kind \in {"break", "continue"} /\ ctl' = Advanced /\ UNCHANGED <<frames, env>>
  BY DEF Jump, Current
<1>2. n \in Nat \ {0} /\ n \in Nat /\ n >= 1 /\ n <= Len(ctl) /\ ctl[n].k = "body"
  BY <1>1, AtTop, AtStatement
<1>3. PICK d \in J : /\ Before(d, ctl, n) /\ Scoped(d, ctl, D, n)
                     /\ d.body = ctl[n].rest /\ d.body # << >> /\ Stmt = Head(d.body)
  BY <1>1, AtMeaning
<1>4. /\ Len(ctl') = n /\ \A i \in 1 .. n - 1 : ctl'[i] = ctl[i]
      /\ ctl'[n].k = "body" /\ ctl'[n].rest = Tail(d.body)
  <2>1. /\ Len(ctl') = n /\ \A i \in 1 .. n - 1 : ctl'[i] = ctl[i]
        /\ ctl'[n] = Body(Tail(d.body))
    BY <1>1, <1>3, AdvancedTo
  <2> QED BY <2>1 DEF Body
<1>5. Scopes(J, ctl, D) /\ Layout(ctl, n, D) /\ Views(Declarations(prog, J), D, frames, env)
  BY DEF Meant
<1>6. After(D, Opened(ctl, n), Head(d.body)) = D
  BY <1>1, <1>3 DEF After, IsDecl
<1>7. Scopes(J, ctl', D) /\ Layout(ctl', Len(ctl'), D)
  <2>1. \A j \in 1 .. n : ScopeOK(J, ctl, D, j)
    BY <1>5 DEF Scopes
  <2> HIDE DEF n
  <2>2. /\ Scopes(J, ctl', After(D, Opened(ctl, n), Head(d.body)))
        /\ Layout(ctl', Len(ctl'), After(D, Opened(ctl, n), Head(d.body)))
    BY <1>2, <1>3, <1>4, <1>5, <2>1, ScopesFinished DEF n
  <2> QED BY <1>6, <2>2
<1> QED BY <1>1, <1>5, <1>7 DEF Meant, MeantNext

\* e goes on from c by the first statement of judgement d, about the top of c: what
\* it pushes in the same frame declares names of the statement only.
Onward(c, e, n, d) ==
  /\ Len(e) \in Nat /\ Len(e) >= n /\ \A j \in 1 .. n - 1 : e[j] = c[j]
  /\ e[n].k = "body" /\ e[n].rest = Tail(d.body) /\ ~Pending(e, n)
  /\ \A j \in n + 1 .. Len(e) : Beside(e, n, j) =>
       Own(e, j) \subseteq Own(c, n) /\ Own(e, j) \cap (Local(Tail(d.body)) \cup DOMAIN d.sym) = {}

\* What is below a statement that pushes items of its own.
LEMMA ScopesUnder ==
  ASSUME NEW J, NEW c, NEW n \in Nat, n >= 1, Len(c) = n, NEW D, Scopes(J, c, D), c[n].k = "body",
         NEW d, AfterIt(d) \in J, Unconfused(d, Local), Before(d, c, n), Scoped(d, c, D, n),
         d.body # << >>, ~IsDecl(Head(d.body)), NEW e, Onward(c, e, n, d),
         NEW D2, \A g \in 1 .. Opened(c, n) : D2[g] = D[g]
  PROVE  \A j \in 1 .. n : ScopeOK(J, e, D2, j)
<1>0. /\ Len(e) \in Nat /\ Len(e) >= n /\ \A j \in 1 .. n - 1 : e[j] = c[j]
      /\ e[n].k = "body" /\ e[n].rest = Tail(d.body) /\ ~Pending(e, n)
  BY DEF Onward
<1>. USE <1>0
<1> DEFINE m == n - 1
           a == AfterIt(d)
<1>1. m \in Nat /\ m <= n /\ m + 1 = n /\ m <= Len(e) /\ \A j \in 1 .. n : j \in 1 .. m \/ j = n
  OBVIOUS
<1>2. \A j \in 1 .. n : e[j].k = c[j].k
  BY <1>1
<1>3. a \in J /\ Unconfused(d, Local)
  OBVIOUS
<1>4. Own(e, n) = Local(Tail(d.body)) /\ Own(e, n) \subseteq Own(c, n)
  <2>1. Owed(e, n) = {}
    BY DEF Owed, Pending
  <2> QED BY <1>3, <2>1, OwnFirst DEF Own
<1> HIDE DEF m, a
<1>5. ~Pending(e, m) /\ ~Pending(c, m)
  BY <1>1 DEF Pending
<1>6. \A j \in m + 1 .. Len(e) : Beside(e, m, j) =>
        \/ Own(e, j) = {}
        \/ \E x \in m + 1 .. Len(c) : Beside(c, m, x) /\ Own(e, j) \subseteq Own(c, x)
  <2> SUFFICES ASSUME NEW j \in m + 1 .. Len(e), Beside(e, m, j) PROVE Own(e, j) \subseteq Own(c, n)
    <3>1. n \in m + 1 .. Len(c)
      BY <1>1
    <3>2. Beside(c, m, n)
      BY <1>1 DEF Beside, Framed
    <3> QED BY <3>1, <3>2
  <2>1. CASE j = n
    BY <1>4, <2>1
  <2>2. CASE j # n
    <3>1. j \in n + 1 .. Len(e) /\ Beside(e, n, j)
      BY <1>1, <2>2 DEF Beside
    <3> QED BY <3>1 DEF Onward
  <2> QED BY <2>1, <2>2
<1>7. \A i \in 1 .. m : ScopeOK(J, e, D2, i)
  <2>1. \A i \in 1 .. m : ScopeOK(J, c, D, i) /\ e[i] = c[i]
    BY <1>1 DEF Scopes, m
  <2>2. \A g \in 1 .. Opened(c, m) : D2[g] = D[g]
    <3>1. Opened(c, m) \in Nat /\ Opened(c, n) \in Nat /\ Opened(c, m) <= Opened(c, n)
      BY <1>1, OpenedOK
    <3> QED BY <3>1
  <2>3. m \in Nat /\ Len(c) \in Nat /\ Len(e) \in Nat /\ m <= Len(c) /\ m <= Len(e)
    BY <1>1
  <2>4. /\ \A i \in 1 .. m : ScopeOK(J, c, D, i)
        /\ \A i \in 1 .. m : e[i] = c[i]
        /\ Pending(e, m) <=> Pending(c, m)
        /\ Pending(c, m) => e[m + 1].s = c[m + 1].s
    BY <1>5, <2>1
  <2> QED BY ONLY <1>6, <2>2, <2>3, <2>4, ScopesKept
<1>8. Before(a, e, n) /\ Scoped(a, e, D, n)
  <2>1. \A j \in n + 1 .. Len(e) : Beside(e, n, j) =>
          Own(e, j) \cap (Local(Tail(d.body)) \cup DOMAIN d.sym) = {}
    BY DEF Onward
  <2> QED BY <1>2, <1>3, <2>1, ScopedAfter DEF a
<1>9. Scoped(a, e, D2, n)
  <2>1. \A g \in 1 .. Opened(e, n) : D2[g] = D[g]
    BY <1>2, OpenedSame
  <2> QED BY <1>8, <2>1, ScopedSame
<1>10. ScopeOK(J, e, D2, n)
  BY <1>3, <1>8, <1>9 DEF ScopeOK
<1> QED BY <1>1, <1>7, <1>10

\* What is pushed in the frame of what is below it.
LEMMA ScopedAbove ==
  ASSUME NEW c, NEW n \in Nat, NEW D, NEW d, Scoped(d, c, D, n), NEW e, Len(e) = n + 1,
         \A j \in 1 .. n : e[j].k = c[j].k, e[n + 1].k \notin Framed,
         NEW b, b.level = d.level, b.sym = d.sym, Own(e, n + 1) \subseteq Own(c, n)
  PROVE  Scoped(b, e, D, n + 1)
<1>1. Opened(e, n + 1) = Opened(c, n)
  <2>1. Opened(e, n + 1) = Opened(e, n)
    BY MatchesNext DEF Framed
  <2> QED BY <2>1, OpenedSame
<1>2. \A j \in (n + 1) + 1 .. Len(e) : FALSE
  OBVIOUS
<1>3. /\ d.level = D[Opened(c, n)].level
      /\ \A x \in DOMAIN d.sym : Sees(D, Opened(c, n), x, d.sym[x])
      /\ Own(c, n) \cap DOMAIN D[Opened(c, n)].sym = {}
  BY DEF Scoped
<1> QED BY <1>1, <1>2, <1>3 DEF Scoped

LEMMA OnePushed ==
  ASSUME NEW J, Judged(prog, nodeSym, J), Plain(prog, J, Local), IInv(J), AtStmt,
         NEW D, Meant(J, Declarations(prog, J), ctl, D, frames, env),
         NEW d \in J, Before(d, ctl, Len(ctl)), Scoped(d, ctl, D, Len(ctl)),
         d.body = ctl[Len(ctl)].rest, d.body # << >>, ~IsDecl(Head(d.body)),
         NEW x, ctl' = Append(Advanced, x), x.k \in {"body", "while"},
         NEW b \in J, Before(b, ctl', Len(ctl) + 1), b.level = d.level, b.sym = d.sym,
         Own(ctl', Len(ctl) + 1) \subseteq Own(ctl, Len(ctl)),
         Own(ctl', Len(ctl) + 1) \cap (Local(Tail(d.body)) \cup DOMAIN d.sym) = {},
         UNCHANGED <<frames, env>>
  PROVE  MeantNext(J)
<1> DEFINE n == Len(ctl)
<1>1. n \in Nat /\ n >= 1 /\ ctl[n].k = "body"
  BY AtTop, AtStatement
<1>2. /\ Len(ctl') = n + 1 /\ ctl'[n + 1] = x
      /\ \A j \in 1 .. n - 1 : ctl'[j] = ctl[j]
      /\ \A j \in 1 .. n : ctl'[j].k = ctl[j].k
      /\ ctl'[n] = Body(Tail(d.body))
  <2> DEFINE a == Advanced
  <2>1. /\ IsSeq(a) /\ Len(a) = n /\ \A j \in 1 .. n - 1 : a[j] = ctl[j]
        /\ a[n] = Body(Tail(d.body)) /\ \A j \in 1 .. n : a[j].k = ctl[j].k
    BY AdvancedTo
  <2> HIDE DEF a
  <2>2. Len(ctl') = Len(a) + 1 /\ ctl'[Len(a) + 1] = x /\ \A j \in 1 .. Len(a) : ctl'[j] = a[j]
    BY <2>1, Pushed DEF a
  <2>3. n \in 1 .. n /\ \A j \in 1 .. n - 1 : j \in 1 .. n
    BY <1>1
  <2> QED BY <2>1, <2>2, <2>3
<1>3. ctl'[n].k = "body" /\ ctl'[n].rest = Tail(d.body)
  BY <1>2 DEF Body
<1>4. Scopes(J, ctl, D) /\ Layout(ctl, n, D) /\ Views(Declarations(prog, J), D, frames, env)
  BY DEF Meant
<1>5. Len(ctl') \in Nat /\ Len(ctl') >= n /\ ~Pending(ctl', n)
  BY <1>1, <1>2 DEF Pending
<1>6. \A j \in n + 1 .. Len(ctl') : j = n + 1
  BY <1>1, <1>2
<1> HIDE DEF n
<1>7. \A j \in 1 .. n : ScopeOK(J, ctl', D, j)
  <2>1. Onward(ctl, ctl', n, d)
    BY <1>2, <1>3, <1>5, <1>6 DEF Onward, n
  <2> DEFINE D2 == D
  <2>2. \A g \in 1 .. Opened(ctl, n) : D2[g] = D[g]
    OBVIOUS
  <2> HIDE DEF D2
  <2>3. /\ Len(ctl) = n /\ Before(d, ctl, n) /\ Scoped(d, ctl, D, n)
        /\ AfterIt(d) \in J /\ Unconfused(d, Local) /\ d.body # << >> /\ ~IsDecl(Head(d.body))
    BY DEF n, Judged, Kept, Plain
  <2>5. \A j \in 1 .. n : ScopeOK(J, ctl', D2, j)
    BY <1>1, <1>4, <2>1, <2>2, <2>3, ScopesUnder
  <2> QED BY <2>5 DEF D2
<1>8. Scoped(b, ctl', D, n + 1)
  <2>1. ctl'[n + 1].k \notin Framed
    BY <1>2 DEF Framed
  <2> QED BY <1>1, <1>2, <2>1, ScopedAbove DEF n
<1>9. Scopes(J, ctl', D)
  <2>1. ScopeOK(J, ctl', D, n + 1)
    BY <1>2, <1>8 DEF ScopeOK, n
  <2>2. \A j \in 1 .. n + 1 : j \in 1 .. n \/ j = n + 1
    BY <1>1
  <2> QED BY <1>2, <1>7, <2>1, <2>2 DEF Scopes
<1>10. Layout(ctl', n + 1, D)
  <2>1. Layout(ctl', n, D)
    <3>1. \A g \in 1 .. Opened(ctl, n) : D[g] = D[g]
      OBVIOUS
    <3>2. n \in Nat /\ n <= n /\ Layout(ctl, n, D) /\ \A j \in 1 .. n : ctl'[j].k = ctl[j].k
      BY <1>1, <1>2, <1>4
    <3> QED BY ONLY <3>1, <3>2, LayoutSame
  <2>2. ctl'[n + 1].k \notin Framed
    BY <1>2 DEF Framed
  <2> QED BY <1>1, <2>1, <2>2, LayoutMore
<1> QED BY <1>2, <1>4, <1>9, <1>10 DEF Meant, MeantNext

LEMMA IfMeant ==
  ASSUME NEW J, Judged(prog, nodeSym, J), Plain(prog, J, Local), IInv(J),
         NEW D, Meant(J, Declarations(prog, J), ctl, D, frames, env), If
  PROVE  MeantNext(J)
<1> DEFINE n == Len(ctl)
           t == IF Holds(Stmt.e) THEN Stmt.then ELSE Stmt.else
           x == Body(t)
<1>1. AtStmt /\ Stmt.kind = "if" /\ ctl' = Append(Advanced, x) /\ UNCHANGED <<frames, env>>
  BY DEF If, Current
<1>2. PICK d \in J : /\ Before(d, ctl, n) /\ Scoped(d, ctl, D, n)
                     /\ d.body = ctl[n].rest /\ d.body # << >> /\ Stmt = Head(d.body)
  BY <1>1, AtMeaning
<1> DEFINE b == Inside(d, t)
<1>3. b \in J
  <2>1. Inside(d, Stmt.then) \in J /\ Inside(d, Stmt.else) \in J
    BY <1>1, <1>2 DEF Judged, Kept
  <2> QED BY <2>1
<1>4. t = Stmt.then \/ t = Stmt.else
  OBVIOUS
<1>5. x.k = "body" /\ x.rest = t
  BY DEF Body
<1>6. b.body = t /\ b.level = d.level /\ b.sym = d.sym
  BY <1>1, <1>2 DEF Inside, Judgement
<1> HIDE DEF t, x, b
<1>7. IsSeq(Advanced) /\ Len(Advanced) = n /\ n \in Nat /\ ctl[n].k = "body"
  BY <1>1, AdvancedTo, AtTop, AtStatement
<1>8. Len(ctl') = n + 1 /\ ctl'[n + 1] = x
  BY <1>1, <1>7, Pushed
<1>9. Own(ctl', n + 1) = Local(t) /\ ~Pending(ctl', n + 1) /\ ~Pending(ctl, n)
  <2>1. ~(n + 1 < Len(ctl')) /\ ~(n < Len(ctl))
    BY <1>7, <1>8
  <2> QED BY <1>5, <1>8, <2>1 DEF Own, Owed, Pending
<1>10. Unconfused(d, Local)
  BY <1>2 DEF Plain
<1>11. Local(t) \subseteq Own(ctl, n)
  BY <1>1, <1>2, <1>4, <1>7, <1>9, <1>10, OwnFirst DEF Unconfused
<1>12. Local(t) \cap (Local(Tail(d.body)) \cup DOMAIN d.sym) = {}
  BY <1>1, <1>2, <1>4, <1>10 DEF Unconfused
<1>13. Before(b, ctl', n + 1)
  BY <1>5, <1>6, <1>8, <1>9 DEF Before
<1>14. ~IsDecl(Head(d.body))
  BY <1>1, <1>2 DEF IsDecl
<1> QED BY <1>1, <1>2, <1>3, <1>5, <1>6, <1>9, <1>11, <1>12, <1>13, <1>14, OnePushed

LEMMA WhileMeant ==
  ASSUME NEW J, Judged(prog, nodeSym, J), Plain(prog, J, Local), IInv(J),
         NEW D, Meant(J, Declarations(prog, J), ctl, D, frames, env), While
  PROVE  MeantNext(J)
<1> DEFINE n == Len(ctl)
           x == [k |-> "while", s |-> Stmt]
<1>1. AtStmt /\ Stmt.kind = "while" /\ ctl' = Append(Advanced, x) /\ UNCHANGED <<frames, env>>
  BY DEF While, Current
<1>2. PICK d \in J : /\ Before(d, ctl, n) /\ Scoped(d, ctl, D, n)
                     /\ d.body = ctl[n].rest /\ d.body # << >> /\ Stmt = Head(d.body)
  BY <1>1, AtMeaning
<1>3. x.k = "while" /\ x.s = Stmt
  OBVIOUS
<1> HIDE DEF x
<1>4. IsSeq(Advanced) /\ Len(Advanced) = n /\ n \in Nat
  BY <1>1, AdvancedTo, AtTop, AtStatement
<1>5. ctl'[n + 1] = x
  BY <1>1, <1>4, Pushed
<1>6. Own(ctl', n + 1) = {}
  BY <1>3, <1>5 DEF Own
<1>7. Before(d, ctl', n + 1)
  BY <1>1, <1>2, <1>3, <1>5 DEF Before
<1>8. ~IsDecl(Head(d.body))
  BY <1>1, <1>2 DEF IsDecl
<1> QED BY <1>1, <1>2, <1>3, <1>6, <1>7, <1>8, OnePushed

LEMMA TurnMeant ==
  ASSUME NEW J, Judged(prog, nodeSym, J), Plain(prog, J, Local), IInv(J),
         NEW D, Meant(J, Declarations(prog, J), ctl, D, frames, env), Turn
  PROVE  MeantNext(J)
<1> DEFINE n == Len(ctl)
           s == Top.s
           x == Body(s.then)
<1>1. /\ ctl # << >> /\ Top.k = "while" /\ UNCHANGED <<frames, env>>
      /\ ctl' = Front(ctl) \/ ctl' = Append(ctl, x)
  BY DEF Turn, AtLoop
<1>2. IsSeq(ctl) /\ n \in Nat \ {0} /\ Top = ctl[n]
  BY <1>1, AtTop
<1>3. ctl[n].k = "while" /\ ctl[n].s = s
  BY <1>1, <1>2
<1>4. CASE ctl' = Front(ctl)
  BY <1>1, <1>3, <1>4, PoppedMeant
<1>5. CASE ctl' = Append(ctl, x)
  <2>1. x.k = "body" /\ x.rest = s.then
    BY DEF Body
  <2> HIDE DEF s, x
  <2>2. Len(ctl') = n + 1 /\ ctl'[n + 1] = x /\ \A j \in 1 .. n : ctl'[j] = ctl[j]
    BY <1>2, <1>5, Pushed
  <2>3. PICK d \in J : Before(d, ctl, n) /\ Scoped(d, ctl, D, n)
    <3>1. n \in 1 .. n
      BY <1>2
    <3> QED BY <1>3, <3>1 DEF Meant, Scopes, ScopeOK
  <2>4. d.body # << >> /\ Head(d.body) = s /\ s.kind = "while"
    BY <1>3, <2>3 DEF Before
  <2>5. Local(s.then) = {}
    BY <2>4 DEF Plain, Unconfused
  <2> DEFINE b == Inside(d, s.then)
  <2>6. b \in J /\ b.body = s.then /\ b.level = d.level /\ b.sym = d.sym
    <3>1. b \in J
      BY <2>4 DEF Judged, Kept
    <3> QED BY <2>4, <3>1 DEF Inside, Judgement
  <2> HIDE DEF b, n
  <2>7. n \in Nat /\ n >= 1 /\ Len(ctl) = n /\ Len(ctl') \in Nat /\ ~(n + 1 < Len(ctl'))
    BY <1>2, <2>2 DEF n
  <2>8. Own(ctl', n + 1) = {} /\ ~Pending(ctl', n + 1) /\ ~Pending(ctl', n) /\ ~Pending(ctl, n)
    <3>1. Owed(ctl', n + 1) = {} /\ ~Pending(ctl', n + 1) /\ ~Pending(ctl, n)
      BY <2>7 DEF Owed, Pending
    <3>2. ~Pending(ctl', n)
      BY <2>1, <2>2 DEF Pending
    <3>3. Own(ctl', n + 1) = {}
      BY <2>1, <2>2, <2>5, <3>1 DEF Own
    <3> QED BY <3>1, <3>2, <3>3
  <2>9. Scopes(J, ctl, D) /\ Layout(ctl, n, D) /\ Views(Declarations(prog, J), D, frames, env)
    BY DEF Meant, n
  <2>10. \A j \in 1 .. n : ScopeOK(J, ctl', D, j)
    <3> DEFINE D2 == D
    <3>1. \A g \in 1 .. Opened(ctl, n) : D2[g] = D[g]
      OBVIOUS
    <3> HIDE DEF D2
    <3>2. \A j \in n + 1 .. Len(ctl') : Beside(ctl', n, j) =>
            \/ Own(ctl', j) = {}
            \/ \E y \in n + 1 .. Len(ctl) : Beside(ctl, n, y) /\ Own(ctl', j) \subseteq Own(ctl, y)
      <4>1. \A j \in n + 1 .. Len(ctl') : j = n + 1
        BY <2>2, <2>7
      <4> QED BY <2>8, <4>1
    <3>3. n \in Nat /\ Len(ctl) \in Nat /\ Len(ctl') \in Nat /\ n <= Len(ctl) /\ n <= Len(ctl')
      BY <2>2, <2>7
    <3>4. /\ \A i \in 1 .. n : ScopeOK(J, ctl, D, i)
          /\ \A i \in 1 .. n : ctl'[i] = ctl[i]
          /\ Pending(ctl', n) <=> Pending(ctl, n)
          /\ Pending(ctl, n) => ctl'[n + 1].s = ctl[n + 1].s
      BY <2>2, <2>7, <2>8, <2>9 DEF Scopes
    <3>5. \A i \in 1 .. n : ScopeOK(J, ctl', D2, i)
      BY ONLY <3>1, <3>2, <3>3, <3>4, ScopesKept
    <3> QED BY <3>5 DEF D2
  <2>11. Scoped(b, ctl', D, n + 1)
    <3>1. ctl'[n + 1].k \notin Framed /\ \A j \in 1 .. n : ctl'[j].k = ctl[j].k
      BY <2>1, <2>2 DEF Framed
    <3>2. Own(ctl', n + 1) \subseteq Own(ctl, n)
      BY <2>8
    <3> QED BY <2>2, <2>3, <2>6, <2>7, <3>1, <3>2, ScopedAbove
  <2>12. Before(b, ctl', n + 1)
    BY <2>1, <2>2, <2>6, <2>8 DEF Before
  <2>13. Scopes(J, ctl', D)
    <3>1. ScopeOK(J, ctl', D, n + 1)
      BY <2>1, <2>2, <2>6, <2>11, <2>12 DEF ScopeOK
    <3>2. \A j \in 1 .. n + 1 : j \in 1 .. n \/ j = n + 1
      BY <2>7
    <3> QED BY <2>2, <2>10, <3>1, <3>2 DEF Scopes
  <2>14. Layout(ctl', n + 1, D)
    <3>1. \A g \in 1 .. Opened(ctl, n) : D[g] = D[g]
      OBVIOUS
    <3>2. n \in Nat /\ n <= n /\ Layout(ctl, n, D) /\ \A j \in 1 .. n : ctl'[j].k = ctl[j].k
      BY <2>2, <2>7, <2>9
    <3>3. Layout(ctl', n, D)
      BY ONLY <3>1, <3>2, LayoutSame
    <3>4. ctl'[n + 1].k \notin Framed
      BY <2>1, <2>2 DEF Framed
    <3> QED BY <2>7, <3>3, <3>4, LayoutMore
  <2> QED BY <1>1, <2>2, <2>9, <2>13, <2>14 DEF Meant, MeantNext
<1> QED BY <1>1, <1>4, <1>5

(* Blocks and calls. *)

LEMMA FramingIs ==
  ASSUME NEW c, NEW l \in Nat, NEW D, NEW call, NEW level, NEW sym, NEW D2,
         D2 = Framing(c, l, D, call, level, sym)
  PROVE  /\ \A g \in 1 .. Opened(c, l) : D2[g] = D[g]
         /\ D2[Opened(c, l) + 1].call = call /\ D2[Opened(c, l) + 1].level = level
         /\ D2[Opened(c, l) + 1].sym = sym
<1> DEFINE w == Opened(c, l)
           r == [call |-> call, level |-> level, sym |-> sym]
<1>1. w \in Nat /\ w >= 1
  BY OpenedOK
<1>2. r.call = call /\ r.level = level /\ r.sym = sym
  OBVIOUS
<1>3. \A g \in 1 .. w + 1 : D2[g] = IF g = w + 1 THEN r ELSE D[g]
  BY DEF Framing
<1> HIDE DEF w, r
<1>4. w + 1 \in 1 .. w + 1 /\ \A g \in 1 .. w : g \in 1 .. w + 1 /\ g # w + 1
  BY <1>1
<1>5. D2[w + 1] = r /\ \A g \in 1 .. w : D2[g] = D[g]
  BY <1>3, <1>4
<1> QED BY <1>2, <1>5 DEF w

\* The frame of a block hides nothing while it is empty.
LEMMA SeesThrough ==
  ASSUME NEW D, NEW w \in Nat, w >= 1, NEW D2, \A g \in 1 .. w : D2[g] = D[g],
         D2[w + 1].call = D[w].call, DOMAIN D2[w + 1].sym = {}, NEW n, NEW p, Sees(D, w, n, p)
  PROVE  Sees(D2, w + 1, n, p)
<1>1. PICK g \in 1 .. w : /\ D[g].call = D[w].call /\ n \in DOMAIN D[g].sym /\ D[g].sym[n] = p
                          /\ \A h \in g + 1 .. w : n \notin DOMAIN D[h].sym
  BY DEF Sees
<1>2. /\ g \in 1 .. w + 1 /\ D2[g] = D[g]
      /\ \A h \in g + 1 .. w + 1 : h \in g + 1 .. w \/ h = w + 1
      /\ \A h \in g + 1 .. w : h \in 1 .. w
  OBVIOUS
<1>3. \A h \in g + 1 .. w + 1 : n \notin DOMAIN D2[h].sym
  BY <1>1, <1>2
<1>4. D2[g].call = D2[w + 1].call /\ n \in DOMAIN D2[g].sym /\ D2[g].sym[n] = p
  BY <1>1, <1>2
<1> QED BY <1>2, <1>3, <1>4 DEF Sees

\* A frame more, and the body that runs in it.
LEMMA LayoutFramed ==
  ASSUME NEW c, NEW n \in Nat, NEW D, Layout(c, n, D),
         NEW e, \A j \in 1 .. n : e[j].k = c[j].k, e[n + 1].k \in Framed, e[n + 2].k = "body",
         NEW call, NEW level \in Nat, NEW sym, NEW D2, D2 = Framing(e, n, D, call, level, sym),
         e[n + 1].k = "block" => call = D[Opened(c, n)].call /\ level > D[Opened(c, n)].level,
         e[n + 1].k = "call" => call = D[Opened(c, n)].call + 1
  PROVE  Layout(e, n + 2, D2) /\ Opened(e, n) = Opened(c, n) /\ Opened(e, n + 2) = Opened(c, n) + 1
<1>1. (n + 1) + 1 = n + 2 /\ n + 1 \in Nat /\ n + 2 \in Nat
  OBVIOUS
<1>2. Opened(e, n) = Opened(c, n)
  BY OpenedSame
<1>3. Opened(e, n + 1) = Opened(e, n) + 1
  BY MatchesNext DEF Framed
<1>4. e[(n + 1) + 1].k \notin Framed
  BY <1>1 DEF Framed
<1>5. Opened(e, (n + 1) + 1) = Opened(e, n + 1)
  BY <1>1, <1>4, MatchesNext DEF Framed
<1>6. Layout(e, n, D)
  <2>1. \A g \in 1 .. Opened(c, n) : D[g] = D[g]
    OBVIOUS
  <2>2. n \in Nat /\ n <= n /\ Layout(c, n, D) /\ \A j \in 1 .. n : e[j].k = c[j].k
    OBVIOUS
  <2> QED BY ONLY <2>1, <2>2, LayoutSame
<1>7. Layout(e, n + 1, D2)
  BY <1>2, <1>6, LayoutFrame
<1>8. Layout(e, (n + 1) + 1, D2)
  BY <1>1, <1>4, <1>7, LayoutMore
<1> QED BY <1>1, <1>2, <1>3, <1>5, <1>8

\* Judgement b sees its names from frame w, which has none of its own yet.
Enters(b, D, w) ==
  /\ b.level = D[w].level
  /\ \A n \in DOMAIN b.sym : Sees(D, w, n, b.sym[n])
  /\ Local(b.body) \cap DOMAIN D[w].sym = {}

LEMMA ScopesFramed ==
  ASSUME NEW J, NEW e, NEW n \in Nat, n >= 1, Len(e) = n + 2, NEW D, \A j \in 1 .. n : ScopeOK(J, e, D, j),
         e[n].k = "body", e[n + 1].k \in Framed, e[n + 2].k = "body",
         NEW b \in J, b.body = e[n + 2].rest, Enters(b, D, Opened(e, n + 2))
  PROVE  Scopes(J, e, D)
<1>1. ScopeOK(J, e, D, n + 1)
  <2>1. (n + 1) - 1 = n /\ n + 1 > 1
    OBVIOUS
  <2> QED BY <2>1 DEF ScopeOK, Framed
<1>2. ScopeOK(J, e, D, n + 2)
  <2>1. ~(n + 2 < Len(e)) /\ \A j \in (n + 2) + 1 .. Len(e) : FALSE
    OBVIOUS
  <2>2. ~Pending(e, n + 2) /\ Own(e, n + 2) = Local(b.body)
    BY <2>1 DEF Pending, Own, Owed
  <2>3. Before(b, e, n + 2)
    BY <2>2 DEF Before
  <2>4. Scoped(b, e, D, n + 2)
    BY <2>1, <2>2 DEF Scoped, Enters
  <2> QED BY <2>3, <2>4 DEF ScopeOK
<1>3. \A j \in 1 .. n + 2 : j \in 1 .. n \/ j = n + 1 \/ j = n + 2
  OBVIOUS
<1> QED BY <1>1, <1>2, <1>3 DEF Scopes

LEMMA BlockMeant ==
  ASSUME NEW J, Judged(prog, nodeSym, J), Plain(prog, J, Local), IInv(J),
         NEW D, Meant(J, Declarations(prog, J), ctl, D, frames, env), Block
  PROVE  MeantNext(J)
<1> DEFINE n == Len(ctl)
           w == Len(frames)
           x == [k |-> "block"]
           y == Body(Stmt.then)
           T == Declarations(prog, J)
<1>1. /\ AtStmt /\ Stmt.kind = "block" /\ ctl' = Advanced \o <<x, y>>
      /\ frames' = Append(frames, << >>) /\ env' = env
  BY DEF Block, Current
<1>2. PICK d \in J : /\ Before(d, ctl, n) /\ Scoped(d, ctl, D, n)
                     /\ d.body = ctl[n].rest /\ d.body # << >> /\ Stmt = Head(d.body)
  BY <1>1, AtMeaning
<1> DEFINE b == Inside(d, Stmt.then)
           sym == [m \in {} |-> << >>]
<1>3. b \in J /\ b.body = Stmt.then /\ b.level = d.level + 1 /\ b.sym = d.sym /\ d.level \in Nat
  <2>1. b \in J /\ d.level \in Nat
    BY <1>1, <1>2 DEF Judged, Kept
  <2> QED BY <1>1, <1>2, <2>1 DEF Inside, Judgement
<1>4. x.k = "block" /\ y.k = "body" /\ y.rest = Stmt.then /\ DOMAIN sym = {}
  BY DEF Body
<1> DEFINE D2 == Framing(ctl', n, D, D[w].call, d.level + 1, sym)
<1>5. /\ n \in Nat /\ n >= 1 /\ w = Opened(ctl, n) /\ w \in Nat /\ w >= 1 /\ ctl[n].k = "body"
      /\ frames \in Seq(Seq(Binding))
  <2>1. n \in Nat /\ n >= 1 /\ w = Opened(ctl, n) /\ ctl[n].k = "body" /\ frames \in Seq(Seq(Binding))
    BY <1>1, AtTop, AtStatement
  <2>2. Opened(ctl, n) \in Nat /\ Opened(ctl, n) >= 1
    BY <2>1, OpenedOK
  <2> QED BY <2>1, <2>2
<1> HIDE DEF x, y, b, sym, T
<1>6. /\ Len(ctl') = n + 2 /\ ctl'[n + 1] = x /\ ctl'[n + 2] = y
      /\ \A i \in 1 .. n : ctl'[i].k = ctl[i].k
      /\ \A i \in 1 .. n - 1 : ctl'[i] = ctl[i]
      /\ ctl'[n] = Body(Tail(d.body))
  BY <1>1, <1>2, AdvancedAndPushed
<1>7. ctl'[n].k = "body" /\ ctl'[n].rest = Tail(d.body)
  BY <1>6 DEF Body
<1> HIDE DEF n, w, D2
<1>8. Opened(ctl', n) = w
  <2>1. n \in Nat /\ w = Opened(ctl, n) /\ \A i \in 1 .. n : ctl'[i].k = ctl[i].k
    BY <1>5, <1>6
  <2> QED BY ONLY <2>1, OpenedSame
<1>9. /\ \A g \in 1 .. w : D2[g] = D[g]
      /\ D2[w + 1].call = D[w].call /\ D2[w + 1].level = d.level + 1 /\ D2[w + 1].sym = sym
  BY <1>5, <1>8, FramingIs DEF D2
<1>10. d.level = D[w].level /\ \A m \in DOMAIN d.sym : Sees(D, w, m, d.sym[m])
  BY <1>2, <1>5 DEF Scoped
<1>11. Onward(ctl, ctl', n, d)
  <2>1. Len(ctl') \in Nat /\ Len(ctl') >= n /\ ~Pending(ctl', n)
    BY <1>4, <1>5, <1>6 DEF Pending
  <2>2. \A j \in n + 1 .. Len(ctl') : ~Beside(ctl', n, j)
    <3>1. \A j \in n + 1 .. Len(ctl') : n + 1 \in n + 1 .. j
      BY <1>5, <2>1
    <3> QED BY <1>4, <1>6, <3>1 DEF Beside, Framed
  <2> QED BY <1>6, <1>7, <2>1, <2>2 DEF Onward
<1>12. \A j \in 1 .. n : ScopeOK(J, ctl', D2, j)
  <2>1. /\ Len(ctl) = n /\ Before(d, ctl, n) /\ Scoped(d, ctl, D, n) /\ Scopes(J, ctl, D)
        /\ AfterIt(d) \in J /\ Unconfused(d, Local) /\ d.body # << >> /\ ~IsDecl(Head(d.body))
    BY <1>1, <1>2 DEF n, Judged, Kept, Plain, Meant, IsDecl
  <2> QED BY <1>5, <1>9, <1>11, <2>1, ScopesUnder
<1>13. Enters(b, D2, w + 1)
  <2>1. \A m \in DOMAIN b.sym : Sees(D2, w + 1, m, b.sym[m])
    BY <1>3, <1>4, <1>5, <1>9, <1>10, SeesThrough
  <2> QED BY <1>3, <1>4, <1>9, <2>1 DEF Enters
<1>14. /\ Len(frames') = w + 1 /\ frames'[w + 1] = << >>
       /\ \A g \in 1 .. w : frames'[g] = frames[g] /\ env'[D[g].call] = env[D[g].call]
  <2>1. << >> \in Seq(Binding)
    OBVIOUS
  <2> QED BY <1>1, <1>5, <2>1, AppendProperties DEF w
<1>15. View(T, D2, frames', env', w + 1)
  <2>1. \A m : ~Has(frames'[w + 1], m) /\ m \notin DOMAIN D2[w + 1].sym
    BY <1>4, <1>9, <1>14 DEF Has
  <2> QED BY <2>1 DEF View
<1>16. Views(T, D2, frames', env')
  <2>1. Views(T, D, frames, env) /\ Len(frames) = w
    BY DEF Meant, T, w
  <2>2. w \in Nat /\ Len(frames') = w + 1
    BY <1>5, <1>14
  <2>3. \A g \in 1 .. w : D2[g] = D[g] /\ frames'[g] = frames[g] /\ env'[D[g].call] = env[D[g].call]
    BY <1>9, <1>14
  <2> QED BY ONLY <1>15, <2>1, <2>2, <2>3, ViewsPushed
<1>17. Layout(ctl', n + 2, D2) /\ Opened(ctl', n + 2) = w + 1
  <2>1. Layout(ctl, n, D) /\ ctl'[n + 1].k = "block" /\ ctl'[n + 2].k = "body"
    BY <1>4, <1>6 DEF Meant, n
  <2> DEFINE call == D[w].call
             level == d.level + 1
  <2>2. /\ level \in Nat /\ call = D[Opened(ctl, n)].call /\ level > D[Opened(ctl, n)].level
        /\ D2 = Framing(ctl', n, D, call, level, sym)
    BY <1>3, <1>5, <1>10 DEF D2
  <2> HIDE DEF call, level
  <2>3. /\ n \in Nat /\ w = Opened(ctl, n) /\ \A i \in 1 .. n : ctl'[i].k = ctl[i].k
        /\ ctl'[n + 1].k \in Framed /\ ctl'[n + 1].k # "call"
    BY <1>5, <1>6, <2>1 DEF Framed
  <2> QED BY ONLY <2>1, <2>2, <2>3, LayoutFramed
<1>18. Scopes(J, ctl', D2)
  <2>1. ctl'[n + 1].k \in Framed /\ ctl'[n + 2].k = "body" /\ b.body = ctl'[n + 2].rest
    BY <1>3, <1>4, <1>6 DEF Framed
  <2> QED BY <1>3, <1>5, <1>6, <1>7, <1>12, <1>13, <1>17, <2>1, ScopesFramed
<1> QED BY <1>6, <1>16, <1>17, <1>18 DEF Meant, MeantNext, T

\* What is below a call: the body with the statement that makes it is still at that
\* statement.
LEMMA ScopesCalling ==
  ASSUME NEW J, NEW c, NEW n \in Nat, n >= 1, Len(c) = n, NEW D, Scopes(J, c, D), c[n].k = "body",
         NEW d \in J, Unconfused(d, Local), Before(d, c, n), Scoped(d, c, D, n), d.body # << >>,
         NEW e, Len(e) = n + 2, \A j \in 1 .. n - 1 : e[j] = c[j],
         e[n].k = "body", e[n].rest = Tail(d.body), e[n + 1].k = "call", e[n + 1].s = Head(d.body),
         NEW D2, \A g \in 1 .. Opened(c, n) : D2[g] = D[g]
  PROVE  \A j \in 1 .. n : ScopeOK(J, e, D2, j)
<1> DEFINE m == n - 1
<1>1. /\ m \in Nat /\ m <= n /\ m + 1 = n /\ m <= Len(e) /\ Len(e) \in Nat /\ Len(c) \in Nat
      /\ \A j \in 1 .. n : j \in 1 .. m \/ j = n
  OBVIOUS
<1>2. \A j \in 1 .. n : e[j].k = c[j].k
  BY <1>1
<1>3. Own(e, n) \subseteq Own(c, n)
  <2>1. Own(e, n) = Local(Tail(d.body)) \cup Owed(e, n)
    BY DEF Own
  <2>2. Owed(e, n) \subseteq (IF IsDecl(Head(d.body)) THEN {Head(d.body).name} ELSE {})
    BY DEF Owed
  <2>3. /\ Local(Tail(d.body)) \subseteq Own(c, n)
        /\ IsDecl(Head(d.body)) => Head(d.body).name \in Own(c, n)
    BY OwnFirst
  <2> HIDE DEF m
  <2> QED BY ONLY <2>1, <2>2, <2>3
<1>4. \A j \in n + 1 .. Len(e) : ~Beside(e, n, j)
  <2>1. \A j \in n + 1 .. Len(e) : n + 1 \in n + 1 .. j
    OBVIOUS
  <2> QED BY <2>1 DEF Beside, Framed
<1> HIDE DEF m
<1>5. ~Pending(e, m) /\ ~Pending(c, m)
  BY <1>1 DEF Pending
<1>6. \A j \in m + 1 .. Len(e) : Beside(e, m, j) =>
        \/ Own(e, j) = {}
        \/ \E x \in m + 1 .. Len(c) : Beside(c, m, x) /\ Own(e, j) \subseteq Own(c, x)
  <2> SUFFICES ASSUME NEW j \in m + 1 .. Len(e), Beside(e, m, j) PROVE Own(e, j) \subseteq Own(c, n)
    <3>1. n \in m + 1 .. Len(c)
      BY <1>1
    <3>2. Beside(c, m, n)
      BY <1>1 DEF Beside, Framed
    <3> QED BY <3>1, <3>2
  <2>1. CASE j = n
    BY <1>3, <2>1
  <2>2. CASE j # n
    <3>1. j \in n + 1 .. Len(e) /\ Beside(e, n, j)
      BY <1>1, <2>2 DEF Beside
    <3> QED BY <1>4, <3>1
  <2> QED BY <2>1, <2>2
<1>7. \A i \in 1 .. m : ScopeOK(J, e, D2, i)
  <2>1. \A i \in 1 .. m : ScopeOK(J, c, D, i) /\ e[i] = c[i]
    BY <1>1 DEF Scopes, m
  <2>2. \A g \in 1 .. Opened(c, m) : D2[g] = D[g]
    <3>1. Opened(c, m) \in Nat /\ Opened(c, n) \in Nat /\ Opened(c, m) <= Opened(c, n)
      BY <1>1, OpenedOK
    <3> QED BY <3>1
  <2>3. m \in Nat /\ Len(c) \in Nat /\ Len(e) \in Nat /\ m <= Len(c) /\ m <= Len(e)
    BY <1>1
  <2>4. /\ \A i \in 1 .. m : ScopeOK(J, c, D, i)
        /\ \A i \in 1 .. m : e[i] = c[i]
        /\ Pending(e, m) <=> Pending(c, m)
        /\ Pending(c, m) => e[m + 1].s = c[m + 1].s
    BY <1>5, <2>1
  <2> QED BY ONLY <1>6, <2>2, <2>3, <2>4, ScopesKept
<1>8. Before(d, e, n)
  <2>1. Pending(e, n)
    BY <1>1 DEF Pending
  <2> QED BY <2>1 DEF Before
<1>9. Scoped(d, e, D2, n)
  <2>1. \A j \in n + 1 .. Len(e) : Beside(e, n, j) =>
          \/ Own(e, j) = {}
          \/ \E x \in n + 1 .. Len(c) : Beside(c, n, x) /\ Own(e, j) \subseteq Own(c, x)
    BY <1>4
  <2> QED BY <1>2, <1>3, <2>1, ScopedSame
<1>10. ScopeOK(J, e, D2, n)
  BY <1>8, <1>9 DEF ScopeOK
<1> QED BY <1>1, <1>7, <1>10

LEMMA CallMeant ==
  ASSUME NEW J, Judged(prog, nodeSym, J), Plain(prog, J, Local), IInv(J),
         NEW D, Meant(J, Declarations(prog, J), ctl, D, frames, env), Call
  PROVE  MeantNext(J)
<1> DEFINE n == Len(ctl)
           w == Len(frames)
           x == [k |-> "call", s |-> Stmt]
           y == Body(prog[2].body)
           T == Declarations(prog, J)
           arg == IntVal(Stmt.e.n) + Stmt.e.v
           p == prog[2].params[1]
           r == [name |-> p, val |-> arg]
           fr == <<r>>
           dv == [q \in {<<2>>} |-> arg]
           o == OfFunction(prog[2], 2)
<1>1. /\ AtStmt /\ Stmt.e.op = "call" /\ arg <= MaxInt
      /\ frames' = Append(frames, fr) /\ env' = Append(env, dv)
      /\ ctl' = Advanced \o <<x, y>>
  BY DEF Call
<1>2. PICK d \in J : /\ Before(d, ctl, n) /\ Scoped(d, ctl, D, n)
                     /\ d.body = ctl[n].rest /\ d.body # << >> /\ Stmt = Head(d.body)
  BY <1>1, AtMeaning
<1>3. /\ n \in Nat /\ n >= 1 /\ w = Opened(ctl, n) /\ w \in Nat /\ w >= 1 /\ ctl[n].k = "body"
      /\ frames \in Seq(Seq(Binding)) /\ EnvOK(env) /\ Len(env) = 1 + Count(ctl, n, {"call"})
  <2>1. /\ n \in Nat /\ n >= 1 /\ w = Opened(ctl, n) /\ ctl[n].k = "body" /\ frames \in Seq(Seq(Binding))
        /\ EnvOK(env) /\ Len(env) = 1 + Count(ctl, n, {"call"})
    BY <1>1, AtTop, AtStatement
  <2>2. Opened(ctl, n) \in Nat /\ Opened(ctl, n) >= 1
    BY <2>1, OpenedOK
  <2> QED BY <2>1, <2>2
<1>4. Shaped(Stmt, Callable(prog))
  BY <1>1, <1>2, AtStatement
<1>5. /\ Stmt.e.v \in Nat /\ p \in STRING /\ Callable(prog) /\ DOMAIN prog[2].params = {1}
  BY <1>1, <1>4 DEF Shaped, Callable
<1>6. arg \in Value
  <2>1. IntVal(Stmt.e.n) \in Nat
    BY <1>3, LookOK
  <2>2. arg \in Nat
    BY <1>5, <2>1
  <2> QED BY <1>1, <2>2, InterpAssumption DEF Value
<1>7. /\ o \in J /\ o.body = prog[2].body /\ DOMAIN o.sym = {p} /\ o.sym[p] = <<2>> /\ o.level = 0
  <2>1. o \in J
    BY <1>5 DEF Judged
  <2>2. {prog[2].params[i] : i \in DOMAIN prog[2].params} = {p}
    BY <1>5
  <2> QED BY <2>1, <2>2 DEF OfFunction, Judgement
<1>8. << <<2>>, p, 0 >> \in T
  BY <1>5 DEF Declarations
<1>9. p \notin Local(o.body)
  BY <1>5, <1>7 DEF Plain
<1>10. /\ x.k = "call" /\ x.s = Stmt /\ y.k = "body" /\ y.rest = o.body
       /\ r.name = p /\ r.val = arg /\ DOMAIN dv = {<<2>>} /\ dv[<<2>>] = arg
  BY <1>7 DEF Body
<1>11. r \in Binding
  BY <1>5, <1>6 DEF Binding
<1> HIDE DEF arg, p, o, r, dv, x, y, T, n, w
<1>12. fr \in Seq(Binding) /\ DOMAIN fr = {1} /\ fr[1] = r
  BY <1>11
<1> HIDE DEF fr
<1> DEFINE call == D[w].call + 1
           level == 0
           sym == o.sym
<1> HIDE DEF call, level, sym
<1> DEFINE D2 == Framing(ctl', n, D, call, level, sym)
<1>13. /\ Len(ctl') = n + 2 /\ ctl'[n + 1] = x /\ ctl'[n + 2] = y
       /\ \A i \in 1 .. n : ctl'[i].k = ctl[i].k
       /\ \A i \in 1 .. n - 1 : ctl'[i] = ctl[i]
       /\ ctl'[n] = Body(Tail(d.body))
  BY <1>1, <1>2, AdvancedAndPushed DEF n
<1>14. ctl'[n].k = "body" /\ ctl'[n].rest = Tail(d.body)
  BY <1>13 DEF Body
<1>15. Opened(ctl', n) = w
  BY <1>3, <1>13, OpenedSame
<1> HIDE DEF D2
<1>16. /\ \A g \in 1 .. w : D2[g] = D[g]
       /\ D2[w + 1].call = call /\ D2[w + 1].level = 0 /\ D2[w + 1].sym = sym
  BY <1>3, <1>15, FramingIs DEF D2, level
<1>17. Layout(ctl, n, D) /\ Views(T, D, frames, env) /\ Scopes(J, ctl, D)
  BY DEF Meant, T, n
<1>18. /\ D[w].call = Len(env) /\ Len(env) \in Nat /\ call = Len(env) + 1
       /\ \A g \in 1 .. w : D[g].call \in 1 .. Len(env)
  <2>1. n \in 0 .. n
    BY <1>3
  <2>2. D[w].call = Len(env)
    BY <1>3, <1>17, <2>1 DEF Layout
  <2>3. Len(env) \in Nat
    BY <1>3, IsSeqLen DEF EnvOK
  <2>4. \A g \in 1 .. w : D[g].call \in 1 .. D[w].call
    BY <1>3, <1>17, CallsUpTo
  <2> QED BY <2>2, <2>3, <2>4 DEF call
<1>19. \A j \in 1 .. n : ScopeOK(J, ctl', D2, j)
  <2>1. Unconfused(d, Local)
    BY <1>2 DEF Plain
  <2>2. ctl'[n + 1].k = "call" /\ ctl'[n + 1].s = Head(d.body) /\ Len(ctl) = n
    BY <1>2, <1>10, <1>13 DEF n
  <2>3. \A g \in 1 .. Opened(ctl, n) : D2[g] = D[g]
    BY <1>3, <1>16
  <2>4. n \in Nat /\ n >= 1 /\ ctl[n].k = "body" /\ d \in J /\ Before(d, ctl, n) /\ Scoped(d, ctl, D, n)
    BY <1>2, <1>3
  <2>5. /\ d.body # << >> /\ Len(ctl') = n + 2 /\ \A i \in 1 .. n - 1 : ctl'[i] = ctl[i]
        /\ Scopes(J, ctl, D)
    BY <1>2, <1>13, <1>17
  <2> QED BY ONLY <1>14, <2>1, <2>2, <2>3, <2>4, <2>5, ScopesCalling
<1>20. Enters(o, D2, w + 1)
  <2>1. ASSUME NEW m \in DOMAIN o.sym PROVE Sees(D2, w + 1, m, o.sym[m])
    <3>1. w + 1 \in 1 .. w + 1 /\ \A h \in (w + 1) + 1 .. w + 1 : FALSE
      BY <1>3
    <3> QED BY <1>16, <3>1 DEF Sees, sym
  <2>2. Local(o.body) \cap DOMAIN D2[w + 1].sym = {}
    BY <1>7, <1>9, <1>16 DEF sym
  <2> QED BY <1>7, <1>16, <2>1, <2>2 DEF Enters
<1>21. /\ Len(frames') = w + 1 /\ frames'[w + 1] = fr
       /\ \A g \in 1 .. w : frames'[g] = frames[g]
  BY <1>1, <1>3, <1>12, AppendProperties DEF w
<1>22. env'[call] = dv /\ \A k \in 1 .. Len(env) : env'[k] = env[k]
  BY <1>1, <1>3, <1>18, Pushed DEF EnvOK
<1>23. View(T, D2, frames', env', w + 1)
  <2>1. \A m : Has(fr, m) <=> m = p
    BY <1>10, <1>12 DEF Has
  <2>2. Held(fr, p) = arg
    <3>1. LookupLocal(fr, p) \in DOMAIN fr
      BY <1>12, <2>1, LookupIn
    <3> QED BY <1>10, <1>12, <3>1 DEF Held
  <2> QED BY <1>7, <1>8, <1>10, <1>16, <1>21, <1>22, <2>1, <2>2 DEF View, sym
<1>24. Views(T, D2, frames', env')
  <2>1. Len(frames) = w
    BY DEF w
  <2>2. \A g \in 1 .. w : D2[g] = D[g] /\ frames'[g] = frames[g] /\ env'[D[g].call] = env[D[g].call]
    BY <1>16, <1>18, <1>21, <1>22
  <2>3. Views(T, D, frames, env) /\ w \in Nat /\ Len(frames) = w /\ Len(frames') = w + 1
    BY <1>3, <1>17, <1>21, <2>1
  <2> QED BY ONLY <1>23, <2>2, <2>3, ViewsPushed
<1>25. Layout(ctl', n + 2, D2) /\ Opened(ctl', n + 2) = w + 1
  <2>1. ctl'[n + 1].k = "call" /\ ctl'[n + 2].k = "body"
    BY <1>10, <1>13
  <2>2. level \in Nat /\ call = D[Opened(ctl, n)].call + 1 /\ D2 = Framing(ctl', n, D, call, level, sym)
    BY <1>3 DEF D2, call, level
  <2> QED BY <1>3, <1>13, <1>17, <2>1, <2>2, LayoutFramed DEF Framed
<1>26. Scopes(J, ctl', D2)
  <2>1. ctl'[n + 1].k \in Framed /\ ctl'[n + 2].k = "body" /\ o.body = ctl'[n + 2].rest
    BY <1>10, <1>13 DEF Framed
  <2> QED BY <1>3, <1>7, <1>13, <1>14, <1>19, <1>20, <1>25, <2>1, ScopesFramed
<1> QED BY <1>13, <1>24, <1>25, <1>26 DEF Meant, MeantNext, T

LEMMA ReturnMeant ==
  ASSUME NEW J, IInv(J), NEW D, Meant(J, Declarations(prog, J), ctl, D, frames, env), Return
  PROVE  MeantNext(J)
<1> DEFINE n == Len(ctl)
           m == n - 1
           w == Len(frames)
           it == [k |-> "deliver", s |-> Top.s]
           T == Declarations(prog, J)
<1>1. /\ ctl # << >> /\ Top.k = "call" /\ frames' = Front(frames) /\ env' = Front(env)
      /\ ctl' = Append(Front(ctl), it)
  BY DEF Return, AtReturn
<1>2. /\ IsSeq(ctl) /\ Top = ctl[n] /\ n \in Nat \ {0}
      /\ w = Opened(ctl, n) /\ Len(env) = 1 + Count(ctl, n, {"call"})
      /\ frames \in Seq(Seq(Binding)) /\ frames # << >> /\ EnvOK(env) /\ env # << >>
  BY <1>1, AtTop
<1>3. Layout(ctl, n, D) /\ Views(T, D, frames, env) /\ Scopes(J, ctl, D)
  BY DEF Meant
<1>4. it.k = "deliver" /\ it.s = ctl[n].s /\ ctl[n].k = "call"
  BY <1>1, <1>2
<1> HIDE DEF it, T
<1>5. Len(ctl') = n /\ (\A i \in 1 .. m : ctl'[i] = ctl[i]) /\ ctl'[n] = it
  <2>1. ctl' = Append(Front(ctl), it) /\ IsSeq(ctl) /\ ctl # << >>
    BY <1>1, <1>2
  <2> QED BY ONLY <2>1, Replaced
<1>6. n > 1 /\ ctl[m].k = "body"
  <2>1. n \in 1 .. n
    BY <1>2
  <2>2. ScopeOK(J, ctl, D, n)
    BY <1>3, <2>1 DEF Scopes
  <2> QED BY <1>4, <2>2 DEF ScopeOK
<1> HIDE DEF n
<1>7. /\ n \in Nat /\ m \in Nat /\ m + 1 = n /\ m >= 1 /\ m <= n /\ m < n
      /\ Len(ctl) = n /\ m <= Len(ctl) /\ m <= Len(ctl') /\ m < Len(ctl) /\ m < Len(ctl')
      /\ Len(ctl) \in Nat /\ Len(ctl') \in Nat
      /\ \A j \in 1 .. n : j \in 1 .. m \/ j = n
  <2>1. n \in Nat /\ n > 1 /\ Len(ctl) = n /\ Len(ctl') = n
    BY <1>2, <1>5, <1>6 DEF n
  <2> QED BY ONLY <2>1
<1> HIDE DEF m
<1>8. \A j \in 1 .. m : ctl'[j].k = ctl[j].k
  BY <1>5
<1>9. \A i \in 1 .. m : ScopeOK(J, ctl', D, i)
  <2> DEFINE D2 == D
  <2>1. \A g \in 1 .. Opened(ctl, m) : D2[g] = D[g]
    OBVIOUS
  <2> HIDE DEF D2
  <2>2. \A i \in 1 .. m : ScopeOK(J, ctl, D, i) /\ ctl'[i] = ctl[i]
    BY <1>3, <1>5, <1>7 DEF Scopes
  <2>3. /\ Pending(ctl', m) <=> Pending(ctl, m)
        /\ Pending(ctl, m) => ctl'[m + 1].s = ctl[m + 1].s
    BY <1>4, <1>5, <1>7 DEF Pending
  <2>4. \A j \in m + 1 .. Len(ctl') : Own(ctl', j) = {}
    <3>1. \A j \in m + 1 .. Len(ctl') : j = n
      BY <1>5, <1>7
    <3> QED BY <1>4, <1>5, <3>1 DEF Own
  <2>5. \A j \in m + 1 .. Len(ctl') : Beside(ctl', m, j) =>
          \/ Own(ctl', j) = {}
          \/ \E x \in m + 1 .. Len(ctl) : Beside(ctl, m, x) /\ Own(ctl', j) \subseteq Own(ctl, x)
    BY <2>4
  <2>6. \A i \in 1 .. m : ScopeOK(J, ctl', D2, i)
    <3>1. (\A i \in 1 .. m : ScopeOK(J, ctl, D, i)) /\ (\A i \in 1 .. m : ctl'[i] = ctl[i])
      BY <2>2
    <3> QED BY ONLY <1>7, <2>1, <2>3, <2>5, <3>1, ScopesKept
  <2> QED BY <2>6 DEF D2
<1>10. ScopeOK(J, ctl', D, n)
  <2>1. ctl'[n - 1].k = "body" /\ n > 1
    BY <1>6, <1>7, <1>8 DEF m
  <2> QED BY <1>4, <1>5, <2>1 DEF ScopeOK
<1>11. Layout(ctl, m, D) /\ Layout(ctl', m, D)
  <2> DEFINE D2 == D
  <2>1. \A g \in 1 .. Opened(ctl, m) : D2[g] = D[g]
    OBVIOUS
  <2> HIDE DEF D2
  <2>2. \A j \in 1 .. m : ctl[j].k = ctl[j].k
    OBVIOUS
  <2>3. Layout(ctl, m, D2)
    BY ONLY <1>3, <1>7, <2>1, <2>2, LayoutSame
  <2>4. Layout(ctl', m, D2)
    BY ONLY <1>3, <1>7, <1>8, <2>1, LayoutSame
  <2> QED BY <2>3, <2>4 DEF D2
<1>12. Layout(ctl', n, D)
  <2>1. ctl'[m + 1].k \notin Framed
    BY <1>4, <1>5, <1>7 DEF Framed
  <2>2. Layout(ctl', m + 1, D)
    BY <1>7, <1>11, <2>1, LayoutMore
  <2> QED BY <1>7, <2>2
<1>13. w = Opened(ctl, m) + 1 /\ Len(env) = 2 + Count(ctl, m, {"call"})
       /\ Opened(ctl, m) \in Nat /\ Count(ctl, m, {"call"}) \in Nat
  <2>1. ctl[m + 1].k = "call"
    BY <1>4, <1>7
  <2>2. Opened(ctl, m + 1) = Opened(ctl, m) + 1 /\ Count(ctl, m + 1, {"call"}) = Count(ctl, m, {"call"}) + 1
    BY <1>7, <2>1, MatchesNext
  <2>3. Opened(ctl, m) \in Nat /\ Count(ctl, m, {"call"}) \in Nat
    BY <1>7, MatchesMore
  <2> QED BY <1>2, <1>7, <2>2, <2>3
<1>14. \A g \in 1 .. Opened(ctl, m) : D[g].call \in 1 .. Len(env) - 1
  <2>1. m \in 0 .. n
    BY <1>7
  <2>2. D[Opened(ctl, m)].call = 1 + Count(ctl, m, {"call"})
    BY <1>3, <2>1 DEF Layout
  <2>3. \A g \in 1 .. Opened(ctl, m) : D[g].call \in 1 .. D[Opened(ctl, m)].call
    BY <1>7, <1>11, CallsUpTo
  <2>4. D[Opened(ctl, m)].call = Len(env) - 1
    BY <1>13, <2>2
  <2> QED BY <2>3, <2>4
<1>15. Views(T, D, frames', env')
  <2> DEFINE u == Opened(ctl, m)
  <2>1. Len(frames') = w - 1 /\ \A g \in 1 .. w - 1 : frames'[g] = frames[g]
    BY <1>1, <1>2, SeqIs, Popped
  <2>2. \A k \in 1 .. Len(env) - 1 : env'[k] = env[k]
    BY <1>1, <1>2, Popped DEF EnvOK
  <2>3. u \in Nat /\ Len(frames) \in Nat /\ u <= Len(frames) /\ Len(frames') = u /\ u = w - 1
    BY <1>13, <2>1
  <2> HIDE DEF u, w
  <2>4. \A g \in 1 .. u : frames'[g] = frames[g] /\ env'[D[g].call] = env[D[g].call]
    BY <1>14, <2>1, <2>2, <2>3 DEF u
  <2> QED BY ONLY <1>3, <2>3, <2>4, ViewsPopped
<1>16. Scopes(J, ctl', D)
  BY <1>5, <1>7, <1>9, <1>10 DEF Scopes
<1> QED BY <1>5, <1>12, <1>15, <1>16 DEF Meant, MeantNext, T

LEMMA InitMeant == ASSUME Init, Judged(prog, nodeSym, Judgements(prog)) PROVE Meaning(Judgements(prog))
<1> DEFINE J == Judgements(prog)
           T == Declarations(prog, J)
           b == Body(prog[1].body)
           o == OfFunction(prog[1], 1)
           r == [call |-> 1, level |-> 0, sym |-> o.sym]
           D == [g \in {1} |-> r]
<1>1. frames = << << >> >> /\ ctl = <<b>>
  BY DEF Init
<1>2. o \in J /\ o.body = prog[1].body /\ DOMAIN o.sym = {} /\ o.level = 0
  <2>1. o \in J /\ prog[1].params = << >>
    BY DEF Judged
  <2>2. DOMAIN << >> = {}
    OBVIOUS
  <2>3. {prog[1].params[i] : i \in DOMAIN prog[1].params} = {}
    BY <2>1, <2>2
  <2> QED BY <2>1, <2>3 DEF OfFunction, Judgement
<1>3. b.k = "body" /\ b.rest = o.body
  BY <1>2 DEF Body
<1> HIDE DEF o
<1>4. r.call = 1 /\ r.level = 0 /\ DOMAIN r.sym = {}
  BY <1>2
<1> HIDE DEF r
<1>5. D[1] = r
  OBVIOUS
<1> HIDE DEF J, T, D, b
<1>6. Len(ctl) = 1 /\ ctl[1] = b /\ Len(frames) = 1 /\ \A n : ~Has(frames[1], n)
  <2>1. Len(ctl) = 1 /\ ctl[1] = b /\ Len(frames) = 1 /\ frames[1] = << >>
    BY <1>1
  <2>2. DOMAIN << >> = {}
    OBVIOUS
  <2> QED BY <2>1, <2>2 DEF Has
<1>7. \A i \in 1 .. 1 : i = 1
  OBVIOUS
<1>8. \A m \in 0 .. 1 : Opened(ctl, m) = 1 /\ Count(ctl, m, {"call"}) = 0
  <2>1. Opened(ctl, 0) = 1 /\ Count(ctl, 0, {"call"}) = 0
    BY OpenedOK, CountNone
  <2>2. 0 \in Nat /\ 0 + 1 = 1 /\ ctl[0 + 1].k \notin {"call", "block"}
    BY <1>3, <1>6
  <2>3. Opened(ctl, 0 + 1) = Opened(ctl, 0) /\ Count(ctl, 0 + 1, {"call"}) = Count(ctl, 0, {"call"})
    BY <2>2, MatchesNext
  <2>4. \A m \in 0 .. 1 : m = 0 \/ m = 0 + 1
    OBVIOUS
  <2> QED BY <2>1, <2>3, <2>4
<1>9. Layout(ctl, Len(ctl), D)
  <2>1. Opened(ctl, 1) = 1
    BY <1>8
  <2>2. \A m \in 0 .. 1 : D[Opened(ctl, m)].call = 1 + Count(ctl, m, {"call"})
    BY <1>4, <1>5, <1>8
  <2>3. \A g \in 1 .. 1 : D[g].call \in Nat \ {0} /\ D[g].level \in Nat
    BY <1>4, <1>5, <1>7
  <2>4. \A g, h \in 1 .. 1 : ~(g < h)
    OBVIOUS
  <2> QED BY <1>6, <2>1, <2>2, <2>3, <2>4 DEF Layout
<1>10. Views(T, D, frames, env)
  BY <1>4, <1>5, <1>6, <1>7 DEF Views, View
<1>11. Scopes(J, ctl, D)
  <2>1. ~Pending(ctl, 1) /\ \A j \in 1 + 1 .. Len(ctl) : FALSE
    BY <1>6 DEF Pending
  <2>2. Before(o, ctl, 1)
    BY <1>3, <1>6, <2>1 DEF Before
  <2>3. Opened(ctl, 1) = 1
    BY <1>8
  <2>4. Scoped(o, ctl, D, 1)
    BY <1>2, <1>4, <1>5, <2>1, <2>3 DEF Scoped
  <2>5. ScopeOK(J, ctl, D, 1)
    BY <1>2, <1>3, <1>6, <2>2, <2>4 DEF ScopeOK
  <2> QED BY <1>6, <1>7, <2>5 DEF Scopes
<1> QED BY <1>9, <1>10, <1>11 DEF Meaning, Meant, J, T

NamedInv == Inv /\ (Plain(prog, Judgements(prog), Local) => Meaning(Judgements(prog)))

LEMMA NextNamed == NamedInv /\ [Next]_vars => NamedInv'
<1> SUFFICES ASSUME NamedInv, [Next]_vars PROVE NamedInv'
  OBVIOUS
<1> DEFINE J == Judgements(prog)
<1>1. Inv /\ Judged(prog, nodeSym, J) /\ IInv(J)
  BY DEF NamedInv, Inv
<1>2. prog' = prog /\ nodeSym' = nodeSym
  BY DEF Next, vars, Simple, If, While, Block, Jump, Call, Return, Deliver, EndBody, EndLoop, Turn, EndBlock
<1>3. Inv'
  BY <1>1, NextInv
<1>4. SUFFICES ASSUME Plain(prog, J, Local) PROVE MeantNext(J)
  BY <1>2, <1>3 DEF NamedInv, MeantNext, Meaning
<1>5. PICK D : Meant(J, Declarations(prog, J), ctl, D, frames, env)
  BY <1>4 DEF NamedInv, Meaning
<1> HIDE DEF J
<1>6. CASE Simple
  BY <1>1, <1>4, <1>5, <1>6, SimpleMeant
<1>7. CASE If
  BY <1>1, <1>4, <1>5, <1>7, IfMeant
<1>8. CASE While
  BY <1>1, <1>4, <1>5, <1>8, WhileMeant
<1>9. CASE Block
  BY <1>1, <1>4, <1>5, <1>9, BlockMeant
<1>10. CASE Jump
  BY <1>1, <1>4, <1>5, <1>10, JumpMeant
<1>11. CASE Call
  BY <1>1, <1>4, <1>5, <1>11, CallMeant
<1>12. CASE Return
  BY <1>1, <1>5, <1>12, ReturnMeant
<1>13. CASE Deliver
  BY <1>1, <1>4, <1>5, <1>13, DeliverMeant
<1>14. CASE EndBody
  BY <1>1, <1>5, <1>14, EndBodyMeant
<1>15. CASE EndLoop
  BY <1>1, <1>5, <1>15, EndLoopMeant
<1>16. CASE Turn
  BY <1>1, <1>4, <1>5, <1>16, TurnMeant
<1>17. CASE EndBlock
  BY <1>1, <1>5, <1>17, EndBlockMeant
<1>18. CASE UNCHANGED vars
  BY <1>5, <1>18 DEF vars, MeantNext
<1> QED BY <1>6, <1>7, <1>8, <1>9, <1>10, <1>11, <1>12, <1>13, <1>14, <1>15, <1>16, <1>17, <1>18 DEF Next

\* A name of what is executed next, in the frames.
LEMMA NameMeaning ==
  ASSUME NEW J, Judged(prog, nodeSym, J), IInv(J),
         NEW D, Meant(J, Declarations(prog, J), ctl, D, frames, env),
         NEW s \in Looking, NEW nr \in NamesOf(s)
  PROVE  Look(nr[1]) = env[Len(env)][nodeSym[<<s.at, nr[2]>>].at]
<1> DEFINE n == Len(ctl)
           w == Len(frames)
<1>1. ctl # << >>
  BY DEF Looking, AtStmt, AtLoop
<1>2. /\ n \in Nat \ {0} /\ Top = ctl[n] /\ frames \in Seq(Seq(Binding))
      /\ w = Opened(ctl, n) /\ Len(env) = 1 + Count(ctl, n, {"call"})
  BY <1>1, AtTop
<1>3. PICK d \in J : Scoped(d, ctl, D, n) /\ d.body # << >> /\ Head(d.body) = s
  <2>1. CASE AtStmt
    <3>1. s = Stmt
      BY <2>1 DEF Looking
    <3> QED BY <2>1, <3>1, AtMeaning
  <2>2. CASE ~AtStmt
    <3>1. AtLoop /\ s = Top.s
      BY <2>2 DEF Looking
    <3>2. ctl[n].k = "while" /\ s = ctl[n].s
      BY <1>2, <3>1 DEF AtLoop
    <3>3. n \in 1 .. n
      BY <1>2
    <3>4. ScopeOK(J, ctl, D, n)
      BY <3>3 DEF Meant, Scopes
    <3>5. PICK d \in J : Before(d, ctl, n) /\ Scoped(d, ctl, D, n)
      BY <3>2, <3>4 DEF ScopeOK
    <3>6. d.body # << >> /\ Head(d.body) = s
      BY <3>2, <3>5 DEF Before
    <3> QED BY <3>5, <3>6
  <2> QED BY <2>1, <2>2
<1> DEFINE x == nr[1]
           p == d.sym[x]
<1>4. x \in DOMAIN d.sym /\ nodeSym[<<s.at, nr[2]>>].at = p
  <2>1. NamesUsed(s) \subseteq DOMAIN d.sym /\ Denotes(s, d.sym, nodeSym)
    BY <1>3 DEF Judged, Kept
  <2>2. x \in NamesUsed(s)
    BY DEF NamesOf, NamesUsed
  <2>3. nodeSym[<<s.at, nr[2]>>].at = p
    BY <2>1 DEF Denotes
  <2> QED BY <2>1, <2>2, <2>3
<1>5. Sees(D, w, x, p)
  BY <1>2, <1>3, <1>4 DEF Scoped
<1>6. D[w].call = Len(env)
  <2>1. n \in 0 .. n
    BY <1>2
  <2> QED BY <1>2, <2>1 DEF Meant, Layout
<1> HIDE DEF x, p
<1>7. Look(x) = env[D[w].call][p]
  <2>1. Views(Declarations(prog, J), D, frames, env)
    BY DEF Meant
  <2> QED BY <1>2, <1>5, <2>1, SeesLook
<1> QED BY <1>4, <1>6, <1>7 DEF x

\* In a program whose ifs and loops declare nothing that the flat frames could
\* confuse, however long it runs and however deep it calls, lookup answers every
\* name with the current value of the declaration that the resolver bound it to:
\* the innermost frame that has the name is the right one, and has it once.
THEOREM PlainNamesMean == FrontEndRules /\ Spec => []PlainNames
<1>1. FrontEndRules /\ Init => NamedInv
  BY InitInv, InitMeant DEF NamedInv, Inv
<1>2. NamedInv => PlainNames
  <2> SUFFICES ASSUME NEW J, Judged(prog, nodeSym, J), IInv(J), Meaning(J) PROVE NamesMeanDeclarations
    BY DEF NamedInv, Inv, PlainNames
  <2>1. PICK D : Meant(J, Declarations(prog, J), ctl, D, frames, env)
    BY DEF Meaning
  <2>2. \A s \in Looking : \A nr \in NamesOf(s) :
          Look(nr[1]) = env[Len(env)][nodeSym[<<s.at, nr[2]>>].at]
    BY <2>1, NameMeaning, Zenon
  <2> QED BY <2>2, Zenon DEF NamesMeanDeclarations
<1>3. NamedInv /\ [Next]_vars => NamedInv'
  BY NextNamed
<1> QED BY <1>1, <1>2, <1>3, PTL DEF Spec
=============================================================================
