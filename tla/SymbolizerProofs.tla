-------------------------- MODULE SymbolizerProofs --------------------------
(***************************************************************************)
(* Machine-checked proofs about the crash collector (Symbolizer), for      *)
(* every program whose prologs and frames fit, every stack and every       *)
(* bound: what the report lists of the calls that were active.             *)
(***************************************************************************)
EXTENDS Symbolizer, FiniteSetTheorems, SequenceTheorems, WellFoundedInduction, TLAPS

-----------------------------------------------------------------------------
(* Induction, sets and sequences.                                          *)

\* Induction over the naturals, for sets: the least of those left out would follow one
\* that is in.
Smaller == {p \in Nat \X Nat : p[1] < p[2]}
LEMMA SmallerIsWellFounded == IsWellFoundedOn(Smaller, Nat)
BY NatLessThanWellFounded DEF OpToRel, Smaller

LEMMA HasLeast ==
  ASSUME NEW T \in SUBSET Nat, T # {}
  PROVE  \E m \in T : \A k \in T : m <= k
<1>1. PICK m \in T : \A k \in T : <<k, m>> \notin Smaller
  BY SmallerIsWellFounded, WFMin
<1>2. ASSUME NEW k \in T PROVE m <= k
  <2>1. k \in Nat /\ m \in Nat
    OBVIOUS
  <2>2. ~ (k < m)
    BY <1>1, <2>1 DEF Smaller
  <2> QED BY <2>1, <2>2
<1> QED BY <1>2

LEMMA ByInduction ==
  ASSUME NEW T, 0 \in T, \A n \in Nat : n \in T => n + 1 \in T
  PROVE  \A n \in Nat : n \in T
<1> SUFFICES ASSUME NEW n \in Nat, n \notin T PROVE FALSE
  OBVIOUS
<1>1. PICK m \in Nat \ T : \A k \in Nat \ T : m <= k
  BY HasLeast
<1>2. m # 0 /\ m - 1 \in Nat /\ ~ (m <= m - 1) /\ (m - 1) + 1 = m
  BY <1>1
<1>3. m - 1 \in T
  BY <1>1, <1>2
<1> QED BY <1>1, <1>2, <1>3

\* What a sequence has after more is added.
LEMMA JoinIs ==
  ASSUME NEW S, NEW s \in Seq(S), NEW t \in Seq(S)
  PROVE  /\ s \o t \in Seq(S) /\ Len(s \o t) = Len(s) + Len(t)
         /\ \A i \in 1 .. Len(s) : (s \o t)[i] = s[i]
         /\ \A i \in 1 .. Len(t) : (s \o t)[Len(s) + i] = t[i]
OBVIOUS

\* The first elements of a sequence.
LEMMA HeadIs ==
  ASSUME NEW S, NEW s \in Seq(S), NEW d \in 0 .. Len(s)
  PROVE  SubSeq(s, 1, d) \in Seq(S) /\ Len(SubSeq(s, 1, d)) = d /\ \A k \in 1 .. d : SubSeq(s, 1, d)[k] = s[k]
OBVIOUS

\* A list without repetitions names as many as it is long.
Distinct(s) == \A i, j \in 1 .. Len(s) : s[i] = s[j] => i = j
LEMMA DistinctCount ==
  ASSUME NEW S, NEW s \in Seq(S), Distinct(s)
  PROVE  Cardinality(Range(s)) = Len(s)
<1>1. Len(s) \in Nat /\ DOMAIN s = 1 .. Len(s) /\ s = [i \in 1 .. Len(s) |-> s[i]]
  OBVIOUS
<1>2. s \in [1 .. Len(s) -> Range(s)]
  BY <1>1 DEF Range
<1>3. s \in Bijection(1 .. Len(s), Range(s))
  <2>1. \A t \in Range(s) : \E k \in 1 .. Len(s) : s[k] = t
    BY <1>1 DEF Range
  <2>2. \A a, b \in 1 .. Len(s) : s[a] = s[b] => a = b
    BY DEF Distinct
  <2> QED BY <1>2, <2>1, <2>2 DEF Bijection, Injection, Surjection, IsInjective
<1>4. ExistsBijection(1 .. Len(s), Range(s))
  BY <1>3 DEF ExistsBijection
<1> QED BY <1>1, <1>4, FS_CountingElements

\* The largest of a set of indices, by which the folds of a sequence go.
LEMMA LastIs ==
  ASSUME NEW n \in Nat, NEW S \in SUBSET (1 .. n), S # {}
  PROVE  Max(S) \in S /\ \A x \in S : x <= Max(S)
<1> DEFINE T == {m \in Nat : \A x \in S : x <= m}
<1>1. n \in T
  OBVIOUS
<1>2. PICK m \in T : \A k \in T : m <= k
  <2> HIDE DEF T
  <2>1. T \in SUBSET Nat /\ T # {}
    BY <1>1 DEF T
  <2> QED BY <2>1, HasLeast
<1>3. m \in S
  <2> SUFFICES ASSUME m \notin S PROVE FALSE
    OBVIOUS
  <2>1. PICK x : x \in S
    OBVIOUS
  <2>2. m \in Nat /\ m > 0 /\ \A y \in S : y <= m - 1
    BY <1>2, <2>1
  <2>3. m - 1 \in T /\ ~ (m <= m - 1)
    BY <2>2
  <2> QED BY <1>2, <2>3
<1>4. \A x \in S : x <= m
  OBVIOUS
<1>5. \E y \in S : \A x \in S : x <= y
  BY <1>3, <1>4
<1> QED BY <1>5 DEF Max

LEMMA LastTaken ==
  ASSUME NEW n \in Nat, NEW S \in SUBSET (1 .. (n + 1))
  PROVE  /\ n + 1 \in S => Max(S) = n + 1
         /\ S \ {n + 1} \in SUBSET (1 .. n)
         /\ n + 1 \notin S => S \in SUBSET (1 .. n) /\ (S # {} => Max(S) \in S)
<1>1. n + 1 \in Nat /\ S \ {n + 1} \in SUBSET (1 .. n)
  OBVIOUS
<1>2. S # {} => Max(S) \in S /\ \A x \in S : x <= Max(S)
  BY <1>1, LastIs
<1>3. ASSUME n + 1 \in S PROVE Max(S) = n + 1
  <2>1. PICK m : m = Max(S)
    OBVIOUS
  <2>2. m \in 1 .. (n + 1) /\ n + 1 <= m
    BY <1>2, <1>3, <2>1
  <2> QED BY <2>1, <2>2
<1> QED BY <1>1, <1>2, <1>3

LEMMA AllButLast == ASSUME NEW k \in Nat, k > 0 PROVE (1 .. k) \ {k} = 1 .. (k - 1) /\ Max(1 .. k) = k
<1>1. (1 .. k) \ {k} = 1 .. (k - 1)
  OBVIOUS
<1>2. 1 .. k \in SUBSET (1 .. k) /\ k \in 1 .. k /\ 1 .. k # {}
  OBVIOUS
<1>3. PICK m : m = Max(1 .. k)
  OBVIOUS
<1>4. m \in 1 .. k /\ k <= m
  BY <1>2, <1>3, LastIs
<1> QED BY <1>1, <1>3, <1>4

LEMMA LesserIs ==
  ASSUME NEW a \in Nat, NEW b \in Nat
  PROVE  Min({a, b}) \in {a, b} /\ Min({a, b}) <= a /\ Min({a, b}) <= b
<1>1. \E x \in {a, b} : \A y \in {a, b} : x <= y
  OBVIOUS
<1> QED BY <1>1 DEF Min

-----------------------------------------------------------------------------
(* The calls and their return addresses.                                   *)

\* The words there are; a place in the code is counted from its prolog.
Words == [f : DOMAIN Code, n : Nat] \cup [f : {"number", "garbage"}, n : Int]
SyTypes ==
  /\ pc \in Words /\ rbp \in Int /\ stack \in Seq(Words)
  /\ calls \in Seq([back : Words, rsp : Nat, rbp : Int]) /\ Len(calls) > 0

\* The return address of every call that is active stands where the call put it,
\* that of the outer one deeper.
Returned(w) == InCode(w) /\ ~InProlog(w)
CallsStand ==
  /\ \A i \in 1 .. Len(calls) : calls[i].rsp \in 1 .. Len(stack)
  /\ \A i, j \in 1 .. Len(calls) : i < j => calls[j].rsp < calls[i].rsp
  /\ \A i \in 1 .. (Len(calls) - 1) : Returned(calls[i].back) /\ stack[calls[i].rsp] = calls[i].back

\* What a prolog has just allocated lies above the return address of its function.
Fresh(f, j, k) ==
  /\ Code[f].prolog[j].op = "alloc"
  /\ \A i \in (j + 1) .. k : Code[f].prolog[i].op \in {"save", "set"}
AllocStands ==
  InProlog(pc) => \A j \in 1 .. pc.n : Fresh(pc.f, j, pc.n) => calls[1].rsp + Code[pc.f].prolog[j].n <= Len(stack)
SyInv == SyTypes /\ CallsStand /\ AllocStands

\* Writing one place of a stack, and a stack of one word many times.
LEMMA WritesOne ==
  ASSUME NEW s \in Seq(Words), NEW i \in 1 .. Len(s), NEW x \in Words
  PROVE  LET t == [s EXCEPT ![i] = x] IN
         t \in Seq(Words) /\ Len(t) = Len(s) /\ \A k \in 1 .. Len(s) : k # i => t[k] = s[k]
BY ExceptSeq

LEMMA FilledIs ==
  ASSUME NEW x \in Words, NEW m \in Nat
  PROVE  LET s == [i \in 1 .. m |-> x] IN s \in Seq(Words) /\ Len(s) = m
OBVIOUS

LEMMA WordsAre ==
  /\ \A w \in Words : InCode(w) => w.n \in Nat
  /\ \A x \in Int : Number(x) \in Words /\ ~InCode(Number(x))
  /\ Garbage \in Words /\ ~InCode(Garbage)
  /\ \A f \in DOMAIN Code, n \in Nat : Place(f, n) \in Words /\ Place(f, n).f = f /\ Place(f, n).n = n
BY PrologsFit DEF Words, InCode, Number, Garbage, Place

LEMMA BodyIs ==
  ASSUME NEW f \in DOMAIN Code
  PROVE  Body(f) \in Words /\ InCode(Body(f)) /\ ~InProlog(Body(f)) /\ Body(f).f = f
<1>1. Len(Code[f].prolog) \in Nat
  BY PrologsFit
<1>2. Body(f) = [f |-> f, n |-> Len(Code[f].prolog) + 1]
  BY DEF Body, Place
<1> QED BY <1>1, <1>2 DEF Words, InCode, InProlog

LEMMA StepIs ==
  ASSUME NEW f \in DOMAIN Code, NEW k \in 1 .. Len(Code[f].prolog)
  PROVE  /\ Code[f].prolog[k].op \in {"push", "alloc", "set", "save"} /\ Code[f].prolog[k].n \in Nat
         /\ Code[f].prolog[k].op = "save" =>
              \E j \in 1 .. (k - 1) :
                /\ Code[f].prolog[j].op = "alloc" /\ Code[f].prolog[k].n < Code[f].prolog[j].n
                /\ \A i \in (j + 1) .. (k - 1) : Code[f].prolog[i].op \in {"save", "set"}
<1>1. PICK prolog : prolog = Code[f].prolog
  OBVIOUS
<1>2. prolog \in Seq([op : {"push", "alloc", "set", "save"}, n : Nat])
  BY <1>1, PrologsFit
<1>3. k \in DOMAIN prolog /\ prolog[k] \in [op : {"push", "alloc", "set", "save"}, n : Nat]
  <2>1. k \in 1 .. Len(prolog)
    BY <1>1
  <2>2. \A S, q : q \in Seq(S) => DOMAIN q = 1 .. Len(q) /\ \A i \in 1 .. Len(q) : q[i] \in S
    BY ElementOfSeq
  <2>3. DOMAIN prolog = 1 .. Len(prolog) /\ \A i \in 1 .. Len(prolog) : prolog[i] \in [op : {"push", "alloc", "set", "save"}, n : Nat]
    BY <1>2, <2>2
  <2> QED BY <2>1, <2>3
<1>4. prolog[k].op \in {"push", "alloc", "set", "save"} /\ prolog[k].n \in Nat
  BY <1>3
<1>5. \A i \in DOMAIN Code[f].prolog : Code[f].prolog[i].op = "save" =>
        \E j \in 1 .. (i - 1) :
          /\ Code[f].prolog[j].op = "alloc" /\ Code[f].prolog[i].n < Code[f].prolog[j].n
          /\ \A m \in (j + 1) .. (i - 1) : Code[f].prolog[m].op \in {"save", "set"}
  BY PrologsFit
<1> QED BY <1>1, <1>3, <1>4, <1>5

LEMMA SyInvFirst == SyInit => SyInv
<1> SUFFICES ASSUME SyInit PROVE SyInv
  OBVIOUS
<1>1. /\ pc = Place(Start, 0) /\ rbp = 0 /\ stack = <<Number(0)>>
      /\ calls = <<[back |-> Number(0), rsp |-> 1, rbp |-> 0]>>
  BY DEF SyInit
<1>2. Start \in DOMAIN Code /\ pc \in Words /\ pc.n = 0 /\ Number(0) \in Words
  BY <1>1, PrologsFit, WordsAre
<1>3. Len(stack) = 1 /\ Len(calls) = 1 /\ calls[1].rsp = 1
  BY <1>1
<1>4. SyTypes
  BY <1>1, <1>2, <1>3 DEF SyTypes
<1>5. CallsStand
  BY <1>3 DEF CallsStand
<1>6. AllocStands
  BY <1>2 DEF AllocStands
<1> QED BY <1>4, <1>5, <1>6 DEF SyInv

\* A stack that keeps what it had keeps the calls standing.
LEMMA StackGrows ==
  ASSUME SyTypes, CallsStand, NEW s \in Seq(Words), Len(stack) <= Len(s),
         \A i \in 1 .. Len(stack) : i <= calls[1].rsp => s[i] = stack[i]
  PROVE  /\ \A i \in 1 .. Len(calls) : calls[i].rsp \in 1 .. Len(s)
         /\ \A i \in 1 .. (Len(calls) - 1) : s[calls[i].rsp] = calls[i].back
<1>1. Len(stack) \in Nat /\ Len(s) \in Nat /\ Len(calls) \in Nat /\ Len(calls) > 0
  BY DEF SyTypes
<1>2. ASSUME NEW i \in 1 .. Len(calls) PROVE calls[i].rsp <= calls[1].rsp
  <2>1. calls[i].rsp \in Nat /\ calls[1].rsp \in Nat /\ 1 \in 1 .. Len(calls)
    <3>1. 1 \in 1 .. Len(calls) /\ Len(stack) \in Nat
      BY <1>1
    <3>2. calls[i].rsp \in 1 .. Len(stack) /\ calls[1].rsp \in 1 .. Len(stack)
      BY <3>1 DEF CallsStand
    <3> QED BY <3>1, <3>2
  <2>2. CASE i = 1
    BY <2>1, <2>2
  <2>3. CASE 1 < i
    BY <2>1, <2>3 DEF CallsStand
  <2> QED BY <1>1, <2>2, <2>3
<1>3. \A i \in 1 .. Len(calls) : calls[i].rsp \in 1 .. Len(s)
  BY <1>1 DEF CallsStand
<1>4. ASSUME NEW i \in 1 .. (Len(calls) - 1) PROVE s[calls[i].rsp] = calls[i].back
  <2>1. i \in 1 .. Len(calls)
    BY <1>1
  <2>2. calls[i].rsp \in 1 .. Len(stack) /\ calls[i].rsp <= calls[1].rsp
    BY <1>2, <2>1 DEF CallsStand
  <2>3. s[calls[i].rsp] = stack[calls[i].rsp]
    BY <2>2
  <2> QED BY <2>3 DEF CallsStand
<1> QED BY <1>3, <1>4

LEMMA PrologKeeps ==
  ASSUME SyInv, PrologStep
  PROVE  SyInv'
<1>1. /\ InProlog(pc) /\ pc' = [pc EXCEPT !.n = pc.n + 1] /\ UNCHANGED calls
      /\ pc.f \in DOMAIN Code /\ pc.n \in Nat /\ pc.n < Len(Code[pc.f].prolog)
  BY WordsAre DEF PrologStep, InProlog, SyInv, SyTypes, InCode
<1>2. PICK f, n, step, L : f = pc.f /\ n = pc.n + 1 /\ step = Code[f].prolog[n] /\ L = Len(stack)
  OBVIOUS
<1>3. /\ SyTypes /\ CallsStand /\ AllocStands /\ L \in Nat /\ calls[1].rsp \in 1 .. L
      /\ Len(calls) \in Nat /\ Len(calls) > 0 /\ stack \in Seq(Words) /\ \A i \in 1 .. L : stack[i] \in Words
  BY <1>2 DEF SyInv, SyTypes, CallsStand
<1>4. /\ f \in DOMAIN Code /\ n \in 1 .. Len(Code[f].prolog) /\ step.op \in {"push", "alloc", "set", "save"} /\ step.n \in Nat
      /\ pc' \in Words /\ pc'.f = f /\ pc'.n = n
  <2>1. f \in DOMAIN Code /\ n \in 1 .. Len(Code[f].prolog) /\ n \in Nat
    BY <1>1, <1>2, PrologsFit
  <2>2. step.op \in {"push", "alloc", "set", "save"} /\ step.n \in Nat
    BY <1>2, <2>1, StepIs
  <2>3. pc \in [f : DOMAIN Code, n : Nat]
    BY <1>1, <1>3, PrologsFit DEF SyTypes, Words
  <2>4. pc' = [f |-> f, n |-> n]
    BY <1>1, <1>2, <2>3
  <2> QED BY <2>1, <2>2, <2>4 DEF Words
<1>5. /\ stack' \in Seq(Words) /\ Len(stack') >= L /\ \A i \in 1 .. L : i <= calls[1].rsp => stack'[i] = stack[i]
      /\ step.op = "alloc" => Len(stack') = L + step.n
  <2>1. stack' = CASE step.op = "push" -> Append(stack, Number(rbp))
                   [] step.op = "alloc" -> stack \o [i \in 1 .. step.n |-> Number(99)]
                   [] step.op = "save" -> [stack EXCEPT ![L - step.n] = Number(rbp)]
                   [] OTHER -> stack
    BY <1>2 DEF PrologStep
  <2>2. Number(rbp) \in Words /\ Number(99) \in Words
    BY <1>3, WordsAre DEF SyTypes
  <2>3. CASE step.op = "push"
    <3>1. stack' = Append(stack, Number(rbp))
      BY <2>1, <2>3
    <3> QED BY <1>2, <1>3, <2>2, <2>3, <3>1
  <2>4. CASE step.op = "alloc"
    <3>1. PICK more : more = [i \in 1 .. step.n |-> Number(99)]
      OBVIOUS
    <3>2. more \in Seq(Words) /\ Len(more) = step.n
      BY <1>4, <2>2, <3>1
    <3>3. stack' = stack \o more
      BY <2>1, <2>4, <3>1
    <3>4. stack' \in Seq(Words) /\ Len(stack') = L + step.n
      <4>1. stack \in Seq(Words) /\ more \in Seq(Words)
        BY <1>3, <3>2
      <4>2. stack \o more \in Seq(Words) /\ Len(stack \o more) = Len(stack) + Len(more)
        BY <4>1
      <4> QED BY <1>2, <3>2, <3>3, <4>2
    <3>5. \A i \in 1 .. L : stack'[i] = stack[i]
      BY <1>2, <1>3, <3>2, <3>3
    <3> QED BY <1>3, <1>4, <3>4, <3>5
  <2>5. CASE step.op = "save"
    <3>1. PICK j \in 1 .. (n - 1) : /\ Code[f].prolog[j].op = "alloc" /\ step.n < Code[f].prolog[j].n
                                    /\ \A i \in (j + 1) .. (n - 1) : Code[f].prolog[i].op \in {"save", "set"}
      <4>1. f \in DOMAIN Code /\ n \in 1 .. Len(Code[f].prolog)
        BY <1>4
      <4>2. Code[f].prolog[n].op = "save" =>
              \E j \in 1 .. (n - 1) :
                /\ Code[f].prolog[j].op = "alloc" /\ Code[f].prolog[n].n < Code[f].prolog[j].n
                /\ \A i \in (j + 1) .. (n - 1) : Code[f].prolog[i].op \in {"save", "set"}
        BY <4>1, StepIs
      <4> QED BY <1>2, <2>5, <4>2
    <3>2. n - 1 = pc.n /\ j \in 1 .. pc.n
      BY <1>1, <1>2, <3>1
    <3>3. Fresh(f, j, pc.n)
      BY <3>1, <3>2 DEF Fresh
    <3>4. calls[1].rsp + Code[f].prolog[j].n <= L
      BY <1>1, <1>2, <1>3, <3>2, <3>3 DEF AllocStands
    <3>5. Code[f].prolog[j].n \in Nat
      <4>1. j \in 1 .. Len(Code[f].prolog)
        BY <1>1, <1>2, <3>2
      <4> QED BY <1>4, <4>1, StepIs
    <3>6. L - step.n \in 1 .. L /\ calls[1].rsp < L - step.n
      <4>1. \A r, a, m, l \in Nat : r > 0 /\ r + a <= l /\ m < a => l - m \in 1 .. l /\ r < l - m
        OBVIOUS
      <4>2. /\ calls[1].rsp \in Nat /\ calls[1].rsp > 0 /\ Code[f].prolog[j].n \in Nat /\ step.n \in Nat /\ L \in Nat
            /\ calls[1].rsp + Code[f].prolog[j].n <= L /\ step.n < Code[f].prolog[j].n
        BY <1>3, <1>4, <3>1, <3>4, <3>5
      <4> QED BY <4>1, <4>2
    <3>7. stack' = [stack EXCEPT ![L - step.n] = Number(rbp)]
      BY <2>1, <2>5
    <3>8. stack' \in Seq(Words) /\ Len(stack') = L /\ \A i \in 1 .. L : i # L - step.n => stack'[i] = stack[i]
      <4>1. stack \in Seq(Words) /\ L - step.n \in 1 .. Len(stack) /\ L = Len(stack)
        BY <1>2, <1>3, <3>6
      <4> QED BY <2>2, <3>7, <4>1, WritesOne
    <3>9. \A i \in 1 .. L : i <= calls[1].rsp => stack'[i] = stack[i]
      <4>1. \A i \in 1 .. L : i <= calls[1].rsp => i # L - step.n
        BY <1>3, <3>6
      <4> QED BY <3>8, <4>1
    <3> QED BY <1>3, <2>5, <3>8, <3>9
  <2>6. CASE step.op = "set"
    <3>1. stack' = stack
      BY <2>1, <2>6
    <3> QED BY <1>2, <1>3, <2>6, <3>1
  <2> QED BY <1>4, <2>3, <2>4, <2>5, <2>6
<1>6. rbp' \in Int
  <2>1. rbp' = IF step.op = "set" THEN L - step.n ELSE rbp
    BY <1>2 DEF PrologStep
  <2> QED BY <1>3, <1>4, <2>1 DEF SyTypes
<1>7. SyTypes'
  BY <1>1, <1>3, <1>4, <1>5, <1>6 DEF SyTypes
<1>8. CallsStand'
  <2>1. /\ \A i \in 1 .. Len(calls) : calls[i].rsp \in 1 .. Len(stack')
        /\ \A i \in 1 .. (Len(calls) - 1) : stack'[calls[i].rsp] = calls[i].back
    <3>1. Len(stack) <= Len(stack') /\ \A i \in 1 .. Len(stack) : i <= calls[1].rsp => stack'[i] = stack[i]
      BY <1>2, <1>3, <1>5
    <3> QED BY <1>3, <1>5, <3>1, StackGrows
  <2>2. /\ \A i, j \in 1 .. Len(calls) : i < j => calls[j].rsp < calls[i].rsp
        /\ \A i \in 1 .. (Len(calls) - 1) : Returned(calls[i].back)
    BY <1>3 DEF CallsStand
  <2> QED BY <1>1, <2>1, <2>2 DEF CallsStand
<1>9. AllocStands'
  <2> SUFFICES ASSUME NEW j \in 1 .. n, Fresh(f, j, n)
               PROVE  calls[1].rsp + Code[f].prolog[j].n <= Len(stack')
    BY <1>1, <1>4 DEF AllocStands
  <2>0. n \in Nat /\ Len(stack') \in Nat
    BY <1>4, <1>5
  <2>1. CASE j = n
    <3>1. Code[f].prolog[n].op = "alloc"
      BY <2>1 DEF Fresh
    <3>2. step.op = "alloc" /\ Len(stack') = L + step.n /\ Code[f].prolog[j].n = step.n
      BY <1>2, <1>5, <2>1, <3>1
    <3>3. calls[1].rsp \in Nat /\ calls[1].rsp <= L
      BY <1>3
    <3> QED BY <1>3, <1>4, <3>2, <3>3
  <2>2. CASE j # n
    <3>1. j \in 1 .. pc.n /\ pc.n \in Nat /\ n = pc.n + 1
      BY <1>1, <1>2, <2>0, <2>2
    <3>2. Fresh(f, j, pc.n)
      BY <3>1 DEF Fresh
    <3>3. calls[1].rsp + Code[f].prolog[j].n <= L
      BY <1>1, <1>2, <1>3, <3>1, <3>2 DEF AllocStands
    <3>4. Code[f].prolog[j].n \in Nat
      <4>1. j \in 1 .. Len(Code[f].prolog)
        BY <1>1, <1>2, <3>1
      <4> QED BY <1>4, <4>1, StepIs
    <3> QED BY <1>3, <1>5, <2>0, <3>3, <3>4
  <2> QED BY <2>1, <2>2
<1> QED BY <1>7, <1>8, <1>9 DEF SyInv

LEMMA CallKeeps ==
  ASSUME SyInv, NEW where \in Words, CallTo(where), InCode(where) => where.n = 0
  PROVE  SyInv'
<1>1. /\ Running /\ pc.f \in DOMAIN Code /\ stack' = Append(stack, Body(pc.f)) /\ pc' = where /\ rbp' = rbp
      /\ calls' = <<[back |-> Body(pc.f), rsp |-> Len(stack'), rbp |-> rbp]>> \o calls
  BY DEF CallTo, Running, InCode
<1>2. PICK body, call, L, C : /\ body = Body(pc.f) /\ call = [back |-> body, rsp |-> Len(stack'), rbp |-> rbp]
                              /\ L = Len(stack) /\ C = Len(calls)
  OBVIOUS
<1>3. /\ SyTypes /\ CallsStand /\ L \in Nat /\ C \in Nat /\ C > 0 /\ stack \in Seq(Words) /\ rbp \in Int
      /\ calls \in Seq([back : Words, rsp : Nat, rbp : Int]) /\ DOMAIN calls = 1 .. C /\ DOMAIN stack = 1 .. L
  BY <1>2 DEF SyInv, SyTypes
<1>4. body \in Words /\ Returned(body)
  BY <1>1, <1>2, BodyIs DEF Returned
<1>5. stack' \in Seq(Words) /\ Len(stack') = L + 1 /\ stack'[L + 1] = body /\ \A i \in 1 .. L : stack'[i] = stack[i]
  <2>1. stack' = Append(stack, body)
    BY <1>1, <1>2
  <2> QED BY <1>2, <1>3, <1>4, <2>1
<1>6. /\ calls' \in Seq([back : Words, rsp : Nat, rbp : Int]) /\ Len(calls') = C + 1
      /\ \A i \in 1 .. (C + 1) : calls'[i] = IF i = 1 THEN call ELSE calls[i - 1]
  <2>1. calls' = <<call>> \o calls
    BY <1>1, <1>2
  <2>2. <<call>> \in Seq([back : Words, rsp : Nat, rbp : Int]) /\ Len(<<call>>) = 1 /\ <<call>>[1] = call
    BY <1>2, <1>3, <1>4, <1>5
  <2>3. calls' \in Seq([back : Words, rsp : Nat, rbp : Int])
    BY <1>3, <2>1, <2>2
  <2>4. Len(calls') = Len(<<call>>) + Len(calls)
    BY <1>3, <2>1, <2>2
  <2>5. ASSUME NEW i \in 1 .. (C + 1) PROVE calls'[i] = IF i = 1 THEN call ELSE calls[i - 1]
    BY <1>2, <1>3, <2>1, <2>2
  <2>6. Len(calls') = C + 1
    BY <1>2, <1>3, <2>2, <2>4
  <2>7. \A i \in 1 .. (C + 1) : calls'[i] = IF i = 1 THEN call ELSE calls[i - 1]
    BY <2>5
  <2> QED BY <2>3, <2>6, <2>7
<1>7. call.rsp = L + 1 /\ call.back = body
  BY <1>2, <1>5
<1>8. SyTypes'
  BY <1>1, <1>3, <1>5, <1>6 DEF SyTypes
<1>9. /\ \A i \in 1 .. C : calls[i].rsp \in 1 .. L
      /\ \A i \in 1 .. (C - 1) : stack'[calls[i].rsp] = calls[i].back /\ Returned(calls[i].back)
      /\ \A i, j \in 1 .. C : i < j => calls[j].rsp < calls[i].rsp
  <2>1. /\ \A i \in 1 .. C : calls[i].rsp \in 1 .. L
        /\ \A i \in 1 .. (C - 1) : stack[calls[i].rsp] = calls[i].back /\ Returned(calls[i].back)
        /\ \A i, j \in 1 .. C : i < j => calls[j].rsp < calls[i].rsp
    BY <1>2, <1>3 DEF CallsStand
  <2>2. \A i \in 1 .. (C - 1) : i \in 1 .. C
    BY <1>3
  <2> QED BY <1>5, <2>1, <2>2
<1>10. CallsStand'
  <2>1. ASSUME NEW i \in 1 .. (C + 1) PROVE calls'[i].rsp \in 1 .. (L + 1)
    <3>1. CASE i = 1
      BY <1>3, <1>6, <1>7, <3>1
    <3>2. CASE i # 1
      <4>0. i - 1 \in 1 .. C
        BY <1>3, <3>2
      <4>1. i - 1 \in 1 .. C /\ calls'[i] = calls[i - 1]
        BY <1>6, <3>2, <4>0
      <4>2. calls[i - 1].rsp \in 1 .. L
        BY <1>9, <4>1
      <4> QED BY <1>3, <4>1, <4>2
    <3> QED BY <3>1, <3>2
  <2>2. ASSUME NEW i \in 1 .. (C + 1), NEW j \in 1 .. (C + 1), i < j PROVE calls'[j].rsp < calls'[i].rsp
    <3>0. j - 1 \in 1 .. C /\ j # 1
      BY <1>3, <2>2
    <3>1. j - 1 \in 1 .. C /\ calls'[j] = calls[j - 1]
      BY <1>6, <3>0
    <3>2. CASE i = 1
      <4>1. calls[j - 1].rsp \in 1 .. L
        BY <1>9, <3>1
      <4>2. calls'[i].rsp = L + 1
        BY <1>6, <1>7, <3>2
      <4> QED BY <1>3, <3>1, <4>1, <4>2
    <3>3. CASE i # 1
      <4>0. i - 1 \in 1 .. C /\ i - 1 < j - 1
        BY <1>3, <2>2, <3>3
      <4>1. i - 1 \in 1 .. C /\ calls'[i] = calls[i - 1] /\ i - 1 < j - 1
        BY <1>6, <3>3, <4>0
      <4> QED BY <1>9, <3>1, <4>1
    <3> QED BY <3>2, <3>3
  <2>3. ASSUME NEW i \in 1 .. C PROVE stack'[calls'[i].rsp] = calls'[i].back /\ Returned(calls'[i].back)
    <3>1. CASE i = 1
      <4>1. calls'[i] = call
        BY <1>3, <1>6, <3>1
      <4> QED BY <1>4, <1>5, <1>7, <4>1
    <3>2. CASE i # 1
      <4>0. i - 1 \in 1 .. (C - 1) /\ i \in 1 .. (C + 1)
        BY <1>3, <3>2
      <4>1. i - 1 \in 1 .. (C - 1) /\ calls'[i] = calls[i - 1]
        BY <1>6, <3>2, <4>0
      <4> QED BY <1>9, <4>1
    <3> QED BY <3>1, <3>2
  <2>4. (C + 1) - 1 = C
    BY <1>3
  <2> QED BY <1>5, <1>6, <2>1, <2>2, <2>3, <2>4 DEF CallsStand
<1>11. AllocStands'
  <2>1. InProlog(pc') => pc'.n = 0
    BY <1>1 DEF InProlog
  <2> QED BY <2>1 DEF AllocStands
<1> QED BY <1>8, <1>10, <1>11 DEF SyInv

LEMMA ReturnKeeps ==
  ASSUME SyInv, ReturnBack
  PROVE  SyInv'
<1>1. /\ Len(calls) > 1 /\ pc' = calls[1].back /\ stack' = SubSeq(stack, 1, calls[1].rsp - 1)
      /\ rbp' = calls[1].rbp /\ calls' = Tail(calls)
  BY DEF ReturnBack
<1>2. PICK L, C, top : L = Len(stack) /\ C = Len(calls) /\ top = calls[1].rsp
  OBVIOUS
<1>3. /\ SyTypes /\ CallsStand /\ L \in Nat /\ C \in Nat /\ C > 1 /\ stack \in Seq(Words)
      /\ calls \in Seq([back : Words, rsp : Nat, rbp : Int]) /\ DOMAIN calls = 1 .. C /\ DOMAIN stack = 1 .. L
  BY <1>1, <1>2 DEF SyInv, SyTypes
<1>4. /\ \A i \in 1 .. C : calls[i].rsp \in 1 .. L /\ calls[i] \in [back : Words, rsp : Nat, rbp : Int]
      /\ \A i, j \in 1 .. C : i < j => calls[j].rsp < calls[i].rsp
      /\ \A i \in 1 .. (C - 1) : Returned(calls[i].back) /\ stack[calls[i].rsp] = calls[i].back
      /\ top \in 1 .. L
  <2>1. /\ \A i \in 1 .. C : calls[i].rsp \in 1 .. L
        /\ \A i, j \in 1 .. C : i < j => calls[j].rsp < calls[i].rsp
        /\ \A i \in 1 .. (C - 1) : Returned(calls[i].back) /\ stack[calls[i].rsp] = calls[i].back
    BY <1>2, <1>3 DEF CallsStand
  <2>2. 1 \in 1 .. C
    BY <1>3
  <2>3. \A i \in 1 .. C : calls[i] \in [back : Words, rsp : Nat, rbp : Int]
    <3>1. \A S, q : q \in Seq(S) => \A i \in 1 .. Len(q) : q[i] \in S
      BY ElementOfSeq
    <3>2. \A i \in 1 .. Len(calls) : calls[i] \in [back : Words, rsp : Nat, rbp : Int]
      BY <1>3, <3>1
    <3> QED BY <1>2, <3>2
  <2>4. top \in 1 .. L
    BY <1>2, <2>1, <2>2
  <2> QED BY <2>1, <2>3, <2>4
<1>5. /\ stack' \in Seq(Words) /\ Len(stack') = top - 1 /\ \A i \in 1 .. (top - 1) : stack'[i] = stack[i]
  <2>1. stack' = SubSeq(stack, 1, top - 1)
    BY <1>1, <1>2
  <2>2. top - 1 \in 0 .. L /\ top - 1 \in Nat
    BY <1>3, <1>4
  <2> QED BY <1>2, <1>3, <2>1, <2>2
<1>6. /\ calls' \in Seq([back : Words, rsp : Nat, rbp : Int]) /\ Len(calls') = C - 1
      /\ \A i \in 1 .. (C - 1) : calls'[i] = calls[i + 1]
  <2>1. calls # <<>>
    BY <1>2, <1>3
  <2> QED BY <1>1, <1>2, <1>3, <2>1
<1>7. 1 \in 1 .. C /\ 1 \in 1 .. (C - 1) /\ pc' \in Words /\ Returned(pc') /\ rbp' \in Int
  <2>1. 1 \in 1 .. C /\ 1 \in 1 .. (C - 1)
    BY <1>3
  <2> QED BY <1>1, <1>4, <2>1
<1>8. SyTypes'
  BY <1>3, <1>5, <1>6, <1>7 DEF SyTypes
<1>9. ASSUME NEW i \in 1 .. (C - 1)
      PROVE  /\ i + 1 \in 1 .. C /\ calls'[i] = calls[i + 1] /\ calls'[i].rsp \in 1 .. (top - 1)
  <2>1. i + 1 \in 1 .. C /\ 1 < i + 1
    BY <1>3
  <2>2. calls[i + 1].rsp < top /\ calls[i + 1].rsp \in 1 .. L
    <3>1. calls[i + 1].rsp < calls[1].rsp /\ calls[i + 1].rsp \in 1 .. L
      BY <1>4, <1>7, <2>1
    <3>2. top = calls[1].rsp
      BY <1>2
    <3>3. calls[i + 1].rsp < top
      BY <3>1, <3>2, Zenon
    <3> QED BY <3>1, <3>3
  <2>3. calls'[i] = calls[i + 1]
    BY <1>6
  <2>4. calls[i + 1].rsp \in 1 .. (top - 1)
    <3>1. \A r, t \in 1 .. L : r < t => r \in 1 .. (t - 1)
      BY <1>3
    <3> QED BY <1>4, <2>2, <3>1
  <2> QED BY <2>1, <2>3, <2>4
<1>10. CallsStand'
  <2>1. ASSUME NEW i \in 1 .. (C - 1), NEW j \in 1 .. (C - 1), i < j PROVE calls'[j].rsp < calls'[i].rsp
    <3>1. i + 1 < j + 1
      BY <1>3, <2>1
    <3> QED BY <1>4, <1>9, <3>1
  <2>2. ASSUME NEW i \in 1 .. ((C - 1) - 1) PROVE Returned(calls'[i].back) /\ stack'[calls'[i].rsp] = calls'[i].back
    <3>1. i \in 1 .. (C - 1) /\ i + 1 \in 1 .. (C - 1)
      BY <1>3
    <3> QED BY <1>4, <1>5, <1>9, <3>1
  <2> QED BY <1>5, <1>6, <1>9, <2>1, <2>2 DEF CallsStand
<1>11. AllocStands'
  <2>1. ~InProlog(pc')
    BY <1>7 DEF Returned, InProlog, InCode
  <2> QED BY <2>1 DEF AllocStands
<1> QED BY <1>8, <1>10, <1>11 DEF SyInv

LEMMA SyInvStep ==
  ASSUME SyInv, [SyNext]_syVars
  PROVE  SyInv'
<1>1. CASE PrologStep
  BY <1>1, PrologKeeps
<1>2. CASE Alloca
  <2>1. /\ Running /\ stack' = Append(stack, Number(99)) /\ UNCHANGED <<pc, rbp, calls>>
        /\ SyTypes /\ CallsStand /\ Number(99) \in Words /\ stack \in Seq(Words) /\ Len(stack) \in Nat
    BY <1>2, WordsAre DEF Alloca, SyInv, SyTypes
  <2>2. stack' \in Seq(Words) /\ Len(stack) <= Len(stack') /\ \A i \in 1 .. Len(stack) : stack'[i] = stack[i]
    BY <2>1
  <2>3. /\ \A i \in 1 .. Len(calls) : calls[i].rsp \in 1 .. Len(stack')
        /\ \A i \in 1 .. (Len(calls) - 1) : stack'[calls[i].rsp] = calls[i].back
    BY <2>1, <2>2, StackGrows
  <2>4. CallsStand' /\ SyTypes'
    BY <2>1, <2>2, <2>3 DEF CallsStand, SyTypes
  <2>5. AllocStands'
    BY <2>1 DEF AllocStands, Running
  <2> QED BY <2>4, <2>5 DEF SyInv
<1>3. CASE UseRbp
  <2>1. rbp' = 99 /\ UNCHANGED <<pc, stack, calls>>
    BY <1>3 DEF UseRbp
  <2> QED BY <2>1 DEF SyInv, SyTypes, CallsStand, AllocStands
<1>4. CASE CallFunction
  <2>1. PICK f \in DOMAIN Code : CallTo(Place(f, 0))
    BY <1>4 DEF CallFunction
  <2>2. Place(f, 0) \in Words /\ Place(f, 0).n = 0
    BY WordsAre
  <2> QED BY <2>1, <2>2, CallKeeps
<1>5. CASE CallGarbage
  <2>1. CallTo(Garbage) /\ Garbage \in Words /\ ~InCode(Garbage)
    BY <1>5, WordsAre DEF CallGarbage
  <2> QED BY <2>1, CallKeeps
<1>6. CASE ReturnBack
  BY <1>6, ReturnKeeps
<1>7. CASE UNCHANGED syVars
  BY <1>7 DEF syVars, SyInv, SyTypes, CallsStand, AllocStands
<1> QED BY <1>1, <1>2, <1>3, <1>4, <1>5, <1>6, <1>7 DEF SyNext

\* Wherever the processor crashes, the return address of every active call is still
\* where the call put it, with the outer calls deeper in the stack: what the scan of
\* the stack for meta.json looks for (minidump_meta.py:192-205).
THEOREM CallsAlwaysStand == SySpec => []CallsStand
<1>1. SyInit => SyInv
  BY SyInvFirst
<1>2. SyInv /\ [SyNext]_syVars => SyInv'
  BY SyInvStep
<1>3. SyInv => CallsStand
  BY DEF SyInv
<1> QED BY <1>1, <1>2, <1>3, PTL DEF SySpec

\* The scan of the stack for meta.json.
LEMMA ScanTold ==
  ASSUME SyInv
  PROVE  ScanTellsCallers
<1> SUFFICES ASSUME dump.exc = "full", dump.stack # "missing", InCode(pc), Cardinality(ScanStack) <= ScanCap,
                    NEW w \in Range(TrueCallers), Code[w.f].module = Code[pc.f].module
             PROVE  w \in StackRvas
  BY DEF ScanTellsCallers
<1>1. PICK i \in 1 .. (Len(calls) - 1) : w = calls[i].back
  BY DEF Range, TrueCallers
<1>2. InCode(w) /\ stack[calls[i].rsp] = w /\ calls[i].rsp \in 1 .. Len(stack) /\ stack \in Seq(Words)
  <2>1. i \in 1 .. Len(calls)
    BY DEF SyInv, SyTypes
  <2> QED BY <1>1, <2>1 DEF SyInv, SyTypes, CallsStand, Returned
<1>3. w \in ScanStack
  <2>1. w \in Range(stack)
    BY <1>2 DEF Range
  <2> QED BY <1>2, <2>1 DEF ScanStack
<1>4. IsFiniteSet(ScanStack) /\ ScanStack \subseteq Range(stack)
  <2>1. IsFiniteSet(1 .. Len(stack)) /\ stack \in Surjection(1 .. Len(stack), Range(stack))
    <3>1. Len(stack) \in Nat /\ DOMAIN stack = 1 .. Len(stack) /\ stack = [k \in 1 .. Len(stack) |-> stack[k]]
      BY <1>2
    <3>2. IsFiniteSet(1 .. Len(stack))
      BY <3>1, FS_Interval
    <3>3. stack \in [1 .. Len(stack) -> Range(stack)]
      BY <3>1 DEF Range
    <3>4. \A t \in Range(stack) : \E k \in 1 .. Len(stack) : stack[k] = t
      BY <3>1 DEF Range
    <3> QED BY <3>2, <3>3, <3>4 DEF Surjection
  <2>2. IsFiniteSet(Range(stack)) /\ ScanStack \subseteq Range(stack)
    BY <2>1, FS_Surjection DEF ScanStack
  <2> QED BY <2>2, FS_Subset
<1>5. Rva(w) \in Nat
  <2>1. w \in Words
    <3>1. w \in Range(stack) /\ \A k \in 1 .. Len(stack) : stack[k] \in Words
      BY <1>2, <1>3, <1>4
    <3> QED BY <1>2, <3>1
  <2> QED BY <1>2, <2>1, WordsAre, PrologsFit DEF Rva, InCode
<1>6. PICK below : below = {v \in ScanStack : Rva(v) < Rva(w)}
  OBVIOUS
<1>7. below \in SUBSET ScanStack /\ w \notin below
  BY <1>5, <1>6
<1>8. Cardinality(below) < ScanCap
  <2>1. /\ Cardinality(below) <= Cardinality(ScanStack) /\ IsFiniteSet(below)
        /\ Cardinality(ScanStack) = Cardinality(below) => ScanStack = below
    BY <1>4, <1>7, FS_Subset
  <2>2. Cardinality(ScanStack) # Cardinality(below)
    BY <1>3, <1>7, <2>1
  <2>3. Cardinality(below) \in Nat /\ Cardinality(ScanStack) \in Nat
    BY <1>4, <2>1, FS_CardinalityType
  <2> QED BY <2>1, <2>2, <2>3, PrologsFit
<1> QED BY <1>3, <1>6, <1>8 DEF StackRvas

-----------------------------------------------------------------------------
(* What a prolog takes and saves.                                          *)

\* The words a step of a prolog takes, and those up to a step.
Takes(step) == CASE step.op = "push" -> 1 [] step.op = "alloc" -> step.n [] OTHER -> 0
Depth(f) ==
  LET depth[j \in 0 .. Len(Code[f].prolog)] == IF j = 0 THEN 0 ELSE depth[j - 1] + Takes(Code[f].prolog[j])
  IN depth

LEMMA DepthIs ==
  ASSUME NEW f \in DOMAIN Code
  PROVE  /\ Depth(f)[0] = 0
         /\ \A j \in 1 .. Len(Code[f].prolog) :
              Depth(f)[j] = Depth(f)[j - 1] + Takes(Code[f].prolog[j]) /\ Takes(Code[f].prolog[j]) \in Nat
         /\ \A j \in 0 .. Len(Code[f].prolog) : Depth(f)[j] \in Nat
<1> DEFINE P == Code[f].prolog
           N == Len(P)
           Sums(g, n) == g = [j \in 0 .. n |-> IF j = 0 THEN 0 ELSE g[j - 1] + Takes(P[j])]
           T == {n \in Nat : \E g : Sums(g, n)}
<1>1. N \in Nat /\ \A j \in 1 .. N : Takes(P[j]) \in Nat
  <2>1. N \in Nat
    BY PrologsFit
  <2>2. ASSUME NEW j \in 1 .. N PROVE Takes(P[j]) \in Nat
    BY StepIs DEF Takes
  <2> QED BY <2>1, <2>2
<1>2. 0 \in T
  <2> DEFINE g == [j \in 0 .. 0 |-> 0]
  <2>1. Sums(g, 0)
    OBVIOUS
  <2> QED BY <2>1
<1>3. ASSUME NEW n \in Nat, n \in T PROVE n + 1 \in T
  <2>1. PICK g : Sums(g, n)
    BY <1>3
  <2> DEFINE h == [j \in 0 .. (n + 1) |-> IF j = n + 1 THEN g[n] + Takes(P[n + 1]) ELSE g[j]]
  <2>2. ASSUME NEW j \in 0 .. (n + 1) PROVE h[j] = IF j = 0 THEN 0 ELSE h[j - 1] + Takes(P[j])
    <3>1. CASE j = n + 1
      BY <2>1, <3>1
    <3>2. CASE j \in 0 .. n
      <4>1. h[j] = g[j] /\ (j # 0 => h[j - 1] = g[j - 1])
        BY <3>2
      <4> QED BY <2>1, <3>2, <4>1
    <3> QED BY <3>1, <3>2
  <2>3. Sums(h, n + 1)
    BY <2>2
  <2> HIDE DEF h, Sums
  <2> QED BY <2>3
<1>4. \E g : Sums(g, N)
  <2> HIDE DEF Sums
  <2>1. \A n \in Nat : n \in T
    <3> HIDE DEF T
    <3> QED BY <1>2, <1>3, ByInduction
  <2> QED BY <1>1, <2>1
<1>5. Sums(Depth(f), N)
  BY <1>4 DEF Depth
<1>6. /\ Depth(f)[0] = 0
      /\ \A j \in 1 .. N : Depth(f)[j] = Depth(f)[j - 1] + Takes(P[j])
  BY <1>1, <1>5
<1>7. \A j \in 0 .. N : Depth(f)[j] \in Nat
  <2> DEFINE U == {n \in Nat : n <= N => Depth(f)[n] \in Nat}
  <2>1. 0 \in U
    BY <1>6
  <2>2. ASSUME NEW n \in Nat, n \in U PROVE n + 1 \in U
    <3>1. CASE n + 1 <= N
      <4>1. n + 1 \in 1 .. N /\ n <= N /\ (n + 1) - 1 = n
        BY <1>1, <3>1
      <4>2. Depth(f)[n + 1] = Depth(f)[n] + Takes(P[n + 1]) /\ Takes(P[n + 1]) \in Nat
        BY <1>1, <1>6, <4>1
      <4>3. Depth(f)[n] \in Nat
        BY <2>2, <4>1
      <4> QED BY <4>2, <4>3
    <3>2. CASE ~ (n + 1 <= N)
      BY <3>2
    <3> QED BY <3>1, <3>2
  <2>3. \A n \in Nat : n \in U
    <3> HIDE DEF U
    <3> QED BY <2>1, <2>2, ByInduction
  <2> QED BY <1>1, <2>3
<1> QED BY <1>1, <1>6, <1>7

\* What FramesFit says of one function.
LEMMA FrameIs ==
  ASSUME NEW f \in DOMAIN Code
  PROVE  LET P == Code[f].prolog N == Len(P) IN
         /\ N \in Nat /\ DOMAIN P = 1 .. N
         /\ \A i, k \in 1 .. N : P[i].op \in Saving /\ P[k].op \in Saving => i = k
         /\ \A i, k \in 1 .. N : P[i].op = "set" /\ P[k].op = "set" => i = k
         /\ \A k \in 1 .. N : P[k].op = "set" => \E i \in 1 .. (k - 1) : P[i].op \in Saving
         /\ Code[f].frame <=> \E k \in 1 .. N : P[k].op = "set"
<1> DEFINE P == Code[f].prolog
           N == Len(P)
<1>1. P \in Seq([op : {"push", "alloc", "set", "save"}, n : Nat])
  BY PrologsFit
<1>2. N \in Nat /\ DOMAIN P = 1 .. N
  BY <1>1
<1> QED BY <1>2, FramesFit

\* A prolog goes down the stack.
LEMMA DepthRises ==
  ASSUME NEW f \in DOMAIN Code, NEW i \in 0 .. Len(Code[f].prolog)
  PROVE  \A j \in i .. Len(Code[f].prolog) : Depth(f)[i] <= Depth(f)[j]
<1> DEFINE N == Len(Code[f].prolog)
           T == {m \in Nat : i + m <= N => Depth(f)[i] <= Depth(f)[i + m]}
<1>1. /\ N \in Nat /\ i \in Nat
      /\ \A j \in 1 .. N : Depth(f)[j] = Depth(f)[j - 1] + Takes(Code[f].prolog[j]) /\ Takes(Code[f].prolog[j]) \in Nat
      /\ \A j \in 0 .. N : Depth(f)[j] \in Nat
  BY DepthIs, FrameIs
<1>2. 0 \in T
  BY <1>1
<1>3. ASSUME NEW m \in Nat, m \in T PROVE m + 1 \in T
  <2> SUFFICES ASSUME i + (m + 1) <= N PROVE Depth(f)[i] <= Depth(f)[i + (m + 1)]
    OBVIOUS
  <2>1. i + (m + 1) \in 1 .. N /\ (i + (m + 1)) - 1 = i + m /\ i + m \in 0 .. N /\ i + m <= N /\ i \in 0 .. N
    BY <1>1
  <2>2. Depth(f)[i + (m + 1)] = Depth(f)[i + m] + Takes(Code[f].prolog[i + (m + 1)]) /\ Takes(Code[f].prolog[i + (m + 1)]) \in Nat
    BY <1>1, <2>1
  <2>3. Depth(f)[i] <= Depth(f)[i + m]
    BY <1>3, <2>1
  <2>4. Depth(f)[i] \in Nat /\ Depth(f)[i + m] \in Nat
    BY <1>1, <2>1
  <2> QED BY <2>2, <2>3, <2>4
<1>4. \A m \in Nat : m \in T
  <2> HIDE DEF T
  <2> QED BY <1>2, <1>3, ByInduction
<1>5. ASSUME NEW j \in i .. N PROVE Depth(f)[i] <= Depth(f)[j]
  <2>1. j - i \in Nat /\ i + (j - i) = j /\ j <= N
    BY <1>1
  <2>2. j - i \in T
    BY <1>4, <2>1
  <2> QED BY <2>1, <2>2
<1> QED BY <1>5

\* What a prolog saves lies above the return address, in the words allocated for it.
LEMMA SaveFits ==
  ASSUME NEW f \in DOMAIN Code, NEW k \in 1 .. Len(Code[f].prolog), Code[f].prolog[k].op = "save"
  PROVE  Depth(f)[k] - Code[f].prolog[k].n \in 1 .. Depth(f)[k]
<1> DEFINE N == Len(Code[f].prolog)
           P == Code[f].prolog
           D == Depth(f)
<1>1. /\ N \in Nat
      /\ \A j \in 1 .. N : D[j] = D[j - 1] + Takes(P[j]) /\ Takes(P[j]) \in Nat
      /\ \A j \in 0 .. N : D[j] \in Nat
  BY DepthIs, FrameIs
<1>2. PICK a \in 1 .. (k - 1) :
        P[a].op = "alloc" /\ P[k].n < P[a].n /\ \A i \in (a + 1) .. (k - 1) : P[i].op \in {"save", "set"}
  BY StepIs
<1>3. a \in 1 .. N /\ a < k /\ k \in 1 .. N /\ k \in Nat /\ a \in Nat /\ P[k].n \in Nat /\ P[a].n \in Nat
  <2>1. a \in 1 .. N /\ a < k /\ k \in 1 .. N /\ k \in Nat /\ a \in Nat
    BY <1>1
  <2> QED BY <2>1, StepIs
<1>4. D[a] = D[a - 1] + P[a].n /\ D[a - 1] \in Nat /\ D[a] \in Nat
  <2>1. Takes(P[a]) = P[a].n
    BY <1>2 DEF Takes
  <2>2. a - 1 \in 0 .. N /\ a \in 0 .. N
    BY <1>1, <1>3
  <2> QED BY <1>1, <1>3, <2>1, <2>2
<1>5. D[k] = D[a]
  <2> DEFINE T == {m \in Nat : a + m <= k => D[a + m] = D[a]}
  <2>1. 0 \in T
    BY <1>3
  <2>2. ASSUME NEW m \in Nat, m \in T PROVE m + 1 \in T
    <3> SUFFICES ASSUME a + (m + 1) <= k PROVE D[a + (m + 1)] = D[a]
      OBVIOUS
    <3>1. a + (m + 1) \in 1 .. N /\ (a + (m + 1)) - 1 = a + m /\ a + m <= k
      BY <1>1, <1>3
    <3>2. P[a + (m + 1)].op \in {"save", "set"}
      <4>1. a + (m + 1) = k \/ a + (m + 1) \in (a + 1) .. (k - 1)
        BY <1>3, SMTT(30)
      <4> QED BY <1>2, <4>1
    <3>3. Takes(P[a + (m + 1)]) = 0
      BY <3>2 DEF Takes
    <3>4. D[a + (m + 1)] = D[a + m] + 0
      BY <1>1, <3>1, <3>3
    <3>5. D[a + m] = D[a]
      BY <2>2, <3>1
    <3> QED BY <1>4, <3>4, <3>5
  <2>3. \A m \in Nat : m \in T
    <3> HIDE DEF T
    <3> QED BY <2>1, <2>2, ByInduction
  <2>4. k - a \in Nat /\ a + (k - a) = k
    BY <1>3
  <2>5. k - a \in T
    BY <2>3, <2>4
  <2> QED BY <2>4, <2>5
<1> QED BY <1>2, <1>3, <1>4, <1>5, SMTT(30)

\* How much of its prolog a function has run.
Done(w) == IF InProlog(w) THEN w.n ELSE Len(Code[w.f].prolog)

-----------------------------------------------------------------------------
(* The frames of the active functions: FramesStand.                        *)

\* A function at w, called with its return address at base and with found in rbp, has
\* rsp and rbp as its prolog leaves them, its body apart, and what it saved is there.
FrameStands(w, base, found, rsp, reg, s) ==
  LET d == Done(w) P == Code[w.f].prolog D == Depth(w.f) IN
  /\ base + D[d] <= rsp /\ (InProlog(w) \/ ~Code[w.f].frame => rsp = base + D[d])
  /\ \A j \in 1 .. d :
       /\ P[j].op = "push" => s[base + D[j]] = Number(found)
       /\ P[j].op = "save" => s[base + D[j] - P[j].n] = Number(found)
       /\ P[j].op = "set" => reg = base + D[j] - P[j].n
  /\ (\A j \in 1 .. d : P[j].op # "set") /\ (InProlog(w) \/ ~SavesRbp(w.f)) => reg = found

\* The active functions, innermost first: where each is, with the rsp and rbp it has.
LevelAt(i) == IF i = 1 THEN pc ELSE calls[i - 1].back
LevelRsp(i) == IF i = 1 THEN Len(stack) ELSE calls[i - 1].rsp - 1
LevelRbp(i) == IF i = 1 THEN rbp ELSE calls[i - 1].rbp
FramesStand ==
  /\ \A i \in 1 .. Len(calls) : InCode(LevelAt(i)) =>
       FrameStands(LevelAt(i), calls[i].rsp, calls[i].rbp, LevelRsp(i), LevelRbp(i), stack)
  /\ ~InCode(pc) => Len(stack) = calls[1].rsp /\ rbp = calls[1].rbp

\* The types of the levels.
LEMMA LevelsAre ==
  ASSUME SyInv, NEW i \in 1 .. Len(calls)
  PROVE  /\ LevelAt(i) \in Words /\ LevelRsp(i) \in Nat /\ LevelRbp(i) \in Int
         /\ calls[i].rsp \in Nat /\ calls[i].rsp > 0 /\ calls[i].rbp \in Int
         /\ LevelRsp(i) <= Len(stack) /\ Len(stack) \in Nat /\ calls[i].rsp <= LevelRsp(i)
         /\ i > 1 => InCode(LevelAt(i)) /\ ~InProlog(LevelAt(i)) /\ LevelRsp(i) < calls[1].rsp
<1>1. /\ Len(calls) \in Nat /\ Len(stack) \in Nat /\ pc \in Words /\ rbp \in Int
      /\ \A k \in 1 .. Len(calls) : calls[k] \in [back : Words, rsp : Nat, rbp : Int]
  <2>1. /\ pc \in Words /\ rbp \in Int /\ stack \in Seq(Words)
        /\ calls \in Seq([back : Words, rsp : Nat, rbp : Int])
    BY DEF SyInv, SyTypes
  <2>2. \A k \in 1 .. Len(calls) : calls[k] \in [back : Words, rsp : Nat, rbp : Int]
    BY <2>1, ElementOfSeq
  <2> QED BY <2>1, <2>2
<1>2. /\ \A k \in 1 .. Len(calls) : calls[k].rsp \in 1 .. Len(stack)
      /\ \A k, j \in 1 .. Len(calls) : k < j => calls[j].rsp < calls[k].rsp
      /\ \A k \in 1 .. (Len(calls) - 1) : Returned(calls[k].back)
  BY DEF SyInv, CallsStand
<1>3. /\ calls[i].rsp \in Nat /\ calls[i].rsp > 0 /\ calls[i].rbp \in Int /\ calls[i].rsp <= Len(stack) /\ i \in Nat
  BY <1>1, <1>2
<1>4. CASE i = 1
  <2>1. LevelAt(i) = pc /\ LevelRsp(i) = Len(stack) /\ LevelRbp(i) = rbp /\ ~ (i > 1)
    BY <1>4 DEF LevelAt, LevelRsp, LevelRbp
  <2> QED BY <1>1, <1>3, <2>1
<1>5. CASE i # 1
  <2>1. i - 1 \in 1 .. (Len(calls) - 1) /\ i - 1 \in 1 .. Len(calls) /\ i - 1 < i /\ 1 \in 1 .. Len(calls)
    BY <1>1, <1>5
  <2>2. LevelAt(i) = calls[i - 1].back /\ LevelRsp(i) = calls[i - 1].rsp - 1 /\ LevelRbp(i) = calls[i - 1].rbp
    BY <1>5 DEF LevelAt, LevelRsp, LevelRbp
  <2>3. Returned(calls[i - 1].back) /\ calls[i].rsp < calls[i - 1].rsp /\ calls[i - 1].rsp \in 1 .. Len(stack)
        /\ calls[i - 1] \in [back : Words, rsp : Nat, rbp : Int]
    BY <1>1, <1>2, <2>1
  <2>4. calls[i - 1].rsp <= calls[1].rsp /\ calls[1].rsp \in 1 .. Len(stack)
    <3>1. CASE i - 1 = 1
      BY <1>2, <2>1, <3>1
    <3>2. CASE 1 < i - 1
      <4>1. calls[i - 1].rsp < calls[1].rsp /\ calls[1].rsp \in 1 .. Len(stack)
        BY <1>2, <2>1, <3>2
      <4> QED BY <2>3, <4>1
    <3> QED BY <1>3, <2>1, <3>1, <3>2
  <2> QED BY <1>1, <1>3, <2>2, <2>3, <2>4 DEF Returned
<1> QED BY <1>4, <1>5

\* Done counts steps of the prolog.
LEMMA DoneIs ==
  ASSUME NEW w \in Words, InCode(w)
  PROVE  /\ w.f \in DOMAIN Code /\ Done(w) \in 0 .. Len(Code[w.f].prolog) /\ Len(Code[w.f].prolog) \in Nat
         /\ ~InProlog(w) => Done(w) = Len(Code[w.f].prolog)
<1>1. w.f \in DOMAIN Code /\ w.n \in Nat
  BY WordsAre DEF InCode
<1> QED BY <1>1, FrameIs DEF Done, InProlog

\* A frame reads its own words of the stack only.
LEMMA FrameReads ==
  ASSUME NEW w \in Words, InCode(w), NEW base \in Nat, base > 0, NEW found, NEW rsp \in Nat, NEW reg, NEW s, NEW t,
         FrameStands(w, base, found, rsp, reg, s), \A k \in 1 .. (base + Depth(w.f)[Done(w)]) : k > base => t[k] = s[k]
  PROVE  FrameStands(w, base, found, rsp, reg, t)
<1> DEFINE d == Done(w)
           P == Code[w.f].prolog
           D == Depth(w.f)
           N == Len(P)
<1>1. w.f \in DOMAIN Code /\ d \in 0 .. N /\ N \in Nat
  BY DoneIs
<1>2. /\ \A j \in 0 .. N : D[j] \in Nat
      /\ \A j \in 0 .. N : \A k \in j .. N : D[j] <= D[k]
      /\ D[0] = 0 /\ \A j \in 1 .. N : D[j] = D[j - 1] + Takes(P[j])
  BY <1>1, DepthIs, DepthRises
<1>3. ASSUME NEW j \in 1 .. d
      PROVE  /\ P[j].op = "push" => t[base + D[j]] = Number(found)
             /\ P[j].op = "save" => t[base + D[j] - P[j].n] = Number(found)
             /\ P[j].op = "set" => reg = base + D[j] - P[j].n
  <2>1. j \in 1 .. N /\ j \in 0 .. N /\ d \in j .. N /\ j - 1 \in 0 .. N
    BY <1>1
  <2>2. D[j] <= D[d] /\ D[j] \in Nat /\ D[d] \in Nat /\ D[j - 1] \in Nat /\ D[j] = D[j - 1] + Takes(P[j])
    BY <1>1, <1>2, <2>1
  <2>3. /\ P[j].op = "push" => s[base + D[j]] = Number(found)
        /\ P[j].op = "save" => s[base + D[j] - P[j].n] = Number(found)
        /\ P[j].op = "set" => reg = base + D[j] - P[j].n
    BY DEF FrameStands
  <2>4. CASE P[j].op = "push"
    <3>1. D[j] > 0
      BY <2>2, <2>4 DEF Takes
    <3>2. base + D[j] \in 1 .. (base + D[d]) /\ base + D[j] > base
      BY <2>2, <3>1
    <3> QED BY <2>3, <2>4, <3>2
  <2>5. CASE P[j].op = "save"
    <3>1. D[j] - P[j].n \in 1 .. D[j] /\ P[j].n \in Nat
      BY <1>1, <2>1, <2>5, SaveFits, StepIs
    <3>2. base + D[j] - P[j].n \in 1 .. (base + D[d]) /\ base + D[j] - P[j].n > base
      BY <2>2, <3>1
    <3> QED BY <2>3, <2>5, <3>2
  <2>6. CASE P[j].op \notin {"push", "save"}
    BY <2>3, <2>6
  <2> QED BY <2>4, <2>5, <2>6
<1>4. /\ base + D[d] <= rsp /\ (InProlog(w) \/ ~Code[w.f].frame => rsp = base + D[d])
      /\ (\A j \in 1 .. d : P[j].op # "set") /\ (InProlog(w) \/ ~SavesRbp(w.f)) => reg = found
  BY DEF FrameStands
<1> QED BY <1>3, <1>4 DEF FrameStands

LEMMA FramesFirst == SyInit => FramesStand
<1> SUFFICES ASSUME SyInit PROVE FramesStand
  OBVIOUS
<1>1. /\ pc = Place(Start, 0) /\ rbp = 0 /\ stack = <<Number(0)>>
      /\ calls = <<[back |-> Number(0), rsp |-> 1, rbp |-> 0]>>
  BY DEF SyInit
<1>2. Start \in DOMAIN Code /\ pc \in Words /\ pc.n = 0 /\ pc.f = Start /\ InCode(pc)
  <2>1. Start \in DOMAIN Code
    BY PrologsFit
  <2>2. Place(Start, 0) \in Words /\ Place(Start, 0).f = Start /\ Place(Start, 0).n = 0
    BY <2>1, WordsAre
  <2> QED BY <1>1, <2>1, <2>2 DEF InCode
<1>3. Len(stack) = 1 /\ Len(calls) = 1 /\ calls[1].rsp = 1 /\ calls[1].rbp = 0
  BY <1>1
<1>4. Done(pc) = 0 /\ Depth(pc.f)[0] = 0
  <2>1. Done(pc) \in 0 .. Len(Code[pc.f].prolog) /\ Len(Code[pc.f].prolog) \in Nat
    BY <1>2, DoneIs
  <2>2. Depth(pc.f)[0] = 0
    BY <1>2, DepthIs
  <2> QED BY <1>2, <2>1, <2>2 DEF Done, InProlog
<1>5. FrameStands(pc, 1, 0, 1, 0, stack)
  BY <1>4 DEF FrameStands
<1>6. ASSUME NEW i \in 1 .. Len(calls) PROVE FrameStands(LevelAt(i), calls[i].rsp, calls[i].rbp, LevelRsp(i), LevelRbp(i), stack)
  <2>1. i = 1
    BY <1>3
  <2> QED BY <1>1, <1>3, <1>5, <2>1 DEF LevelAt, LevelRsp, LevelRbp
<1> QED BY <1>2, <1>6 DEF FramesStand

\* The innermost level.
LEMMA LevelOne ==
  ASSUME SyInv, FramesStand
  PROVE  /\ LevelAt(1) = pc /\ LevelRsp(1) = Len(stack) /\ LevelRbp(1) = rbp /\ 1 \in 1 .. Len(calls)
         /\ InCode(pc) => FrameStands(pc, calls[1].rsp, calls[1].rbp, Len(stack), rbp, stack)
<1>1. LevelAt(1) = pc /\ LevelRsp(1) = Len(stack) /\ LevelRbp(1) = rbp
  BY DEF LevelAt, LevelRsp, LevelRbp
<1>2. 1 \in 1 .. Len(calls)
  BY DEF SyInv, SyTypes
<1> QED BY <1>1, <1>2 DEF FramesStand

\* A step of a prolog, seen from the return address.
PrologMoves(f, n, step, b) ==
  /\ f = pc.f /\ n = pc.n + 1 /\ step = Code[f].prolog[n] /\ b = calls[1].rsp
  /\ f \in DOMAIN Code /\ n \in 1 .. Len(Code[f].prolog) /\ pc.n \in Nat /\ b \in Nat /\ b > 0
  /\ Len(stack) = b + Depth(f)[n - 1] /\ Len(stack') = b + Depth(f)[n] /\ Len(stack) \in Nat
  /\ Depth(f)[n] \in Nat /\ Depth(f)[n - 1] \in Nat
  /\ InCode(pc) /\ InCode(pc') /\ pc'.f = f /\ Done(pc) = n - 1 /\ Done(pc') = n /\ UNCHANGED calls
  /\ \A i \in 1 .. Len(stack) : step.op # "save" \/ i <= b => stack'[i] = stack[i]
  /\ step.op = "push" => stack'[b + Depth(f)[n]] = Number(rbp)
  /\ step.op = "save" => stack'[b + Depth(f)[n] - step.n] = Number(rbp)
  /\ rbp' = IF step.op = "set" THEN b + Depth(f)[n] - step.n ELSE rbp
LEMMA PrologDoes ==
  ASSUME SyInv, FramesStand, PrologStep
  PROVE  \E f, n, step, b : PrologMoves(f, n, step, b)
<1> PICK f, n, step, b : f = pc.f /\ n = pc.n + 1 /\ step = Code[f].prolog[n] /\ b = calls[1].rsp
  OBVIOUS
<1>1. /\ InProlog(pc) /\ InCode(pc) /\ pc' = [pc EXCEPT !.n = pc.n + 1] /\ UNCHANGED calls
      /\ f \in DOMAIN Code /\ pc.n \in Nat /\ pc.n < Len(Code[f].prolog)
  BY WordsAre DEF PrologStep, InProlog, SyInv, SyTypes, InCode
<1>2. n \in 1 .. Len(Code[f].prolog) /\ n - 1 = pc.n /\ n \in Nat /\ Len(Code[f].prolog) \in Nat
  BY <1>1, FrameIs
<1>3. pc'.f = f /\ pc'.n = n
  <2>1. pc \in Words
    BY DEF SyInv, SyTypes
  <2>2. pc \in [f : DOMAIN Code, n : Nat]
    BY <1>1, <2>1, PrologsFit DEF Words
  <2> QED BY <1>1, <2>2
<1>4. Done(pc) = n - 1 /\ Done(pc') = n /\ InCode(pc')
  <2>1. Done(pc) = n - 1 /\ InCode(pc')
    BY <1>1, <1>2, <1>3 DEF Done, InCode
  <2>2. Done(pc') = n
    BY <1>1, <1>2, <1>3, <2>1 DEF Done, InProlog
  <2> QED BY <2>1, <2>2
<1>5. Len(stack) = b + Depth(f)[n - 1]
  <2>1. FrameStands(pc, b, calls[1].rbp, Len(stack), rbp, stack)
    BY <1>1, LevelOne
  <2> QED BY <1>1, <1>4, <2>1 DEF FrameStands
<1>6. b \in Nat /\ b > 0 /\ Len(stack) \in Nat /\ stack \in Seq(Words) /\ rbp \in Int
  <2>1. 1 \in 1 .. Len(calls)
    BY LevelOne
  <2> QED BY <2>1, LevelsAre DEF SyInv, SyTypes
<1>7. /\ Depth(f)[n] = Depth(f)[n - 1] + Takes(step) /\ Takes(step) \in Nat /\ Depth(f)[n] \in Nat /\ Depth(f)[n - 1] \in Nat
      /\ step.op \in {"push", "alloc", "set", "save"} /\ step.n \in Nat
  <2>1. n - 1 \in 0 .. Len(Code[f].prolog) /\ n \in 0 .. Len(Code[f].prolog)
    BY <1>2
  <2> QED BY <1>1, <1>2, <2>1, DepthIs, StepIs, SMTT(30)
<1>20. PICK L, D0, D1, t :
        /\ L = Len(stack) /\ D0 = Depth(f)[n - 1] /\ D1 = Depth(f)[n] /\ t = Takes(step)
        /\ L \in Nat /\ D0 \in Nat /\ D1 \in Nat /\ t \in Nat /\ L = b + D0 /\ D1 = D0 + t
  BY <1>5, <1>6, <1>7
<1>21. L \in Nat /\ D0 \in Nat /\ D1 \in Nat /\ t \in Nat /\ L = b + D0 /\ D1 = D0 + t /\ b \in Nat /\ b > 0 /\ step.n \in Nat
  BY <1>6, <1>7, <1>20
<1>22. stack \in Seq(Words) /\ Len(stack) = L /\ DOMAIN stack = 1 .. L /\ L \in Nat
  <2>1. L = Len(stack)
    BY <1>20
  <2> QED BY <1>6, <2>1
<1>8. /\ stack' = CASE step.op = "push" -> Append(stack, Number(rbp))
                    [] step.op = "alloc" -> stack \o [i \in 1 .. step.n |-> Number(99)]
                    [] step.op = "save" -> [stack EXCEPT ![L - step.n] = Number(rbp)]
                    [] OTHER -> stack
      /\ rbp' = IF step.op = "set" THEN L - step.n ELSE rbp
  <2>1. PrologStep /\ L = Len(stack) /\ step = Code[pc.f].prolog[pc.n + 1]
    BY <1>20
  <2> HIDE DEF PrologStep
  <2> QED BY <2>1 DEF PrologStep
<1>9. Number(rbp) \in Words /\ Number(99) \in Words
  BY <1>6, WordsAre
<1> SUFFICES PrologMoves(f, n, step, b)
  OBVIOUS
<1>10. CASE step.op = "push"
  <2>1. stack' = Append(stack, Number(rbp))
    BY <1>8, <1>10
  <2>2. t = 1
    BY <1>10, <1>20 DEF Takes
  <2>3. Len(stack') = L + 1 /\ (\A i \in 1 .. L : stack'[i] = stack[i]) /\ stack'[L + 1] = Number(rbp)
    BY <1>22, <1>9, <2>1
  <2>4. L + 1 = b + D1
    BY <1>21, <2>2
  <2>5. Len(stack') = b + D1 /\ stack'[b + D1] = Number(rbp)
    BY <2>3, <2>4
  <2>6. rbp' = rbp
    BY <1>8, <1>10
  <2> QED BY <1>1, <1>2, <1>3, <1>4, <1>20, <1>21, <1>10, <2>3, <2>5, <2>6 DEF PrologMoves
<1>11. CASE step.op = "alloc"
  <2>1. PICK more : more = [i \in 1 .. step.n |-> Number(99)]
    OBVIOUS
  <2>2. more \in Seq(Words) /\ Len(more) = step.n
    <3>1. step.n \in Nat
      BY <1>7
    <3> QED BY <3>1, <1>9, <2>1, FilledIs
  <2>3. stack' = stack \o more
    BY <1>8, <1>11, <2>1
  <2>4. Len(stack') = L + Len(more) /\ \A i \in 1 .. L : stack'[i] = stack[i]
    BY <1>22, <2>2, <2>3, JoinIs
  <2>7. rbp' = rbp
    BY <1>8, <1>11
  <2>5. t = step.n
    BY <1>11, <1>20 DEF Takes
  <2>6. Len(stack') = b + D1
    <3>1. b + D1 = L + step.n
      BY <1>21, <2>5
    <3> QED BY <2>2, <2>4, <3>1
  <2> QED BY <1>1, <1>2, <1>3, <1>4, <1>20, <1>21, <1>11, <2>4, <2>6, <2>7 DEF PrologMoves
<1>12. CASE step.op = "save"
  <2>1. t = 0 /\ D1 = D0 /\ L = b + D1
    <3>1. t = 0
      BY <1>20, <1>12 DEF Takes
    <3> QED BY <1>21, <3>1
  <2>2. D1 - step.n \in 1 .. D1
    BY <1>1, <1>2, <1>12, <1>20, SaveFits
  <2>3. PICK at : at = b + D1 - step.n
    OBVIOUS
  <2>4. at \in 1 .. L /\ b < at /\ L - step.n = at
    <3>1. \A x, y, z, w \in Nat : y > 0 /\ x = y + z /\ z - w \in 1 .. z => y + z - w \in 1 .. x /\ y < y + z - w /\ x - w = y + z - w
      OBVIOUS
    <3>2. L = b + D1 /\ b \in Nat /\ b > 0 /\ D1 \in Nat /\ L \in Nat /\ step.n \in Nat
      BY <1>21, <2>1
    <3>3. b + D1 - step.n \in 1 .. L /\ b < b + D1 - step.n /\ L - step.n = b + D1 - step.n
      BY <2>2, <3>1, <3>2
    <3> QED BY <2>3, <3>3
  <2>5. stack' = [stack EXCEPT ![at] = Number(rbp)]
    BY <1>8, <1>12, <2>4
  <2>6. stack'[at] = Number(rbp) /\ \A i \in 1 .. L : i # at => stack'[i] = stack[i]
    BY <1>22, <2>4, <2>5
  <2>7. Len(stack') = L
    BY <1>22, <1>9, <2>4, <2>5
  <2>8. \A i \in 1 .. L : i <= b => stack'[i] = stack[i]
    BY <1>21, <2>4, <2>6
  <2>9. step.op # "push" /\ step.op # "set" /\ rbp' = rbp
    BY <1>8, <1>12
  <2> QED BY <1>1, <1>2, <1>3, <1>4, <1>20, <1>21, <1>12, <2>1, <2>3, <2>6, <2>7, <2>8, <2>9 DEF PrologMoves
<1>13. CASE step.op = "set"
  <2>1. stack' = stack /\ rbp' = L - step.n
    BY <1>8, <1>13
  <2>2. t = 0 /\ D1 = D0 /\ L = b + D1
    <3>1. t = 0
      BY <1>20, <1>13 DEF Takes
    <3> QED BY <1>21, <3>1
  <2>3. rbp' = b + D1 - step.n /\ Len(stack') = b + D1 /\ stack' = stack
    <3>1. Len(stack') = L /\ stack' = stack
      BY <1>20, <2>1
    <3>2. rbp' = L - step.n /\ L = b + D1
      BY <2>1, <2>2
    <3>3. Len(stack') = b + D1
      BY <3>1, <3>2
    <3>4. rbp' = b + D1 - step.n
      <4>1. PICK m : m = step.n
        OBVIOUS
      <4>2. m \in Nat /\ L \in Nat /\ b \in Nat /\ D1 \in Nat /\ L = b + D1 /\ rbp' = L - m
        BY <1>21, <3>2, <4>1
      <4>3. rbp' = b + D1 - m
        BY <4>2
      <4> QED BY <4>1, <4>3
    <3> QED BY <3>1, <3>3, <3>4
  <2> QED BY <1>1, <1>2, <1>3, <1>4, <1>20, <1>21, <1>13, <2>3 DEF PrologMoves
<1> QED BY <1>7, <1>10, <1>11, <1>12, <1>13

\* The outer levels read below the return address of the innermost call.
LEMMA OuterLevels ==
  ASSUME SyInv, FramesStand, NEW i \in 2 .. Len(calls), NEW t, \A k \in 1 .. (calls[1].rsp - 1) : t[k] = stack[k]
  PROVE  FrameStands(LevelAt(i), calls[i].rsp, calls[i].rbp, LevelRsp(i), LevelRbp(i), t)
<1>1. i \in 1 .. Len(calls) /\ i > 1 /\ 1 \in 1 .. Len(calls)
  BY DEF SyInv, SyTypes
<1>2. PICK w, base, found, rsp, reg :
        w = LevelAt(i) /\ base = calls[i].rsp /\ found = calls[i].rbp /\ rsp = LevelRsp(i) /\ reg = LevelRbp(i)
  OBVIOUS
<1>3. w \in Words /\ InCode(w) /\ base \in Nat /\ base > 0 /\ rsp \in Nat /\ rsp < calls[1].rsp /\ calls[1].rsp \in Nat
  BY <1>1, <1>2, LevelsAre
<1>4. FrameStands(w, base, found, rsp, reg, stack)
  BY <1>1, <1>2, <1>3 DEF FramesStand
<1>5. base + Depth(w.f)[Done(w)] <= rsp
  BY <1>4 DEF FrameStands
<1>6. Depth(w.f)[Done(w)] \in Nat
  BY <1>3, DoneIs, DepthIs
<1>7. \A k \in 1 .. (base + Depth(w.f)[Done(w)]) : k > base => t[k] = stack[k]
  <2>1. PICK d : d = Depth(w.f)[Done(w)]
    OBVIOUS
  <2>2. \A k \in 1 .. (base + d) : k \in 1 .. (calls[1].rsp - 1)
    BY <1>3, <1>5, <1>6, <2>1
  <2> QED BY <2>1, <2>2
<1>8. FrameStands(w, base, found, rsp, reg, t)
  BY <1>3, <1>4, <1>7, FrameReads
<1> QED BY <1>2, <1>8

\* A step within the innermost function has to keep its own frame.
LEMMA FramesKept ==
  ASSUME SyInv, FramesStand, UNCHANGED calls, InCode(pc'), \A k \in 1 .. (calls[1].rsp - 1) : stack'[k] = stack[k],
         FrameStands(pc', calls[1].rsp, calls[1].rbp, Len(stack'), rbp', stack')
  PROVE  FramesStand'
<1>1. ASSUME NEW i \in 1 .. Len(calls)
      PROVE  FrameStands(LevelAt(i)', calls[i].rsp, calls[i].rbp, LevelRsp(i)', LevelRbp(i)', stack')
  <2>1. CASE i = 1
    <3>1. LevelAt(i)' = pc' /\ LevelRsp(i)' = Len(stack') /\ LevelRbp(i)' = rbp'
      BY <2>1 DEF LevelAt, LevelRsp, LevelRbp
    <3> QED BY <2>1, <3>1
  <2>2. CASE i # 1
    <3>1. LevelAt(i)' = LevelAt(i) /\ LevelRsp(i)' = LevelRsp(i) /\ LevelRbp(i)' = LevelRbp(i)
      BY <2>2 DEF LevelAt, LevelRsp, LevelRbp
    <3>2. i \in 2 .. Len(calls)
      BY <2>2 DEF SyInv, SyTypes
    <3>3. FrameStands(LevelAt(i), calls[i].rsp, calls[i].rbp, LevelRsp(i), LevelRbp(i), stack')
      BY <3>2, OuterLevels
    <3> QED BY <3>1, <3>3
  <2> QED BY <2>1, <2>2
<1> QED BY <1>1 DEF FramesStand

LEMMA FramesProlog == SyInv /\ FramesStand /\ PrologStep => FramesStand'
<1> SUFFICES ASSUME SyInv, FramesStand, PrologStep PROVE FramesStand'
  OBVIOUS
<1>0. PICK f, n, step, b : PrologMoves(f, n, step, b)
  BY PrologDoes
<1>1. PICK found, P, D, L : found = calls[1].rbp /\ P = Code[f].prolog /\ D = Depth(f) /\ L = Len(stack)
  OBVIOUS
<1>2. /\ f = pc.f /\ n = pc.n + 1 /\ step = P[n] /\ b = calls[1].rsp
      /\ f \in DOMAIN Code /\ n \in 1 .. Len(P) /\ pc.n \in Nat /\ b \in Nat /\ b > 0
      /\ L = b + D[n - 1] /\ Len(stack') = b + D[n] /\ L \in Nat /\ D[n] \in Nat /\ D[n - 1] \in Nat
      /\ InCode(pc) /\ InCode(pc') /\ pc'.f = f /\ Done(pc) = n - 1 /\ Done(pc') = n /\ UNCHANGED calls
      /\ \A i \in 1 .. L : step.op # "save" \/ i <= b => stack'[i] = stack[i]
      /\ step.op = "push" => stack'[b + D[n]] = Number(rbp)
      /\ step.op = "save" => stack'[b + D[n] - step.n] = Number(rbp)
      /\ rbp' = IF step.op = "set" THEN b + D[n] - step.n ELSE rbp
  BY <1>0, <1>1 DEF PrologMoves
<1>3. /\ Len(P) \in Nat
      /\ \A i, k \in 1 .. Len(P) : P[i].op \in Saving /\ P[k].op \in Saving => i = k
      /\ \A i, k \in 1 .. Len(P) : P[i].op = "set" /\ P[k].op = "set" => i = k
      /\ \A k \in 1 .. Len(P) : P[k].op = "set" => \E i \in 1 .. (k - 1) : P[i].op \in Saving
  <2>1. f \in DOMAIN Code /\ P = Code[f].prolog
    BY <1>1, <1>2
  <2> QED BY <2>1, FrameIs
<1>4. InProlog(pc) /\ step = P[n] /\ n \in Nat
  <2>1. InProlog(pc)
    BY DEF PrologStep
  <2>2. step = P[n] /\ n \in 1 .. Len(P)
    BY <1>2
  <2> QED BY <1>3, <2>1, <2>2
<1>21. /\ n \in 1 .. Len(P) /\ n \in Nat /\ Len(P) \in Nat
       /\ \A j \in 1 .. n : j # n => j \in 1 .. (n - 1) /\ j \in 1 .. Len(P) /\ n - 1 \in j .. Len(P) /\ j \in 0 .. Len(P)
  <2>1. n \in 1 .. Len(P) /\ n \in Nat /\ Len(P) \in Nat
    BY <1>2, <1>3, <1>4
  <2> QED BY <2>1
<1>22. /\ b \in Nat /\ b > 0 /\ D[n - 1] \in Nat /\ L \in Nat
       /\ \A x \in Nat : x <= D[n - 1] => b + x \in 1 .. L
       /\ \A x \in 1 .. (b - 1) : x \in 1 .. L /\ x <= b
  <2>1. b \in Nat /\ b > 0 /\ D[n - 1] \in Nat /\ L = b + D[n - 1]
    BY <1>2
  <2>2. PICK d : d = D[n - 1]
    OBVIOUS
  <2>3. b \in Nat /\ b > 0 /\ d \in Nat /\ L = b + d
    BY <2>1, <2>2
  <2>4. L \in Nat /\ (\A x \in Nat : x <= d => b + x \in 1 .. L) /\ \A x \in 1 .. (b - 1) : x \in 1 .. L /\ x <= b
    BY <2>3
  <2> QED BY <2>1, <2>2, <2>4
<1>5. /\ \A j \in 1 .. (n - 1) :
           /\ P[j].op = "push" => stack[b + D[j]] = Number(found)
           /\ P[j].op = "save" => stack[b + D[j] - P[j].n] = Number(found)
           /\ P[j].op = "set" => rbp = b + D[j] - P[j].n
      /\ (\A j \in 1 .. (n - 1) : P[j].op # "set") => rbp = found
  <2>1. FrameStands(pc, b, found, L, rbp, stack)
    BY <1>1, <1>2, LevelOne
  <2>2. LET d == Done(pc) IN
        /\ \A j \in 1 .. d :
             /\ P[j].op = "push" => stack[b + D[j]] = Number(found)
             /\ P[j].op = "save" => stack[b + D[j] - P[j].n] = Number(found)
             /\ P[j].op = "set" => rbp = b + D[j] - P[j].n
        /\ (\A j \in 1 .. d : P[j].op # "set") => rbp = found
    BY <1>1, <1>2, <1>4, <2>1 DEF FrameStands
  <2> QED BY <1>2, <2>2
<1>6. ASSUME step.op \in Saving PROVE rbp = found
  <2>1. ASSUME NEW j \in 1 .. (n - 1), P[j].op = "set" PROVE FALSE
    <3>1. j \in 1 .. Len(P) /\ j < n
      BY <1>21
    <3>2. PICK i \in 1 .. (j - 1) : P[i].op \in Saving
      BY <1>3, <2>1, <3>1
    <3>3. i \in 1 .. Len(P) /\ i < n /\ n \in 1 .. Len(P)
      BY <1>21, <3>1
    <3>4. P[i].op \in Saving /\ P[n].op \in Saving
      BY <1>4, <1>6, <3>2
    <3> QED BY <1>3, <3>3, <3>4
  <2> QED BY <1>5, <2>1
<1>7. ASSUME NEW j \in 1 .. n
      PROVE  /\ P[j].op = "push" => stack'[b + D[j]] = Number(found)
             /\ P[j].op = "save" => stack'[b + D[j] - P[j].n] = Number(found)
             /\ P[j].op = "set" => rbp' = b + D[j] - P[j].n
  <2>1. CASE j = n
    BY <1>2, <1>4, <1>6, <2>1 DEF Saving
  <2>2. CASE j # n
    <3>1. j \in 1 .. (n - 1) /\ j \in 1 .. Len(P) /\ n - 1 \in j .. Len(P) /\ j \in 0 .. Len(P)
      BY <1>21, <2>2
    <3>2. D[j] <= D[n - 1] /\ D[j] \in Nat
      BY <1>1, <1>2, <3>1, DepthRises, DepthIs
    <3>3. P[j].op \in Saving => step.op # "save"
      <4>1. P[j].op \in Saving /\ P[n].op \in Saving => j = n
        BY <1>2, <1>3, <3>1
      <4> QED BY <1>4, <2>2, <4>1 DEF Saving
    <3>4. P[j].op = "set" => step.op # "set"
      BY <1>2, <1>3, <1>4, <2>2, <3>1
    <3>5. CASE P[j].op = "push"
      <4>1. D[j] - 1 \in Nat
        <5>1. D[j] = D[j - 1] + 1 /\ D[j - 1] \in Nat
          <6>1. Takes(P[j]) = 1 /\ j - 1 \in 0 .. Len(P)
            BY <1>3, <3>1, <3>5 DEF Takes
          <6> QED BY <1>1, <1>2, <3>1, <6>1, DepthIs
        <5> QED BY <5>1
      <4>2. b + D[j] \in 1 .. L
        BY <1>22, <3>2
      <4>3. step.op # "save"
        BY <3>3, <3>5 DEF Saving
      <4>4. stack'[b + D[j]] = stack[b + D[j]]
        BY <1>2, <4>2, <4>3
      <4> QED BY <1>5, <3>1, <3>5, <4>4
    <3>6. CASE P[j].op = "save"
      <4>1. D[j] - P[j].n \in 1 .. D[j] /\ P[j].n \in Nat
        BY <1>1, <1>2, <3>1, <3>6, SaveFits, StepIs
      <4>2. b + D[j] - P[j].n \in 1 .. L
        <5>1. D[j] - P[j].n \in Nat /\ D[j] - P[j].n <= D[n - 1] /\ b + D[j] - P[j].n = b + (D[j] - P[j].n)
          BY <1>22, <3>2, <4>1
        <5> QED BY <1>22, <5>1
      <4>3. step.op # "save"
        BY <3>3, <3>6 DEF Saving
      <4>4. stack'[b + D[j] - P[j].n] = stack[b + D[j] - P[j].n]
        BY <1>2, <4>2, <4>3
      <4> QED BY <1>5, <3>1, <3>6, <4>4
    <3>7. CASE P[j].op = "set"
      BY <1>2, <1>5, <3>1, <3>4, <3>7
    <3> QED BY <3>5, <3>6, <3>7
  <2> QED BY <2>1, <2>2
<1>8. (\A j \in 1 .. n : P[j].op # "set") => rbp' = found
  <2> SUFFICES ASSUME \A j \in 1 .. n : P[j].op # "set" PROVE rbp' = found
    OBVIOUS
  <2>1. n \in 1 .. n /\ \A j \in 1 .. (n - 1) : j \in 1 .. n
    BY <1>2, <1>4
  <2>2. step.op # "set"
    BY <1>4, <2>1
  <2> QED BY <1>2, <1>5, <2>1, <2>2
<1>9. FrameStands(pc', b, found, Len(stack'), rbp', stack')
  <2>1. Done(pc') = n /\ pc'.f = f /\ Len(stack') = b + D[n] /\ D[n] \in Nat /\ b \in Nat
    BY <1>2
  <2>2. P = Code[pc'.f].prolog /\ D = Depth(pc'.f)
    BY <1>1, <2>1
  <2>3. b + D[n] <= Len(stack') /\ Len(stack') = b + D[n]
    BY <2>1
  <2> QED BY <1>7, <1>8, <2>1, <2>2, <2>3 DEF FrameStands
<1>10. \A k \in 1 .. (b - 1) : stack'[k] = stack[k]
  <2>1. \A k \in 1 .. (b - 1) : k \in 1 .. L /\ k <= b
    BY <1>22
  <2> QED BY <1>2, <2>1
<1> QED BY <1>1, <1>2, <1>9, <1>10, FramesKept

LEMMA FramesBody == SyInv /\ FramesStand /\ (Alloca \/ UseRbp) => FramesStand'
<1> SUFFICES ASSUME SyInv, FramesStand, Alloca \/ UseRbp PROVE FramesStand'
  OBVIOUS
<1>1. PICK b, found, P, D, L, d : /\ b = calls[1].rsp /\ found = calls[1].rbp /\ P = Code[pc.f].prolog
                                  /\ D = Depth(pc.f) /\ L = Len(stack) /\ d = Done(pc)
  OBVIOUS
<1>2. /\ Running /\ InCode(pc) /\ ~InProlog(pc) /\ UNCHANGED <<pc, calls>>
      /\ pc \in Words /\ stack \in Seq(Words) /\ L \in Nat /\ b \in 1 .. L /\ b \in Nat /\ 1 \in 1 .. Len(calls)
  <2>1. Running /\ UNCHANGED <<pc, calls>>
    BY DEF Alloca, UseRbp
  <2>2. pc \in Words /\ stack \in Seq(Words) /\ 1 \in 1 .. Len(calls)
    BY DEF SyInv, SyTypes
  <2>3. calls[1].rsp \in 1 .. Len(stack)
    BY <2>2 DEF SyInv, CallsStand
  <2> QED BY <1>1, <2>1, <2>2, <2>3 DEF Running
<1>3. FrameStands(pc, b, found, L, rbp, stack)
  BY <1>1, <1>2, LevelOne
<1>4. /\ b + D[d] <= L
      /\ \A j \in 1 .. d :
           /\ P[j].op = "push" => stack[b + D[j]] = Number(found)
           /\ P[j].op = "save" => stack[b + D[j] - P[j].n] = Number(found)
           /\ P[j].op = "set" => rbp = b + D[j] - P[j].n
  BY <1>1, <1>3 DEF FrameStands
<1>5. D[d] \in Nat /\ d = Len(P) /\ d \in Nat /\ DOMAIN P = 1 .. d /\ (Code[pc.f].frame <=> \E k \in 1 .. d : P[k].op = "set")
  <2>1. Done(pc) = Len(Code[pc.f].prolog) /\ Done(pc) \in 0 .. Len(Code[pc.f].prolog) /\ Len(Code[pc.f].prolog) \in Nat
        /\ pc.f \in DOMAIN Code
    BY <1>2, DoneIs
  <2>2. Depth(pc.f)[Done(pc)] \in Nat
    BY <2>1, DepthIs
  <2>3. /\ DOMAIN P = 1 .. Len(P)
        /\ Code[pc.f].frame <=> \E k \in 1 .. Len(P) : P[k].op = "set"
    BY <1>1, <2>1, FrameIs
  <2> QED BY <1>1, <2>1, <2>2, <2>3
<1>6. CASE Alloca
  <2>1. Code[pc.f].frame /\ stack' = Append(stack, Number(99)) /\ rbp' = rbp /\ Number(99) \in Words
    BY <1>6, WordsAre DEF Alloca
  <2>2. Len(stack') = L + 1 /\ \A k \in 1 .. L : stack'[k] = stack[k]
    BY <1>1, <1>2, <2>1
  <2>3. \A k \in 1 .. (b + D[d]) : k > b => stack'[k] = stack[k]
    <3>1. \A k \in 1 .. (b + D[d]) : k \in 1 .. L
      BY <1>2, <1>4, <1>5
    <3> QED BY <2>2, <3>1
  <2>4. FrameStands(pc, b, found, L, rbp, stack')
    <3>1. \A k \in 1 .. (b + Depth(pc.f)[Done(pc)]) : k > b => stack'[k] = stack[k]
      BY <1>1, <2>3
    <3> QED BY <1>2, <1>3, <3>1, FrameReads
  <2>5. b + D[d] <= L + 1
    BY <1>2, <1>4, <1>5
  <2>6. FrameStands(pc', b, found, Len(stack'), rbp', stack')
    BY <1>1, <1>2, <2>1, <2>2, <2>4, <2>5 DEF FrameStands
  <2>7. \A k \in 1 .. (b - 1) : stack'[k] = stack[k]
    <3>1. \A k \in 1 .. (b - 1) : k \in 1 .. L
      BY <1>2
    <3> QED BY <2>2, <3>1
  <2> QED BY <1>1, <1>2, <2>6, <2>7, FramesKept
<1>7. CASE UseRbp
  <2>1. ~Code[pc.f].frame /\ SavesRbp(pc.f) /\ stack' = stack
    BY <1>7 DEF UseRbp
  <2>2. \A j \in 1 .. d : P[j].op # "set"
    BY <1>5, <2>1
  <2>3. FrameStands(pc', b, found, Len(stack'), rbp', stack')
    BY <1>1, <1>2, <1>3, <2>1, <2>2 DEF FrameStands
  <2> QED BY <1>1, <1>2, <2>1, <2>3, FramesKept
<1> QED BY <1>6, <1>7

\* A call, seen from the levels.
LEMMA CallDoes ==
  ASSUME SyInv, NEW where, CallTo(where)
  PROVE  /\ InCode(pc) /\ ~InProlog(pc) /\ pc' = where /\ rbp' = rbp
         /\ Len(stack') = Len(stack) + 1 /\ \A k \in 1 .. Len(stack) : stack'[k] = stack[k]
         /\ Len(calls') = Len(calls) + 1 /\ Len(calls) \in Nat /\ Len(stack) \in Nat
         /\ calls'[1] = [back |-> Body(pc.f), rsp |-> Len(stack) + 1, rbp |-> rbp]
         /\ \A i \in 2 .. (Len(calls) + 1) : i - 1 \in 1 .. Len(calls) /\ calls'[i] = calls[i - 1]
<1>1. /\ InCode(pc) /\ ~InProlog(pc) /\ pc.f \in DOMAIN Code /\ pc' = where /\ rbp' = rbp /\ stack' = Append(stack, Body(pc.f))
      /\ calls' = <<[back |-> Body(pc.f), rsp |-> Len(stack'), rbp |-> rbp]>> \o calls
  BY DEF CallTo, Running, InCode
<1>2. PICK body, call : body = Body(pc.f) /\ call = [back |-> body, rsp |-> Len(stack'), rbp |-> rbp]
  OBVIOUS
<1>3. stack \in Seq(Words) /\ calls \in Seq([back : Words, rsp : Nat, rbp : Int]) /\ body \in Words /\ rbp \in Int
  BY <1>1, <1>2, BodyIs DEF SyInv, SyTypes
<1>4. Len(stack') = Len(stack) + 1 /\ (\A k \in 1 .. Len(stack) : stack'[k] = stack[k]) /\ Len(stack) \in Nat
  <2>1. stack' = Append(stack, body)
    BY <1>1, <1>2
  <2> QED BY <1>3, <2>1
<1>5. call \in [back : Words, rsp : Nat, rbp : Int]
  BY <1>2, <1>3, <1>4
<1>6. /\ Len(calls') = Len(<<call>>) + Len(calls)
      /\ \A i \in 1 .. Len(<<call>>) : calls'[i] = <<call>>[i]
      /\ \A i \in 1 .. Len(calls) : calls'[Len(<<call>>) + i] = calls[i]
  <2>1. <<call>> \in Seq([back : Words, rsp : Nat, rbp : Int])
    BY <1>5
  <2>2. calls' = <<call>> \o calls
    BY <1>1, <1>2
  <2> QED BY <1>3, <2>1, <2>2, JoinIs
<1>7. Len(<<call>>) = 1 /\ <<call>>[1] = call /\ Len(calls) \in Nat
  BY <1>3
<1>8. Len(calls') = Len(calls) + 1 /\ calls'[1] = call
  BY <1>6, <1>7
<1>9. ASSUME NEW i \in 2 .. (Len(calls) + 1) PROVE i - 1 \in 1 .. Len(calls) /\ calls'[i] = calls[i - 1]
  <2>1. i - 1 \in 1 .. Len(calls) /\ 1 + (i - 1) = i
    BY <1>7
  <2> QED BY <1>6, <1>7, <2>1
<1> QED BY <1>1, <1>2, <1>4, <1>7, <1>8, <1>9

LEMMA FramesCall ==
  ASSUME SyInv, FramesStand, NEW where \in Words, CallTo(where), InCode(where) => where.n = 0
  PROVE  FramesStand'
<1>1. /\ InCode(pc) /\ ~InProlog(pc) /\ pc' = where /\ rbp' = rbp
      /\ Len(stack') = Len(stack) + 1 /\ \A k \in 1 .. Len(stack) : stack'[k] = stack[k]
      /\ Len(calls') = Len(calls) + 1 /\ Len(calls) \in Nat /\ Len(stack) \in Nat
      /\ calls'[1] = [back |-> Body(pc.f), rsp |-> Len(stack) + 1, rbp |-> rbp]
      /\ \A i \in 2 .. (Len(calls) + 1) : i - 1 \in 1 .. Len(calls) /\ calls'[i] = calls[i - 1]
  BY CallDoes
<1>2. calls'[1].back = Body(pc.f) /\ calls'[1].rsp = Len(stack) + 1 /\ calls'[1].rbp = rbp
  BY <1>1
<1>3. ASSUME InCode(where)
      PROVE  FrameStands(where, Len(stack) + 1, rbp, Len(stack) + 1, rbp, stack')
  <2>1. Done(where) = 0 /\ where.f \in DOMAIN Code
    <3>1. Done(where) \in 0 .. Len(Code[where.f].prolog) /\ Len(Code[where.f].prolog) \in Nat /\ where.f \in DOMAIN Code
      BY <1>3, DoneIs
    <3>2. where.n = 0
      BY <1>3
    <3> QED BY <1>3, <3>1, <3>2 DEF Done, InProlog
  <2>2. Depth(where.f)[0] = 0
    BY <2>1, DepthIs
  <2> QED BY <1>1, <2>1, <2>2 DEF FrameStands
<1>4. FrameStands(Body(pc.f), calls[1].rsp, calls[1].rbp, Len(stack), rbp, stack')
  <2>1. PICK b, found, L : b = calls[1].rsp /\ found = calls[1].rbp /\ L = Len(stack)
    OBVIOUS
  <2>2. FrameStands(pc, b, found, L, rbp, stack)
    BY <1>1, <2>1, LevelOne
  <2>3. pc \in Words /\ L \in Nat /\ b \in Nat /\ b > 0 /\ pc.f \in DOMAIN Code
    <3>1. 1 \in 1 .. Len(calls)
      BY LevelOne
    <3>2. calls[1].rsp \in Nat /\ calls[1].rsp > 0 /\ pc \in Words
      BY <3>1, LevelsAre DEF SyInv, SyTypes
    <3> QED BY <1>1, <2>1, <3>2 DEF InCode
  <2>4. b + Depth(pc.f)[Done(pc)] <= L /\ Depth(pc.f)[Done(pc)] \in Nat
    <3>1. Done(pc) \in 0 .. Len(Code[pc.f].prolog)
      BY <1>1, <2>3, DoneIs
    <3> QED BY <2>2, <2>3, <3>1, DepthIs DEF FrameStands
  <2>5. \A k \in 1 .. (b + Depth(pc.f)[Done(pc)]) : k > b => stack'[k] = stack[k]
    <3>1. PICK d : d = Depth(pc.f)[Done(pc)]
      OBVIOUS
    <3>2. \A k \in 1 .. (b + d) : k \in 1 .. L
      BY <2>3, <2>4, <3>1
    <3> QED BY <1>1, <2>1, <3>1, <3>2
  <2>6. FrameStands(pc, b, found, L, rbp, stack')
    BY <1>1, <2>2, <2>3, <2>5, FrameReads
  <2>7. Body(pc.f).f = pc.f /\ ~InProlog(Body(pc.f)) /\ Done(Body(pc.f)) = Done(pc)
    BY <1>1, <2>3, BodyIs DEF Done
  <2>8. FrameStands(Body(pc.f), b, found, L, rbp, stack')
    BY <1>1, <2>6, <2>7 DEF FrameStands
  <2> QED BY <2>1, <2>8
<1>5. ASSUME NEW i \in 1 .. Len(calls'), InCode(LevelAt(i)')
      PROVE  FrameStands(LevelAt(i)', calls'[i].rsp, calls'[i].rbp, LevelRsp(i)', LevelRbp(i)', stack')
  <2>1. CASE i = 1
    <3>1. LevelAt(i)' = where /\ LevelRsp(i)' = Len(stack) + 1 /\ LevelRbp(i)' = rbp
      BY <1>1, <2>1 DEF LevelAt, LevelRsp, LevelRbp
    <3> QED BY <1>2, <1>3, <1>5, <2>1, <3>1
  <2>2. CASE i = 2
    <3>1. LevelAt(i)' = Body(pc.f) /\ LevelRsp(i)' = (Len(stack) + 1) - 1 /\ LevelRbp(i)' = rbp
      BY <1>2, <2>2 DEF LevelAt, LevelRsp, LevelRbp
    <3>2. (Len(stack) + 1) - 1 = Len(stack) /\ i \in 2 .. (Len(calls) + 1) /\ i - 1 = 1
      BY <1>1, <2>2
    <3>3. calls'[i] = calls[1]
      BY <1>1, <3>2
    <3> QED BY <1>4, <3>1, <3>2, <3>3
  <2>3. CASE i > 2
    <3>1. i \in 2 .. (Len(calls) + 1) /\ i - 1 \in 2 .. (Len(calls) + 1) /\ i - 1 \in 2 .. Len(calls) /\ i # 1 /\ i - 1 # 1
      BY <1>1, <2>3
    <3>2. calls'[i] = calls[i - 1] /\ calls'[i - 1] = calls[(i - 1) - 1]
      BY <1>1, <3>1
    <3>3. LevelAt(i)' = LevelAt(i - 1) /\ LevelRsp(i)' = LevelRsp(i - 1) /\ LevelRbp(i)' = LevelRbp(i - 1)
      BY <3>1, <3>2 DEF LevelAt, LevelRsp, LevelRbp
    <3>4. \A k \in 1 .. (calls[1].rsp - 1) : stack'[k] = stack[k]
      <4>1. calls[1].rsp \in 1 .. Len(stack)
        BY LevelOne DEF SyInv, CallsStand
      <4>2. \A k \in 1 .. (calls[1].rsp - 1) : k \in 1 .. Len(stack)
        BY <1>1, <4>1
      <4> QED BY <1>1, <4>2
    <3>5. FrameStands(LevelAt(i - 1), calls[i - 1].rsp, calls[i - 1].rbp, LevelRsp(i - 1), LevelRbp(i - 1), stack')
      BY <3>1, <3>4, OuterLevels
    <3> QED BY <3>2, <3>3, <3>5
  <2> QED BY <1>1, <2>1, <2>2, <2>3
<1>6. Len(stack') = calls'[1].rsp /\ rbp' = calls'[1].rbp
  BY <1>1, <1>2
<1> QED BY <1>5, <1>6 DEF FramesStand

LEMMA FramesReturn == SyInv /\ FramesStand /\ ReturnBack => FramesStand'
<1> SUFFICES ASSUME SyInv, FramesStand, ReturnBack PROVE FramesStand'
  OBVIOUS
<1>1. /\ Len(calls) > 1 /\ pc' = calls[1].back /\ stack' = SubSeq(stack, 1, calls[1].rsp - 1)
      /\ rbp' = calls[1].rbp /\ calls' = Tail(calls)
  BY DEF ReturnBack
<1>2. PICK C, top : C = Len(calls) /\ top = calls[1].rsp
  OBVIOUS
<1>3. /\ C \in Nat /\ C > 1 /\ calls \in Seq([back : Words, rsp : Nat, rbp : Int]) /\ stack \in Seq(Words) /\ Len(stack) \in Nat
      /\ top \in 1 .. Len(stack)
  <2>1. calls \in Seq([back : Words, rsp : Nat, rbp : Int]) /\ stack \in Seq(Words)
    BY DEF SyInv, SyTypes
  <2>2. C \in Nat /\ C > 1 /\ 1 \in 1 .. Len(calls)
    BY <1>1, <1>2, <2>1
  <2> QED BY <1>2, <2>1, <2>2 DEF SyInv, CallsStand
<1>4. Len(stack') = top - 1 /\ \A k \in 1 .. (top - 1) : stack'[k] = stack[k]
  <2>1. stack' = SubSeq(stack, 1, top - 1) /\ top - 1 \in 0 .. Len(stack)
    BY <1>1, <1>2, <1>3
  <2> QED BY <1>3, <2>1
<1>5. Len(calls') = C - 1 /\ \A i \in 1 .. (C - 1) : calls'[i] = calls[i + 1]
  <2>1. calls # <<>>
    BY <1>2, <1>3
  <2> QED BY <1>1, <1>2, <1>3, <2>1
<1>6. ASSUME NEW i \in 1 .. (C - 1)
      PROVE  FrameStands(LevelAt(i)', calls'[i].rsp, calls'[i].rbp, LevelRsp(i)', LevelRbp(i)', stack')
  <2>1. i + 1 \in 2 .. Len(calls) /\ calls'[i] = calls[i + 1]
    BY <1>2, <1>3, <1>5
  <2>2. LevelAt(i)' = LevelAt(i + 1) /\ LevelRsp(i)' = LevelRsp(i + 1) /\ LevelRbp(i)' = LevelRbp(i + 1)
    <3>1. CASE i = 1
      <4>1. LevelAt(i)' = calls[1].back /\ LevelRsp(i)' = calls[1].rsp - 1 /\ LevelRbp(i)' = calls[1].rbp
        BY <1>1, <1>2, <1>4, <3>1 DEF LevelAt, LevelRsp, LevelRbp
      <4>2. LevelAt(2) = calls[1].back /\ LevelRsp(2) = calls[1].rsp - 1 /\ LevelRbp(2) = calls[1].rbp
        BY DEF LevelAt, LevelRsp, LevelRbp
      <4>3. i + 1 = 2
        BY <3>1
      <4> QED BY <4>1, <4>2, <4>3
    <3>2. CASE i # 1
      <4>1. i - 1 \in 1 .. (C - 1) /\ (i - 1) + 1 = i /\ (i + 1) - 1 = i /\ i + 1 # 1
        BY <1>3, <3>2
      <4>2. calls'[i - 1] = calls[i]
        BY <1>5, <4>1
      <4> QED BY <3>2, <4>1, <4>2 DEF LevelAt, LevelRsp, LevelRbp
    <3> QED BY <3>1, <3>2
  <2>3. \A k \in 1 .. (calls[1].rsp - 1) : stack'[k] = stack[k]
    BY <1>2, <1>4
  <2>4. FrameStands(LevelAt(i + 1), calls[i + 1].rsp, calls[i + 1].rbp, LevelRsp(i + 1), LevelRbp(i + 1), stack')
    BY <2>1, <2>3, OuterLevels
  <2> QED BY <2>1, <2>2, <2>4
<1>7. InCode(pc')
  <2>1. 1 \in 1 .. (Len(calls) - 1)
    BY <1>2, <1>3
  <2> QED BY <1>1, <2>1 DEF SyInv, CallsStand, Returned
<1> QED BY <1>5, <1>6, <1>7 DEF FramesStand

LEMMA FramesStep ==
  ASSUME SyInv, FramesStand, [SyNext]_syVars
  PROVE  FramesStand'
<1>1. CASE CallFunction
  <2>1. PICK f \in DOMAIN Code : CallTo(Place(f, 0))
    BY <1>1 DEF CallFunction
  <2>2. Place(f, 0) \in Words /\ Place(f, 0).n = 0
    BY WordsAre
  <2> QED BY <2>1, <2>2, FramesCall
<1>2. CASE CallGarbage
  <2>1. CallTo(Garbage) /\ Garbage \in Words /\ ~InCode(Garbage)
    BY <1>2, WordsAre DEF CallGarbage
  <2> QED BY <2>1, FramesCall
<1>3. CASE UNCHANGED syVars
  BY <1>3 DEF syVars, FramesStand, LevelAt, LevelRsp, LevelRbp
<1> QED BY <1>1, <1>2, <1>3, FramesProlog, FramesBody, FramesReturn DEF SyNext

-----------------------------------------------------------------------------
(* Undoing the steps of a prolog.                                          *)

\* Undoing steps one after the other.
UndoneBy(g, regs, s, n) ==
  /\ g[0] = regs /\ \A k \in 1 .. n : g[k] = Undo(g[k - 1], s[k])
  /\ FoldLeft(Undo, regs, s) = g[n]
LEMMA UndoUnfolds ==
  ASSUME NEW n \in Nat, NEW s, DOMAIN s = 1 .. n, NEW regs
  PROVE  \E g : UndoneBy(g, regs, s, n)
<1> DEFINE Undone(g, m) == g = [S \in SUBSET (1 .. m) |-> IF S = {} THEN regs ELSE Undo(g[S \ {Max(S)}], s[Max(S)])]
           T == {m \in Nat : \E g : Undone(g, m)}
<1>1. 0 \in T
  <2> DEFINE g == [S \in SUBSET (1 .. 0) |-> regs]
  <2>1. Undone(g, 0)
    OBVIOUS
  <2> QED BY <2>1
<1>2. ASSUME NEW m \in Nat, m \in T PROVE m + 1 \in T
  <2>1. PICK g : Undone(g, m)
    BY <1>2
  <2> DEFINE h == [S \in SUBSET (1 .. (m + 1)) |-> IF m + 1 \in S THEN Undo(g[S \ {m + 1}], s[m + 1]) ELSE g[S]]
  <2>2. ASSUME NEW S \in SUBSET (1 .. (m + 1))
        PROVE  h[S] = IF S = {} THEN regs ELSE Undo(h[S \ {Max(S)}], s[Max(S)])
    <3>1. CASE m + 1 \in S
      <4>1. Max(S) = m + 1 /\ S \ {m + 1} \in SUBSET (1 .. m) /\ S # {}
        BY <3>1, LastTaken
      <4>2. h[S \ {m + 1}] = g[S \ {m + 1}]
        OBVIOUS
      <4> QED BY <3>1, <4>1, <4>2
    <3>2. CASE m + 1 \notin S
      <4>1. S \in SUBSET (1 .. m) /\ (S # {} => Max(S) \in S)
        BY <3>2, LastTaken
      <4>2. h[S] = g[S] /\ h[S \ {Max(S)}] = g[S \ {Max(S)}]
        BY <3>2
      <4>3. g[S] = IF S = {} THEN regs ELSE Undo(g[S \ {Max(S)}], s[Max(S)])
        BY <2>1, <4>1
      <4> QED BY <4>2, <4>3
    <3> QED BY <3>1, <3>2
  <2>3. Undone(h, m + 1)
    BY <2>2
  <2> HIDE DEF h, Undone
  <2> QED BY <2>3
<1>3. \E g : Undone(g, n)
  <2> HIDE DEF Undone
  <2>1. \A m \in Nat : m \in T
    <3> HIDE DEF T
    <3> QED BY <1>1, <1>2, ByInduction
  <2> QED BY <2>1
<1>4. PICK g : Undone(g, n) /\ FoldLeft(Undo, regs, s) = g[1 .. n]
  BY <1>3 DEF FoldLeft, MapThenFoldSet
<1> DEFINE r == [k \in 0 .. n |-> g[1 .. k]]
<1>5. r[0] = regs
  <2>1. 1 .. 0 = {}
    OBVIOUS
  <2> QED BY <1>4, <2>1
<1>6. ASSUME NEW k \in 1 .. n PROVE r[k] = Undo(r[k - 1], s[k])
  <2>1. 1 .. k \in SUBSET (1 .. n) /\ k \in 1 .. k /\ k - 1 \in 0 .. n /\ k - 1 \in Nat /\ (k - 1) + 1 = k /\ k \in 0 .. n
    OBVIOUS
  <2>4. (1 .. k) \ {k} = 1 .. (k - 1)
    BY <2>1, AllButLast
  <2>2. Max(1 .. k) = k
    BY <2>1, AllButLast
  <2>3. g[1 .. k] = Undo(g[(1 .. k) \ {k}], s[k])
    <3>1. 1 .. k # {}
      BY <2>1
    <3> QED BY <1>4, <2>1, <2>2, <3>1
  <2>5. r[k] = g[1 .. k] /\ r[k - 1] = g[1 .. (k - 1)]
    BY <2>1
  <2> HIDE DEF r
  <2> QED BY <2>3, <2>4, <2>5
<1>7. FoldLeft(Undo, regs, s) = r[n]
  <2>1. n \in 0 .. n
    OBVIOUS
  <2>2. r[n] = g[1 .. n]
    BY <2>1
  <2> QED BY <1>4, <2>2
<1> HIDE DEF r
<1>8. UndoneBy(r, regs, s, n)
  BY <1>5, <1>6, <1>7 DEF UndoneBy
<1> QED BY <1>8

\* The codes of a function undo its prolog from the end of what has run.
LEMMA UndoneIs ==
  ASSUME NEW w \in Words, InCode(w), NEW d, d = Done(w), NEW P, P = Code[w.f].prolog, NEW s, s = Reverse(DoneProlog(w))
  PROVE  d \in Nat /\ d <= Len(P) /\ Len(P) \in Nat /\ DOMAIN s = 1 .. d /\ \A k \in 1 .. d : s[k] = P[(d - k) + 1]
<1>1. d \in 0 .. Len(P) /\ Len(P) \in Nat /\ (~InProlog(w) => d = Len(P)) /\ w.f \in DOMAIN Code
  BY DoneIs
<1>2. P \in Seq([op : {"push", "alloc", "set", "save"}, n : Nat])
  BY <1>1, PrologsFit
<1>3. PICK q : q = DoneProlog(w)
  OBVIOUS
<1>4. q \in Seq([op : {"push", "alloc", "set", "save"}, n : Nat]) /\ Len(q) = d /\ \A k \in 1 .. d : q[k] = P[k]
  <2>1. CASE InProlog(w)
    <3>1. q = SubSeq(P, 1, d)
      BY <1>3, <2>1 DEF DoneProlog, Done
    <3>2. d \in 0 .. Len(P)
      BY <1>1
    <3> QED BY <1>2, <3>1, <3>2, HeadIs
  <2>2. CASE ~InProlog(w)
    BY <1>1, <1>2, <1>3, <2>2 DEF DoneProlog
  <2> QED BY <2>1, <2>2
<1>5. s = [i \in 1 .. d |-> q[(d - i) + 1]]
  BY <1>3, <1>4 DEF Reverse
<1>6. \A k \in 1 .. d : (d - k) + 1 \in 1 .. d
  BY <1>1
<1> QED BY <1>1, <1>4, <1>5, <1>6, SMTT(30)

\* With its frame in place, unwinding a function gives rsp and rbp as its caller had
\* them at the call.
LEMMA UnwindsFrame ==
  ASSUME SyTypes, dump.stack # "missing", NEW w \in Words, InCode(w), NEW base \in Nat, base > 0, NEW found \in Int,
         NEW rsp \in Nat, rsp <= Len(stack), NEW reg \in Int, FrameStands(w, base, found, rsp, reg, stack)
  PROVE  ApplyUnwind(w, [rsp |-> rsp, rbp |-> reg]) = [rsp |-> base, rbp |-> found]
<1>1. PICK f, d, P, D, s : f = w.f /\ d = Done(w) /\ P = Code[f].prolog /\ D = Depth(f) /\ s = Reverse(DoneProlog(w))
  OBVIOUS
<1>2. d \in Nat /\ d <= Len(P) /\ Len(P) \in Nat /\ DOMAIN s = 1 .. d /\ \A k \in 1 .. d : s[k] = P[(d - k) + 1]
  BY <1>1, UndoneIs
<1>3. PICK g : /\ g[0] = [rsp |-> rsp, rbp |-> reg] /\ \A k \in 1 .. d : g[k] = Undo(g[k - 1], s[k])
               /\ FoldLeft(Undo, [rsp |-> rsp, rbp |-> reg], s) = g[d]
  <2>1. PICK regs : regs = [rsp |-> rsp, rbp |-> reg]
    OBVIOUS
  <2>2. PICK g : UndoneBy(g, regs, s, d)
    BY <1>2, UndoUnfolds
  <2> QED BY <2>1, <2>2 DEF UndoneBy
<1>4. /\ f \in DOMAIN Code /\ (~InProlog(w) => d = Len(P))
      /\ D[0] = 0 /\ \A j \in 1 .. d : D[j] = D[j - 1] + Takes(P[j])
      /\ \A j \in 0 .. d : D[j] \in Nat /\ D[j] <= D[d]
      /\ \A j \in 1 .. d : /\ P[j].op \in {"push", "alloc", "set", "save"} /\ P[j].n \in Nat
                           /\ P[j].op = "save" => D[j] - P[j].n \in 1 .. D[j]
  <2>1. f \in DOMAIN Code /\ (~InProlog(w) => d = Len(P))
    BY <1>1, DoneIs
  <2>2. (\A j \in 1 .. d : j \in 1 .. Len(P)) /\ (\A j \in 0 .. d : j \in 0 .. Len(P) /\ d \in j .. Len(P))
    BY <1>2
  <2>3. D[0] = 0 /\ (\A j \in 1 .. d : D[j] = D[j - 1] + Takes(P[j])) /\ \A j \in 0 .. d : D[j] \in Nat
    BY <1>1, <2>1, <2>2, DepthIs
  <2>4. \A j \in 0 .. d : D[j] <= D[d]
    BY <1>1, <2>1, <2>2, DepthRises
  <2>5. \A j \in 1 .. d : P[j].op \in {"push", "alloc", "set", "save"} /\ P[j].n \in Nat
    BY <1>1, <2>1, <2>2, StepIs
  <2>6. \A j \in 1 .. d : P[j].op = "save" => D[j] - P[j].n \in 1 .. D[j]
    BY <1>1, <2>1, <2>2, SaveFits
  <2> QED BY <2>1, <2>3, <2>4, <2>5, <2>6
<1>5. /\ base + D[d] <= rsp /\ (InProlog(w) \/ ~Code[f].frame => rsp = base + D[d])
      /\ \A j \in 1 .. d :
           /\ P[j].op = "push" => stack[base + D[j]] = Number(found)
           /\ P[j].op = "save" => stack[base + D[j] - P[j].n] = Number(found)
           /\ P[j].op = "set" => reg = base + D[j] - P[j].n
      /\ (\A j \in 1 .. d : P[j].op # "set") /\ (InProlog(w) \/ ~SavesRbp(f)) => reg = found
  BY <1>1 DEF FrameStands
<1>6. /\ \A i, k \in 1 .. d : P[i].op \in Saving /\ P[k].op \in Saving => i = k
      /\ \A k \in 1 .. d : P[k].op = "set" => \E i \in 1 .. d : i < k /\ P[i].op \in Saving
      /\ (\A k \in 1 .. d : P[k].op # "set") => InProlog(w) \/ ~Code[f].frame
      /\ (\A k \in 1 .. d : P[k].op \notin Saving) => InProlog(w) \/ ~SavesRbp(f)
  <2>1. /\ DOMAIN P = 1 .. Len(P)
        /\ \A i, k \in 1 .. Len(P) : P[i].op \in Saving /\ P[k].op \in Saving => i = k
        /\ \A k \in 1 .. Len(P) : P[k].op = "set" => \E i \in 1 .. (k - 1) : P[i].op \in Saving
        /\ Code[f].frame <=> \E k \in 1 .. Len(P) : P[k].op = "set"
    <3>1. f \in DOMAIN Code /\ P = Code[f].prolog
      BY <1>1, <1>4
    <3> QED BY <3>1, FrameIs
  <2>2. \A j \in 1 .. d : j \in 1 .. Len(P)
    BY <1>2
  <2>3. \A i, k \in 1 .. d : P[i].op \in Saving /\ P[k].op \in Saving => i = k
    BY <2>1, <2>2
  <2>4. ASSUME NEW k \in 1 .. d, P[k].op = "set" PROVE \E i \in 1 .. d : i < k /\ P[i].op \in Saving
    <3>1. PICK i \in 1 .. (k - 1) : P[i].op \in Saving
      BY <2>1, <2>2, <2>4
    <3>2. i \in 1 .. d /\ i < k
      BY <1>2
    <3> QED BY <3>1, <3>2
  <2>5. (\A k \in 1 .. d : P[k].op # "set") => InProlog(w) \/ ~Code[f].frame
    BY <1>4, <2>1
  <2>6. (\A k \in 1 .. d : P[k].op \notin Saving) => InProlog(w) \/ ~SavesRbp(f)
    BY <1>1, <1>4, <2>1 DEF SavesRbp
  <2> QED BY <2>3, <2>4, <2>5, <2>6
\* Once the steps after j are undone: rsp stands where the prolog left it at j, unless
\* a frame pointer is still to come, and rbp is back if it was saved after j.
<1> DEFINE Undone(k) ==
      \E x, y \in Int :
        /\ g[k] = [rsp |-> x, rbp |-> y]
        /\ (\A i \in 1 .. (d - k) : P[i].op # "set") => x = base + D[d - k]
        /\ y = IF \E i \in (d - k + 1) .. d : P[i].op \in Saving THEN found ELSE reg
<1>7. Undone(0)
  <2>1. d - 0 = d /\ (d + 1) .. d = {}
    BY <1>2
  <2>2. (\A i \in 1 .. d : P[i].op # "set") => rsp = base + D[d]
    BY <1>5, <1>6
  <2>3. /\ g[0] = [rsp |-> rsp, rbp |-> reg]
        /\ (\A i \in 1 .. (d - 0) : P[i].op # "set") => rsp = base + D[d - 0]
        /\ reg = IF \E i \in (d - 0 + 1) .. d : P[i].op \in Saving THEN found ELSE reg
    BY <1>3, <2>1, <2>2
  <2>4. rsp \in Int /\ reg \in Int
    OBVIOUS
  <2> QED BY <2>3, <2>4
<1>8. ASSUME NEW k \in Nat, k + 1 <= d, Undone(k) PROVE Undone(k + 1)
  <2>1. PICK x \in Int, y \in Int :
          /\ g[k] = [rsp |-> x, rbp |-> y]
          /\ (\A i \in 1 .. (d - k) : P[i].op # "set") => x = base + D[d - k]
          /\ y = IF \E i \in (d - k + 1) .. d : P[i].op \in Saving THEN found ELSE reg
    BY <1>8
  <2>2. PICK j, step : j = d - k /\ step = P[j]
    OBVIOUS
  <2>3. /\ j \in 1 .. d /\ j \in Nat /\ j - 1 \in 0 .. d /\ j \in 0 .. d /\ d - (k + 1) = j - 1 /\ d - (k + 1) + 1 = j
        /\ k + 1 \in 1 .. d /\ (k + 1) - 1 = k /\ (d - (k + 1)) + 1 = j
    BY <1>2, <1>8, <2>2
  <2>4. g[k + 1] = Undo([rsp |-> x, rbp |-> y], step)
    <3>1. g[k + 1] = Undo(g[k], s[k + 1]) /\ s[k + 1] = P[j]
      BY <1>2, <1>3, <2>3
    <3> QED BY <2>1, <2>2, <3>1
  <2>5. /\ (\A i \in 1 .. j : P[i].op # "set") => x = base + D[j]
        /\ y = IF \E i \in (j + 1) .. d : P[i].op \in Saving THEN found ELSE reg
    BY <2>1, <2>2
  <2>6. /\ D[j] = D[j - 1] + Takes(step) /\ D[j] \in Nat /\ D[j - 1] \in Nat /\ D[j] <= D[d] /\ D[d] \in Nat
        /\ step.op \in {"push", "alloc", "set", "save"} /\ step.n \in Nat
    <3>1. d \in 0 .. d
      BY <1>2
    <3> QED BY <1>4, <2>2, <2>3, <3>1
  <2>7. ASSUME NEW x2 \in Int, NEW y2 \in Int, g[k + 1] = [rsp |-> x2, rbp |-> y2],
               (\A i \in 1 .. (j - 1) : P[i].op # "set") => x2 = base + D[j - 1],
               y2 = IF \E i \in j .. d : P[i].op \in Saving THEN found ELSE reg
        PROVE  Undone(k + 1)
    BY <2>3, <2>7
  <2>8. ASSUME step.op # "set", \A i \in 1 .. (j - 1) : P[i].op # "set" PROVE x = base + D[j]
    <3>1. \A i \in 1 .. j : i = j \/ i \in 1 .. (j - 1)
      BY <2>3
    <3> QED BY <2>2, <2>5, <2>8, <3>1
  <2>9. (\E i \in j .. d : P[i].op \in Saving) <=> step.op \in Saving \/ \E i \in (j + 1) .. d : P[i].op \in Saving
    <3>1. j \in j .. d /\ (\A i \in (j + 1) .. d : i \in j .. d) /\ \A i \in j .. d : i = j \/ i \in (j + 1) .. d
      BY <1>2, <2>3
    <3> QED BY <2>2, <3>1
  <2>10. CASE step.op \in Saving
    <3>1. ASSUME NEW i \in 1 .. j, P[i].op = "set" PROVE FALSE
      <4>1. i \in 1 .. d /\ i <= j
        BY <1>2, <2>3
      <4>2. PICK m \in 1 .. d : m < i /\ P[m].op \in Saving
        BY <1>6, <3>1, <4>1
      <4>3. m = j
        BY <1>6, <2>2, <2>3, <2>10, <4>2
      <4> QED BY <2>3, <4>1, <4>2, <4>3
    <3>2. x = base + D[j]
      BY <2>5, <3>1
    <3>3. found = IF \E i \in j .. d : P[i].op \in Saving THEN found ELSE reg
      BY <2>9, <2>10
    <3>4. Number(found) # NoWord /\ Restored(Number(found), y) = found
      BY DEF Number, NoWord, Place, Restored
    <3>5. base + D[d] <= rsp /\ Len(stack) \in Nat /\ DOMAIN stack = 1 .. Len(stack)
      BY <1>5 DEF SyTypes
    <3>6. CASE step.op = "push"
      <4>1. Takes(step) = 1
        BY <3>6 DEF Takes
      <4>2. x \in 1 .. Len(stack) /\ x - 1 = base + D[j - 1]
        <5>1. PICK a, b, c, m : a = D[j] /\ b = D[j - 1] /\ c = D[d] /\ m = Len(stack)
          OBVIOUS
        <5>2. a = b + 1 /\ a \in Nat /\ b \in Nat /\ c \in Nat /\ a <= c /\ base + c <= rsp /\ rsp <= m /\ m \in Nat /\ x = base + a
          BY <2>6, <3>2, <3>5, <4>1, <5>1
        <5>3. x \in 1 .. m /\ x - 1 = base + b
          BY <5>2
        <5> QED BY <5>1, <5>3
      <4>3. ReadU64(x) = Number(found)
        <5>1. stack[base + D[j]] = Number(found)
          BY <1>5, <2>2, <2>3, <3>6
        <5> QED BY <3>2, <3>5, <4>2, <5>1 DEF ReadU64
      <4>4. g[k + 1] = [rsp |-> x - 1, rbp |-> found]
        BY <2>4, <3>4, <3>6, <4>3 DEF Undo
      <4>5. x - 1 \in Int
        OBVIOUS
      <4> QED BY <2>7, <3>3, <4>2, <4>4, <4>5
    <3>7. CASE step.op = "save"
      <4>1. Takes(step) = 0
        BY <3>7 DEF Takes
      <4>2. x - step.n \in 1 .. Len(stack) /\ x = base + D[j - 1] /\ x - step.n = base + D[j] - step.n
        <5>1. PICK a, b, c, m, t : a = D[j] /\ b = D[j - 1] /\ c = D[d] /\ m = Len(stack) /\ t = step.n
          OBVIOUS
        <5>2. /\ a = b + 0 /\ a \in Nat /\ b \in Nat /\ c \in Nat /\ a <= c /\ base + c <= rsp /\ rsp <= m /\ m \in Nat /\ x = base + a
              /\ t \in Nat
          BY <2>6, <3>2, <3>5, <4>1, <5>1
        <5>3. a - t \in 1 .. a
          BY <1>4, <2>2, <2>3, <3>7, <5>1
        <5>4. x - t \in 1 .. m /\ x = base + b /\ x - t = base + a - t
          BY <5>2, <5>3
        <5> QED BY <5>1, <5>4
      <4>3. ReadU64(x - step.n) = Number(found)
        <5>1. stack[base + D[j] - step.n] = Number(found)
          BY <1>5, <2>2, <2>3, <3>7
        <5> QED BY <3>5, <4>2, <5>1 DEF ReadU64
      <4>4. g[k + 1] = [rsp |-> x, rbp |-> found]
        BY <2>4, <3>4, <3>7, <4>3 DEF Undo
      <4> QED BY <2>7, <3>3, <4>2, <4>4
    <3> QED BY <2>10, <3>6, <3>7 DEF Saving
  <2>11. CASE step.op = "alloc"
    <3>1. g[k + 1] = [rsp |-> x - step.n, rbp |-> y] /\ Takes(step) = step.n /\ x - step.n \in Int
      BY <2>4, <2>6, <2>11 DEF Undo, Takes
    <3>2. (\A i \in 1 .. (j - 1) : P[i].op # "set") => x - step.n = base + D[j - 1]
      <4> SUFFICES ASSUME \A i \in 1 .. (j - 1) : P[i].op # "set" PROVE x - step.n = base + D[j - 1]
        OBVIOUS
      <4>1. x = base + D[j]
        BY <2>8, <2>11
      <4>2. PICK a, b, t : a = D[j] /\ b = D[j - 1] /\ t = step.n
        OBVIOUS
      <4>3. x = base + a /\ a = b + t /\ a \in Nat /\ b \in Nat /\ t \in Nat
        BY <2>6, <3>1, <4>1, <4>2
      <4>4. x - t = base + b
        BY <4>3
      <4> QED BY <4>2, <4>4
    <3>3. y = IF \E i \in j .. d : P[i].op \in Saving THEN found ELSE reg
      BY <2>5, <2>9, <2>11 DEF Saving
    <3> QED BY <2>7, <3>1, <3>2, <3>3
  <2>12. CASE step.op = "set"
    <3>1. g[k + 1] = [rsp |-> y + step.n, rbp |-> y] /\ Takes(step) = 0 /\ y + step.n \in Int
      BY <2>4, <2>6, <2>12 DEF Undo, Takes
    <3>2. y = reg
      <4>1. PICK m \in 1 .. d : m < j /\ P[m].op \in Saving
        BY <1>6, <2>2, <2>3, <2>12
      <4>2. ASSUME NEW i \in (j + 1) .. d, P[i].op \in Saving PROVE FALSE
        <5>1. i \in 1 .. d /\ i > j
          BY <1>2, <2>3
        <5> QED BY <1>6, <2>3, <4>1, <4>2, <5>1
      <4> QED BY <2>5, <4>2
    <3>3. y + step.n = base + D[j - 1]
      <4>1. reg = base + D[j] - step.n
        BY <1>5, <2>2, <2>3, <2>12
      <4>2. PICK a, b, t : a = D[j] /\ b = D[j - 1] /\ t = step.n
        OBVIOUS
      <4>3. reg = base + a - t /\ a = b + 0 /\ a \in Nat /\ b \in Nat /\ t \in Nat
        BY <2>6, <3>1, <4>1, <4>2
      <4>4. reg + t = base + b
        BY <4>3
      <4> QED BY <3>2, <4>2, <4>4
    <3>4. y = IF \E i \in j .. d : P[i].op \in Saving THEN found ELSE reg
      BY <2>5, <2>9, <2>12 DEF Saving
    <3> QED BY <2>7, <3>1, <3>3, <3>4
  <2> QED BY <2>6, <2>10, <2>11, <2>12 DEF Saving
<1>9. Undone(d)
  <2> DEFINE T == {k \in Nat : k <= d => Undone(k)}
  <2>1. 0 \in T
    BY <1>7
  <2>2. ASSUME NEW k \in Nat, k \in T PROVE k + 1 \in T
    <3> HIDE DEF Undone
    <3>1. k + 1 <= d => k <= d
      BY <1>2
    <3> QED BY <1>8, <2>2, <3>1
  <2>3. \A k \in Nat : k \in T
    <3> HIDE DEF T
    <3> QED BY <2>1, <2>2, ByInduction
  <2> HIDE DEF Undone
  <2> QED BY <1>2, <2>3
<1>10. g[d] = [rsp |-> base, rbp |-> found]
  <2>1. PICK x \in Int, y \in Int :
          /\ g[d] = [rsp |-> x, rbp |-> y]
          /\ (\A i \in 1 .. (d - d) : P[i].op # "set") => x = base + D[d - d]
          /\ y = IF \E i \in (d - d + 1) .. d : P[i].op \in Saving THEN found ELSE reg
    BY <1>9
  <2>2. d - d = 0 /\ d - d + 1 = 1 /\ 1 .. 0 = {}
    BY <1>2
  <2>3. x = base
    BY <1>4, <2>1, <2>2
  <2>4. (\A k \in 1 .. d : P[k].op \notin Saving) => reg = found
    <3> SUFFICES ASSUME \A k \in 1 .. d : P[k].op \notin Saving PROVE reg = found
      OBVIOUS
    <3>1. \A k \in 1 .. d : P[k].op # "set"
      BY <1>6
    <3> QED BY <1>5, <1>6, <3>1
  <2>5. y = found
    BY <2>1, <2>2, <2>4
  <2> QED BY <2>1, <2>3, <2>5
<1> QED BY <1>1, <1>3, <1>10 DEF ApplyUnwind

\* The word at an address, and which words a walk may take.
LEMMA ReadIs ==
  ASSUME SyTypes, NEW at
  PROVE  /\ ReadU64(at) \in Words \cup {NoWord}
         /\ Readable(ReadU64(at)) => ReadU64(at) \in Words
         /\ dump.stack # "missing" /\ at \in 1 .. Len(stack) => ReadU64(at) = stack[at]
         /\ NoWord \notin Words /\ ModuleFor(NoWord) = "none"
         /\ \A w \in Words : InCode(w) => Readable(w) /\ w # NoWord
<1>1. stack \in Seq(Words) /\ DOMAIN stack = 1 .. Len(stack) /\ \A k \in 1 .. Len(stack) : stack[k] \in Words
  <2>1. stack \in Seq(Words)
    BY DEF SyTypes
  <2> QED BY <2>1, ElementOfSeq
<1>2. NoWord \notin Words /\ ~InCode(NoWord)
  BY PrologsFit DEF NoWord, Place, Words, InCode
<1>3. ~InCode(Number(0))
  BY WordsAre
<1> QED BY <1>1, <1>2, <1>3 DEF ReadU64, Readable, ModuleFor

\* The active functions, as the true callers list them, and how far the data reaches.
LEMMA ReachIs ==
  ASSUME SyInv
  PROVE  /\ Len(TrueCallers) = Len(calls) - 1 /\ Len(calls) \in Nat /\ Len(calls) > 0
         /\ \A i \in 1 .. (Len(calls) - 1) : TrueCallers[i] = calls[i].back /\ calls[i].back \in Words
         /\ Reach \in 0 .. (Len(calls) - 1) /\ \A i \in 1 .. Reach : Covered(LevelAt(i))
         /\ TrueCallers \in Seq(Words)
<1>1. PICK n : n = Len(calls) - 1
  OBVIOUS
<1>2. n \in Nat /\ Len(calls) \in Nat /\ Len(calls) > 0
  BY <1>1 DEF SyInv, SyTypes
<1>3. TrueCallers = [i \in 1 .. n |-> calls[i].back] /\ \A i \in 1 .. n : calls[i].back \in Words
  <2>1. TrueCallers = [i \in 1 .. n |-> calls[i].back]
    BY <1>1 DEF TrueCallers
  <2>2. calls \in Seq([back : Words, rsp : Nat, rbp : Int])
    BY DEF SyInv, SyTypes
  <2>3. \A i \in 1 .. Len(calls) : calls[i] \in [back : Words, rsp : Nat, rbp : Int]
    BY <2>2, ElementOfSeq
  <2>4. \A i \in 1 .. n : i \in 1 .. Len(calls)
    BY <1>1, <1>2
  <2> QED BY <2>1, <2>3, <2>4
<1>4. Len(TrueCallers) = n /\ TrueCallers \in Seq(Words)
  BY <1>2, <1>3
<1>5. \A i \in 1 .. n : LevelAt(i) = IF i = 1 THEN pc ELSE TrueCallers[i - 1]
  <2>1. \A i \in 1 .. n : i # 1 => i - 1 \in 1 .. n
    BY <1>2
  <2> QED BY <1>3, <2>1 DEF LevelAt
<1>6. \A k \in 0 .. n : k # n => LevelAt(k + 1) = IF k = 0 THEN pc ELSE TrueCallers[k]
  <2>1. \A k \in 0 .. n : k # 0 => k \in 1 .. n /\ k + 1 # 1 /\ (k + 1) - 1 = k
    BY <1>2
  <2> QED BY <1>3, <2>1 DEF LevelAt
<1> DEFINE Reached(k) == /\ \A i \in 1 .. k : Covered(IF i = 1 THEN pc ELSE TrueCallers[i - 1])
                         /\ k = n \/ ~Covered(IF k = 0 THEN pc ELSE TrueCallers[k])
<1>7. \E k \in 0 .. n : Reached(k)
  <2> DEFINE T == {k \in 0 .. n : k = n \/ ~Covered(LevelAt(k + 1))}
  <2>1. T \in SUBSET Nat /\ n \in T
    BY <1>2
  <2>2. PICK m \in T : \A k \in T : m <= k
    <3> HIDE DEF T
    <3> QED BY <2>1, HasLeast
  <2>3. m \in 0 .. n /\ (m = n \/ ~Covered(LevelAt(m + 1)))
    BY <2>2
  <2>4. ASSUME NEW i \in 1 .. m PROVE Covered(LevelAt(i)) /\ i \in 1 .. n
    <3>1. i - 1 \in 0 .. n /\ i \in 1 .. n /\ ~ (m <= i - 1) /\ (i - 1) + 1 = i
      BY <1>2, <2>3
    <3>2. i - 1 \notin T
      BY <2>2, <3>1
    <3> QED BY <3>1, <3>2
  <2>5. Reached(m)
    BY <1>5, <1>6, <2>3, <2>4
  <2> QED BY <2>3, <2>5
<1>8. Reach \in 0 .. n /\ Reached(Reach)
  <2>1. Reach = CHOOSE k \in 0 .. n : Reached(k)
    BY <1>4 DEF Reach
  <2> HIDE DEF Reached
  <2> QED BY <1>7, <2>1
<1>9. \A i \in 1 .. Reach : Covered(LevelAt(i))
  <2>1. \A i \in 1 .. Reach : i \in 1 .. n
    BY <1>2, <1>8
  <2> QED BY <1>5, <1>8, <2>1
<1> QED BY <1>1, <1>2, <1>3, <1>4, <1>8, <1>9

-----------------------------------------------------------------------------
(* The walk from frame to frame.                                           *)

\* The walk, unfolded.
UnwoundBy(g) ==
  /\ g[0] = FromFault /\ \A k \in 1 .. MaxFrames : g[k] = UnwindFrame(g[k - 1])
  /\ X64Unwind = g[MaxFrames].out
LEMMA UnwindUnfolds == \E g : UnwoundBy(g)
<1> DEFINE Walks(g, n) == g = [k \in 0 .. n |-> IF k = 0 THEN FromFault ELSE UnwindFrame(g[k - 1])]
           T == {n \in Nat : \E g : Walks(g, n)}
<1>1. 0 \in T
  <2> DEFINE g == [k \in 0 .. 0 |-> FromFault]
  <2>1. Walks(g, 0)
    OBVIOUS
  <2> QED BY <2>1
<1>2. ASSUME NEW n \in Nat, n \in T PROVE n + 1 \in T
  <2>1. PICK g : Walks(g, n)
    BY <1>2
  <2> DEFINE h == [k \in 0 .. (n + 1) |-> IF k = n + 1 THEN UnwindFrame(g[n]) ELSE g[k]]
  <2>2. ASSUME NEW k \in 0 .. (n + 1) PROVE h[k] = IF k = 0 THEN FromFault ELSE UnwindFrame(h[k - 1])
    BY <2>1
  <2>3. Walks(h, n + 1)
    BY <2>2
  <2> HIDE DEF h, Walks
  <2> QED BY <2>3
<1>3. \E g : Walks(g, MaxFrames)
  <2> HIDE DEF Walks
  <2>1. \A n \in Nat : n \in T
    <3> HIDE DEF T
    <3> QED BY <1>1, <1>2, ByInduction
  <2> QED BY <2>1, FramesAreTaken
<1>4. PICK g : Walks(g, MaxFrames) /\ X64Unwind = g[MaxFrames].out
  BY <1>3 DEF X64Unwind
<1>5. UnwoundBy(g)
  BY <1>4, FramesAreTaken DEF UnwoundBy
<1> QED BY <1>5

\* The walk has come to the function k calls out, with the registers it had.
CameTo(was, k) ==
  /\ was.at = LevelAt(k + 1) /\ was.regs = [rsp |-> LevelRsp(k + 1), rbp |-> LevelRbp(k + 1)]
  /\ was.out \in Seq(Words) /\ Len(was.out) = k /\ \A i \in 1 .. k : was.out[i] = TrueCallers[i]

LEMMA UnwindGoesOn ==
  ASSUME SyInv, FramesStand, dump.stack # "missing", NEW k \in Nat, k < Reach, NEW was, CameTo(was, k)
  PROVE  CameTo(UnwindFrame(was), k + 1)
<1>1. PICK i, C, w : i = k + 1 /\ C = Len(calls) /\ w = LevelAt(i)
  OBVIOUS
<1>2. /\ C \in Nat /\ i \in 1 .. (C - 1) /\ i \in 1 .. C /\ i + 1 \in 1 .. C /\ i + 1 # 1 /\ (i + 1) - 1 = i /\ i = k + 1 /\ i \in Nat
      /\ TrueCallers[i] = calls[i].back /\ calls[i].back \in Words /\ Covered(w)
  <2>1. C \in Nat /\ Reach \in 0 .. (C - 1) /\ i = k + 1
    BY <1>1, ReachIs
  <2>2. i \in 1 .. (C - 1) /\ i \in 1 .. C /\ i + 1 \in 1 .. C /\ i + 1 # 1 /\ (i + 1) - 1 = i /\ i \in 1 .. Reach /\ i \in Nat
    BY <2>1
  <2> QED BY <1>1, <2>1, <2>2, ReachIs
<1>3. PICK base, found : base = calls[i].rsp /\ found = calls[i].rbp
  OBVIOUS
<1>4. /\ w \in Words /\ LevelRsp(i) \in Nat /\ LevelRbp(i) \in Int /\ base \in Nat /\ base > 0 /\ found \in Int
      /\ LevelRsp(i) <= Len(stack) /\ Len(stack) \in Nat /\ base <= LevelRsp(i) /\ (i > 1 => InCode(w)) /\ SyTypes
  BY <1>1, <1>2, <1>3, LevelsAre DEF SyInv
<1>5. base \in 1 .. Len(stack) /\ stack[base] = calls[i].back /\ InCode(calls[i].back)
  BY <1>1, <1>2, <1>3 DEF SyInv, CallsStand, Returned
<1>6. was.at = w /\ was.regs = [rsp |-> LevelRsp(i), rbp |-> LevelRbp(i)]
  BY <1>1 DEF CameTo
<1>7. (IF ModuleFor(was.at) # "none" THEN ApplyUnwind(was.at, was.regs) ELSE was.regs) = [rsp |-> base, rbp |-> found]
  <2>1. CASE w = Garbage
    <3>1. ~InCode(w)
      BY <2>1, WordsAre
    <3>2. i = 1
      BY <1>2, <1>4, <3>1
    <3>3. LevelRsp(i) = base /\ LevelRbp(i) = found
      <4>1. w = pc /\ LevelRsp(i) = Len(stack) /\ LevelRbp(i) = rbp
        BY <1>1, <3>2, LevelOne
      <4> QED BY <1>3, <3>1, <3>2, <4>1 DEF FramesStand
    <3>4. ModuleFor(w) = "none"
      BY <3>1 DEF ModuleFor
    <3> QED BY <1>6, <3>3, <3>4
  <2>2. CASE w # Garbage
    <3>1. ModuleFor(w) # "none" /\ InCode(w)
      BY <1>2, <2>2 DEF Covered, ModuleFor
    <3>2. PICK rsp, reg : rsp = LevelRsp(i) /\ reg = LevelRbp(i)
      OBVIOUS
    <3>3. FrameStands(w, base, found, rsp, reg, stack)
      BY <1>1, <1>2, <1>3, <3>1, <3>2 DEF FramesStand
    <3>4. rsp \in Nat /\ rsp <= Len(stack) /\ reg \in Int
      BY <1>4, <3>2
    <3>5. ApplyUnwind(w, [rsp |-> rsp, rbp |-> reg]) = [rsp |-> base, rbp |-> found]
      BY <1>4, <3>1, <3>3, <3>4, UnwindsFrame
    <3> QED BY <1>6, <3>1, <3>2, <3>5
  <2> QED BY <2>1, <2>2
<1>8. PICK back : back = calls[i].back
  OBVIOUS
<1>9. ReadU64(base) = back /\ Readable(back) /\ w # NoWord /\ back \in Words
  <2>1. ReadU64(base) = stack[base]
    BY <1>4, <1>5, ReadIs
  <2>2. Readable(back)
    BY <1>2, <1>4, <1>5, <1>8, ReadIs
  <2>3. w # NoWord
    BY <1>4, ReadIs
  <2> QED BY <1>2, <1>5, <1>8, <2>1, <2>2, <2>3
<1>10. ~(ModuleFor(was.at) # "none" /\ ~HasUnwindData(was.at))
  <2>1. ModuleFor(Garbage) = "none"
    BY WordsAre DEF ModuleFor
  <2> QED BY <1>2, <1>6, <2>1 DEF Covered
<1>11. UnwindFrame(was) = [at |-> back, regs |-> [rsp |-> base - 1, rbp |-> found], out |-> Append(was.out, back)]
  <2>1. PICK regs : regs = [rsp |-> base, rbp |-> found]
    OBVIOUS
  <2>2. regs.rsp = base /\ [regs EXCEPT !.rsp = @ - 1] = [rsp |-> base - 1, rbp |-> found]
    BY <2>1
  <2>3. (IF ModuleFor(was.at) # "none" THEN ApplyUnwind(was.at, was.regs) ELSE was.regs) = regs
    BY <1>7, <2>1
  <2>4. was.at # NoWord
    BY <1>6, <1>9
  <2> QED BY <1>9, <1>10, <2>2, <2>3, <2>4 DEF UnwindFrame
<1>12. LevelAt(i + 1) = back /\ LevelRsp(i + 1) = base - 1 /\ LevelRbp(i + 1) = found
  BY <1>2, <1>3, <1>8 DEF LevelAt, LevelRsp, LevelRbp
<1>13. PICK out, out2 : out = was.out /\ out2 = Append(out, back)
  OBVIOUS
<1>14. out2 \in Seq(Words) /\ Len(out2) = i /\ \A m \in 1 .. i : out2[m] = TrueCallers[m]
  <2>1. out \in Seq(Words) /\ Len(out) = k /\ \A m \in 1 .. k : out[m] = TrueCallers[m]
    BY <1>13 DEF CameTo
  <2>2. out2 \in Seq(Words) /\ Len(out2) = k + 1 /\ (\A m \in 1 .. k : out2[m] = out[m]) /\ out2[k + 1] = back
    BY <1>9, <1>13, <2>1
  <2>3. \A m \in 1 .. i : m = k + 1 \/ m \in 1 .. k
    BY <1>2
  <2> QED BY <1>2, <1>8, <2>1, <2>2, <2>3
<1> QED BY <1>1, <1>11, <1>12, <1>13, <1>14 DEF CameTo

\* Whatever the walk meets, it takes nothing back.
LEMMA UnwindKeeps ==
  ASSUME SyTypes, NEW was, was.out \in Seq(Words)
  PROVE  LET now == UnwindFrame(was) IN
         /\ now.out \in Seq(Words) /\ Len(was.out) <= Len(now.out) /\ \A i \in 1 .. Len(was.out) : now.out[i] = was.out[i]
<1>1. PICK at : UnwindFrame(was) = [was EXCEPT !.at = NoWord] \/ (Readable(ReadU64(at)) /\ UnwindFrame(was).out = Append(was.out, ReadU64(at)))
  <2>1. PICK regs : regs = IF ModuleFor(was.at) # "none" THEN ApplyUnwind(was.at, was.regs) ELSE was.regs
    OBVIOUS
  <2>2. PICK back : back = ReadU64(regs.rsp)
    OBVIOUS
  <2>3. UnwindFrame(was) = IF was.at = NoWord \/ (ModuleFor(was.at) # "none" /\ ~HasUnwindData(was.at)) \/ ~Readable(back)
          THEN [was EXCEPT !.at = NoWord]
          ELSE [at |-> back, regs |-> [regs EXCEPT !.rsp = @ - 1], out |-> Append(was.out, back)]
    BY <2>1, <2>2 DEF UnwindFrame
  <2>4. UnwindFrame(was) = [was EXCEPT !.at = NoWord] \/ (Readable(back) /\ UnwindFrame(was).out = Append(was.out, back))
    BY <2>3
  <2> QED BY <2>2, <2>4
<1>2. CASE UnwindFrame(was) = [was EXCEPT !.at = NoWord]
  <2>1. UnwindFrame(was).out = was.out
    BY <1>2
  <2> QED BY <2>1
<1>3. CASE Readable(ReadU64(at)) /\ UnwindFrame(was).out = Append(was.out, ReadU64(at))
  <2>1. PICK back, out : back = ReadU64(at) /\ out = was.out
    OBVIOUS
  <2>2. back \in Words /\ out \in Seq(Words)
    BY <1>3, <2>1, ReadIs
  <2>3. Append(out, back) \in Seq(Words) /\ Len(out) <= Len(Append(out, back)) /\ \A i \in 1 .. Len(out) : Append(out, back)[i] = out[i]
    BY <2>2
  <2> QED BY <1>3, <2>1, <2>3
<1> QED BY <1>1, <1>2, <1>3

\* The walk starts at the fault with the callers it is to find ahead of it.
LEMMA UnwindStarts ==
  ASSUME SyInv, dump.exc = "full"
  PROVE  CameTo(FromFault, 0)
<1>1. FromFault = [at |-> pc, regs |-> [rsp |-> Len(stack), rbp |-> rbp], out |-> <<>>]
  BY DEF FromFault, FaultRegs, AtFault, Address
<1>2. LevelAt(0 + 1) = pc /\ LevelRsp(0 + 1) = Len(stack) /\ LevelRbp(0 + 1) = rbp
  BY DEF LevelAt, LevelRsp, LevelRbp
<1>3. FromFault.at = pc /\ FromFault.regs = [rsp |-> Len(stack), rbp |-> rbp] /\ FromFault.out = <<>>
  BY <1>1
<1>4. <<>> \in Seq(Words) /\ Len(<<>>) = 0
  OBVIOUS
<1> QED BY <1>2, <1>3, <1>4 DEF CameTo

LEMMA UnwindTold ==
  ASSUME SyInv, FramesStand
  PROVE  UnwindTellsCallers
<1> SUFFICES ASSUME dump.exc = "full", dump.stack # "missing"
             PROVE  LET k == Min({Reach, MaxFrames}) IN
                    Len(X64Unwind) >= k /\ SubSeq(X64Unwind, 1, k) = SubSeq(TrueCallers, 1, k)
  BY DEF UnwindTellsCallers
<1>1. PICK g : UnwoundBy(g)
  BY UnwindUnfolds
<1>2. g[0] = FromFault /\ (\A k \in 1 .. MaxFrames : g[k] = UnwindFrame(g[k - 1])) /\ X64Unwind = g[MaxFrames].out
  BY <1>1 DEF UnwoundBy
<1>3. PICK K : K = Min({Reach, MaxFrames})
  OBVIOUS
<1>4. /\ K \in Nat /\ K <= Reach /\ K <= MaxFrames /\ MaxFrames \in Nat /\ Reach \in Nat
      /\ TrueCallers \in Seq(Words) /\ Reach <= Len(TrueCallers) /\ Len(TrueCallers) \in Nat /\ SyTypes
  <2>1. Reach \in Nat /\ TrueCallers \in Seq(Words) /\ Reach <= Len(TrueCallers) /\ Len(TrueCallers) \in Nat
    BY ReachIs
  <2>2. MaxFrames \in Nat
    BY FramesAreTaken
  <2> QED BY <1>3, <2>1, <2>2, LesserIs DEF SyInv
<1>5. CameTo(g[K], K)
  <2> DEFINE T == {k \in Nat : k <= K => CameTo(g[k], k)}
  <2>1. 0 \in T
    BY <1>2, UnwindStarts
  <2>2. ASSUME NEW k \in Nat, k \in T PROVE k + 1 \in T
    <3> SUFFICES ASSUME k + 1 <= K PROVE CameTo(g[k + 1], k + 1)
      OBVIOUS
    <3>1. k <= K /\ k < Reach /\ k + 1 \in 1 .. MaxFrames /\ (k + 1) - 1 = k
      BY <1>4
    <3>2. CameTo(g[k], k)
      BY <2>2, <3>1
    <3>3. g[k + 1] = UnwindFrame(g[k])
      BY <1>2, <3>1
    <3>4. CameTo(UnwindFrame(g[k]), k + 1)
      <4>1. PICK was : was = g[k]
        OBVIOUS
      <4>2. CameTo(UnwindFrame(was), k + 1)
        BY <3>1, <3>2, <4>1, UnwindGoesOn
      <4> QED BY <4>1, <4>2
    <3> QED BY <3>3, <3>4
  <2>3. \A k \in Nat : k \in T
    <3> HIDE DEF T
    <3> QED BY <2>1, <2>2, ByInduction
  <2> QED BY <1>4, <2>3
<1> DEFINE Told(out) == out \in Seq(Words) /\ K <= Len(out) /\ \A i \in 1 .. K : out[i] = TrueCallers[i]
<1>6. Told(X64Unwind)
  <2> DEFINE T == {m \in Nat : K + m <= MaxFrames => Told(g[K + m].out)}
  <2>1. 0 \in T
    <3>1. Told(g[K].out)
      BY <1>4, <1>5 DEF CameTo
    <3>2. K + 0 = K
      BY <1>4
    <3> QED BY <3>1, <3>2
  <2>2. ASSUME NEW m \in Nat, m \in T PROVE m + 1 \in T
    <3> SUFFICES ASSUME K + (m + 1) <= MaxFrames PROVE Told(g[K + (m + 1)].out)
      OBVIOUS
    <3>1. K + m <= MaxFrames /\ K + (m + 1) \in 1 .. MaxFrames /\ (K + (m + 1)) - 1 = K + m
      BY <1>4
    <3>2. PICK was, out, now : was = g[K + m] /\ out = was.out /\ now = UnwindFrame(was)
      OBVIOUS
    <3>3. Told(out)
      BY <2>2, <3>1, <3>2
    <3>4. now.out \in Seq(Words) /\ Len(out) <= Len(now.out) /\ \A i \in 1 .. Len(out) : now.out[i] = out[i]
      BY <1>4, <3>2, <3>3, UnwindKeeps
    <3>5. g[K + (m + 1)] = now
      BY <1>2, <3>1, <3>2
    <3>6. Told(now.out)
      <4>1. PICK l, l2 : l = Len(out) /\ l2 = Len(now.out)
        OBVIOUS
      <4>2. l \in Nat /\ l2 \in Nat /\ l <= l2 /\ K <= l
        BY <3>3, <3>4, <4>1
      <4>3. K <= l2 /\ \A i \in 1 .. K : i \in 1 .. l
        BY <1>4, <4>2
      <4> QED BY <3>3, <3>4, <4>1, <4>3
    <3> QED BY <3>5, <3>6
  <2>3. \A m \in Nat : m \in T
    <3> HIDE DEF T
    <3> QED BY <2>1, <2>2, ByInduction
  <2>4. MaxFrames - K \in Nat /\ K + (MaxFrames - K) = MaxFrames
    BY <1>4
  <2>5. MaxFrames - K \in T
    BY <2>3, <2>4
  <2>6. Told(g[K + (MaxFrames - K)].out)
    BY <1>4, <2>4, <2>5
  <2> HIDE DEF Told
  <2> QED BY <1>2, <2>4, <2>6
<1>7. Len(X64Unwind) >= K /\ SubSeq(X64Unwind, 1, K) = SubSeq(TrueCallers, 1, K)
  <2>1. PICK out : out = X64Unwind
    OBVIOUS
  <2>2. out \in Seq(Words) /\ K \in 0 .. Len(out) /\ Len(out) \in Nat /\ K \in 0 .. Len(TrueCallers) /\ \A i \in 1 .. K : out[i] = TrueCallers[i]
    BY <1>4, <1>6, <2>1
  <2>3. /\ Len(SubSeq(out, 1, K)) = K /\ SubSeq(out, 1, K) \in Seq(Words) /\ \A k \in 1 .. K : SubSeq(out, 1, K)[k] = out[k]
        /\ Len(SubSeq(TrueCallers, 1, K)) = K /\ SubSeq(TrueCallers, 1, K) \in Seq(Words)
        /\ \A k \in 1 .. K : SubSeq(TrueCallers, 1, K)[k] = TrueCallers[k]
    BY <1>4, <2>2, HeadIs
  <2>4. SubSeq(out, 1, K) = SubSeq(TrueCallers, 1, K)
    <3>1. PICK q, r : q = SubSeq(out, 1, K) /\ r = SubSeq(TrueCallers, 1, K)
      OBVIOUS
    <3>2. q \in Seq(Words) /\ r \in Seq(Words) /\ Len(q) = Len(r) /\ \A k \in 1 .. Len(q) : q[k] = r[k]
      BY <2>2, <2>3, <3>1
    <3>3. q = r
      BY <3>2, SeqEqual
    <3> QED BY <3>1, <3>3
  <2> QED BY <1>4, <2>1, <2>2, <2>4
<1> QED BY <1>3, <1>7

-----------------------------------------------------------------------------
(* The list of the report.                                                 *)

\* What the walks may name.
Named == Words \cup {NoWord, Dispatcher.pc}
RbpWalkedBy(g) ==
  /\ g[0] = [cur |-> FaultRegs.rbp, out |-> <<>>] /\ \A k \in 1 .. MaxFrames : g[k] = FollowRbp(g[k - 1])
  /\ RbpWalk = g[MaxFrames].out
LEMMA RbpUnfolds == \E g : RbpWalkedBy(g)
<1> DEFINE first == [cur |-> FaultRegs.rbp, out |-> <<>>]
           Walks(g, n) == g = [k \in 0 .. n |-> IF k = 0 THEN first ELSE FollowRbp(g[k - 1])]
           T == {n \in Nat : \E g : Walks(g, n)}
<1>1. 0 \in T
  <2> DEFINE g == [k \in 0 .. 0 |-> first]
  <2>1. Walks(g, 0)
    OBVIOUS
  <2> QED BY <2>1
<1>2. ASSUME NEW n \in Nat, n \in T PROVE n + 1 \in T
  <2>1. PICK g : Walks(g, n)
    BY <1>2
  <2> DEFINE h == [k \in 0 .. (n + 1) |-> IF k = n + 1 THEN FollowRbp(g[n]) ELSE g[k]]
  <2>2. ASSUME NEW k \in 0 .. (n + 1) PROVE h[k] = IF k = 0 THEN first ELSE FollowRbp(h[k - 1])
    BY <2>1
  <2>3. Walks(h, n + 1)
    BY <2>2
  <2> HIDE DEF h, Walks
  <2> QED BY <2>3
<1>3. \E g : Walks(g, MaxFrames)
  <2> HIDE DEF Walks
  <2>1. \A n \in Nat : n \in T
    <3> HIDE DEF T
    <3> QED BY <1>1, <1>2, ByInduction
  <2> QED BY <2>1, FramesAreTaken
<1>4. PICK g : Walks(g, MaxFrames) /\ RbpWalk = g[MaxFrames].out
  BY <1>3 DEF RbpWalk
<1>5. RbpWalkedBy(g)
  BY <1>4, FramesAreTaken DEF RbpWalkedBy
<1> QED BY <1>5

LEMMA WalksName ==
  ASSUME SyInv
  PROVE  X64Unwind \in Seq(Named) /\ RbpWalk \in Seq(Named)
<1>1. SyTypes /\ MaxFrames \in Nat
  BY FramesAreTaken DEF SyInv
<1>2. \A at : ReadU64(at) \in Named
  BY <1>1, ReadIs DEF Named
<1>3. X64Unwind \in Seq(Named)
  <2>1. PICK g : UnwoundBy(g)
    BY UnwindUnfolds
  <2>2. g[0] = FromFault /\ (\A k \in 1 .. MaxFrames : g[k] = UnwindFrame(g[k - 1])) /\ X64Unwind = g[MaxFrames].out
    BY <2>1 DEF UnwoundBy
  <2> DEFINE T == {m \in Nat : m <= MaxFrames => g[m].out \in Seq(Words)}
  <2>3. 0 \in T
    <3>1. FromFault.out = <<>>
      BY DEF FromFault
    <3>2. g[0].out = <<>> /\ <<>> \in Seq(Words)
      BY <2>2, <3>1
    <3> QED BY <3>2
  <2>4. ASSUME NEW m \in Nat, m \in T PROVE m + 1 \in T
    <3> SUFFICES ASSUME m + 1 <= MaxFrames PROVE g[m + 1].out \in Seq(Words)
      OBVIOUS
    <3>1. m <= MaxFrames /\ m + 1 \in 1 .. MaxFrames /\ (m + 1) - 1 = m
      BY <1>1
    <3>2. PICK was : was = g[m]
      OBVIOUS
    <3>3. was.out \in Seq(Words)
      BY <2>4, <3>1, <3>2
    <3>4. UnwindFrame(was).out \in Seq(Words)
      BY <1>1, <3>3, UnwindKeeps
    <3> QED BY <2>2, <3>1, <3>2, <3>4
  <2>5. \A m \in Nat : m \in T
    <3> HIDE DEF T
    <3> QED BY <2>3, <2>4, ByInduction
  <2>6. X64Unwind \in Seq(Words)
    BY <1>1, <2>2, <2>5
  <2> QED BY <2>6 DEF Named
<1>4. RbpWalk \in Seq(Named)
  <2>1. PICK g : RbpWalkedBy(g)
    BY RbpUnfolds
  <2>2. g[0].out = <<>> /\ (\A k \in 1 .. MaxFrames : g[k] = FollowRbp(g[k - 1])) /\ RbpWalk = g[MaxFrames].out
    BY <2>1 DEF RbpWalkedBy
  <2> DEFINE T == {m \in Nat : m <= MaxFrames => g[m].out \in Seq(Named)}
  <2>3. 0 \in T
    <3>1. g[0].out = <<>> /\ <<>> \in Seq(Named)
      BY <2>2
    <3> QED BY <3>1
  <2>4. ASSUME NEW m \in Nat, m \in T PROVE m + 1 \in T
    <3> SUFFICES ASSUME m + 1 <= MaxFrames PROVE g[m + 1].out \in Seq(Named)
      OBVIOUS
    <3>1. m <= MaxFrames /\ m + 1 \in 1 .. MaxFrames /\ (m + 1) - 1 = m
      BY <1>1
    <3>2. PICK was, word : was = g[m] /\ word = ReadU64(was.cur - 1)
      OBVIOUS
    <3>3. was.out \in Seq(Named) /\ word \in Named
      BY <1>2, <2>4, <3>1, <3>2
    <3>4. FollowRbp(was).out = was.out \/ FollowRbp(was).out = Append(was.out, word)
      BY <3>2 DEF FollowRbp
    <3>5. FollowRbp(was).out \in Seq(Named)
      <4>1. Append(was.out, word) \in Seq(Named)
        BY <3>3
      <4> QED BY <3>3, <3>4, <4>1
    <3> QED BY <2>2, <3>1, <3>2, <3>5
  <2>5. \A m \in Nat : m \in T
    <3> HIDE DEF T
    <3> QED BY <2>3, <2>4, ByInduction
  <2> QED BY <1>1, <2>2, <2>5
<1> QED BY <1>3, <1>4

\* Adding one frame after the other.
AddedBy(g, s, n) ==
  /\ g[0] = <<>> /\ \A k \in 1 .. n : g[k] = AddFrame(g[k - 1], s[k])
  /\ Once(s) = g[n]
LEMMA OnceUnfolds ==
  ASSUME NEW n \in Nat, NEW s, DOMAIN s = 1 .. n
  PROVE  \E g : AddedBy(g, s, n)
<1> DEFINE Added(g, m) == g = [S \in SUBSET (1 .. m) |-> IF S = {} THEN <<>> ELSE AddFrame(g[S \ {Max(S)}], s[Max(S)])]
           T == {m \in Nat : \E g : Added(g, m)}
<1>1. 0 \in T
  <2> DEFINE g == [S \in SUBSET (1 .. 0) |-> <<>>]
  <2>1. Added(g, 0)
    OBVIOUS
  <2> QED BY <2>1
<1>2. ASSUME NEW m \in Nat, m \in T PROVE m + 1 \in T
  <2>1. PICK g : Added(g, m)
    BY <1>2
  <2> DEFINE h == [S \in SUBSET (1 .. (m + 1)) |-> IF m + 1 \in S THEN AddFrame(g[S \ {m + 1}], s[m + 1]) ELSE g[S]]
  <2>2. ASSUME NEW S \in SUBSET (1 .. (m + 1))
        PROVE  h[S] = IF S = {} THEN <<>> ELSE AddFrame(h[S \ {Max(S)}], s[Max(S)])
    <3>1. CASE m + 1 \in S
      <4>1. Max(S) = m + 1 /\ S \ {m + 1} \in SUBSET (1 .. m) /\ S # {}
        BY <3>1, LastTaken
      <4>2. h[S \ {m + 1}] = g[S \ {m + 1}]
        OBVIOUS
      <4> QED BY <3>1, <4>1, <4>2
    <3>2. CASE m + 1 \notin S
      <4>1. S \in SUBSET (1 .. m) /\ (S # {} => Max(S) \in S)
        BY <3>2, LastTaken
      <4>2. h[S] = g[S] /\ h[S \ {Max(S)}] = g[S \ {Max(S)}]
        BY <3>2
      <4>3. g[S] = IF S = {} THEN <<>> ELSE AddFrame(g[S \ {Max(S)}], s[Max(S)])
        BY <2>1, <4>1
      <4> QED BY <4>2, <4>3
    <3> QED BY <3>1, <3>2
  <2>3. Added(h, m + 1)
    BY <2>2
  <2> HIDE DEF h, Added
  <2> QED BY <2>3
<1>3. \E g : Added(g, n)
  <2> HIDE DEF Added
  <2>1. \A m \in Nat : m \in T
    <3> HIDE DEF T
    <3> QED BY <1>1, <1>2, ByInduction
  <2> QED BY <2>1
<1>4. PICK g : Added(g, n) /\ Once(s) = g[1 .. n]
  BY <1>3 DEF Once, FoldLeft, MapThenFoldSet
<1> DEFINE r == [k \in 0 .. n |-> g[1 .. k]]
<1>5. r[0] = <<>>
  <2>1. 1 .. 0 = {}
    OBVIOUS
  <2> QED BY <1>4, <2>1
<1>6. ASSUME NEW k \in 1 .. n PROVE r[k] = AddFrame(r[k - 1], s[k])
  <2>1. 1 .. k \in SUBSET (1 .. n) /\ k \in 1 .. k /\ k - 1 \in 0 .. n /\ k \in 0 .. n /\ k \in Nat /\ k > 0
    OBVIOUS
  <2>2. (1 .. k) \ {k} = 1 .. (k - 1) /\ Max(1 .. k) = k
    BY <2>1, AllButLast
  <2>3. g[1 .. k] = AddFrame(g[(1 .. k) \ {k}], s[k])
    <3>1. 1 .. k # {}
      BY <2>1
    <3> QED BY <1>4, <2>1, <2>2, <3>1
  <2>4. r[k] = g[1 .. k] /\ r[k - 1] = g[1 .. (k - 1)]
    BY <2>1
  <2> HIDE DEF r
  <2> QED BY <2>2, <2>3, <2>4
<1>7. Once(s) = r[n]
  <2>1. n \in 0 .. n
    OBVIOUS
  <2>2. r[n] = g[1 .. n]
    BY <2>1
  <2> QED BY <1>4, <2>2
<1> HIDE DEF r
<1>8. AddedBy(r, s, n)
  BY <1>5, <1>6, <1>7 DEF AddedBy
<1> QED BY <1>8

Starts(s, t) == Len(s) <= Len(t) /\ \A i \in 1 .. Len(s) : t[i] = s[i]

LEMMA FrameAdded ==
  ASSUME NEW seen \in Seq(Named), NEW w \in Named, Distinct(seen)
  PROVE  LET now == AddFrame(seen, w) IN
         /\ now \in Seq(Named) /\ Distinct(now) /\ Starts(seen, now) /\ Len(now) <= Len(seen) + 1
         /\ ModuleFor(w) # "none" => \E i \in 1 .. Len(now) : now[i] = w
<1>1. Len(seen) \in Nat /\ DOMAIN seen = 1 .. Len(seen)
  OBVIOUS
<1>2. CASE ModuleFor(w) = "none" \/ w \in Range(seen)
  <2>1. AddFrame(seen, w) = seen
    BY <1>2 DEF AddFrame
  <2>2. w \in Range(seen) => \E i \in 1 .. Len(seen) : seen[i] = w
    BY <1>1 DEF Range
  <2>3. Starts(seen, seen) /\ Len(seen) <= Len(seen) + 1
    BY <1>1 DEF Starts
  <2> QED BY <1>2, <2>1, <2>2, <2>3
<1>3. CASE ~(ModuleFor(w) = "none" \/ w \in Range(seen))
  <2>1. PICK now, n : now = Append(seen, w) /\ n = Len(seen)
    OBVIOUS
  <2>2. AddFrame(seen, w) = now
    BY <1>3, <2>1 DEF AddFrame
  <2>3. now \in Seq(Named) /\ Len(now) = n + 1 /\ n \in Nat /\ (\A i \in 1 .. n : now[i] = seen[i]) /\ now[n + 1] = w
    BY <2>1
  <2>4. \A i \in 1 .. n : seen[i] # w
    BY <1>1, <1>3, <2>1 DEF Range
  <2>5. Distinct(now)
    <3> SUFFICES ASSUME NEW i \in 1 .. (n + 1), NEW j \in 1 .. (n + 1), now[i] = now[j] PROVE i = j
      BY <2>3 DEF Distinct
    <3>1. (i \in 1 .. n \/ i = n + 1) /\ (j \in 1 .. n \/ j = n + 1)
      BY <2>3
    <3>2. CASE i \in 1 .. n /\ j \in 1 .. n
      BY <2>1, <2>3, <3>2 DEF Distinct
    <3>3. CASE i = n + 1 \/ j = n + 1
      BY <2>3, <2>4, <3>1, <3>3
    <3> QED BY <3>1, <3>2, <3>3
  <2>6. Starts(seen, now) /\ Len(now) <= Len(seen) + 1
    BY <2>1, <2>3 DEF Starts
  <2>7. n + 1 \in 1 .. Len(now)
    BY <2>3
  <2> QED BY <2>2, <2>3, <2>5, <2>6, <2>7
<1> QED BY <1>2, <1>3

\* A list of frames as it grows.
LEMMA FramesGrow ==
  ASSUME NEW n \in Nat, NEW s, \A k \in 1 .. n : s[k] \in Named, NEW g, AddedBy(g, s, n)
  PROVE  /\ \A k \in 0 .. n : g[k] \in Seq(Named) /\ Distinct(g[k])
         /\ \A k \in 1 .. n : /\ Len(g[k]) <= Len(g[k - 1]) + 1
                              /\ ModuleFor(s[k]) # "none" => \E i \in 1 .. Len(g[k]) : g[k][i] = s[k]
         /\ \A m \in 0 .. n : \A k \in m .. n : Starts(g[m], g[k])
<1>1. g[0] = <<>> /\ \A k \in 1 .. n : g[k] = AddFrame(g[k - 1], s[k])
  BY DEF AddedBy
<1> DEFINE Listed(k) == g[k] \in Seq(Named) /\ Distinct(g[k])
<1>2. ASSUME NEW k \in 1 .. n, Listed(k - 1)
      PROVE  /\ Listed(k) /\ Starts(g[k - 1], g[k]) /\ Len(g[k]) <= Len(g[k - 1]) + 1
             /\ ModuleFor(s[k]) # "none" => \E i \in 1 .. Len(g[k]) : g[k][i] = s[k]
  <2>1. PICK seen, w : seen = g[k - 1] /\ w = s[k]
    OBVIOUS
  <2>2. g[k] = AddFrame(seen, w) /\ seen \in Seq(Named) /\ Distinct(seen) /\ w \in Named
    BY <1>1, <1>2, <2>1
  <2>3. PICK now : now = g[k]
    OBVIOUS
  <2>4. /\ now \in Seq(Named) /\ Distinct(now) /\ Starts(seen, now) /\ Len(now) <= Len(seen) + 1
        /\ ModuleFor(w) # "none" => \E i \in 1 .. Len(now) : now[i] = w
    <3>1. now = AddFrame(seen, w)
      BY <2>2, <2>3
    <3> QED BY <2>2, <3>1, FrameAdded
  <2> QED BY <2>1, <2>3, <2>4
<1>3. \A k \in 0 .. n : Listed(k)
  <2> DEFINE T == {k \in Nat : k <= n => Listed(k)}
  <2>1. 0 \in T
    <3>1. <<>> \in Seq(Named) /\ Len(<<>>) = 0
      OBVIOUS
    <3>2. Distinct(<<>>)
      BY <3>1 DEF Distinct
    <3> QED BY <1>1, <3>1, <3>2
  <2>2. ASSUME NEW k \in Nat, k \in T PROVE k + 1 \in T
    <3> SUFFICES ASSUME k + 1 <= n PROVE Listed(k + 1)
      OBVIOUS
    <3>1. k <= n /\ k + 1 \in 1 .. n /\ (k + 1) - 1 = k
      OBVIOUS
    <3>2. Listed((k + 1) - 1)
      BY <2>2, <3>1
    <3> HIDE DEF Listed
    <3> QED BY <1>2, <3>1, <3>2
  <2>3. \A k \in Nat : k \in T
    <3> HIDE DEF T
    <3> QED BY <2>1, <2>2, ByInduction
  <2> HIDE DEF Listed
  <2> QED BY <2>3
<1>4. ASSUME NEW k \in 1 .. n PROVE Listed(k - 1)
  <2> HIDE DEF Listed
  <2>1. k - 1 \in 0 .. n
    OBVIOUS
  <2> QED BY <1>3, <2>1
<1>5. ASSUME NEW m \in 0 .. n, NEW k \in m .. n PROVE Starts(g[m], g[k])
  <2> DEFINE T == {l \in Nat : m + l <= n => Starts(g[m], g[m + l])}
  <2>1. 0 \in T
    <3>1. g[m] \in Seq(Named) /\ m + 0 = m
      BY <1>3
    <3>2. Starts(g[m], g[m])
      BY <3>1 DEF Starts
    <3> QED BY <3>1, <3>2
  <2>2. ASSUME NEW l \in Nat, l \in T PROVE l + 1 \in T
    <3> SUFFICES ASSUME m + (l + 1) <= n PROVE Starts(g[m], g[m + (l + 1)])
      OBVIOUS
    <3>1. m + l <= n /\ m + (l + 1) \in 1 .. n /\ (m + (l + 1)) - 1 = m + l /\ m + l \in 0 .. n /\ m + (l + 1) \in 0 .. n
      OBVIOUS
    <3>2. PICK a, b, c : a = g[m] /\ b = g[m + l] /\ c = g[m + (l + 1)]
      OBVIOUS
    <3>3. Starts(a, b) /\ Starts(b, c)
      BY <1>2, <1>4, <2>2, <3>1, <3>2
    <3>4. a \in Seq(Named) /\ b \in Seq(Named) /\ c \in Seq(Named)
      BY <1>3, <3>1, <3>2
    <3>5. Starts(a, c)
      <4>1. Len(a) \in Nat /\ Len(b) \in Nat /\ Len(c) \in Nat
        BY <3>4
      <4> QED BY <3>3, <4>1 DEF Starts
    <3> QED BY <3>2, <3>5
  <2>3. \A l \in Nat : l \in T
    <3> HIDE DEF T
    <3> QED BY <2>1, <2>2, ByInduction
  <2>4. k - m \in Nat /\ m + (k - m) = k /\ m + (k - m) <= n
    OBVIOUS
  <2>5. k - m \in T
    BY <2>3, <2>4
  <2> QED BY <2>4, <2>5
<1> QED BY <1>2, <1>3, <1>4, <1>5

\* The fault's own address and the two contexts come first.
Firsts == <<Address, ExcContext.pc, ThreadContext.pc>>
LEMMA FirstsAre ==
  ASSUME SyInv
  PROVE  /\ Firsts \in Seq(Named) /\ Len(Firsts) = 3
         /\ Firsts[1] = Address /\ Firsts[2] = ExcContext.pc /\ Firsts[3] = ThreadContext.pc
         /\ \A k \in 1 .. 3 : Firsts[k] = pc \/ ModuleFor(Firsts[k]) = "none"
<1>1. pc \in Words /\ ModuleFor(NoWord) = "none" /\ ModuleFor(Dispatcher.pc) = "none"
  <2>1. ~InCode(Dispatcher.pc)
    BY NtdllIsNotGiven DEF Dispatcher, Place, InCode
  <2> QED BY <2>1, ReadIs DEF SyInv, SyTypes, ModuleFor
<1>2. Address \in {pc, NoWord}
  BY DEF Address
<1>3. ExcContext.pc \in {pc, NoWord}
  BY DEF ExcContext, AtFault, NoRegs
<1>4. ThreadContext.pc \in {pc, NoWord, Dispatcher.pc}
  <2>1. AtFault.pc = pc /\ NoRegs.pc = NoWord
    BY DEF AtFault, NoRegs
  <2>2. ThreadContext \in {AtFault, Dispatcher, NoRegs}
    BY DEF ThreadContext
  <2> QED BY <2>1, <2>2
<1>5. PICK a, b, c : a = Address /\ b = ExcContext.pc /\ c = ThreadContext.pc
  OBVIOUS
<1>6. a \in Named /\ b \in Named /\ c \in Named
  BY <1>1, <1>2, <1>3, <1>4, <1>5 DEF Named
<1>7. Firsts = <<a, b, c>>
  BY <1>5 DEF Firsts
<1>8. Firsts \in Seq(Named) /\ Len(Firsts) = 3 /\ Firsts[1] = a /\ Firsts[2] = b /\ Firsts[3] = c
  BY <1>6, <1>7
<1>9. \A k \in 1 .. 3 : k = 1 \/ k = 2 \/ k = 3
  OBVIOUS
<1> QED BY <1>1, <1>2, <1>3, <1>4, <1>5, <1>8, <1>9

LEMMA FramesTold ==
  ASSUME SyInv, FramesStand
  PROVE  FramesTellCrash
<1>1. PICK walked : walked = IF UnwindMethod = "x64" THEN X64Unwind ELSE RbpWalk
  OBVIOUS
<1>2. PICK words, n : words = Firsts \o walked /\ n = Len(words)
  OBVIOUS
<1>3. /\ walked \in Seq(Named) /\ words \in Seq(Named) /\ n = 3 + Len(walked) /\ n \in Nat /\ Len(walked) \in Nat
      /\ words[1] = Address /\ (\A k \in 1 .. 3 : words[k] = pc \/ ModuleFor(words[k]) = "none")
      /\ \A i \in 1 .. Len(walked) : words[3 + i] = walked[i]
  <2>1. walked \in Seq(Named)
    BY <1>1, WalksName
  <2>2. Firsts \in Seq(Named) /\ Len(Firsts) = 3 /\ Firsts[1] = Address
        /\ \A k \in 1 .. 3 : Firsts[k] = pc \/ ModuleFor(Firsts[k]) = "none"
    BY FirstsAre
  <2>3. /\ words \in Seq(Named) /\ Len(words) = 3 + Len(walked)
        /\ \A i \in 1 .. 3 : words[i] = Firsts[i]
        /\ \A i \in 1 .. Len(walked) : words[3 + i] = walked[i]
    <3>1. /\ Firsts \o walked \in Seq(Named) /\ Len(Firsts \o walked) = Len(Firsts) + Len(walked)
          /\ \A i \in 1 .. Len(Firsts) : (Firsts \o walked)[i] = Firsts[i]
          /\ \A i \in 1 .. Len(walked) : (Firsts \o walked)[Len(Firsts) + i] = walked[i]
      <4>1. Firsts \in Seq(Named) /\ walked \in Seq(Named)
        BY <2>1, <2>2
      <4> QED BY <4>1, JoinIs
    <3> QED BY <1>2, <2>2, <3>1
  <2>4. Len(walked) \in Nat
    BY <2>1
  <2> QED BY <1>2, <2>1, <2>2, <2>3, <2>4
<1>4. DOMAIN words = 1 .. n /\ \A k \in 1 .. n : words[k] \in Named
  <2>1. words \in Seq(Named) /\ n = Len(words)
    BY <1>2, <1>3
  <2>2. DOMAIN words = 1 .. n
    BY <2>1
  <2> QED BY <2>1, <2>2, ElementOfSeq
<1>5. PICK g : AddedBy(g, words, n)
  BY <1>3, <1>4, OnceUnfolds
<1>6. /\ \A k \in 0 .. n : g[k] \in Seq(Named) /\ Distinct(g[k])
      /\ \A k \in 1 .. n : /\ Len(g[k]) <= Len(g[k - 1]) + 1
                           /\ ModuleFor(words[k]) # "none" => \E i \in 1 .. Len(g[k]) : g[k][i] = words[k]
      /\ \A m \in 0 .. n : \A k \in m .. n : Starts(g[m], g[k])
  BY <1>3, <1>4, <1>5, FramesGrow
<1>7. g[0] = <<>> /\ (\A k \in 1 .. n : g[k] = AddFrame(g[k - 1], words[k])) /\ Once(words) = g[n]
  BY <1>5 DEF AddedBy
<1>8. PICK all, F : all = g[n] /\ F = Min({MaxFrames, Len(all)})
  OBVIOUS
<1>9. all \in Seq(Named) /\ Distinct(all) /\ Len(all) \in Nat /\ DOMAIN all = 1 .. Len(all)
  <2>1. n \in 0 .. n
    BY <1>3
  <2>2. all \in Seq(Named) /\ Distinct(all)
    BY <1>6, <1>8, <2>1
  <2> QED BY <2>2
<1>10. F \in 0 .. Len(all) /\ (F = MaxFrames \/ F = Len(all)) /\ MaxFrames \in Nat /\ MaxFrames > 0
  <2>1. MaxFrames \in Nat /\ MaxFrames > 0
    BY FramesAreTaken
  <2>2. F \in {MaxFrames, Len(all)} /\ F <= Len(all)
    BY <1>8, <1>9, <2>1, LesserIs
  <2>3. PICK N, M : N = Len(all) /\ M = MaxFrames
    OBVIOUS
  <2>4. N \in Nat /\ M \in Nat /\ M > 0 /\ F \in {M, N} /\ F <= N
    BY <1>9, <2>1, <2>2, <2>3
  <2>5. F \in 0 .. N /\ (F = M \/ F = N)
    BY <2>4
  <2> QED BY <2>1, <2>3, <2>5
<1>17. /\ \A k \in 1 .. F : k \in 1 .. Len(all)
       /\ \A k \in 1 .. Len(all) : k <= MaxFrames => k \in 1 .. F
  <2>1. PICK N, M : N = Len(all) /\ M = MaxFrames
    OBVIOUS
  <2>2. N \in Nat /\ M \in Nat /\ M > 0 /\ F \in 0 .. N /\ (F = M \/ F = N)
    BY <1>9, <1>10, <2>1
  <2>3. (\A k \in 1 .. F : k \in 1 .. N) /\ \A k \in 1 .. N : k <= M => k \in 1 .. F
    BY <2>2
  <2> QED BY <2>1, <2>3
<1>11. Frames = SubSeq(all, 1, F)
  BY <1>1, <1>2, <1>7, <1>8 DEF Frames, Firsts
<1>12. Frames \in Seq(Named) /\ Len(Frames) = F /\ DOMAIN Frames = 1 .. F /\ \A k \in 1 .. F : Frames[k] = all[k]
  <2>1. Frames \in Seq(Named) /\ Len(Frames) = F /\ \A k \in 1 .. F : Frames[k] = all[k]
    BY <1>9, <1>10, <1>11, HeadIs
  <2>2. DOMAIN Frames = 1 .. Len(Frames)
    BY <2>1
  <2> QED BY <2>1, <2>2
<1>13. Cardinality(Range(Frames)) = Len(Frames)
  <2>1. Distinct(Frames)
    <3> QED BY <1>9, <1>12, <1>17 DEF Distinct
  <2> QED BY <1>12, <2>1, DistinctCount
\* After the first three there is the crash, if its module is selected, and nothing else.
<1>14. /\ Len(g[3]) \in {0, 1} /\ 3 \in 0 .. n
       /\ ModuleFor(pc) # "none" /\ Address = pc => Len(g[3]) = 1 /\ g[3][1] = pc
  <2>1. 0 \in 0 .. n /\ 1 \in 1 .. n /\ 2 \in 1 .. n /\ 3 \in 1 .. n /\ 1 \in 0 .. n /\ 2 \in 0 .. n /\ 3 \in 0 .. n
        /\ 1 - 1 = 0 /\ 2 - 1 = 1 /\ 3 - 1 = 2
    BY <1>3
  <2>2. pc \in Named
    BY DEF SyInv, SyTypes, Named
  <2> DEFINE Only(s) == s = <<>> \/ s = <<pc>>
  <2>3. ASSUME NEW k \in 1 .. 3, Only(g[k - 1]) PROVE Only(g[k])
    <3>1. k \in 1 .. n
      BY <1>3
    <3>2. g[k] = AddFrame(g[k - 1], words[k]) /\ (words[k] = pc \/ ModuleFor(words[k]) = "none")
      BY <1>3, <1>7, <3>1
    <3>3. CASE words[k] = pc /\ g[k - 1] = <<>>
      <4>1. Append(<<>>, pc) = <<pc>>
        BY <2>2
      <4> QED BY <3>2, <3>3, <4>1 DEF AddFrame
    <3>4. CASE words[k] = pc /\ g[k - 1] = <<pc>>
      <4>1. pc \in Range(<<pc>>)
        BY DEF Range
      <4> QED BY <3>2, <3>4, <4>1 DEF AddFrame
    <3>5. CASE ModuleFor(words[k]) = "none"
      BY <2>3, <3>2, <3>5 DEF AddFrame
    <3> QED BY <2>3, <3>2, <3>3, <3>4, <3>5
  <2>4. Only(g[0]) /\ Only(g[1]) /\ Only(g[2]) /\ Only(g[3])
    <3>1. 1 \in 1 .. 3 /\ 2 \in 1 .. 3 /\ 3 \in 1 .. 3
      OBVIOUS
    <3>2. Only(g[0])
      BY <1>7
    <3> HIDE DEF Only
    <3>3. Only(g[1])
      BY <2>1, <2>3, <3>1, <3>2
    <3>4. Only(g[2])
      BY <2>1, <2>3, <3>1, <3>3
    <3>5. Only(g[3])
      BY <2>1, <2>3, <3>1, <3>4
    <3> QED BY <3>2, <3>3, <3>4, <3>5
  <2>5. Len(<<>>) = 0 /\ Len(<<pc>>) = 1 /\ <<pc>>[1] = pc
    OBVIOUS
  <2>6. ASSUME ModuleFor(pc) # "none", Address = pc PROVE g[3] = <<pc>>
    <3>1. \E i \in 1 .. Len(g[1]) : g[1][i] = pc
      BY <1>3, <1>6, <2>1, <2>6, SMTT(30)
    <3>2. Len(g[1]) # 0
      BY <3>1
    <3>3. Starts(g[1], g[3])
      <4>1. 3 \in 1 .. n /\ 1 \in 0 .. n
        BY <2>1
      <4> QED BY <1>6, <4>1
    <3>4. g[1] = <<pc>>
      BY <2>4, <2>5, <3>2
    <3>5. Len(g[3]) # 0
      BY <2>4, <2>5, <3>3, <3>4 DEF Starts
    <3> QED BY <2>4, <2>5, <3>5
  <2>7. Len(g[3]) \in {0, 1}
    BY <2>4, <2>5
  <2> QED BY <2>1, <2>5, <2>6, <2>7
<1>15. ASSUME dump.exc # "none", ModuleFor(pc) # "none" PROVE Frames # <<>> /\ Frames[1] = pc
  <2>1. Address = pc
    BY <1>15 DEF Address
  <2>2. Len(g[3]) = 1 /\ g[3][1] = pc /\ Starts(g[3], all)
    <3>1. 3 \in 0 .. n /\ n \in 3 .. n
      BY <1>3
    <3> QED BY <1>6, <1>8, <1>14, <1>15, <2>1, <3>1
  <2>3. Len(all) >= 1 /\ all[1] = pc
    <3>1. 1 \in 1 .. 1
      OBVIOUS
    <3> QED BY <1>9, <2>2, <3>1 DEF Starts
  <2>4. 1 \in 1 .. F
    <3>1. PICK N, M : N = Len(all) /\ M = MaxFrames
      OBVIOUS
    <3>2. N \in Nat /\ N >= 1 /\ M \in Nat /\ M > 0
      BY <1>9, <1>10, <2>3, <3>1
    <3>3. 1 \in 1 .. N /\ 1 <= M
      BY <3>2
    <3> QED BY <1>17, <3>1, <3>3
  <2>5. Frames # <<>>
    <3>1. DOMAIN <<>> = {}
      OBVIOUS
    <3> QED BY <1>12, <2>4, <3>1
  <2> QED BY <1>12, <2>3, <2>4, <2>5
<1>16. ASSUME dump.exc = "full", dump.stack # "missing", Reach = Len(TrueCallers), Len(TrueCallers) < MaxFrames,
              NEW w \in Range(TrueCallers), ModuleFor(w) # "none"
       PROVE  w \in Range(Frames)
  <2>1. PICK R : R = Len(TrueCallers)
    OBVIOUS
  <2>2. TrueCallers \in Seq(Words) /\ R \in Nat /\ R < MaxFrames /\ DOMAIN TrueCallers = 1 .. R
    <3>1. TrueCallers \in Seq(Words)
      BY ReachIs
    <3> QED BY <1>16, <2>1, <3>1
  <2>3. PICK i \in 1 .. R : w = TrueCallers[i]
    BY <2>2 DEF Range
  <2>4. Len(X64Unwind) >= R /\ \A k \in 1 .. R : X64Unwind[k] = TrueCallers[k]
    <3>1. Min({Reach, MaxFrames}) = R
      <4>1. PICK k : k = Min({R, MaxFrames})
        OBVIOUS
      <4>2. k \in {R, MaxFrames} /\ k <= R
        BY <1>10, <2>2, <4>1, LesserIs
      <4>3. k = R
        BY <1>10, <2>2, <4>2
      <4> QED BY <1>16, <2>1, <4>1, <4>3
    <3>2. Len(X64Unwind) >= R /\ SubSeq(X64Unwind, 1, R) = SubSeq(TrueCallers, 1, R)
      BY <1>16, <3>1, UnwindTold DEF UnwindTellsCallers
    <3>3. X64Unwind \in Seq(Named) /\ Len(X64Unwind) \in Nat
      BY WalksName
    <3>4. R \in 0 .. Len(X64Unwind) /\ R \in 0 .. Len(TrueCallers)
      BY <2>1, <2>2, <3>2, <3>3
    <3>5. /\ \A k \in 1 .. R : SubSeq(X64Unwind, 1, R)[k] = X64Unwind[k]
          /\ \A k \in 1 .. R : SubSeq(TrueCallers, 1, R)[k] = TrueCallers[k]
      BY <2>2, <3>3, <3>4, HeadIs
    <3> QED BY <3>2, <3>5
  <2>5. walked = X64Unwind
    <3>1. X64Unwind # <<>>
      <4>1. X64Unwind \in Seq(Named) /\ Len(X64Unwind) \in Nat
        BY WalksName
      <4>2. Len(X64Unwind) > 0
        BY <2>2, <2>3, <2>4, <4>1
      <4> QED BY <4>2
    <3> QED BY <1>1, <3>1 DEF UnwindMethod
  <2>6. Len(walked) >= R /\ 3 + R \in 3 .. n /\ 3 + R \in 0 .. n /\ 3 + i \in 1 .. n /\ i \in 1 .. Len(walked)
        /\ 3 + R \in (3 + i) .. n /\ 3 + i \in 0 .. n /\ n \in (3 + R) .. n
    BY <1>3, <2>2, <2>3, <2>4, <2>5
  <2>7. words[3 + i] = w
    BY <1>3, <2>3, <2>4, <2>5, <2>6
  <2>8. PICK j \in 1 .. Len(g[3 + i]) : g[3 + i][j] = w
    BY <1>6, <1>16, <2>6, <2>7
  <2>9. ASSUME NEW m \in Nat, 3 + m <= n PROVE Len(g[3 + m]) <= 1 + m
    <3> DEFINE T == {m2 \in Nat : 3 + m2 <= n => Len(g[3 + m2]) <= 1 + m2}
    <3>1. 0 \in T
      <4>1. 3 + 0 = 3 /\ Len(g[3]) \in {0, 1}
        BY <1>14
      <4>2. PICK l : l = Len(g[3])
        OBVIOUS
      <4>3. l \in {0, 1}
        BY <4>1, <4>2, Zenon
      <4>4. l <= 1 + 0
        BY <4>3
      <4>5. Len(g[3 + 0]) = l
        BY <4>1, <4>2, Zenon
      <4>6. Len(g[3 + 0]) <= 1 + 0
        BY <4>4, <4>5, Zenon
      <4> QED BY <4>6
    <3>2. ASSUME NEW k \in Nat, k \in T PROVE k + 1 \in T
      <4> SUFFICES ASSUME 3 + (k + 1) <= n PROVE Len(g[3 + (k + 1)]) <= 1 + (k + 1)
        OBVIOUS
      <4>1. 3 + k <= n /\ 3 + (k + 1) \in 1 .. n /\ (3 + (k + 1)) - 1 = 3 + k /\ 3 + k \in 0 .. n /\ 3 + (k + 1) \in 0 .. n
        BY <1>3
      <4>2. PICK a, b : a = Len(g[3 + k]) /\ b = Len(g[3 + (k + 1)])
        OBVIOUS
      <4>3. a \in Nat /\ b \in Nat
        <5>1. g[3 + k] \in Seq(Named) /\ g[3 + (k + 1)] \in Seq(Named)
          BY <1>6, <4>1
        <5> QED BY <4>2, <5>1
      <4>4. b <= a + 1 /\ a <= 1 + k
        BY <1>6, <3>2, <4>1, <4>2
      <4>5. b <= 1 + (k + 1)
        BY <4>3, <4>4
      <4> QED BY <4>2, <4>5
    <3>3. \A k \in Nat : k \in T
      <4> HIDE DEF T
      <4> QED BY <3>1, <3>2, ByInduction
    <3> QED BY <2>9, <3>3
  <2>10. PICK a, b : a = g[3 + i] /\ b = g[3 + R]
    OBVIOUS
  <2>11. a \in Seq(Named) /\ b \in Seq(Named) /\ Starts(a, b) /\ Starts(b, all) /\ Len(b) <= 1 + R
    <3>1. 3 + R <= n
      BY <1>3, <2>6
    <3> QED BY <1>6, <1>8, <2>2, <2>6, <2>9, <2>10, <3>1
  <2>12. j \in 1 .. Len(a) /\ j \in 1 .. Len(b) /\ j \in 1 .. Len(all) /\ a[j] = w /\ j <= 1 + R
    <3>1. Len(a) \in Nat /\ Len(b) \in Nat
      BY <2>11
    <3>2. j \in 1 .. Len(a) /\ a[j] = w
      BY <2>8, <2>10
    <3>3. Len(a) <= Len(b) /\ Len(b) <= Len(all)
      BY <2>11 DEF Starts
    <3> QED BY <1>9, <2>2, <2>11, <3>1, <3>2, <3>3
  <2>13. all[j] = w
    BY <2>11, <2>12 DEF Starts
  <2>14. j \in 1 .. F
    <3>1. j <= MaxFrames
      BY <1>10, <2>2, <2>12
    <3> QED BY <1>17, <2>12, <3>1
  <2> QED BY <1>12, <2>13, <2>14 DEF Range
<1> QED BY <1>13, <1>15, <1>16 DEF FramesTellCrash

-----------------------------------------------------------------------------
(* The theorem.                                                            *)

\* With the registers and the stack of the crash in the dump, the unwinder tells the
\* true callers in order as far as the unwind data reaches; the report starts with the
\* function that crashed, names none twice and misses no caller but for its length; the
\* scan for meta.json misses none of the crash's module: for any program whose prologs
\* save rbp in words they have just allocated and whose frame register, if any, is rbp
\* (PrologsFit, FramesFit), any depth of calls, wherever in a prolog or a body the
\* crash was (symbolize.py:447-674, minidump_meta.py:192-205).
THEOREM CrashAlwaysTold == SySpec => []CrashIsTold
<1> DEFINE Inv == SyInv /\ FramesStand
<1>1. SyInit => Inv
  BY SyInvFirst, FramesFirst
<1>2. Inv /\ [SyNext]_syVars => Inv'
  BY SyInvStep, FramesStep
<1>3. Inv => CrashIsTold
  BY UnwindTold, FramesTold, ScanTold DEF CrashIsTold, ReportTellsCrash
<1> HIDE DEF Inv
<1> QED BY <1>1, <1>2, <1>3, PTL DEF SySpec
=============================================================================
