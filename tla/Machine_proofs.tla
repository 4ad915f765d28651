--------------------------- MODULE Machine_proofs ---------------------------
(***************************************************************************)
(* Theorems about Machine, for every nesting of definitions, every program *)
(* and every size of the stack: the stack is what the calls in progress    *)
(* have put there, the static links lead to the activations that lexical   *)
(* scope names, and the scopes follow the calls.                           *)
(*                                                                         *)
(* The properties say what the stack is like between instructions that     *)
(* succeed.  IInv says the same of the unwinding of an error, in which a   *)
(* scope has gone before its call and frames are left that nothing will    *)
(* enter, and adds what makes the next step keep it: that a frame begun    *)
(* and not entered has the level and the number of locals of its function, *)
(* that a call which lacks arguments cannot have been made, and that the   *)
(* code only calls what it can see, without which the activation a static  *)
(* link is to lead to need not exist.                                      *)
(*                                                                         *)
(* The steps are of three kinds: those that stay in the innermost context  *)
(* (InnerStep, OperandsGo), those that leave it (OutStep), and the two     *)
(* that begin and make a call.                                             *)
(***************************************************************************)
EXTENDS Machine, Induction, SequenceTheorems

\* What a cell holds, and the stack.
Entries == [kind : {"noval", "val", "ret", "static", "dynamic", "pc", "params"}, v : Cell \cup Fn]
Stacks == [Cell -> Entries]

Contexts == [kind : {"body", "call"}, fn : Fn \cup {Main}, done : Nat,
             temps : 0 .. MaxTemps, callerLevel : Nat]

\* Base of any sequence of contexts.
BaseIn(cd) ==
  LET base[i \in 1 .. Len(cd) + 1] == IF i = 1 THEN 0 ELSE base[i - 1] + Size(cd[i - 1])
  IN  base

\* b is the latest body up to context k, or the latest one of g.
LastBody(cd, k, b) ==
  /\ b \in 1 .. k /\ cd[b].kind = "body"
  /\ \A j \in 1 .. k : cd[j].kind = "body" => j <= b

LastOf(cd, g, k, b) ==
  /\ b \in 1 .. k /\ cd[b].kind = "body" /\ cd[b].fn = g
  /\ \A j \in 1 .. k : cd[j].kind = "body" /\ cd[j].fn = g => j <= b

HomeOf(cd, i, b) ==
  IF cd[i].fn \in Intrinsic THEN LastBody(cd, i - 1, b) ELSE LastOf(cd, Encl[cd[i].fn], i - 1, b)

\* What calls look like that are made by the code of the program: contexts are
\* inside the program, only what has a scope has a body, and what is called is
\* visible in the body that calls it.
Nested(cd) ==
  /\ cd # <<>> /\ cd[1].kind = "body" /\ cd[1].fn = Main
  /\ \A i \in 2 .. Len(cd) :
       /\ cd[i].fn \in Fn
       /\ cd[i].kind = "body" => cd[i].fn \notin Intrinsic
       /\ cd[i].fn \in Function => cd[i - 1].temps < MaxTemps
       /\ \A b \in 1 .. Len(cd) : LastBody(cd, i - 1, b) =>
            /\ cd[i].fn \notin Intrinsic => Encl[cd[i].fn] \in Around(cd[b].fn)
            /\ cd[i].kind = "body" => cd[i].callerLevel = Depth[cd[b].fn]

\* Every frame has its links and its name.
Linked(cd, cells) ==
  \A i \in 2 .. Len(cd) :
    LET at == BaseIn(cd)[i]
    IN  /\ cells[at + 4] = Entry("params", cd[i].fn)
        /\ \A b \in 1 .. Len(cd) :
             /\ LastBody(cd, i - 1, b) => cells[at + 2] = Entry("dynamic", BaseIn(cd)[b])
             /\ HomeOf(cd, i, b) => cells[at + 1] = Entry("static", BaseIn(cd)[b])

\* The stack ends with what the innermost context has put there.
Placed(cd, cells, frame, off) ==
  /\ \A b \in 1 .. Len(cd) : LastBody(cd, Len(cd), b) => frame = BaseIn(cd)[b]
  /\ frame + off = BaseIn(cd)[Len(cd) + 1] /\ frame + off <= MaxCells
  /\ \A c \in Cell : c >= frame + off => cells[c] = NoVal

PendingIn(cd) == {i \in 1 .. Len(cd) : cd[i].kind = "call"}
ScopedIn(cd) == {i \in 1 .. Len(cd) : cd[i].fn \notin Intrinsic \cup {Main}}

\* How many of the numbers of S are at least or at most i.
From(S, i) == Cardinality({j \in S : j >= i})
UpTo(S, i) == Cardinality({j \in S : j <= i})

\* The frames begun are those of the calls that are not entered.
Listed(cd, frames) ==
  /\ Len(frames) = Cardinality(PendingIn(cd))
  /\ \A i \in PendingIn(cd) :
       LET frame == frames[From(PendingIn(cd), i)]
       IN  /\ frame.fp = BaseIn(cd)[i] /\ frame.sb = Offsets[cd[i].fn]
           /\ cd[i].fn \notin Intrinsic => frame.level = Depth[cd[i].fn]

\* The scopes are those of the calls, the last lost of them left out.
Pushed(cd, sc, lost) ==
  /\ Len(sc) = Cardinality(ScopedIn(cd)) - lost
  /\ \A i \in ScopedIn(cd) : UpTo(ScopedIn(cd), i) <= Len(sc) => sc[UpTo(ScopedIn(cd), i)] = cd[i].fn

Lost(phase) == IF phase = "clear" THEN 1 ELSE 0

\* A call has all its arguments only when it is about to be made.
Counted(cd, phase) ==
  \A i \in PendingIn(cd) : /\ cd[i].done <= Nargs[cd[i].fn]
                           /\ i < Len(cd) \/ phase # "no" => cd[i].done < Nargs[cd[i].fn]

\* The level is that of the running body, and how far an error has come depends
\* on whether that is the program.
Levelled(cd, level, phase) ==
  \A b \in 1 .. Len(cd) : LastBody(cd, Len(cd), b) =>
    /\ level = Depth[cd[b].fn]
    /\ phase = "clear" => b # 1
    /\ phase = "abort" => b = 1

IInv ==
  /\ TypeOK
  /\ Nested(code)
  /\ Linked(code, thestack)
  /\ Placed(code, thestack, framepntr, sbOff)
  /\ Listed(code, flist)
  /\ Pushed(code, scopes, Lost(unwinding))
  /\ Counted(code, unwinding)
  /\ Levelled(code, scopeLevel, unwinding)

\* The contents of the stack are needed in nearly every step.
USE DEF Entries, Stacks

LEMMA CodeFacts ==
  ASSUME NEW cd \in Seq(Contexts)
  PROVE  /\ Len(cd) \in Nat
         /\ \A m \in 1 .. Len(cd) : cd[m] \in Contexts /\ cd[m].fn \in Fn \cup {Main}
<1>1. Len(cd) \in Nat /\ \A m \in 1 .. Len(cd) : cd[m] \in Contexts
  BY LenProperties, ElementOfSeq
<1> QED BY <1>1 DEF Contexts

-----------------------------------------------------------------------------
(* Where contexts begin *)

LEMMA SizeFacts ==
  ASSUME NEW c \in Contexts
  PROVE  /\ Size(c) \in Nat
         /\ c.fn # Main => Size(c) >= FrameSize
         /\ c.fn # Main /\ c.kind = "body" => Size(c) = FrameSize + Offsets[c.fn] + c.temps
         /\ c.fn # Main /\ c.kind = "call" => Size(c) = FrameSize + c.done + c.temps
         /\ c.fn = Main => Size(c) = c.temps
<1>1. c.fn \in Fn \cup {Main} /\ c.done \in Nat /\ c.temps \in Nat
  BY SizeAssumption DEF Contexts
<1>2. c.fn # Main => Offsets[c.fn] \in Nat
  BY <1>1, NestingAssumption
<1> QED BY <1>1, <1>2 DEF Size, FrameSize

LEMMA BaseFacts ==
  ASSUME NEW cd \in Seq(Contexts)
  PROVE  /\ BaseIn(cd)[1] = 0
         /\ \A i \in 1 .. Len(cd) + 1 : BaseIn(cd)[i] \in Nat
         /\ \A i \in 1 .. Len(cd) : BaseIn(cd)[i + 1] = BaseIn(cd)[i] + Size(cd[i])
<1> DEFINE Is(F, n) == F = [i \in 1 .. n + 1 |-> IF i = 1 THEN 0 ELSE F[i - 1] + Size(cd[i - 1])]
           S == {n \in Nat : \E F : Is(F, n)}
<1>1. 0 \in S
  <2> DEFINE F == [i \in 1 .. 0 + 1 |-> 0]
  <2>1. Is(F, 0)
    OBVIOUS
  <2> HIDE DEF F
  <2> QED BY <2>1
<1>2. ASSUME NEW n \in Nat, n \in S PROVE n + 1 \in S
  <2>1. PICK F : Is(F, n)
    BY <1>2
  <2> DEFINE G == [i \in 1 .. (n + 1) + 1 |-> IF i = (n + 1) + 1 THEN F[n + 1] + Size(cd[n + 1]) ELSE F[i]]
  <2>2. \A i \in 1 .. (n + 1) + 1 : G[i] = IF i = 1 THEN 0 ELSE G[i - 1] + Size(cd[i - 1])
    <3> SUFFICES ASSUME NEW i \in 1 .. (n + 1) + 1
                 PROVE  G[i] = IF i = 1 THEN 0 ELSE G[i - 1] + Size(cd[i - 1])
      OBVIOUS
    <3>1. CASE i = (n + 1) + 1
      BY <3>1
    <3>2. CASE i # (n + 1) + 1
      <4>1. i \in 1 .. n + 1 /\ G[i] = F[i] /\ (i # 1 => i - 1 \in 1 .. n + 1 /\ G[i - 1] = F[i - 1])
        BY <3>2
      <4>2. F[i] = IF i = 1 THEN 0 ELSE F[i - 1] + Size(cd[i - 1])
        BY <2>1, <4>1
      <4> QED BY <4>1, <4>2
    <3> QED BY <3>1, <3>2
  <2>3. G = [i \in 1 .. (n + 1) + 1 |-> G[i]]
    OBVIOUS
  <2> HIDE DEF G
  <2>4. Is(G, n + 1)
    BY <2>2, <2>3
  <2> QED BY <2>4
<1>3. Len(cd) \in Nat
  BY LenProperties
<1>4. Len(cd) \in S
  <2> HIDE DEF S
  <2>1. Nat \subseteq S
    BY <1>1, <1>2, EveryNumber
  <2> QED BY <1>3, <2>1
<1>5. Is(BaseIn(cd), Len(cd))
  BY <1>4 DEF BaseIn
<1>6. BaseIn(cd)[1] = 0
  BY <1>3, <1>5
<1>7. ASSUME NEW i \in 1 .. Len(cd) PROVE BaseIn(cd)[i + 1] = BaseIn(cd)[i] + Size(cd[i])
  <2>1. i + 1 \in 1 .. Len(cd) + 1 /\ i + 1 # 1 /\ (i + 1) - 1 = i
    BY <1>3
  <2> QED BY <1>5, <2>1
<1>8. \A i \in 1 .. Len(cd) + 1 : BaseIn(cd)[i] \in Nat
  <2> DEFINE T == {n \in Nat : BaseIn(cd)[n + 1] \in Nat}
  <2>1. 0 \in T
    BY <1>6
  <2>2. ASSUME NEW n \in 0 .. Len(cd) - 1, n \in T PROVE n + 1 \in T
    <3>1. n + 1 \in 1 .. Len(cd) /\ BaseIn(cd)[n + 1] \in Nat
      BY <1>3, <2>2
    <3>2. Size(cd[n + 1]) \in Nat
      BY <3>1, SizeFacts
    <3>3. BaseIn(cd)[(n + 1) + 1] = BaseIn(cd)[n + 1] + Size(cd[n + 1])
      BY <1>7, <3>1
    <3> QED BY <3>1, <3>2, <3>3
  <2>3. 0 .. Len(cd) \subseteq T
    <3> HIDE DEF T
    <3> QED BY <1>3, <2>1, <2>2, EveryNumberTo
  <2> SUFFICES ASSUME NEW i \in 1 .. Len(cd) + 1 PROVE BaseIn(cd)[i] \in Nat
    OBVIOUS
  <2>4. i - 1 \in 0 .. Len(cd) /\ (i - 1) + 1 = i
    BY <1>3
  <2> QED BY <2>3, <2>4
<1> QED BY <1>6, <1>7, <1>8

LEMMA BaseOrder ==
  ASSUME NEW cd \in Seq(Contexts)
  PROVE  \A i, j \in 1 .. Len(cd) + 1 : i <= j => BaseIn(cd)[i] <= BaseIn(cd)[j]
<1> DEFINE S == {n \in Nat : \A i \in 1 .. n + 1 : BaseIn(cd)[i] <= BaseIn(cd)[n + 1]}
<1>1. Len(cd) \in Nat
  BY LenProperties
<1>2. 0 \in S
  <2>1. BaseIn(cd)[1] \in Nat
    BY <1>1, BaseFacts
  <2> QED BY <2>1
<1>3. ASSUME NEW n \in 0 .. Len(cd) - 1, n \in S PROVE n + 1 \in S
  <2> SUFFICES ASSUME NEW i \in 1 .. (n + 1) + 1 PROVE BaseIn(cd)[i] <= BaseIn(cd)[(n + 1) + 1]
    BY <1>1
  <2>1. n + 1 \in 1 .. Len(cd) /\ n + 1 \in 1 .. Len(cd) + 1 /\ (n + 1) + 1 \in 1 .. Len(cd) + 1
    BY <1>1
  <2>2. /\ BaseIn(cd)[n + 1] \in Nat /\ BaseIn(cd)[(n + 1) + 1] \in Nat
        /\ BaseIn(cd)[(n + 1) + 1] = BaseIn(cd)[n + 1] + Size(cd[n + 1])
    BY <2>1, BaseFacts
  <2>3. Size(cd[n + 1]) \in Nat
    BY <2>1, SizeFacts
  <2>4. CASE i = (n + 1) + 1
    BY <2>2, <2>4
  <2>5. CASE i # (n + 1) + 1
    <3>1. i \in 1 .. n + 1 /\ i \in 1 .. Len(cd) + 1
      BY <2>5, <1>1
    <3>2. BaseIn(cd)[i] \in Nat
      BY <3>1, BaseFacts
    <3> QED BY <1>3, <2>2, <2>3, <3>1, <3>2
  <2> QED BY <2>4, <2>5
<1>4. 0 .. Len(cd) \subseteq S
  <2> HIDE DEF S
  <2> QED BY <1>1, <1>2, <1>3, EveryNumberTo
<1> SUFFICES ASSUME NEW i \in 1 .. Len(cd) + 1, NEW j \in 1 .. Len(cd) + 1, i <= j
             PROVE  BaseIn(cd)[i] <= BaseIn(cd)[j]
  OBVIOUS
<1>5. j - 1 \in 0 .. Len(cd) /\ i \in 1 .. (j - 1) + 1 /\ (j - 1) + 1 = j
  BY <1>1
<1>6. j - 1 \in S
  BY <1>4, <1>5
<1> QED BY <1>5, <1>6

\* A context inside another begins after it.
LEMMA BaseInside ==
  ASSUME NEW cd \in Seq(Contexts), NEW i \in 1 .. Len(cd), NEW j \in 1 .. Len(cd) + 1, i < j
  PROVE  /\ BaseIn(cd)[i] \in Nat /\ BaseIn(cd)[j] \in Nat /\ Size(cd[i]) \in Nat
         /\ BaseIn(cd)[i] + Size(cd[i]) <= BaseIn(cd)[j]
<1>1. Len(cd) \in Nat
  BY LenProperties
<1>2. i + 1 \in 1 .. Len(cd) + 1 /\ i \in 1 .. Len(cd) + 1 /\ i + 1 <= j
  BY <1>1
<1>3. BaseIn(cd)[i + 1] <= BaseIn(cd)[j]
  BY <1>2, BaseOrder
<1>4. BaseIn(cd)[i + 1] = BaseIn(cd)[i] + Size(cd[i])
  BY BaseFacts
<1> QED BY <1>2, <1>3, <1>4, BaseFacts, SizeFacts

LEMMA BaseAgrees ==
  ASSUME NEW cd \in Seq(Contexts), NEW ce \in Seq(Contexts), NEW k \in Nat,
         k <= Len(cd), k <= Len(ce), \A i \in 1 .. k : ce[i] = cd[i]
  PROVE  \A i \in 1 .. k + 1 : BaseIn(ce)[i] = BaseIn(cd)[i]
<1> DEFINE S == {n \in Nat : BaseIn(ce)[n + 1] = BaseIn(cd)[n + 1]}
<1>1. Len(cd) \in Nat /\ Len(ce) \in Nat
  BY LenProperties
<1>2. 0 \in S
  BY BaseFacts
<1>3. ASSUME NEW n \in 0 .. k - 1, n \in S PROVE n + 1 \in S
  <2>1. n + 1 \in 1 .. k /\ n + 1 \in 1 .. Len(cd) /\ n + 1 \in 1 .. Len(ce)
    BY <1>1
  <2>2. /\ BaseIn(cd)[(n + 1) + 1] = BaseIn(cd)[n + 1] + Size(cd[n + 1])
        /\ BaseIn(ce)[(n + 1) + 1] = BaseIn(ce)[n + 1] + Size(ce[n + 1])
    BY <2>1, BaseFacts
  <2>3. ce[n + 1] = cd[n + 1]
    BY <2>1
  <2> QED BY <1>3, <2>1, <2>2, <2>3
<1>4. 0 .. k \subseteq S
  <2> HIDE DEF S
  <2> QED BY <1>2, <1>3, EveryNumberTo
<1> SUFFICES ASSUME NEW i \in 1 .. k + 1 PROVE BaseIn(ce)[i] = BaseIn(cd)[i]
  OBVIOUS
<1>5. i - 1 \in 0 .. k /\ (i - 1) + 1 = i
  OBVIOUS
<1> QED BY <1>4, <1>5

-----------------------------------------------------------------------------
(* The bodies that are executed *)

LEMMA LastBodyExists ==
  ASSUME NEW cd \in Seq(Contexts), Nested(cd), NEW k \in 1 .. Len(cd)
  PROVE  \E b \in 1 .. k : LastBody(cd, k, b)
<1> DEFINE T == {b \in 1 .. k : cd[b].kind = "body"}
<1>1. Len(cd) \in Nat /\ k \in Nat /\ 1 \in T
  BY LenProperties DEF Nested
<1>2. T \in SUBSET (0 .. k) /\ T # {}
  BY <1>1
<1>3. PICK m \in T : \A j \in T : j <= m
  <2> HIDE DEF T
  <2> QED BY <1>1, <1>2, GreatestElement
<1> QED BY <1>3 DEF LastBody

LEMMA LastBodyUnique ==
  ASSUME NEW cd, NEW k \in Nat, NEW b, NEW c, LastBody(cd, k, b), LastBody(cd, k, c)
  PROVE  b = c
BY DEF LastBody

LEMMA LastOfUnique ==
  ASSUME NEW cd, NEW k \in Nat, NEW g, NEW b, NEW c, LastOf(cd, g, k, b), LastOf(cd, g, k, c)
  PROVE  b = c
BY DEF LastOf

\* Both depend on what is up to k only.
LEMMA LastAgrees ==
  ASSUME NEW cd, NEW ce, NEW k \in Nat,
         \A i \in 1 .. k : ce[i].kind = cd[i].kind /\ ce[i].fn = cd[i].fn
  PROVE  /\ \A b : LastBody(ce, k, b) <=> LastBody(cd, k, b)
         /\ \A g, b : LastOf(ce, g, k, b) <=> LastOf(cd, g, k, b)
BY DEF LastBody, LastOf

-----------------------------------------------------------------------------
(* The definitions around a definition *)

\* Around(f) goes through the definitions around f, one level out at a time.
LEMMA AroundIs ==
  ASSUME NEW f \in Fn \cup {Main}
  PROVE  \E a : /\ Around(f) = {a[n] : n \in 0 .. Depth[f] - 1}
                /\ a[0] = f
                /\ \A n \in 0 .. Depth[f] - 1 : a[n] \in Fn \cup {Main} /\ Depth[a[n]] = Depth[f] - n
                /\ \A n \in 0 .. Depth[f] - 2 : a[n] \in Fn /\ a[n + 1] = Encl[a[n]]
<1> DEFINE Is(F, n) == F = [i \in 0 .. n |-> IF i = 0 THEN f ELSE Encl[F[i - 1]]]
           S == {n \in Nat : \E F : Is(F, n)}
           D == Depth[f] - 1
<1>1. Depth[f] \in Nat \ {0} /\ D \in Nat
  BY NestingAssumption
<1>2. 0 \in S
  <2> DEFINE F == [i \in 0 .. 0 |-> f]
  <2>1. Is(F, 0)
    OBVIOUS
  <2> HIDE DEF F
  <2> QED BY <2>1
<1>3. ASSUME NEW n \in Nat, n \in S PROVE n + 1 \in S
  <2>1. PICK F : Is(F, n)
    BY <1>3
  <2> DEFINE G == [i \in 0 .. n + 1 |-> IF i = n + 1 THEN Encl[F[n]] ELSE F[i]]
  <2>2. \A i \in 0 .. n + 1 : G[i] = IF i = 0 THEN f ELSE Encl[G[i - 1]]
    <3> SUFFICES ASSUME NEW i \in 0 .. n + 1 PROVE G[i] = IF i = 0 THEN f ELSE Encl[G[i - 1]]
      OBVIOUS
    <3>1. CASE i = n + 1
      BY <3>1
    <3>2. CASE i # n + 1
      <4>1. i \in 0 .. n /\ G[i] = F[i] /\ (i # 0 => i - 1 \in 0 .. n /\ G[i - 1] = F[i - 1])
        BY <3>2
      <4>2. F[i] = IF i = 0 THEN f ELSE Encl[F[i - 1]]
        BY <2>1, <4>1
      <4> QED BY <4>1, <4>2
    <3> QED BY <3>1, <3>2
  <2>3. G = [i \in 0 .. n + 1 |-> G[i]]
    OBVIOUS
  <2> HIDE DEF G
  <2>4. Is(G, n + 1)
    BY <2>2, <2>3
  <2> QED BY <2>4
<1>4. D \in S
  <2> HIDE DEF S, D
  <2>1. Nat \subseteq S
    BY <1>2, <1>3, EveryNumber
  <2> QED BY <1>1, <2>1
<1> DEFINE a == CHOOSE a : a = [i \in 0 .. Depth[f] - 1 |-> IF i = 0 THEN f ELSE Encl[a[i - 1]]]
<1>5. a = [i \in 0 .. Depth[f] - 1 |-> IF i = 0 THEN f ELSE Encl[a[i - 1]]]
  BY <1>4
<1>6. Around(f) = {a[n] : n \in DOMAIN a}
  BY DEF Around
<1> HIDE DEF a
<1>7. Around(f) = {a[n] : n \in 0 .. Depth[f] - 1}
  BY <1>5, <1>6
<1>8. a[0] = f
  BY <1>1, <1>5
<1>9. \A n \in 0 .. Depth[f] - 2 : a[n + 1] = Encl[a[n]]
  <2> SUFFICES ASSUME NEW n \in 0 .. Depth[f] - 2 PROVE a[n + 1] = Encl[a[n]]
    OBVIOUS
  <2>1. n + 1 \in 0 .. Depth[f] - 1 /\ n + 1 # 0 /\ (n + 1) - 1 = n
    BY <1>1
  <2> QED BY <1>5, <2>1
<1> DEFINE T == {n \in Nat : a[n] \in Fn \cup {Main} /\ Depth[a[n]] = Depth[f] - n}
<1>10. 0 \in T
  BY <1>1, <1>8
<1>11. ASSUME NEW n \in 0 .. D - 1, n \in T PROVE a[n] \in Fn /\ n + 1 \in T
  <2>1. Depth[f] - n # 1
    BY <1>1
  <2>2. a[n] \in Fn
    BY <1>11, <2>1, NestingAssumption
  <2>3. a[n + 1] = Encl[a[n]]
    BY <1>1, <1>9
  <2>4. a[n + 1] \in Fn \cup {Main} /\ Depth[a[n]] = Depth[a[n + 1]] + 1
    BY <2>2, <2>3, NestingAssumption
  <2>5. Depth[a[n + 1]] \in Nat
    BY <2>4, NestingAssumption
  <2> QED BY <1>1, <1>11, <2>2, <2>4, <2>5
<1>12. 0 .. D \subseteq T
  <2> HIDE DEF T, D
  <2> QED BY <1>1, <1>10, <1>11, EveryNumberTo
<1>13. \A n \in 0 .. Depth[f] - 1 : a[n] \in Fn \cup {Main} /\ Depth[a[n]] = Depth[f] - n
  BY <1>12
<1>14. \A n \in 0 .. Depth[f] - 2 : a[n] \in Fn
  BY <1>1, <1>11, <1>12
<1> QED BY <1>7, <1>8, <1>9, <1>13, <1>14

LEMMA AroundFacts ==
  ASSUME NEW f \in Fn \cup {Main}
  PROVE  /\ f \in Around(f)
         /\ \A g \in Around(f) : /\ g \in Fn \cup {Main} /\ Depth[g] <= Depth[f]
                                 /\ Depth[g] = Depth[f] => g = f
                                 /\ g # f => g \notin Intrinsic
                                 /\ g \in Fn => Encl[g] \in Around(f)
         /\ f = Main => Around(f) = {Main}
<1>1. PICK a : /\ Around(f) = {a[n] : n \in 0 .. Depth[f] - 1}
               /\ a[0] = f
               /\ \A n \in 0 .. Depth[f] - 1 : a[n] \in Fn \cup {Main} /\ Depth[a[n]] = Depth[f] - n
               /\ \A n \in 0 .. Depth[f] - 2 : a[n] \in Fn /\ a[n + 1] = Encl[a[n]]
  BY AroundIs
<1>2. Depth[f] \in Nat \ {0}
  BY NestingAssumption
<1>3. f \in Around(f)
  <2>1. 0 \in 0 .. Depth[f] - 1
    BY <1>2
  <2> QED BY <1>1, <2>1
<1>4. ASSUME NEW g \in Around(f)
      PROVE  /\ g \in Fn \cup {Main} /\ Depth[g] <= Depth[f]
             /\ Depth[g] = Depth[f] => g = f
             /\ g # f => g \notin Intrinsic
             /\ g \in Fn => Encl[g] \in Around(f)
  <2>1. PICK n \in 0 .. Depth[f] - 1 : g = a[n]
    BY <1>1
  <2>2. g \in Fn \cup {Main} /\ Depth[g] = Depth[f] - n
    BY <1>1, <2>1
  <2>3. n = 0 => g = f
    BY <1>1, <2>1
  <2>4. g # f => g \notin Intrinsic
    <3> SUFFICES ASSUME g # f PROVE g \notin Intrinsic
      OBVIOUS
    <3>1. n - 1 \in 0 .. Depth[f] - 2 /\ (n - 1) + 1 = n
      BY <1>2, <2>3
    <3>2. a[n - 1] \in Fn /\ a[(n - 1) + 1] = Encl[a[n - 1]]
      BY <1>1, <3>1
    <3> QED BY <2>1, <3>1, <3>2, NestingAssumption
  <2>5. g \in Fn => Encl[g] \in Around(f)
    <3> SUFFICES ASSUME g \in Fn PROVE Encl[g] \in Around(f)
      OBVIOUS
    <3>1. Depth[g] = Depth[Encl[g]] + 1 /\ Depth[Encl[g]] \in Nat \ {0}
      BY NestingAssumption
    <3>2. n \in 0 .. Depth[f] - 2 /\ n + 1 \in 0 .. Depth[f] - 1
      BY <1>2, <2>2, <3>1
    <3>3. a[n + 1] = Encl[g]
      BY <1>1, <2>1, <3>2
    <3> QED BY <1>1, <3>2, <3>3
  <2> QED BY <1>2, <2>2, <2>3, <2>4, <2>5
<1>5. f = Main => Around(f) = {Main}
  BY <1>1, NestingAssumption
<1> QED BY <1>3, <1>4, <1>5

LEMMA AroundClosed ==
  ASSUME NEW f \in Fn \cup {Main}, NEW h \in Around(f)
  PROVE  Around(h) \subseteq Around(f)
<1>1. h \in Fn \cup {Main}
  BY AroundFacts
<1>2. PICK a : /\ Around(h) = {a[n] : n \in 0 .. Depth[h] - 1}
               /\ a[0] = h
               /\ \A n \in 0 .. Depth[h] - 1 : a[n] \in Fn \cup {Main} /\ Depth[a[n]] = Depth[h] - n
               /\ \A n \in 0 .. Depth[h] - 2 : a[n] \in Fn /\ a[n + 1] = Encl[a[n]]
  BY <1>1, AroundIs
<1> DEFINE D == Depth[h] - 1
           T == {n \in Nat : a[n] \in Around(f)}
<1>3. D \in Nat
  BY <1>1, NestingAssumption
<1>4. 0 \in T
  BY <1>2
<1>5. ASSUME NEW n \in 0 .. D - 1, n \in T PROVE n + 1 \in T
  <2>1. n \in 0 .. Depth[h] - 2
    <3>1. Depth[h] \in Nat
      BY <1>1, NestingAssumption
    <3> QED BY <3>1
  <2>2. a[n] \in Fn /\ a[n + 1] = Encl[a[n]]
    BY <1>2, <2>1
  <2>3. Encl[a[n]] \in Around(f)
    BY <1>5, <2>2, AroundFacts
  <2> QED BY <2>2, <2>3
<1>6. 0 .. D \subseteq T
  <2> HIDE DEF T, D
  <2> QED BY <1>3, <1>4, <1>5, EveryNumberTo
<1> QED BY <1>2, <1>6

\* Around a definition is what is around the definition that has it.
LEMMA AroundEncl ==
  ASSUME NEW f \in Fn, NEW g \in Around(f), g # f
  PROVE  g \in Around(Encl[f])
<1> DEFINE e == Encl[f]
<1>1. e \in Fn \cup {Main} /\ Depth[f] = Depth[e] + 1 /\ Depth[f] \in Nat /\ Depth[e] \in Nat \ {0}
  BY NestingAssumption
<1>2. PICK a : /\ Around(f) = {a[n] : n \in 0 .. Depth[f] - 1}
               /\ a[0] = f
               /\ \A n \in 0 .. Depth[f] - 1 : a[n] \in Fn \cup {Main} /\ Depth[a[n]] = Depth[f] - n
               /\ \A n \in 0 .. Depth[f] - 2 : a[n] \in Fn /\ a[n + 1] = Encl[a[n]]
  BY AroundIs
<1> DEFINE D == Depth[f] - 2
           T == {n \in Nat : a[n + 1] \in Around(e)}
<1>3. D \in Nat
  BY <1>1
<1>4. 0 \in T
  <2>1. 0 \in 0 .. Depth[f] - 2
    BY <1>1
  <2>2. a[0 + 1] = Encl[a[0]]
    BY <1>2, <2>1
  <2>3. e \in Around(e)
    BY <1>1, AroundFacts
  <2> QED BY <1>2, <2>2, <2>3
<1>5. ASSUME NEW n \in 0 .. D - 1, n \in T PROVE n + 1 \in T
  <2>1. n + 1 \in 0 .. Depth[f] - 2
    BY <1>1
  <2>2. a[n + 1] \in Fn /\ a[(n + 1) + 1] = Encl[a[n + 1]]
    BY <1>2, <2>1
  <2>3. Encl[a[n + 1]] \in Around(e)
    BY <1>1, <1>5, <2>2, AroundFacts
  <2> QED BY <2>2, <2>3
<1>6. 0 .. D \subseteq T
  <2> HIDE DEF T, D
  <2> QED BY <1>3, <1>4, <1>5, EveryNumberTo
<1>7. PICK n \in 0 .. Depth[f] - 1 : g = a[n]
  BY <1>2
<1>8. n - 1 \in 0 .. D /\ (n - 1) + 1 = n
  BY <1>1, <1>2, <1>7
<1> QED BY <1>6, <1>7, <1>8

-----------------------------------------------------------------------------
(* The activations a body can use the variables of *)

\* In the code of a program every definition around the running one has an
\* activation, and the one its body was called from is still the latest one.
LEMMA LexicalHomes ==
  ASSUME NEW cd \in Seq(Contexts), Nested(cd), NEW b \in 1 .. Len(cd), cd[b].kind = "body",
         NEW g \in Around(cd[b].fn)
  PROVE  \E x \in 1 .. b :
           /\ LastOf(cd, g, b, x)
           /\ g # Main => \E y \in 1 .. x - 1 : LastOf(cd, Encl[g], x - 1, y) /\ LastOf(cd, Encl[g], b, y)
<1> DEFINE Good(m, h) ==
             \E x \in 1 .. m :
               /\ LastOf(cd, h, m, x)
               /\ h # Main => \E y \in 1 .. x - 1 : LastOf(cd, Encl[h], x - 1, y) /\ LastOf(cd, Encl[h], m, y)
           S == {m \in Nat : m \in 1 .. Len(cd) /\ cd[m].kind = "body" => \A h \in Around(cd[m].fn) : Good(m, h)}
<1>1. Len(cd) \in Nat /\ \A m \in 1 .. Len(cd) : cd[m] \in Contexts /\ cd[m].fn \in Fn \cup {Main}
  BY CodeFacts
<1>2. ASSUME NEW m \in Nat, \A k \in 0 .. m - 1 : k \in S PROVE m \in S
  <2> SUFFICES ASSUME m \in 1 .. Len(cd), cd[m].kind = "body", NEW h \in Around(cd[m].fn)
               PROVE  Good(m, h)
    OBVIOUS
  <2> DEFINE f == cd[m].fn
  <2>1. f \in Fn \cup {Main}
    BY <1>1
  <2>2. CASE m = 1
    <3>1. h = Main /\ f = Main
      BY <2>1, <2>2, AroundFacts DEF Nested
    <3>2. LastOf(cd, h, m, 1)
      BY <2>2, <3>1 DEF LastOf
    <3> QED BY <2>2, <3>1, <3>2
  <2>3. CASE m # 1
    <3>1. m - 1 \in 1 .. Len(cd) /\ m \in 2 .. Len(cd)
      BY <1>1, <2>3
    <3>2. PICK r \in 1 .. m - 1 : LastBody(cd, m - 1, r)
      BY <3>1, LastBodyExists
    <3>3. f \in Fn \ Intrinsic /\ Encl[f] \in Around(cd[r].fn)
      BY <1>1, <3>1, <3>2 DEF Nested
    <3>4. r \in 1 .. Len(cd) /\ r \in 0 .. m - 1 /\ cd[r].kind = "body" /\ cd[r].fn \in Fn \cup {Main}
      BY <1>1, <3>2 DEF LastBody
    <3>5. r \in S
      BY <1>2, <3>4
    <3>6. \A g1 \in Around(cd[r].fn) : Good(r, g1)
      BY <3>4, <3>5
    <3>7. \A j \in 1 .. m - 1 : cd[j].kind = "body" => j <= r
      BY <3>2 DEF LastBody
    <3>8. Encl[f] \in Fn \cup {Main} /\ Encl[f] # f
      <4>1. Depth[f] = Depth[Encl[f]] + 1 /\ Encl[f] \in Fn \cup {Main}
        BY <3>3, NestingAssumption
      <4>2. Depth[Encl[f]] \in Nat
        BY <4>1, NestingAssumption
      <4> QED BY <4>1, <4>2
    <3>9. ASSUME NEW g1, g1 # f, NEW x, LastOf(cd, g1, r, x)
          PROVE  LastOf(cd, g1, m - 1, x) /\ LastOf(cd, g1, m, x)
      BY <3>4, <3>7, <3>9 DEF LastOf
    <3>10. CASE h = f
      <4>1. LastOf(cd, h, m, m)
        BY <3>10 DEF LastOf
      <4>2. PICK y \in 1 .. r : LastOf(cd, Encl[f], r, y)
        BY <3>3, <3>6
      <4>3. LastOf(cd, Encl[h], m - 1, y) /\ LastOf(cd, Encl[h], m, y)
        BY <3>8, <3>9, <3>10, <4>2
      <4>4. y \in 1 .. m - 1
        BY <3>2, <4>2
      <4> QED BY <4>1, <4>3, <4>4
    <3>11. CASE h # f
      <4>1. h \in Around(Encl[f])
        BY <3>3, <3>11, AroundEncl
      <4>2. h \in Around(cd[r].fn)
        BY <3>3, <3>4, <4>1, AroundClosed
      <4>3. PICK x \in 1 .. r :
              /\ LastOf(cd, h, r, x)
              /\ h # Main => \E y \in 1 .. x - 1 : LastOf(cd, Encl[h], x - 1, y) /\ LastOf(cd, Encl[h], r, y)
        BY <3>6, <4>2
      <4>4. LastOf(cd, h, m, x) /\ x \in 1 .. m
        BY <3>2, <3>9, <3>11, <4>3
      <4>5. ASSUME h # Main
            PROVE  \E y \in 1 .. x - 1 : LastOf(cd, Encl[h], x - 1, y) /\ LastOf(cd, Encl[h], m, y)
        <5>1. PICK y \in 1 .. x - 1 : LastOf(cd, Encl[h], x - 1, y) /\ LastOf(cd, Encl[h], r, y)
          BY <4>3, <4>5
        <5>2. h \in Fn /\ Depth[h] <= Depth[f]
          BY <2>1, <4>5, AroundFacts
        <5>3. Depth[h] = Depth[Encl[h]] + 1 /\ Encl[h] \in Fn \cup {Main}
          BY <5>2, NestingAssumption
        <5>4. Encl[h] # f
          BY <2>1, <5>2, <5>3, NestingAssumption
        <5> QED BY <3>9, <5>1, <5>4
      <4> QED BY <4>4, <4>5
    <3> QED BY <3>10, <3>11
  <2> QED BY <2>2, <2>3
<1>3. Nat \subseteq S
  <2> HIDE DEF S
  <2> QED BY <1>2, EveryNumberAfterLess
<1>4. b \in S
  <2>1. b \in Nat
    BY <1>1
  <2> QED BY <1>3, <2>1
<1> QED BY <1>4

\* The static links lead from the running body to the latest activation of
\* every definition around it.
LEMMA HopIs ==
  ASSUME NEW cd \in Seq(Contexts), Nested(cd), Linked(cd, thestack),
         NEW b \in 1 .. Len(cd), cd[b].kind = "body", framepntr = BaseIn(cd)[b],
         NEW g \in Around(cd[b].fn), NEW x, LastOf(cd, g, b, x)
  PROVE  Hop(Depth[cd[b].fn] - Depth[g]) = BaseIn(cd)[x]
<1> DEFINE f == cd[b].fn
           N == Depth[f] - Depth[g]
           Is(F, n) == F = [k \in 0 .. n |-> IF k = 0 THEN framepntr ELSE thestack[F[k - 1] + 1].v]
           E == {n \in Nat : \E F : Is(F, n)}
<1>1. Len(cd) \in Nat /\ f \in Fn \cup {Main} /\ \A m \in 1 .. Len(cd) : cd[m].fn \in Fn \cup {Main}
  BY CodeFacts
<1>2. g \in Fn \cup {Main} /\ Depth[g] \in Nat \ {0} /\ Depth[f] \in Nat \ {0} /\ N \in 0 .. Depth[f] - 1
  BY <1>1, AroundFacts, NestingAssumption
<1>3. 0 \in E
  <2> DEFINE F == [k \in 0 .. 0 |-> framepntr]
  <2>1. Is(F, 0)
    OBVIOUS
  <2> HIDE DEF F
  <2> QED BY <2>1
<1>4. ASSUME NEW n \in Nat, n \in E PROVE n + 1 \in E
  <2>1. PICK F : Is(F, n)
    BY <1>4
  <2> DEFINE G == [k \in 0 .. n + 1 |-> IF k = n + 1 THEN thestack[F[n] + 1].v ELSE F[k]]
  <2>2. \A k \in 0 .. n + 1 : G[k] = IF k = 0 THEN framepntr ELSE thestack[G[k - 1] + 1].v
    <3> SUFFICES ASSUME NEW k \in 0 .. n + 1
                 PROVE  G[k] = IF k = 0 THEN framepntr ELSE thestack[G[k - 1] + 1].v
      OBVIOUS
    <3>1. CASE k = n + 1
      BY <3>1
    <3>2. CASE k # n + 1
      <4>1. k \in 0 .. n /\ G[k] = F[k] /\ (k # 0 => k - 1 \in 0 .. n /\ G[k - 1] = F[k - 1])
        BY <3>2
      <4>2. F[k] = IF k = 0 THEN framepntr ELSE thestack[F[k - 1] + 1].v
        BY <2>1, <4>1
      <4> QED BY <4>1, <4>2
    <3> QED BY <3>1, <3>2
  <2>3. G = [k \in 0 .. n + 1 |-> G[k]]
    OBVIOUS
  <2> HIDE DEF G
  <2>4. Is(G, n + 1)
    BY <2>2, <2>3
  <2> QED BY <2>4
<1>5. N \in E
  <2> HIDE DEF E, N
  <2>1. Nat \subseteq E
    BY <1>3, <1>4, EveryNumber
  <2> QED BY <1>2, <2>1
<1> DEFINE hop == CHOOSE hop : hop = [k \in 0 .. N |-> IF k = 0 THEN framepntr ELSE thestack[hop[k - 1] + 1].v]
<1>6. hop = [k \in 0 .. N |-> IF k = 0 THEN framepntr ELSE thestack[hop[k - 1] + 1].v]
  BY <1>5
<1>7. Hop(N) = hop[N]
  BY DEF Hop
<1> HIDE DEF hop, E
<1>8. PICK a : /\ Around(f) = {a[n] : n \in 0 .. Depth[f] - 1}
               /\ a[0] = f
               /\ \A n \in 0 .. Depth[f] - 1 : a[n] \in Fn \cup {Main} /\ Depth[a[n]] = Depth[f] - n
               /\ \A n \in 0 .. Depth[f] - 2 : a[n] \in Fn /\ a[n + 1] = Encl[a[n]]
  BY <1>1, AroundIs
<1> DEFINE S == {n \in Nat : \A y : LastOf(cd, a[n], b, y) => hop[n] = BaseIn(cd)[y]}
<1>9. 0 \in S
  <2>1. \A y : LastOf(cd, a[0], b, y) => y = b
    BY <1>1, <1>8 DEF LastOf
  <2>2. hop[0] = framepntr
    BY <1>2, <1>6
  <2> QED BY <2>1, <2>2
<1>10. ASSUME NEW n \in 0 .. N - 1, n \in S PROVE n + 1 \in S
  <2>1. n \in 0 .. Depth[f] - 2 /\ n \in 0 .. Depth[f] - 1 /\ n + 1 \in 0 .. N
    BY <1>2, SMTT(60)
  <2>2. a[n] \in Fn /\ a[n + 1] = Encl[a[n]] /\ a[n] \in Around(f) /\ a[n] # Main
    BY <1>8, <2>1, NestingAssumption
  <2>3. PICK z \in 1 .. b :
          /\ LastOf(cd, a[n], b, z)
          /\ \E y \in 1 .. z - 1 : LastOf(cd, Encl[a[n]], z - 1, y) /\ LastOf(cd, Encl[a[n]], b, y)
    BY <2>2, LexicalHomes
  <2>4. PICK y \in 1 .. z - 1 : LastOf(cd, Encl[a[n]], z - 1, y) /\ LastOf(cd, Encl[a[n]], b, y)
    BY <2>3
  <2>5. hop[n] = BaseIn(cd)[z]
    BY <1>10, <2>3
  <2>6. z \in 2 .. Len(cd) /\ y \in 1 .. Len(cd) /\ cd[z].fn = a[n] /\ cd[z].kind = "body"
    BY <1>1, <2>3, <2>4 DEF LastOf
  <2>7. HomeOf(cd, z, y)
    <3>1. a[n] \notin Intrinsic
      BY <2>6 DEF Nested
    <3> QED BY <2>4, <2>6, <3>1 DEF HomeOf
  <2>8. thestack[BaseIn(cd)[z] + 1] = Entry("static", BaseIn(cd)[y])
    BY <2>6, <2>7 DEF Linked
  <2>9. hop[n + 1] = thestack[hop[n] + 1].v
    <3>1. n + 1 # 0 /\ (n + 1) - 1 = n
      OBVIOUS
    <3> QED BY <1>6, <2>1, <3>1
  <2>10. hop[n + 1] = BaseIn(cd)[y]
    BY <2>5, <2>8, <2>9 DEF Entry
  <2>11. \A w : LastOf(cd, a[n + 1], b, w) => w = y
    BY <1>1, <2>2, <2>4, LastOfUnique
  <2> QED BY <2>10, <2>11
<1>11. 0 .. N \subseteq S
  <2>1. N \in Nat
    BY <1>2
  <2> HIDE DEF S, N
  <2> QED BY <2>1, <1>9, <1>10, EveryNumberTo
<1>12. g = a[N]
  <2>1. PICK n \in 0 .. Depth[f] - 1 : g = a[n]
    BY <1>8
  <2>2. Depth[g] = Depth[f] - n
    BY <1>8, <2>1
  <2> QED BY <1>2, <2>1, <2>2
<1>13. N \in S
  BY <1>2, <1>11
<1> QED BY <1>7, <1>12, <1>13

LEMMA RunningIs ==
  ASSUME code \in Seq(Contexts), Nested(code)
  PROVE  /\ running \in 1 .. Len(code) /\ code[running].kind = "body"
         /\ LastBody(code, Len(code), running)
         /\ cur.kind = "body" => running = Len(code)
<1>1. Len(code) \in Nat /\ Len(code) \in 1 .. Len(code) /\ DOMAIN code = 1 .. Len(code)
  BY LenProperties DEF Nested
<1>2. PICK b \in 1 .. Len(code) : LastBody(code, Len(code), b)
  BY <1>1, LastBodyExists
<1>3. b \in Bodies /\ \A j \in Bodies : j <= b
  BY <1>1, <1>2 DEF Bodies, LastBody
<1>4. running \in Bodies /\ \A j \in Bodies : j <= running
  BY <1>3 DEF running
<1> QED BY <1>1, <1>4 DEF Bodies, LastBody, cur

-----------------------------------------------------------------------------
(* Numbers in order *)

LEMMA Ranks ==
  ASSUME NEW n \in Nat
  PROVE  \A S \in SUBSET (1 .. n) :
           /\ IsFiniteSet(S) /\ Cardinality(S) \in Nat
           /\ \A i \in S : From(S, i) \in 1 .. Cardinality(S) /\ UpTo(S, i) \in 1 .. Cardinality(S)
<1> SUFFICES ASSUME NEW S \in SUBSET (1 .. n)
             PROVE  /\ IsFiniteSet(S) /\ Cardinality(S) \in Nat
                    /\ \A i \in S : From(S, i) \in 1 .. Cardinality(S) /\ UpTo(S, i) \in 1 .. Cardinality(S)
  OBVIOUS
<1>1. IsFiniteSet(1 .. n)
  BY FS_Interval
<1>2. IsFiniteSet(S) /\ Cardinality(S) \in Nat
  BY <1>1, FS_Subset, FS_CardinalityType
<1>3. \A T \in SUBSET S : IsFiniteSet(T) /\ Cardinality(T) \in Nat /\ Cardinality(T) <= Cardinality(S)
  BY <1>2, FS_Subset, FS_CardinalityType
<1>4. \A T \in SUBSET S : T # {} => Cardinality(T) \in 1 .. Cardinality(S)
  BY <1>2, <1>3, FS_EmptySet
<1>5. ASSUME NEW i \in S PROVE From(S, i) \in 1 .. Cardinality(S) /\ UpTo(S, i) \in 1 .. Cardinality(S)
  <2>1. i \in {j \in S : j >= i} /\ i \in {j \in S : j <= i}
    OBVIOUS
  <2>2. {j \in S : j >= i} # {} /\ {j \in S : j <= i} # {}
    BY <2>1
  <2> QED BY <1>4, <2>2 DEF From, UpTo
<1> QED BY <1>2, <1>5

LEMMA RanksWithLast ==
  ASSUME NEW n \in Nat, NEW m \in Nat, m > n
  PROVE  \A S \in SUBSET (1 .. n) :
           /\ Cardinality(S) \in Nat /\ Cardinality(S \cup {m}) = Cardinality(S) + 1
           /\ From(S \cup {m}, m) = 1 /\ UpTo(S \cup {m}, m) = Cardinality(S) + 1
           /\ \A i \in S : /\ From(S \cup {m}, i) = From(S, i) + 1 /\ From(S, i) \in 1 .. Cardinality(S)
                           /\ UpTo(S \cup {m}, i) = UpTo(S, i) /\ UpTo(S, i) \in 1 .. Cardinality(S)
<1> SUFFICES ASSUME NEW S \in SUBSET (1 .. n), NEW T, T = S \cup {m}
             PROVE  /\ Cardinality(S) \in Nat /\ Cardinality(T) = Cardinality(S) + 1
                    /\ From(T, m) = 1 /\ UpTo(T, m) = Cardinality(S) + 1
                    /\ \A i \in S : /\ From(T, i) = From(S, i) + 1 /\ From(S, i) \in 1 .. Cardinality(S)
                                    /\ UpTo(T, i) = UpTo(S, i) /\ UpTo(S, i) \in 1 .. Cardinality(S)
  OBVIOUS
<1>r. /\ Cardinality(S) \in Nat
      /\ \A i \in S : From(S, i) \in 1 .. Cardinality(S) /\ UpTo(S, i) \in 1 .. Cardinality(S)
  BY Ranks
<1>0. \A i \in S : i \in Nat /\ i < m
  OBVIOUS
<1>1. m \notin S /\ IsFiniteSet(S)
  <2>1. IsFiniteSet(S)
    BY Ranks
  <2> QED BY <1>0, <2>1
<1>2. Cardinality(T) = Cardinality(S) + 1
  BY <1>1, FS_AddElement
<1>3. From(T, m) = 1
  <2>1. {j \in T : j >= m} = {m}
    <3>1. \A j \in T : j >= m <=> j = m
      BY <1>0
    <3> QED BY <3>1
  <2> QED BY <2>1, FS_Singleton DEF From
<1>4. UpTo(T, m) = Cardinality(T)
  <2>1. {j \in T : j <= m} = T
    <3>1. \A j \in T : j <= m
      BY <1>0
    <3> QED BY <3>1
  <2> QED BY <2>1 DEF UpTo
<1>5. ASSUME NEW i \in S PROVE From(T, i) = From(S, i) + 1 /\ UpTo(T, i) = UpTo(S, i)
  <2> DEFINE R == {j \in S : j >= i}
  <2>1. {j \in T : j <= i} = {j \in S : j <= i} /\ {j \in T : j >= i} = R \cup {m}
    BY <1>0
  <2>2. IsFiniteSet(R) /\ m \notin R
    <3>1. R \subseteq S
      OBVIOUS
    <3> QED BY <1>1, <3>1, FS_Subset
  <2>3. Cardinality(R \cup {m}) = Cardinality(R) + 1
    <3> HIDE DEF R
    <3> QED BY <2>2, FS_AddElement
  <2> QED BY <2>1, <2>3 DEF From, UpTo
<1> QED BY <1>r, <1>2, <1>3, <1>4, <1>5

-----------------------------------------------------------------------------
(* What a step leaves of the contexts *)

\* ce is the beginning of cd, but for the operands and arguments of its last
\* context.
Shortens(cd, ce) ==
  /\ Len(ce) \in 1 .. Len(cd)
  /\ \A i \in 1 .. Len(ce) - 1 : ce[i] = cd[i]
  /\ \A i \in {Len(ce)} : ce[i].kind = cd[i].kind /\ ce[i].fn = cd[i].fn /\ ce[i].callerLevel = cd[i].callerLevel

LEMMA ShortensFacts ==
  ASSUME NEW cd \in Seq(Contexts), NEW ce \in Seq(Contexts), Shortens(cd, ce)
  PROVE  /\ Len(cd) \in Nat /\ Len(ce) \in Nat /\ Len(ce) >= 1 /\ Len(ce) <= Len(cd)
         /\ \A i \in 1 .. Len(ce) : /\ BaseIn(ce)[i] = BaseIn(cd)[i]
                                    /\ ce[i].kind = cd[i].kind /\ ce[i].fn = cd[i].fn
                                    /\ ce[i].callerLevel = cd[i].callerLevel
         /\ PendingIn(ce) = PendingIn(cd) \cap 1 .. Len(ce)
         /\ ScopedIn(ce) = ScopedIn(cd) \cap 1 .. Len(ce)
         /\ \A k \in 0 .. Len(ce) : \A b : LastBody(ce, k, b) <=> LastBody(cd, k, b)
         /\ \A i \in 1 .. Len(ce) : \A b : HomeOf(ce, i, b) <=> HomeOf(cd, i, b)
<1>1. Len(cd) \in Nat /\ Len(ce) \in Nat /\ Len(ce) >= 1 /\ Len(ce) <= Len(cd)
  BY LenProperties DEF Shortens
<1>2. \A i \in 1 .. Len(ce) - 1 : ce[i] = cd[i]
  BY DEF Shortens
<1>3. \A i \in 1 .. Len(ce) : ce[i].kind = cd[i].kind /\ ce[i].fn = cd[i].fn /\ ce[i].callerLevel = cd[i].callerLevel
  BY <1>1 DEF Shortens
<1>4. \A i \in 1 .. Len(ce) : BaseIn(ce)[i] = BaseIn(cd)[i]
  <2> DEFINE k == Len(ce) - 1
  <2>1. k \in Nat /\ k <= Len(cd) /\ k <= Len(ce) /\ k + 1 = Len(ce)
    BY <1>1
  <2>2. \A i \in 1 .. k + 1 : BaseIn(ce)[i] = BaseIn(cd)[i]
    <3> HIDE DEF k
    <3>1. \A i \in 1 .. k : ce[i] = cd[i]
      BY <1>2 DEF k
    <3> QED BY <2>1, <3>1, BaseAgrees
  <2> QED BY <2>1, <2>2
<1>5. PendingIn(ce) = PendingIn(cd) \cap 1 .. Len(ce)
  BY <1>1, <1>3 DEF PendingIn
<1>6. ScopedIn(ce) = ScopedIn(cd) \cap 1 .. Len(ce)
  BY <1>1, <1>3 DEF ScopedIn
<1>7. ASSUME NEW k \in 0 .. Len(ce)
      PROVE  /\ \A b : LastBody(ce, k, b) <=> LastBody(cd, k, b)
             /\ \A g, b : LastOf(ce, g, k, b) <=> LastOf(cd, g, k, b)
  <2>1. \A i \in 1 .. k : ce[i].kind = cd[i].kind /\ ce[i].fn = cd[i].fn
    BY <1>1, <1>3
  <2> QED BY <2>1, LastAgrees
<1>8. ASSUME NEW i \in 1 .. Len(ce), NEW b PROVE HomeOf(ce, i, b) <=> HomeOf(cd, i, b)
  <2>1. i - 1 \in 0 .. Len(ce)
    BY <1>1
  <2>2. ce[i].fn = cd[i].fn
    BY <1>3
  <2> QED BY <1>7, <2>1, <2>2 DEF HomeOf
<1> QED BY <1>1, <1>3, <1>4, <1>5, <1>6, <1>7, <1>8

LEMMA NestedStays ==
  ASSUME NEW cd \in Seq(Contexts), NEW ce \in Seq(Contexts), Shortens(cd, ce), Nested(cd)
  PROVE  Nested(ce)
<1>1. /\ Len(cd) \in Nat /\ Len(ce) \in Nat /\ Len(ce) >= 1 /\ Len(ce) <= Len(cd)
      /\ \A i \in 1 .. Len(ce) : ce[i].kind = cd[i].kind /\ ce[i].fn = cd[i].fn /\ ce[i].callerLevel = cd[i].callerLevel
      /\ \A k \in 0 .. Len(ce) : \A b : LastBody(ce, k, b) <=> LastBody(cd, k, b)
  BY ShortensFacts
<1>2. ce # <<>> /\ ce[1].kind = "body" /\ ce[1].fn = Main
  <2>1. 1 \in 1 .. Len(ce)
    BY <1>1
  <2> QED BY <1>1, <2>1 DEF Nested
<1>3. ASSUME NEW i \in 2 .. Len(ce)
      PROVE  /\ ce[i].fn \in Fn
             /\ ce[i].kind = "body" => ce[i].fn \notin Intrinsic
             /\ ce[i].fn \in Function => ce[i - 1].temps < MaxTemps
             /\ \A b \in 1 .. Len(ce) : LastBody(ce, i - 1, b) =>
                  /\ ce[i].fn \notin Intrinsic => Encl[ce[i].fn] \in Around(ce[b].fn)
                  /\ ce[i].kind = "body" => ce[i].callerLevel = Depth[ce[b].fn]
  <2>1. i \in 2 .. Len(cd) /\ i - 1 \in 1 .. Len(ce) - 1 /\ i - 1 \in 0 .. Len(ce) /\ i \in 1 .. Len(ce)
    BY <1>1
  <2>2. ce[i - 1] = cd[i - 1]
    BY <2>1 DEF Shortens
  <2>3. ce[i].kind = cd[i].kind /\ ce[i].fn = cd[i].fn /\ ce[i].callerLevel = cd[i].callerLevel
    BY <1>1, <2>1
  <2>4. /\ cd[i].fn \in Fn
        /\ cd[i].kind = "body" => cd[i].fn \notin Intrinsic
        /\ cd[i].fn \in Function => cd[i - 1].temps < MaxTemps
    BY <2>1 DEF Nested
  <2>5. ASSUME NEW b \in 1 .. Len(ce), LastBody(ce, i - 1, b)
        PROVE  /\ ce[i].fn \notin Intrinsic => Encl[ce[i].fn] \in Around(ce[b].fn)
               /\ ce[i].kind = "body" => ce[i].callerLevel = Depth[ce[b].fn]
    <3>1. LastBody(cd, i - 1, b) /\ b \in 1 .. Len(cd)
      BY <1>1, <2>1, <2>5
    <3>2. /\ cd[i].fn \notin Intrinsic => Encl[cd[i].fn] \in Around(cd[b].fn)
          /\ cd[i].kind = "body" => cd[i].callerLevel = Depth[cd[b].fn]
      BY <2>1, <3>1 DEF Nested
    <3>3. ce[b].fn = cd[b].fn
      BY <1>1
    <3> QED BY <2>3, <3>2, <3>3
  <2> QED BY <2>2, <2>3, <2>4, <2>5
<1> QED BY <1>2, <1>3 DEF Nested

\* The frames of the contexts that are left keep what is in their cells 1, 2 and
\* 4.
LEMMA LinkedStays ==
  ASSUME NEW cd \in Seq(Contexts), NEW ce \in Seq(Contexts), Shortens(cd, ce),
         NEW cells, NEW after, Linked(cd, cells),
         \A i \in 2 .. Len(ce) : \A k \in {1, 2, 4} : after[BaseIn(cd)[i] + k] = cells[BaseIn(cd)[i] + k]
  PROVE  Linked(ce, after)
<1>1. /\ Len(cd) \in Nat /\ Len(ce) \in Nat /\ Len(ce) >= 1 /\ Len(ce) <= Len(cd)
      /\ \A i \in 1 .. Len(ce) : BaseIn(ce)[i] = BaseIn(cd)[i] /\ ce[i].fn = cd[i].fn
      /\ \A k \in 0 .. Len(ce) : \A b : LastBody(ce, k, b) <=> LastBody(cd, k, b)
      /\ \A i \in 1 .. Len(ce) : \A b : HomeOf(ce, i, b) <=> HomeOf(cd, i, b)
  BY ShortensFacts
<1> SUFFICES ASSUME NEW i \in 2 .. Len(ce)
             PROVE  /\ after[BaseIn(ce)[i] + 4] = Entry("params", ce[i].fn)
                    /\ \A b \in 1 .. Len(ce) :
                         /\ LastBody(ce, i - 1, b) => after[BaseIn(ce)[i] + 2] = Entry("dynamic", BaseIn(ce)[b])
                         /\ HomeOf(ce, i, b) => after[BaseIn(ce)[i] + 1] = Entry("static", BaseIn(ce)[b])
  BY DEF Linked
<1>2. i \in 2 .. Len(cd) /\ i \in 1 .. Len(ce) /\ i - 1 \in 0 .. Len(ce)
  BY <1>1
<1>3. \A k \in {1, 2, 4} : after[BaseIn(ce)[i] + k] = cells[BaseIn(cd)[i] + k]
  BY <1>1, <1>2
<1>4. cells[BaseIn(cd)[i] + 4] = Entry("params", cd[i].fn)
  BY <1>2 DEF Linked
<1>5. ASSUME NEW b \in 1 .. Len(ce)
      PROVE  /\ LastBody(ce, i - 1, b) => after[BaseIn(ce)[i] + 2] = Entry("dynamic", BaseIn(ce)[b])
             /\ HomeOf(ce, i, b) => after[BaseIn(ce)[i] + 1] = Entry("static", BaseIn(ce)[b])
  <2>1. b \in 1 .. Len(cd)
    BY <1>1
  <2>2. /\ LastBody(cd, i - 1, b) => cells[BaseIn(cd)[i] + 2] = Entry("dynamic", BaseIn(cd)[b])
        /\ HomeOf(cd, i, b) => cells[BaseIn(cd)[i] + 1] = Entry("static", BaseIn(cd)[b])
    BY <1>2, <2>1 DEF Linked
  <2>3. BaseIn(ce)[b] = BaseIn(cd)[b]
    BY <1>1
  <2>4. (LastBody(ce, i - 1, b) <=> LastBody(cd, i - 1, b)) /\ (HomeOf(ce, i, b) <=> HomeOf(cd, i, b))
    BY <1>1, <1>2
  <2> QED BY <1>3, <2>2, <2>3, <2>4
<1> QED BY <1>1, <1>2, <1>3, <1>4, <1>5

-----------------------------------------------------------------------------
(* What a step leaves of the lists *)

LEMMA FrontFacts ==
  ASSUME NEW X, NEW s \in Seq(X), Len(s) > 0
  PROVE  /\ Front(s) \in Seq(X) /\ Len(Front(s)) = Len(s) - 1
         /\ \A i \in 1 .. Len(s) - 1 : Front(s)[i] = s[i]
<1>1. Len(s) \in Nat /\ Len(s) - 1 \in 0 .. Len(s)
  BY LenProperties
<1>2. \A i \in 1 .. Len(s) - 1 : s[i] \in X
  BY <1>1, ElementOfSeq
<1>3. /\ SubSeq(s, 1, Len(s) - 1) \in Seq(X)
      /\ Len(SubSeq(s, 1, Len(s) - 1)) = IF 1 <= Len(s) - 1 THEN Len(s) - 1 - 1 + 1 ELSE 0
      /\ \A i \in 1 .. Len(s) - 1 - 1 + 1 : SubSeq(s, 1, Len(s) - 1)[i] = s[1 + i - 1]
  BY <1>1, <1>2, SubSeqProperties
<1>4. Len(Front(s)) = Len(s) - 1
  <2>1. CASE 1 <= Len(s) - 1
    BY <1>1, <1>3, <2>1 DEF Front
  <2>2. CASE ~ (1 <= Len(s) - 1)
    <3>1. Len(s) - 1 = 0
      <4> DEFINE n == Len(s)
      <4>1. n \in Nat /\ n - 1 \in 0 .. n /\ ~ (1 <= n - 1)
        BY <1>1, <2>2
      <4> HIDE DEF n
      <4>2. n - 1 = 0
        BY <4>1
      <4> QED BY <4>2 DEF n
    <3> QED BY <1>3, <2>2, <3>1 DEF Front
  <2> QED BY <2>1, <2>2
<1>5. \A i \in 1 .. Len(s) - 1 : Front(s)[i] = s[i]
  <2>1. \A i \in 1 .. Len(s) - 1 : i \in 1 .. Len(s) - 1 - 1 + 1 /\ 1 + i - 1 = i
    BY <1>1
  <2> QED BY <1>3, <2>1 DEF Front
<1> QED BY <1>3, <1>4, <1>5 DEF Front

LEMMA ListedStays ==
  ASSUME NEW cd, NEW ce, NEW frames, Listed(cd, frames), PendingIn(ce) = PendingIn(cd),
         \A i \in PendingIn(cd) : BaseIn(ce)[i] = BaseIn(cd)[i] /\ ce[i].fn = cd[i].fn
  PROVE  Listed(ce, frames)
BY DEF Listed

LEMMA ListedFirst ==
  ASSUME NEW cd \in Seq(Contexts), NEW frames, Listed(cd, frames), Len(cd) \in PendingIn(cd)
  PROVE  /\ Len(frames) >= 1
         /\ frames[1].fp = BaseIn(cd)[Len(cd)] /\ frames[1].sb = Offsets[cd[Len(cd)].fn]
         /\ cd[Len(cd)].fn \notin Intrinsic => frames[1].level = Depth[cd[Len(cd)].fn]
<1> DEFINE n == Len(cd)
           S == PendingIn(cd) \ {n}
<1>1. n \in Nat /\ n - 1 \in Nat /\ n > n - 1
  BY LenProperties DEF PendingIn
<1>2. S \in SUBSET (1 .. n - 1) /\ PendingIn(cd) = S \cup {n}
  BY <1>1 DEF PendingIn
<1>3. From(PendingIn(cd), n) = 1 /\ Cardinality(PendingIn(cd)) = Cardinality(S) + 1 /\ Cardinality(S) \in Nat
  <2> HIDE DEF S
  <2>1. /\ Cardinality(S) \in Nat /\ Cardinality(S \cup {n}) = Cardinality(S) + 1
        /\ From(S \cup {n}, n) = 1 /\ UpTo(S \cup {n}, n) = Cardinality(S) + 1
        /\ \A i \in S : /\ From(S \cup {n}, i) = From(S, i) + 1 /\ From(S, i) \in 1 .. Cardinality(S)
                        /\ UpTo(S \cup {n}, i) = UpTo(S, i) /\ UpTo(S, i) \in 1 .. Cardinality(S)
    <3>1. S \in SUBSET (1 .. n - 1)
      BY <1>2
    <3> QED BY <1>1, <3>1, RanksWithLast
  <2> QED BY <1>2, <2>1
<1>4. 1 <= Cardinality(PendingIn(cd))
  <2> HIDE DEF S
  <2> QED BY <1>3
<1> QED BY <1>3, <1>4 DEF Listed

\* The last of the calls that are not entered goes, and the first frame.
LEMMA ListedDrop ==
  ASSUME NEW cd \in Seq(Contexts), NEW ce, NEW X, NEW frames \in Seq(X), Listed(cd, frames),
         PendingIn(ce) = PendingIn(cd) \ {Len(cd)}, Len(cd) \in PendingIn(cd),
         \A i \in PendingIn(ce) : BaseIn(ce)[i] = BaseIn(cd)[i] /\ ce[i].fn = cd[i].fn
  PROVE  Listed(ce, Tail(frames))
<1> DEFINE n == Len(cd)
           S == PendingIn(ce)
           T == PendingIn(cd)
<1>1. n \in Nat /\ n - 1 \in Nat /\ n > n - 1
  BY LenProperties DEF PendingIn
<1>2. S \in SUBSET (1 .. n - 1) /\ T = S \cup {n}
  BY <1>1 DEF PendingIn
<1>3. /\ Cardinality(T) = Cardinality(S) + 1 /\ Cardinality(S) \in Nat
      /\ \A i \in S : From(T, i) = From(S, i) + 1 /\ From(S, i) \in 1 .. Cardinality(S)
  <2> HIDE DEF S, T
  <2>1. /\ Cardinality(S) \in Nat /\ Cardinality(S \cup {n}) = Cardinality(S) + 1
        /\ From(S \cup {n}, n) = 1 /\ UpTo(S \cup {n}, n) = Cardinality(S) + 1
        /\ \A i \in S : /\ From(S \cup {n}, i) = From(S, i) + 1 /\ From(S, i) \in 1 .. Cardinality(S)
                        /\ UpTo(S \cup {n}, i) = UpTo(S, i) /\ UpTo(S, i) \in 1 .. Cardinality(S)
    BY <1>1, <1>2, RanksWithLast
  <2> QED BY <1>2, <2>1
<1>4. Len(frames) = Cardinality(S) + 1 /\ frames # <<>>
  BY <1>3 DEF Listed
<1>5. Len(Tail(frames)) = Cardinality(S) /\ \A k \in 1 .. Cardinality(S) : Tail(frames)[k] = frames[k + 1]
  <2>1. Len(Tail(frames)) = Len(frames) - 1 /\ \A k \in 1 .. Len(Tail(frames)) : Tail(frames)[k] = frames[k + 1]
    BY <1>4, HeadTailProperties
  <2> HIDE DEF S
  <2> QED BY <1>3, <1>4, <2>1
<1>6. ASSUME NEW i \in S
      PROVE  LET frame == Tail(frames)[From(S, i)]
             IN  /\ frame.fp = BaseIn(ce)[i] /\ frame.sb = Offsets[ce[i].fn]
                 /\ ce[i].fn \notin Intrinsic => frame.level = Depth[ce[i].fn]
  <2>1. Tail(frames)[From(S, i)] = frames[From(T, i)]
    BY <1>3, <1>5
  <2>2. i \in T
    OBVIOUS
  <2>3. LET frame == frames[From(T, i)]
        IN  /\ frame.fp = BaseIn(cd)[i] /\ frame.sb = Offsets[cd[i].fn]
            /\ cd[i].fn \notin Intrinsic => frame.level = Depth[cd[i].fn]
    BY <2>2 DEF Listed
  <2> QED BY <2>1, <2>3
<1> QED BY <1>5, <1>6 DEF Listed

LEMMA ListedMore ==
  ASSUME NEW cd \in Seq(Contexts), NEW ce, NEW X, NEW frames \in Seq(X), NEW r \in X, Listed(cd, frames),
         PendingIn(ce) = PendingIn(cd) \cup {Len(cd) + 1},
         \A i \in PendingIn(cd) : BaseIn(ce)[i] = BaseIn(cd)[i] /\ ce[i].fn = cd[i].fn,
         r.fp = BaseIn(ce)[Len(cd) + 1], r.sb = Offsets[ce[Len(cd) + 1].fn],
         ce[Len(cd) + 1].fn \notin Intrinsic => r.level = Depth[ce[Len(cd) + 1].fn]
  PROVE  Listed(ce, <<r>> \o frames)
<1> DEFINE m == Len(cd) + 1
           S == PendingIn(cd)
           T == PendingIn(ce)
<1>1. Len(cd) \in Nat /\ m \in Nat /\ m > Len(cd)
  BY LenProperties
<1>2. S \in SUBSET (1 .. Len(cd)) /\ T = S \cup {m}
  BY DEF PendingIn
<1>3. /\ Cardinality(T) = Cardinality(S) + 1 /\ Cardinality(S) \in Nat /\ From(T, m) = 1
      /\ \A i \in S : From(T, i) = From(S, i) + 1 /\ From(S, i) \in 1 .. Cardinality(S)
  <2> HIDE DEF S, T
  <2>1. /\ Cardinality(S) \in Nat /\ Cardinality(S \cup {m}) = Cardinality(S) + 1
        /\ From(S \cup {m}, m) = 1 /\ UpTo(S \cup {m}, m) = Cardinality(S) + 1
        /\ \A i \in S : /\ From(S \cup {m}, i) = From(S, i) + 1 /\ From(S, i) \in 1 .. Cardinality(S)
                        /\ UpTo(S \cup {m}, i) = UpTo(S, i) /\ UpTo(S, i) \in 1 .. Cardinality(S)
    BY <1>1, <1>2, RanksWithLast
  <2> QED BY <1>2, <2>1
<1>4. Len(frames) = Cardinality(S)
  BY DEF Listed
<1>5. <<r>> \in Seq(X) /\ Len(<<r>>) = 1 /\ <<r>>[1] = r
  OBVIOUS
<1>6. /\ Len(<<r>> \o frames) = Cardinality(T)
      /\ (<<r>> \o frames)[1] = r
      /\ \A k \in 1 .. Cardinality(S) : (<<r>> \o frames)[k + 1] = frames[k]
  BY <1>3, <1>4, <1>5, ConcatProperties
<1>7. ASSUME NEW i \in T
      PROVE  LET frame == (<<r>> \o frames)[From(T, i)]
             IN  /\ frame.fp = BaseIn(ce)[i] /\ frame.sb = Offsets[ce[i].fn]
                 /\ ce[i].fn \notin Intrinsic => frame.level = Depth[ce[i].fn]
  <2>1. CASE i = m
    BY <1>3, <1>6, <2>1
  <2>2. CASE i # m
    <3>1. i \in S
      BY <1>2, <2>2
    <3>2. (<<r>> \o frames)[From(T, i)] = frames[From(S, i)]
      BY <1>3, <1>6, <3>1
    <3>3. LET frame == frames[From(S, i)]
          IN  /\ frame.fp = BaseIn(cd)[i] /\ frame.sb = Offsets[cd[i].fn]
              /\ cd[i].fn \notin Intrinsic => frame.level = Depth[cd[i].fn]
      BY <3>1 DEF Listed
    <3> QED BY <3>1, <3>2, <3>3
  <2> QED BY <2>1, <2>2
<1> QED BY <1>6, <1>7 DEF Listed

LEMMA PushedStays ==
  ASSUME NEW cd, NEW ce, NEW sc, NEW lost, Pushed(cd, sc, lost), ScopedIn(ce) = ScopedIn(cd),
         \A i \in ScopedIn(cd) : ce[i].fn = cd[i].fn
  PROVE  Pushed(ce, sc, lost)
BY DEF Pushed

\* A scope is popped.
LEMMA PushedFront ==
  ASSUME NEW cd \in Seq(Contexts), NEW X, NEW sc \in Seq(X), NEW lost \in Nat, Pushed(cd, sc, lost), Len(sc) > 0
  PROVE  Pushed(cd, Front(sc), lost + 1)
<1> DEFINE S == ScopedIn(cd)
<1>1. Len(cd) \in Nat /\ S \in SUBSET (1 .. Len(cd))
  BY LenProperties DEF ScopedIn
<1>2. Cardinality(S) \in Nat /\ \A i \in S : UpTo(S, i) \in 1 .. Cardinality(S)
  <2> HIDE DEF S
  <2> QED BY <1>1, Ranks
<1>3. Len(sc) = Cardinality(S) - lost /\ Len(sc) \in Nat
  BY LenProperties DEF Pushed
<1>4. Len(Front(sc)) = Len(sc) - 1 /\ \A k \in 1 .. Len(sc) - 1 : Front(sc)[k] = sc[k]
  BY FrontFacts
<1>5. ASSUME NEW i \in S, UpTo(S, i) <= Len(Front(sc)) PROVE Front(sc)[UpTo(S, i)] = cd[i].fn
  <2>1. UpTo(S, i) <= Len(sc) /\ UpTo(S, i) \in 1 .. Len(sc) - 1
    BY <1>2, <1>3, <1>4, <1>5
  <2>2. sc[UpTo(S, i)] = cd[i].fn
    BY <2>1 DEF Pushed
  <2> QED BY <1>4, <2>1, <2>2
<1>6. Len(Front(sc)) = Cardinality(S) - (lost + 1)
  BY <1>2, <1>3, <1>4
<1> QED BY <1>5, <1>6 DEF Pushed

\* The call that has lost its scope goes.
LEMMA PushedDrop ==
  ASSUME NEW cd \in Seq(Contexts), NEW ce, NEW sc, NEW lost \in Nat \ {0}, Pushed(cd, sc, lost),
         ScopedIn(ce) = ScopedIn(cd) \ {Len(cd)}, Len(cd) \in ScopedIn(cd),
         \A i \in ScopedIn(ce) : ce[i].fn = cd[i].fn
  PROVE  Pushed(ce, sc, lost - 1)
<1> DEFINE n == Len(cd)
           S == ScopedIn(ce)
           T == ScopedIn(cd)
<1>1. n \in Nat /\ n - 1 \in Nat /\ n > n - 1
  BY LenProperties DEF ScopedIn
<1>2. S \in SUBSET (1 .. n - 1) /\ T = S \cup {n}
  BY <1>1 DEF ScopedIn
<1>3. /\ Cardinality(T) = Cardinality(S) + 1 /\ Cardinality(S) \in Nat
      /\ \A i \in S : UpTo(T, i) = UpTo(S, i)
  <2> HIDE DEF S, T
  <2>1. /\ Cardinality(S) \in Nat /\ Cardinality(S \cup {n}) = Cardinality(S) + 1
        /\ From(S \cup {n}, n) = 1 /\ UpTo(S \cup {n}, n) = Cardinality(S) + 1
        /\ \A i \in S : /\ From(S \cup {n}, i) = From(S, i) + 1 /\ From(S, i) \in 1 .. Cardinality(S)
                        /\ UpTo(S \cup {n}, i) = UpTo(S, i) /\ UpTo(S, i) \in 1 .. Cardinality(S)
    BY <1>1, <1>2, RanksWithLast
  <2> QED BY <1>2, <2>1
<1>4. Len(sc) = Cardinality(T) - lost /\ Cardinality(T) - lost = Cardinality(S) - (lost - 1)
  BY <1>3 DEF Pushed
<1>5. ASSUME NEW i \in S, UpTo(S, i) <= Len(sc) PROVE sc[UpTo(S, i)] = ce[i].fn
  <2>1. i \in T /\ UpTo(T, i) = UpTo(S, i)
    BY <1>3
  <2>2. sc[UpTo(T, i)] = cd[i].fn
    BY <1>5, <2>1 DEF Pushed
  <2> QED BY <2>1, <2>2
<1> QED BY <1>4, <1>5 DEF Pushed

LEMMA PushedMore ==
  ASSUME NEW cd \in Seq(Contexts), NEW ce, NEW X, NEW sc \in Seq(X), NEW f \in X, Pushed(cd, sc, 0),
         ScopedIn(ce) = ScopedIn(cd) \cup {Len(cd) + 1}, ce[Len(cd) + 1].fn = f,
         \A i \in ScopedIn(cd) : ce[i].fn = cd[i].fn
  PROVE  Pushed(ce, Append(sc, f), 0)
<1> DEFINE m == Len(cd) + 1
           S == ScopedIn(cd)
           T == ScopedIn(ce)
<1>1. Len(cd) \in Nat /\ m \in Nat /\ m > Len(cd)
  BY LenProperties
<1>2. S \in SUBSET (1 .. Len(cd)) /\ T = S \cup {m}
  BY DEF ScopedIn
<1>3. /\ Cardinality(T) = Cardinality(S) + 1 /\ Cardinality(S) \in Nat /\ UpTo(T, m) = Cardinality(T)
      /\ \A i \in S : UpTo(T, i) = UpTo(S, i) /\ UpTo(S, i) \in 1 .. Cardinality(S)
  <2> HIDE DEF S, T
  <2>1. /\ Cardinality(S) \in Nat /\ Cardinality(S \cup {m}) = Cardinality(S) + 1
        /\ From(S \cup {m}, m) = 1 /\ UpTo(S \cup {m}, m) = Cardinality(S) + 1
        /\ \A i \in S : /\ From(S \cup {m}, i) = From(S, i) + 1 /\ From(S, i) \in 1 .. Cardinality(S)
                        /\ UpTo(S \cup {m}, i) = UpTo(S, i) /\ UpTo(S, i) \in 1 .. Cardinality(S)
    BY <1>1, <1>2, RanksWithLast
  <2> QED BY <1>2, <2>1
<1>4. Len(sc) = Cardinality(S)
  BY <1>3 DEF Pushed
<1>5. /\ Len(Append(sc, f)) = Cardinality(T)
      /\ Append(sc, f)[Cardinality(T)] = f
      /\ \A k \in 1 .. Cardinality(S) : Append(sc, f)[k] = sc[k]
  BY <1>3, <1>4, AppendProperties
<1>6. ASSUME NEW i \in T PROVE Append(sc, f)[UpTo(T, i)] = ce[i].fn
  <2>1. CASE i = m
    BY <1>3, <1>5, <2>1
  <2>2. CASE i # m
    <3>1. i \in S
      BY <1>2, <2>2
    <3>2. UpTo(S, i) <= Len(sc)
      BY <1>3, <1>4, <3>1
    <3>3. sc[UpTo(S, i)] = cd[i].fn
      BY <3>1, <3>2 DEF Pushed
    <3> QED BY <1>3, <1>5, <3>1, <3>3
  <2> QED BY <2>1, <2>2
<1>7. Cardinality(T) = Cardinality(T) - 0
  BY <1>3
<1> QED BY <1>5, <1>6, <1>7 DEF Pushed

-----------------------------------------------------------------------------
(* What the invariant says of the innermost context *)

LEMMA InnermostFacts ==
  ASSUME IInv
  PROVE  /\ code \in Seq(Contexts) /\ Len(code) \in Nat /\ Len(code) >= 1
         /\ cur = code[Len(code)] /\ cur \in Contexts /\ cur.fn \in Fn \cup {Main}
         /\ cur.done \in Nat /\ cur.temps \in 0 .. MaxTemps /\ cur.callerLevel \in Nat
         /\ (Len(code) = 1 <=> cur.fn = Main)
         /\ (Len(code) = 1 => cur.kind = "body")
         /\ cur.kind = "body" => cur.fn \notin Intrinsic
         /\ cur.fn # Main => cur.fn \in Fn /\ Offsets[cur.fn] \in Nat /\ Nargs[cur.fn] \in Nat
         /\ Len(code) \in PendingIn(code) <=> cur.kind = "call"
         /\ cur.kind \in {"body", "call"}
<1>1. code \in Seq(Contexts)
  BY DEF IInv, TypeOK, Contexts
<1>2. Len(code) \in Nat /\ Len(code) >= 1
  BY <1>1, LenProperties DEF IInv, Nested
<1>3. cur = code[Len(code)] /\ cur \in Contexts
  BY <1>1, <1>2, CodeFacts DEF cur
<1>4. /\ cur.fn \in Fn \cup {Main} /\ cur.done \in Nat /\ cur.temps \in 0 .. MaxTemps /\ cur.callerLevel \in Nat
      /\ cur.kind \in {"body", "call"}
  BY <1>3 DEF Contexts
<1>5. Len(code) # 1 => cur.fn \in Fn /\ (cur.kind = "body" => cur.fn \notin Intrinsic)
  <2> SUFFICES ASSUME Len(code) # 1 PROVE cur.fn \in Fn /\ (cur.kind = "body" => cur.fn \notin Intrinsic)
    OBVIOUS
  <2>1. Len(code) \in 2 .. Len(code)
    BY <1>2
  <2> QED BY <1>3, <2>1 DEF IInv, Nested
<1>6. Len(code) = 1 => cur.fn = Main /\ cur.kind = "body"
  BY <1>2, <1>3 DEF IInv, Nested
<1>7. Main \notin Fn /\ Main \notin Intrinsic
  BY NestingAssumption
<1>8. cur.fn # Main => cur.fn \in Fn /\ Offsets[cur.fn] \in Nat /\ Nargs[cur.fn] \in Nat
  BY <1>4, NestingAssumption
<1>9. Len(code) \in PendingIn(code) <=> cur.kind = "call"
  BY <1>2, <1>3 DEF PendingIn
<1> QED BY <1>1, <1>2, <1>3, <1>4, <1>5, <1>6, <1>7, <1>8, <1>9

LEMMA StackFacts ==
  ASSUME IInv
  PROVE  LET n == Len(code) base == BaseIn(code)
         IN  /\ thestack \in Stacks
             /\ framepntr = base[running] /\ framepntr \in Cell /\ sbOff \in 0 .. MaxCells
             /\ top = base[n] + Size(cur) /\ top = base[n + 1] /\ top \in 0 .. MaxCells
             /\ base[n] \in Nat /\ Size(cur) \in Nat
             /\ \A c \in Cell : c >= top => thestack[c] = NoVal
             /\ \A i \in 2 .. n : base[i] \in Nat /\ base[i] + FrameSize <= top
             /\ \A i \in 2 .. n - 1 : base[i] + FrameSize <= base[n]
             /\ n = 1 => base[n] = 0
<1> DEFINE n == Len(code)
           base == BaseIn(code)
<1>1. code \in Seq(Contexts) /\ n \in Nat /\ n >= 1 /\ cur = code[n] /\ Nested(code)
  BY InnermostFacts DEF IInv
<1>2. /\ thestack \in Stacks
      /\ framepntr \in Cell /\ sbOff \in 0 .. MaxCells
  BY DEF IInv, TypeOK
<1>3. running \in 1 .. n /\ LastBody(code, n, running)
  BY <1>1, RunningIs
<1>4. framepntr = base[running] /\ top = base[n + 1] /\ top <= MaxCells /\ \A c \in Cell : c >= top => thestack[c] = NoVal
  BY <1>3 DEF IInv, Placed, top
<1>5. base[n + 1] = base[n] + Size(cur) /\ base[n] \in Nat
  BY <1>1, BaseFacts
<1>6. Size(cur) \in Nat
  BY <1>1, InnermostFacts, SizeFacts
<1>7. top \in 0 .. MaxCells
  BY <1>4, <1>5, <1>6, SizeAssumption
<1>8. ASSUME NEW i \in 2 .. n, NEW j \in 1 .. n + 1, i < j
      PROVE  base[i] \in Nat /\ base[i] + FrameSize <= base[j]
  <2>1. i \in 1 .. n
    BY <1>1
  <2>2. base[i] \in Nat /\ base[j] \in Nat /\ Size(code[i]) \in Nat /\ base[i] + Size(code[i]) <= base[j]
    BY <1>1, <1>8, <2>1, BaseInside
  <2>3. code[i] \in Contexts /\ code[i].fn # Main
    BY <1>1, <2>1, CodeFacts, NestingAssumption DEF Nested
  <2>4. Size(code[i]) >= FrameSize
    BY <2>3, SizeFacts
  <2> QED BY <2>2, <2>4 DEF FrameSize
<1>9. \A i \in 2 .. n : base[i] \in Nat /\ base[i] + FrameSize <= top
  BY <1>1, <1>4, <1>8
<1>10. \A i \in 2 .. n - 1 : base[i] + FrameSize <= base[n]
  BY <1>1, <1>8
<1>11. n = 1 => base[n] = 0
  BY <1>1, BaseFacts
<1> QED BY <1>2, <1>4, <1>5, <1>6, <1>7, <1>9, <1>10, <1>11

\* What the innermost context has on the stack.
LEMMA TopFacts ==
  ASSUME IInv
  PROVE  /\ cur.fn = Main => Size(cur) = cur.temps
         /\ cur.fn # Main /\ cur.kind = "body" => Size(cur) = FrameSize + Offsets[cur.fn] + cur.temps
         /\ cur.fn # Main /\ cur.kind = "call" => Size(cur) = FrameSize + cur.done + cur.temps
         /\ cur.kind = "body" => framepntr = BaseIn(code)[Len(code)] /\ running = Len(code)
<1>1. cur \in Contexts /\ code \in Seq(Contexts) /\ Nested(code)
  BY InnermostFacts DEF IInv
<1>2. cur.kind = "body" => running = Len(code)
  BY <1>1, RunningIs
<1> QED BY <1>1, <1>2, StackFacts, SizeFacts

\* A context inside the program.
LEMMA DeepFacts ==
  ASSUME IInv, cur.fn # Main
  PROVE  /\ code \in Seq(Contexts) /\ Len(code) \in Nat /\ Len(code) > 1 /\ Len(code) \in 2 .. Len(code)
         /\ cur = code[Len(code)] /\ cur \in Contexts /\ cur.fn \in Fn
         /\ cur.temps \in Nat /\ cur.done \in Nat /\ Offsets[cur.fn] \in Nat /\ Nargs[cur.fn] \in Nat
         /\ cur.kind = "body" => cur.fn \notin Intrinsic
         /\ cur.kind = "call" => Len(code) \in PendingIn(code)
<1> DEFINE n == Len(code)
<1>1. /\ code \in Seq(Contexts) /\ n \in Nat /\ n >= 1 /\ (n = 1 <=> cur.fn = Main)
      /\ cur = code[n] /\ cur \in Contexts /\ cur.temps \in 0 .. MaxTemps /\ cur.done \in Nat
      /\ cur.fn # Main => cur.fn \in Fn /\ Offsets[cur.fn] \in Nat /\ Nargs[cur.fn] \in Nat
      /\ cur.kind = "body" => cur.fn \notin Intrinsic
      /\ n \in PendingIn(code) <=> cur.kind = "call"
  BY InnermostFacts
<1> HIDE DEF n
<1>2. n > 1 /\ n \in 2 .. n /\ cur.temps \in Nat
  BY <1>1, SizeAssumption
<1> QED BY <1>1, <1>2 DEF n

-----------------------------------------------------------------------------
(* Steps in the innermost context *)

Changes(cd, ce) ==
  /\ Len(ce) = Len(cd)
  /\ \A i \in 1 .. Len(cd) - 1 : ce[i] = cd[i]
  /\ \A i \in {Len(cd)} : ce[i].kind = cd[i].kind /\ ce[i].fn = cd[i].fn /\ ce[i].callerLevel = cd[i].callerLevel

LEMMA InnerIs ==
  ASSUME IInv, NEW c \in Contexts
  PROVE  /\ Inner(c) \in Seq(Contexts) /\ Len(Inner(c)) = Len(code) /\ Inner(c)[Len(code)] = c
         /\ \A i \in 1 .. Len(code) - 1 : Inner(c)[i] = code[i]
<1>1. code \in Seq(Contexts) /\ Len(code) \in 1 .. Len(code)
  BY InnermostFacts
<1>2. /\ Inner(c) \in Seq(Contexts) /\ Len(Inner(c)) = Len(code)
      /\ \A j \in 1 .. Len(code) : Inner(c)[j] = IF j = Len(code) THEN c ELSE code[j]
  BY <1>1, ExceptSeq DEF Inner
<1> QED BY <1>1, <1>2

LEMMA InnerStep ==
  ASSUME IInv, TypeOK', Changes(code, code'),
         framepntr' = framepntr, flist' = flist, scopes' = scopes, scopeLevel' = scopeLevel,
         framepntr' + sbOff' = BaseIn(code)[Len(code)] + Size(code'[Len(code)]),
         framepntr' + sbOff' <= MaxCells,
         \A c \in Cell : c >= framepntr' + sbOff' => thestack'[c] = NoVal,
         \A i \in 2 .. Len(code) : \A k \in {1, 2, 4} :
           thestack'[BaseIn(code)[i] + k] = thestack[BaseIn(code)[i] + k],
         unwinding' = unwinding \/ (Lost(unwinding) = 0 /\ unwinding' \in {"no", "failed"}),
         cur.kind = "call" =>
           /\ code'[Len(code)].done <= Nargs[cur.fn]
           /\ unwinding' # "no" => code'[Len(code)].done < Nargs[cur.fn]
  PROVE  IInv'
<1> DEFINE n == Len(code)
<1>1. code \in Seq(Contexts) /\ n \in Nat /\ n >= 1 /\ cur = code[n] /\ code' \in Seq(Contexts)
  BY InnermostFacts DEF TypeOK, Contexts
<1>2. Shortens(code, code')
  BY <1>1 DEF Shortens, Changes
<1>3. Len(code') = n
  BY DEF Changes
<1>4. /\ \A i \in 1 .. n : /\ BaseIn(code')[i] = BaseIn(code)[i]
                           /\ code'[i].kind = code[i].kind /\ code'[i].fn = code[i].fn
      /\ PendingIn(code') = PendingIn(code) \cap 1 .. n
      /\ ScopedIn(code') = ScopedIn(code) \cap 1 .. n
      /\ \A k \in 0 .. n : \A b : LastBody(code', k, b) <=> LastBody(code, k, b)
  BY <1>1, <1>2, <1>3, ShortensFacts
<1>5. PendingIn(code') = PendingIn(code) /\ ScopedIn(code') = ScopedIn(code)
  BY <1>4 DEF PendingIn, ScopedIn
<1>6. Nested(code')
  BY <1>1, <1>2, NestedStays DEF IInv
<1>7. Linked(code', thestack')
  <2>1. Linked(code, thestack)
    BY DEF IInv
  <2>2. \A i \in 2 .. Len(code') : \A k \in {1, 2, 4} :
          thestack'[BaseIn(code)[i] + k] = thestack[BaseIn(code)[i] + k]
    BY <1>3
  <2> QED BY <1>1, <1>2, <2>1, <2>2, LinkedStays
<1>8. Placed(code', thestack', framepntr', sbOff')
  <2>1. ASSUME NEW b \in 1 .. n, LastBody(code', n, b) PROVE framepntr' = BaseIn(code')[b]
    <3>1. LastBody(code, n, b)
      BY <1>1, <1>4, <2>1
    <3> QED BY <1>4, <3>1 DEF IInv, Placed
  <2>2. BaseIn(code')[n + 1] = BaseIn(code)[n] + Size(code'[n])
    <3>1. n \in 1 .. Len(code')
      BY <1>1, <1>3
    <3>2. BaseIn(code')[n + 1] = BaseIn(code')[n] + Size(code'[n])
      BY <1>1, <3>1, BaseFacts
    <3> QED BY <1>1, <1>4, <3>2
  <2> QED BY <1>3, <2>1, <2>2 DEF Placed
<1>9. Listed(code', flist')
  <2>1. \A i \in PendingIn(code) : BaseIn(code')[i] = BaseIn(code)[i] /\ code'[i].fn = code[i].fn
    BY <1>4 DEF PendingIn
  <2> QED BY <1>5, <2>1, ListedStays DEF IInv
<1>10. Pushed(code', scopes', Lost(unwinding'))
  <2>1. \A i \in ScopedIn(code) : code'[i].fn = code[i].fn
    BY <1>4 DEF ScopedIn
  <2>2. Lost(unwinding') = Lost(unwinding)
    BY DEF Lost
  <2> QED BY <1>5, <2>1, <2>2, PushedStays DEF IInv
<1>11. Counted(code', unwinding')
  <2> SUFFICES ASSUME NEW i \in PendingIn(code)
               PROVE  /\ code'[i].done <= Nargs[code'[i].fn]
                      /\ i < n \/ unwinding' # "no" => code'[i].done < Nargs[code'[i].fn]
    BY <1>3, <1>5 DEF Counted
  <2>1. i \in 1 .. n /\ code[i].kind = "call"
    BY DEF PendingIn
  <2>2. CASE i = n
    BY <1>1, <1>4, <2>1, <2>2
  <2>3. CASE i # n
    <3>1. i < n /\ code'[i] = code[i]
      BY <1>1, <2>1, <2>3 DEF Changes
    <3> QED BY <3>1 DEF IInv, Counted
  <2> QED BY <2>2, <2>3
<1>12. Levelled(code', scopeLevel', unwinding')
  <2> SUFFICES ASSUME NEW b \in 1 .. n, LastBody(code', n, b)
               PROVE  /\ scopeLevel' = Depth[code'[b].fn]
                      /\ unwinding' = "clear" => b # 1
                      /\ unwinding' = "abort" => b = 1
    BY <1>3 DEF Levelled
  <2>1. LastBody(code, n, b) /\ code'[b].fn = code[b].fn
    BY <1>1, <1>4
  <2> QED BY <2>1 DEF IInv, Levelled
<1> QED BY <1>6, <1>7, <1>8, <1>9, <1>10, <1>11, <1>12 DEF IInv

LEMMA HeadersKept ==
  ASSUME IInv, NEW after, NEW end \in Nat, NEW m \in 0 .. Len(code),
         \A c \in Cell : c < end => after[c] = thestack[c],
         \A i \in 2 .. m : BaseIn(code)[i] + FrameSize <= end
  PROVE  \A i \in 2 .. m : \A k \in {1, 2, 4} : after[BaseIn(code)[i] + k] = thestack[BaseIn(code)[i] + k]
<1> SUFFICES ASSUME NEW i \in 2 .. m, NEW k \in {1, 2, 4}
             PROVE  after[BaseIn(code)[i] + k] = thestack[BaseIn(code)[i] + k]
  OBVIOUS
<1>1. BaseIn(code)[i] \in Nat /\ BaseIn(code)[i] + FrameSize <= top /\ top \in 0 .. MaxCells
  <2>1. i \in 2 .. Len(code)
    BY InnermostFacts
  <2> QED BY <2>1, StackFacts
<1>2. BaseIn(code)[i] + k \in Cell /\ BaseIn(code)[i] + k < end
  BY <1>1, SizeAssumption, SMTT(60) DEF Cell, FrameSize
<1> QED BY <1>2

\* The stack with its end cut off.
LEMMA PoppedFacts ==
  ASSUME IInv, NEW n \in Nat, n <= top
  PROVE  /\ Popped(n) \in Stacks
         /\ \A c \in Cell : c >= top - n => Popped(n)[c] = NoVal
         /\ \A c \in Cell : c < top - n => Popped(n)[c] = thestack[c]
<1>1. /\ thestack \in Stacks
      /\ top \in 0 .. MaxCells /\ \A c \in Cell : c >= top => thestack[c] = NoVal
  BY StackFacts
<1>2. \A c \in Cell : c \in Int
  BY DEF Cell
<1>3. NoVal \in Entries
  <2>1. 0 \in Cell
    BY SizeAssumption DEF Cell
  <2> QED BY <2>1 DEF NoVal
<1>4. \A c \in Cell : Popped(n)[c] = IF top - n <= c /\ c < top THEN NoVal ELSE thestack[c]
  BY DEF Popped
<1>5. \A c \in Cell : c >= top - n => Popped(n)[c] = NoVal
  BY <1>1, <1>2, <1>4, SizeAssumption
<1>6. \A c \in Cell : c < top - n => Popped(n)[c] = thestack[c]
  BY <1>1, <1>2, <1>4, SizeAssumption
<1>7. Popped(n) \in Stacks
  BY <1>1, <1>3 DEF Popped
<1> QED BY <1>5, <1>6, <1>7

LEMMA GrownType ==
  ASSUME TypeOK, NEW i
  PROVE  Grown(i) \in Nat
BY DEF TypeOK, Grown

\* A context with other operands and arguments.
LEMMA ContextFacts ==
  ASSUME NEW c \in Contexts, NEW t \in 0 .. MaxTemps
  PROVE  /\ [c EXCEPT !.temps = t] \in Contexts
         /\ [c EXCEPT !.temps = t].kind = c.kind /\ [c EXCEPT !.temps = t].fn = c.fn
         /\ [c EXCEPT !.temps = t].callerLevel = c.callerLevel
         /\ [c EXCEPT !.temps = t].done = c.done /\ [c EXCEPT !.temps = t].temps = t
BY DEF Contexts

LEMMA DoneFacts ==
  ASSUME NEW c \in Contexts, NEW t \in Nat
  PROVE  /\ [c EXCEPT !.done = t] \in Contexts
         /\ [c EXCEPT !.done = t].kind = c.kind /\ [c EXCEPT !.done = t].fn = c.fn
         /\ [c EXCEPT !.done = t].callerLevel = c.callerLevel
         /\ [c EXCEPT !.done = t].done = t /\ [c EXCEPT !.done = t].temps = c.temps
BY DEF Contexts

LEMMA SizeChange ==
  ASSUME NEW c \in Contexts, NEW d \in Contexts, d.kind = c.kind, d.fn = c.fn, d.done = c.done
  PROVE  Size(d) = Size(c) + d.temps - c.temps
<1>1. c.temps \in Nat /\ d.temps \in Nat /\ c.done \in Nat /\ c.kind \in {"body", "call"} /\ c.fn \in Fn \cup {Main}
  BY SizeAssumption DEF Contexts
<1>2. c.fn # Main => Offsets[c.fn] \in Nat
  BY <1>1, NestingAssumption
<1>3. CASE c.fn = Main
  <2>1. Size(c) = c.temps /\ Size(d) = d.temps
    BY <1>3, SizeFacts
  <2> QED BY <1>1, <2>1
<1>4. CASE c.fn # Main /\ c.kind = "body"
  <2>1. Size(c) = FrameSize + Offsets[c.fn] + c.temps /\ Size(d) = FrameSize + Offsets[c.fn] + d.temps
    BY <1>4, SizeFacts
  <2> QED BY <1>1, <1>2, <1>4, <2>1 DEF FrameSize
<1>5. CASE c.fn # Main /\ c.kind = "call"
  <2>1. Size(c) = FrameSize + c.done + c.temps /\ Size(d) = FrameSize + c.done + d.temps
    BY <1>5, SizeFacts
  <2> QED BY <1>1, <2>1 DEF FrameSize
<1> QED BY <1>1, <1>3, <1>4, <1>5

\* An operand more.
LEMMA PushValueStep ==
  ASSUME IInv, PushValue
  PROVE  IInv'
<1> DEFINE n == Len(code)
           c == [cur EXCEPT !.temps = @ + 1]
<1>1. /\ Evaluating /\ cur.temps < MaxTemps /\ top < MaxCells
      /\ flist' = flist /\ scopeLevel' = scopeLevel /\ scopes' = scopes /\ unwinding' = unwinding
      /\ defined' = defined /\ typed' = typed
  BY DEF PushValue, names
<1>2. /\ code \in Seq(Contexts) /\ n \in Nat /\ n >= 1 /\ cur = code[n] /\ cur \in Contexts
      /\ cur.done \in Nat /\ cur.temps \in 0 .. MaxTemps
  BY InnermostFacts
<1>3. /\ framepntr \in Cell /\ sbOff \in 0 .. MaxCells /\ top = BaseIn(code)[n] + Size(cur) /\ top \in 0 .. MaxCells
      /\ BaseIn(code)[n] \in Nat /\ Size(cur) \in Nat
      /\ thestack \in Stacks
  BY StackFacts
<1>4. CASE ~ (top >= stackSize)
  <2>1. Push /\ code' = Inner(c) /\ fault' = fault
    BY <1>4 DEF PushValue
  <2>2. c \in Contexts /\ c.kind = cur.kind /\ c.fn = cur.fn /\ c.callerLevel = cur.callerLevel
        /\ c.done = cur.done /\ c.temps = cur.temps + 1
    <3>1. cur.temps + 1 \in 0 .. MaxTemps
      BY <1>1, <1>2, SizeAssumption
    <3> QED BY <1>2, <3>1, ContextFacts
  <2>3. Changes(code, code') /\ code'[n] = c /\ code' \in Seq(Contexts)
    <3> HIDE DEF c
    <3> QED BY <1>2, <2>1, <2>2, InnerIs DEF Changes
  <2>4. /\ thestack' = [thestack EXCEPT ![top] = Val] /\ sbOff' = sbOff + 1 /\ framepntr' = framepntr
        /\ stackSize' = Grown(top + 1)
    BY <2>1 DEF Push
  <2>5. framepntr' + sbOff' = top + 1
    BY <1>3, <2>4 DEF top, Cell
  <2>6. Size(c) = Size(cur) + 1
    <3> HIDE DEF c
    <3>1. Size(c) = Size(cur) + c.temps - cur.temps
      BY <1>2, <2>2, SizeChange
    <3> QED BY <1>2, <1>3, <2>2, <3>1, SizeAssumption
  <2>7. sbOff' \in 0 .. MaxCells
    BY <1>1, <1>3, <2>4, <2>5, SizeAssumption DEF top, Cell
  <2>8. TypeOK'
    <3>1. Val \in Entries
      BY SizeAssumption DEF Val, Cell
    <3>2. thestack' \in Stacks
      BY <1>3, <2>4, <3>1
    <3>3. stackSize' \in Nat
      BY <2>4, GrownType DEF IInv
    <3> QED BY <1>1, <1>3, <2>1, <2>3, <2>4, <2>7, <3>2, <3>3 DEF IInv, TypeOK, Contexts
  <2>9. \A d \in Cell : d >= framepntr' + sbOff' => thestack'[d] = NoVal
    <3>1. \A d \in Cell : d >= top => thestack[d] = NoVal
      BY StackFacts
    <3>2. \A d \in Cell : d \in Int
      BY DEF Cell
    <3> QED BY <1>3, <2>4, <2>5, <3>1, <3>2, SMTT(60)
  <2>10. \A i \in 2 .. n : \A k \in {1, 2, 4} : thestack'[BaseIn(code)[i] + k] = thestack[BaseIn(code)[i] + k]
    <3>1. \A d \in Cell : d < top => thestack'[d] = thestack[d]
      <4>1. \A d \in Cell : d \in Int
        BY DEF Cell
      <4> QED BY <1>3, <2>4, <4>1
    <3>2. \A i \in 2 .. n : BaseIn(code)[i] + FrameSize <= top
      BY StackFacts
    <3>3. top \in Nat /\ n \in 0 .. Len(code)
      BY <1>2, <1>3
    <3> QED BY <3>1, <3>2, <3>3, HeadersKept
  <2>11. cur.kind = "call" => cur.done <= Nargs[cur.fn] /\ (unwinding' # "no" => cur.done < Nargs[cur.fn])
    BY <1>1, <1>2, InnermostFacts DEF Evaluating, Running
  <2>12. framepntr' + sbOff' = BaseIn(code)[n] + Size(code'[n]) /\ framepntr' + sbOff' <= MaxCells
    BY <1>1, <1>3, <2>3, <2>5, <2>6, SizeAssumption, SMTT(60)
  <2> HIDE DEF c
  <2> QED BY <1>1, <2>2, <2>3, <2>4, <2>8, <2>9, <2>10, <2>11, <2>12, InnerStep
<1>5. CASE top >= stackSize
  <2>1. UNCHANGED <<stack, flist, scopeLevel, scopes, code, unwinding, names>> /\ fault' = "overrun"
    BY <1>5 DEF PushValue
  <2> QED BY <2>1 DEF IInv, TypeOK, stack, names
<1> QED BY <1>4, <1>5

\* Operands are taken from the stack.
LEMMA OperandsGo ==
  ASSUME IInv, NEW k \in Nat, k <= cur.temps, NEW c \in Contexts, code' = Inner(c),
         c.kind = cur.kind, c.fn = cur.fn, c.callerLevel = cur.callerLevel, c.done = cur.done,
         c.temps = cur.temps - k,
         thestack' \in Stacks,
         \A d \in Cell : d >= top - k => thestack'[d] = NoVal,
         \A i \in 2 .. Len(code) : \A j \in {1, 2, 4} :
           thestack'[BaseIn(code)[i] + j] = thestack[BaseIn(code)[i] + j],
         sbOff' = sbOff - k,
         UNCHANGED <<framepntr, stackSize, flist, scopeLevel, scopes, names, fault>>,
         unwinding' = unwinding \/ (Lost(unwinding) = 0 /\ unwinding' \in {"no", "failed"}),
         cur.kind = "call" => cur.done < Nargs[cur.fn]
  PROVE  IInv'
<1> DEFINE n == Len(code)
<1>1. /\ code \in Seq(Contexts) /\ n \in Nat /\ n >= 1 /\ cur = code[n] /\ cur \in Contexts
      /\ cur.done \in Nat /\ cur.temps \in Nat
  BY InnermostFacts, SizeAssumption
<1>2. /\ framepntr \in Cell /\ sbOff \in 0 .. MaxCells /\ top = BaseIn(code)[n] + Size(cur) /\ top \in 0 .. MaxCells
      /\ BaseIn(code)[n] \in Nat /\ Size(cur) \in Nat
  BY StackFacts
<1>3. Size(c) = Size(cur) - k /\ c.temps \in Nat
  <2>1. Size(c) = Size(cur) + c.temps - cur.temps
    BY <1>1, SizeChange
  <2> QED BY <1>1, <1>2, <2>1
<1>4. Changes(code, code') /\ code'[n] = c /\ code' \in Seq(Contexts)
  BY <1>1, InnerIs DEF Changes
<1>5. UNCHANGED <<framepntr, stackSize, flist, scopeLevel, scopes, defined, typed, fault>>
  BY DEF names
<1>6. framepntr' + sbOff' = top - k /\ framepntr' + sbOff' = BaseIn(code)[n] + Size(c)
  <2>1. framepntr \in Nat /\ sbOff \in Nat /\ top = framepntr + sbOff
    BY <1>2 DEF top, Cell
  <2>2. framepntr' = framepntr
    BY <1>5
  <2>3. framepntr' + sbOff' = top - k
    BY <2>1, <2>2, SMTT(60)
  <2>4. BaseIn(code)[n] + Size(c) = top - k
    BY <1>2, <1>3, SMTT(60)
  <2> QED BY <2>3, <2>4
<1>7. Size(c) \in Nat
  BY SizeFacts
<1>8. framepntr' + sbOff' <= MaxCells
  BY <1>2, <1>6, SizeAssumption
<1>9. sbOff' \in 0 .. MaxCells
  <2>1. framepntr <= BaseIn(code)[n] + Size(c)
    <3>1. CASE cur.kind = "body"
      <4>1. framepntr = BaseIn(code)[n]
        BY <3>1, TopFacts
      <4> QED BY <1>2, <1>7, <4>1
    <3>2. CASE cur.kind # "body"
      <4>1. running \in 1 .. n /\ code[running].kind = "body" /\ framepntr = BaseIn(code)[running]
        BY <1>1, RunningIs, StackFacts DEF IInv
      <4>2. running < n
        BY <1>1, <3>2, <4>1
      <4>3. framepntr <= BaseIn(code)[n]
        <5>1. running \in 1 .. n + 1 /\ n \in 1 .. n + 1 /\ running <= n
          BY <1>1, <4>1
        <5> QED BY <1>1, <4>1, <5>1, BaseOrder
      <4> QED BY <1>2, <1>7, <4>3 DEF Cell
    <3> QED BY <3>1, <3>2
  <2> QED BY <1>2, <1>5, <1>6, <2>1, SizeAssumption DEF Cell
<1>10. TypeOK'
  <2>1. unwinding' \in {"no", "failed", "clear", "abort"}
    BY DEF IInv, TypeOK
  <2> QED BY <1>4, <1>5, <1>9, <2>1 DEF IInv, TypeOK, Contexts
<1>11. \A d \in Cell : d >= framepntr' + sbOff' => thestack'[d] = NoVal
  BY <1>6
<1>12. cur.kind = "call" =>
         /\ code'[n].done <= Nargs[cur.fn]
         /\ unwinding' # "no" => code'[n].done < Nargs[cur.fn]
  BY <1>1, <1>4, InnermostFacts, NestingAssumption
<1>13. framepntr' + sbOff' = BaseIn(code)[n] + Size(code'[n])
  BY <1>4, <1>6
<1> QED BY <1>4, <1>5, <1>8, <1>10, <1>11, <1>12, <1>13, InnerStep

\* The innermost context keeps its frame, whatever operands it loses.
LEMMA OperandsAbove ==
  ASSUME IInv, NEW k \in Nat, k <= cur.temps
  PROVE  /\ k <= top /\ top - k \in Nat
         /\ \A i \in 2 .. Len(code) : BaseIn(code)[i] + FrameSize <= top - k
         /\ cur.fn # Main /\ cur.kind = "body" => BaseIn(code)[Len(code)] + FrameSize + Offsets[cur.fn] <= top - k
<1> DEFINE n == Len(code)
<1>1. /\ code \in Seq(Contexts) /\ n \in Nat /\ n >= 1 /\ cur = code[n] /\ cur \in Contexts
      /\ cur.done \in Nat /\ cur.temps \in Nat /\ (n = 1 <=> cur.fn = Main) /\ cur.kind \in {"body", "call"}
      /\ cur.fn # Main => Offsets[cur.fn] \in Nat
  BY InnermostFacts, SizeAssumption
<1>2. /\ top = BaseIn(code)[n] + Size(cur) /\ BaseIn(code)[n] \in Nat /\ Size(cur) \in Nat /\ top \in Nat
      /\ \A i \in 2 .. n - 1 : BaseIn(code)[i] \in Nat /\ BaseIn(code)[i] + FrameSize <= BaseIn(code)[n]
  <2>1. \A i \in 2 .. n - 1 : i \in 2 .. n
    BY <1>1
  <2> QED BY <2>1, StackFacts
<1>3. Size(cur) >= k /\ (n # 1 => Size(cur) >= FrameSize + k)
  BY <1>1, TopFacts, SizeAssumption, SMTT(60) DEF FrameSize
<1>4. cur.fn # Main /\ cur.kind = "body" => Size(cur) >= FrameSize + Offsets[cur.fn] + k
  BY <1>1, TopFacts DEF FrameSize
<1>5. ASSUME NEW i \in 2 .. n PROVE BaseIn(code)[i] + FrameSize <= top - k
  <2>1. CASE i = n
    <3> HIDE DEF n
    <3>1. n # 1
      BY <1>1, <2>1
    <3>2. Size(cur) >= FrameSize + k /\ top = BaseIn(code)[n] + Size(cur)
      BY <1>2, <1>3, <3>1
    <3> QED BY <1>2, <2>1, <3>2 DEF FrameSize
  <2>2. CASE i # n
    <3>1. i \in 2 .. n - 1
      BY <1>1, <2>2
    <3> QED BY <1>2, <1>3, <3>1, SMTT(60) DEF FrameSize
  <2> QED BY <2>1, <2>2
<1>6. k <= top /\ top - k \in Nat
  <2> HIDE DEF n
  <2> QED BY <1>2, <1>3
<1>7. cur.fn # Main /\ cur.kind = "body" => BaseIn(code)[n] + FrameSize + Offsets[cur.fn] <= top - k
  <2> SUFFICES ASSUME cur.fn # Main, cur.kind = "body"
               PROVE  BaseIn(code)[n] + FrameSize + Offsets[cur.fn] <= top - k
    OBVIOUS
  <2> HIDE DEF n
  <2>1. Size(cur) >= FrameSize + Offsets[cur.fn] + k /\ Offsets[cur.fn] \in Nat
    BY <1>1, <1>4
  <2>2. top = BaseIn(code)[n] + Size(cur) /\ BaseIn(code)[n] \in Nat /\ Size(cur) \in Nat
    BY <1>2
  <2> QED BY <2>1, <2>2 DEF FrameSize
<1> QED BY <1>5, <1>6, <1>7

LEMMA CombineStep ==
  ASSUME IInv, Combine
  PROVE  IInv'
<1> DEFINE c == [cur EXCEPT !.temps = @ - 1]
<1>1. /\ Evaluating /\ cur.temps > 1
      /\ thestack' = Popped(1) /\ sbOff' = sbOff - 1 /\ code' = Inner(c)
      /\ UNCHANGED <<framepntr, stackSize, flist, scopeLevel, scopes, names, fault>> /\ unwinding' = unwinding
  BY DEF Combine
<1>2. cur \in Contexts /\ cur.temps \in 0 .. MaxTemps
  BY InnermostFacts
<1>3. /\ c \in Contexts /\ c.kind = cur.kind /\ c.fn = cur.fn /\ c.callerLevel = cur.callerLevel
      /\ c.done = cur.done /\ c.temps = cur.temps - 1
  <2>1. cur.temps - 1 \in 0 .. MaxTemps
    BY <1>1, <1>2, SizeAssumption
  <2> QED BY <1>2, <2>1, ContextFacts
<1> HIDE DEF c
<1>4. 1 \in Nat /\ 1 <= cur.temps
  BY <1>1, <1>2
<1>5. 1 <= top /\ top - 1 \in Nat /\ \A i \in 2 .. Len(code) : BaseIn(code)[i] + FrameSize <= top - 1
  BY <1>4, OperandsAbove
<1>6. /\ thestack' \in Stacks
      /\ \A d \in Cell : d >= top - 1 => thestack'[d] = NoVal
      /\ \A d \in Cell : d < top - 1 => thestack'[d] = thestack[d]
  BY <1>1, <1>5, PoppedFacts
<1>7. \A i \in 2 .. Len(code) : \A j \in {1, 2, 4} :
        thestack'[BaseIn(code)[i] + j] = thestack[BaseIn(code)[i] + j]
  <2>1. Len(code) \in 0 .. Len(code)
    BY InnermostFacts
  <2> QED BY <1>5, <1>6, <2>1, HeadersKept
<1>8. cur.kind = "call" => cur.done < Nargs[cur.fn]
  BY <1>1 DEF Evaluating
<1> QED BY <1>1, <1>3, <1>4, <1>6, <1>7, <1>8, OperandsGo

LEMMA FailStep ==
  ASSUME IInv, NEW n \in 0 .. MaxTemps, Fail(n)
  PROVE  IInv'
<1> DEFINE c == [cur EXCEPT !.temps = @ - n]
<1>1. /\ Evaluating /\ n <= cur.temps /\ unwinding = "no"
      /\ thestack' = Popped(n) /\ sbOff' = sbOff - n /\ code' = Inner(c)
      /\ UNCHANGED <<framepntr, stackSize, flist, scopeLevel, scopes, names, fault>> /\ unwinding' = "failed"
  BY DEF Fail, Evaluating, Running
<1>2. cur \in Contexts /\ cur.temps \in 0 .. MaxTemps
  BY InnermostFacts
<1>3. /\ c \in Contexts /\ c.kind = cur.kind /\ c.fn = cur.fn /\ c.callerLevel = cur.callerLevel
      /\ c.done = cur.done /\ c.temps = cur.temps - n
  <2>1. cur.temps - n \in 0 .. MaxTemps
    BY <1>1, <1>2, SizeAssumption
  <2> QED BY <1>2, <2>1, ContextFacts
<1> HIDE DEF c
<1>4. n \in Nat /\ n <= cur.temps
  BY <1>1, SizeAssumption
<1>5. n <= top /\ top - n \in Nat /\ \A i \in 2 .. Len(code) : BaseIn(code)[i] + FrameSize <= top - n
  BY <1>4, OperandsAbove
<1>6. /\ thestack' \in Stacks
      /\ \A d \in Cell : d >= top - n => thestack'[d] = NoVal
      /\ \A d \in Cell : d < top - n => thestack'[d] = thestack[d]
  BY <1>1, <1>4, <1>5, PoppedFacts
<1>7. \A i \in 2 .. Len(code) : \A j \in {1, 2, 4} :
        thestack'[BaseIn(code)[i] + j] = thestack[BaseIn(code)[i] + j]
  <2>1. Len(code) \in 0 .. Len(code)
    BY InnermostFacts
  <2> QED BY <1>5, <1>6, <2>1, HeadersKept
<1>8. cur.kind = "call" => cur.done < Nargs[cur.fn]
  BY <1>1 DEF Evaluating
<1>9. Lost(unwinding) = 0 /\ unwinding' \in {"no", "failed"}
  BY <1>1 DEF Lost
<1> QED BY <1>1, <1>3, <1>4, <1>6, <1>7, <1>8, <1>9, OperandsGo

\* An assignment writes among the locals of an activation, below its operand and
\* beside every link.
LEMMA AssignedCell ==
  ASSUME IInv, cur.kind = "body", cur.temps = 1, NEW f \in Fn, f \in Around(cur.fn), NEW o \in Nat, o < Offsets[f]
  PROVE  /\ Address(Depth[f], o) \in Cell /\ Address(Depth[f], o) < top - 1
         /\ \A i \in 2 .. Len(code) : \A j \in {1, 2, 4} : Address(Depth[f], o) # BaseIn(code)[i] + j
<1> DEFINE n == Len(code)
<1>1. /\ code \in Seq(Contexts) /\ n \in Nat /\ n >= 1 /\ cur = code[n] /\ n \in 1 .. n /\ Nested(code)
      /\ Linked(code, thestack) /\ cur \in Contexts /\ cur.fn \in Fn \cup {Main}
  BY InnermostFacts DEF IInv
<1>2. PICK x \in 1 .. n : LastOf(code, f, n, x)
  BY <1>1, LexicalHomes
<1>3. code[x].fn = f /\ code[x].kind = "body" /\ f # Main /\ x # 1 /\ x \in 2 .. n
  BY <1>1, <1>2, NestingAssumption DEF LastOf, Nested
<1>4. framepntr = BaseIn(code)[n] /\ running = n
  BY TopFacts
<1>5. scopeLevel = Depth[cur.fn]
  <2>1. LastBody(code, n, n)
    BY <1>1, <1>4, RunningIs
  <2> QED BY <1>1, <2>1 DEF IInv, Levelled
<1>6. Hop(scopeLevel - Depth[f]) = BaseIn(code)[x]
  BY <1>1, <1>2, <1>4, <1>5, HopIs
<1>7. Address(Depth[f], o) = BaseIn(code)[x] + FrameSize + o
  BY <1>6 DEF Address
<1>8. /\ BaseIn(code)[x] \in Nat /\ Offsets[f] \in Nat
      /\ \A i \in 2 .. n : BaseIn(code)[i] \in Nat
      /\ top \in 0 .. MaxCells
  BY <1>3, StackFacts, NestingAssumption
<1>9. code[x] \in Contexts /\ code[x].temps \in Nat
  <2>1. code[x] \in Contexts
    BY <1>1, CodeFacts
  <2> QED BY <2>1, SizeAssumption DEF Contexts
<1>10. Size(code[x]) = FrameSize + Offsets[f] + code[x].temps
  BY <1>3, <1>9, SizeFacts
<1>11. \A i \in x + 1 .. n : BaseIn(code)[x] + FrameSize + Offsets[f] <= BaseIn(code)[i]
  <2> SUFFICES ASSUME NEW i \in x + 1 .. n PROVE BaseIn(code)[x] + FrameSize + Offsets[f] <= BaseIn(code)[i]
    OBVIOUS
  <2>1. i \in 1 .. n + 1 /\ x < i /\ i \in 2 .. n
    BY <1>1, <1>3
  <2>2. BaseIn(code)[x] + Size(code[x]) <= BaseIn(code)[i]
    BY <1>1, <2>1, BaseInside
  <2>3. BaseIn(code)[x] + (FrameSize + Offsets[f] + code[x].temps) <= BaseIn(code)[i]
    BY <1>10, <2>2
  <2>4. BaseIn(code)[i] \in Nat /\ BaseIn(code)[x] \in Nat /\ Offsets[f] \in Nat /\ code[x].temps \in Nat
    BY <1>8, <1>9, <2>1
  <2> HIDE DEF n
  <2> QED BY <2>3, <2>4 DEF FrameSize
<1>12. BaseIn(code)[x] + FrameSize + Offsets[f] <= top - 1
  <2>1. 1 \in Nat /\ 1 <= cur.temps
    OBVIOUS
  <2>2. CASE x = n
    BY <1>1, <1>3, <2>1, <2>2, OperandsAbove
  <2>3. CASE x # n
    <3>1. n \in x + 1 .. n /\ n \in 2 .. n
      BY <1>1, <1>3, <2>3
    <3>2. BaseIn(code)[n] + FrameSize <= top - 1
      BY <2>1, <3>1, OperandsAbove
    <3>3. BaseIn(code)[x] + FrameSize + Offsets[f] <= BaseIn(code)[n] /\ BaseIn(code)[n] \in Nat
      BY <1>8, <1>11, <3>1
    <3>4. BaseIn(code)[x] \in Nat /\ Offsets[f] \in Nat /\ top \in Nat
      BY <1>8
    <3> HIDE DEF n
    <3> QED BY <3>2, <3>3, <3>4 DEF FrameSize
  <2> QED BY <2>2, <2>3
<1>13. Address(Depth[f], o) \in Cell /\ Address(Depth[f], o) < top - 1
  BY <1>7, <1>8, <1>12, SizeAssumption, SMTT(60) DEF Cell, FrameSize
<1>14. ASSUME NEW i \in 2 .. n, NEW j \in {1, 2, 4} PROVE Address(Depth[f], o) # BaseIn(code)[i] + j
  <2>1. CASE i = x
    BY <1>7, <1>8, <2>1 DEF FrameSize
  <2>2. CASE i > x
    <3>1. i \in x + 1 .. n
      BY <1>1, <1>3, <2>2
    <3> QED BY <1>7, <1>8, <1>11, <3>1, SMTT(60) DEF FrameSize
  <2>3. CASE i < x
    <3>1. BaseIn(code)[i] + FrameSize <= BaseIn(code)[x]
      <4>1. i \in 1 .. n /\ x \in 1 .. n + 1
        BY <1>1, <1>3
      <4>2. BaseIn(code)[i] + Size(code[i]) <= BaseIn(code)[x] /\ Size(code[i]) \in Nat
        BY <1>1, <2>3, <4>1, BaseInside
      <4>3. code[i] \in Contexts /\ code[i].fn # Main
        BY <1>1, <4>1, CodeFacts, NestingAssumption DEF Nested
      <4>4. Size(code[i]) >= FrameSize
        BY <4>3, SizeFacts
      <4> QED BY <1>8, <4>2, <4>4 DEF FrameSize
    <3> QED BY <1>7, <1>8, <3>1, SMTT(60) DEF FrameSize
  <2>4. x \in Nat /\ i \in Nat
    BY <1>1, <1>3
  <2> QED BY <2>1, <2>2, <2>3, <2>4
<1> QED BY <1>13, <1>14

LEMMA AssignStep ==
  ASSUME IInv, NEW f \in Fn \cup {Main}, NEW o \in 0 .. MaxTemps, Assign(f, o)
  PROVE  IInv'
<1> DEFINE c == [cur EXCEPT !.temps = 0]
<1>1. /\ Running /\ cur.kind = "body" /\ cur.temps = 1
      /\ f \in Around(cur.fn) /\ (f # Main => o < Offsets[f])
      /\ thestack' = IF f = Main THEN Popped(1) ELSE [Popped(1) EXCEPT ![Address(Depth[f], o)] = Val]
      /\ sbOff' = sbOff - 1 /\ code' = Inner(c)
      /\ UNCHANGED <<framepntr, stackSize, flist, scopeLevel, scopes, names, fault>> /\ unwinding' = unwinding
  BY DEF Assign
<1>2. cur \in Contexts
  BY InnermostFacts
<1>3. /\ c \in Contexts /\ c.kind = cur.kind /\ c.fn = cur.fn /\ c.callerLevel = cur.callerLevel
      /\ c.done = cur.done /\ c.temps = cur.temps - 1
  <2>1. 0 \in 0 .. MaxTemps
    BY SizeAssumption
  <2> QED BY <1>1, <1>2, <2>1, ContextFacts
<1> HIDE DEF c
<1>4. 1 \in Nat /\ 1 <= cur.temps
  BY <1>1
<1>5. 1 <= top /\ top - 1 \in Nat /\ \A i \in 2 .. Len(code) : BaseIn(code)[i] + FrameSize <= top - 1
  BY <1>4, OperandsAbove
<1>6. /\ Popped(1) \in Stacks
      /\ \A d \in Cell : d >= top - 1 => Popped(1)[d] = NoVal
      /\ \A d \in Cell : d < top - 1 => Popped(1)[d] = thestack[d]
  BY <1>5, PoppedFacts
<1>7. \A i \in 2 .. Len(code) : \A j \in {1, 2, 4} : Popped(1)[BaseIn(code)[i] + j] = thestack[BaseIn(code)[i] + j]
  <2>1. Len(code) \in 0 .. Len(code)
    BY InnermostFacts
  <2> QED BY <1>5, <1>6, <2>1, HeadersKept
<1>8. cur.kind = "call" => cur.done < Nargs[cur.fn]
  BY <1>1
<1>9. CASE f = Main
  <2>1. thestack' = Popped(1)
    BY <1>1, <1>9
  <2>2. /\ thestack' \in Stacks
        /\ \A d \in Cell : d >= top - 1 => thestack'[d] = NoVal
        /\ \A i \in 2 .. Len(code) : \A j \in {1, 2, 4} :
             thestack'[BaseIn(code)[i] + j] = thestack[BaseIn(code)[i] + j]
    BY <1>6, <1>7, <2>1
  <2> QED BY <1>1, <1>3, <1>4, <1>8, <2>2, OperandsGo
<1>10. CASE f # Main
  <2> DEFINE a == Address(Depth[f], o)
  <2>1. f \in Fn /\ o \in Nat /\ o < Offsets[f]
    BY <1>1, <1>10, SizeAssumption
  <2>2. a \in Cell /\ a < top - 1 /\ \A i \in 2 .. Len(code) : \A j \in {1, 2, 4} : a # BaseIn(code)[i] + j
    BY <1>1, <2>1, AssignedCell
  <2> HIDE DEF a
  <2>3. thestack' = [Popped(1) EXCEPT ![a] = Val]
    BY <1>1, <1>10 DEF a
  <2>4. thestack' \in Stacks
    <3>1. Val \in Entries
      BY SizeAssumption DEF Val, Cell
    <3> QED BY <1>6, <2>2, <2>3, <3>1
  <2>5. \A d \in Cell : d # a => thestack'[d] = Popped(1)[d]
    BY <1>6, <2>3
  <2>6. \A d \in Cell : d >= top - 1 => thestack'[d] = NoVal
    <3>1. \A d \in Cell : d \in Int
      BY DEF Cell
    <3> QED BY <1>5, <1>6, <2>2, <2>5, <3>1
  <2>7. \A i \in 2 .. Len(code) : \A j \in {1, 2, 4} :
          thestack'[BaseIn(code)[i] + j] = thestack[BaseIn(code)[i] + j]
    <3> SUFFICES ASSUME NEW i \in 2 .. Len(code), NEW j \in {1, 2, 4}
                 PROVE  thestack'[BaseIn(code)[i] + j] = thestack[BaseIn(code)[i] + j]
      OBVIOUS
    <3>1. BaseIn(code)[i] + j \in Cell
      <4>1. BaseIn(code)[i] \in Nat /\ BaseIn(code)[i] + FrameSize <= top /\ top \in 0 .. MaxCells
        BY StackFacts
      <4> QED BY <4>1, SizeAssumption, SMTT(60) DEF Cell, FrameSize
    <3> QED BY <1>7, <2>2, <2>5, <3>1
  <2> QED BY <1>1, <1>3, <1>4, <1>8, <2>4, <2>6, <2>7, OperandsGo
<1> QED BY <1>9, <1>10

LEMMA ConvertToLocalStep ==
  ASSUME IInv, ConvertToLocal
  PROVE  IInv'
<1> DEFINE n == Len(code)
           c == [cur EXCEPT !.temps = 0, !.done = @ + 1]
<1>1. /\ Evaluating /\ cur.kind = "call" /\ cur.temps = 1
      /\ UNCHANGED <<stack, flist, scopeLevel, scopes, names, fault>>
      /\ unwinding = "no" /\ cur.done < Nargs[cur.fn]
  BY DEF ConvertToLocal, Evaluating, Running
<1>2. UNCHANGED <<thestack, framepntr, sbOff, stackSize, flist, scopeLevel, scopes, defined, typed, fault>>
  BY <1>1 DEF stack, names
<1>3. /\ code \in Seq(Contexts) /\ n \in Nat /\ n >= 1 /\ cur = code[n] /\ cur \in Contexts
      /\ cur.done \in Nat /\ cur.fn # Main /\ Nargs[cur.fn] \in Nat
  BY <1>1, InnermostFacts
<1>4. CASE code' = Inner(c) /\ unwinding' = unwinding
  <2>1. /\ c \in Contexts /\ c.kind = cur.kind /\ c.fn = cur.fn /\ c.callerLevel = cur.callerLevel
        /\ c.done = cur.done + 1 /\ c.temps = 0
    <3> DEFINE d == [cur EXCEPT !.temps = 0]
    <3>1. /\ d \in Contexts /\ d.kind = cur.kind /\ d.fn = cur.fn /\ d.callerLevel = cur.callerLevel
          /\ d.done = cur.done /\ d.temps = 0
      <4>1. 0 \in 0 .. MaxTemps
        BY SizeAssumption
      <4> QED BY <1>3, <4>1, ContextFacts
    <3>2. c = [d EXCEPT !.done = d.done + 1]
      OBVIOUS
    <3>3. d.done + 1 \in Nat
      BY <1>3, <3>1
    <3> HIDE DEF c, d
    <3> QED BY <3>1, <3>2, <3>3, DoneFacts
  <2> HIDE DEF c
  <2>2. Changes(code, code') /\ code'[n] = c /\ code' \in Seq(Contexts)
    BY <1>3, <1>4, <2>1, InnerIs DEF Changes
  <2>3. Size(c) = Size(cur)
    <3>1. Size(cur) = FrameSize + cur.done + 1 /\ Size(c) = FrameSize + c.done + c.temps
      BY <1>1, <1>3, <2>1, SizeFacts
    <3> QED BY <1>3, <2>1, <3>1 DEF FrameSize
  <2>4. TypeOK'
    BY <1>2, <1>4, <2>2 DEF IInv, TypeOK, Contexts
  <2>5. /\ framepntr' + sbOff' = BaseIn(code)[n] + Size(code'[n]) /\ framepntr' + sbOff' <= MaxCells
        /\ \A d \in Cell : d >= framepntr' + sbOff' => thestack'[d] = NoVal
    <3>1. top = BaseIn(code)[n] + Size(cur) /\ top <= MaxCells /\ \A d \in Cell : d >= top => thestack[d] = NoVal
      BY StackFacts, SizeAssumption
    <3> QED BY <1>2, <2>2, <2>3, <3>1 DEF top
  <2>6. \A i \in 2 .. n : \A k \in {1, 2, 4} : thestack'[BaseIn(code)[i] + k] = thestack[BaseIn(code)[i] + k]
    BY <1>2
  <2>7. code'[n].done <= Nargs[cur.fn] /\ unwinding' = "no"
    BY <1>1, <1>3, <1>4, <2>1, <2>2
  <2> QED BY <1>2, <1>4, <2>2, <2>4, <2>5, <2>6, <2>7, InnerStep
<1>5. CASE code' = code /\ unwinding' = "failed"
  <2>1. Changes(code, code')
    BY <1>3, <1>5 DEF Changes
  <2>2. TypeOK'
    BY <1>2, <1>5 DEF IInv, TypeOK
  <2>3. /\ framepntr' + sbOff' = BaseIn(code)[n] + Size(code'[n]) /\ framepntr' + sbOff' <= MaxCells
        /\ \A d \in Cell : d >= framepntr' + sbOff' => thestack'[d] = NoVal
    <3>1. top = BaseIn(code)[n] + Size(cur) /\ top <= MaxCells /\ \A d \in Cell : d >= top => thestack[d] = NoVal
      BY StackFacts, SizeAssumption
    <3> QED BY <1>2, <1>3, <1>5, <3>1 DEF top
  <2>4. \A i \in 2 .. n : \A k \in {1, 2, 4} : thestack'[BaseIn(code)[i] + k] = thestack[BaseIn(code)[i] + k]
    BY <1>2
  <2>5. Lost(unwinding) = 0 /\ unwinding' \in {"no", "failed"}
    BY <1>1, <1>5 DEF Lost
  <2>6. code'[n].done <= Nargs[cur.fn] /\ code'[n].done < Nargs[cur.fn]
    BY <1>1, <1>3, <1>5
  <2> QED BY <1>2, <2>1, <2>2, <2>3, <2>4, <2>5, <2>6, InnerStep
<1> QED BY <1>4, <1>5 DEF ConvertToLocal

\* While an error is unwound, the frames that were begun in the body that is
\* left are exactly those inside it.
LEMMA UnfinishedIs ==
  ASSUME IInv, unwinding \in {"clear", "abort"}
  PROVE  Unfinished <=> cur.kind = "call"
<1> DEFINE n == Len(code)
           P == PendingIn(code)
<1>1. /\ code \in Seq(Contexts) /\ n \in Nat /\ n >= 1 /\ n \in 1 .. n /\ cur = code[n] /\ Nested(code)
      /\ (n \in P <=> cur.kind = "call") /\ cur.kind \in {"body", "call"}
  BY InnermostFacts DEF IInv
<1>2. running \in 1 .. n /\ code[running].kind = "body" /\ LastBody(code, n, running) /\ framepntr = BaseIn(code)[running]
  BY <1>1, RunningIs, StackFacts
<1>3. (unwinding = "clear" => running # 1) /\ (unwinding = "abort" => running = 1)
  BY <1>2 DEF IInv, Levelled
<1>4. Len(flist) = Cardinality(P) /\ Listed(code, flist) /\ flist \in Seq([level : Nat, fp : Cell, sb : Nat])
  BY DEF IInv, Listed, TypeOK
<1>5. ASSUME cur.kind = "call" PROVE Unfinished
  <2>1. n \in P
    BY <1>1, <1>5
  <2>2. Len(flist) >= 1 /\ flist[1].fp = BaseIn(code)[n]
    BY <1>1, <1>4, <2>1, ListedFirst
  <2>3. flist # <<>>
    BY <2>2
  <2>4. ASSUME unwinding = "clear" PROVE flist[1].fp > framepntr
    <3>1. running # n
      BY <1>1, <1>2, <1>5
    <3>2. running \in 2 .. n - 1 /\ running \in 2 .. n
      BY <1>1, <1>2, <1>3, <2>4, <3>1
    <3>3. BaseIn(code)[running] + FrameSize <= BaseIn(code)[n] /\ BaseIn(code)[running] \in Nat /\ BaseIn(code)[n] \in Nat
      BY <3>2, StackFacts
    <3> QED BY <1>2, <2>2, <3>3 DEF FrameSize
  <2> QED BY <2>3, <2>4 DEF Unfinished
<1>6. ASSUME cur.kind # "call", Unfinished PROVE FALSE
  <2>1. cur.kind = "body" /\ running = n
    BY <1>1, <1>6, TopFacts
  <2>2. flist # <<>> /\ (unwinding = "clear" => flist[1].fp > framepntr)
    BY <1>6 DEF Unfinished
  <2>3. Len(flist) \in Nat \ {0}
    BY <1>4, <2>2, EmptySeq
  <2>4. P # {}
    BY <1>4, <2>3, FS_EmptySet
  <2>5. CASE unwinding = "abort"
    <3>1. n = 1
      BY <1>3, <2>1, <2>5
    <3>2. P = {}
      BY <1>1, <2>1, <3>1 DEF PendingIn
    <3> QED BY <2>4, <3>2
  <2>6. CASE unwinding = "clear"
    <3>1. P \in SUBSET (1 .. n)
      BY DEF PendingIn
    <3>2. \A i \in P : From(P, i) \in 1 .. Cardinality(P)
      <4> HIDE DEF P, n
      <4> QED BY <1>1, <3>1, Ranks
    <3>3. PICK m \in P : \A j \in P : j <= m
      <4>1. P \in SUBSET (0 .. n)
        BY <1>1, <3>1
      <4> HIDE DEF P, n
      <4> QED BY <1>1, <2>4, <4>1, GreatestElement
    <3>4. From(P, m) = 1
      <4>1. {j \in P : j >= m} = {m}
        <5>1. \A j \in P : j \in Int /\ j <= m
          BY <3>1, <3>3
        <5> HIDE DEF P
        <5> QED BY <5>1
      <4> QED BY <4>1, FS_Singleton DEF From
    <3>5. flist[1].fp = BaseIn(code)[m]
      BY <1>4, <3>4 DEF Listed
    <3>6. BaseIn(code)[m] <= BaseIn(code)[n]
      <4>1. m \in 1 .. n + 1 /\ n \in 1 .. n + 1 /\ m <= n
        BY <1>1, <3>1
      <4> QED BY <1>1, <4>1, BaseOrder
    <3>7. BaseIn(code)[m] \in Nat /\ BaseIn(code)[n] \in Nat
      <4>1. m \in 1 .. n + 1 /\ n \in 1 .. n + 1
        BY <1>1, <3>1
      <4> QED BY <1>1, <4>1, BaseFacts
    <3> QED BY <1>2, <2>1, <2>2, <2>6, <3>5, <3>6, <3>7
  <2> QED BY <2>5, <2>6
<1> QED BY <1>5, <1>6

LEMMA CleanUpStackStep ==
  ASSUME IInv, CleanUpStack
  PROVE  IInv'
<1> DEFINE n == Len(code)
           c == [cur EXCEPT !.temps = 0]
<1>1. /\ unwinding = "abort" /\ ~ Unfinished
      /\ thestack' = Popped(sbOff) /\ sbOff' = 0 /\ code' = Inner(c) /\ unwinding' = "no"
      /\ UNCHANGED <<framepntr, stackSize, flist, scopeLevel, scopes, names, fault>>
  BY DEF CleanUpStack, Unwinding
<1>2. /\ code \in Seq(Contexts) /\ n \in Nat /\ n >= 1 /\ n \in 1 .. n /\ cur = code[n] /\ cur \in Contexts
      /\ cur.kind \in {"body", "call"} /\ cur.temps \in Nat /\ (n = 1 <=> cur.fn = Main)
  BY InnermostFacts, SizeAssumption
<1>3. cur.kind = "body"
  BY <1>1, <1>2, UnfinishedIs
<1>4. n = 1
  <2>1. running = n /\ LastBody(code, n, running)
    BY <1>2, <1>3, RunningIs DEF IInv
  <2> QED BY <1>1, <1>2, <2>1 DEF IInv, Levelled
<1>5. /\ framepntr = 0 /\ sbOff = cur.temps /\ top = cur.temps
  <2>1. /\ framepntr = BaseIn(code)[n] /\ BaseIn(code)[n] = 0 /\ top = BaseIn(code)[n] + Size(cur)
        /\ Size(cur) = cur.temps /\ sbOff \in 0 .. MaxCells
    BY <1>2, <1>3, <1>4, StackFacts, TopFacts
  <2> QED BY <1>2, <2>1 DEF top
<1>6. /\ c \in Contexts /\ c.kind = cur.kind /\ c.fn = cur.fn /\ c.callerLevel = cur.callerLevel
      /\ c.done = cur.done /\ c.temps = cur.temps - cur.temps
  <2>1. 0 \in 0 .. MaxTemps
    BY SizeAssumption
  <2>2. cur.temps - cur.temps = 0
    BY <1>2
  <2> QED BY <1>2, <2>1, <2>2, ContextFacts
<1> HIDE DEF c
<1>7. /\ thestack' \in Stacks
      /\ \A d \in Cell : d >= top - cur.temps => thestack'[d] = NoVal
  <2>1. sbOff \in Nat /\ sbOff <= top
    BY <1>2, <1>5
  <2>2. top - sbOff = top - cur.temps
    BY <1>5
  <2> QED BY <1>1, <2>1, <2>2, PoppedFacts
<1>8. \A i \in 2 .. Len(code) : \A j \in {1, 2, 4} :
        thestack'[BaseIn(code)[i] + j] = thestack[BaseIn(code)[i] + j]
  BY <1>4
<1>9. sbOff' = sbOff - cur.temps
  BY <1>1, <1>2, <1>5
<1>10. Lost(unwinding) = 0 /\ unwinding' \in {"no", "failed"}
  BY <1>1 DEF Lost
<1>11. cur.temps <= cur.temps /\ cur.kind # "call"
  BY <1>2, <1>3
<1> QED BY <1>1, <1>2, <1>6, <1>7, <1>8, <1>9, <1>10, <1>11, OperandsGo

-----------------------------------------------------------------------------
(* Steps out of the innermost context *)

\* ce is cd without its last context, which has left k values.
Leaves(cd, ce, k) ==
  /\ Len(cd) > 1 /\ Len(ce) = Len(cd) - 1
  /\ \A i \in 1 .. Len(cd) - 2 : ce[i] = cd[i]
  /\ \A i \in {Len(cd) - 1} : /\ ce[i].kind = cd[i].kind /\ ce[i].fn = cd[i].fn /\ ce[i].done = cd[i].done
                              /\ ce[i].callerLevel = cd[i].callerLevel /\ ce[i].temps = cd[i].temps + k

LEMMA LeavesFacts ==
  ASSUME NEW cd \in Seq(Contexts), NEW ce \in Seq(Contexts), NEW k \in Nat, Leaves(cd, ce, k)
  PROVE  /\ Shortens(cd, ce)
         /\ BaseIn(ce)[Len(cd)] = BaseIn(cd)[Len(cd)] + k
<1> DEFINE n == Len(cd)
<1>1. n \in Nat /\ n > 1 /\ Len(ce) = n - 1
  BY LenProperties DEF Leaves
<1>2. Shortens(cd, ce)
  BY <1>1 DEF Shortens, Leaves
<1>3. n - 1 \in 1 .. Len(cd) /\ n - 1 \in 1 .. Len(ce) /\ (n - 1) + 1 = n
  BY <1>1
<1>4. BaseIn(ce)[n - 1] = BaseIn(cd)[n - 1]
  BY <1>2, <1>3, ShortensFacts
<1>5. /\ BaseIn(ce)[(n - 1) + 1] = BaseIn(ce)[n - 1] + Size(ce[n - 1])
      /\ BaseIn(cd)[(n - 1) + 1] = BaseIn(cd)[n - 1] + Size(cd[n - 1])
      /\ BaseIn(cd)[n - 1] \in Nat
  <2>1. n - 1 \in 1 .. Len(cd) + 1
    BY <1>1
  <2> QED BY <1>3, <2>1, BaseFacts
<1>6. cd[n - 1] \in Contexts /\ ce[n - 1] \in Contexts
  BY <1>3, CodeFacts
<1>7. /\ ce[n - 1].kind = cd[n - 1].kind /\ ce[n - 1].fn = cd[n - 1].fn /\ ce[n - 1].done = cd[n - 1].done
      /\ ce[n - 1].temps = cd[n - 1].temps + k
  BY DEF Leaves
<1>8. Size(ce[n - 1]) = Size(cd[n - 1]) + ce[n - 1].temps - cd[n - 1].temps
  BY <1>6, <1>7, SizeChange
<1>9. Size(cd[n - 1]) \in Nat /\ cd[n - 1].temps \in Nat
  <2>1. Size(cd[n - 1]) \in Nat
    BY <1>6, SizeFacts
  <2>2. cd[n - 1].temps \in 0 .. MaxTemps
    BY <1>6 DEF Contexts
  <2> QED BY <2>1, <2>2, SizeAssumption
<1>10. BaseIn(ce)[n] = BaseIn(cd)[n] + k
  <2>1. Size(ce[n - 1]) = Size(cd[n - 1]) + k
    BY <1>7, <1>8, <1>9
  <2> QED BY <1>3, <1>4, <1>5, <1>9, <2>1
<1> QED BY <1>2, <1>10

LEMMA FrontLeaves ==
  ASSUME IInv, Len(code) > 1
  PROVE  Front(code) \in Seq(Contexts) /\ Leaves(code, Front(code), 0)
<1> DEFINE n == Len(code)
<1>1. code \in Seq(Contexts) /\ n \in Nat /\ n > 1
  BY InnermostFacts
<1>2. Front(code) \in Seq(Contexts) /\ Len(Front(code)) = n - 1 /\ \A i \in 1 .. n - 1 : Front(code)[i] = code[i]
  BY <1>1, FrontFacts
<1>3. n - 1 \in 1 .. n - 1 /\ n - 1 \in 1 .. n /\ \A i \in 1 .. n - 2 : i \in 1 .. n - 1
  BY <1>1
<1>4. code[n - 1] \in Contexts /\ code[n - 1].temps \in Nat
  <2>1. code[n - 1] \in Contexts
    BY <1>1, <1>3, CodeFacts
  <2> QED BY <2>1, SizeAssumption DEF Contexts
<1>5. code[n - 1].temps + 0 = code[n - 1].temps
  BY <1>4
<1> QED BY <1>1, <1>2, <1>3, <1>5 DEF Leaves

LEMMA OuterLeaves ==
  ASSUME IInv, Len(code) > 1
  PROVE  /\ Outer(Left(cur.fn)) \in Seq(Contexts) /\ Leaves(code, Outer(Left(cur.fn)), Left(cur.fn))
         /\ Left(cur.fn) \in {0, 1}
<1> DEFINE n == Len(code)
           k == Left(cur.fn)
           c == [code[n - 1] EXCEPT !.temps = @ + k]
<1>1. code \in Seq(Contexts) /\ n \in Nat /\ n > 1 /\ cur = code[n] /\ Nested(code)
  BY InnermostFacts DEF IInv
<1>2. Front(code) \in Seq(Contexts) /\ Len(Front(code)) = n - 1 /\ \A i \in 1 .. n - 1 : Front(code)[i] = code[i]
  BY <1>1, FrontFacts
<1>3. n - 1 \in 1 .. n - 1 /\ n - 1 \in 1 .. n /\ n \in 2 .. n /\ \A i \in 1 .. n - 2 : i \in 1 .. n - 1 /\ i # n - 1
  BY <1>1
<1>4. code[n - 1] \in Contexts /\ code[n - 1].temps \in 0 .. MaxTemps
  <2>1. code[n - 1] \in Contexts
    BY <1>1, <1>3, CodeFacts
  <2> QED BY <2>1 DEF Contexts
<1>5. k \in {0, 1} /\ (k = 1 => cur.fn \in Function)
  BY DEF Left
<1>6. code[n - 1].temps + k \in 0 .. MaxTemps
  <2>1. cur.fn \in Function => code[n - 1].temps < MaxTemps
    BY <1>1, <1>3 DEF Nested
  <2> QED BY <1>4, <1>5, <2>1, SizeAssumption
<1>7. /\ c \in Contexts /\ c.kind = code[n - 1].kind /\ c.fn = code[n - 1].fn /\ c.callerLevel = code[n - 1].callerLevel
      /\ c.done = code[n - 1].done /\ c.temps = code[n - 1].temps + k
  BY <1>4, <1>6, ContextFacts
<1>8. Outer(k) = [Front(code) EXCEPT ![n - 1] = c]
  <2>1. Front(code)[n - 1] = code[n - 1]
    BY <1>2, <1>3
  <2> QED BY <2>1 DEF Outer
<1> HIDE DEF c
<1>9. /\ Outer(k) \in Seq(Contexts) /\ Len(Outer(k)) = n - 1
      /\ \A j \in 1 .. n - 1 : Outer(k)[j] = IF j = n - 1 THEN c ELSE Front(code)[j]
  <2>1. n - 1 \in 1 .. Len(Front(code))
    BY <1>2, <1>3
  <2> QED BY <1>2, <1>7, <1>8, <2>1, ExceptSeq
<1>10. Outer(k)[n - 1] = c /\ \A i \in 1 .. n - 2 : Outer(k)[i] = code[i]
  BY <1>2, <1>3, <1>9
<1>11. Leaves(code, Outer(k), k)
  <2> HIDE DEF k
  <2> QED BY <1>1, <1>7, <1>9, <1>10 DEF Leaves
<1> QED BY <1>5, <1>9, <1>11

\* What the invariant says of the body around the innermost context.
LEMMA CallerFacts ==
  ASSUME IInv, Len(code) > 1, NEW b \in 1 .. Len(code), LastBody(code, Len(code) - 1, b)
  PROVE  /\ thestack[BaseIn(code)[Len(code)] + 2].v = BaseIn(code)[b]
         /\ BaseIn(code)[b] \in Nat /\ BaseIn(code)[b] <= BaseIn(code)[Len(code)]
         /\ code[b].fn \in Fn \cup {Main} /\ Depth[code[b].fn] \in Nat
         /\ cur.kind = "call" => /\ framepntr = BaseIn(code)[b] /\ scopeLevel = Depth[code[b].fn]
                                 /\ (unwinding = "clear" => b # 1) /\ (unwinding = "abort" => b = 1)
         /\ cur.kind = "body" => cur.callerLevel = Depth[code[b].fn]
<1> DEFINE n == Len(code)
<1>1. /\ code \in Seq(Contexts) /\ n \in Nat /\ n > 1 /\ n \in 2 .. n /\ cur = code[n] /\ Nested(code) /\ Linked(code, thestack)
      /\ cur.kind \in {"body", "call"}
  BY InnermostFacts DEF IInv
<1>2. thestack[BaseIn(code)[n] + 2].v = BaseIn(code)[b]
  <2>1. thestack[BaseIn(code)[n] + 2] = Entry("dynamic", BaseIn(code)[b])
    BY <1>1 DEF Linked
  <2> QED BY <2>1 DEF Entry
<1>3. BaseIn(code)[b] \in Nat /\ BaseIn(code)[b] <= BaseIn(code)[n]
  <2>1. b \in 1 .. n - 1 /\ b \in 1 .. n + 1 /\ n \in 1 .. n + 1 /\ b <= n
    BY <1>1 DEF LastBody
  <2> QED BY <1>1, <2>1, BaseFacts, BaseOrder
<1>4. code[b].fn \in Fn \cup {Main} /\ Depth[code[b].fn] \in Nat
  BY <1>1, CodeFacts, NestingAssumption
<1>5. ASSUME cur.kind = "call"
      PROVE  /\ framepntr = BaseIn(code)[b] /\ scopeLevel = Depth[code[b].fn]
             /\ (unwinding = "clear" => b # 1) /\ (unwinding = "abort" => b = 1)
  <2>1. LastBody(code, n, b)
    <3>1. \A j \in 1 .. n : code[j].kind = "body" => j \in 1 .. n - 1
      BY <1>1, <1>5
    <3>2. b \in 1 .. n /\ code[b].kind = "body" /\ \A j \in 1 .. n - 1 : code[j].kind = "body" => j <= b
      BY DEF LastBody
    <3> QED BY <3>1, <3>2 DEF LastBody
  <2> QED BY <2>1 DEF IInv, Placed, Levelled
<1>6. ASSUME cur.kind = "body" PROVE cur.callerLevel = Depth[code[b].fn]
  BY <1>1, <1>6 DEF Nested
<1> QED BY <1>2, <1>3, <1>4, <1>5, <1>6

LEMMA CallerExists ==
  ASSUME IInv, Len(code) > 1
  PROVE  \E b \in 1 .. Len(code) : LastBody(code, Len(code) - 1, b)
<1>1. code \in Seq(Contexts) /\ Len(code) \in Nat /\ Nested(code) /\ Len(code) - 1 \in 1 .. Len(code)
  BY InnermostFacts DEF IInv
<1>2. PICK b \in 1 .. Len(code) - 1 : LastBody(code, Len(code) - 1, b)
  BY <1>1, LastBodyExists
<1> QED BY <1>1, <1>2

LEMMA OutStep ==
  ASSUME IInv, NEW k \in {0, 1}, code' \in Seq(Contexts), Leaves(code, code', k),
         thestack' \in Stacks,
         \A c \in Cell : c >= BaseIn(code)[Len(code)] + k => thestack'[c] = NoVal,
         \A c \in Cell : c < BaseIn(code)[Len(code)] => thestack'[c] = thestack[c],
         sbOff' = BaseIn(code)[Len(code)] + k - framepntr',
         \A b \in 1 .. Len(code) : LastBody(code, Len(code) - 1, b) =>
           /\ framepntr' = BaseIn(code)[b] /\ scopeLevel' = Depth[code[b].fn]
           /\ (unwinding' = "clear" => b # 1) /\ (unwinding' = "abort" => b = 1),
         flist' = IF cur.kind = "call" THEN Tail(flist) ELSE flist,
         scopes' \in Seq(Fn \ Intrinsic), Pushed(code', scopes', Lost(unwinding')),
         unwinding' \in {"no", "failed", "clear", "abort"},
         stackSize' = stackSize, defined' = defined, typed' \subseteq typed, fault' = fault
  PROVE  IInv'
<1> DEFINE n == Len(code)
<1>1. /\ code \in Seq(Contexts) /\ n \in Nat /\ cur = code[n] /\ Nested(code)
      /\ cur.kind \in {"body", "call"} /\ (n \in PendingIn(code) <=> cur.kind = "call")
  BY InnermostFacts DEF IInv
<1>2. n > 1 /\ Len(code') = n - 1 /\ n - 1 \in Nat /\ n - 1 >= 1
  BY <1>1 DEF Leaves
<1>3. Shortens(code, code') /\ BaseIn(code')[n] = BaseIn(code)[n] + k
  BY <1>1, LeavesFacts
<1>4. /\ \A i \in 1 .. n - 1 : /\ BaseIn(code')[i] = BaseIn(code)[i]
                               /\ code'[i].kind = code[i].kind /\ code'[i].fn = code[i].fn
      /\ PendingIn(code') = PendingIn(code) \cap 1 .. n - 1
      /\ \A m \in 0 .. n - 1 : \A b : LastBody(code', m, b) <=> LastBody(code, m, b)
  <2> DEFINE ce == code'
  <2>1. ce \in Seq(Contexts) /\ Shortens(code, ce) /\ Len(ce) = n - 1
    BY <1>2, <1>3
  <2> HIDE DEF ce
  <2>2. /\ \A i \in 1 .. Len(ce) : BaseIn(ce)[i] = BaseIn(code)[i] /\ ce[i].kind = code[i].kind /\ ce[i].fn = code[i].fn
        /\ PendingIn(ce) = PendingIn(code) \cap 1 .. Len(ce)
        /\ \A m \in 0 .. Len(ce) : \A b : LastBody(ce, m, b) <=> LastBody(code, m, b)
    BY <1>1, <2>1, ShortensFacts
  <2> QED BY <2>1, <2>2 DEF ce
<1>5. /\ BaseIn(code)[n] \in Nat /\ BaseIn(code)[n] + k <= MaxCells
      /\ \A i \in 2 .. n - 1 : BaseIn(code)[i] + FrameSize <= BaseIn(code)[n]
  <2>1. n \in 2 .. n
    BY <1>2
  <2>2. BaseIn(code)[n] \in Nat /\ BaseIn(code)[n] + FrameSize <= top /\ top <= MaxCells
    BY <2>1, StackFacts, SizeAssumption
  <2>3. \A i \in 2 .. n - 1 : BaseIn(code)[i] + FrameSize <= BaseIn(code)[n]
    BY StackFacts
  <2>4. top \in 0 .. MaxCells
    BY StackFacts
  <2> QED BY <2>2, <2>3, <2>4, SizeAssumption DEF FrameSize
<1>6. PICK r \in 1 .. n : LastBody(code, n - 1, r)
  BY <1>2, CallerExists
<1>7. /\ framepntr' = BaseIn(code)[r] /\ framepntr' \in Nat /\ framepntr' <= BaseIn(code)[n]
      /\ scopeLevel' \in Nat
  <2>1. BaseIn(code)[r] \in Nat /\ BaseIn(code)[r] <= BaseIn(code)[n] /\ Depth[code[r].fn] \in Nat
    BY <1>2, <1>6, CallerFacts
  <2> QED BY <1>6, <2>1
<1>8. framepntr' \in Cell /\ sbOff' \in 0 .. MaxCells /\ framepntr' + sbOff' = BaseIn(code)[n] + k
  <2>1. BaseIn(code)[n] < MaxCells
    <3>1. n \in 2 .. n
      BY <1>2
    <3>2. BaseIn(code)[n] + FrameSize <= top /\ top \in 0 .. MaxCells
      BY <3>1, StackFacts
    <3> QED BY <1>5, <3>2, SizeAssumption DEF FrameSize
  <2>2. framepntr' \in Cell
    BY <1>5, <1>7, <2>1, SizeAssumption DEF Cell
  <2> DEFINE e == BaseIn(code)[n]
             f == framepntr'
             s == sbOff'
  <2>3. /\ e \in Nat /\ e + k <= MaxCells /\ f \in Nat /\ f <= e /\ s = e + k - f
        /\ k \in Nat /\ MaxCells \in Nat
    BY <1>5, <1>7, SizeAssumption
  <2> HIDE DEF e, f, s
  <2>4. s \in 0 .. MaxCells /\ f + s = e + k
    BY <2>3
  <2> QED BY <2>2, <2>4 DEF e, f, s
<1>9. Nested(code')
  BY <1>1, <1>3, NestedStays
<1>10. Linked(code', thestack')
  <2>1. Linked(code, thestack)
    BY DEF IInv
  <2>2. \A i \in 2 .. n - 1 : \A j \in {1, 2, 4} : thestack'[BaseIn(code)[i] + j] = thestack[BaseIn(code)[i] + j]
    <3> DEFINE end == BaseIn(code)[n]
               m == n - 1
               after == thestack'
    <3>1. m \in 0 .. Len(code) /\ end \in Nat
      BY <1>2, <1>5
    <3>2. \A c \in Cell : c < end => after[c] = thestack[c]
      OBVIOUS
    <3>3. \A i \in 2 .. m : BaseIn(code)[i] + FrameSize <= end
      BY <1>5
    <3> HIDE DEF end, m, after
    <3>4. \A i \in 2 .. m : \A j \in {1, 2, 4} : after[BaseIn(code)[i] + j] = thestack[BaseIn(code)[i] + j]
      BY <3>1, <3>2, <3>3, HeadersKept, SMTT(60)
    <3> QED BY <3>4 DEF m, after
  <2>3. \A i \in 2 .. Len(code') : \A j \in {1, 2, 4} : thestack'[BaseIn(code)[i] + j] = thestack[BaseIn(code)[i] + j]
    BY <1>2, <2>2
  <2> DEFINE after == thestack'
             ce == code'
  <2>4. /\ ce \in Seq(Contexts) /\ Shortens(code, ce)
        /\ \A i \in 2 .. Len(ce) : \A j \in {1, 2, 4} : after[BaseIn(code)[i] + j] = thestack[BaseIn(code)[i] + j]
    BY <1>3, <2>3
  <2> HIDE DEF after, ce
  <2>5. Linked(ce, after)
    BY <1>1, <2>1, <2>4, LinkedStays
  <2> QED BY <2>5 DEF after, ce
<1>11. Placed(code', thestack', framepntr', sbOff')
  <2>1. ASSUME NEW b \in 1 .. n - 1, LastBody(code', n - 1, b) PROVE framepntr' = BaseIn(code')[b]
    <3>1. LastBody(code, n - 1, b) /\ b \in 1 .. n
      BY <1>2, <1>4, <2>1
    <3> QED BY <1>4, <3>1
  <2>2. (n - 1) + 1 = n
    BY <1>1
  <2> QED BY <1>2, <1>3, <1>5, <1>8, <2>1, <2>2 DEF Placed
<1>12. Listed(code', flist')
  <2>1. Listed(code, flist) /\ flist \in Seq([level : Nat, fp : Cell, sb : Nat])
    BY DEF IInv, TypeOK
  <2>2. \A i \in PendingIn(code') : BaseIn(code')[i] = BaseIn(code)[i] /\ code'[i].fn = code[i].fn
    BY <1>4
  <2>3. CASE cur.kind = "call"
    <3>1. PendingIn(code') = PendingIn(code) \ {n} /\ n \in PendingIn(code)
      BY <1>1, <1>2, <1>4, <2>3 DEF PendingIn
    <3>2. flist' = Tail(flist)
      BY <2>3
    <3> QED BY <1>1, <2>1, <2>2, <3>1, <3>2, ListedDrop
  <2>4. CASE cur.kind # "call"
    <3>1. PendingIn(code') = PendingIn(code)
      BY <1>1, <1>2, <1>4, <2>4 DEF PendingIn
    <3>2. flist' = flist
      BY <2>4
    <3>3. \A i \in PendingIn(code) : BaseIn(code')[i] = BaseIn(code)[i] /\ code'[i].fn = code[i].fn
      BY <2>2, <3>1
    <3>4. Listed(code', flist)
      BY <2>1, <3>1, <3>3, ListedStays
    <3> QED BY <3>2, <3>4
  <2> QED BY <2>3, <2>4
<1>13. Counted(code', unwinding')
  <2> SUFFICES ASSUME NEW i \in PendingIn(code')
               PROVE  code'[i].done <= Nargs[code'[i].fn] /\ code'[i].done < Nargs[code'[i].fn]
    BY DEF Counted
  <2>1. i \in PendingIn(code) /\ i \in 1 .. n - 1 /\ i < n
    BY <1>2, <1>4
  <2>2. code[i].done <= Nargs[code[i].fn] /\ code[i].done < Nargs[code[i].fn]
    BY <2>1 DEF IInv, Counted
  <2>3. code'[i].done = code[i].done
    <3>1. CASE i = n - 1
      BY <3>1 DEF Leaves
    <3>2. CASE i # n - 1
      <4>1. i \in 1 .. n - 2
        BY <1>1, <2>1, <3>2
      <4> QED BY <4>1 DEF Leaves
    <3> QED BY <3>1, <3>2
  <2>4. code'[i].fn = code[i].fn
    BY <1>4, <2>1
  <2> QED BY <2>2, <2>3, <2>4
<1>14. Levelled(code', scopeLevel', unwinding')
  <2> SUFFICES ASSUME NEW b \in 1 .. n - 1, LastBody(code', n - 1, b)
               PROVE  /\ scopeLevel' = Depth[code'[b].fn]
                      /\ unwinding' = "clear" => b # 1
                      /\ unwinding' = "abort" => b = 1
    BY <1>2 DEF Levelled
  <2>1. LastBody(code, n - 1, b) /\ b \in 1 .. n /\ code'[b].fn = code[b].fn
    BY <1>2, <1>4
  <2> QED BY <2>1
<1>15. flist' \in Seq([level : Nat, fp : Cell, sb : Nat])
  <2>1. flist \in Seq([level : Nat, fp : Cell, sb : Nat])
    BY DEF IInv, TypeOK
  <2>2. CASE cur.kind = "call"
    <3>1. Len(flist) >= 1
      BY <1>1, <2>2, ListedFirst DEF IInv
    <3>2. flist # <<>>
      BY <3>1
    <3> QED BY <2>1, <2>2, <3>2, HeadTailProperties
  <2> QED BY <2>1, <2>2
<1>16. TypeOK'
  BY <1>7, <1>8, <1>15 DEF IInv, TypeOK, Contexts
<1> QED BY <1>9, <1>10, <1>11, <1>12, <1>13, <1>14, <1>16 DEF IInv

\* The innermost call goes with its scope, or after it.
LEMMA ScopeGoes ==
  ASSUME IInv, cur.fn \in Fn \ Intrinsic, NEW k \in Nat, NEW ce \in Seq(Contexts), Leaves(code, ce, k)
  PROVE  /\ Lost(unwinding) = 0 \/ running # Len(code) =>
              Len(scopes) > 0 /\ Front(scopes) \in Seq(Fn \ Intrinsic) /\ Pushed(ce, Front(scopes), Lost(unwinding))
         /\ Lost(unwinding) = 1 => Pushed(ce, scopes, 0)
<1> DEFINE n == Len(code)
           S == ScopedIn(code)
           lost == Lost(unwinding)
<1>1. /\ code \in Seq(Contexts) /\ n \in Nat /\ n >= 1 /\ n \in 1 .. n /\ cur = code[n] /\ Nested(code)
      /\ Pushed(code, scopes, lost) /\ scopes \in Seq(Fn \ Intrinsic) /\ lost \in {0, 1}
  BY InnermostFacts DEF IInv, TypeOK, Lost
<1>2. n \in S /\ Len(ce) = n - 1 /\ n > 1
  BY <1>1, NestingAssumption DEF ScopedIn, Leaves
<1>3. Shortens(code, ce)
  BY <1>1, LeavesFacts
<1>4. ScopedIn(ce) = S \ {n} /\ \A i \in ScopedIn(ce) : ce[i].fn = code[i].fn
  <2>1. ScopedIn(ce) = S \cap 1 .. Len(ce) /\ \A i \in 1 .. Len(ce) : ce[i].fn = code[i].fn
    BY <1>1, <1>3, ShortensFacts
  <2>2. \A i \in S : i \in 1 .. n
    BY DEF ScopedIn
  <2>3. S \cap 1 .. n - 1 = S \ {n}
    <3> HIDE DEF S
    <3> QED BY <1>1, <2>2
  <2>4. 1 .. Len(ce) = 1 .. n - 1
    BY <1>2
  <2> QED BY <2>1, <2>3, <2>4
<1>5. S \in SUBSET (1 .. n)
  BY DEF ScopedIn
<1>6. IsFiniteSet(S) /\ Cardinality(S) \in Nat
  <2> HIDE DEF S, n
  <2> QED BY <1>1, <1>5, Ranks
<1>7. ASSUME lost = 1 PROVE Pushed(ce, scopes, 0)
  <2>1. lost \in Nat \ {0} /\ lost - 1 = 0
    BY <1>7
  <2>2. Pushed(code, scopes, lost) /\ n \in S
    BY <1>1, <1>2
  <2> HIDE DEF lost
  <2>3. Pushed(ce, scopes, lost - 1)
    BY <1>1, <1>4, <2>1, <2>2, PushedDrop
  <2> QED BY <2>1, <2>3
<1>8. ASSUME lost = 0 \/ running # n
      PROVE  Len(scopes) > 0 /\ Front(scopes) \in Seq(Fn \ Intrinsic) /\ Pushed(ce, Front(scopes), lost)
  <2>1. Len(scopes) = Cardinality(S) - lost
    BY <1>1 DEF Pushed
  <2>2. Cardinality(S) > 0
    BY <1>2, <1>6, FS_EmptySet
  <2>3. lost = 1 => Cardinality(S) > 1
    <3> SUFFICES ASSUME lost = 1 PROVE Cardinality(S) > 1
      OBVIOUS
    <3>1. unwinding = "clear" /\ running # n
      BY <1>8 DEF Lost
    <3>2. running \in 1 .. n /\ code[running].kind = "body" /\ LastBody(code, n, running)
      BY <1>1, RunningIs
    <3>3. running # 1
      BY <3>1, <3>2 DEF IInv, Levelled
    <3>4. running \in 2 .. n
      BY <1>1, <3>2, <3>3
    <3>5. running \in S
      BY <1>1, <3>2, <3>4, NestingAssumption DEF ScopedIn, Nested
    <3>6. Cardinality(S \ {n}) = Cardinality(S) - 1 /\ IsFiniteSet(S \ {n}) /\ Cardinality(S \ {n}) \in Nat
      <4> HIDE DEF S, n
      <4>1. Cardinality(S \ {n}) = Cardinality(S) - 1
        BY <1>2, <1>6, FS_RemoveElement
      <4>2. IsFiniteSet(S \ {n})
        BY <1>6, FS_Subset
      <4> QED BY <4>1, <4>2, FS_CardinalityType
    <3>7. S \ {n} # {}
      BY <3>1, <3>5
    <3>8. Cardinality(S \ {n}) # 0
      <4> HIDE DEF S, n
      <4> QED BY <3>6, <3>7, FS_EmptySet
    <3> QED BY <1>6, <3>6, <3>8
  <2>4. Len(scopes) > 0
    BY <1>1, <1>6, <2>1, <2>2, <2>3
  <2>5. Front(scopes) \in Seq(Fn \ Intrinsic)
    BY <1>1, <2>4, FrontFacts
  <2>6. Pushed(code, Front(scopes), lost + 1)
    <3>1. lost \in Nat /\ Pushed(code, scopes, lost)
      BY <1>1
    <3> HIDE DEF lost
    <3> QED BY <1>1, <2>4, <3>1, PushedFront
  <2>7. Pushed(ce, Front(scopes), (lost + 1) - 1)
    <3>1. lost + 1 \in Nat \ {0} /\ n \in S
      BY <1>1, <1>2
    <3> HIDE DEF lost
    <3> QED BY <1>1, <1>4, <2>6, <3>1, PushedDrop
  <2>8. (lost + 1) - 1 = lost
    BY <1>1
  <2> QED BY <2>4, <2>5, <2>7, <2>8
<1> QED BY <1>7, <1>8

\* A call without a scope goes.
LEMMA ScopesStay ==
  ASSUME IInv, cur.fn \in Intrinsic, NEW k \in Nat, NEW ce \in Seq(Contexts), Leaves(code, ce, k)
  PROVE  Pushed(ce, scopes, Lost(unwinding))
<1> DEFINE n == Len(code)
<1>1. /\ code \in Seq(Contexts) /\ n \in Nat /\ n >= 1 /\ cur = code[n]
      /\ Pushed(code, scopes, Lost(unwinding))
  BY InnermostFacts DEF IInv
<1>2. Shortens(code, ce) /\ Len(ce) = n - 1
  BY <1>1, LeavesFacts DEF Leaves
<1>3. ScopedIn(ce) = ScopedIn(code) \cap 1 .. Len(ce) /\ \A i \in 1 .. Len(ce) : ce[i].fn = code[i].fn
  BY <1>1, <1>2, ShortensFacts
<1>4. \A i \in ScopedIn(code) : i \in 1 .. Len(ce)
  BY <1>1, <1>2 DEF ScopedIn
<1>5. ScopedIn(ce) = ScopedIn(code) /\ \A i \in ScopedIn(code) : ce[i].fn = code[i].fn
  BY <1>3, <1>4
<1> QED BY <1>1, <1>5, PushedStays

LEMMA CallIntrinsicStep ==
  ASSUME IInv, NEW ok \in BOOLEAN, CallIntrinsic(ok)
  PROVE  IInv'
<1> DEFINE n == Len(code)
           base == BaseIn(code)[n]
           k == Left(cur.fn)
           end == flist[1].fp + Reserved(flist[1])
<1>1. /\ Running /\ cur.kind = "call" /\ cur.fn \in Intrinsic /\ cur.done = Nargs[cur.fn] /\ cur.temps = 0
      /\ thestack' = [c \in Cell |-> IF flist[1].fp + k <= c /\ c < end THEN NoVal
                                     ELSE IF c = flist[1].fp /\ ok THEN Val ELSE thestack[c]]
      /\ framepntr' = thestack[flist[1].fp + 2].v
      /\ sbOff' = end - thestack[flist[1].fp + 2].v - Nargs[cur.fn] - FrameSize + k
      /\ flist' = Tail(flist) /\ code' = Outer(k) /\ unwinding' = IF ok THEN "no" ELSE "failed"
      /\ UNCHANGED <<stackSize, scopeLevel, scopes, names, fault>>
  BY DEF CallIntrinsic
<1>2. /\ code \in Seq(Contexts) /\ n \in Nat /\ n > 1 /\ n \in 2 .. n /\ cur = code[n] /\ cur.fn \in Fn /\ cur.fn # Main
      /\ n \in PendingIn(code) /\ cur \in Contexts
  <2>1. cur.fn # Main
    BY <1>1, NestingAssumption
  <2> QED BY <1>1, <2>1, DeepFacts
<1>3. flist[1].fp = base /\ flist[1].sb = Offsets[cur.fn] /\ Offsets[cur.fn] = Nargs[cur.fn] /\ Nargs[cur.fn] \in Nat
  BY <1>1, <1>2, ListedFirst, NestingAssumption DEF IInv
<1>4. /\ base \in Nat /\ base + FrameSize <= top /\ top \in 0 .. MaxCells /\ top = base + Size(cur)
      /\ thestack \in Stacks
      /\ \A c \in Cell : c >= top => thestack[c] = NoVal
  BY <1>2, StackFacts
<1>5. end = top /\ end = base + Nargs[cur.fn] + FrameSize
  <2>1. Size(cur) = FrameSize + cur.done + cur.temps
    BY <1>1, <1>2, SizeFacts
  <2> QED BY <1>1, <1>3, <1>4, <2>1 DEF Reserved, FrameSize
<1>6. code' \in Seq(Contexts) /\ Leaves(code, code', k) /\ k \in {0, 1}
  BY <1>1, <1>2, OuterLeaves
<1>7. sbOff' = base + k - framepntr'
  <2>1. sbOff' = end - framepntr' - Nargs[cur.fn] - FrameSize + k
    BY <1>1
  <2>2. framepntr' \in Nat
    <3>1. PICK b \in 1 .. n : LastBody(code, n - 1, b)
      BY <1>2, CallerExists
    <3>2. thestack[base + 2].v = BaseIn(code)[b] /\ BaseIn(code)[b] \in Nat
      BY <1>2, <3>1, CallerFacts
    <3> QED BY <1>1, <1>3, <3>2
  <2> DEFINE f == framepntr'
             s == sbOff'
             a == Nargs[cur.fn]
  <2>3. /\ f \in Nat /\ a \in Nat /\ base \in Nat /\ k \in Nat
        /\ end = base + a + FrameSize /\ s = end - f - a - FrameSize + k
    BY <1>3, <1>4, <1>5, <1>6, <2>1, <2>2
  <2> HIDE DEF end, base, k, f, s, a
  <2>4. s = base + k - f
    BY <2>3 DEF FrameSize
  <2> QED BY <2>4 DEF f, s
<1>8. \A b \in 1 .. n : LastBody(code, n - 1, b) =>
        /\ framepntr' = BaseIn(code)[b] /\ scopeLevel' = Depth[code[b].fn]
        /\ (unwinding' = "clear" => b # 1) /\ (unwinding' = "abort" => b = 1)
  <2> SUFFICES ASSUME NEW b \in 1 .. n, LastBody(code, n - 1, b)
               PROVE  framepntr' = BaseIn(code)[b] /\ scopeLevel' = Depth[code[b].fn]
    BY <1>1
  <2>1. thestack[base + 2].v = BaseIn(code)[b] /\ scopeLevel = Depth[code[b].fn]
    BY <1>1, <1>2, CallerFacts
  <2> QED BY <1>1, <1>3, <2>1
<1>9. thestack' \in Stacks
  <2>1. /\ Val \in Entries
        /\ NoVal \in Entries
    BY SizeAssumption DEF Val, NoVal, Cell
  <2> QED BY <1>1, <1>4, <2>1
<1>10. /\ \A c \in Cell : c >= base + k => thestack'[c] = NoVal
       /\ \A c \in Cell : c < base => thestack'[c] = thestack[c]
  <2> SUFFICES ASSUME NEW c \in Cell
               PROVE  (c >= base + k => thestack'[c] = NoVal) /\ (c < base => thestack'[c] = thestack[c])
    OBVIOUS
  <2>1. thestack'[c] = IF base + k <= c /\ c < top THEN NoVal ELSE IF c = base /\ ok THEN Val ELSE thestack[c]
    BY <1>1, <1>3, <1>5
  <2>2. c \in Int /\ top \in Nat /\ base \in Nat /\ k \in Nat /\ base < top
    BY <1>4, <1>6 DEF Cell, FrameSize
  <2>3. c >= top => thestack[c] = NoVal
    BY <1>4
  <2> HIDE DEF base, k
  <2> QED BY <2>1, <2>2, <2>3
<1>11. scopes' \in Seq(Fn \ Intrinsic) /\ Pushed(code', scopes', Lost(unwinding'))
  <2>1. Lost(unwinding) = 0 /\ Lost(unwinding') = 0
    BY <1>1 DEF Lost, Running
  <2>2. Pushed(code', scopes, Lost(unwinding))
    <3>1. k \in Nat
      BY <1>6
    <3> QED BY <1>1, <1>6, <3>1, ScopesStay
  <2>3. scopes' = scopes
    BY <1>1
  <2> QED BY <2>1, <2>2, <2>3 DEF IInv, TypeOK
<1>12. flist' = IF cur.kind = "call" THEN Tail(flist) ELSE flist
  BY <1>1
<1>13. /\ unwinding' \in {"no", "failed", "clear", "abort"}
       /\ stackSize' = stackSize /\ defined' = defined /\ typed' \subseteq typed /\ fault' = fault
  BY <1>1 DEF names
<1> HIDE DEF k
<1> QED BY <1>6, <1>7, <1>8, <1>9, <1>10, <1>11, <1>12, <1>13, OutStep

LEMMA LeaveStep ==
  ASSUME IInv, cur.kind = "body", cur.fn # Main, unwinding = "no", NEW cells, Leave(cells),
         cells \in Stacks,
         \A c \in Cell : c >= BaseIn(code)[Len(code)] + Left(cur.fn) => cells[c] = NoVal,
         \A c \in Cell : c < BaseIn(code)[Len(code)] => cells[c] = thestack[c],
         UNCHANGED <<flist, unwinding, defined>>
  PROVE  IInv'
<1> DEFINE n == Len(code)
           base == BaseIn(code)[n]
           k == Left(cur.fn)
<1>1. CASE cur.fn \notin defined
  <2>1. UNCHANGED <<stack, scopeLevel, scopes, code, typed, flist, unwinding, defined>> /\ fault' = "undefined"
    BY <1>1 DEF Leave
  <2> QED BY <2>1 DEF IInv, TypeOK, stack
<1>2. CASE cur.fn \in defined
  <2>1. /\ thestack' = cells /\ LeaveFrame(cur.temps + Offsets[cur.fn] + FrameSize - k)
        /\ scopeLevel' = cur.callerLevel /\ scopes' = Front(scopes) /\ code' = Outer(k)
        /\ typed' = {g \in typed : Encl[g] # cur.fn} /\ UNCHANGED <<stackSize, fault>>
    BY <1>2 DEF Leave
  <2>2. /\ code \in Seq(Contexts) /\ n \in Nat /\ n > 1 /\ n \in 2 .. n /\ cur = code[n] /\ cur.fn \in Fn \ Intrinsic
        /\ cur \in Contexts /\ Offsets[cur.fn] \in Nat /\ cur.temps \in Nat
    BY DeepFacts
  <2>3. /\ base \in Nat /\ top \in 0 .. MaxCells /\ top = base + Size(cur) /\ framepntr = base
        /\ Size(cur) = FrameSize + Offsets[cur.fn] + cur.temps
    BY <2>2, StackFacts, TopFacts
  <2>4. code' \in Seq(Contexts) /\ Leaves(code, code', k) /\ k \in {0, 1}
    BY <2>1, <2>2, OuterLeaves
  <2>5. ASSUME NEW b \in 1 .. n, LastBody(code, n - 1, b)
        PROVE  framepntr' = BaseIn(code)[b] /\ scopeLevel' = Depth[code[b].fn] /\ framepntr' \in Nat
    <3>1. /\ thestack[base + 2].v = BaseIn(code)[b] /\ BaseIn(code)[b] \in Nat
          /\ cur.callerLevel = Depth[code[b].fn]
      BY <2>2, <2>5, CallerFacts
    <3> QED BY <2>1, <2>3, <3>1 DEF LeaveFrame
  <2>6. framepntr' \in Nat
    <3>1. PICK b \in 1 .. n : LastBody(code, n - 1, b)
      BY <2>2, CallerExists
    <3> QED BY <2>5, <3>1
  <2>7. sbOff' = base + k - framepntr'
    <3>1. sbOff' = top - framepntr' - (cur.temps + Offsets[cur.fn] + FrameSize - k)
      BY <2>1 DEF LeaveFrame
    <3> DEFINE f == framepntr'
               s == sbOff'
               a == Offsets[cur.fn]
               t == cur.temps
               h == top
    <3>2. /\ f \in Nat /\ a \in Nat /\ t \in Nat /\ base \in Nat /\ k \in Nat
          /\ h = base + (FrameSize + a + t) /\ s = h - f - (t + a + FrameSize - k)
      BY <2>2, <2>3, <2>4, <2>6, <3>1
    <3> HIDE DEF base, k, f, s, a, t, h
    <3>3. s = base + k - f
      BY <3>2 DEF FrameSize
    <3> QED BY <3>3 DEF f, s
  <2>8. Lost(unwinding) = 0 /\ Lost(unwinding') = 0 /\ unwinding' = "no"
    BY DEF Lost
  <2>9. scopes' \in Seq(Fn \ Intrinsic) /\ Pushed(code', scopes', Lost(unwinding'))
    <3>1. k \in Nat
      BY <2>4
    <3>2. Front(scopes) \in Seq(Fn \ Intrinsic) /\ Pushed(code', Front(scopes), Lost(unwinding))
      BY <2>2, <2>4, <2>8, <3>1, ScopeGoes
    <3> QED BY <2>1, <2>8, <3>2
  <2>10. flist' = IF cur.kind = "call" THEN Tail(flist) ELSE flist
    OBVIOUS
  <2>11. /\ unwinding' \in {"no", "failed", "clear", "abort"}
         /\ stackSize' = stackSize /\ defined' = defined /\ typed' \subseteq typed /\ fault' = fault
    BY <2>1, <2>8
  <2>12. /\ thestack' \in Stacks
         /\ \A c \in Cell : c >= base + k => thestack'[c] = NoVal
         /\ \A c \in Cell : c < base => thestack'[c] = thestack[c]
    BY <2>1
  <2>13. \A b \in 1 .. n : LastBody(code, n - 1, b) =>
           /\ framepntr' = BaseIn(code)[b] /\ scopeLevel' = Depth[code[b].fn]
           /\ (unwinding' = "clear" => b # 1) /\ (unwinding' = "abort" => b = 1)
    BY <2>5, <2>8
  <2> HIDE DEF k
  <2> QED BY <2>4, <2>7, <2>9, <2>10, <2>11, <2>12, <2>13, OutStep
<1> QED BY <1>1, <1>2

\* The stack is cut off at the frame of a body, or above its first entry.
LEMMA BodyPopped ==
  ASSUME IInv, cur.kind = "body", cur.fn # Main, NEW k \in {0, 1}, NEW m,
         m = cur.temps + Offsets[cur.fn] + FrameSize - k
  PROVE  /\ m \in Nat /\ m <= top /\ top - m = BaseIn(code)[Len(code)] + k
         /\ Popped(m) \in Stacks
         /\ \A c \in Cell : c >= BaseIn(code)[Len(code)] + k => Popped(m)[c] = NoVal
         /\ \A c \in Cell : c < BaseIn(code)[Len(code)] + k => Popped(m)[c] = thestack[c]
<1> DEFINE base == BaseIn(code)[Len(code)]
<1>1. Offsets[cur.fn] \in Nat /\ cur.temps \in Nat
  BY InnermostFacts, SizeAssumption
<1>2. base \in Nat /\ top \in 0 .. MaxCells /\ top = base + Size(cur) /\ Size(cur) = FrameSize + Offsets[cur.fn] + cur.temps
  BY StackFacts, TopFacts
<1>3. k \in Nat /\ k <= 1
  OBVIOUS
<1> HIDE DEF base
<1>4. m \in Nat /\ m <= top /\ top - m = base + k
  BY <1>1, <1>2, <1>3 DEF FrameSize
<1>5. /\ Popped(m) \in Stacks
      /\ \A c \in Cell : c >= top - m => Popped(m)[c] = NoVal
      /\ \A c \in Cell : c < top - m => Popped(m)[c] = thestack[c]
  BY <1>4, PoppedFacts
<1> QED BY <1>4, <1>5 DEF base

LEMMA ReturnStep ==
  ASSUME IInv, Return
  PROVE  IInv'
<1> DEFINE base == BaseIn(code)[Len(code)]
           m == 1 + Offsets[cur.fn] + FrameSize - 1
           cells == [Popped(m) EXCEPT ![framepntr] = Val]
<1>1. /\ cur.kind = "body" /\ cur.fn \in Function /\ cur.temps = 1 /\ unwinding = "no" /\ Leave(cells)
      /\ UNCHANGED <<flist, unwinding, defined>>
  BY DEF Return, Running
<1>2. cur.fn # Main /\ Left(cur.fn) = 1
  BY <1>1, NestingAssumption DEF Left
<1>3. m = cur.temps + Offsets[cur.fn] + FrameSize - 1
  BY <1>1
<1>4. framepntr = base /\ base \in Cell
  BY <1>1, StackFacts, TopFacts
<1> HIDE DEF m
<1>5. /\ Popped(m) \in Stacks
      /\ \A c \in Cell : c >= base + 1 => Popped(m)[c] = NoVal
      /\ \A c \in Cell : c < base + 1 => Popped(m)[c] = thestack[c]
  BY <1>1, <1>2, <1>3, BodyPopped
<1>6. Val \in Entries
  BY SizeAssumption DEF Val, Cell
<1> HIDE DEF base
<1>7. /\ cells \in Stacks
      /\ \A c \in Cell : c # base => cells[c] = Popped(m)[c]
  BY <1>4, <1>5, <1>6
<1>8. /\ \A c \in Cell : c >= base + 1 => cells[c] = NoVal
      /\ \A c \in Cell : c < base => cells[c] = thestack[c]
  <2> HIDE DEF cells
  <2>1. base \in Int /\ \A c \in Cell : c \in Int
    BY <1>4 DEF Cell
  <2> QED BY <1>5, <1>7, <2>1
<1> HIDE DEF cells
<1> QED BY <1>1, <1>2, <1>7, <1>8, LeaveStep DEF base

LEMMA EndBodyStep ==
  ASSUME IInv, EndBody
  PROVE  IInv'
<1> DEFINE base == BaseIn(code)[Len(code)]
           k == Left(cur.fn)
           m == Offsets[cur.fn] + FrameSize - k
<1>1. /\ cur.kind = "body" /\ cur.fn # Main /\ cur.temps = 0 /\ unwinding = "no" /\ Leave(Popped(m))
      /\ UNCHANGED <<flist, unwinding, defined>>
  BY DEF EndBody, Statement, Running
<1>2. k \in {0, 1}
  BY DEF Left
<1>3. m = cur.temps + Offsets[cur.fn] + FrameSize - k
  <2>1. Offsets[cur.fn] \in Nat
    BY <1>1, DeepFacts
  <2> HIDE DEF k
  <2> QED BY <1>1, <1>2, <2>1 DEF FrameSize
<1> HIDE DEF m, k
<1>4. /\ Popped(m) \in Stacks
      /\ \A c \in Cell : c >= base + k => Popped(m)[c] = NoVal
      /\ \A c \in Cell : c < base + k => Popped(m)[c] = thestack[c]
  BY <1>1, <1>2, <1>3, BodyPopped
<1>5. \A c \in Cell : c < base => Popped(m)[c] = thestack[c]
  <2>1. base \in Nat /\ k \in Nat /\ \A c \in Cell : c \in Int
    BY <1>2, StackFacts DEF Cell
  <2> HIDE DEF base
  <2> QED BY <1>4, <2>1
<1> QED BY <1>1, <1>4, <1>5, LeaveStep DEF k

\* The frame of a call goes that has not been made.
LEMMA DropFrameStep ==
  ASSUME IInv, DropFrame
  PROVE  IInv'
<1> DEFINE n == Len(code)
           base == BaseIn(code)[n]
           f == thestack[flist[1].fp + 4].v
           m == (IF unwinding = "abort" THEN sbOff ELSE top) - (flist[1].fp + FrameSize)
<1>1. unwinding \in {"clear", "abort"} /\ Unfinished /\ UNCHANGED <<scopeLevel, unwinding, names>>
  BY DEF DropFrame, Unwinding
<1>2. cur.kind = "call"
  BY <1>1, UnfinishedIs
<1>3. CASE f \notin Intrinsic \cup defined /\ Nargs[f] > 0
  <2>1. fault' = "undefined" /\ UNCHANGED <<stack, scopes, flist, code>>
    BY <1>3 DEF DropFrame
  <2> QED BY <1>1, <2>1 DEF IInv, TypeOK, stack, names
<1>4. CASE ~ (f \notin Intrinsic \cup defined /\ Nargs[f] > 0)
  <2>1. /\ thestack' = Popped(m + FrameSize) /\ sbOff' = sbOff - m - FrameSize
        /\ scopes' = IF f \in Intrinsic \/ Nargs[f] = 0 THEN scopes ELSE Front(scopes)
        /\ flist' = Tail(flist) /\ code' = Front(code)
        /\ UNCHANGED <<framepntr, stackSize, fault>>
    BY <1>4 DEF DropFrame
  <2>2. cur.fn # Main
    BY <1>2, InnermostFacts
  <2>3. /\ code \in Seq(Contexts) /\ n \in Nat /\ n > 1 /\ n \in 2 .. n /\ cur = code[n] /\ cur.fn \in Fn
        /\ n \in PendingIn(code) /\ cur.done \in Nat /\ Nargs[cur.fn] \in Nat
    BY <1>2, <2>2, DeepFacts
  <2>4. flist[1].fp = base
    BY <2>3, ListedFirst DEF IInv
  <2>5. f = cur.fn
    <3>1. thestack[base + 4] = Entry("params", cur.fn)
      BY <2>3 DEF IInv, Linked
    <3> QED BY <2>4, <3>1 DEF Entry
  <2>6. /\ base \in Nat /\ base + FrameSize <= top /\ top \in 0 .. MaxCells /\ sbOff \in 0 .. MaxCells /\ framepntr \in Cell
    BY <2>3, StackFacts
  <2>7. PICK r \in 1 .. n : LastBody(code, n - 1, r)
    BY <2>3, CallerExists
  <2>8. /\ framepntr = BaseIn(code)[r] /\ scopeLevel = Depth[code[r].fn]
        /\ (unwinding = "clear" => r # 1) /\ (unwinding = "abort" => r = 1)
    BY <1>2, <2>3, <2>7, CallerFacts
  <2>9. unwinding = "abort" => sbOff = top
    <3>1. BaseIn(code)[1] = 0
      BY <2>3, BaseFacts
    <3> QED BY <2>6, <2>8, <3>1 DEF top
  <2>10. m = top - (base + FrameSize)
    BY <2>4, <2>9
  <2> HIDE DEF m, f, base
  <2>11. m + FrameSize \in Nat /\ m + FrameSize <= top /\ top - (m + FrameSize) = base
    BY <2>6, <2>10 DEF FrameSize
  <2>12. /\ thestack' \in Stacks
         /\ \A c \in Cell : c >= base => thestack'[c] = NoVal
         /\ \A c \in Cell : c < base => thestack'[c] = thestack[c]
    <3> DEFINE p == m + FrameSize
    <3>1. p \in Nat /\ p <= top /\ top - p = base /\ thestack' = Popped(p)
      BY <2>1, <2>11
    <3> HIDE DEF p
    <3> QED BY <3>1, PoppedFacts
  <2>13. sbOff' = base + 0 - framepntr'
    <3>1. top = framepntr + sbOff /\ framepntr \in Nat /\ framepntr' = framepntr
      BY <2>1, <2>6 DEF top, Cell
    <3>2. sbOff' = sbOff - m - FrameSize
      BY <2>1
    <3> QED BY <2>6, <2>10, <3>1, <3>2 DEF FrameSize
  <2>14. code' \in Seq(Contexts) /\ Leaves(code, code', 0)
    BY <2>1, <2>3, FrontLeaves
  <2>15. \A b \in 1 .. n : LastBody(code, n - 1, b) =>
           /\ framepntr' = BaseIn(code)[b] /\ scopeLevel' = Depth[code[b].fn]
           /\ (unwinding' = "clear" => b # 1) /\ (unwinding' = "abort" => b = 1)
    BY <1>1, <1>2, <2>1, <2>3, CallerFacts
  <2>16. scopes' \in Seq(Fn \ Intrinsic) /\ Pushed(code', scopes', Lost(unwinding'))
    <3>1. unwinding' = unwinding /\ 0 \in Nat
      BY <1>1
    <3>2. CASE cur.fn \in Intrinsic
      <4>1. scopes' = scopes
        BY <2>1, <2>5, <3>2
      <4>2. Pushed(code', scopes, Lost(unwinding))
        BY <2>14, <3>1, <3>2, ScopesStay
      <4> QED BY <3>1, <4>1, <4>2 DEF IInv, TypeOK
    <3>3. CASE cur.fn \notin Intrinsic
      <4>1. cur.done < Nargs[cur.fn]
        BY <1>1, <2>3 DEF IInv, Counted
      <4>2. Nargs[f] # 0
        BY <2>3, <2>5, <4>1
      <4>3. scopes' = Front(scopes)
        BY <2>1, <2>5, <3>3, <4>2
      <4>4. running # n
        BY <1>2, <2>3, RunningIs DEF IInv
      <4>5. Front(scopes) \in Seq(Fn \ Intrinsic) /\ Pushed(code', Front(scopes), Lost(unwinding))
        BY <2>3, <2>14, <3>1, <3>3, <4>4, ScopeGoes
      <4> QED BY <3>1, <4>3, <4>5
    <3> QED BY <3>2, <3>3
  <2>17. flist' = IF cur.kind = "call" THEN Tail(flist) ELSE flist
    BY <1>2, <2>1
  <2>18. /\ unwinding' \in {"no", "failed", "clear", "abort"}
         /\ stackSize' = stackSize /\ defined' = defined /\ typed' \subseteq typed /\ fault' = fault
    BY <1>1, <2>1 DEF names
  <2>19. /\ \A c \in Cell : c >= BaseIn(code)[Len(code)] + 0 => thestack'[c] = NoVal
         /\ \A c \in Cell : c < BaseIn(code)[Len(code)] => thestack'[c] = thestack[c]
         /\ sbOff' = BaseIn(code)[Len(code)] + 0 - framepntr'
    <3>1. base + 0 = base
      BY <2>6
    <3> QED BY <2>12, <2>13, <3>1 DEF base
  <2>20. 0 \in {0, 1}
    OBVIOUS
  <2> QED BY <2>12, <2>14, <2>15, <2>16, <2>17, <2>18, <2>19, <2>20, OutStep
<1> QED BY <1>3, <1>4

\* The rest of a body that an error comes out of.
LEMMA ClearBaseStep ==
  ASSUME IInv, ClearBase
  PROVE  IInv'
<1> DEFINE n == Len(code)
           base == BaseIn(code)[n]
<1>1. /\ unwinding = "clear" /\ ~ Unfinished /\ thestack' = Popped(sbOff) /\ LeaveFrame(sbOff)
      /\ scopeLevel' = cur.callerLevel /\ code' = Front(code) /\ unwinding' = "failed"
      /\ UNCHANGED <<stackSize, flist, scopes, names, fault>>
  BY DEF ClearBase, Unwinding
<1>2. cur.kind = "body"
  BY <1>1, UnfinishedIs, InnermostFacts
<1>3. cur.fn # Main
  <2>1. /\ code \in Seq(Contexts) /\ n \in Nat /\ n >= 1 /\ n \in 1 .. n /\ (n = 1 <=> cur.fn = Main) /\ Nested(code)
    BY InnermostFacts DEF IInv
  <2>2. running = n /\ LastBody(code, n, running)
    BY <1>2, <2>1, RunningIs
  <2>3. n # 1
    BY <1>1, <2>1, <2>2 DEF IInv, Levelled
  <2> QED BY <2>1, <2>3
<1>4. /\ code \in Seq(Contexts) /\ n \in Nat /\ n > 1 /\ n \in 2 .. n /\ cur = code[n] /\ cur.fn \in Fn \ Intrinsic
  BY <1>2, <1>3, DeepFacts
<1>5. framepntr = base /\ base \in Nat /\ top \in 0 .. MaxCells /\ sbOff \in 0 .. MaxCells
  BY <1>2, StackFacts, TopFacts
<1>6. sbOff \in Nat /\ sbOff <= top /\ top - sbOff = base
  BY <1>5, SizeAssumption DEF top
<1>7. /\ thestack' \in Stacks
      /\ \A c \in Cell : c >= base => thestack'[c] = NoVal
      /\ \A c \in Cell : c < base => thestack'[c] = thestack[c]
  BY <1>1, <1>6, PoppedFacts
<1>8. \A b \in 1 .. n : LastBody(code, n - 1, b) =>
        /\ framepntr' = BaseIn(code)[b] /\ scopeLevel' = Depth[code[b].fn]
        /\ (unwinding' = "clear" => b # 1) /\ (unwinding' = "abort" => b = 1)
  <2> SUFFICES ASSUME NEW b \in 1 .. n, LastBody(code, n - 1, b)
               PROVE  framepntr' = BaseIn(code)[b] /\ scopeLevel' = Depth[code[b].fn]
    BY <1>1
  <2>1. thestack[base + 2].v = BaseIn(code)[b] /\ cur.callerLevel = Depth[code[b].fn]
    BY <1>2, <1>4, CallerFacts
  <2> QED BY <1>1, <1>5, <2>1 DEF LeaveFrame
<1>9. framepntr' \in Nat
  <2>1. PICK b \in 1 .. n : LastBody(code, n - 1, b)
    BY <1>4, CallerExists
  <2>2. BaseIn(code)[b] \in Nat
    BY <1>4, <2>1, CallerFacts
  <2> QED BY <1>8, <2>1, <2>2
<1>10. sbOff' = base + 0 - framepntr'
  <2>1. sbOff' = top - framepntr' - sbOff
    BY <1>1 DEF LeaveFrame
  <2> DEFINE f == framepntr'
             s == sbOff'
             t == top
  <2>2. f \in Nat /\ base \in Nat /\ t \in Nat /\ sbOff \in Nat /\ t - sbOff = base /\ s = t - f - sbOff
    BY <1>5, <1>6, <1>9, <2>1
  <2> HIDE DEF f, s, t, base
  <2>3. s = base + 0 - f
    BY <2>2
  <2> QED BY <2>3 DEF f, s
<1>11. code' \in Seq(Contexts) /\ Leaves(code, code', 0)
  BY <1>1, <1>4, FrontLeaves
<1>12. scopes' \in Seq(Fn \ Intrinsic) /\ Pushed(code', scopes', Lost(unwinding'))
  <2>1. Lost(unwinding) = 1 /\ Lost(unwinding') = 0 /\ scopes' = scopes /\ 0 \in Nat
    BY <1>1 DEF Lost
  <2>2. Pushed(code', scopes, 0)
    BY <1>4, <1>11, <2>1, ScopeGoes
  <2> QED BY <2>1, <2>2 DEF IInv, TypeOK
<1>13. flist' = IF cur.kind = "call" THEN Tail(flist) ELSE flist
  BY <1>1, <1>2
<1>14. /\ unwinding' \in {"no", "failed", "clear", "abort"}
       /\ stackSize' = stackSize /\ defined' = defined /\ typed' \subseteq typed /\ fault' = fault
  BY <1>1 DEF names
<1>15. /\ \A c \in Cell : c >= base + 0 => thestack'[c] = NoVal
       /\ 0 \in {0, 1}
  <2>1. base + 0 = base
    BY <1>5
  <2> HIDE DEF base
  <2> QED BY <1>7, <2>1
<1> QED BY <1>7, <1>8, <1>10, <1>11, <1>12, <1>13, <1>14, <1>15, OutStep

\* A step that has no effect on the stack and the calls.
LEMMA SameStep ==
  ASSUME IInv, UNCHANGED <<stack, flist, scopeLevel, scopes, code, unwinding>>,
         defined' \subseteq Fn \ Intrinsic, typed' \subseteq Fn \ Intrinsic, fault' = fault
  PROVE  IInv'
BY DEF IInv, TypeOK, stack

\* An error comes out of the innermost body.
LEMMA LeaveExecuteStep ==
  ASSUME IInv, LeaveExecute
  PROVE  IInv'
<1> DEFINE n == Len(code)
<1>1. /\ unwinding = "failed" /\ UNCHANGED <<stack, flist, scopeLevel, code, names, fault>>
      /\ running = 1 => unwinding' = "abort" /\ scopes' = scopes
      /\ running # 1 => unwinding' = "clear" /\ scopes' = Front(scopes)
  BY DEF LeaveExecute, Unwinding
<1>2. /\ code \in Seq(Contexts) /\ n \in Nat /\ Nested(code) /\ code' = code
  BY <1>1, InnermostFacts DEF IInv
<1>3. running \in 1 .. n /\ code[running].kind = "body" /\ LastBody(code, n, running)
  BY <1>2, RunningIs
<1>4. scopes' \in Seq(Fn \ Intrinsic) /\ Pushed(code, scopes', Lost(unwinding'))
  <2>1. Lost(unwinding) = 0 /\ Pushed(code, scopes, 0) /\ scopes \in Seq(Fn \ Intrinsic)
    BY <1>1 DEF IInv, TypeOK, Lost
  <2>2. CASE running = 1
    BY <1>1, <2>1, <2>2 DEF Lost
  <2>3. CASE running # 1
    <3> DEFINE S == ScopedIn(code)
    <3>1. running \in S
      <4>1. running \in 2 .. n
        BY <1>2, <1>3, <2>3
      <4> QED BY <1>2, <1>3, <4>1, NestingAssumption DEF ScopedIn, Nested
    <3>2. S \in SUBSET (1 .. n) /\ Len(scopes) = Cardinality(S) - 0
      BY <2>1 DEF ScopedIn, Pushed
    <3>3. IsFiniteSet(S) /\ Cardinality(S) \in Nat
      <4> HIDE DEF S, n
      <4> QED BY <1>2, <3>2, Ranks
    <3>4. Len(scopes) > 0
      <4> HIDE DEF S
      <4>1. Cardinality(S) # 0
        BY <3>1, <3>3, FS_EmptySet
      <4> QED BY <3>2, <3>3, <4>1
    <3>5. Front(scopes) \in Seq(Fn \ Intrinsic) /\ Pushed(code, Front(scopes), 0 + 1)
      BY <1>2, <2>1, <3>4, FrontFacts, PushedFront
    <3>6. Lost(unwinding') = 0 + 1
      BY <1>1, <2>3 DEF Lost
    <3> QED BY <1>1, <2>3, <3>5, <3>6
  <2> QED BY <2>2, <2>3
<1>5. Levelled(code, scopeLevel, unwinding')
  <2> SUFFICES ASSUME NEW b \in 1 .. n, LastBody(code, n, b)
               PROVE  scopeLevel = Depth[code[b].fn] /\ (unwinding' = "clear" => b # 1) /\ (unwinding' = "abort" => b = 1)
    BY DEF Levelled
  <2>1. b = running
    BY <1>2, <1>3, LastBodyUnique
  <2>2. scopeLevel = Depth[code[b].fn]
    BY DEF IInv, Levelled
  <2> QED BY <1>1, <2>1, <2>2
<1>6. Counted(code, unwinding')
  BY <1>1 DEF IInv, Counted
<1>7. TypeOK'
  <2>1. unwinding' \in {"no", "failed", "clear", "abort"}
    BY <1>1
  <2> QED BY <1>1, <1>4, <2>1 DEF IInv, TypeOK, stack, names
<1> QED BY <1>1, <1>2, <1>4, <1>5, <1>6, <1>7 DEF IInv, stack

-----------------------------------------------------------------------------
(* Steps into a call *)

\* Contexts that begin in the same way, up to k of them.
LEMMA AgreeFacts ==
  ASSUME NEW cd \in Seq(Contexts), NEW ce \in Seq(Contexts), NEW k \in Nat,
         k <= Len(cd), k <= Len(ce), \A i \in 1 .. k : ce[i] = cd[i]
  PROVE  /\ \A i \in 1 .. k + 1 : BaseIn(ce)[i] = BaseIn(cd)[i]
         /\ \A m \in 0 .. k : \A b : LastBody(ce, m, b) <=> LastBody(cd, m, b)
         /\ \A m \in 0 .. k : \A g, b : LastOf(ce, g, m, b) <=> LastOf(cd, g, m, b)
         /\ \A i \in 1 .. k + 1 : ce[i].fn = cd[i].fn => \A b : HomeOf(ce, i, b) <=> HomeOf(cd, i, b)
<1>1. \A i \in 1 .. k + 1 : BaseIn(ce)[i] = BaseIn(cd)[i]
  BY BaseAgrees
<1>2. ASSUME NEW m \in 0 .. k
      PROVE  /\ \A b : LastBody(ce, m, b) <=> LastBody(cd, m, b)
             /\ \A g, b : LastOf(ce, g, m, b) <=> LastOf(cd, g, m, b)
  <2>1. m \in Nat /\ \A i \in 1 .. m : ce[i].kind = cd[i].kind /\ ce[i].fn = cd[i].fn
    OBVIOUS
  <2> QED BY <2>1, LastAgrees
<1>3. ASSUME NEW i \in 1 .. k + 1, ce[i].fn = cd[i].fn, NEW b PROVE HomeOf(ce, i, b) <=> HomeOf(cd, i, b)
  <2>1. i - 1 \in 0 .. k
    OBVIOUS
  <2> QED BY <1>2, <1>3, <2>1 DEF HomeOf
<1> QED BY <1>1, <1>2, <1>3

\* What is kept of the links of the first k contexts.
LEMMA LinksKept ==
  ASSUME NEW cd \in Seq(Contexts), NEW ce \in Seq(Contexts), NEW k \in Nat,
         k <= Len(cd), k <= Len(ce), \A i \in 1 .. k : ce[i] = cd[i],
         NEW cells, NEW after, Linked(cd, cells),
         NEW i \in 2 .. Len(cd), i \in 2 .. Len(ce), i <= k + 1, ce[i].fn = cd[i].fn,
         \A j \in {1, 2, 4} : after[BaseIn(cd)[i] + j] = cells[BaseIn(cd)[i] + j]
  PROVE  /\ after[BaseIn(ce)[i] + 4] = Entry("params", ce[i].fn)
         /\ \A b \in 1 .. Len(ce) :
              /\ LastBody(ce, i - 1, b) => after[BaseIn(ce)[i] + 2] = Entry("dynamic", BaseIn(ce)[b])
              /\ HomeOf(ce, i, b) => after[BaseIn(ce)[i] + 1] = Entry("static", BaseIn(ce)[b])
<1>1. Len(cd) \in Nat /\ Len(ce) \in Nat /\ i \in 1 .. k + 1 /\ i - 1 \in 0 .. k /\ i - 1 \in Nat
  BY LenProperties
<1>2. /\ \A j \in 1 .. k + 1 : BaseIn(ce)[j] = BaseIn(cd)[j]
      /\ \A m \in 0 .. k : \A b : LastBody(ce, m, b) <=> LastBody(cd, m, b)
      /\ \A j \in 1 .. k + 1 : ce[j].fn = cd[j].fn => \A b : HomeOf(ce, j, b) <=> HomeOf(cd, j, b)
  BY AgreeFacts
<1>3. BaseIn(ce)[i] = BaseIn(cd)[i]
  BY <1>1, <1>2
<1>4. after[BaseIn(ce)[i] + 4] = Entry("params", ce[i].fn)
  BY <1>3 DEF Linked
<1>5. ASSUME NEW b \in 1 .. Len(ce), LastBody(ce, i - 1, b) \/ HomeOf(ce, i, b)
      PROVE  b \in 1 .. Len(cd) /\ BaseIn(ce)[b] = BaseIn(cd)[b]
  <2>1. b \in 1 .. i - 1
    BY <1>5 DEF LastBody, HomeOf, LastOf
  <2>2. b \in 1 .. k + 1 /\ b \in 1 .. Len(cd)
    BY <1>1, <2>1
  <2> QED BY <1>2, <2>2
<1>6. ASSUME NEW b \in 1 .. Len(ce), LastBody(ce, i - 1, b)
      PROVE  after[BaseIn(ce)[i] + 2] = Entry("dynamic", BaseIn(ce)[b])
  <2>1. b \in 1 .. Len(cd) /\ BaseIn(ce)[b] = BaseIn(cd)[b] /\ LastBody(cd, i - 1, b)
    BY <1>1, <1>2, <1>5, <1>6
  <2>2. cells[BaseIn(cd)[i] + 2] = Entry("dynamic", BaseIn(cd)[b])
    BY <2>1 DEF Linked
  <2> QED BY <1>3, <2>1, <2>2
<1>7. ASSUME NEW b \in 1 .. Len(ce), HomeOf(ce, i, b)
      PROVE  after[BaseIn(ce)[i] + 1] = Entry("static", BaseIn(ce)[b])
  <2>1. b \in 1 .. Len(cd) /\ BaseIn(ce)[b] = BaseIn(cd)[b] /\ HomeOf(cd, i, b)
    BY <1>1, <1>2, <1>5, <1>7
  <2>2. cells[BaseIn(cd)[i] + 1] = Entry("static", BaseIn(cd)[b])
    BY <2>1 DEF Linked
  <2> QED BY <1>3, <2>1, <2>2
<1> QED BY <1>4, <1>6, <1>7

\* What is kept of the nesting of the first k contexts.
LEMMA NestingKept ==
  ASSUME NEW cd \in Seq(Contexts), NEW ce \in Seq(Contexts), NEW k \in Nat, k >= 1,
         k <= Len(cd), k <= Len(ce), \A i \in 1 .. k : ce[i] = cd[i], Nested(cd)
  PROVE  /\ ce # <<>> /\ ce[1].kind = "body" /\ ce[1].fn = Main
         /\ \A i \in 2 .. k :
              /\ ce[i].fn \in Fn
              /\ ce[i].kind = "body" => ce[i].fn \notin Intrinsic
              /\ ce[i].fn \in Function => ce[i - 1].temps < MaxTemps
              /\ \A b \in 1 .. Len(ce) : LastBody(ce, i - 1, b) =>
                   /\ ce[i].fn \notin Intrinsic => Encl[ce[i].fn] \in Around(ce[b].fn)
                   /\ ce[i].kind = "body" => ce[i].callerLevel = Depth[ce[b].fn]
<1>1. Len(cd) \in Nat /\ Len(ce) \in Nat /\ 1 \in 1 .. k
  BY LenProperties
<1>2. ce # <<>> /\ ce[1].kind = "body" /\ ce[1].fn = Main
  BY <1>1 DEF Nested
<1>3. ASSUME NEW i \in 2 .. k
      PROVE  /\ ce[i].fn \in Fn
             /\ ce[i].kind = "body" => ce[i].fn \notin Intrinsic
             /\ ce[i].fn \in Function => ce[i - 1].temps < MaxTemps
             /\ \A b \in 1 .. Len(ce) : LastBody(ce, i - 1, b) =>
                  /\ ce[i].fn \notin Intrinsic => Encl[ce[i].fn] \in Around(ce[b].fn)
                  /\ ce[i].kind = "body" => ce[i].callerLevel = Depth[ce[b].fn]
  <2>1. i \in 2 .. Len(cd) /\ i \in 1 .. k /\ i - 1 \in 1 .. k /\ i - 1 \in 0 .. k /\ ce[i] = cd[i] /\ ce[i - 1] = cd[i - 1]
    BY <1>1
  <2>2. /\ cd[i].fn \in Fn
        /\ cd[i].kind = "body" => cd[i].fn \notin Intrinsic
        /\ cd[i].fn \in Function => cd[i - 1].temps < MaxTemps
    BY <2>1 DEF Nested
  <2>3. ASSUME NEW b \in 1 .. Len(ce), LastBody(ce, i - 1, b)
        PROVE  /\ cd[i].fn \notin Intrinsic => Encl[cd[i].fn] \in Around(ce[b].fn)
               /\ cd[i].kind = "body" => cd[i].callerLevel = Depth[ce[b].fn]
    <3>1. LastBody(cd, i - 1, b)
      BY <2>1, <2>3, AgreeFacts
    <3>2. b \in 1 .. Len(cd) /\ b \in 1 .. k
      BY <1>1, <2>3 DEF LastBody
    <3> QED BY <2>1, <3>1, <3>2 DEF Nested
  <2> QED BY <2>1, <2>2, <2>3
<1> QED BY <1>2, <1>3

\* The call is made: its frame becomes that of the running body.
LEMMA CallStep ==
  ASSUME IInv, Call
  PROVE  IInv'
<1> DEFINE n == Len(code)
           base == BaseIn(code)[n]
           frame == flist[1]
           c == [cur EXCEPT !.kind = "body", !.callerLevel = scopeLevel]
<1>1. /\ Running /\ cur.kind = "call" /\ cur.done = Nargs[cur.fn] /\ cur.temps = 0 /\ cur.fn \in defined
      /\ frame.fp + Reserved(frame) <= MaxCells /\ UNCHANGED <<scopes, unwinding, names>> /\ unwinding = "no"
  BY DEF Call, Running
<1>2. CASE frame.fp + Reserved(frame) > stackSize
  <2>1. fault' = "overrun" /\ UNCHANGED <<stack, flist, scopeLevel, code>>
    BY <1>2 DEF Call
  <2> QED BY <1>1, <2>1 DEF IInv, TypeOK, stack, names
<1>3. CASE ~ (frame.fp + Reserved(frame) > stackSize)
  <2>1. /\ framepntr' = frame.fp /\ sbOff' = Reserved(frame) /\ scopeLevel' = frame.level /\ flist' = Tail(flist)
        /\ code' = Inner(c) /\ UNCHANGED <<thestack, stackSize, fault>>
    BY <1>3 DEF Call
  <2>2. cur.fn # Main /\ cur.fn \in Fn \ Intrinsic
    BY <1>1, NestingAssumption DEF IInv, TypeOK
  <2>3. /\ code \in Seq(Contexts) /\ n \in Nat /\ n > 1 /\ n \in 2 .. n /\ cur = code[n] /\ cur \in Contexts
        /\ n \in PendingIn(code) /\ Offsets[cur.fn] \in Nat /\ Nargs[cur.fn] \in Nat /\ Nargs[cur.fn] <= Offsets[cur.fn]
    BY <1>1, <2>2, DeepFacts, NestingAssumption
  <2>4. frame.fp = base /\ frame.sb = Offsets[cur.fn] /\ frame.level = Depth[cur.fn]
    BY <2>2, <2>3, ListedFirst DEF IInv
  <2>5. /\ base \in Nat /\ base + FrameSize <= top /\ top \in 0 .. MaxCells /\ top = base + Size(cur)
        /\ Size(cur) = FrameSize + Nargs[cur.fn] + 0
        /\ \A d \in Cell : d >= top => thestack[d] = NoVal
    BY <1>1, <2>2, <2>3, StackFacts, TopFacts
  <2>6. /\ c \in Contexts /\ c.kind = "body" /\ c.fn = cur.fn /\ c.callerLevel = scopeLevel /\ c.temps = 0
    <3>1. scopeLevel \in Nat
      BY DEF IInv, TypeOK
    <3> QED BY <1>1, <2>3, <3>1 DEF Contexts
  <2> HIDE DEF c
  <2>7. /\ code' \in Seq(Contexts) /\ Len(code') = n /\ code'[n] = c
        /\ \A i \in 1 .. n - 1 : code'[i] = code[i]
    BY <2>1, <2>3, <2>6, InnerIs
  <2>8. Size(c) = FrameSize + Offsets[cur.fn] + 0
    BY <2>2, <2>6, SizeFacts
  <2>9. /\ framepntr' = base /\ sbOff' = Offsets[cur.fn] + FrameSize
        /\ framepntr' + sbOff' = base + Size(c) /\ framepntr' + sbOff' <= MaxCells /\ framepntr' + sbOff' >= top
        /\ framepntr' \in Cell /\ sbOff' \in 0 .. MaxCells
    <3> DEFINE a == Offsets[cur.fn]
               k == Nargs[cur.fn]
               t == top
    <3>1. framepntr' = base /\ sbOff' = a + FrameSize
      BY <2>1, <2>4 DEF Reserved
    <3>2. base + (a + FrameSize) <= MaxCells
      BY <1>1, <2>4 DEF Reserved
    <3>3. a \in Nat /\ k \in Nat /\ k <= a /\ base \in Nat /\ t = base + (FrameSize + k + 0) /\ Size(c) = FrameSize + a + 0
      BY <2>3, <2>5, <2>8
    <3> HIDE DEF a, k, t, base
    <3>4. /\ base + (a + FrameSize) = base + Size(c) /\ base + (a + FrameSize) >= t
          /\ base \in Cell /\ a + FrameSize \in 0 .. MaxCells
      BY <3>2, <3>3, SizeAssumption DEF FrameSize, Cell
    <3> QED BY <3>1, <3>2, <3>4 DEF a, t
  <2> DEFINE ce == code'
             k == n - 1
  <2>10. /\ ce \in Seq(Contexts) /\ Len(ce) = n /\ ce[n] = c /\ k \in Nat /\ k >= 1 /\ k <= Len(code) /\ k <= Len(ce)
         /\ k + 1 = n /\ \A i \in 1 .. k : ce[i] = code[i]
    BY <2>3, <2>7
  <2>11. Nested(code) /\ Linked(code, thestack)
    BY DEF IInv
  <2> HIDE DEF ce, k
  <2>12. /\ \A i \in 1 .. n : BaseIn(ce)[i] = BaseIn(code)[i]
         /\ \A b : LastBody(ce, k, b) <=> LastBody(code, k, b)
    <3>1. /\ \A i \in 1 .. k + 1 : BaseIn(ce)[i] = BaseIn(code)[i]
          /\ \A m \in 0 .. k : \A b : LastBody(ce, m, b) <=> LastBody(code, m, b)
      BY <2>3, <2>10, AgreeFacts
    <3>2. k \in 0 .. k
      BY <2>10
    <3> QED BY <2>10, <3>1, <3>2
  <2>13. \A b \in 1 .. n : LastBody(code, k, b) => scopeLevel = Depth[code[b].fn] /\ b \in 1 .. k
    BY <1>1, <2>3, CallerFacts DEF k, LastBody
  <2>14. Nested(ce)
    <3>1. /\ ce # <<>> /\ ce[1].kind = "body" /\ ce[1].fn = Main
          /\ \A i \in 2 .. k :
               /\ ce[i].fn \in Fn
               /\ ce[i].kind = "body" => ce[i].fn \notin Intrinsic
               /\ ce[i].fn \in Function => ce[i - 1].temps < MaxTemps
               /\ \A b \in 1 .. Len(ce) : LastBody(ce, i - 1, b) =>
                    /\ ce[i].fn \notin Intrinsic => Encl[ce[i].fn] \in Around(ce[b].fn)
                    /\ ce[i].kind = "body" => ce[i].callerLevel = Depth[ce[b].fn]
      BY <2>3, <2>10, <2>11, NestingKept
    <3>2. cur.fn \in Function => ce[n - 1].temps < MaxTemps
      <4>1. code[n].fn \in Function => code[n - 1].temps < MaxTemps
        BY <2>3, <2>11 DEF Nested
      <4>2. ce[n - 1] = code[n - 1]
        BY <2>3, <2>10 DEF k
      <4> QED BY <2>3, <4>1, <4>2
    <3>3. ASSUME NEW b \in 1 .. n, LastBody(ce, n - 1, b)
          PROVE  Encl[cur.fn] \in Around(ce[b].fn) /\ scopeLevel = Depth[ce[b].fn]
      <4>1. LastBody(code, n - 1, b)
        BY <2>12, <3>3 DEF k
      <4>2. scopeLevel = Depth[code[b].fn] /\ b \in 1 .. k /\ ce[b] = code[b]
        BY <2>10, <2>13, <4>1 DEF k
      <4>3. Encl[cur.fn] \in Around(code[b].fn)
        BY <2>2, <2>3, <2>11, <4>1 DEF Nested
      <4> QED BY <4>2, <4>3
    <3>4. \A i \in 2 .. n : i = n \/ i \in 2 .. k
      BY <2>3, <2>10
    <3>5. ASSUME NEW i \in 2 .. n
          PROVE  /\ ce[i].fn \in Fn
                 /\ ce[i].kind = "body" => ce[i].fn \notin Intrinsic
                 /\ ce[i].fn \in Function => ce[i - 1].temps < MaxTemps
                 /\ \A b \in 1 .. n : LastBody(ce, i - 1, b) =>
                      /\ ce[i].fn \notin Intrinsic => Encl[ce[i].fn] \in Around(ce[b].fn)
                      /\ ce[i].kind = "body" => ce[i].callerLevel = Depth[ce[b].fn]
      <4>1. CASE i = n
        BY <2>2, <2>6, <2>10, <3>2, <3>3, <4>1
      <4>2. CASE i # n
        <5>1. i \in 2 .. k
          BY <3>4, <4>2
        <5> QED BY <2>10, <3>1, <5>1
      <4> QED BY <4>1, <4>2
    <3> HIDE DEF n
    <3> QED BY <2>10, <3>1, <3>5 DEF Nested
  <2>15. Linked(ce, thestack)
    <3> SUFFICES ASSUME NEW i \in 2 .. n
                 PROVE  /\ thestack[BaseIn(ce)[i] + 4] = Entry("params", ce[i].fn)
                        /\ \A b \in 1 .. n :
                             /\ LastBody(ce, i - 1, b) => thestack[BaseIn(ce)[i] + 2] = Entry("dynamic", BaseIn(ce)[b])
                             /\ HomeOf(ce, i, b) => thestack[BaseIn(ce)[i] + 1] = Entry("static", BaseIn(ce)[b])
      BY <2>10 DEF Linked
    <3>1. i \in 2 .. Len(ce) /\ i <= k + 1 /\ ce[i].fn = code[i].fn
      <4>1. i = n \/ i \in 1 .. k
        BY <2>3, <2>10
      <4> QED BY <2>3, <2>6, <2>10, <4>1
    <3> HIDE DEF n
    <3>2. i \in 2 .. Len(code)
      BY DEF n
    <3>3. /\ thestack[BaseIn(ce)[i] + 4] = Entry("params", ce[i].fn)
          /\ \A b \in 1 .. Len(ce) :
               /\ LastBody(ce, i - 1, b) => thestack[BaseIn(ce)[i] + 2] = Entry("dynamic", BaseIn(ce)[b])
               /\ HomeOf(ce, i, b) => thestack[BaseIn(ce)[i] + 1] = Entry("static", BaseIn(ce)[b])
      <4>1. code \in Seq(Contexts) /\ \A j \in {1, 2, 4} : thestack[BaseIn(code)[i] + j] = thestack[BaseIn(code)[i] + j]
        BY <2>3
      <4>2. /\ ce \in Seq(Contexts) /\ k \in Nat /\ k <= Len(code) /\ k <= Len(ce)
            /\ \A j \in 1 .. k : ce[j] = code[j]
        BY <2>10
      <4> QED BY <2>11, <3>1, <3>2, <4>1, <4>2, LinksKept, SMTT(60)
    <3> QED BY <2>10, <3>3
  <2>16. \A b \in 1 .. n : LastBody(ce, n, b) => b = n
    BY <2>3, <2>6, <2>10 DEF LastBody
  <2>17. Placed(ce, thestack, framepntr', sbOff')
    <3>1. BaseIn(ce)[n + 1] = base + Size(c)
      <4>1. n \in 1 .. Len(ce) /\ BaseIn(ce)[n] = base
        BY <2>3, <2>10, <2>12
      <4>2. BaseIn(ce)[n + 1] = BaseIn(ce)[n] + Size(ce[n])
        BY <2>10, <4>1, BaseFacts
      <4> QED BY <2>10, <4>1, <4>2
    <3>2. \A b \in 1 .. n : LastBody(ce, n, b) => framepntr' = BaseIn(ce)[b]
      BY <2>3, <2>9, <2>12, <2>16
    <3>3. \A d \in Cell : d >= framepntr' + sbOff' => thestack[d] = NoVal
      <4> DEFINE t == top
                 u == framepntr' + sbOff'
      <4>1. u >= t /\ t \in Int /\ u \in Int /\ \A d \in Cell : d \in Int /\ (d >= t => thestack[d] = NoVal)
        BY <2>5, <2>9 DEF Cell
      <4> HIDE DEF t, u
      <4>2. \A d \in Cell : d >= u => thestack[d] = NoVal
        BY <4>1
      <4> QED BY <4>2 DEF u
    <3> QED BY <2>9, <2>10, <3>1, <3>2, <3>3 DEF Placed
  <2>18. Listed(ce, Tail(flist))
    <3>1. flist \in Seq([level : Nat, fp : Cell, sb : Nat]) /\ Listed(code, flist)
      BY DEF IInv, TypeOK
    <3>2. PendingIn(ce) = PendingIn(code) \ {n}
      <4>1. \A i \in 1 .. n : i = n \/ ce[i] = code[i]
        BY <2>3, <2>10
      <4> QED BY <2>6, <2>10, <4>1 DEF PendingIn
    <3>3. \A i \in PendingIn(ce) : BaseIn(ce)[i] = BaseIn(code)[i] /\ ce[i].fn = code[i].fn
      <4>1. \A i \in PendingIn(ce) : i \in 1 .. n /\ i # n
        BY <2>10, <3>2 DEF PendingIn
      <4>2. \A i \in PendingIn(ce) : i \in 1 .. k
        BY <2>3, <2>10, <4>1
      <4> QED BY <2>10, <2>12, <4>1, <4>2
    <3> QED BY <2>3, <3>1, <3>2, <3>3, ListedDrop
  <2>19. Pushed(ce, scopes, Lost(unwinding'))
    <3>1. \A i \in 1 .. n : ce[i].fn = code[i].fn
      <4>1. \A i \in 1 .. n : i = n \/ i \in 1 .. k
        BY <2>3, <2>10
      <4> QED BY <2>3, <2>6, <2>10, <4>1
    <3>2. ScopedIn(ce) = ScopedIn(code) /\ \A i \in ScopedIn(code) : ce[i].fn = code[i].fn
      BY <2>10, <3>1 DEF ScopedIn
    <3>3. Pushed(code, scopes, Lost(unwinding)) /\ unwinding' = unwinding
      BY <1>1 DEF IInv
    <3> QED BY <3>2, <3>3, PushedStays
  <2>20. Counted(ce, unwinding')
    <3> SUFFICES ASSUME NEW i \in PendingIn(ce)
                 PROVE  ce[i].done <= Nargs[ce[i].fn] /\ ce[i].done < Nargs[ce[i].fn]
      BY DEF Counted
    <3>1. i \in 1 .. n /\ ce[i].kind = "call"
      BY <2>10 DEF PendingIn
    <3>2. i # n
      BY <2>6, <2>10, <3>1
    <3>3. i \in 1 .. k /\ i < n
      BY <2>3, <2>10, <3>1, <3>2
    <3>4. ce[i] = code[i] /\ i \in PendingIn(code)
      BY <2>10, <3>1, <3>3 DEF PendingIn
    <3> QED BY <3>3, <3>4 DEF IInv, Counted
  <2>21. Levelled(ce, scopeLevel', unwinding')
    <3>1. scopeLevel' = Depth[cur.fn] /\ unwinding' = "no"
      BY <1>1, <2>1, <2>4
    <3> QED BY <2>6, <2>10, <2>16, <3>1 DEF Levelled
  <2>22. TypeOK'
    <3>1. flist' \in Seq([level : Nat, fp : Cell, sb : Nat])
      <4>1. flist \in Seq([level : Nat, fp : Cell, sb : Nat])
        BY DEF IInv, TypeOK
      <4>2. Len(flist) >= 1
        BY <2>3, ListedFirst DEF IInv
      <4>3. flist # <<>>
        BY <4>2
      <4> QED BY <2>1, <4>1, <4>3, HeadTailProperties
    <3>2. scopeLevel' \in Nat
      BY <2>1, <2>2, <2>4, NestingAssumption
    <3> QED BY <1>1, <2>1, <2>7, <2>9, <3>1, <3>2 DEF IInv, TypeOK, names, Contexts
  <2>23. thestack' = thestack /\ flist' = Tail(flist) /\ scopes' = scopes
    BY <1>1, <2>1
  <2> QED BY <2>14, <2>15, <2>17, <2>18, <2>19, <2>20, <2>21, <2>22, <2>23 DEF IInv, ce
<1> QED BY <1>2, <1>3

\* The static link of a new frame.
LEMMA StaticLinkIs ==
  ASSUME IInv, NEW f \in Fn, f \in Intrinsic \/ Encl[f] \in Around(code[running].fn)
  PROVE  /\ \E x \in 1 .. Len(code) : StaticLink(NewLevel(f)) = BaseIn(code)[x]
         /\ f \in Intrinsic => StaticLink(NewLevel(f)) = BaseIn(code)[running]
         /\ f \notin Intrinsic =>
              \A x : LastOf(code, Encl[f], Len(code), x) => StaticLink(NewLevel(f)) = BaseIn(code)[x]
         /\ NewLevel(f) \in Nat
<1> DEFINE n == Len(code)
           r == running
           h == code[r].fn
<1>1. code \in Seq(Contexts) /\ n \in Nat /\ n >= 1 /\ Nested(code) /\ Linked(code, thestack) /\ scopeLevel \in Nat
  BY InnermostFacts DEF IInv, TypeOK
<1>2. r \in 1 .. n /\ code[r].kind = "body" /\ LastBody(code, n, r) /\ framepntr = BaseIn(code)[r]
  BY <1>1, RunningIs, StackFacts
<1>3. h \in Fn \cup {Main} /\ scopeLevel = Depth[h]
  BY <1>1, <1>2, CodeFacts DEF IInv, Levelled
<1> HIDE DEF r
<1>4. ASSUME NEW g \in Around(h), NEW x, LastOf(code, g, r, x)
      PROVE  Hop(scopeLevel - Depth[g]) = BaseIn(code)[x]
  <2>1. Hop(Depth[h] - Depth[g]) = BaseIn(code)[x]
    BY <1>1, <1>2, <1>4, HopIs
  <2> QED BY <1>3, <2>1
<1>5. CASE f \in Intrinsic
  <2>1. LastOf(code, h, r, r)
    BY <1>1, <1>2 DEF LastOf
  <2>2. h \in Around(h)
    BY <1>3, AroundFacts
  <2>3. Hop(scopeLevel - Depth[h]) = BaseIn(code)[r]
    BY <1>4, <2>1, <2>2
  <2>4. NewLevel(f) = scopeLevel + 1
    BY <1>5 DEF NewLevel
  <2>5. scopeLevel + 1 - (scopeLevel + 1) = 0 /\ scopeLevel - Depth[h] = 0
    BY <1>1, <1>3
  <2>6. StaticLink(NewLevel(f)) = BaseIn(code)[r]
    BY <2>3, <2>4, <2>5 DEF StaticLink
  <2>7. NewLevel(f) \in Nat
    BY <1>1, <2>4
  <2> QED BY <1>2, <1>5, <2>6, <2>7 DEF r
<1>6. CASE f \notin Intrinsic
  <2> DEFINE g == Encl[f]
  <2>1. g \in Around(h)
    BY <1>6 DEF r
  <2>2. Depth[f] = Depth[g] + 1 /\ g \in Fn \cup {Main} /\ Depth[f] \in Nat
    BY NestingAssumption
  <2>3. Depth[g] \in Nat
    BY <2>2, NestingAssumption
  <2>4. NewLevel(f) = Depth[f]
    BY <1>6 DEF NewLevel
  <2>5. scopeLevel + 1 - Depth[f] = scopeLevel - Depth[g]
    BY <1>1, <2>2, <2>3
  <2>6. StaticLink(NewLevel(f)) = Hop(scopeLevel - Depth[g])
    BY <2>4, <2>5 DEF StaticLink
  <2>7. PICK y \in 1 .. r : LastOf(code, g, r, y)
    BY <1>1, <1>2, <2>1, LexicalHomes
  <2>8. StaticLink(NewLevel(f)) = BaseIn(code)[y] /\ y \in 1 .. n
    BY <1>1, <1>2, <1>4, <2>1, <2>6, <2>7
  <2>9. ASSUME NEW x, LastOf(code, g, n, x) PROVE LastOf(code, g, r, x)
    <3>1. x <= r
      BY <1>2, <2>9 DEF LastBody, LastOf
    <3> QED BY <1>1, <1>2, <2>9, <3>1 DEF LastOf
  <2>10. \A x : LastOf(code, g, n, x) => StaticLink(NewLevel(f)) = BaseIn(code)[x]
    BY <1>4, <2>1, <2>6, <2>9
  <2> QED BY <1>6, <2>2, <2>4, <2>8, <2>10
<1> QED BY <1>5, <1>6

\* The cells of a new frame.
LEMMA FrameCells ==
  ASSUME IInv, NEW f \in Fn, f \in Intrinsic \/ Encl[f] \in Around(code[running].fn),
         top + FrameSize <= MaxCells, PushFrame(f)
  PROVE  /\ thestack' \in Stacks
         /\ thestack'[top + 1] = Entry("static", StaticLink(NewLevel(f)))
         /\ thestack'[top + 2] = Entry("dynamic", framepntr)
         /\ thestack'[top + 4] = Entry("params", f)
         /\ \A c \in Cell : c < top \/ c >= top + FrameSize => thestack'[c] = thestack[c]
<1> DEFINE R == Entries
           t == top
           link == StaticLink(NewLevel(f))
<1>1. /\ thestack \in [Cell -> R] /\ top \in 0 .. MaxCells /\ framepntr \in Cell
      /\ \A i \in 2 .. Len(code) : BaseIn(code)[i] \in Nat /\ BaseIn(code)[i] + FrameSize <= top
  BY StackFacts
<1>2. /\ t \in Cell /\ t + 1 \in Cell /\ t + 2 \in Cell /\ t + 3 \in Cell /\ t + 4 \in Cell /\ t \in Nat /\ 0 \in Cell
  BY <1>1, SizeAssumption DEF FrameSize, Cell
<1>3. link \in Cell
  <2>1. PICK x \in 1 .. Len(code) : link = BaseIn(code)[x]
    BY StaticLinkIs
  <2>2. code \in Seq(Contexts) /\ Len(code) \in Nat /\ x \in 1 .. Len(code) + 1 /\ Len(code) + 1 \in 1 .. Len(code) + 1
    BY InnermostFacts
  <2>3. BaseIn(code)[x] \in Nat /\ BaseIn(code)[x] <= BaseIn(code)[Len(code) + 1]
    BY <2>2, BaseFacts, BaseOrder
  <2>4. BaseIn(code)[Len(code) + 1] = t
    BY StackFacts
  <2>5. link \in Nat /\ link <= t
    BY <2>1, <2>3, <2>4
  <2> HIDE DEF t, link
  <2> QED BY <1>2, <2>5, SizeAssumption DEF Cell
<1>4. thestack' = [thestack EXCEPT ![t] = Entry("ret", f), ![t + 1] = Entry("static", link),
                                   ![t + 2] = Entry("dynamic", framepntr), ![t + 3] = Entry("pc", 0),
                                   ![t + 4] = Entry("params", f)]
  BY DEF PushFrame
<1>5. Entry("ret", f) \in R /\ Entry("static", link) \in R /\ Entry("dynamic", framepntr) \in R
      /\ Entry("pc", 0) \in R /\ Entry("params", f) \in R
  BY <1>1, <1>2, <1>3 DEF Entry
<1> HIDE DEF R, t, link
<1>6. /\ thestack' \in [Cell -> R]
      /\ thestack'[t + 1] = Entry("static", link) /\ thestack'[t + 2] = Entry("dynamic", framepntr)
      /\ thestack'[t + 4] = Entry("params", f)
      /\ \A c \in Cell : c \notin {t, t + 1, t + 2, t + 3, t + 4} => thestack'[c] = thestack[c]
  <2> DEFINE s1 == [thestack EXCEPT ![t] = Entry("ret", f)]
             s2 == [s1 EXCEPT ![t + 1] = Entry("static", link)]
             s3 == [s2 EXCEPT ![t + 2] = Entry("dynamic", framepntr)]
             s4 == [s3 EXCEPT ![t + 3] = Entry("pc", 0)]
             s5 == [s4 EXCEPT ![t + 4] = Entry("params", f)]
  <2>1. thestack' = s5
    BY <1>4
  <2>2. s1 \in [Cell -> R] /\ \A c \in Cell : s1[c] = IF c = t THEN Entry("ret", f) ELSE thestack[c]
    BY <1>1, <1>5 DEF R
  <2> HIDE DEF s1
  <2>3. s2 \in [Cell -> R] /\ \A c \in Cell : s2[c] = IF c = t + 1 THEN Entry("static", link) ELSE s1[c]
    BY <1>5, <2>2
  <2> HIDE DEF s2
  <2>4. s3 \in [Cell -> R] /\ \A c \in Cell : s3[c] = IF c = t + 2 THEN Entry("dynamic", framepntr) ELSE s2[c]
    BY <1>5, <2>3
  <2> HIDE DEF s3
  <2>5. s4 \in [Cell -> R] /\ \A c \in Cell : s4[c] = IF c = t + 3 THEN Entry("pc", 0) ELSE s3[c]
    BY <1>5, <2>4
  <2> HIDE DEF s4
  <2>6. s5 \in [Cell -> R] /\ \A c \in Cell : s5[c] = IF c = t + 4 THEN Entry("params", f) ELSE s4[c]
    BY <1>5, <2>5
  <2> HIDE DEF s5
  <2>7. t + 1 # t + 2 /\ t + 1 # t + 3 /\ t + 1 # t + 4 /\ t + 2 # t + 3 /\ t + 2 # t + 4
    BY <1>2
  <2>8. s5[t + 1] = Entry("static", link) /\ s5[t + 2] = Entry("dynamic", framepntr) /\ s5[t + 4] = Entry("params", f)
    BY <1>2, <2>3, <2>4, <2>5, <2>6, <2>7
  <2>9. \A c \in Cell : c \notin {t, t + 1, t + 2, t + 3, t + 4} => s5[c] = thestack[c]
    BY <2>2, <2>3, <2>4, <2>5, <2>6
  <2> QED BY <2>1, <2>6, <2>8, <2>9
<1>7. \A c \in Cell : c < t \/ c >= t + FrameSize => c \notin {t, t + 1, t + 2, t + 3, t + 4}
  BY <1>2 DEF Cell, FrameSize
<1> QED BY <1>6, <1>7 DEF R, t, link

LEMMA NewFrameStep ==
  ASSUME IInv, NEW f \in Fn, NewFrame(f)
  PROVE  IInv'
<1> DEFINE n == Len(code)
           c == Context("call", f)
           r == [level |-> NewLevel(f), fp |-> top, sb |-> Offsets[f]]
<1>1. /\ IF f \in Function THEN Evaluating /\ cur.temps < MaxTemps ELSE Statement
      /\ f \in Intrinsic \/ Encl[f] \in Around(code[running].fn)
      /\ top + FrameSize <= MaxCells /\ UNCHANGED <<scopeLevel, names, fault>>
  BY DEF NewFrame
<1>2. /\ code \in Seq(Contexts) /\ n \in Nat /\ n >= 1 /\ n \in 1 .. n /\ cur = code[n] /\ Nested(code)
      /\ Linked(code, thestack) /\ (n \in PendingIn(code) <=> cur.kind = "call")
      /\ Offsets[f] \in Nat /\ Nargs[f] \in Nat /\ f # Main
  BY InnermostFacts, NestingAssumption DEF IInv
<1>3. unwinding = "no" /\ \A i \in PendingIn(code) : code[i].done < Nargs[code[i].fn]
  <2>1. unwinding = "no"
    BY <1>1 DEF Evaluating, Statement, Running
  <2>2. cur.kind = "call" => cur.done < Nargs[cur.fn]
    BY <1>1 DEF Evaluating, Statement
  <2>3. ASSUME NEW i \in PendingIn(code) PROVE code[i].done < Nargs[code[i].fn]
    <3>1. CASE i = n
      BY <1>2, <2>2, <2>3, <3>1
    <3>2. CASE i # n
      <4>1. i < n
        BY <1>2, <3>2 DEF PendingIn
      <4> QED BY <4>1 DEF IInv, Counted
    <3> QED BY <3>1, <3>2
  <2> QED BY <2>1, <2>3
<1>4. CASE ~ (f \in Intrinsic \cup defined)
  <2>1. unwinding' = "failed" /\ UNCHANGED <<stack, flist, scopes, code>>
    BY <1>4 DEF NewFrame
  <2>2. Lost(unwinding') = Lost(unwinding) /\ Counted(code, unwinding') /\ Levelled(code, scopeLevel, unwinding')
    <3>1. Levelled(code, scopeLevel, unwinding)
      BY DEF IInv
    <3>2. Counted(code, unwinding)
      BY DEF IInv
    <3> QED BY <1>3, <2>1, <3>1, <3>2 DEF Lost, Counted, Levelled
  <2>3. TypeOK'
    BY <1>1, <2>1 DEF IInv, TypeOK, stack, names
  <2> QED BY <1>1, <2>1, <2>2, <2>3 DEF IInv, stack
<1>5. CASE f \in Intrinsic \cup defined
  <2>1. /\ PushFrame(f) /\ scopes' = IF f \in Intrinsic THEN scopes ELSE Append(scopes, f)
        /\ code' = Append(code, c) /\ unwinding' = unwinding
    BY <1>5 DEF NewFrame
  <2>2. /\ c \in Contexts /\ c.kind = "call" /\ c.fn = f /\ c.done = 0 /\ c.temps = 0
    BY <1>2, SizeAssumption DEF Context, Contexts
  <2>3. Size(c) = FrameSize
    BY <1>2, <2>2, SizeFacts DEF FrameSize
  <2> HIDE DEF c
  <2> DEFINE ce == code'
  <2>4. /\ ce \in Seq(Contexts) /\ Len(ce) = n + 1 /\ ce[n + 1] = c /\ \A i \in 1 .. n : ce[i] = code[i]
    BY <1>2, <2>1, <2>2, AppendProperties
  <2> HIDE DEF ce
  <2>5. /\ \A i \in 1 .. n + 1 : BaseIn(ce)[i] = BaseIn(code)[i]
        /\ \A m \in 0 .. n : \A b : LastBody(ce, m, b) <=> LastBody(code, m, b)
        /\ \A m \in 0 .. n : \A g, b : LastOf(ce, g, m, b) <=> LastOf(code, g, m, b)
    <3>1. n <= Len(code) /\ n <= Len(ce)
      BY <1>2, <2>4
    <3> HIDE DEF n
    <3> QED BY <1>2, <2>4, <3>1, AgreeFacts
  <2>6. BaseIn(code)[n + 1] = top /\ top \in 0 .. MaxCells /\ framepntr \in Cell /\ sbOff \in 0 .. MaxCells
        /\ (\A d \in Cell : d >= top => thestack[d] = NoVal)
        /\ (\A i \in 2 .. n : BaseIn(code)[i] \in Nat /\ BaseIn(code)[i] + FrameSize <= top)
    BY StackFacts
  <2>7. BaseIn(ce)[n + 1] = top /\ BaseIn(ce)[(n + 1) + 1] = top + FrameSize
    <3>1. n + 1 \in 1 .. Len(ce) /\ n + 1 \in 1 .. n + 1
      BY <1>2, <2>4
    <3>2. BaseIn(ce)[(n + 1) + 1] = BaseIn(ce)[n + 1] + Size(ce[n + 1])
      BY <2>4, <3>1, BaseFacts
    <3> QED BY <2>3, <2>4, <2>5, <2>6, <3>1, <3>2
  <2>8. running \in 1 .. n /\ LastBody(code, n, running) /\ framepntr = BaseIn(code)[running]
    BY <1>2, RunningIs, StackFacts
  <2>9. \A b : LastBody(ce, n, b) => b = running
    <3>1. n \in 0 .. n
      BY <1>2
    <3> QED BY <1>2, <2>5, <2>8, <3>1, LastBodyUnique
  <2>10. /\ thestack' \in Stacks
         /\ thestack'[top + 1] = Entry("static", StaticLink(NewLevel(f)))
         /\ thestack'[top + 2] = Entry("dynamic", framepntr)
         /\ thestack'[top + 4] = Entry("params", f)
         /\ \A d \in Cell : d < top \/ d >= top + FrameSize => thestack'[d] = thestack[d]
    BY <1>1, <2>1, FrameCells
  <2>11. framepntr' = framepntr /\ sbOff' = sbOff + FrameSize /\ flist' = <<r>> \o flist /\ stackSize' = Grown(top + FrameSize)
    BY <2>1 DEF PushFrame
  <2>12. framepntr' + sbOff' = top + FrameSize
    BY <2>6, <2>11 DEF top, Cell, FrameSize
  <2>13. /\ StaticLink(NewLevel(f)) \in {BaseIn(code)[x] : x \in 1 .. n}
         /\ f \in Intrinsic => StaticLink(NewLevel(f)) = BaseIn(code)[running]
         /\ f \notin Intrinsic => \A x : LastOf(code, Encl[f], n, x) => StaticLink(NewLevel(f)) = BaseIn(code)[x]
         /\ NewLevel(f) \in Nat
    BY <1>1, StaticLinkIs
  <2>14. Nested(ce)
    <3>1. /\ ce # <<>> /\ ce[1].kind = "body" /\ ce[1].fn = Main
          /\ \A i \in 2 .. n :
               /\ ce[i].fn \in Fn
               /\ ce[i].kind = "body" => ce[i].fn \notin Intrinsic
               /\ ce[i].fn \in Function => ce[i - 1].temps < MaxTemps
               /\ \A b \in 1 .. Len(ce) : LastBody(ce, i - 1, b) =>
                    /\ ce[i].fn \notin Intrinsic => Encl[ce[i].fn] \in Around(ce[b].fn)
                    /\ ce[i].kind = "body" => ce[i].callerLevel = Depth[ce[b].fn]
      <4>1. n <= Len(code) /\ n <= Len(ce)
        BY <1>2, <2>4
      <4> HIDE DEF n
      <4> QED BY <1>2, <2>4, <4>1, NestingKept
    <3>2. f \in Function => ce[n].temps < MaxTemps
      BY <1>1, <1>2, <2>4
    <3>3. ASSUME NEW b, LastBody(ce, n, b) PROVE f \notin Intrinsic => Encl[f] \in Around(ce[b].fn)
      <4>1. b = running /\ ce[b] = code[running]
        BY <2>4, <2>8, <2>9, <3>3
      <4> QED BY <1>1, <4>1
    <3>4. ASSUME NEW i \in 2 .. n + 1
          PROVE  /\ ce[i].fn \in Fn
                 /\ ce[i].kind = "body" => ce[i].fn \notin Intrinsic
                 /\ ce[i].fn \in Function => ce[i - 1].temps < MaxTemps
                 /\ \A b \in 1 .. n + 1 : LastBody(ce, i - 1, b) =>
                      /\ ce[i].fn \notin Intrinsic => Encl[ce[i].fn] \in Around(ce[b].fn)
                      /\ ce[i].kind = "body" => ce[i].callerLevel = Depth[ce[b].fn]
      <4>1. CASE i = n + 1
        <5>1. (n + 1) - 1 = n /\ ce[i] = c
          BY <1>2, <2>4, <4>1
        <5> QED BY <2>2, <3>2, <3>3, <4>1, <5>1
      <4>2. CASE i # n + 1
        <5>1. i \in 2 .. n
          BY <1>2, <4>2
        <5> QED BY <2>4, <3>1, <5>1
      <4> QED BY <4>1, <4>2
    <3> HIDE DEF n
    <3> QED BY <2>4, <3>1, <3>4 DEF Nested
  <2>15. Linked(ce, thestack')
    <3> SUFFICES ASSUME NEW i \in 2 .. n + 1
                 PROVE  /\ thestack'[BaseIn(ce)[i] + 4] = Entry("params", ce[i].fn)
                        /\ \A b \in 1 .. n + 1 :
                             /\ LastBody(ce, i - 1, b) => thestack'[BaseIn(ce)[i] + 2] = Entry("dynamic", BaseIn(ce)[b])
                             /\ HomeOf(ce, i, b) => thestack'[BaseIn(ce)[i] + 1] = Entry("static", BaseIn(ce)[b])
      BY <2>4 DEF Linked
    <3>1. CASE i = n + 1
      <4>1. i - 1 = n /\ ce[i].fn = f /\ BaseIn(ce)[i] = top /\ n \in 0 .. n
        BY <1>2, <2>2, <2>4, <2>7, <3>1
      <4>2. ASSUME NEW b \in 1 .. n + 1, LastBody(ce, n, b)
            PROVE  framepntr = BaseIn(ce)[b]
        <5>1. b = running /\ b \in 1 .. n + 1
          BY <2>9, <4>2
        <5> QED BY <2>5, <2>8, <5>1
      <4>3. ASSUME NEW b \in 1 .. n + 1, HomeOf(ce, i, b)
            PROVE  StaticLink(NewLevel(f)) = BaseIn(ce)[b]
        <5>1. CASE f \in Intrinsic
          <6>1. LastBody(ce, n, b)
            BY <4>1, <4>3, <5>1 DEF HomeOf
          <6>2. b = running
            BY <2>9, <6>1
          <6>3. BaseIn(ce)[b] = BaseIn(code)[running]
            BY <2>5, <6>2
          <6> QED BY <2>13, <5>1, <6>3
        <5>2. CASE f \notin Intrinsic
          <6>1. LastOf(ce, Encl[f], n, b)
            BY <4>1, <4>3, <5>2 DEF HomeOf
          <6>2. LastOf(code, Encl[f], n, b)
            BY <2>5, <4>1, <6>1
          <6>3. BaseIn(ce)[b] = BaseIn(code)[b]
            BY <2>5
          <6> QED BY <2>13, <5>2, <6>2, <6>3
        <5> QED BY <5>1, <5>2
      <4> QED BY <2>10, <4>1, <4>2, <4>3
    <3>2. CASE i # n + 1
      <4>1. i \in 2 .. n /\ i \in 2 .. Len(ce) /\ i <= n + 1 /\ n <= Len(code) /\ n <= Len(ce) /\ i \in 1 .. n
        BY <1>2, <2>4, <3>2
      <4>2. ce[i].fn = code[i].fn
        BY <2>4, <4>1
      <4> DEFINE after == thestack'
      <4>3. \A j \in {1, 2, 4} : after[BaseIn(code)[i] + j] = thestack[BaseIn(code)[i] + j]
        <5>1. \A d \in Cell : d < top => thestack'[d] = thestack[d]
          BY <2>10
        <5>2. top \in Nat /\ n \in 0 .. Len(code) /\ \A m \in 2 .. n : BaseIn(code)[m] + FrameSize <= top
          BY <1>2, <2>6
        <5>3. \A m \in 2 .. n : \A j \in {1, 2, 4} : thestack'[BaseIn(code)[m] + j] = thestack[BaseIn(code)[m] + j]
          BY <5>1, <5>2, HeadersKept
        <5> QED BY <4>1, <5>3
      <4> HIDE DEF after, n
      <4>4. i \in 2 .. Len(code) /\ \A j \in 1 .. n : ce[j] = code[j]
        BY <2>4, <4>1 DEF n
      <4>5. /\ after[BaseIn(ce)[i] + 4] = Entry("params", ce[i].fn)
            /\ \A b \in 1 .. Len(ce) :
                 /\ LastBody(ce, i - 1, b) => after[BaseIn(ce)[i] + 2] = Entry("dynamic", BaseIn(ce)[b])
                 /\ HomeOf(ce, i, b) => after[BaseIn(ce)[i] + 1] = Entry("static", BaseIn(ce)[b])
        <5>1. code \in Seq(Contexts) /\ n \in Nat /\ Linked(code, thestack)
          BY <1>2
        <5>2. ce \in Seq(Contexts) /\ n <= Len(code) /\ n <= Len(ce) /\ \A j \in 1 .. n : ce[j] = code[j]
          BY <2>4, <4>1
        <5>3. i \in 2 .. Len(code) /\ i \in 2 .. Len(ce) /\ i <= n + 1
          BY <4>1, <4>4
        <5> QED BY <4>2, <4>3, <5>1, <5>2, <5>3, LinksKept
      <4> QED BY <2>4, <4>5 DEF after
    <3> QED BY <3>1, <3>2
  <2>16. \A b : LastBody(ce, n + 1, b) => b = running
    <3> SUFFICES ASSUME NEW b, LastBody(ce, n + 1, b) PROVE b = running
      OBVIOUS
    <3>1. b \in 1 .. n + 1 /\ b # n + 1 /\ ce[b].kind = "body" /\ \A j \in 1 .. n + 1 : ce[j].kind = "body" => j <= b
      BY <2>2, <2>4 DEF LastBody
    <3>2. b \in 1 .. n /\ \A j \in 1 .. n : j \in 1 .. n + 1
      BY <1>2, <3>1
    <3>3. LastBody(ce, n, b)
      BY <3>1, <3>2 DEF LastBody
    <3> QED BY <2>9, <3>3
  <2>17. Placed(ce, thestack', framepntr', sbOff')
    <3>1. \A b \in 1 .. n + 1 : LastBody(ce, n + 1, b) => framepntr' = BaseIn(ce)[b]
      BY <2>5, <2>8, <2>11, <2>16
    <3>2. \A d \in Cell : d >= framepntr' + sbOff' => thestack'[d] = NoVal
      <4> DEFINE t == top
      <4>1. t \in Nat /\ \A d \in Cell : d \in Int
        BY <2>6 DEF Cell
      <4>2. \A d \in Cell : d >= t + FrameSize => thestack'[d] = thestack[d] /\ d >= t
        BY <2>10, <4>1 DEF FrameSize
      <4> QED BY <2>6, <2>12, <4>2
    <3> QED BY <1>1, <2>4, <2>7, <2>12, <3>1, <3>2 DEF Placed
  <2>18. r \in [level : Nat, fp : Cell, sb : Nat] /\ r.fp = top /\ r.sb = Offsets[f] /\ r.level = NewLevel(f)
    <3>1. top \in Cell
      BY <1>1, <2>6, SizeAssumption DEF Cell, FrameSize
    <3> QED BY <1>2, <2>13, <3>1
  <2> HIDE DEF r
  <2>19. flist \in Seq([level : Nat, fp : Cell, sb : Nat]) /\ Listed(code, flist)
    BY DEF IInv, TypeOK
  <2>20. \A i \in 1 .. n : BaseIn(ce)[i] = BaseIn(code)[i] /\ ce[i].fn = code[i].fn
    BY <1>2, <2>4, <2>5
  <2>21. Listed(ce, <<r>> \o flist)
    <3>1. PendingIn(ce) = PendingIn(code) \cup {n + 1}
      BY <1>2, <2>2, <2>4 DEF PendingIn
    <3>2. \A i \in PendingIn(code) : BaseIn(ce)[i] = BaseIn(code)[i] /\ ce[i].fn = code[i].fn
      BY <2>20 DEF PendingIn
    <3>3. r.fp = BaseIn(ce)[n + 1] /\ r.sb = Offsets[ce[n + 1].fn]
          /\ (ce[n + 1].fn \notin Intrinsic => r.level = Depth[ce[n + 1].fn])
      BY <2>2, <2>4, <2>7, <2>18 DEF NewLevel
    <3> QED BY <1>2, <2>18, <2>19, <3>1, <3>2, <3>3, ListedMore
  <2>22. Lost(unwinding) = 0 /\ Lost(unwinding') = 0 /\ unwinding' = "no"
    BY <1>3, <2>1 DEF Lost
  <2>23. scopes' \in Seq(Fn \ Intrinsic) /\ Pushed(ce, scopes', 0)
    <3>1. Pushed(code, scopes, 0) /\ scopes \in Seq(Fn \ Intrinsic)
      BY <2>22 DEF IInv, TypeOK
    <3>2. \A i \in ScopedIn(code) : ce[i].fn = code[i].fn
      BY <2>20 DEF ScopedIn
    <3>3. CASE f \in Intrinsic
      <4>1. ScopedIn(ce) = ScopedIn(code)
        BY <1>2, <2>2, <2>4, <3>3 DEF ScopedIn
      <4>2. Pushed(ce, scopes, 0)
        BY <3>1, <3>2, <4>1, PushedStays
      <4> QED BY <2>1, <3>1, <3>3, <4>2
    <3>4. CASE f \notin Intrinsic
      <4>1. ScopedIn(ce) = ScopedIn(code) \cup {n + 1}
        BY <1>2, <2>2, <2>4, <3>4 DEF ScopedIn
      <4>2. Pushed(ce, Append(scopes, f), 0)
        <5>1. ce[n + 1].fn = f /\ f \in Fn \ Intrinsic
          BY <2>2, <2>4, <3>4
        <5> QED BY <1>2, <3>1, <3>2, <4>1, <5>1, PushedMore
      <4>3. Append(scopes, f) \in Seq(Fn \ Intrinsic)
        BY <3>1, <3>4, AppendProperties
      <4> QED BY <2>1, <3>4, <4>2, <4>3
    <3> QED BY <3>3, <3>4
  <2>24. Counted(ce, unwinding')
    <3> SUFFICES ASSUME NEW i \in PendingIn(ce)
                 PROVE  ce[i].done <= Nargs[ce[i].fn] /\ (i < n + 1 => ce[i].done < Nargs[ce[i].fn])
      BY <2>4, <2>22 DEF Counted
    <3>1. i \in 1 .. n + 1 /\ ce[i].kind = "call"
      BY <2>4 DEF PendingIn
    <3>2. CASE i = n + 1
      BY <1>2, <2>2, <2>4, <3>2
    <3>3. CASE i # n + 1
      <4>1. i \in 1 .. n
        BY <1>2, <3>1, <3>3
      <4>2. ce[i] = code[i] /\ i \in PendingIn(code)
        BY <2>4, <3>1, <4>1 DEF PendingIn
      <4> QED BY <1>3, <4>2 DEF IInv, Counted
    <3> QED BY <3>2, <3>3
  <2>25. Levelled(ce, scopeLevel', unwinding')
    <3>1. \A b : LastBody(ce, n + 1, b) => scopeLevel = Depth[ce[b].fn]
      <4>1. scopeLevel = Depth[code[running].fn] /\ ce[running].fn = code[running].fn
        BY <2>8, <2>20 DEF IInv, Levelled
      <4> QED BY <2>16, <4>1
    <3> QED BY <1>1, <2>4, <2>22, <3>1 DEF Levelled
  <2>26. TypeOK'
    <3>1. sbOff' \in 0 .. MaxCells
      <4> DEFINE s == sbOff'
                 fr == framepntr
                 t == top
      <4>1. fr \in Nat /\ s \in Int /\ s >= 0 /\ fr + s = t + FrameSize /\ t + FrameSize <= MaxCells
        BY <1>1, <2>6, <2>11, <2>12 DEF FrameSize, Cell
      <4>2. t \in Nat
        BY <2>6
      <4> HIDE DEF s, fr, t
      <4>3. s \in 0 .. MaxCells
        BY <4>1, <4>2, SizeAssumption DEF FrameSize
      <4> QED BY <4>3 DEF s
    <3>2. stackSize' \in Nat
      BY <2>11, GrownType DEF IInv
    <3>3. flist' \in Seq([level : Nat, fp : Cell, sb : Nat])
      <4>1. <<r>> \in Seq([level : Nat, fp : Cell, sb : Nat])
        BY <2>18
      <4> QED BY <2>11, <2>19, <4>1, ConcatProperties
    <3>4. code' \in Seq(Contexts) /\ unwinding' \in {"no", "failed", "clear", "abort"}
      BY <2>4, <2>22 DEF ce
    <3> QED BY <1>1, <2>6, <2>10, <2>11, <2>23, <3>1, <3>2, <3>3, <3>4 DEF IInv, TypeOK, names, Contexts
  <2> QED BY <2>11, <2>14, <2>15, <2>17, <2>21, <2>22, <2>23, <2>24, <2>25, <2>26 DEF IInv, ce
<1> QED BY <1>4, <1>5

-----------------------------------------------------------------------------
(* The invariant *)

LEMMA InitHolds ==
  ASSUME Init
  PROVE  IInv
<1> DEFINE c == Context("body", Main)
<1>1. /\ thestack = [d \in Cell |-> NoVal] /\ framepntr = 0 /\ sbOff = 0 /\ stackSize = StackSize
      /\ flist = <<>> /\ scopeLevel = 1 /\ scopes = <<>> /\ code = <<c>> /\ unwinding = "no"
      /\ defined = Fn \ Intrinsic /\ typed = Fn \ Intrinsic /\ fault = "none"
  BY DEF Init
<1>2. c \in Contexts /\ c.kind = "body" /\ c.fn = Main /\ c.temps = 0
  BY SizeAssumption DEF Context, Contexts
<1> HIDE DEF c
<1>3. code \in Seq(Contexts) /\ Len(code) = 1 /\ code[1] = c /\ code # <<>>
  BY <1>1, <1>2
<1>4. BaseIn(code)[1] = 0 /\ BaseIn(code)[2] = 0
  <2>1. 1 \in 1 .. Len(code)
    BY <1>3
  <2>2. BaseIn(code)[1] = 0 /\ BaseIn(code)[1 + 1] = BaseIn(code)[1] + Size(code[1])
    BY <1>3, <2>1, BaseFacts
  <2>3. Size(code[1]) = 0
    BY <1>2, <1>3, SizeFacts
  <2> QED BY <2>2, <2>3
<1>5. PendingIn(code) = {} /\ ScopedIn(code) = {}
  BY <1>2, <1>3 DEF PendingIn, ScopedIn
<1>6. Cardinality({}) = 0
  BY FS_EmptySet
<1>7. \A b : LastBody(code, 1, b) => b = 1
  BY DEF LastBody
<1>8. TypeOK
  <2>1. 0 \in Cell /\ 0 \in 0 .. MaxCells
    BY SizeAssumption DEF Cell
  <2>2. NoVal \in Entries
    BY <2>1 DEF NoVal
  <2>3. thestack \in Stacks
    BY <1>1, <2>2
  <2> QED BY <1>1, <1>3, <2>1, <2>3, SizeAssumption DEF TypeOK, Contexts
<1>9. Nested(code) /\ Linked(code, thestack)
  <2>1. 2 .. Len(code) = {}
    BY <1>3
  <2> QED BY <1>2, <1>3, <2>1 DEF Nested, Linked
<1>10. Placed(code, thestack, framepntr, sbOff)
  BY <1>1, <1>3, <1>4, <1>7, SizeAssumption DEF Placed
<1>11. Listed(code, flist)
  BY <1>1, <1>5, <1>6 DEF Listed
<1>12. Pushed(code, scopes, Lost(unwinding))
  <2>1. Lost(unwinding) = 0 /\ Len(scopes) = 0
    BY <1>1 DEF Lost
  <2>2. Len(scopes) = Cardinality(ScopedIn(code)) - Lost(unwinding)
    BY <1>5, <1>6, <2>1
  <2> QED BY <1>5, <2>2 DEF Pushed
<1>13. Counted(code, unwinding)
  BY <1>5 DEF Counted
<1>14. Levelled(code, scopeLevel, unwinding)
  BY <1>1, <1>2, <1>3, <1>7, NestingAssumption DEF Levelled
<1> QED BY <1>8, <1>9, <1>10, <1>11, <1>12, <1>13, <1>14 DEF IInv

LEMMA StepHolds ==
  ASSUME IInv, [Next]_vars
  PROVE  IInv'
<1>1. CASE PushValue
  BY <1>1, PushValueStep
<1>2. CASE Combine
  BY <1>2, CombineStep
<1>3. CASE ConvertToLocal
  BY <1>3, ConvertToLocalStep
<1>4. CASE Call
  BY <1>4, CallStep
<1>5. CASE Return
  BY <1>5, ReturnStep
<1>6. CASE EndBody
  BY <1>6, EndBodyStep
<1>7. ASSUME NEW f \in Fn, NewFrame(f) PROVE IInv'
  BY <1>7, NewFrameStep
<1>8. ASSUME NEW f \in Fn, Undef(f) PROVE IInv'
  <2>1. /\ UNCHANGED <<stack, flist, scopeLevel, scopes, code, unwinding>> /\ fault' = fault
        /\ defined' = defined \ {f} /\ typed' = typed \ {f}
    BY <1>8 DEF Undef
  <2>2. defined' \subseteq Fn \ Intrinsic /\ typed' \subseteq Fn \ Intrinsic
    BY <2>1 DEF IInv, TypeOK
  <2> QED BY <2>1, <2>2, SameStep
<1>9. ASSUME NEW f \in Fn, Define(f) PROVE IInv'
  <2>1. /\ UNCHANGED <<stack, flist, scopeLevel, scopes, code, unwinding>> /\ fault' = fault
        /\ defined' = defined \cup {f} /\ typed' = typed \cup {f} /\ f \notin Intrinsic
    BY <1>9 DEF Define
  <2>2. defined' \subseteq Fn \ Intrinsic /\ typed' \subseteq Fn \ Intrinsic
    BY <2>1 DEF IInv, TypeOK
  <2> QED BY <2>1, <2>2, SameStep
<1>10. ASSUME NEW f \in Fn \cup {Main}, NEW o \in 0 .. MaxTemps, Assign(f, o) PROVE IInv'
  BY <1>10, AssignStep
<1>11. ASSUME NEW ok \in BOOLEAN, CallIntrinsic(ok) PROVE IInv'
  BY <1>11, CallIntrinsicStep
<1>12. ASSUME NEW n \in 0 .. MaxTemps, Fail(n) PROVE IInv'
  BY <1>12, FailStep
<1>13. CASE LeaveExecute
  BY <1>13, LeaveExecuteStep
<1>14. CASE DropFrame
  BY <1>14, DropFrameStep
<1>15. CASE ClearBase
  BY <1>15, ClearBaseStep
<1>16. CASE CleanUpStack
  BY <1>16, CleanUpStackStep
<1>17. CASE UNCHANGED vars
  <2>1. UNCHANGED <<stack, flist, scopeLevel, scopes, code, unwinding, defined, typed, fault>>
    BY <1>17 DEF vars, names
  <2>2. defined' \subseteq Fn \ Intrinsic /\ typed' \subseteq Fn \ Intrinsic
    BY <2>1 DEF IInv, TypeOK
  <2> QED BY <2>1, <2>2, SameStep
<1>18. CASE Stopped
  BY <1>17, <1>18 DEF Stopped
<1> QED BY <1>1, <1>2, <1>3, <1>4, <1>5, <1>6, <1>7, <1>8, <1>9, <1>10, <1>11, <1>12, <1>13, <1>14, <1>15,
           <1>16, <1>17, <1>18 DEF Next, Unwind

\* Every state has the invariant.
LEMMA Invariant == Spec => []IInv
<1>1. Init => IInv
  BY InitHolds
<1>2. IInv /\ [Next]_vars => IInv'
  BY StepHolds
<1> QED BY <1>1, <1>2, PTL DEF Spec

-----------------------------------------------------------------------------
(* The properties *)

\* The names the properties use for the contexts of the state.
LEMMA NamesAre ==
  ASSUME IInv
  PROVE  /\ Base = BaseIn(code) /\ Bodies = {i \in 1 .. Len(code) : code[i].kind = "body"}
         /\ Pending = PendingIn(code) /\ Scoped = ScopedIn(code) /\ Frames = 2 .. Len(code)
<1>1. code \in Seq(Contexts) /\ Len(code) \in Nat /\ Nested(code)
  BY InnermostFacts DEF IInv
<1>2. DOMAIN code = 1 .. Len(code)
  BY <1>1, LenProperties
<1>3. \A i \in 1 .. Len(code) : code[i].kind \in {"body", "call"}
  BY <1>1, CodeFacts DEF Contexts
<1>4. Base = BaseIn(code)
  BY DEF Base, BaseIn
<1>5. Frames = 2 .. Len(code)
  <2>1. \A i \in 1 .. Len(code) : code[i].fn # Main <=> i # 1
    <3> SUFFICES ASSUME NEW i \in 1 .. Len(code) PROVE code[i].fn # Main <=> i # 1
      OBVIOUS
    <3>1. i # 1 => i \in 2 .. Len(code)
      BY <1>1
    <3> QED BY <1>1, <3>1, NestingAssumption DEF Nested
  <2>2. \A i : i \in 2 .. Len(code) <=> i \in 1 .. Len(code) /\ i # 1
    BY <1>1
  <2> QED BY <1>2, <2>1, <2>2 DEF Frames
<1>6. Pending = PendingIn(code)
  BY <1>2, <1>3 DEF Pending, Bodies, PendingIn
<1>7. Scoped = ScopedIn(code)
  BY <1>2 DEF Scoped, ScopedIn
<1> QED BY <1>2, <1>4, <1>5, <1>6, <1>7 DEF Bodies

LEMMA CallerIs ==
  ASSUME IInv, NEW i \in 2 .. Len(code)
  PROVE  Caller(i) \in 1 .. Len(code) /\ LastBody(code, i - 1, Caller(i))
<1>1. code \in Seq(Contexts) /\ Len(code) \in Nat /\ Nested(code) /\ i - 1 \in 1 .. Len(code)
  BY InnermostFacts DEF IInv
<1>2. PICK b \in 1 .. i - 1 : LastBody(code, i - 1, b)
  BY <1>1, LastBodyExists
<1>3. Bodies = {j \in 1 .. Len(code) : code[j].kind = "body"}
  BY NamesAre
<1>4. b \in Bodies /\ b < i /\ \A j \in Bodies : j < i => j <= b
  <2>1. \A j \in Bodies : j < i => j \in 1 .. i - 1
    BY <1>1, <1>3
  <2> QED BY <1>1, <1>2, <1>3, <2>1 DEF LastBody
<1>5. Caller(i) \in Bodies /\ Caller(i) < i /\ \A j \in Bodies : j < i => j <= Caller(i)
  BY <1>4 DEF Caller
<1> HIDE DEF Caller
<1>6. Caller(i) \in 1 .. i - 1 /\ \A j \in 1 .. i - 1 : j \in 1 .. Len(code) /\ j < i
  BY <1>1, <1>3, <1>5
<1> QED BY <1>3, <1>5, <1>6 DEF LastBody

LEMMA HomeIs ==
  ASSUME IInv, NEW i \in 2 .. Len(code)
  PROVE  Home(i) \in 1 .. Len(code) /\ HomeOf(code, i, Home(i))
<1>1. code \in Seq(Contexts) /\ Len(code) \in Nat /\ Nested(code) /\ i - 1 \in 1 .. Len(code) /\ code[i].fn \in Fn
  BY InnermostFacts DEF IInv, Nested
<1>2. CASE code[i].fn \in Intrinsic
  BY <1>2, CallerIs DEF Home, HomeOf
<1>3. CASE code[i].fn \notin Intrinsic
  <2> DEFINE g == Encl[code[i].fn]
  <2>1. PICK r \in 1 .. i - 1 : LastBody(code, i - 1, r)
    BY <1>1, LastBodyExists
  <2>2. r \in 1 .. Len(code) /\ code[r].kind = "body" /\ \A j \in 1 .. i - 1 : code[j].kind = "body" => j <= r
    BY <1>1, <2>1 DEF LastBody
  <2>3. g \in Around(code[r].fn)
    BY <1>3, <2>1, <2>2 DEF IInv, Nested
  <2>4. PICK b \in 1 .. r : LastOf(code, g, r, b)
    BY <1>1, <2>2, <2>3, LexicalHomes
  <2>5. Bodies = {j \in 1 .. Len(code) : code[j].kind = "body"}
    BY NamesAre
  <2>6. b \in Bodies /\ b < i /\ code[b].fn = g /\ \A j \in Bodies : j < i /\ code[j].fn = g => j <= b
    <3>1. b \in 1 .. Len(code) /\ b < i /\ code[b].kind = "body" /\ code[b].fn = g
      BY <1>1, <2>2, <2>4 DEF LastOf
    <3>2. ASSUME NEW j \in Bodies, j < i, code[j].fn = g PROVE j <= b
      <4>1. j \in 1 .. i - 1
        BY <1>1, <2>5, <3>2
      <4>2. j <= r
        BY <2>2, <2>5, <4>1
      <4>3. j \in 1 .. r
        BY <2>1, <4>1, <4>2
      <4> QED BY <2>4, <2>5, <3>2, <4>3 DEF LastOf
    <3> QED BY <2>5, <3>1, <3>2
  <2> DEFINE h == CHOOSE x \in Bodies : x < i /\ code[x].fn = g /\ \A j \in Bodies : j < i /\ code[j].fn = g => j <= x
  <2>7. Home(i) = h
    BY <1>3 DEF Home
  <2>8. h \in Bodies /\ h < i /\ code[h].fn = g /\ \A j \in Bodies : j < i /\ code[j].fn = g => j <= h
    BY <2>6
  <2> HIDE DEF h
  <2>9. h \in 1 .. i - 1 /\ \A j \in 1 .. i - 1 : j \in 1 .. Len(code) /\ j < i
    BY <1>1, <2>5, <2>8
  <2>10. LastOf(code, g, i - 1, h)
    BY <2>5, <2>8, <2>9 DEF LastOf
  <2> QED BY <1>1, <1>3, <2>7, <2>9, <2>10 DEF HomeOf
<1> QED BY <1>2, <1>3

LEMMA AlignedHolds ==
  ASSUME IInv
  PROVE  Aligned
<1>1. /\ Base = BaseIn(code) /\ Pending = PendingIn(code) /\ Frames = 2 .. Len(code)
  BY NamesAre
<1>2. /\ top = BaseIn(code)[Len(code) + 1] /\ framepntr = BaseIn(code)[running]
      /\ \A c \in Cell : c >= top => thestack[c] = NoVal
  BY StackFacts
<1>3. ASSUME NEW i \in 2 .. Len(code)
      PROVE  /\ thestack[BaseIn(code)[i] + 2] = Entry("dynamic", BaseIn(code)[Caller(i)])
             /\ thestack[BaseIn(code)[i] + 4] = Entry("params", code[i].fn)
  BY CallerIs DEF IInv, Linked
<1>4. /\ Len(flist) = Cardinality(PendingIn(code))
      /\ \A i \in PendingIn(code) : flist[From(PendingIn(code), i)].fp = BaseIn(code)[i]
  BY DEF IInv, Listed
<1> QED BY <1>1, <1>2, <1>3, <1>4 DEF Aligned, From

LEMMA LexicalLinksHolds ==
  ASSUME IInv
  PROVE  LexicalLinks
<1>1. Base = BaseIn(code) /\ Frames = 2 .. Len(code)
  BY NamesAre
<1>2. ASSUME NEW i \in 2 .. Len(code) PROVE thestack[BaseIn(code)[i] + 1] = Entry("static", BaseIn(code)[Home(i)])
  BY HomeIs DEF IInv, Linked
<1> QED BY <1>1, <1>2 DEF LexicalLinks

LEMMA ScopesFollowCallsHolds ==
  ASSUME IInv
  PROVE  ScopesFollowCalls
<1> SUFFICES ASSUME unwinding = "no"
             PROVE  /\ scopeLevel = Depth[code[running].fn]
                    /\ Len(scopes) = Cardinality(Scoped)
                    /\ \A i \in Scoped : scopes[Cardinality({j \in Scoped : j <= i})] = code[i].fn
  BY DEF ScopesFollowCalls
<1> DEFINE S == ScopedIn(code)
<1>1. code \in Seq(Contexts) /\ Len(code) \in Nat /\ Nested(code) /\ Scoped = S
  BY InnermostFacts, NamesAre DEF IInv
<1>2. scopeLevel = Depth[code[running].fn]
  BY <1>1, RunningIs DEF IInv, Levelled
<1>3. S \in SUBSET (1 .. Len(code))
  BY DEF ScopedIn
<1>4. Cardinality(S) \in Nat /\ \A i \in S : UpTo(S, i) \in 1 .. Cardinality(S)
  <2> HIDE DEF S
  <2> QED BY <1>1, <1>3, Ranks
<1>5. /\ Len(scopes) = Cardinality(S) - 0
      /\ \A i \in S : UpTo(S, i) <= Len(scopes) => scopes[UpTo(S, i)] = code[i].fn
  BY DEF IInv, Pushed, Lost
<1> HIDE DEF S
<1>6. Len(scopes) = Cardinality(S)
  BY <1>4, <1>5
<1>7. \A i \in S : scopes[UpTo(S, i)] = code[i].fn
  BY <1>4, <1>5, <1>6
<1> QED BY <1>1, <1>2, <1>6, <1>7 DEF UpTo

\* Cells, frames, contexts and levels keep their types: no index of the stack is
\* outside of it and no static link leads to anything but a frame.
THEOREM TypesHold == Spec => []TypeOK
<1>1. IInv => TypeOK
  BY DEF IInv
<1> QED BY <1>1, Invariant, PTL

\* However calls, returns and errors follow each other, the stack is what the
\* calls in progress have put there.
THEOREM StackStaysAligned == Spec => []Aligned
<1>1. IInv => Aligned
  BY AlignedHolds
<1> QED BY <1>1, Invariant, PTL

\* A variable of an enclosing definition is always found in the latest
\* activation of that definition.
THEOREM LinksStayLexical == Spec => []LexicalLinks
<1>1. IInv => LexicalLinks
  BY LexicalLinksHolds
<1> QED BY <1>1, Invariant, PTL

\* Between errors the scopes and the level are those of the calls in progress.
THEOREM ScopesStayWithCalls == Spec => []ScopesFollowCalls
<1>1. IInv => ScopesFollowCalls
  BY ScopesFollowCallsHolds
<1> QED BY <1>1, Invariant, PTL
=============================================================================
