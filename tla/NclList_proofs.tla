--------------------------- MODULE NclList_proofs ---------------------------
(***************************************************************************)
(* Proofs about NclList, for every set of lists and of variables, every    *)
(* finite memory, and every bound.  The inductive invariant gives every    *)
(* list the sequence ch[l] of its cells and says what the pointers, the    *)
(* callbacks and the parents have to do with it.  An operation is first    *)
(* described by what it does to memory, chains and variables; lemmas about *)
(* such changes, on constants, then show that the invariant is kept.       *)
(***************************************************************************)
EXTENDS NclList, Induction, SequenceTheorems

\* What is at place k of a chain: nothing before its first and after its last.
At(s, k) == IF k \in 1 .. Len(s) THEN s[k] ELSE NULL

Leads(h, s) == \A k \in 1 .. Len(s) : s[k] \in DOMAIN h /\ h[s[k]].next = At(s, k + 1)

IsChain(h, s, list) ==
  /\ Leads(h, s)
  /\ \A k \in 1 .. Len(s) : h[s[k]].prev = At(s, k - 1)
  /\ list.first = At(s, 1) /\ list.last = At(s, Len(s)) /\ list.nelem = Len(s)

Once(s) == \A i, j \in 1 .. Len(s) : s[i] = s[j] => i = j

-----------------------------------------------------------------------------
(* The inductive invariant *)

Notifying(l, x, s) == [op |-> "notify", list |-> l, var |-> x, step |-> s]

\* The operations under way: a variable dies, of which a list may be told just now,
\* because of the end of a list or of something that is over.
Nesting(td) ==
  \/ td = <<>>
  \/ \E x \in Var : td = <<Dying(x)>>
  \/ \E x \in Var, l \in List, s \in Cell \cup {NULL} : td = <<Notifying(l, x, s), Dying(x)>>
  \/ \E m \in List, c \in Cell \cup {NULL} :
       \/ td = <<Unmaking(m, c)>>
       \/ \E x \in Var : td = <<Dying(x), Unmaking(m, c)>>
       \/ \E x \in Var, l \in List, s \in Cell \cup {NULL} :
            td = <<Notifying(l, x, s), Dying(x), Unmaking(m, c)>>

Dead(td) == {x \in Var : \E i \in DOMAIN td : td[i] = Dying(x)}
Told(td) == {l \in List : \E i \in DOMAIN td : td[i].op = "notify" /\ td[i].list = l}
Unmade(td) == {m \in List : \E i \in DOMAIN td : td[i].op = "unmake" /\ td[i].list = m}

\* ch has the cells of every list, of one that is being destroyed those that are left.
Chained(ch, h, ls, unmade) ==
  /\ \A l \in List : Once(ch[l])
  /\ \A l \in DOMAIN ls : IsChain(h, ch[l], ls[l])
  /\ \A l \in List \ DOMAIN ls : Leads(h, ch[l]) /\ (l \notin unmade => ch[l] = <<>>)

Own(ch) == [l \in List |-> ToSet(ch[l])]

Shared(h, own) ==
  /\ \A l, m \in List : l # m => own[l] \cap own[m] = {}
  /\ \A l \in List : own[l] \subseteq DOMAIN h
  /\ \A c \in DOMAIN h : \E l \in List : c \in own[l]

\* The variable of every cell will tell its list, or does it now.
Watching(h, vs, own, dead, told) ==
  \A l \in List : \A c \in own[l] :
    /\ h[c].obj_id \in DOMAIN vs
    /\ \/ [list |-> l, cell |-> c] \in ToSet(vs[h[c].obj_id].cblist)
       \/ h[c].obj_id \in dead /\ l \in told

\* Nobody else would be told.
Exact(h, vs, own, dead) ==
  \A x \in DOMAIN vs \ dead : \A cb \in ToSet(vs[x].cblist) :
    cb.cell \in own[cb.list] /\ h[cb.cell].obj_id = x

Single(vs) ==
  \A x \in DOMAIN vs : \A i, j \in DOMAIN vs[x].cblist :
    vs[x].cblist[i].cell = vs[x].cblist[j].cell => i = j

Kept(h, vs, own, dead) ==
  \A x \in DOMAIN vs \ dead :
    /\ ~vs[x].named => Parents(vs[x]) # {}
    /\ \A l \in Parents(vs[x]) : \E c \in own[l] : h[c].obj_id = x

\* The cell c is at a place of s up to which there is nothing of x.
Passed(h, s, c, x) == \E p \in 1 .. Len(s) : s[p] = c /\ \A q \in 1 .. p : h[s[q]].obj_id # x

UnderWay(ch, h, ls, td) ==
  \A i \in DOMAIN td :
    /\ td[i].op = "unmake" => td[i].list \notin DOMAIN ls /\ td[i].cell = At(ch[td[i].list], 1)
    /\ td[i].op = "notify" /\ td[i].step # NULL =>
         td[i].list \in DOMAIN ls /\ Passed(h, ch[td[i].list], td[i].step, td[i].var)

\* What has not been handed out is not behind the cell that comes next.
Ahead(s, c, un) ==
  /\ c = NULL => un = {}
  /\ \A p \in 1 .. Len(s) : c = s[p] => un \subseteq {s[q] : q \in 1 .. p}

Looped(ch, ls, lps, un) ==
  /\ \A i, j \in DOMAIN lps : lps[i].list = lps[j].list => i = j
  /\ \A i \in DOMAIN lps :
       LET m == lps[i].list
       IN  /\ m \in DOMAIN ls /\ ls[m].ref_count = 0
           /\ lps[i].done => un[m] = {}
           /\ ~lps[i].done /\ ls[m].state = SEQUENCING => Ahead(ch[m], ls[m].current_item, un[m])

Records ==
  [list_type : Types, first : Cell \cup {NULL}, last : Cell \cup {NULL}, nelem : Nat,
   state : {IDLE, SEQUENCING}, current_item : Cell \cup {NULL}, ref_count : 0 .. MaxRefs]

Typed(h, ls, vs, lps, un) ==
  /\ DOMAIN h \subseteq Cell /\ \A c \in DOMAIN h : h[c] \in CellType
  /\ DOMAIN ls \subseteq List /\ \A l \in DOMAIN ls : ls[l] \in Records
  /\ DOMAIN vs \subseteq Var /\ \A x \in DOMAIN vs : vs[x] \in VarType
  /\ lps \in Seq([list : List, results : Nat, done : BOOLEAN])
  /\ un \in [List -> SUBSET Cell]

Holds(ch, h, ls, vs, td, lps, un) ==
  /\ Typed(h, ls, vs, lps, un)
  /\ Nesting(td)
  /\ ch \in [List -> Seq(Cell)]
  /\ Chained(ch, h, ls, Unmade(td))
  /\ Shared(h, Own(ch))
  /\ Watching(h, vs, Own(ch), Dead(td), Told(td))
  /\ Exact(h, vs, Own(ch), Dead(td))
  /\ Single(vs)
  /\ Kept(h, vs, Own(ch), Dead(td))
  /\ Dead(td) \subseteq DOMAIN vs
  /\ UnderWay(ch, h, ls, td)
  /\ Looped(ch, ls, lps, un)

Consistent(ch) ==
  /\ Holds(ch, heap, lists, vars, todo, loops, unseen)
  /\ fault \in {"none", "no list", "freed cell"}

IInv == \E ch \in [List -> Seq(Cell)] : Consistent(ch)

-----------------------------------------------------------------------------
(* Sequences *)

\* The elements of a sequence are what is at its places.
LEMMA SetOfSeq ==
  ASSUME NEW S, NEW s \in Seq(S)
  PROVE  /\ ToSet(s) = {s[i] : i \in 1 .. Len(s)}
         /\ ToSet(s) \subseteq S
         /\ \A c \in ToSet(s) : \E i \in 1 .. Len(s) : s[i] = c
         /\ \A i \in 1 .. Len(s) : s[i] \in ToSet(s)
<1>1. DOMAIN s = 1 .. Len(s) /\ \A i \in 1 .. Len(s) : s[i] \in S
  BY LenProperties
<1> QED BY <1>1 DEF ToSet

\* RemoveAt drops one place and keeps the order of the others.
LEMMA RemoveAtFacts ==
  ASSUME NEW S, NEW s \in Seq(S), NEW p \in 1 .. Len(s)
  PROVE  /\ RemoveAt(s, p) \in Seq(S)
         /\ Len(RemoveAt(s, p)) = Len(s) - 1
         /\ \A k \in 1 .. Len(s) - 1 : RemoveAt(s, p)[k] = IF k < p THEN s[k] ELSE s[k + 1]
<1> DEFINE a == SubSeq(s, 1, p - 1)
           b == SubSeq(s, p + 1, Len(s))
           n == Len(s)
<1>1. n \in Nat /\ \A i \in 1 .. n : s[i] \in S
  BY LenProperties
<1>2. p \in 1 .. n
  OBVIOUS
<1>3. a \in Seq(S) /\ Len(a) = p - 1 /\ \A i \in 1 .. p - 1 : a[i] = s[i]
  <2>1. \A i \in 1 .. p - 1 : s[i] \in S
    BY <1>1
  <2>2. /\ a \in Seq(S) /\ Len(a) = IF 1 <= p - 1 THEN (p - 1) - 1 + 1 ELSE 0
        /\ \A i \in 1 .. (p - 1) - 1 + 1 : a[i] = s[1 + i - 1]
    BY <1>1, <2>1, SubSeqProperties
  <2> HIDE DEF a
  <2>3. Len(a) = p - 1
    BY <1>1, <2>2
  <2>4. \A i \in 1 .. p - 1 : 1 + i - 1 = i /\ i \in 1 .. (p - 1) - 1 + 1
    BY <1>1
  <2> QED BY <2>2, <2>3, <2>4
<1>4. b \in Seq(S) /\ Len(b) = n - p /\ \A i \in 1 .. n - p : b[i] = s[p + i]
  <2> HIDE DEF n
  <2>1. \A i \in p + 1 .. n : s[i] \in S
    BY <1>1, <1>2
  <2>2. /\ SubSeq(s, p + 1, n) \in Seq(S)
        /\ Len(SubSeq(s, p + 1, n)) = IF p + 1 <= n THEN n - (p + 1) + 1 ELSE 0
        /\ \A i \in 1 .. n - (p + 1) + 1 : SubSeq(s, p + 1, n)[i] = s[(p + 1) + i - 1]
    BY <1>1, <1>2, <2>1, SubSeqProperties
  <2>3. b = SubSeq(s, p + 1, n)
    BY DEF n
  <2> HIDE DEF b
  <2>4. Len(b) = n - p
    BY <1>1, <1>2, <2>2, <2>3
  <2>5. \A i \in 1 .. n - p : (p + 1) + i - 1 = p + i /\ i \in 1 .. n - (p + 1) + 1
    BY <1>1, <1>2
  <2> QED BY <2>2, <2>3, <2>4, <2>5
<1>5. RemoveAt(s, p) = a \o b
  BY DEF RemoveAt
<1> HIDE DEF a, b, n
<1>6. /\ a \o b \in Seq(S) /\ Len(a \o b) = Len(a) + Len(b)
      /\ \A i \in 1 .. Len(a) + Len(b) : (a \o b)[i] = IF i <= Len(a) THEN a[i] ELSE b[i - Len(a)]
  BY <1>3, <1>4, ConcatProperties
<1>7. Len(a) + Len(b) = n - 1
  BY <1>1, <1>2, <1>3, <1>4
<1>8. ASSUME NEW k \in 1 .. n - 1 PROVE (a \o b)[k] = IF k < p THEN s[k] ELSE s[k + 1]
  <2>1. CASE k < p
    BY <1>1, <1>2, <1>3, <1>6, <1>7, <2>1
  <2>2. CASE ~(k < p)
    <3>1. k - (p - 1) \in 1 .. n - p /\ p + (k - (p - 1)) = k + 1 /\ ~(k <= p - 1)
      BY <1>1, <1>2, <2>2
    <3> QED BY <1>3, <1>4, <1>6, <1>7, <2>2, <3>1
  <2> QED BY <2>1, <2>2
<1>9. n = Len(s)
  BY DEF n
<1> QED BY <1>5, <1>6, <1>7, <1>8, <1>9

\* One of a sequence of different elements goes.
LEMMA RemoveOnce ==
  ASSUME NEW S, NEW s \in Seq(S), NEW p \in 1 .. Len(s), Once(s)
  PROVE  Once(RemoveAt(s, p)) /\ ToSet(RemoveAt(s, p)) = ToSet(s) \ {s[p]}
<1> DEFINE n == Len(s)
           t == RemoveAt(s, p)
<1>1. n \in Nat /\ p \in 1 .. n
  BY LenProperties
<1>2. t \in Seq(S) /\ Len(t) = n - 1 /\ \A k \in 1 .. n - 1 : t[k] = IF k < p THEN s[k] ELSE s[k + 1]
  BY RemoveAtFacts
<1>3. \A i, j \in 1 .. n : s[i] = s[j] => i = j
  BY DEF Once
<1> HIDE DEF n, t
<1>4. Once(t)
  <2> SUFFICES ASSUME NEW i \in 1 .. n - 1, NEW j \in 1 .. n - 1, t[i] = t[j] PROVE i = j
    BY <1>2 DEF Once
  <2>1. i \in 1 .. n /\ i + 1 \in 1 .. n /\ j \in 1 .. n /\ j + 1 \in 1 .. n
    BY <1>1
  <2>2. CASE i < p /\ j < p
    BY <1>2, <1>3, <2>1, <2>2
  <2>3. CASE i < p /\ ~(j < p)
    <3>1. s[i] = s[j + 1]
      BY <1>2, <2>3
    <3> QED BY <1>1, <1>3, <2>1, <2>3, <3>1
  <2>4. CASE ~(i < p) /\ j < p
    <3>1. s[i + 1] = s[j]
      BY <1>2, <2>4
    <3> QED BY <1>1, <1>3, <2>1, <2>4, <3>1
  <2>5. CASE ~(i < p) /\ ~(j < p)
    <3>1. s[i + 1] = s[j + 1]
      BY <1>2, <2>5
    <3> QED BY <1>1, <1>3, <2>1, <3>1
  <2> QED BY <2>2, <2>3, <2>4, <2>5
<1>5. \A k \in 1 .. n - 1 : t[k] \in ToSet(s) \ {s[p]}
  <2> SUFFICES ASSUME NEW k \in 1 .. n - 1 PROVE t[k] \in ToSet(s) \ {s[p]}
    OBVIOUS
  <2>1. \A i \in 1 .. n : s[i] \in ToSet(s)
    BY SetOfSeq DEF n
  <2>2. k \in 1 .. n /\ k + 1 \in 1 .. n
    BY <1>1
  <2>3. CASE k < p
    <3>1. k # p
      BY <1>1, <2>3
    <3> QED BY <1>1, <1>2, <1>3, <2>1, <2>2, <2>3, <3>1
  <2>4. CASE ~(k < p)
    <3>1. k + 1 # p
      BY <1>1, <2>4
    <3> QED BY <1>1, <1>2, <1>3, <2>1, <2>2, <2>4, <3>1
  <2> QED BY <2>3, <2>4
<1>6. ToSet(t) = ToSet(s) \ {s[p]}
  <2>1. \A c \in ToSet(t) : \E k \in 1 .. n - 1 : t[k] = c
    BY <1>2, SetOfSeq
  <2>2. ToSet(t) \subseteq ToSet(s) \ {s[p]}
    BY <1>5, <2>1
  <2>3. ASSUME NEW c \in ToSet(s), c # s[p] PROVE c \in ToSet(t)
    <3>1. PICK i \in 1 .. n : s[i] = c
      BY SetOfSeq DEF n
    <3>2. \A k \in 1 .. n - 1 : t[k] \in ToSet(t)
      BY <1>2, SetOfSeq
    <3>3. CASE i < p
      <4>1. i \in 1 .. n - 1 /\ t[i] = s[i]
        BY <1>1, <1>2, <3>3
      <4> QED BY <3>1, <3>2, <4>1
    <3>4. CASE ~(i < p)
      <4>1. i # p
        BY <2>3, <3>1
      <4>2. i - 1 \in 1 .. n - 1 /\ t[i - 1] = s[(i - 1) + 1] /\ (i - 1) + 1 = i
        BY <1>1, <1>2, <3>4, <4>1
      <4> QED BY <3>1, <3>2, <4>2
    <3> QED BY <3>3, <3>4
  <2> QED BY <2>2, <2>3
<1> QED BY <1>4, <1>6 DEF t

\* Without its first element a sequence of distinct elements lacks just that one.
LEMMA TailOnce ==
  ASSUME NEW S, NEW s \in Seq(S), s # <<>>, Once(s)
  PROVE  Once(Tail(s)) /\ ToSet(Tail(s)) = ToSet(s) \ {s[1]}
<1> DEFINE n == Len(s)
           t == Tail(s)
<1>1. n \in Nat /\ n >= 1 /\ 1 \in 1 .. n /\ \A k \in 1 .. n : s[k] \in ToSet(s)
  BY LenProperties, SetOfSeq, EmptySeq
<1>2. t \in Seq(S) /\ Len(t) = n - 1 /\ \A k \in 1 .. n - 1 : t[k] = s[k + 1]
  BY HeadTailProperties
<1>3. \A i, j \in 1 .. n : s[i] = s[j] => i = j
  BY DEF Once
<1> HIDE DEF n, t
<1>6. \A k \in 1 .. n - 1 : k \in 1 .. n /\ k + 1 \in 1 .. n /\ k + 1 # 1 /\ (k + 1 = n <=> k = n - 1)
  BY <1>1
<1>5. Once(t)
  <2> SUFFICES ASSUME NEW i \in 1 .. n - 1, NEW j \in 1 .. n - 1, t[i] = t[j] PROVE i = j
    BY <1>2 DEF Once
  <2>1. i + 1 = j + 1
    BY <1>2, <1>3, <1>6
  <2> QED BY <1>1, <2>1
<1>7. ToSet(t) = ToSet(s) \ {s[1]}
  <2>1. /\ \A d \in ToSet(t) : \E k \in 1 .. n - 1 : t[k] = d
        /\ \A d \in ToSet(s) : \E k \in 1 .. n : s[k] = d
        /\ \A k \in 1 .. n - 1 : t[k] \in ToSet(t)
    BY <1>2, SetOfSeq DEF n
  <2>2. ASSUME NEW d \in ToSet(t) PROVE d \in ToSet(s) /\ d # s[1]
    <3>1. PICK k \in 1 .. n - 1 : t[k] = d
      BY <2>1
    <3>2. d = s[k + 1] /\ k + 1 \in 1 .. n /\ k + 1 # 1
      BY <1>2, <1>6, <3>1
    <3> QED BY <1>1, <1>3, <3>2
  <2>3. ASSUME NEW d \in ToSet(s), d # s[1] PROVE d \in ToSet(t)
    <3>1. PICK k \in 1 .. n : s[k] = d
      BY <2>1
    <3>2. k # 1
      BY <2>3, <3>1
    <3>3. k - 1 \in 1 .. n - 1 /\ (k - 1) + 1 = k
      BY <1>1, <3>2
    <3>4. t[k - 1] = d
      BY <1>2, <3>1, <3>3
    <3> QED BY <2>1, <3>3, <3>4
  <2> QED BY <2>2, <2>3
<1> QED BY <1>5, <1>7 DEF t

\* An element before a sequence.
LEMMA ConsFacts ==
  ASSUME NEW S, NEW s \in Seq(S), NEW e \in S
  PROVE  /\ <<e>> \o s \in Seq(S) /\ Len(<<e>> \o s) = Len(s) + 1
         /\ (<<e>> \o s)[1] = e
         /\ \A k \in 1 .. Len(s) : (<<e>> \o s)[k + 1] = s[k]
<1>1. <<e>> \in Seq(S) /\ Len(<<e>>) = 1 /\ <<e>>[1] = e
  OBVIOUS
<1>2. Len(s) \in Nat
  BY LenProperties
<1>3. /\ <<e>> \o s \in Seq(S) /\ Len(<<e>> \o s) = Len(<<e>>) + Len(s)
      /\ \A i \in 1 .. Len(<<e>>) + Len(s) : (<<e>> \o s)[i] = IF i <= Len(<<e>>) THEN <<e>>[i] ELSE s[i - Len(<<e>>)]
  BY <1>1, ConcatProperties
<1>4. \A k \in 1 .. Len(s) : k + 1 \in 1 .. 1 + Len(s) /\ ~(k + 1 <= 1) /\ (k + 1) - 1 = k
  BY <1>2
<1> QED BY <1>1, <1>2, <1>3, <1>4

-----------------------------------------------------------------------------
(* Chains *)

\* h2 is h after the cell at place p of s has been cut out.
CutOut(h, h2, s, p) ==
  /\ DOMAIN h2 = DOMAIN h \ {s[p]}
  /\ \A c \in DOMAIN h2 :
       /\ h2[c].obj_id = h[c].obj_id
       /\ h2[c].next = IF c = At(s, p - 1) THEN At(s, p + 1) ELSE h[c].next
       /\ h2[c].prev = IF c = At(s, p + 1) THEN At(s, p - 1) ELSE h[c].prev

\* list2 is list without the cell at place p of s.
Shortened(s, p, list, list2) ==
  /\ list2.first = (IF p = 1 THEN At(s, 2) ELSE list.first)
  /\ list2.last = (IF p = Len(s) THEN At(s, p - 1) ELSE list.last)
  /\ list2.nelem = list.nelem - 1

\* The cells that stay are of the same variables, and the lists are of the same types.
SameIds(h, h2) == \A d \in DOMAIN h \cap DOMAIN h2 : h2[d].obj_id = h[d].obj_id
SameTypes(ls, ls2) == DOMAIN ls2 = DOMAIN ls /\ \A l \in DOMAIN ls : ls2[l].list_type = ls[l].list_type
SameRest(h, h2, ls, ls2) == SameIds(h, h2) /\ SameTypes(ls, ls2)

\* A list keeps its type when the new record has it.
LEMMA TypeStays ==
  ASSUME NEW ls, NEW ls2, NEW l \in DOMAIN ls, NEW list, ls2 = [ls EXCEPT ![l] = list], list.list_type = ls[l].list_type
  PROVE  SameTypes(ls, ls2)
BY DEF SameTypes

\* NULL is no cell, no list and no variable.
LEMMA NullIsNoCell == NULL \notin Cell /\ NULL \notin List /\ NULL \notin Var
BY DistinctAssumption

\* Cutting out a cell, as ListItemDestroyNotify and ListPop do, leaves a chain of the others.
LEMMA CutChain ==
  ASSUME NEW h, NEW h2, NEW s \in Seq(Cell), NEW list, NEW list2, NEW p \in 1 .. Len(s),
         Once(s), IsChain(h, s, list), CutOut(h, h2, s, p), Shortened(s, p, list, list2)
  PROVE  /\ IsChain(h2, RemoveAt(s, p), list2)
         /\ RemoveAt(s, p) \in Seq(Cell) /\ Once(RemoveAt(s, p))
         /\ ToSet(RemoveAt(s, p)) = ToSet(s) \ {s[p]}
<1> USE DEF Shortened
<1> DEFINE n == Len(s)
           t == RemoveAt(s, p)
<1>1. n \in Nat /\ p \in 1 .. n /\ \A k \in 1 .. n : s[k] \in Cell
  BY LenProperties
<1>2. t \in Seq(Cell) /\ Len(t) = n - 1 /\ \A k \in 1 .. n - 1 : t[k] = IF k < p THEN s[k] ELSE s[k + 1]
  BY RemoveAtFacts
<1>3. \A i, j \in 1 .. n : s[i] = s[j] => i = j
  BY DEF Once
<1>4. \A k \in 1 .. n : /\ s[k] \in DOMAIN h /\ h[s[k]].next = (IF k = n THEN NULL ELSE s[k + 1])
                        /\ h[s[k]].prev = (IF k = 1 THEN NULL ELSE s[k - 1])
  BY <1>1 DEF IsChain, Leads, At
<1>5. /\ list.first = (IF n = 0 THEN NULL ELSE s[1]) /\ list.last = (IF n = 0 THEN NULL ELSE s[n])
      /\ list.nelem = n
  BY <1>1 DEF IsChain, At
<1> HIDE DEF n, t
<1>6. \A k \in 1 .. n : k # p =>
        /\ s[k] \in DOMAIN h2
        /\ h2[s[k]].next = IF k = p - 1 THEN (IF p = n THEN NULL ELSE s[p + 1]) ELSE h[s[k]].next
        /\ h2[s[k]].prev = IF k = p + 1 THEN (IF p = 1 THEN NULL ELSE s[p - 1]) ELSE h[s[k]].prev
  <2> SUFFICES ASSUME NEW k \in 1 .. n, k # p
               PROVE  /\ s[k] \in DOMAIN h2
                      /\ h2[s[k]].next = IF k = p - 1 THEN (IF p = n THEN NULL ELSE s[p + 1]) ELSE h[s[k]].next
                      /\ h2[s[k]].prev = IF k = p + 1 THEN (IF p = 1 THEN NULL ELSE s[p - 1]) ELSE h[s[k]].prev
    OBVIOUS
  <2>1. s[k] \in DOMAIN h2
    <3>1. s[k] # s[p]
      BY <1>1, <1>3
    <3> QED BY <1>4, <3>1 DEF CutOut
  <2>2. At(s, p + 1) = (IF p = n THEN NULL ELSE s[p + 1]) /\ At(s, p - 1) = (IF p = 1 THEN NULL ELSE s[p - 1])
    BY <1>1 DEF At, n
  <2>3. s[k] = At(s, p - 1) <=> k = p - 1
    <3>1. CASE p = 1
      BY <1>1, <2>2, <3>1, NullIsNoCell
    <3>2. CASE p # 1
      <4>1. p - 1 \in 1 .. n
        BY <1>1, <3>2
      <4> QED BY <1>3, <2>2, <3>2, <4>1
    <3> QED BY <3>1, <3>2
  <2>4. s[k] = At(s, p + 1) <=> k = p + 1
    <3>1. CASE p = n
      BY <1>1, <2>2, <3>1, NullIsNoCell
    <3>2. CASE p # n
      <4>1. p + 1 \in 1 .. n
        BY <1>1, <3>2
      <4> QED BY <1>3, <2>2, <3>2, <4>1
    <3> QED BY <3>1, <3>2
  <2> QED BY <2>1, <2>2, <2>3, <2>4 DEF CutOut
<1>7. ASSUME NEW k \in 1 .. n - 1
      PROVE  /\ t[k] \in DOMAIN h2 /\ h2[t[k]].next = At(t, k + 1) /\ h2[t[k]].prev = At(t, k - 1)
             /\ t[k] \in ToSet(s) \ {s[p]}
  <2>0. \A i \in 1 .. n : s[i] \in ToSet(s)
    BY SetOfSeq DEF n
  <2>a. At(t, k + 1) = (IF k = n - 1 THEN NULL ELSE t[k + 1]) /\ At(t, k - 1) = (IF k = 1 THEN NULL ELSE t[k - 1])
    BY <1>1, <1>2 DEF At
  <2>1. CASE k < p
    <3>1. k \in 1 .. n /\ k # p /\ t[k] = s[k] /\ (k # 1 => k - 1 \in 1 .. n - 1 /\ t[k - 1] = s[k - 1])
      BY <1>1, <1>2, <2>1
    <3>2. h2[t[k]].next = At(t, k + 1)
      <4>1. CASE k = p - 1
        <5>1. k # n - 1 => t[k + 1] = s[p + 1]
          BY <1>1, <1>2, <4>1
        <5> QED BY <1>1, <1>6, <2>a, <3>1, <4>1, <5>1
      <4>2. CASE k # p - 1
        <5>1. k + 1 < p /\ k + 1 \in 1 .. n - 1 /\ k # n /\ k # n - 1
          BY <1>1, <2>1, <4>2
        <5>2. t[k + 1] = s[k + 1]
          BY <1>2, <5>1
        <5> QED BY <1>4, <1>6, <2>a, <3>1, <4>2, <5>1, <5>2
      <4> QED BY <4>1, <4>2
    <3>3. h2[t[k]].prev = At(t, k - 1)
      <4>1. k # p + 1
        BY <1>1, <2>1
      <4> QED BY <1>4, <1>6, <2>a, <3>1, <4>1
    <3>4. s[k] # s[p]
      BY <1>1, <1>3, <3>1
    <3> QED BY <1>6, <2>0, <3>1, <3>2, <3>3, <3>4
  <2>2. CASE ~(k < p)
    <3>1. k + 1 \in 1 .. n /\ k + 1 # p /\ t[k] = s[k + 1] /\ (k + 1) - 1 = k /\ k + 1 # 1 /\ k + 1 # p - 1
      BY <1>1, <1>2, <2>2
    <3>2. h2[t[k]].next = At(t, k + 1)
      <4>1. k # n - 1 => t[k + 1] = s[(k + 1) + 1]
        BY <1>1, <1>2, <2>2
      <4>2. k = n - 1 <=> k + 1 = n
        BY <1>1
      <4> QED BY <1>4, <1>6, <2>a, <3>1, <4>1, <4>2
    <3>3. h2[t[k]].prev = At(t, k - 1)
      <4>1. CASE k = p
        <5>1. k # 1 => t[k - 1] = s[p - 1]
          BY <1>1, <1>2, <4>1
        <5> QED BY <1>6, <2>a, <3>1, <4>1, <5>1
      <4>2. CASE k # p
        <5>1. k # 1 /\ t[k - 1] = s[k] /\ k + 1 # p + 1
          BY <1>1, <1>2, <2>2, <4>2
        <5> QED BY <1>4, <1>6, <2>a, <3>1, <5>1
      <4> QED BY <4>1, <4>2
    <3>4. s[k + 1] # s[p]
      BY <1>1, <1>3, <3>1
    <3> QED BY <1>6, <2>0, <3>1, <3>2, <3>3, <3>4
  <2> QED BY <2>1, <2>2
<1>8. list2.first = At(t, 1) /\ list2.last = At(t, n - 1) /\ list2.nelem = n - 1
  <2>1. list2.first = At(t, 1)
    <3>1. At(t, 1) = IF n = 1 THEN NULL ELSE t[1]
      BY <1>1, <1>2 DEF At
    <3>2. At(s, 2) = IF n = 1 THEN NULL ELSE s[2]
      <4>1. 2 \in 1 .. n <=> n # 1
        BY <1>1
      <4> QED BY <4>1 DEF At, n
    <3>3. n # 1 => t[1] = IF p = 1 THEN s[2] ELSE s[1]
      BY <1>1, <1>2
    <3>4. p # 1 => n # 1 /\ n # 0
      BY <1>1
    <3> QED BY <1>5, <3>1, <3>2, <3>3, <3>4
  <2>2. list2.last = At(t, n - 1)
    <3>1. At(t, n - 1) = IF n = 1 THEN NULL ELSE t[n - 1]
      BY <1>1, <1>2 DEF At
    <3>2. n # 1 => t[n - 1] = IF p = n THEN s[n - 1] ELSE s[n]
      BY <1>1, <1>2
    <3>3. At(s, p - 1) = IF p = 1 THEN NULL ELSE s[p - 1]
      BY <1>1 DEF At, n
    <3>4. (p # n => n # 1 /\ n # 0) /\ (p = n => (p = 1 <=> n = 1))
      BY <1>1
    <3>5. n = Len(s)
      BY DEF n
    <3> QED BY <1>5, <3>1, <3>2, <3>3, <3>4, <3>5
  <2>3. list2.nelem = n - 1
    BY <1>5
  <2> QED BY <2>1, <2>2, <2>3
<1>9. Once(t) /\ ToSet(t) = ToSet(s) \ {s[p]}
  BY RemoveOnce DEF t
<1>11. IsChain(h2, t, list2)
  BY <1>2, <1>7, <1>8 DEF IsChain, Leads
<1> QED BY <1>2, <1>9, <1>11 DEF t

\* A chain depends on its own cells only.
LEMMA ChainApart ==
  ASSUME NEW h, NEW h2, NEW s,
         \A k \in 1 .. Len(s) :
           s[k] \in DOMAIN h => s[k] \in DOMAIN h2 /\ h2[s[k]].next = h[s[k]].next /\ h2[s[k]].prev = h[s[k]].prev
  PROVE  /\ Leads(h, s) => Leads(h2, s)
         /\ \A list : IsChain(h, s, list) => IsChain(h2, s, list)
<1>1. Leads(h, s) => Leads(h2, s)
  BY DEF Leads
<1> QED BY <1>1 DEF IsChain, Leads

\* It does not touch the chains of the other lists.
LEMMA CutApart ==
  ASSUME NEW h, NEW h2, NEW s \in Seq(Cell), NEW p \in 1 .. Len(s), NEW u \in Seq(Cell),
         CutOut(h, h2, s, p), \A i \in 1 .. Len(s), k \in 1 .. Len(u) : s[i] # u[k]
  PROVE  /\ Leads(h, u) => Leads(h2, u)
         /\ \A list : IsChain(h, u, list) => IsChain(h2, u, list)
<1>1. \A k \in 1 .. Len(u) : u[k] \in Cell
  BY LenProperties, ElementOfSeq
<1>2. \A k \in 1 .. Len(u) : u[k] # s[p] /\ u[k] # At(s, p - 1) /\ u[k] # At(s, p + 1)
  BY <1>1, NullIsNoCell DEF At
<1>3. \A k \in 1 .. Len(u) :
        u[k] \in DOMAIN h => u[k] \in DOMAIN h2 /\ h2[u[k]].next = h[u[k]].next /\ h2[u[k]].prev = h[u[k]].prev
  BY <1>2 DEF CutOut
<1> QED BY <1>3, ChainApart

\* A cell comes in at the end or at the front.
\* The cell c is behind the last one of the chain s, or before its first.
Appended(h, h2, s, list, list2, c) ==
  /\ c \in DOMAIN h2 /\ h2[c].prev = list.last /\ h2[c].next = NULL
  /\ \A d \in ToSet(s) : /\ d \in DOMAIN h2 /\ h2[d].prev = h[d].prev
                          /\ h2[d].next = IF d = list.last THEN c ELSE h[d].next
  /\ list2.first = (IF list.last = NULL THEN c ELSE list.first)
  /\ list2.last = c /\ list2.nelem = list.nelem + 1

Pushed(h, h2, s, list, list2, c) ==
  /\ c \in DOMAIN h2 /\ h2[c].next = list.first /\ h2[c].prev = NULL
  /\ \A d \in ToSet(s) : /\ d \in DOMAIN h2 /\ h2[d].next = h[d].next
                          /\ h2[d].prev = IF d = list.first THEN c ELSE h[d].prev
  /\ list2.last = (IF list.first = NULL THEN c ELSE list.last)
  /\ list2.first = c /\ list2.nelem = list.nelem + 1

\* ListAppend makes the chain longer at its end.
LEMMA AppendChain ==
  ASSUME NEW h, NEW h2, NEW s \in Seq(Cell), NEW list, NEW list2, NEW c \in Cell,
         Once(s), IsChain(h, s, list), c \notin ToSet(s), Appended(h, h2, s, list, list2, c)
  PROVE  /\ IsChain(h2, Append(s, c), list2) /\ Append(s, c) \in Seq(Cell) /\ Once(Append(s, c))
         /\ ToSet(Append(s, c)) = ToSet(s) \cup {c}
<1> USE DEF Appended
<1> DEFINE n == Len(s)
           t == Append(s, c)
<1>1. n \in Nat /\ \A k \in 1 .. n : s[k] \in Cell /\ s[k] \in ToSet(s)
  BY LenProperties, SetOfSeq
<1>2. t \in Seq(Cell) /\ Len(t) = n + 1 /\ t[n + 1] = c /\ \A k \in 1 .. n : t[k] = s[k]
  BY AppendProperties
<1>3. \A i, j \in 1 .. n : s[i] = s[j] => i = j
  BY DEF Once
<1>4. \A k \in 1 .. n : /\ s[k] \in DOMAIN h /\ h[s[k]].next = (IF k = n THEN NULL ELSE s[k + 1])
                        /\ h[s[k]].prev = (IF k = 1 THEN NULL ELSE s[k - 1])
  BY <1>1 DEF IsChain, Leads, At
<1>5. /\ list.first = (IF n = 0 THEN NULL ELSE s[1]) /\ list.last = (IF n = 0 THEN NULL ELSE s[n])
      /\ list.nelem = n
  BY <1>1 DEF IsChain, At
<1>6. \A k \in 1 .. n + 2 : At(t, k) = IF k = n + 2 THEN NULL ELSE t[k]
  BY <1>1, <1>2 DEF At
<1>7. At(t, 0) = NULL
  BY <1>1, <1>2 DEF At
<1> HIDE DEF n, t
<1>8. ASSUME NEW k \in 1 .. n + 1
      PROVE  t[k] \in DOMAIN h2 /\ h2[t[k]].next = At(t, k + 1) /\ h2[t[k]].prev = At(t, k - 1)
  <2>1. CASE k = n + 1
    <3>1. h2[t[k]].prev = At(t, k - 1)
      <4>1. CASE n = 0
        BY <1>2, <1>5, <1>7, <2>1, <4>1
      <4>2. CASE n # 0
        <5>1. k - 1 = n /\ n \in 1 .. n + 2 /\ n # n + 2 /\ n \in 1 .. n
          <6>1. n \in Nat
            BY <1>1
          <6> QED BY <2>1, <4>2, <6>1
        <5> QED BY <1>2, <1>5, <1>6, <2>1, <4>2, <5>1
      <4> QED BY <4>1, <4>2
    <3>2. h2[t[k]].next = At(t, k + 1)
      <4>1. k + 1 = n + 2 /\ n + 2 \in 1 .. n + 2
        BY <1>1, <2>1
      <4> QED BY <1>2, <1>6, <2>1, <4>1
    <3> QED BY <1>2, <2>1, <3>1, <3>2
  <2>2. CASE k # n + 1
    <3>1. k \in 1 .. n /\ n # 0 /\ n \in 1 .. n /\ t[k] = s[k] /\ s[k] \in ToSet(s)
      BY <1>1, <1>2, <2>2
    <3>2. s[k] = list.last <=> k = n
      BY <1>3, <1>5, <3>1
    <3>3. h2[t[k]].next = At(t, k + 1)
      <4>1. At(t, k + 1) = t[k + 1] /\ t[k + 1] = IF k = n THEN c ELSE s[k + 1]
        BY <1>1, <1>2, <1>6, <3>1
      <4> QED BY <1>4, <3>1, <3>2, <4>1
    <3>4. h2[t[k]].prev = At(t, k - 1)
      <4>1. CASE k = 1
        BY <1>4, <1>7, <3>1, <4>1
      <4>2. CASE k # 1
        <5>1. k - 1 \in 1 .. n /\ k - 1 \in 1 .. n + 2 /\ k - 1 # n + 2
          BY <1>1, <3>1, <4>2
        <5>2. t[k - 1] = s[k - 1] /\ At(t, k - 1) = t[k - 1]
          BY <1>2, <1>6, <5>1
        <5>3. h2[s[k]].prev = h[s[k]].prev
          BY <3>1
        <5>4. h[s[k]].prev = s[k - 1]
          BY <1>4, <3>1, <4>2
        <5> QED BY <3>1, <5>2, <5>3, <5>4
      <4> QED BY <4>1, <4>2
    <3> QED BY <3>1, <3>3, <3>4
  <2> QED BY <2>1, <2>2
<1>9. list2.first = At(t, 1) /\ list2.last = At(t, n + 1) /\ list2.nelem = n + 1
  <2>1. At(t, 1) = t[1] /\ At(t, n + 1) = c
    BY <1>1, <1>2, <1>6
  <2>2. list.last = NULL <=> n = 0
    <3>1. n # 0 => s[n] \in Cell
      BY <1>1
    <3> QED BY <1>5, <3>1, NullIsNoCell
  <2>3. t[1] = IF n = 0 THEN c ELSE s[1]
    BY <1>1, <1>2
  <2> QED BY <1>5, <2>1, <2>2, <2>3
<1>10. IsChain(h2, t, list2)
  BY <1>2, <1>8, <1>9 DEF IsChain, Leads
<1>11. Once(t)
  <2> SUFFICES ASSUME NEW i \in 1 .. n + 1, NEW j \in 1 .. n + 1, t[i] = t[j] PROVE i = j
    BY <1>2 DEF Once
  <2>1. \A k \in 1 .. n : t[k] # c
    BY <1>1, <1>2
  <2>2. (i = n + 1 \/ i \in 1 .. n) /\ (j = n + 1 \/ j \in 1 .. n)
    BY <1>1
  <2> QED BY <1>2, <1>3, <2>1, <2>2
<1>12. ToSet(t) = ToSet(s) \cup {c}
  <2>1. /\ \A d \in ToSet(t) : \E k \in 1 .. n + 1 : t[k] = d
        /\ \A d \in ToSet(s) : \E k \in 1 .. n : s[k] = d
        /\ \A k \in 1 .. n + 1 : t[k] \in ToSet(t)
    BY <1>2, SetOfSeq DEF n
  <2>2. \A k \in 1 .. n + 1 : k = n + 1 \/ k \in 1 .. n
    BY <1>1
  <2>3. n + 1 \in 1 .. n + 1 /\ \A k \in 1 .. n : k \in 1 .. n + 1
    BY <1>1
  <2>4. ASSUME NEW d \in ToSet(t) PROVE d \in ToSet(s) \cup {c}
    <3>1. PICK k \in 1 .. n + 1 : t[k] = d
      BY <2>1
    <3> QED BY <1>1, <1>2, <2>2, <3>1
  <2>5. ASSUME NEW d \in ToSet(s) PROVE d \in ToSet(t)
    <3>1. PICK k \in 1 .. n : s[k] = d
      BY <2>1
    <3> QED BY <1>2, <2>1, <2>3, <3>1
  <2>6. c \in ToSet(t)
    BY <1>2, <2>1, <2>3
  <2> QED BY <2>4, <2>5, <2>6
<1> QED BY <1>2, <1>10, <1>11, <1>12 DEF t

\* ListPush makes the chain longer at its beginning.
LEMMA PushChain ==
  ASSUME NEW h, NEW h2, NEW s \in Seq(Cell), NEW list, NEW list2, NEW c \in Cell,
         Once(s), IsChain(h, s, list), c \notin ToSet(s), Pushed(h, h2, s, list, list2, c)
  PROVE  /\ IsChain(h2, <<c>> \o s, list2) /\ <<c>> \o s \in Seq(Cell) /\ Once(<<c>> \o s)
         /\ ToSet(<<c>> \o s) = ToSet(s) \cup {c}
<1> USE DEF Pushed
<1> DEFINE n == Len(s)
           t == <<c>> \o s
<1>1. n \in Nat /\ \A k \in 1 .. n : s[k] \in Cell /\ s[k] \in ToSet(s)
  BY LenProperties, SetOfSeq
<1>2. t \in Seq(Cell) /\ Len(t) = n + 1 /\ t[1] = c /\ \A k \in 1 .. n : t[k + 1] = s[k]
  BY ConsFacts
<1>3. \A i, j \in 1 .. n : s[i] = s[j] => i = j
  BY DEF Once
<1>4. \A k \in 1 .. n : /\ s[k] \in DOMAIN h /\ h[s[k]].next = (IF k = n THEN NULL ELSE s[k + 1])
                        /\ h[s[k]].prev = (IF k = 1 THEN NULL ELSE s[k - 1])
  BY <1>1 DEF IsChain, Leads, At
<1>5. /\ list.first = (IF n = 0 THEN NULL ELSE s[1]) /\ list.last = (IF n = 0 THEN NULL ELSE s[n])
      /\ list.nelem = n
  BY <1>1 DEF IsChain, At
<1>6. \A k \in 1 .. n + 2 : At(t, k) = IF k = n + 2 THEN NULL ELSE t[k]
  BY <1>1, <1>2 DEF At
<1>7. At(t, 0) = NULL
  BY <1>1, <1>2 DEF At
<1> HIDE DEF n, t
<1>8. ASSUME NEW k \in 1 .. n + 1
      PROVE  t[k] \in DOMAIN h2 /\ h2[t[k]].next = At(t, k + 1) /\ h2[t[k]].prev = At(t, k - 1)
  <2>1. CASE k = 1
    <3>1. h2[t[k]].next = At(t, k + 1)
      <4>1. CASE n = 0
        <5>1. At(t, k + 1) = NULL
          BY <1>6, <2>1, <4>1
        <5> QED BY <1>2, <1>5, <2>1, <4>1, <5>1
      <4>2. CASE n # 0
        <5>1. 1 \in 1 .. n /\ k + 1 \in 1 .. n + 2 /\ k + 1 # n + 2
          BY <1>1, <2>1, <4>2
        <5>2. t[k + 1] = s[1]
          BY <1>2, <2>1, <5>1
        <5> QED BY <1>2, <1>5, <1>6, <2>1, <4>2, <5>1, <5>2
      <4> QED BY <4>1, <4>2
    <3> QED BY <1>2, <1>7, <2>1, <3>1
  <2>2. CASE k # 1
    <3>1. k - 1 \in 1 .. n /\ n # 0 /\ 1 \in 1 .. n /\ t[k] = s[k - 1] /\ s[k - 1] \in ToSet(s)
      <4>1. k - 1 \in 1 .. n /\ (k - 1) + 1 = k
        BY <1>1, <2>2
      <4>2. t[(k - 1) + 1] = s[k - 1]
        BY <1>2, <4>1
      <4> QED BY <1>1, <4>1, <4>2
    <3>2. s[k - 1] = list.first <=> k - 1 = 1
      BY <1>3, <1>5, <3>1
    <3>3. h2[t[k]].prev = At(t, k - 1)
      <4>1. At(t, k - 1) = t[k - 1]
        BY <1>1, <1>6, <3>1
      <4>2. t[k - 1] = IF k - 1 = 1 THEN c ELSE s[(k - 1) - 1]
        <5>1. CASE k - 1 = 1
          BY <1>2, <5>1
        <5>2. CASE k - 1 # 1
          <6>1. k - 2 \in 1 .. n /\ (k - 2) + 1 = k - 1 /\ (k - 1) - 1 = k - 2
            BY <1>1, <3>1, <5>2
          <6>2. t[(k - 2) + 1] = s[k - 2]
            BY <1>2, <6>1
          <6> QED BY <5>2, <6>1, <6>2
        <5> QED BY <5>1, <5>2
      <4> QED BY <1>4, <3>1, <3>2, <4>1, <4>2
    <3>4. h2[t[k]].next = At(t, k + 1)
      <4>1. CASE k = n + 1
        <5>1. k - 1 = n /\ k + 1 = n + 2 /\ n + 2 \in 1 .. n + 2
          BY <1>1, <4>1
        <5> QED BY <1>4, <1>6, <3>1, <5>1
      <4>2. CASE k # n + 1
        <5>1. k \in 1 .. n /\ k + 1 \in 1 .. n + 2 /\ k + 1 # n + 2 /\ k - 1 # n /\ (k - 1) + 1 = k
          BY <1>1, <2>2, <4>2
        <5>2. t[k + 1] = s[k]
          BY <1>2, <5>1
        <5> QED BY <1>4, <1>6, <3>1, <5>1, <5>2
      <4> QED BY <4>1, <4>2
    <3> QED BY <3>1, <3>3, <3>4
  <2> QED BY <2>1, <2>2
<1>9. list2.first = At(t, 1) /\ list2.last = At(t, n + 1) /\ list2.nelem = n + 1
  <2>1. At(t, 1) = c /\ At(t, n + 1) = t[n + 1]
    BY <1>1, <1>2, <1>6
  <2>2. list.first = NULL <=> n = 0
    <3>1. n # 0 => s[1] \in Cell
      BY <1>1
    <3> QED BY <1>5, <3>1, NullIsNoCell
  <2>3. t[n + 1] = IF n = 0 THEN c ELSE s[n]
    BY <1>1, <1>2
  <2> QED BY <1>5, <2>1, <2>2, <2>3
<1>10. IsChain(h2, t, list2)
  BY <1>2, <1>8, <1>9 DEF IsChain, Leads
<1>11. \A k \in 1 .. n + 1 : k = 1 \/ (k - 1 \in 1 .. n /\ t[k] = s[k - 1])
  <2> SUFFICES ASSUME NEW k \in 1 .. n + 1, k # 1 PROVE k - 1 \in 1 .. n /\ t[k] = s[k - 1]
    OBVIOUS
  <2>1. k - 1 \in 1 .. n /\ (k - 1) + 1 = k
    BY <1>1
  <2> QED BY <1>2, <2>1
<1>12. Once(t)
  <2> SUFFICES ASSUME NEW i \in 1 .. n + 1, NEW j \in 1 .. n + 1, t[i] = t[j] PROVE i = j
    BY <1>2 DEF Once
  <2>1. \A k \in 1 .. n : s[k] # c
    BY <1>1
  <2>2. (i = 1 /\ j = 1) \/ (i # 1 /\ j # 1)
    BY <1>2, <1>11, <2>1
  <2>3. i # 1 /\ j # 1 => i - 1 = j - 1
    BY <1>3, <1>11
  <2> QED BY <1>1, <2>2, <2>3
<1>13. ToSet(t) = ToSet(s) \cup {c}
  <2>1. /\ \A d \in ToSet(t) : \E k \in 1 .. n + 1 : t[k] = d
        /\ \A d \in ToSet(s) : \E k \in 1 .. n : s[k] = d
        /\ \A k \in 1 .. n + 1 : t[k] \in ToSet(t)
    BY <1>2, SetOfSeq DEF n
  <2>2. 1 \in 1 .. n + 1 /\ \A k \in 1 .. n : k + 1 \in 1 .. n + 1
    BY <1>1
  <2>3. ASSUME NEW d \in ToSet(t) PROVE d \in ToSet(s) \cup {c}
    <3>1. PICK k \in 1 .. n + 1 : t[k] = d
      BY <2>1
    <3> QED BY <1>1, <1>2, <1>11, <3>1
  <2>4. ASSUME NEW d \in ToSet(s) PROVE d \in ToSet(t)
    <3>1. PICK k \in 1 .. n : s[k] = d
      BY <2>1
    <3>2. k + 1 \in 1 .. n + 1 /\ t[k + 1] = d
      BY <1>2, <2>2, <3>1
    <3> QED BY <2>1, <3>2
  <2>5. c \in ToSet(t)
    BY <1>2, <2>1, <2>2
  <2> QED BY <2>3, <2>4, <2>5
<1> QED BY <1>2, <1>10, <1>12, <1>13 DEF t

\* The memory h without the first cell of s.
Beheaded(h, h2, s) == s # <<>> /\ DOMAIN h2 = DOMAIN h \ {s[1]} /\ \A d \in DOMAIN h2 : h2[d] = h[d]

\* The rest of s is a chain in it.
Headless(h, h2, s) ==
  /\ Tail(s) \in Seq(Cell) /\ Leads(h2, Tail(s)) /\ Once(Tail(s))
  /\ ToSet(Tail(s)) = ToSet(s) \ {s[1]}
  /\ s[1] \in ToSet(s) /\ s[1] \in DOMAIN h /\ h[s[1]].next = At(Tail(s), 1)

\* The first cell goes, as in ListDestroy.
LEMMA TailLeads ==
  ASSUME NEW h, NEW h2, NEW s \in Seq(Cell), Once(s), Leads(h, s), Beheaded(h, h2, s)
  PROVE  Headless(h, h2, s)
<1> USE DEF Beheaded, Headless
<1> DEFINE n == Len(s)
           t == Tail(s)
<1>1. n \in Nat /\ n >= 1 /\ 1 \in 1 .. n /\ \A k \in 1 .. n : s[k] \in Cell /\ s[k] \in ToSet(s)
  BY LenProperties, SetOfSeq, EmptySeq
<1>2. t \in Seq(Cell) /\ Len(t) = n - 1 /\ \A k \in 1 .. n - 1 : t[k] = s[k + 1]
  BY HeadTailProperties
<1>3. \A i, j \in 1 .. n : s[i] = s[j] => i = j
  BY DEF Once
<1>4. \A k \in 1 .. n : s[k] \in DOMAIN h /\ h[s[k]].next = (IF k = n THEN NULL ELSE s[k + 1])
  BY <1>1 DEF Leads, At
<1> HIDE DEF n, t
<1>5. \A k \in 1 .. n : At(t, k) = IF k = n THEN NULL ELSE t[k]
  <2>1. \A k \in 1 .. n : k \in 1 .. n - 1 <=> k # n
    BY <1>1
  <2>2. \A k \in 1 .. n : k \in 1 .. Len(t) <=> k # n
    BY <1>2, <2>1
  <2> QED BY <2>2 DEF At
<1>6. \A k \in 1 .. n - 1 : k \in 1 .. n /\ k + 1 \in 1 .. n /\ k + 1 # 1 /\ (k + 1 = n <=> k = n - 1)
  BY <1>1
<1>7. ASSUME NEW k \in 1 .. n - 1 PROVE t[k] \in DOMAIN h2 /\ h2[t[k]].next = At(t, k + 1)
  <2>1. t[k] = s[k + 1] /\ s[k + 1] # s[1]
    BY <1>1, <1>2, <1>3, <1>6
  <2>2. t[k] \in DOMAIN h2 /\ h2[t[k]] = h[s[k + 1]]
    BY <1>4, <1>6, <2>1
  <2>3. h[s[k + 1]].next = At(t, k + 1)
    <3>1. CASE k + 1 = n
      BY <1>4, <1>5, <1>6, <3>1
    <3>2. CASE k + 1 # n
      <4>1. k + 1 \in 1 .. n - 1
        BY <1>1, <3>2
      <4>2. k + 1 \in 1 .. n
        BY <1>6
      <4>3. h[s[k + 1]].next = s[(k + 1) + 1]
        BY <1>4, <3>2, <4>2
      <4>4. At(t, k + 1) = t[k + 1]
        BY <1>5, <3>2, <4>2
      <4>5. t[k + 1] = s[(k + 1) + 1]
        BY <1>2, <4>1
      <4> QED BY <4>3, <4>4, <4>5
    <3> QED BY <3>1, <3>2
  <2> QED BY <2>2, <2>3
<1>8. Once(t) /\ ToSet(t) = ToSet(s) \ {s[1]}
  BY TailOnce DEF t
<1>10. h[s[1]].next = At(t, 1)
  <2>1. CASE n = 1
    BY <1>1, <1>4, <1>5, <2>1
  <2>2. CASE n # 1
    <3>1. 1 \in 1 .. n - 1
      BY <1>1, <2>2
    <3> QED BY <1>1, <1>2, <1>4, <1>5, <2>2, <3>1
  <2> QED BY <2>1, <2>2
<1>11. Leads(h2, t)
  BY <1>2, <1>7 DEF Leads
<1> QED BY <1>1, <1>2, <1>4, <1>8, <1>10, <1>11, Zenon DEF t, n

\* A chain has no more cells than there is memory.
LEMMA ChainLength ==
  ASSUME NEW s \in Seq(Cell), Once(s)
  PROVE  Len(s) \in 0 .. Cardinality(Cell) /\ Cardinality(Cell) \in Nat /\ Cardinality(ToSet(s)) = Len(s)
<1>1. Len(s) \in Nat /\ s \in [1 .. Len(s) -> Cell]
  BY LenProperties
<1>2. IsFiniteSet(1 .. Len(s)) /\ Cardinality(1 .. Len(s)) = Len(s)
  <2>1. Cardinality(1 .. Len(s)) = IF 1 > Len(s) THEN 0 ELSE Len(s) - 1 + 1
    BY <1>1, FS_Interval
  <2>2. IsFiniteSet(1 .. Len(s))
    BY <1>1, FS_Interval
  <2>3. Cardinality(1 .. Len(s)) = Len(s)
    BY <1>1, <2>1
  <2> QED BY <2>2, <2>3
<1>3. s \in Injection(1 .. Len(s), Cell)
  BY <1>1 DEF Injection, IsInjective, Once
<1>4. Cardinality(1 .. Len(s)) <= Cardinality(Cell) /\ Cardinality(Cell) \in Nat
  BY <1>3, MemoryAssumption, FS_Injection, FS_CardinalityType
<1>5. Cardinality(ToSet(s)) = Len(s)
  <2>1. ToSet(s) = {s[i] : i \in 1 .. Len(s)}
    BY SetOfSeq
  <2>2. s \in Surjection(1 .. Len(s), ToSet(s))
    BY <1>1, <2>1 DEF Surjection
  <2>3. s \in Injection(1 .. Len(s), ToSet(s))
    BY <1>1, <2>1 DEF Injection, IsInjective, Once
  <2>4. Cardinality(ToSet(s)) = Cardinality(1 .. Len(s)) <=> s \in Injection(1 .. Len(s), ToSet(s))
    BY <1>2, <2>2, FS_Surjection
  <2> QED BY <1>2, <2>3, <2>4
<1> QED BY <1>1, <1>2, <1>4, <1>5

\* The beginning of a sequence.
LEMMA PrefixFacts ==
  ASSUME NEW S, NEW s \in Seq(S), NEW m \in 0 .. Len(s)
  PROVE  /\ SubSeq(s, 1, m) \in Seq(S) /\ Len(SubSeq(s, 1, m)) = m
         /\ \A i \in 1 .. m : SubSeq(s, 1, m)[i] = s[i]
<1>1. Len(s) \in Nat /\ m \in Nat /\ \A i \in 1 .. m : s[i] \in S
  BY LenProperties, ElementOfSeq
<1>2. /\ SubSeq(s, 1, m) \in Seq(S) /\ Len(SubSeq(s, 1, m)) = IF 1 <= m THEN m - 1 + 1 ELSE 0
      /\ \A i \in 1 .. m - 1 + 1 : SubSeq(s, 1, m)[i] = s[1 + i - 1]
  BY <1>1, SubSeqProperties
<1>3. \A i \in 1 .. m : i \in 1 .. m - 1 + 1 /\ 1 + i - 1 = i
  BY <1>1
<1> QED BY <1>1, <1>2, <1>3

\* What the walk of Chain does at each cell.
Walked(w) == IF w = <<>> \/ heap[w[Len(w)]].next = NULL THEN w ELSE Append(w, heap[w[Len(w)]].next)

\* The walk along a chain finds the chain.
LEMMA ChainIs ==
  ASSUME NEW l, NEW s \in Seq(Cell), Once(s), IsChain(heap, s, lists[l])
  PROVE  Chain(l) = s
<1> DEFINE n == Len(s)
           N == Cardinality(Cell)
           start == IF lists[l].first = NULL THEN <<>> ELSE <<lists[l].first>>
           Is(F) == F = [k \in 0 .. N |-> IF k = 0 THEN start ELSE Walked(F[k - 1])]
           upto(k) == IF k + 1 <= n THEN k + 1 ELSE n
           G == [k \in 0 .. N |-> SubSeq(s, 1, upto(k))]
<1>1. n \in 0 .. N /\ N \in Nat /\ \A k \in 1 .. n : s[k] \in Cell
  BY ChainLength, ElementOfSeq
<1>2. /\ lists[l].first = (IF n = 0 THEN NULL ELSE s[1])
      /\ \A k \in 1 .. n : heap[s[k]].next = IF k = n THEN NULL ELSE s[k + 1]
  BY <1>1 DEF IsChain, Leads, At
<1>3. \A k \in 0 .. N : upto(k) \in 0 .. n /\ (upto(k) = 0 <=> n = 0)
  BY <1>1
<1>4. \A m \in 0 .. n : /\ SubSeq(s, 1, m) \in Seq(Cell) /\ Len(SubSeq(s, 1, m)) = m
                        /\ \A i \in 1 .. m : SubSeq(s, 1, m)[i] = s[i]
  BY PrefixFacts
<1>5. SubSeq(s, 1, 0) = <<>> /\ SubSeq(s, 1, n) = s
  BY <1>1, SubSeqEmpty, SubSeqFull
<1> HIDE DEF n, N
<1>6. G[0] = start
  <2>1. G[0] = SubSeq(s, 1, upto(0))
    BY <1>1
  <2>2. CASE n = 0
    <3>1. upto(0) = 0 /\ start = <<>>
      BY <1>2, <2>2
    <3> QED BY <1>5, <2>1, <3>1
  <2>3. CASE n # 0
    <3>1. upto(0) = 1 /\ 1 \in 0 .. n /\ 1 \in 1 .. 1 /\ 1 \in 1 .. n
      BY <1>1, <2>3
    <3>2. start = <<s[1]>>
      BY <1>1, <1>2, <2>3, <3>1, NullIsNoCell
    <3>3. SubSeq(s, 1, 1) = <<s[1]>>
      <4>1. SubSeq(s, 1, 1) \in Seq(Cell) /\ Len(SubSeq(s, 1, 1)) = 1 /\ SubSeq(s, 1, 1)[1] = s[1]
        BY <1>4, <3>1
      <4>2. <<s[1]>> \in Seq(Cell) /\ Len(<<s[1]>>) = 1 /\ <<s[1]>>[1] = s[1]
        BY <1>1, <3>1
      <4>3. \A i \in 1 .. 1 : SubSeq(s, 1, 1)[i] = <<s[1]>>[i]
        BY <4>1, <4>2
      <4> QED BY <4>1, <4>2, <4>3, SeqEqual
    <3> QED BY <2>1, <3>1, <3>2, <3>3
  <2> QED BY <2>2, <2>3
<1>7. ASSUME NEW k \in 1 .. N PROVE G[k] = Walked(G[k - 1])
  <2>1. k - 1 \in 0 .. N /\ k \in 0 .. N
    BY <1>1
  <2> DEFINE m == upto(k - 1)
             w == SubSeq(s, 1, m)
  <2>2. m \in 0 .. n /\ (m = 0 <=> n = 0) /\ (m = n \/ (m < n /\ upto(k) = m + 1)) /\ (m = n => upto(k) = n)
    BY <1>1, <1>3, <2>1
  <2>3. w \in Seq(Cell) /\ Len(w) = m /\ \A i \in 1 .. m : w[i] = s[i]
    BY <1>4, <2>2
  <2>4. G[k] = SubSeq(s, 1, upto(k)) /\ G[k - 1] = w
    BY <2>1
  <2> HIDE DEF upto, G, m, w
  <2>5. CASE m = 0
    <3>1. w = <<>>
      BY <1>5, <2>5 DEF w
    <3> QED BY <2>2, <2>4, <2>5, <3>1 DEF Walked, w
  <2>6. CASE m # 0
    <3>1. m \in 1 .. m /\ m \in 1 .. n
      BY <1>1, <2>2, <2>6
    <3>2. w # <<>> /\ w[Len(w)] = s[m]
      BY <2>3, <2>6, <3>1
    <3>3. CASE m = n
      <4>1. heap[w[Len(w)]].next = NULL
        BY <1>2, <3>1, <3>2, <3>3
      <4> QED BY <2>2, <2>4, <3>3, <4>1 DEF Walked, w
    <3>4. CASE m # n
      <4>1. heap[w[Len(w)]].next = s[m + 1] /\ s[m + 1] \in Cell /\ m + 1 \in 0 .. n
        BY <1>1, <1>2, <2>2, <3>1, <3>2, <3>4
      <4>2. Walked(w) = Append(w, s[m + 1])
        BY <3>2, <4>1, NullIsNoCell DEF Walked
      <4>3. Append(w, s[m + 1]) = SubSeq(s, 1, m + 1)
        <5> DEFINE a == Append(w, s[m + 1])
                   b == SubSeq(s, 1, m + 1)
        <5>1. a \in Seq(Cell) /\ Len(a) = m + 1 /\ a[m + 1] = s[m + 1] /\ \A i \in 1 .. m : a[i] = w[i]
          BY <2>3, <4>1, AppendProperties
        <5>2. b \in Seq(Cell) /\ Len(b) = m + 1 /\ \A i \in 1 .. m + 1 : b[i] = s[i]
          BY <1>4, <4>1
        <5> HIDE DEF a, b
        <5>3. \A i \in 1 .. m + 1 : a[i] = b[i]
          <6> SUFFICES ASSUME NEW i \in 1 .. m + 1 PROVE a[i] = b[i]
            OBVIOUS
          <6>1. i = m + 1 \/ i \in 1 .. m
            BY <2>2
          <6> QED BY <2>3, <5>1, <5>2, <6>1
        <5>4. a = b
          BY <5>1, <5>2, <5>3, SeqEqual
        <5> QED BY <5>4 DEF a, b
      <4> QED BY <2>2, <2>4, <3>4, <4>2, <4>3
    <3> QED BY <3>3, <3>4
  <2> QED BY <2>5, <2>6
<1>8. Is(G)
  <2>1. \A k \in 0 .. N : G[k] = IF k = 0 THEN start ELSE Walked(G[k - 1])
    <3> SUFFICES ASSUME NEW k \in 0 .. N PROVE G[k] = IF k = 0 THEN start ELSE Walked(G[k - 1])
      OBVIOUS
    <3>1. k = 0 \/ k \in 1 .. N
      BY <1>1
    <3>2. k \in 1 .. N => k # 0
      BY <1>1
    <3> HIDE DEF G, start
    <3> QED BY <1>6, <1>7, <3>1, <3>2
  <2>2. G = [k \in 0 .. N |-> G[k]]
    OBVIOUS
  <2> HIDE DEF G, start
  <2> QED BY <2>1, <2>2
<1>9. PICK F : Is(F) /\ Chain(l) = F[N]
  <2> DEFINE F == CHOOSE F : Is(F)
  <2>1. \E F_1 : Is(F_1)
    BY <1>8
  <2>2. Is(F)
    BY <2>1
  <2>3. Chain(l) = F[N]
    BY DEF Chain, Walked, N
  <2> QED BY <2>2, <2>3
<1>10. \A k \in 0 .. N : F[k] = G[k]
  <2> DEFINE T == {k \in Nat : F[k] = G[k]}
  <2>1. 0 \in T
    BY <1>1, <1>6, <1>9
  <2>2. ASSUME NEW k \in 0 .. N - 1, k \in T PROVE k + 1 \in T
    <3>1. k + 1 \in 1 .. N /\ k + 1 \in 0 .. N /\ k + 1 # 0 /\ (k + 1) - 1 = k /\ k + 1 \in Nat
      BY <1>1
    <3>2. F[k + 1] = Walked(F[k])
      BY <1>9, <3>1
    <3>3. G[k + 1] = Walked(G[k])
      BY <1>7, <3>1
    <3> HIDE DEF G
    <3> QED BY <2>2, <3>1, <3>2, <3>3
  <2>3. 0 .. N \subseteq T
    <3> HIDE DEF T
    <3> QED BY <1>1, <2>1, <2>2, EveryNumberTo
  <2> QED BY <2>3
<1>11. N \in 0 .. N /\ upto(N) = n
  BY <1>1
<1>12. G[N] = s
  BY <1>5, <1>11
<1> HIDE DEF G
<1> QED BY <1>9, <1>10, <1>11, <1>12

-----------------------------------------------------------------------------
(* The operations under way *)

\* The innermost operation: the end of x, of which list l may be told.
Destroying(td, x) == td # <<>> /\ td[1].op = "destroy" /\ td[1].var = x
Notified(td, l, x, s) ==
  td # <<>> /\ td[1].op = "notify" /\ td[1].list = l /\ td[1].var = x /\ td[1].step = s
Stepped(td, td2, r) == td2 = [td EXCEPT ![1].step = r]

\* One more operation under way on top of those there are.
LEMMA ConsTuple ==
  ASSUME NEW a, NEW b, NEW c
  PROVE  <<a>> \o <<>> = <<a>> /\ <<a>> \o <<b>> = <<a, b>> /\ <<a>> \o <<b, c>> = <<a, b, c>>
<1> DEFINE S == {a, b, c}
<1>1. <<a>> \o <<>> = <<a>>
  <2>1. <<a>> \in Seq(S)
    OBVIOUS
  <2> QED BY <2>1, ConcatEmptySeq
<1>2. <<a>> \o <<b>> = <<a, b>>
  <2>1. /\ <<a>> \in Seq(S) /\ <<b>> \in Seq(S) /\ <<a, b>> \in Seq(S)
        /\ Len(<<a>>) = 1 /\ Len(<<b>>) = 1 /\ Len(<<a, b>>) = 2
    OBVIOUS
  <2>2. /\ <<a>> \o <<b>> \in Seq(S) /\ Len(<<a>> \o <<b>>) = 2
        /\ \A i \in 1 .. 2 : (<<a>> \o <<b>>)[i] = IF i <= 1 THEN <<a>>[i] ELSE <<b>>[i - 1]
    BY <2>1, ConcatProperties
  <2>3. \A i \in 1 .. 2 : (<<a>> \o <<b>>)[i] = <<a, b>>[i]
    BY <2>2
  <2> QED BY <2>1, <2>2, <2>3, SeqEqual
<1>3. <<a>> \o <<b, c>> = <<a, b, c>>
  <2>1. /\ <<a>> \in Seq(S) /\ <<b, c>> \in Seq(S) /\ <<a, b, c>> \in Seq(S)
        /\ Len(<<a>>) = 1 /\ Len(<<b, c>>) = 2 /\ Len(<<a, b, c>>) = 3
    OBVIOUS
  <2>2. /\ <<a>> \o <<b, c>> \in Seq(S) /\ Len(<<a>> \o <<b, c>>) = 3
        /\ \A i \in 1 .. 3 : (<<a>> \o <<b, c>>)[i] = IF i <= 1 THEN <<a>>[i] ELSE <<b, c>>[i - 1]
    BY <2>1, ConcatProperties
  <2>3. \A i \in 1 .. 3 : (<<a>> \o <<b, c>>)[i] = <<a, b, c>>[i]
    BY <2>2
  <2> QED BY <2>1, <2>2, <2>3, SeqEqual
<1> QED BY <1>1, <1>2, <1>3

\* Nothing under way: no variable dies, no list is told or unmade.
LEMMA NoFrames ==
  /\ Nesting(<<>>) /\ Dead(<<>>) = {} /\ Told(<<>>) = {} /\ Unmade(<<>>) = {}
  /\ \A ch, h, ls : UnderWay(ch, h, ls, <<>>)
BY DEF Nesting, Dead, Told, Unmade, UnderWay

\* What is known when the end of a variable is the innermost operation.
LEMMA DestroyFrames ==
  ASSUME NEW td, Nesting(td), NEW x, Destroying(td, x)
  PROVE  /\ x \in Var
         /\ Dead(td) = {x} /\ Told(td) = {}
         /\ Nesting(Tail(td)) /\ Dead(Tail(td)) = {} /\ Told(Tail(td)) = {} /\ Unmade(Tail(td)) = Unmade(td)
         /\ \A l \in List :
              LET up == <<Notify(l, x)>> \o td
              IN  /\ Nesting(up) /\ Dead(up) = {x} /\ Told(up) = {l} /\ Unmade(up) = Unmade(td)
                  /\ \A ch, h, ls : UnderWay(ch, h, ls, td) => UnderWay(ch, h, ls, up)
         /\ \A ch, h, ls : UnderWay(ch, h, ls, td) => UnderWay(ch, h, ls, Tail(td))
<1> USE DEF Destroying
<1>1. CASE \E y \in Var : td = <<Dying(y)>>
  <2>1. x \in Var /\ td = <<Dying(x)>> /\ Tail(td) = <<>>
    BY <1>1 DEF Dying
  <2>3. Dead(td) = {x} /\ Told(td) = {} /\ Unmade(td) = {}
    BY <2>1 DEF Dead, Told, Unmade, Dying
  <2>4. ASSUME NEW l \in List
        PROVE  LET up == <<Notify(l, x)>> \o td
               IN  /\ Nesting(up) /\ Dead(up) = {x} /\ Told(up) = {l} /\ Unmade(up) = {}
                   /\ \A ch, h, ls : UnderWay(ch, h, ls, td) => UnderWay(ch, h, ls, up)
    <3> DEFINE up == <<Notifying(l, x, NULL), Dying(x)>>
    <3>1. <<Notify(l, x)>> \o td = up
      BY <2>1, ConsTuple DEF Notify, Notifying
    <3>2. Nesting(up)
      BY <2>1 DEF Nesting
    <3>3. Dead(up) = {x} /\ Told(up) = {l} /\ Unmade(up) = {}
      BY <2>1 DEF Dead, Told, Unmade, Notifying, Dying
    <3>4. \A ch, h, ls : UnderWay(ch, h, ls, up)
      BY DEF UnderWay, Notifying, Dying
    <3> HIDE DEF up
    <3> QED BY <3>1, <3>2, <3>3, <3>4
  <2> DEFINE off == <<>>
  <2>5. /\ Tail(td) = off /\ Nesting(off) /\ Dead(off) = {} /\ Told(off) = {} /\ Unmade(off) = {}
        /\ \A ch, h, ls : UnderWay(ch, h, ls, off)
    BY <2>1, NoFrames
  <2> HIDE DEF off
  <2>6. x \in Var
    BY <2>1
  <2> QED BY <2>3, <2>4, <2>5, <2>6
<1>2. CASE \E m \in List, c \in Cell \cup {NULL}, y \in Var : td = <<Dying(y), Unmaking(m, c)>>
  <2>1. PICK m \in List, c \in Cell \cup {NULL} : td = <<Dying(x), Unmaking(m, c)>>
    BY <1>2 DEF Dying
  <2>2. x \in Var /\ Tail(td) = <<Unmaking(m, c)>>
    BY <1>2, <2>1 DEF Dying
  <2>3. Dead(td) = {x} /\ Told(td) = {} /\ Unmade(td) = {m}
    BY <2>1, <2>2 DEF Dead, Told, Unmade, Dying, Unmaking
  <2> DEFINE off == <<Unmaking(m, c)>>
  <2>4. Nesting(off) /\ Dead(off) = {} /\ Told(off) = {} /\ Unmade(off) = {m}
    <3>1. Nesting(off)
      BY DEF Nesting
    <3> QED BY <3>1 DEF Dead, Told, Unmade, Dying, Unmaking
  <2>5. \A ch, h, ls : UnderWay(ch, h, ls, td) => UnderWay(ch, h, ls, off)
    BY <2>1 DEF UnderWay, Dying, Unmaking
  <2>6. ASSUME NEW l \in List
        PROVE  LET up == <<Notify(l, x)>> \o td
               IN  /\ Nesting(up) /\ Dead(up) = {x} /\ Told(up) = {l} /\ Unmade(up) = {m}
                   /\ \A ch, h, ls : UnderWay(ch, h, ls, td) => UnderWay(ch, h, ls, up)
    <3> DEFINE up == <<Notifying(l, x, NULL), Dying(x), Unmaking(m, c)>>
    <3>1. <<Notify(l, x)>> \o td = up
      <4>1. Notify(l, x) = Notifying(l, x, NULL)
        BY DEF Notify, Notifying
      <4>2. \A a, b, d : <<a>> \o <<b, d>> = <<a, b, d>>
        BY ConsTuple, Zenon
      <4>3. <<Notify(l, x)>> \o <<Dying(x), Unmaking(m, c)>> = up
        BY <4>1, <4>2
      <4> QED BY <2>1, <4>3
    <3>2. Nesting(up)
      BY <2>2 DEF Nesting
    <3>3. Dead(up) = {x} /\ Told(up) = {l} /\ Unmade(up) = {m}
      BY <2>2 DEF Dead, Told, Unmade, Notifying, Dying, Unmaking
    <3>4. \A ch, h, ls : UnderWay(ch, h, ls, td) => UnderWay(ch, h, ls, up)
      BY <2>1 DEF UnderWay, Notifying, Dying, Unmaking
    <3> HIDE DEF up
    <3> QED BY <3>1, <3>2, <3>3, <3>4
  <2>7. Tail(td) = off
    BY <2>2
  <2> HIDE DEF off
  <2> QED BY <2>2, <2>3, <2>4, <2>5, <2>6, <2>7
<1>3. ~ \E y \in Var, l \in List, s \in Cell \cup {NULL} : td = <<Notifying(l, y, s), Dying(y)>>
  BY DEF Notifying
<1>4. ~ \E m \in List, c \in Cell \cup {NULL} : td = <<Unmaking(m, c)>>
  BY DEF Unmaking
<1>5. ~ \E m \in List, c \in Cell \cup {NULL}, y \in Var, l \in List, s \in Cell \cup {NULL} :
          td = <<Notifying(l, y, s), Dying(y), Unmaking(m, c)>>
  BY DEF Notifying
<1> QED BY <1>1, <1>2, <1>3, <1>4, <1>5 DEF Nesting

\* What a list that is being told says of the operations below it.
LEMMA NotifyFrames ==
  ASSUME NEW td, Nesting(td), NEW l, NEW x, NEW s, Notified(td, l, x, s)
  PROVE  /\ x \in Var /\ l \in List /\ s \in Cell \cup {NULL}
         /\ Dead(td) = {x} /\ Told(td) = {l} /\ Stepped(td, td, s)
         /\ Nesting(Tail(td)) /\ Dead(Tail(td)) = {x} /\ Told(Tail(td)) = {} /\ Unmade(Tail(td)) = Unmade(td)
         /\ \A td2 : \A r \in Cell \cup {NULL} : Stepped(td, td2, r) =>
              Nesting(td2) /\ Dead(td2) = {x} /\ Told(td2) = {l} /\ Unmade(td2) = Unmade(td)
         /\ \A ch, h, ls : UnderWay(ch, h, ls, td) =>
              /\ UnderWay(ch, h, ls, Tail(td))
              /\ s # NULL => l \in DOMAIN ls /\ Passed(h, ch[l], s, x)
<1> USE DEF Notified, Stepped
<1>1. CASE \E y \in Var, k \in List, r \in Cell \cup {NULL} : td = <<Notifying(k, y, r), Dying(y)>>
  <2>1. td = <<Notifying(l, x, s), Dying(x)>> /\ x \in Var /\ l \in List /\ s \in Cell \cup {NULL}
    BY <1>1 DEF Notifying
  <2> DEFINE off == <<Dying(x)>>
             on(r) == <<Notifying(l, x, r), Dying(x)>>
  <2>2. Tail(td) = off
    BY <2>1
  <2>3. Dead(td) = {x} /\ Told(td) = {l} /\ Unmade(td) = {}
    BY <2>1 DEF Dead, Told, Unmade, Notifying, Dying
  <2>4. Nesting(off) /\ Dead(off) = {x} /\ Told(off) = {} /\ Unmade(off) = {}
    BY <2>1 DEF Nesting, Dead, Told, Unmade, Dying
  <2>5. \A ch, h, ls : UnderWay(ch, h, ls, off)
    BY DEF UnderWay, Dying
  <2>6. Stepped(td, td, s) /\ \A td2 : \A r : Stepped(td, td2, r) => td2 = on(r)
    BY <2>1 DEF Notifying
  <2>7. ASSUME NEW r \in Cell \cup {NULL} PROVE Nesting(on(r)) /\ Dead(on(r)) = {x} /\ Told(on(r)) = {l} /\ Unmade(on(r)) = {}
    <3>1. Nesting(on(r))
      BY <2>1 DEF Nesting
    <3> QED BY <2>1, <3>1 DEF Dead, Told, Unmade, Notifying, Dying
  <2>8. \A ch, h, ls : UnderWay(ch, h, ls, td) /\ s # NULL => l \in DOMAIN ls /\ Passed(h, ch[l], s, x)
    BY <2>1 DEF UnderWay, Notifying, Dying
  <2>9. \A td2 : \A r \in Cell \cup {NULL} : Stepped(td, td2, r) =>
          Nesting(td2) /\ Dead(td2) = {x} /\ Told(td2) = {l} /\ Unmade(td2) = Unmade(td)
    <3> HIDE DEF on, Stepped
    <3> QED BY <2>3, <2>6, <2>7
  <2> HIDE DEF off, on, Stepped, Notified
  <2> QED BY <2>9, <2>1, <2>2, <2>3, <2>4, <2>5, <2>6, <2>8
<1>2. CASE \E m \in List, c \in Cell \cup {NULL}, y \in Var, k \in List, r \in Cell \cup {NULL} :
             td = <<Notifying(k, y, r), Dying(y), Unmaking(m, c)>>
  <2>1. PICK m \in List, c \in Cell \cup {NULL} :
          td = <<Notifying(l, x, s), Dying(x), Unmaking(m, c)>> /\ x \in Var /\ l \in List /\ s \in Cell \cup {NULL}
    BY <1>2 DEF Notifying
  <2> DEFINE off == <<Dying(x), Unmaking(m, c)>>
             on(r) == <<Notifying(l, x, r), Dying(x), Unmaking(m, c)>>
  <2>2. Tail(td) = off
    BY <2>1
  <2>3. Dead(td) = {x} /\ Told(td) = {l} /\ Unmade(td) = {m}
    BY <2>1 DEF Dead, Told, Unmade, Notifying, Dying, Unmaking
  <2>4. Nesting(off) /\ Dead(off) = {x} /\ Told(off) = {} /\ Unmade(off) = {m}
    BY <2>1 DEF Nesting, Dead, Told, Unmade, Dying, Unmaking
  <2>5. \A ch, h, ls : UnderWay(ch, h, ls, td) => UnderWay(ch, h, ls, off)
    BY <2>1 DEF UnderWay, Notifying, Dying, Unmaking
  <2>6. Stepped(td, td, s) /\ \A td2 : \A r : Stepped(td, td2, r) => td2 = on(r)
    BY <2>1 DEF Notifying
  <2>7. ASSUME NEW r \in Cell \cup {NULL} PROVE Nesting(on(r)) /\ Dead(on(r)) = {x} /\ Told(on(r)) = {l} /\ Unmade(on(r)) = {m}
    <3>1. Nesting(on(r))
      BY <2>1 DEF Nesting
    <3> QED BY <2>1, <3>1 DEF Dead, Told, Unmade, Notifying, Dying, Unmaking
  <2>8. ASSUME NEW ch, NEW h, NEW ls, UnderWay(ch, h, ls, td)
        PROVE  s # NULL => l \in DOMAIN ls /\ Passed(h, ch[l], s, x)
    BY <2>1, <2>8 DEF UnderWay, Notifying, Dying, Unmaking
  <2>9. \A td2 : \A r \in Cell \cup {NULL} : Stepped(td, td2, r) =>
          Nesting(td2) /\ Dead(td2) = {x} /\ Told(td2) = {l} /\ Unmade(td2) = Unmade(td)
    <3> HIDE DEF on, Stepped
    <3> QED BY <2>3, <2>6, <2>7
  <2> HIDE DEF off, on, Stepped, Notified
  <2> QED BY <2>9, <2>1, <2>2, <2>3, <2>4, <2>5, <2>6, <2>8
<1>3. ~ \E y \in Var : td = <<Dying(y)>>
  BY DEF Dying
<1>4. ~ \E m \in List, c \in Cell \cup {NULL} : td = <<Unmaking(m, c)>>
  BY DEF Unmaking
<1>5. ~ \E m \in List, c \in Cell \cup {NULL}, y \in Var : td = <<Dying(y), Unmaking(m, c)>>
  BY DEF Dying
<1> QED BY <1>1, <1>2, <1>3, <1>4, <1>5 DEF Nesting

\* While ListDestroy goes on by itself only its list is being unmade.
LEMMA UnmakeFrames ==
  ASSUME NEW td, Nesting(td), td # <<>>, td[1].op = "unmake"
  PROVE  /\ td[1].list \in List /\ td[1].cell \in Cell \cup {NULL}
         /\ td = <<Unmaking(td[1].list, td[1].cell)>> /\ Tail(td) = <<>>
         /\ Dead(td) = {} /\ Told(td) = {} /\ Unmade(td) = {td[1].list}
         /\ \A ch, h, ls : UnderWay(ch, h, ls, td) =>
              td[1].list \notin DOMAIN ls /\ td[1].cell = At(ch[td[1].list], 1)
<1>1. PICK m \in List, c \in Cell \cup {NULL} : td = <<Unmaking(m, c)>>
  <2>1. ~ \E x \in Var : td = <<Dying(x)>>
    BY DEF Dying
  <2>2. ~ \E x \in Var, l \in List, s \in Cell \cup {NULL} : td = <<Notifying(l, x, s), Dying(x)>>
    BY DEF Notifying
  <2>3. ~ \E m \in List, c \in Cell \cup {NULL}, x \in Var : td = <<Dying(x), Unmaking(m, c)>>
    BY DEF Dying
  <2>4. ~ \E m \in List, c \in Cell \cup {NULL}, x \in Var, l \in List, s \in Cell \cup {NULL} :
            td = <<Notifying(l, x, s), Dying(x), Unmaking(m, c)>>
    BY DEF Notifying
  <2> QED BY <2>1, <2>2, <2>3, <2>4 DEF Nesting
<1>2. td[1].list = m /\ td[1].cell = c /\ Tail(td) = <<>>
  BY <1>1 DEF Unmaking
<1>3. Dead(td) = {} /\ Told(td) = {} /\ Unmade(td) = {m}
  BY <1>1 DEF Dead, Told, Unmade, Dying, Unmaking
<1>4. \A ch, h, ls : UnderWay(ch, h, ls, td) => m \notin DOMAIN ls /\ c = At(ch[m], 1)
  BY <1>1 DEF UnderWay, Unmaking
<1> QED BY <1>1, <1>2, <1>3, <1>4

\* The operations under way when just a variable dies.
LEMMA DyingFrame ==
  ASSUME NEW x \in Var
  PROVE  LET td == <<Dying(x)>>
         IN  /\ Nesting(td) /\ Dead(td) = {x} /\ Told(td) = {} /\ Unmade(td) = {}
             /\ \A ch, h, ls : UnderWay(ch, h, ls, td)
<1>1. Nesting(<<Dying(x)>>)
  BY DEF Nesting
<1> QED BY <1>1 DEF Dead, Told, Unmade, UnderWay, Dying

\* The operations under way when just a list is unmade.
LEMMA UnmakingFrame ==
  ASSUME NEW m \in List, NEW c \in Cell \cup {NULL}
  PROVE  LET td == <<Unmaking(m, c)>>
         IN  /\ Nesting(td) /\ Dead(td) = {} /\ Told(td) = {} /\ Unmade(td) = {m}
             /\ \A ch, h, ls : m \notin DOMAIN ls /\ c = At(ch[m], 1) => UnderWay(ch, h, ls, td)
<1>1. Nesting(<<Unmaking(m, c)>>)
  BY DEF Nesting
<1> QED BY <1>1 DEF Dead, Told, Unmade, UnderWay, Unmaking, Dying

\* The operations under way when the end of a list takes a variable along.
LEMMA DyingUnmakingFrame ==
  ASSUME NEW x \in Var, NEW m \in List, NEW c \in Cell \cup {NULL}, NEW td, td = <<Dying(x), Unmaking(m, c)>>
  PROVE  /\ Nesting(td) /\ Dead(td) = {x} /\ Told(td) = {} /\ Unmade(td) = {m}
         /\ \A ch, h, ls : m \notin DOMAIN ls /\ c = At(ch[m], 1) => UnderWay(ch, h, ls, td)
<1>1. Nesting(<<Dying(x), Unmaking(m, c)>>)
  BY DEF Nesting
<1> QED BY <1>1 DEF Dead, Told, Unmade, UnderWay, Unmaking, Dying

-----------------------------------------------------------------------------
(* What the invariant says of a state *)

\* The cells that following the pointers finds are those of ch.
LEMMA ChainFound ==
  ASSUME NEW ch, Consistent(ch), NEW l \in DOMAIN lists
  PROVE  l \in List /\ ch[l] \in Seq(Cell) /\ Chain(l) = ch[l]
<1>1. l \in List /\ ch[l] \in Seq(Cell)
  BY Zenon DEF Consistent, Holds, Typed
<1>2. Once(ch[l]) /\ IsChain(heap, ch[l], lists[l])
  BY <1>1, Zenon DEF Consistent, Holds, Chained
<1> QED BY <1>1, <1>2, ChainIs

\* The invariant implies the types: a list has no more cells than there are.
LEMMA TypeHolds ==
  ASSUME NEW ch, Consistent(ch)
  PROVE  TypeOK
<1>1. ASSUME NEW l \in DOMAIN lists PROVE lists[l] \in ListType
  <2>1. lists[l] \in Records /\ l \in List /\ ch[l] \in Seq(Cell)
    BY Zenon DEF Consistent, Holds, Typed
  <2>2. Once(ch[l]) /\ lists[l].nelem = Len(ch[l])
    BY <2>1, Zenon DEF Consistent, Holds, Chained, IsChain
  <2>3. lists[l].nelem \in 0 .. Cardinality(Cell)
    BY <2>1, <2>2, ChainLength
  <2> QED BY <2>1, <2>3 DEF Records, ListType
<1>2. todo \in Seq(FrameType)
  <2>1. /\ \A x \in Var : Dying(x) \in FrameType
        /\ \A l \in List, x \in Var, s \in Cell \cup {NULL} : Notifying(l, x, s) \in FrameType
        /\ \A m \in List, c \in Cell \cup {NULL} : Unmaking(m, c) \in FrameType
    BY DEF Dying, Notifying, Unmaking, FrameType
  <2>2. \A a, b, d \in FrameType : /\ <<a>> \in Seq(FrameType) /\ <<a, b>> \in Seq(FrameType)
                                   /\ <<a, b, d>> \in Seq(FrameType) /\ <<>> \in Seq(FrameType)
    OBVIOUS
  <2>3. Nesting(todo)
    BY Zenon DEF Consistent, Holds
  <2>4. <<>> \in Seq(FrameType)
    OBVIOUS
  <2> QED BY <2>1, <2>2, <2>3, <2>4 DEF Nesting
<1> QED BY <1>1, <1>2, Zenon DEF Consistent, Holds, Typed, TypeOK

\* The invariant implies that lists are linked as they should be.
LEMMA LinksHold ==
  ASSUME NEW ch, Consistent(ch)
  PROVE  WellLinked
<1> SUFFICES ASSUME NEW l \in DOMAIN lists
             PROVE  LET chain == Chain(l)
                        n == Len(chain)
                    IN  /\ lists[l].nelem = n
                        /\ ToSet(chain) \subseteq DOMAIN heap /\ Cardinality(ToSet(chain)) = n
                        /\ lists[l].last = IF n = 0 THEN NULL ELSE chain[n]
                        /\ \A k \in 1 .. n :
                             /\ heap[chain[k]].prev = IF k = 1 THEN NULL ELSE chain[k - 1]
                             /\ heap[chain[k]].next = IF k = n THEN NULL ELSE chain[k + 1]
  BY DEF WellLinked
<1> DEFINE s == ch[l]
           n == Len(s)
<1>1. l \in List /\ s \in Seq(Cell) /\ Chain(l) = s
  BY ChainFound
<1>2. Once(s) /\ IsChain(heap, s, lists[l])
  BY <1>1, Zenon DEF Consistent, Holds, Chained
<1> HIDE DEF s
<1>3. n \in Nat
  BY <1>1, LenProperties
<1>4. lists[l].nelem = n /\ lists[l].last = At(s, n)
  BY <1>2 DEF IsChain
<1>5. At(s, n) = IF n = 0 THEN NULL ELSE s[n]
  BY <1>3 DEF At
<1>6. ASSUME NEW k \in 1 .. n
      PROVE  /\ s[k] \in DOMAIN heap
             /\ heap[s[k]].prev = IF k = 1 THEN NULL ELSE s[k - 1]
             /\ heap[s[k]].next = IF k = n THEN NULL ELSE s[k + 1]
  <2>1. (k - 1 \in 1 .. n <=> k # 1) /\ (k + 1 \in 1 .. n <=> k # n)
    BY <1>3
  <2>2. s[k] \in DOMAIN heap /\ heap[s[k]].prev = At(s, k - 1) /\ heap[s[k]].next = At(s, k + 1)
    BY <1>2 DEF IsChain, Leads
  <2> QED BY <2>1, <2>2 DEF At
<1>7. ToSet(s) \subseteq DOMAIN heap /\ Cardinality(ToSet(s)) = n
  BY <1>1, <1>2, <1>6, SetOfSeq, ChainLength
<1> QED BY <1>1, <1>4, <1>5, <1>6, <1>7

\* When nothing is under way the cells of a list are exactly those of its chain.
LEMMA QuietCells ==
  ASSUME NEW ch, Consistent(ch), Quiet
  PROVE  /\ Dead(todo) = {} /\ Told(todo) = {} /\ Unmade(todo) = {}
         /\ \A l \in DOMAIN lists : l \in List /\ Own(ch)[l] = ToSet(Chain(l))
         /\ \A l \in List : \A c \in Own(ch)[l] : l \in DOMAIN lists
<1>1. Dead(todo) = {} /\ Told(todo) = {} /\ Unmade(todo) = {}
  BY NoFrames DEF Quiet
<1>2. \A l \in DOMAIN lists : l \in List /\ Own(ch)[l] = ToSet(Chain(l))
  BY ChainFound DEF Own
<1>3. ASSUME NEW l \in List, NEW c \in Own(ch)[l], l \notin DOMAIN lists PROVE FALSE
  <2>1. ch[l] = <<>>
    BY <1>1, <1>3, Zenon DEF Consistent, Holds, Chained
  <2>2. Own(ch)[l] = {}
    BY <2>1 DEF Own, ToSet
  <2> QED BY <2>2
<1> QED BY <1>1, <1>2, <1>3

\* The invariant implies that cells and callbacks correspond between operations.
LEMMA WatchHolds ==
  ASSUME NEW ch, Consistent(ch)
  PROVE  Watched
<1> SUFFICES ASSUME Quiet
             PROVE  LET cells == UNION {{l} \X ToSet(Chain(l)) : l \in DOMAIN lists}
                        watches == UNION {{<<cb.list, cb.cell>> : cb \in ToSet(vars[x].cblist)} : x \in DOMAIN vars}
                    IN  /\ DOMAIN heap = {lc[2] : lc \in cells}
                        /\ \A lc \in cells :
                             LET x == heap[lc[2]].obj_id
                             IN  Has(vars, x) /\ [list |-> lc[1], cell |-> lc[2]] \in ToSet(vars[x].cblist)
                        /\ watches \subseteq cells
  BY DEF Watched
<1> DEFINE own == Own(ch)
           cells == UNION {{l} \X ToSet(Chain(l)) : l \in DOMAIN lists}
           watches == UNION {{<<cb.list, cb.cell>> : cb \in ToSet(vars[x].cblist)} : x \in DOMAIN vars}
<1>1. /\ Dead(todo) = {} /\ Told(todo) = {}
      /\ \A l \in DOMAIN lists : l \in List /\ own[l] = ToSet(Chain(l))
      /\ \A l \in List : \A c \in own[l] : l \in DOMAIN lists
  BY QuietCells
<1>2. /\ Shared(heap, own) /\ Watching(heap, vars, own, {}, {}) /\ Exact(heap, vars, own, {})
      /\ \A x \in DOMAIN vars : vars[x] \in VarType
  BY <1>1, Zenon DEF Consistent, Holds, Typed
<1> HIDE DEF own
<1>3. \A c : \A l \in List : c \in own[l] => <<l, c>> \in cells
  BY <1>1
<1>4. \A lc \in cells : lc = <<lc[1], lc[2]>> /\ lc[1] \in List /\ lc[2] \in own[lc[1]]
  BY <1>1
<1> HIDE DEF cells
<1>5. DOMAIN heap = {lc[2] : lc \in cells}
  <2>1. \A c \in DOMAIN heap : \E lc \in cells : c = lc[2]
    <3> SUFFICES ASSUME NEW c \in DOMAIN heap PROVE \E lc \in cells : c = lc[2]
      OBVIOUS
    <3>1. PICK l \in List : c \in own[l]
      BY <1>2 DEF Shared
    <3>2. <<l, c>> \in cells /\ <<l, c>>[2] = c
      BY <1>3, <3>1
    <3> QED BY <3>2
  <2>2. \A lc \in cells : lc[2] \in DOMAIN heap
    BY <1>2, <1>4 DEF Shared
  <2> QED BY <2>1, <2>2
<1>6. ASSUME NEW lc \in cells
      PROVE  LET x == heap[lc[2]].obj_id
             IN  Has(vars, x) /\ [list |-> lc[1], cell |-> lc[2]] \in ToSet(vars[x].cblist)
  BY <1>2, <1>4 DEF Watching, Has
<1>7. watches \subseteq cells
  <2> SUFFICES ASSUME NEW x \in DOMAIN vars, NEW cb \in ToSet(vars[x].cblist) PROVE <<cb.list, cb.cell>> \in cells
    OBVIOUS
  <2>1. cb.cell \in own[cb.list]
    BY <1>2 DEF Exact
  <2>2. cb \in [list : List, cell : Cell]
    <3>1. vars[x].cblist \in Seq([list : List, cell : Cell])
      BY <1>2 DEF VarType
    <3>2. ToSet(vars[x].cblist) \subseteq [list : List, cell : Cell]
      BY <3>1, SetOfSeq, ZenonT(60)
    <3> QED BY <3>2
  <2> QED BY <1>3, <2>1, <2>2
<1> HIDE DEF watches
<1> QED BY <1>5, <1>6, <1>7 DEF watches, cells

\* The invariant implies that nothing leaks and nothing is kept by a list it has left.
LEMMA LeakHolds ==
  ASSUME NEW ch, Consistent(ch)
  PROVE  NoLeak
<1> SUFFICES ASSUME Quiet, NEW x \in DOMAIN vars
             PROVE  /\ ~vars[x].named => Parents(vars[x]) # {}
                    /\ \A l \in Parents(vars[x]) : Has(lists, l) /\ x \in ToSet(ItemsOf(l))
  BY DEF NoLeak
<1> DEFINE own == Own(ch)
<1>1. /\ Dead(todo) = {}
      /\ \A l \in List : \A c \in own[l] : l \in DOMAIN lists
  BY QuietCells
<1>2. Kept(heap, vars, own, {})
  BY <1>1, Zenon DEF Consistent, Holds
<1> HIDE DEF own
<1>3. ASSUME NEW l \in Parents(vars[x]) PROVE Has(lists, l) /\ x \in ToSet(ItemsOf(l))
  <2>1. l \in List
    BY DEF Parents
  <2>2. PICK c \in own[l] : heap[c].obj_id = x
    BY <1>2 DEF Kept
  <2>3. l \in DOMAIN lists
    BY <1>1, <2>1
  <2>4. Chain(l) = ch[l] /\ ch[l] \in Seq(Cell) /\ own[l] = ToSet(ch[l])
    BY <2>1, <2>3, ChainFound DEF own, Own
  <2>5. PICK k \in 1 .. Len(ch[l]) : ch[l][k] = c
    BY <2>4, SetOfSeq
  <2>6. DOMAIN ch[l] = 1 .. Len(ch[l])
    BY <2>4, LenProperties
  <2>7. ItemsOf(l) = [j \in 1 .. Len(ch[l]) |-> heap[ch[l][j]].obj_id]
    BY <2>4, <2>6 DEF ItemsOf
  <2> QED BY <2>2, <2>3, <2>5, <2>7 DEF Has, ToSet
<1> QED BY <1>2, <1>3 DEF Kept

\* The invariant implies that a sequencing that ends has handed out everything.
LEMMA HandedOutHolds ==
  ASSUME NEW ch, Consistent(ch)
  PROVE  AllHandedOut
BY Zenon DEF Consistent, Holds, Looped, AllHandedOut

-----------------------------------------------------------------------------
(* Variables and the cells that hold them *)

Attached(h, vs, own, dead, told) ==
  /\ DOMAIN vs \subseteq Var /\ \A x \in DOMAIN vs : vs[x] \in VarType
  /\ Watching(h, vs, own, dead, told)
  /\ Exact(h, vs, own, dead)
  /\ Single(vs)
  /\ Kept(h, vs, own, dead)
  /\ dead \subseteq DOMAIN vs

\* The fields of a variable.
LEMMA VarFacts ==
  ASSUME NEW v \in VarType
  PROVE  /\ v.named \in BOOLEAN /\ v.parents \in [List -> Nat] /\ v.cblist \in Seq([list : List, cell : Cell])
         /\ ToSet(v.cblist) \subseteq [list : List, cell : Cell]
         /\ v = [named |-> v.named, parents |-> v.parents, cblist |-> v.cblist]
<1>1. v.cblist \in Seq([list : List, cell : Cell])
  BY DEF VarType
<1>2. ToSet(v.cblist) \subseteq [list : List, cell : Cell]
  BY <1>1, SetOfSeq
<1> QED BY <1>1, <1>2 DEF VarType

\* A variable has one callback for a cell at most.
Apart(v) == \A i, j \in DOMAIN v.cblist : v.cblist[i].cell = v.cblist[j].cell => i = j

\* The callbacks of every variable are for different cells.
LEMMA SingleIs ==
  ASSUME NEW vs
  PROVE  Single(vs) <=> \A x \in DOMAIN vs : Apart(vs[x])
BY DEF Single, Apart

\* A variable that enters a list has one more parent and one more callback.
LEMMA HoldFacts ==
  ASSUME NEW v \in VarType, Apart(v), NEW l \in List, NEW c \in Cell, \A cb \in ToSet(v.cblist) : cb.cell # c
  PROVE  LET w == Hold(v, l, c)
         IN  /\ w \in VarType /\ Apart(w) /\ w.named = v.named
             /\ Parents(w) = Parents(v) \cup {l}
             /\ ToSet(w.cblist) = ToSet(v.cblist) \cup {[list |-> l, cell |-> c]}
<1> DEFINE e == [list |-> l, cell |-> c]
           s == v.cblist
           t == Append(s, e)
           w == Hold(v, l, c)
           n == Len(s)
           CB == [list : List, cell : Cell]
<1>1. v.named \in BOOLEAN /\ v.parents \in [List -> Nat] /\ s \in Seq(CB)
  BY VarFacts
<1>2. w = [named |-> v.named, parents |-> [v.parents EXCEPT ![l] = @ + 1], cblist |-> t]
  <2>1. v = [named |-> v.named, parents |-> v.parents, cblist |-> s]
    BY VarFacts
  <2>2. w = [[v EXCEPT !.parents = [v.parents EXCEPT ![l] = @ + 1]] EXCEPT !.cblist = t]
    BY <2>1 DEF Hold
  <2> HIDE DEF w, t, s
  <2> QED BY <2>1, <2>2
<1>3. n \in Nat /\ DOMAIN s = 1 .. n
  BY <1>1, LenProperties
<1>4. e \in CB /\ e.cell = c
  OBVIOUS
<1>5. t \in Seq(CB) /\ Len(t) = n + 1 /\ t[n + 1] = e /\ \A k \in 1 .. n : t[k] = s[k]
  BY <1>1, <1>4, AppendProperties
<1> HIDE DEF t, s, e, n
<1>6. DOMAIN t = 1 .. n + 1 /\ \A k \in 1 .. n + 1 : k = n + 1 \/ k \in 1 .. n
  BY <1>3, <1>5, LenProperties
<1>7. /\ \A d \in ToSet(t) : \E k \in 1 .. n + 1 : t[k] = d
      /\ \A d \in ToSet(s) : \E k \in 1 .. n : s[k] = d
      /\ \A k \in 1 .. n + 1 : t[k] \in ToSet(t)
      /\ \A k \in 1 .. n : s[k] \in ToSet(s)
  BY <1>1, <1>5, SetOfSeq DEF n
<1>8. ToSet(t) = ToSet(s) \cup {e}
  <2>1. n + 1 \in 1 .. n + 1 /\ \A k \in 1 .. n : k \in 1 .. n + 1
    BY <1>3
  <2>2. ASSUME NEW d \in ToSet(t) PROVE d \in ToSet(s) \cup {e}
    <3>1. PICK k \in 1 .. n + 1 : t[k] = d
      BY <1>7
    <3> QED BY <1>5, <1>6, <1>7, <3>1
  <2>3. ASSUME NEW d \in ToSet(s) PROVE d \in ToSet(t)
    <3>1. PICK k \in 1 .. n : s[k] = d
      BY <1>7
    <3> QED BY <1>5, <1>7, <2>1, <3>1
  <2>4. e \in ToSet(t)
    BY <1>5, <1>7, <2>1
  <2> QED BY <2>2, <2>3, <2>4
<1>9. ASSUME NEW i \in 1 .. n + 1, NEW j \in 1 .. n + 1, t[i].cell = t[j].cell PROVE i = j
  <2>1. \A k \in 1 .. n : t[k] = s[k] /\ s[k].cell # c
    BY <1>5, <1>7 DEF s
  <2>2. t[n + 1].cell = c
    BY <1>4, <1>5
  <2>3. \A p, q \in 1 .. n : s[p].cell = s[q].cell => p = q
    BY <1>3 DEF Apart, s
  <2> QED BY <1>6, <1>9, <2>1, <2>2, <2>3
<1>10. Parents(w) = Parents(v) \cup {l}
  BY <1>1, <1>2 DEF Parents
<1>11. w.cblist = t /\ w.named = v.named /\ w \in VarType
  <2>1. [v.parents EXCEPT ![l] = @ + 1] \in [List -> Nat]
    BY <1>1
  <2> QED BY <1>1, <1>2, <1>5, <2>1 DEF VarType, CB
<1>12. Apart(w)
  BY <1>6, <1>9, <1>11 DEF Apart
<1> HIDE DEF w
<1> QED BY <1>8, <1>10, <1>11, <1>12 DEF s, e, w

\* _NhlCBDelete removes the callback of this cell and no other.
LEMMA UnwatchFacts ==
  ASSUME NEW v \in VarType, Apart(v), NEW cb \in ToSet(v.cblist)
  PROVE  LET w == Unwatch(v, cb.cell)
         IN  /\ w \in VarType /\ Apart(w) /\ w.named = v.named /\ w.parents = v.parents
             /\ ToSet(w.cblist) = ToSet(v.cblist) \ {cb}
             /\ \A d \in ToSet(w.cblist) : d.cell # cb.cell
<1> DEFINE s == v.cblist
           CB == [list : List, cell : Cell]
           c == cb.cell
           i == CHOOSE i \in DOMAIN s : s[i].cell = c
           t == RemoveAt(s, i)
           w == Unwatch(v, c)
<1>1. v.named \in BOOLEAN /\ v.parents \in [List -> Nat] /\ s \in Seq(CB)
  BY VarFacts
<1>2. DOMAIN s = 1 .. Len(s) /\ Len(s) \in Nat
  BY <1>1, LenProperties
<1>3. i \in 1 .. Len(s) /\ s[i].cell = c /\ s[i] = cb
  <2>1. PICK k \in 1 .. Len(s) : s[k] = cb
    BY <1>1, SetOfSeq
  <2>2. i \in DOMAIN s /\ s[i].cell = c
    BY <1>2, <2>1
  <2> HIDE DEF i, s
  <2>3. i = k
    BY <1>2, <2>1, <2>2 DEF Apart, s
  <2> QED BY <1>2, <2>1, <2>2, <2>3
<1>4. w = [named |-> v.named, parents |-> v.parents, cblist |-> t]
  BY VarFacts DEF Unwatch
<1> HIDE DEF i, s
<1>5. \A p, q \in 1 .. Len(s) : s[p].cell = s[q].cell => p = q
  BY <1>2 DEF Apart, s
<1>6. Once(s)
  BY <1>5 DEF Once
<1>7. /\ t \in Seq(CB) /\ Len(t) = Len(s) - 1
      /\ \A k \in 1 .. Len(s) - 1 : t[k] = IF k < i THEN s[k] ELSE s[k + 1]
  BY <1>1, <1>3, RemoveAtFacts
<1>8. ToSet(t) = ToSet(s) \ {cb}
  BY <1>1, <1>3, <1>6, RemoveOnce
<1>9. DOMAIN t = 1 .. Len(s) - 1
  BY <1>7, LenProperties
<1>10. w \in VarType /\ w.named = v.named /\ w.parents = v.parents /\ w.cblist = t
  BY <1>1, <1>4, <1>7 DEF VarType, CB
<1>11. \A d \in ToSet(t) : d.cell # c
  <2> SUFFICES ASSUME NEW d \in ToSet(s), d # cb PROVE d.cell # c
    BY <1>8
  <2>1. PICK k \in 1 .. Len(s) : s[k] = d
    BY <1>1, SetOfSeq
  <2> QED BY <1>3, <1>5, <2>1
<1> HIDE DEF t
<1>12. ASSUME NEW p \in 1 .. Len(s) - 1, NEW q \in 1 .. Len(s) - 1, t[p].cell = t[q].cell PROVE p = q
  <2>1. p \in 1 .. Len(s) /\ p + 1 \in 1 .. Len(s) /\ q \in 1 .. Len(s) /\ q + 1 \in 1 .. Len(s)
    BY <1>2
  <2>2. (t[p] = s[p] /\ p < i) \/ (t[p] = s[p + 1] /\ ~(p < i))
    BY <1>7
  <2>3. (t[q] = s[q] /\ q < i) \/ (t[q] = s[q + 1] /\ ~(q < i))
    BY <1>7
  <2>4. CASE t[p] = s[p] /\ p < i /\ t[q] = s[q]
    BY <1>5, <1>12, <2>1, <2>4
  <2>5. CASE t[p] = s[p] /\ p < i /\ t[q] = s[q + 1] /\ ~(q < i)
    <3>1. p = q + 1
      BY <1>5, <1>12, <2>1, <2>5
    <3> QED BY <1>2, <1>3, <2>5, <3>1
  <2>6. CASE t[p] = s[p + 1] /\ ~(p < i) /\ t[q] = s[q] /\ q < i
    <3>1. q = p + 1
      BY <1>5, <1>12, <2>1, <2>6
    <3> QED BY <1>2, <1>3, <2>6, <3>1
  <2>7. CASE t[p] = s[p + 1] /\ t[q] = s[q + 1]
    <3>1. p + 1 = q + 1
      BY <1>5, <1>12, <2>1, <2>7
    <3> QED BY <1>2, <3>1
  <2> QED BY <2>2, <2>3, <2>4, <2>5, <2>6, <2>7
<1>13. Apart(w)
  BY <1>9, <1>10, <1>12 DEF Apart
<1> HIDE DEF w
<1> QED BY <1>8, <1>10, <1>11, <1>13 DEF s, w, c

\* VarDelParent removes this parent and no other.
LEMMA DelParentFacts ==
  ASSUME NEW v \in VarType, NEW l \in List
  PROVE  LET w == DelParent(v, l)
         IN  /\ w \in VarType /\ w.named = v.named /\ w.cblist = v.cblist
             /\ Parents(w) = Parents(v) \ {l}
<1> DEFINE w == DelParent(v, l)
<1>1. v.named \in BOOLEAN /\ v.parents \in [List -> Nat] /\ v.cblist \in Seq([list : List, cell : Cell])
  BY VarFacts
<1>2. w = [named |-> v.named, parents |-> [v.parents EXCEPT ![l] = 0], cblist |-> v.cblist]
  <2>1. v = [named |-> v.named, parents |-> v.parents, cblist |-> v.cblist]
    BY VarFacts
  <2>2. w = [v EXCEPT !.parents = [v.parents EXCEPT ![l] = 0]]
    BY DEF DelParent
  <2> HIDE DEF w
  <2> QED BY <2>1, <2>2
<1> HIDE DEF w
<1>3. [v.parents EXCEPT ![l] = 0] \in [List -> Nat]
  BY <1>1
<1>4. w \in VarType /\ w.named = v.named /\ w.cblist = v.cblist
  BY <1>1, <1>2, <1>3 DEF VarType
<1>5. Parents(w) = Parents(v) \ {l}
  BY <1>1, <1>2 DEF Parents
<1> QED BY <1>4, <1>5 DEF w

\* A new variable has neither parents nor callbacks.
LEMMA NewVarFacts ==
  ASSUME NEW named \in BOOLEAN
  PROVE  LET v == NewVar(named)
         IN  v \in VarType /\ Apart(v) /\ v.named = named /\ Parents(v) = {} /\ v.cblist = <<>> /\ ToSet(v.cblist) = {}
<1>1. <<>> \in Seq([list : List, cell : Cell])
  OBVIOUS
<1>2. NewVar(named) \in VarType
  BY <1>1 DEF NewVar, VarType
<1> QED BY <1>2 DEF NewVar, Apart, Parents, ToSet

\* The list l takes in the cells C, which nobody had.
Adds(own, own2, l, C) ==
  \A m \in List : own[m] \cap C = {} /\ own2[m] = IF m = l THEN own[m] \cup C ELSE own[m]

SameItems(h, h2, own) == \A m \in List : \A d \in own[m] : h2[d].obj_id = h[d].obj_id

\* The variable x, perhaps a new one without a name, watches the cell c of l.
Takes(vs, vs2, x, l, c) == vs2 = With(vs, x, Hold(IF x \in DOMAIN vs THEN vs[x] ELSE NewVar(FALSE), l, c))

\* A list gets a cell of a variable.
LEMMA Gained ==
  ASSUME NEW h, NEW h2, NEW vs, NEW vs2, NEW own, NEW own2, NEW l \in List, NEW c \in Cell, NEW x \in Var,
         Attached(h, vs, own, {}, {}),
         Adds(own, own2, l, {c}), SameItems(h, h2, own), h2[c].obj_id = x, Takes(vs, vs2, x, l, c)
  PROVE  Attached(h2, vs2, own2, {}, {})
<1>a. /\ \A m \in List : c \notin own[m] /\ own2[m] = IF m = l THEN own[m] \cup {c} ELSE own[m]
      /\ \A m \in List : \A d \in own[m] : h2[d].obj_id = h[d].obj_id
  BY DEF Adds, SameItems
<1> USE <1>a
<1> DEFINE v == IF x \in DOMAIN vs THEN vs[x] ELSE NewVar(FALSE)
           w == Hold(v, l, c)
           e == [list |-> l, cell |-> c]
<1>1. /\ DOMAIN vs \subseteq Var /\ \A y \in DOMAIN vs : vs[y] \in VarType /\ Apart(vs[y])
  BY SingleIs DEF Attached
<1>2. v \in VarType /\ Apart(v)
  BY <1>1, NewVarFacts
<1>v. (x \in DOMAIN vs => v = vs[x]) /\ (x \notin DOMAIN vs => v = NewVar(FALSE))
  OBVIOUS
<1>3. ASSUME NEW y \in DOMAIN vs, NEW cb \in ToSet(vs[y].cblist)
      PROVE  cb.list \in List /\ cb.cell \in own[cb.list] /\ h[cb.cell].obj_id = y /\ cb.cell # c
  <2>1. cb \in [list : List, cell : Cell]
    BY <1>1, VarFacts
  <2>2. cb.cell \in own[cb.list] /\ h[cb.cell].obj_id = y
    BY DEF Attached, Exact
  <2> QED BY <2>1, <2>2
<1>4. \A cb \in ToSet(v.cblist) : cb.cell # c /\ x \in DOMAIN vs
  BY <1>3, NewVarFacts
<1>w. w = Hold(v, l, c) /\ vs2 = With(vs, x, w)
  BY DEF Takes
<1> HIDE DEF v, w
<1>5. /\ w \in VarType /\ Apart(w) /\ w.named = v.named
      /\ Parents(w) = Parents(v) \cup {l}
      /\ ToSet(w.cblist) = ToSet(v.cblist) \cup {e}
  BY <1>2, <1>4, <1>w, HoldFacts
<1>6. DOMAIN vs2 = DOMAIN vs \cup {x} /\ \A y \in DOMAIN vs2 : vs2[y] = IF y = x THEN w ELSE vs[y]
  BY <1>w DEF With
<1>7. Watching(h2, vs2, own2, {}, {})
  <2> SUFFICES ASSUME NEW m \in List, NEW d \in own2[m]
               PROVE  /\ h2[d].obj_id \in DOMAIN vs2
                      /\ [list |-> m, cell |-> d] \in ToSet(vs2[h2[d].obj_id].cblist)
    BY Zenon DEF Watching
  <2>1. CASE m = l /\ d = c
    BY <1>5, <1>6, <2>1
  <2>2. CASE ~(m = l /\ d = c)
    <3>1. d \in own[m] /\ h2[d].obj_id = h[d].obj_id
      BY <2>2
    <3>2. h[d].obj_id \in DOMAIN vs /\ [list |-> m, cell |-> d] \in ToSet(vs[h[d].obj_id].cblist)
      BY <3>1 DEF Attached, Watching
    <3>3. CASE h[d].obj_id = x
      BY <1>5, <1>6, <1>v, <3>1, <3>2, <3>3
    <3>4. CASE h[d].obj_id # x
      BY <1>6, <3>1, <3>2, <3>4
    <3> QED BY <3>3, <3>4
  <2> QED BY <2>1, <2>2
<1>8. Exact(h2, vs2, own2, {})
  <2> SUFFICES ASSUME NEW y \in DOMAIN vs2, NEW cb \in ToSet(vs2[y].cblist)
               PROVE  cb.cell \in own2[cb.list] /\ h2[cb.cell].obj_id = y
    BY DEF Exact
  <2>1. CASE y = x /\ cb = e
    BY <2>1
  <2>2. CASE ~(y = x /\ cb = e)
    <3>1. y \in DOMAIN vs /\ cb \in ToSet(vs[y].cblist)
      <4>1. CASE y = x
        <5>1. cb \in ToSet(w.cblist) /\ cb # e
          BY <1>6, <2>2, <4>1
        <5>2. cb \in ToSet(v.cblist)
          BY <1>5, <5>1
        <5> QED BY <1>4, <1>v, <4>1, <5>2
      <4>2. CASE y # x
        BY <1>6, <4>2
      <4> QED BY <4>1, <4>2
    <3> QED BY <1>3, <3>1, ZenonT(60)
  <2> QED BY <2>1, <2>2
<1>9. Single(vs2)
  <2>1. \A y \in DOMAIN vs2 : Apart(vs2[y])
    BY <1>1, <1>5, <1>6
  <2> QED BY <2>1, SingleIs
<1>10. Kept(h2, vs2, own2, {})
  <2> SUFFICES ASSUME NEW y \in DOMAIN vs2
               PROVE  /\ ~vs2[y].named => Parents(vs2[y]) # {}
                      /\ \A m \in Parents(vs2[y]) : \E d \in own2[m] : h2[d].obj_id = y
    BY DEF Kept
  <2>0. \A z \in DOMAIN vs : \A m \in Parents(vs[z]) : m \in List /\ \E d \in own2[m] : h2[d].obj_id = z
    <3> SUFFICES ASSUME NEW z \in DOMAIN vs, NEW m \in Parents(vs[z]) PROVE m \in List /\ \E d \in own2[m] : h2[d].obj_id = z
      OBVIOUS
    <3>1. m \in List
      BY DEF Parents
    <3>2. PICK d \in own[m] : h[d].obj_id = z
      BY DEF Attached, Kept
    <3>3. d \in own2[m] /\ h2[d].obj_id = z
      BY <3>1, <3>2
    <3> QED BY <3>1, <3>3
  <2>1. CASE y = x
    <3>1. vs2[y] = w
      BY <1>6, <2>1
    <3>2. c \in own2[l] /\ h2[c].obj_id = y
      BY <2>1
    <3>3. \A m \in Parents(v) : \E d \in own2[m] : h2[d].obj_id = y
      <4>1. CASE x \in DOMAIN vs
        BY <1>v, <2>0, <2>1, <4>1
      <4>2. CASE x \notin DOMAIN vs
        <5>1. Parents(v) = {}
          BY <1>v, <4>2, NewVarFacts
        <5> QED BY <5>1
      <4> QED BY <4>1, <4>2
    <3> QED BY <1>5, <3>1, <3>2, <3>3
  <2>2. CASE y # x
    <3>1. y \in DOMAIN vs /\ vs2[y] = vs[y]
      BY <1>6, <2>2
    <3>2. ~vs[y].named => Parents(vs[y]) # {}
      BY <3>1 DEF Attached, Kept
    <3> QED BY <2>0, <3>1, <3>2
  <2> QED BY <2>1, <2>2
<1>11. DOMAIN vs2 \subseteq Var /\ \A y \in DOMAIN vs2 : vs2[y] \in VarType
  BY <1>1, <1>5, <1>6
<1> QED BY <1>7, <1>8, <1>9, <1>10, <1>11 DEF Attached

\* One cell goes: in the heap, and in what the lists own.
Removes(h, h2, own, own2, c) ==
  /\ DOMAIN h2 = DOMAIN h \ {c}
  /\ \A m \in List : own2[m] = own[m] \ {c}
  /\ \A m \in List : \A d \in own2[m] : h2[d].obj_id = h[d].obj_id

\* The cell c of x is one of l, and of no other list.
Mine(h, own, l, c, x) ==
  l \in List /\ c \in own[l] /\ h[c].obj_id = x /\ \A m \in List : m # l => c \notin own[m]

\* What is done to the variable x of a cell c of l: it is without its callback.
LetsGo(vs, vs2, x, c, l, dead) ==
  LET u == Unwatch(vs[x], c)
  IN  \/ dead = {x} /\ vs2 = [vs EXCEPT ![x] = u]
      \/ dead = {x} /\ vs2 = [vs EXCEPT ![x] = DelParent(u, l)]
      \/ dead = {} /\ ~Unreferenced(u, l) /\ vs2 = [vs EXCEPT ![x] = DelParent(u, l)]

\* A list loses a cell, and the variable its callback, this parent, and perhaps
\* its life.
LEMMA Lost ==
  ASSUME NEW h, NEW h2, NEW vs, NEW vs2, NEW own, NEW own2, NEW l, NEW c, NEW x, NEW dead,
         Attached(h, vs, own, {}, {}), Removes(h, h2, own, own2, c), Mine(h, own, l, c, x), LetsGo(vs, vs2, x, c, l, dead)
  PROVE  Attached(h2, vs2, own2, dead, {})
<1>a. l \in List /\ c \in own[l] /\ h[c].obj_id = x /\ (\A m \in List : m # l => c \notin own[m])
  BY DEF Mine
<1>b. PICK u : u = Unwatch(vs[x], c)
  OBVIOUS
<1>c. \/ dead = {x} /\ vs2 = [vs EXCEPT ![x] = u]
      \/ dead = {x} /\ vs2 = [vs EXCEPT ![x] = DelParent(u, l)]
      \/ dead = {} /\ ~Unreferenced(u, l) /\ vs2 = [vs EXCEPT ![x] = DelParent(u, l)]
  BY <1>b DEF LetsGo
<1> USE <1>a, <1>b, <1>c DEF Removes
<1> DEFINE e == [list |-> l, cell |-> c]
           w == vs2[x]
<1>1. DOMAIN vs \subseteq Var /\ \A y \in DOMAIN vs : vs[y] \in VarType /\ Apart(vs[y])
  BY SingleIs DEF Attached
<1>2. x \in DOMAIN vs /\ e \in ToSet(vs[x].cblist)
  BY DEF Attached, Watching
<1>3. /\ u \in VarType /\ Apart(u) /\ u.named = vs[x].named /\ u.parents = vs[x].parents
      /\ ToSet(u.cblist) = ToSet(vs[x].cblist) \ {e}
      /\ \A d \in ToSet(u.cblist) : d.cell # c
  <2> DEFINE v == vs[x]
  <2>1. u = Unwatch(v, e.cell) /\ v \in VarType /\ Apart(v) /\ e \in ToSet(v.cblist) /\ e.cell = c
    BY <1>1, <1>2
  <2> HIDE DEF e, v
  <2> DEFINE t == Unwatch(v, e.cell)
  <2>3. /\ t \in VarType /\ Apart(t) /\ t.named = v.named /\ t.parents = v.parents
        /\ ToSet(t.cblist) = ToSet(v.cblist) \ {e}
        /\ \A d \in ToSet(t.cblist) : d.cell # e.cell
    BY <2>1, UnwatchFacts, Zenon
  <2>4. u = t
    BY <2>1
  <2> HIDE DEF t
  <2>2. /\ u \in VarType /\ Apart(u) /\ u.named = v.named /\ u.parents = v.parents
        /\ ToSet(u.cblist) = ToSet(v.cblist) \ {e}
        /\ \A d \in ToSet(u.cblist) : d.cell # e.cell
    BY <2>3, <2>4
  <2> QED BY <2>1, <2>2 DEF v
<1>4. /\ DelParent(u, l) \in VarType /\ DelParent(u, l).named = u.named /\ DelParent(u, l).cblist = u.cblist
      /\ Parents(DelParent(u, l)) = Parents(u) \ {l} /\ Parents(u) = Parents(vs[x])
  <2>1. Parents(u) = Parents(vs[x])
    BY <1>3 DEF Parents
  <2> QED BY <1>3, <2>1, DelParentFacts
<1>5. DOMAIN vs2 = DOMAIN vs /\ \A y \in DOMAIN vs : y # x => vs2[y] = vs[y]
  OBVIOUS
<1>6. w \in VarType /\ w.named = vs[x].named /\ w.cblist = u.cblist /\ Apart(w)
  <2>1. w = u \/ w = DelParent(u, l)
    BY <1>2
  <2> QED BY <1>3, <1>4, <2>1 DEF Apart
<1>7. dead # {x} => dead = {} /\ ~Unreferenced(u, l) /\ w = DelParent(u, l)
  BY <1>2
<1>8. dead \subseteq {x}
  OBVIOUS
<1> HIDE DEF w
<1>9. Watching(h2, vs2, own2, dead, {})
  <2> SUFFICES ASSUME NEW m \in List, NEW d \in own2[m]
               PROVE  /\ h2[d].obj_id \in DOMAIN vs2
                      /\ [list |-> m, cell |-> d] \in ToSet(vs2[h2[d].obj_id].cblist)
    BY Zenon DEF Watching
  <2>1. d \in own[m] /\ d # c /\ h2[d].obj_id = h[d].obj_id
    OBVIOUS
  <2>2. h[d].obj_id \in DOMAIN vs /\ [list |-> m, cell |-> d] \in ToSet(vs[h[d].obj_id].cblist)
    BY <2>1 DEF Attached, Watching
  <2> QED BY <1>3, <1>5, <1>6, <2>1, <2>2 DEF w
<1>10. Exact(h2, vs2, own2, dead)
  <2> SUFFICES ASSUME NEW y \in DOMAIN vs, NEW cb \in ToSet(vs2[y].cblist)
               PROVE  cb.cell \in own2[cb.list] /\ h2[cb.cell].obj_id = y
    BY <1>5 DEF Exact
  <2>1. cb \in ToSet(vs[y].cblist)
    BY <1>3, <1>5, <1>6 DEF w
  <2>2. cb.list \in List /\ cb.cell \in own[cb.list] /\ h[cb.cell].obj_id = y
    <3>1. cb \in [list : List, cell : Cell]
      BY <1>1, <2>1, VarFacts
    <3>2. cb.cell \in own[cb.list] /\ h[cb.cell].obj_id = y
      BY <2>1 DEF Attached, Exact
    <3> QED BY <3>1, <3>2
  <2>3. cb.cell # c
    <3>1. CASE y = x
      BY <1>3, <1>6, <3>1 DEF w
    <3>2. CASE y # x
      BY <2>2, <3>2
    <3> QED BY <3>1, <3>2
  <2> QED BY <2>2, <2>3
<1>11. Single(vs2)
  <2>1. \A y \in DOMAIN vs2 : Apart(vs2[y])
    BY <1>1, <1>5, <1>6 DEF w
  <2> QED BY <2>1, SingleIs
<1>12. Kept(h2, vs2, own2, dead)
  <2> SUFFICES ASSUME NEW y \in DOMAIN vs \ dead
               PROVE  /\ ~vs2[y].named => Parents(vs2[y]) # {}
                      /\ \A m \in Parents(vs2[y]) : \E d \in own2[m] : h2[d].obj_id = y
    BY <1>5 DEF Kept
  <2>1. /\ ~vs[y].named => Parents(vs[y]) # {}
        /\ \A m \in Parents(vs[y]) : m \in List /\ \E d \in own[m] : h[d].obj_id = y
    BY DEF Attached, Kept, Parents
  <2>2. CASE y = x
    <3>1. dead = {} /\ ~Unreferenced(u, l) /\ vs2[y] = DelParent(u, l)
      BY <1>7, <2>2 DEF w
    <3>2. ~vs2[y].named => Parents(vs2[y]) # {}
      BY <1>3, <1>4, <2>1, <2>2, <3>1 DEF Unreferenced
    <3>3. ASSUME NEW m \in Parents(vs2[y]) PROVE \E d \in own2[m] : h2[d].obj_id = y
      <4>1. m \in Parents(vs[y]) /\ m # l
        BY <1>4, <2>2, <3>1
      <4>2. PICK d \in own[m] : h[d].obj_id = y
        BY <2>1, <4>1
      <4>3. m \in List
        BY <2>1, <4>1
      <4> QED BY <4>1, <4>2, <4>3
    <3> QED BY <3>2, <3>3
  <2>3. CASE y # x
    <3>1. vs2[y] = vs[y]
      BY <1>5, <2>3
    <3>2. ASSUME NEW m \in Parents(vs[y]) PROVE \E d \in own2[m] : h2[d].obj_id = y
      <4>1. PICK d \in own[m] : h[d].obj_id = y
        BY <2>1
      <4>2. d # c /\ m \in List
        BY <2>1, <2>3, <4>1
      <4> QED BY <4>1, <4>2
    <3> QED BY <2>1, <3>1, <3>2
  <2> QED BY <2>2, <2>3
<1>13. dead \subseteq DOMAIN vs2 /\ DOMAIN vs2 \subseteq Var /\ \A y \in DOMAIN vs2 : vs2[y] \in VarType
  BY <1>1, <1>2, <1>5, <1>6, <1>8 DEF w
<1> QED BY <1>9, <1>10, <1>11, <1>12, <1>13 DEF Attached

\* A list that is told of the end of x frees one of its cells.
LEMMA Freed ==
  ASSUME NEW h, NEW h2, NEW vs, NEW own, NEW own2, NEW l \in List, NEW x, NEW c,
         Attached(h, vs, own, {x}, {l}), h[c].obj_id = x, Removes(h, h2, own, own2, c)
  PROVE  Attached(h2, vs, own2, {x}, {l})
<1> USE DEF Removes
<1>1. DOMAIN vs \subseteq Var /\ \A y \in DOMAIN vs : vs[y] \in VarType /\ Parents(vs[y]) \subseteq List
  BY DEF Attached, Parents
<1>2. Watching(h2, vs, own2, {x}, {l})
  BY Zenon DEF Attached, Watching
<1>3. Exact(h2, vs, own2, {x})
  <2> SUFFICES ASSUME NEW y \in DOMAIN vs \ {x}, NEW cb \in ToSet(vs[y].cblist)
               PROVE  cb.cell \in own2[cb.list] /\ h2[cb.cell].obj_id = y
    BY DEF Exact
  <2>1. cb \in [list : List, cell : Cell]
    BY <1>1, VarFacts
  <2>2. cb.cell \in own[cb.list] /\ h[cb.cell].obj_id = y
    BY DEF Attached, Exact
  <2> QED BY <2>1, <2>2
<1>4. Kept(h2, vs, own2, {x})
  <2> SUFFICES ASSUME NEW y \in DOMAIN vs \ {x}
               PROVE  /\ ~vs[y].named => Parents(vs[y]) # {}
                      /\ \A m \in Parents(vs[y]) : \E d \in own2[m] : h2[d].obj_id = y
    BY DEF Kept
  <2>1. /\ ~vs[y].named => Parents(vs[y]) # {}
        /\ \A m \in Parents(vs[y]) : \E d \in own[m] : h[d].obj_id = y
    BY DEF Attached, Kept
  <2>2. ASSUME NEW m \in Parents(vs[y]) PROVE \E d \in own2[m] : h2[d].obj_id = y
    <3>1. PICK d \in own[m] : h[d].obj_id = y
      BY <2>1
    <3> QED BY <1>1, <3>1
  <2> QED BY <2>1, <2>2
<1> QED BY <1>2, <1>3, <1>4 DEF Attached

\* Its walk is over when it has no cell of x left.
LEMMA Over ==
  ASSUME NEW h, NEW vs, NEW own, NEW l \in List, NEW x, Attached(h, vs, own, {x}, {l}),
         \A d \in own[l] : h[d].obj_id # x
  PROVE  Attached(h, vs, own, {x}, {})
<1>1. Watching(h, vs, own, {x}, {})
  BY Zenon DEF Attached, Watching
<1> QED BY <1>1 DEF Attached

\* The next of its callbacks is called, or it is gone.
LEMMA Called ==
  ASSUME NEW h, NEW vs, NEW vs2, NEW own, NEW x, Attached(h, vs, own, {x}, {}),
         vs[x].cblist # <<>>, vs2 = [vs EXCEPT ![x].cblist = Tail(@)]
  PROVE  vs[x].cblist[1].list \in List /\ Attached(h, vs2, own, {x}, {vs[x].cblist[1].list})
<1> DEFINE s == vs[x].cblist
           l == s[1].list
           CB == [list : List, cell : Cell]
           w == vs2[x]
<1>1. x \in DOMAIN vs /\ DOMAIN vs \subseteq Var /\ \A y \in DOMAIN vs : vs[y] \in VarType /\ Apart(vs[y])
  BY SingleIs DEF Attached
<1>2. s \in Seq(CB) /\ DOMAIN s = 1 .. Len(s) /\ Len(s) \in Nat
  BY <1>1, VarFacts, LenProperties
<1>3. Once(s) /\ \A i, j \in 1 .. Len(s) : s[i].cell = s[j].cell => i = j
  BY <1>1, <1>2 DEF Apart, Once
<1>4. s # <<>>
  OBVIOUS
<1>5. DOMAIN vs2 = DOMAIN vs /\ (\A y \in DOMAIN vs : y # x => vs2[y] = vs[y])
      /\ w.named = vs[x].named /\ w.parents = vs[x].parents /\ w.cblist = Tail(s)
      /\ w = [named |-> vs[x].named, parents |-> vs[x].parents, cblist |-> Tail(s)]
  <2>1. vs2 = [vs EXCEPT ![x] = [vs[x] EXCEPT !.cblist = Tail(s)]]
    OBVIOUS
  <2>2. w = [vs[x] EXCEPT !.cblist = Tail(s)]
    BY <1>1, <2>1
  <2>3. vs[x] = [named |-> vs[x].named, parents |-> vs[x].parents, cblist |-> s]
    BY <1>1, VarFacts
  <2>4. DOMAIN vs2 = DOMAIN vs /\ (\A y \in DOMAIN vs : y # x => vs2[y] = vs[y])
    BY <2>1
  <2> HIDE DEF s, w
  <2> QED BY <2>2, <2>3, <2>4
<1> HIDE DEF s
<1>6. /\ Tail(s) \in Seq(CB) /\ Len(Tail(s)) = Len(s) - 1 /\ \A k \in 1 .. Len(s) - 1 : Tail(s)[k] = s[k + 1]
      /\ ToSet(Tail(s)) = ToSet(s) \ {s[1]}
  BY <1>2, <1>3, <1>4, HeadTailProperties, TailOnce
<1>7. s[1] \in CB /\ 1 \in 1 .. Len(s)
  <2>1. Len(s) # 0
    BY <1>2, <1>4, EmptySeq
  <2>2. 1 \in 1 .. Len(s)
    BY <1>2, <2>1
  <2> HIDE DEF CB
  <2> QED BY <1>2, <2>2, ElementOfSeq
<1>8. w \in VarType
  <2>1. vs[x].named \in BOOLEAN /\ vs[x].parents \in [List -> Nat]
    BY <1>1, VarFacts
  <2> HIDE DEF w
  <2> QED BY <1>5, <1>6, <2>1 DEF VarType
<1>9. Apart(w)
  <2>1. DOMAIN Tail(s) = 1 .. Len(s) - 1
    BY <1>6, LenProperties
  <2> HIDE DEF w
  <2> SUFFICES ASSUME NEW i \in 1 .. Len(s) - 1, NEW j \in 1 .. Len(s) - 1, Tail(s)[i].cell = Tail(s)[j].cell PROVE i = j
    BY <1>5, <2>1 DEF Apart
  <2>2. i + 1 \in 1 .. Len(s) /\ j + 1 \in 1 .. Len(s)
    BY <1>2
  <2>3. i + 1 = j + 1
    BY <1>3, <1>6, <2>2
  <2> QED BY <2>3
<1> HIDE DEF w
<1>10. l \in List
  BY <1>7
<1>11. Watching(h, vs2, own, {x}, {l})
  <2> SUFFICES ASSUME NEW m \in List, NEW d \in own[m]
               PROVE  /\ h[d].obj_id \in DOMAIN vs2
                      /\ \/ [list |-> m, cell |-> d] \in ToSet(vs2[h[d].obj_id].cblist)
                         \/ h[d].obj_id = x /\ m = l
    BY Zenon DEF Watching
  <2>1. h[d].obj_id \in DOMAIN vs /\ [list |-> m, cell |-> d] \in ToSet(vs[h[d].obj_id].cblist)
    BY DEF Attached, Watching
  <2>2. h[d].obj_id = x => [list |-> m, cell |-> d] \in ToSet(Tail(s)) \/ [list |-> m, cell |-> d] = s[1]
    BY <1>6, <2>1 DEF s
  <2>3. [list |-> m, cell |-> d] = s[1] => m = l
    BY <1>7
  <2> QED BY <1>5, <2>1, <2>2, <2>3 DEF w
<1>12. Exact(h, vs2, own, {x}) /\ Single(vs2) /\ Kept(h, vs2, own, {x})
  <2>1. Exact(h, vs2, own, {x}) /\ Kept(h, vs2, own, {x})
    BY <1>5 DEF Attached, Exact, Kept
  <2>2. Single(vs2)
    <3>1. \A y \in DOMAIN vs2 : Apart(vs2[y])
      BY <1>1, <1>5, <1>9 DEF w
    <3> QED BY <3>1, SingleIs
  <2> QED BY <2>1, <2>2
<1>13. \A y \in DOMAIN vs2 : vs2[y] \in VarType
  BY <1>1, <1>5, <1>8 DEF w
<1>14. Attached(h, vs2, own, {x}, {l})
  BY <1>1, <1>5, <1>11, <1>12, <1>13 DEF Attached
<1> QED BY <1>10, <1>14 DEF s

\* A variable whose callbacks have all been called may go.
LEMMA Buried ==
  ASSUME NEW h, NEW vs, NEW own, NEW x, Attached(h, vs, own, {x}, {}), vs[x].cblist = <<>>
  PROVE  Attached(h, Without(vs, x), own, {}, {})
<1> DEFINE vs2 == Without(vs, x)
<1>1. DOMAIN vs2 = DOMAIN vs \ {x} /\ \A y \in DOMAIN vs2 : vs2[y] = vs[y]
  BY DEF Without
<1> HIDE DEF vs2
<1>2. ToSet(vs[x].cblist) = {}
  BY DEF ToSet
<1>3. Watching(h, vs2, own, {}, {})
  BY <1>1, <1>2, Zenon DEF Attached, Watching
<1>4. Exact(h, vs2, own, {}) /\ Single(vs2) /\ Kept(h, vs2, own, {})
  BY <1>1 DEF Attached, Exact, Single, Kept
<1>5. DOMAIN vs2 \subseteq Var /\ \A y \in DOMAIN vs2 : vs2[y] \in VarType
  BY <1>1 DEF Attached
<1> QED BY <1>3, <1>4, <1>5 DEF Attached, vs2

\* A new variable of the program disturbs nothing.
LEMMA Defined ==
  ASSUME NEW h, NEW vs, NEW own, NEW x \in Var, x \notin DOMAIN vs, Attached(h, vs, own, {}, {})
  PROVE  Attached(h, With(vs, x, NewVar(TRUE)), own, {}, {})
<1> DEFINE vs2 == With(vs, x, NewVar(TRUE))
<1>1. DOMAIN vs2 = DOMAIN vs \cup {x} /\ (\A y \in DOMAIN vs : vs2[y] = vs[y]) /\ vs2[x] = NewVar(TRUE)
  BY DEF With
<1> HIDE DEF vs2
<1>2. /\ NewVar(TRUE) \in VarType /\ Apart(NewVar(TRUE)) /\ NewVar(TRUE).named
      /\ Parents(NewVar(TRUE)) = {} /\ ToSet(NewVar(TRUE).cblist) = {}
  BY NewVarFacts
<1>3. Watching(h, vs2, own, {}, {})
  BY <1>1, Zenon DEF Attached, Watching
<1>4. Exact(h, vs2, own, {}) /\ Kept(h, vs2, own, {})
  BY <1>1, <1>2 DEF Attached, Exact, Kept
<1>6. Single(vs2)
  <2>1. \A y \in DOMAIN vs2 : Apart(vs2[y])
    BY <1>1, <1>2, SingleIs DEF Attached
  <2> QED BY <2>1, SingleIs
<1>5. DOMAIN vs2 \subseteq Var /\ \A y \in DOMAIN vs2 : vs2[y] \in VarType
  BY <1>1, <1>2 DEF Attached
<1> QED BY <1>3, <1>4, <1>5, <1>6 DEF Attached, vs2

\* For a variable that dies less is claimed.
LEMMA Doomed ==
  ASSUME NEW h, NEW vs, NEW own, NEW x \in DOMAIN vs, Attached(h, vs, own, {}, {})
  PROVE  Attached(h, vs, own, {x}, {})
BY DEF Attached, Watching, Exact, Kept

-----------------------------------------------------------------------------
(* The parts of the invariant through a step *)

\* The part of the invariant about cells and variables.
LEMMA HoldsAttached ==
  ASSUME NEW ch, NEW h, NEW ls, NEW vs, NEW td, NEW lps, NEW un, Holds(ch, h, ls, vs, td, lps, un)
  PROVE  Attached(h, vs, Own(ch), Dead(td), Told(td))
BY DEF Holds, Attached, Typed

\* The invariant, put together from its parts.
LEMMA HoldsNext ==
  ASSUME NEW ch \in [List -> Seq(Cell)], NEW h, NEW ls, NEW vs, NEW td, NEW lps, NEW un,
         DOMAIN h \subseteq Cell, \A c \in DOMAIN h : h[c] \in CellType,
         DOMAIN ls \subseteq List, \A l \in DOMAIN ls : ls[l] \in Records,
         lps \in Seq([list : List, results : Nat, done : BOOLEAN]),
         un \in [List -> SUBSET Cell],
         NEW unmade, NEW dead, NEW told, Unmade(td) = unmade, Dead(td) = dead, Told(td) = told,
         Nesting(td), Chained(ch, h, ls, unmade), Shared(h, Own(ch)),
         Attached(h, vs, Own(ch), dead, told),
         UnderWay(ch, h, ls, td), Looped(ch, ls, lps, un)
  PROVE  Holds(ch, h, ls, vs, td, lps, un)
BY DEF Holds, Attached, Typed

\* Nothing is under way.
LEMMA QuietNow ==
  ASSUME NEW ch, Consistent(ch), Quiet
  PROVE  /\ todo = <<>> /\ fault = "none"
         /\ Attached(heap, vars, Own(ch), {}, {})
         /\ \A l \in DOMAIN lists : l \in List /\ Once(ch[l]) /\ IsChain(heap, ch[l], lists[l])
         /\ \A l \in List \ DOMAIN lists : ch[l] = <<>>
<1>1. todo = <<>> /\ fault = "none"
  BY DEF Quiet
<1>2. Dead(todo) = {} /\ Told(todo) = {} /\ Unmade(todo) = {}
  BY QuietCells
<1>3. Attached(heap, vars, Own(ch), {}, {})
  BY <1>2, HoldsAttached, Zenon DEF Consistent
<1> QED BY <1>1, <1>2, <1>3 DEF Consistent, Holds, Chained, Typed

\* Without one cell every cell in use is still on just one list.
LEMMA SharedLess ==
  ASSUME NEW h, NEW h2, NEW own, NEW own2, NEW c, Shared(h, own), Removes(h, h2, own, own2, c)
  PROVE  Shared(h2, own2)
<1> USE DEF Removes
<1>1. \A l, m \in List : l # m => own2[l] \cap own2[m] = {}
  BY DEF Shared
<1>2. \A l \in List : own2[l] \subseteq DOMAIN h2
  BY DEF Shared
<1>3. \A d \in DOMAIN h2 : \E l \in List : d \in own2[l]
  BY DEF Shared
<1> QED BY <1>1, <1>2, <1>3 DEF Shared

\* With new cells, all on one list, every cell in use is still on just one list.
LEMMA SharedMore ==
  ASSUME NEW h, NEW h2, NEW own, NEW own2, NEW l \in List, NEW C, Shared(h, own), Adds(own, own2, l, C), DOMAIN h2 = DOMAIN h \cup C
  PROVE  Shared(h2, own2)
<1> USE DEF Adds
<1>1. \A m \in List : own[m] \cap C = {}
  BY DEF Shared
<1>2. \A k, m \in List : k # m => own2[k] \cap own2[m] = {}
  BY <1>1 DEF Shared
<1>3. \A m \in List : own2[m] \subseteq DOMAIN h2
  BY DEF Shared
<1>4. ASSUME NEW d \in DOMAIN h2 PROVE \E m \in List : d \in own2[m]
  <2>1. CASE d \in C
    BY <2>1
  <2>2. CASE d \notin C
    <3>1. PICK m \in List : d \in own[m]
      BY <2>2 DEF Shared
    <3> QED BY <3>1
  <2> QED BY <2>1, <2>2
<1> QED BY <1>2, <1>3, <1>4 DEF Shared

\* Chains of different lists have no cell in common.
LEMMA NoCommonCell ==
  ASSUME NEW ch \in [List -> Seq(Cell)], NEW h, Shared(h, Own(ch)), NEW l \in List, NEW m \in List, l # m
  PROVE  \A i \in 1 .. Len(ch[l]), k \in 1 .. Len(ch[m]) : ch[l][i] # ch[m][k]
<1>1. ch[l] \in Seq(Cell) /\ ch[m] \in Seq(Cell)
  OBVIOUS
<1>2. (\A i \in 1 .. Len(ch[l]) : ch[l][i] \in Own(ch)[l]) /\ \A k \in 1 .. Len(ch[m]) : ch[m][k] \in Own(ch)[m]
  BY <1>1, SetOfSeq DEF Own
<1> QED BY <1>2 DEF Shared

\* The walk of ListItemDestroyNotify goes on; the operations below it are not concerned.
LEMMA NotifyMoves ==
  ASSUME NEW td, Nesting(td), NEW l, NEW x, NEW old, Notified(td, l, x, old),
         NEW ch, NEW h, NEW ls, UnderWay(ch, h, ls, td),
         NEW ch2, NEW h2, NEW ls2, DOMAIN ls2 = DOMAIN ls, l \in DOMAIN ls, \A m \in List \ DOMAIN ls : ch2[m] = ch[m],
         NEW r, NEW td2, Stepped(td, td2, r), r # NULL => Passed(h2, ch2[l], r, x)
  PROVE  UnderWay(ch2, h2, ls2, td2)
<1> USE DEF Notified, Stepped
<1>1. CASE \E y \in Var, k \in List, s \in Cell \cup {NULL} : td = <<Notifying(k, y, s), Dying(y)>>
  <2>1. PICK s \in Cell \cup {NULL} : td = <<Notifying(l, x, s), Dying(x)>>
    BY <1>1 DEF Notifying
  <2>2. td2 = <<Notifying(l, x, r), Dying(x)>>
    BY <2>1 DEF Notifying
  <2>3. UnderWay(ch2, h2, ls2, <<Notifying(l, x, r), Dying(x)>>)
    BY DEF UnderWay, Notifying, Dying
  <2> QED BY <2>2, <2>3
<1>2. CASE \E m \in List, c \in Cell \cup {NULL}, y \in Var, k \in List, s \in Cell \cup {NULL} :
             td = <<Notifying(k, y, s), Dying(y), Unmaking(m, c)>>
  <2>1. PICK m \in List, c \in Cell \cup {NULL}, s \in Cell \cup {NULL} : td = <<Notifying(l, x, s), Dying(x), Unmaking(m, c)>>
    BY <1>2 DEF Notifying
  <2>2. td2 = <<Notifying(l, x, r), Dying(x), Unmaking(m, c)>>
    BY <2>1 DEF Notifying
  <2>3. m \notin DOMAIN ls /\ c = At(ch[m], 1)
    BY <2>1 DEF UnderWay, Notifying, Dying, Unmaking
  <2>4. m \notin DOMAIN ls2 /\ c = At(ch2[m], 1)
    BY <2>3
  <2>5. UnderWay(ch2, h2, ls2, <<Notifying(l, x, r), Dying(x), Unmaking(m, c)>>)
    BY <2>4 DEF UnderWay, Notifying, Dying, Unmaking
  <2> QED BY <2>2, <2>5
<1>3. ~ \E y \in Var : td = <<Dying(y)>>
  BY DEF Dying
<1>4. ~ \E m \in List, c \in Cell \cup {NULL} : td = <<Unmaking(m, c)>>
  BY DEF Unmaking
<1>5. ~ \E m \in List, c \in Cell \cup {NULL}, y \in Var : td = <<Dying(y), Unmaking(m, c)>>
  BY DEF Dying
<1> QED BY <1>1, <1>2, <1>3, <1>4, <1>5 DEF Nesting

\* A cell that goes is no longer to be handed out; where the cursor is at that
\* cell it is at none of the chain.
LEMMA AheadCut ==
  ASSUME NEW s \in Seq(Cell), NEW p \in 1 .. Len(s), Once(s), NEW c, NEW un, Ahead(s, c, un)
  PROVE  Ahead(RemoveAt(s, p), c, un \ {s[p]})
<1> DEFINE n == Len(s)
           t == RemoveAt(s, p)
<1>1. n \in Nat /\ p \in 1 .. n
  BY LenProperties
<1>2. t \in Seq(Cell) /\ Len(t) = n - 1 /\ \A k \in 1 .. n - 1 : t[k] = IF k < p THEN s[k] ELSE s[k + 1]
  BY RemoveAtFacts
<1>3. (c = NULL => un = {}) /\ \A k \in 1 .. n : c = s[k] => \A d \in un : \E q \in 1 .. k : d = s[q]
  BY DEF Ahead
<1> HIDE DEF n, t
<1>4. ASSUME NEW k \in 1 .. n - 1, c = t[k], NEW d \in un \ {s[p]} PROVE \E j \in 1 .. k : d = t[j]
  <2>1. CASE k < p
    <3>1. k \in 1 .. n /\ c = s[k]
      BY <1>1, <1>2, <1>4, <2>1
    <3>2. PICK q \in 1 .. k : d = s[q]
      BY <1>3, <3>1
    <3>3. q \in 1 .. n - 1 /\ q < p
      BY <1>1, <2>1
    <3> QED BY <1>2, <3>2, <3>3
  <2>2. CASE ~(k < p)
    <3>1. k + 1 \in 1 .. n /\ c = s[k + 1]
      BY <1>1, <1>2, <1>4, <2>2
    <3>2. PICK q \in 1 .. k + 1 : d = s[q]
      BY <1>3, <3>1
    <3>3. q # p
      BY <3>2
    <3>4. CASE q < p
      <4>1. q \in 1 .. k /\ q \in 1 .. n - 1
        BY <1>1, <2>2, <3>4
      <4> QED BY <1>2, <3>2, <3>4, <4>1
    <3>5. CASE ~(q < p)
      <4>1. q - 1 \in 1 .. k /\ q - 1 \in 1 .. n - 1 /\ ~(q - 1 < p) /\ (q - 1) + 1 = q
        BY <1>1, <2>2, <3>3, <3>5
      <4>2. t[q - 1] = s[q]
        BY <1>2, <4>1
      <4> QED BY <3>2, <4>1, <4>2
    <3> QED BY <3>4, <3>5
  <2> QED BY <2>1, <2>2
<1>5. \A k \in 1 .. Len(t) : c = t[k] => un \ {s[p]} \subseteq {t[q] : q \in 1 .. k}
  BY <1>2, <1>4
<1> QED BY <1>3, <1>5 DEF Ahead, t

\* The list l frees its cell at place p, wherever a sequencing of it is.
CellFreed(ch, ch2, h, h2, ls, ls2, un, un2, l, p) ==
  /\ CutOut(h, h2, ch[l], p) /\ (\A c \in DOMAIN h2 : h2[c] \in CellType)
  /\ ls2 = [ls EXCEPT ![l] = ls2[l]]
  /\ ls2[l] \in Records /\ Shortened(ch[l], p, ls[l], ls2[l])
  /\ ls2[l].state = ls[l].state /\ ls2[l].current_item = ls[l].current_item /\ ls2[l].ref_count = ls[l].ref_count
  /\ un2 = [un EXCEPT ![l] = @ \ {ch[l][p]}]
  /\ ch2 = [ch EXCEPT ![l] = RemoveAt(ch[l], p)]

\* The sequencings go on when a list loses a cell.
LEMMA LoopedCut ==
  ASSUME NEW ch \in [List -> Seq(Cell)], NEW l \in List, NEW p \in 1 .. Len(ch[l]), Once(ch[l]),
         NEW h, NEW h2, NEW ls, NEW ls2, NEW lps, NEW un, NEW un2, NEW ch2,
         un \in [List -> SUBSET Cell], DOMAIN ls \subseteq List, l \in DOMAIN ls,
         Looped(ch, ls, lps, un), CellFreed(ch, ch2, h, h2, ls, ls2, un, un2, l, p)
  PROVE  Looped(ch2, ls2, lps, un2)
<1>0. /\ ch2 = [ch EXCEPT ![l] = RemoveAt(ch[l], p)] /\ un2 = [un EXCEPT ![l] = @ \ {ch[l][p]}]
      /\ DOMAIN ls2 = DOMAIN ls /\ (\A m \in DOMAIN ls : m # l => ls2[m] = ls[m])
      /\ ls2[l].state = ls[l].state /\ ls2[l].current_item = ls[l].current_item /\ ls2[l].ref_count = ls[l].ref_count
  BY DEF CellFreed
<1> SUFFICES ASSUME NEW i \in DOMAIN lps
             PROVE  LET m == lps[i].list
                    IN  /\ m \in DOMAIN ls2 /\ ls2[m].ref_count = 0
                        /\ lps[i].done => un2[m] = {}
                        /\ ~lps[i].done /\ ls2[m].state = SEQUENCING => Ahead(ch2[m], ls2[m].current_item, un2[m])
  BY DEF Looped
<1> DEFINE m == lps[i].list
<1>1. /\ m \in DOMAIN ls /\ ls[m].ref_count = 0
      /\ lps[i].done => un[m] = {}
      /\ ~lps[i].done /\ ls[m].state = SEQUENCING => Ahead(ch[m], ls[m].current_item, un[m])
  BY DEF Looped
<1>2. m \in List
  BY <1>1
<1> HIDE DEF m
<1>3. CASE m = l
  <2>1. ch2[m] = RemoveAt(ch[l], p) /\ un2[m] = un[l] \ {ch[l][p]}
    BY <1>0, <1>2, <1>3
  <2>2. Ahead(ch[l], ls[l].current_item, un[l]) => Ahead(RemoveAt(ch[l], p), ls[l].current_item, un[l] \ {ch[l][p]})
    BY AheadCut
  <2> QED BY <1>0, <1>1, <1>3, <2>1, <2>2 DEF m
<1>4. CASE m # l
  <2>1. ch2[m] = ch[m] /\ un2[m] = un[m] /\ ls2[m] = ls[m]
    BY <1>0, <1>1, <1>2, <1>4
  <2> QED BY <1>0, <1>1, <2>1 DEF m
<1> QED BY <1>3, <1>4


-----------------------------------------------------------------------------
(* Each step keeps the invariant: the walk of a notification *)

\* The walk is at a place before p up to which there is nothing of x, or has not
\* begun.
Behind(h, s, p, r, x) ==
  r # NULL => \E q \in 1 .. p - 1 : s[q] = r /\ \A j \in 1 .. q : h[s[j]].obj_id # x

\* Freeing a cell of the variable during the walk keeps the invariant.
LEMMA FreeHolds ==
  ASSUME NEW ch, NEW h, NEW ls, NEW vs, NEW td, NEW lps, NEW un, Holds(ch, h, ls, vs, td, lps, un),
         NEW l, NEW x, NEW old, Notified(td, l, x, old), l \in DOMAIN ls,
         NEW p \in 1 .. Len(ch[l]), h[ch[l][p]].obj_id = x,
         NEW ch2, NEW h2, NEW ls2, NEW un2, CellFreed(ch, ch2, h, h2, ls, ls2, un, un2, l, p),
         NEW r \in Cell \cup {NULL}, Behind(h, ch[l], p, r, x), NEW td2, Stepped(td, td2, r)
  PROVE  ch2 \in [List -> Seq(Cell)] /\ Holds(ch2, h2, ls2, vs, td2, lps, un2)
<1> DEFINE s == ch[l]
           t == RemoveAt(s, p)
           tmp == s[p]
           list2 == ls2[l]
<1>0. /\ CutOut(h, h2, s, p) /\ (\A c \in DOMAIN h2 : h2[c] \in CellType)
      /\ ls2 = [ls EXCEPT ![l] = list2] /\ list2 \in Records /\ Shortened(s, p, ls[l], list2)
      /\ un2 = [un EXCEPT ![l] = @ \ {tmp}] /\ ch2 = [ch EXCEPT ![l] = t]
      /\ p \in 1 .. Len(s) /\ s[p] = tmp /\ h[tmp].obj_id = x
  BY DEF CellFreed
<1> HIDE DEF tmp, list2
<1>1. /\ l \in List /\ s \in Seq(Cell) /\ Once(s) /\ IsChain(h, s, ls[l]) /\ Len(s) \in Nat
      /\ ch \in [List -> Seq(Cell)]
  <2>1. l \in List /\ s \in Seq(Cell) /\ ch \in [List -> Seq(Cell)]
    BY DEF Holds, Typed
  <2> QED BY <2>1, LenProperties DEF Holds, Chained
<1>2. IsChain(h2, t, list2) /\ t \in Seq(Cell) /\ Once(t) /\ ToSet(t) = ToSet(s) \ {tmp}
  <2>1. CutOut(h, h2, s, p) /\ Shortened(s, p, ls[l], list2) /\ p \in 1 .. Len(s) /\ s[p] = tmp
    BY <1>0
  <2>2. s \in Seq(Cell) /\ Once(s) /\ IsChain(h, s, ls[l])
    BY <1>1
  <2> HIDE DEF s
  <2>3. IsChain(h2, t, list2)
    BY <2>1, <2>2, CutChain, Zenon
  <2>4. t \in Seq(Cell)
    BY <2>1, <2>2, CutChain, Zenon
  <2>5. ToSet(t) = ToSet(s) \ {s[p]}
    BY <2>1, <2>2, CutChain
  <2>6. Once(t)
    BY <2>1, <2>2, CutChain, Zenon
  <2> QED BY <2>1, <2>3, <2>4, <2>5, <2>6
<1>3. Len(t) = Len(s) - 1 /\ \A k \in 1 .. Len(s) - 1 : t[k] = IF k < p THEN s[k] ELSE s[k + 1]
  BY <1>1, RemoveAtFacts
<1> HIDE DEF t
<1>4. ch2 \in [List -> Seq(Cell)] /\ ch2[l] = t /\ \A m \in List : m # l => ch2[m] = ch[m]
  BY <1>0, <1>1, <1>2 DEF t
<1>5. tmp \in Own(ch)[l] /\ Shared(h, Own(ch))
  BY <1>0, <1>1, SetOfSeq DEF Holds, Own
<1>6. \A m \in List : Own(ch2)[m] = Own(ch)[m] \ {tmp}
  <2> SUFFICES ASSUME NEW m \in List PROVE Own(ch2)[m] = Own(ch)[m] \ {tmp}
    OBVIOUS
  <2>1. CASE m = l
    BY <1>2, <1>4, <2>1 DEF Own
  <2>2. CASE m # l
    <3>1. tmp \notin Own(ch)[m]
      BY <1>1, <1>5, <2>2 DEF Shared
    <3> QED BY <1>4, <2>2, <3>1 DEF Own
  <2> QED BY <2>1, <2>2
<1>7. DOMAIN h2 = DOMAIN h \ {tmp} /\ \A c \in DOMAIN h2 : h2[c].obj_id = h[c].obj_id
  BY <1>0 DEF CutOut
<1>8. Shared(h2, Own(ch2)) /\ Removes(h, h2, Own(ch), Own(ch2), tmp)
  <2>1. \A m \in List : Own(ch2)[m] \subseteq DOMAIN h2
    BY <1>5, <1>6, <1>7 DEF Shared
  <2>2. Removes(h, h2, Own(ch), Own(ch2), tmp)
    BY <1>6, <1>7, <2>1 DEF Removes
  <2> QED BY <1>5, <2>2, SharedLess
<1>9. /\ Nesting(td) /\ Dead(td) = {x} /\ Told(td) = {l}
      /\ Nesting(td2) /\ Dead(td2) = {x} /\ Told(td2) = {l} /\ Unmade(td2) = Unmade(td)
  <2>1. Nesting(td)
    BY DEF Holds
  <2> QED BY <2>1, NotifyFrames
<1>10. Attached(h2, vs, Own(ch2), {x}, {l})
  <2>1. Attached(h, vs, Own(ch), {x}, {l})
    <3>1. Attached(h, vs, Own(ch), Dead(td), Told(td))
      BY HoldsAttached
    <3> QED BY <1>9, <3>1
  <2> QED BY <1>0, <1>1, <1>8, <2>1, Freed
<1>11. DOMAIN ls2 = DOMAIN ls /\ ls2[l] = list2 /\ \A m \in DOMAIN ls : m # l => ls2[m] = ls[m]
  BY <1>0
<1>12. Chained(ch2, h2, ls2, Unmade(td))
  <2>1. Chained(ch, h, ls, Unmade(td))
    BY DEF Holds
  <2>2. ASSUME NEW m \in List, m # l
        PROVE  /\ Leads(h, ch[m]) => Leads(h2, ch[m])
               /\ \A list : IsChain(h, ch[m], list) => IsChain(h2, ch[m], list)
    <3>1. ch[m] \in Seq(Cell) /\ \A i \in 1 .. Len(s), k \in 1 .. Len(ch[m]) : s[i] # ch[m][k]
      BY <1>1, <1>5, <2>2, NoCommonCell
    <3> HIDE DEF s
    <3> QED BY <1>0, <1>1, <3>1, CutApart
  <2>3. \A m \in List : Once(ch2[m])
    BY <1>2, <1>4, <2>1 DEF Chained
  <2>4. \A m \in DOMAIN ls2 : IsChain(h2, ch2[m], ls2[m])
    <3>1. DOMAIN ls \subseteq List
      BY DEF Holds, Typed
    <3> QED BY <1>2, <1>4, <1>11, <2>1, <2>2, <3>1 DEF Chained
  <2>5. \A m \in List \ DOMAIN ls2 : Leads(h2, ch2[m]) /\ (m \notin Unmade(td) => ch2[m] = <<>>)
    BY <1>4, <1>11, <2>1, <2>2 DEF Chained
  <2> QED BY <2>3, <2>4, <2>5 DEF Chained
<1>13. UnderWay(ch2, h2, ls2, td2)
  <2>1. r # NULL => Passed(h2, t, r, x)
    <3> SUFFICES ASSUME NEW q \in 1 .. p - 1, s[q] = r, \A j \in 1 .. q : h[s[j]].obj_id # x, r # NULL PROVE Passed(h2, t, r, x)
      BY DEF Behind
    <3> HIDE DEF s
    <3>1. q \in 1 .. Len(t) /\ t[q] = r
      <4>1. p \in 1 .. Len(s) /\ Len(s) \in Nat /\ Len(t) = Len(s) - 1
        BY <1>0, <1>1, <1>3
      <4>2. q \in 1 .. Len(s) - 1 /\ q < p
        BY <4>1
      <4> QED BY <1>3, <4>1, <4>2
    <3>2. ASSUME NEW j \in 1 .. q PROVE h2[t[j]].obj_id # x
      <4>1. j \in 1 .. Len(s) /\ t[j] = s[j] /\ j # p
        <5>1. p \in 1 .. Len(s) /\ Len(s) \in Nat
          BY <1>0, <1>1
        <5>2. j \in 1 .. Len(s) - 1 /\ j < p /\ j \in 1 .. Len(s)
          BY <5>1
        <5>3. t[j] = s[j]
          BY <1>3, <5>2
        <5>4. j # p
          BY <5>1, <5>2
        <5> QED BY <5>2, <5>3, <5>4
      <4>2. t[j] \in DOMAIN h2
        <5>1. s[j] # s[p] /\ s[j] \in DOMAIN h
          BY <1>0, <1>1, <4>1 DEF Once, IsChain, Leads
        <5> QED BY <1>0, <1>7, <4>1, <5>1
      <4> QED BY <1>7, <4>1, <4>2
    <3> QED BY <3>1, <3>2 DEF Passed
  <2>2. UnderWay(ch, h, ls, td)
    BY DEF Holds
  <2>3. r # NULL => Passed(h2, ch2[l], r, x)
    BY <1>4, <2>1
  <2>4. DOMAIN ls2 = DOMAIN ls /\ \A m \in List \ DOMAIN ls : ch2[m] = ch[m]
    BY <1>4, <1>11
  <2> HIDE DEF s
  <2> QED BY <1>9, <2>2, <2>3, <2>4, NotifyMoves
<1>14. Looped(ch2, ls2, lps, un2)
  <2>1. Looped(ch, ls, lps, un) /\ un \in [List -> SUBSET Cell] /\ DOMAIN ls \subseteq List
    BY DEF Holds, Typed
  <2> QED BY <1>1, <2>1, LoopedCut
<1>15. /\ DOMAIN h2 \subseteq Cell /\ DOMAIN ls2 \subseteq List /\ \A m \in DOMAIN ls2 : ls2[m] \in Records
       /\ lps \in Seq([list : List, results : Nat, done : BOOLEAN])
       /\ un2 \in [List -> SUBSET Cell]
  <2>1. Typed(h, ls, vs, lps, un)
    BY DEF Holds
  <2>2. un2 = [un EXCEPT ![l] = un[l] \ {tmp}]
    BY <1>0
  <2> QED BY <1>0, <1>1, <1>7, <1>11, <2>1, <2>2 DEF Typed
<1> HIDE DEF s
<1> QED BY <1>0, <1>4, <1>8, <1>9, <1>10, <1>12, <1>13, <1>14, <1>15, HoldsNext

\* Freeing a cell leaves the others as they are.
LEMMA WithoutCell ==
  ASSUME NEW h, NEW c, \A d \in DOMAIN h : h[d] \in CellType
  PROVE  /\ DOMAIN Without(h, c) = DOMAIN h \ {c}
         /\ \A d \in DOMAIN h \ {c} : Without(h, c)[d] = h[d] /\ Without(h, c)[d] \in CellType
BY DEF Without

\* The cell c gets a new neighbour v.
PrevChanged(h, h2, c, v) ==
  /\ DOMAIN h2 = DOMAIN h
  /\ \A d \in DOMAIN h : /\ h2[d] \in CellType /\ h2[d].obj_id = h[d].obj_id /\ h2[d].orig_type = h[d].orig_type
                         /\ h2[d].next = h[d].next /\ h2[d].prev = IF d = c THEN v ELSE h[d].prev
NextChanged(h, h2, c, v) ==
  /\ DOMAIN h2 = DOMAIN h
  /\ \A d \in DOMAIN h : /\ h2[d] \in CellType /\ h2[d].obj_id = h[d].obj_id /\ h2[d].orig_type = h[d].orig_type
                         /\ h2[d].prev = h[d].prev /\ h2[d].next = IF d = c THEN v ELSE h[d].next

\* The assignment of a prev pointer.
LEMMA PrevSet ==
  ASSUME NEW h, NEW c \in DOMAIN h, \A d \in DOMAIN h : h[d] \in CellType, NEW v \in Cell \cup {NULL},
         NEW h2, h2 = [h EXCEPT ![c].prev = v]
  PROVE  PrevChanged(h, h2, c, v)
<1> USE DEF PrevChanged
<1>1. DOMAIN h2 = DOMAIN h /\ \A d \in DOMAIN h : h2[d] = IF d = c THEN [h[c] EXCEPT !.prev = v] ELSE h[d]
  OBVIOUS
<1>2. LET w == [h[c] EXCEPT !.prev = v]
      IN  w \in CellType /\ w.obj_id = h[c].obj_id /\ w.orig_type = h[c].orig_type /\ w.next = h[c].next /\ w.prev = v
  BY DEF CellType
<1> QED BY <1>1, <1>2

\* The assignment of a next pointer.
LEMMA NextSet ==
  ASSUME NEW h, NEW c \in DOMAIN h, \A d \in DOMAIN h : h[d] \in CellType, NEW v \in Cell \cup {NULL},
         NEW h2, h2 = [h EXCEPT ![c].next = v]
  PROVE  NextChanged(h, h2, c, v)
<1> USE DEF NextChanged
<1>1. DOMAIN h2 = DOMAIN h /\ \A d \in DOMAIN h : h2[d] = IF d = c THEN [h[c] EXCEPT !.next = v] ELSE h[d]
  OBVIOUS
<1>2. LET w == [h[c] EXCEPT !.next = v]
      IN  w \in CellType /\ w.obj_id = h[c].obj_id /\ w.orig_type = h[c].orig_type /\ w.prev = h[c].prev /\ w.next = v
  BY DEF CellType
<1> QED BY <1>1, <1>2

\* Both, when there may be no neighbour.
LEMMA RelinkFacts ==
  ASSUME NEW h, NEW c \in (DOMAIN h) \cup {NULL}, NULL \notin DOMAIN h, \A d \in DOMAIN h : h[d] \in CellType, NEW v \in Cell \cup {NULL}
  PROVE  NextChanged(h, Relink(h, c, "next", v), c, v) /\ PrevChanged(h, Relink(h, c, "prev", v), c, v)
<1>1. CASE c = NULL
  <2>1. \A d \in DOMAIN h : d # c
    BY <1>1
  <2> QED BY <1>1, <2>1 DEF Relink, NextChanged, PrevChanged
<1>2. CASE c # NULL
  <2>1. c \in DOMAIN h
    BY <1>2
  <2>2. Relink(h, c, "next", v) = [h EXCEPT ![c].next = v] /\ Relink(h, c, "prev", v) = [h EXCEPT ![c].prev = v]
    BY <1>2 DEF Relink
  <2> DEFINE n == [h EXCEPT ![c].next = v]
             p == [h EXCEPT ![c].prev = v]
  <2>5. n = [h EXCEPT ![c].next = v]
    OBVIOUS
  <2>6. p = [h EXCEPT ![c].prev = v]
    OBVIOUS
  <2> HIDE DEF n, p
  <2>3. NextChanged(h, n, c, v)
    BY <2>1, <2>5, NextSet, Zenon
  <2>4. PrevChanged(h, p, c, v)
    BY <2>1, <2>6, PrevSet, Zenon
  <2> QED BY <2>2, <2>3, <2>4, <2>5, <2>6
<1> QED BY <1>1, <1>2

\* What the walk knows of the list l that is told of the end of x.
LEMMA NotifyContext ==
  ASSUME NEW ch, Consistent(ch), NEW l, NEW x, NEW step, Notified(todo, l, x, step), l \in DOMAIN lists
  PROVE  /\ ch \in [List -> Seq(Cell)] /\ l \in List /\ x \in Var /\ step \in Cell \cup {NULL}
         /\ ch[l] \in Seq(Cell) /\ Once(ch[l]) /\ IsChain(heap, ch[l], lists[l]) /\ Len(ch[l]) \in Nat
         /\ lists[l] \in Records /\ (\A c \in DOMAIN heap : heap[c] \in CellType) /\ DOMAIN heap \subseteq Cell
         /\ step # NULL => Passed(heap, ch[l], step, x)
         /\ Stepped(todo, todo, step)
<1>1. Holds(ch, heap, lists, vars, todo, loops, unseen)
  BY Zenon DEF Consistent
<1>2. Nesting(todo) /\ UnderWay(ch, heap, lists, todo) /\ ch \in [List -> Seq(Cell)]
  BY <1>1 DEF Holds
<1>3. /\ l \in List /\ x \in Var /\ step \in Cell \cup {NULL}
      /\ step # NULL => l \in DOMAIN lists /\ Passed(heap, ch[l], step, x)
  BY <1>2, NotifyFrames
<1>4. Once(ch[l]) /\ IsChain(heap, ch[l], lists[l])
  BY <1>1, <1>3 DEF Holds, Chained
<1>5. ch[l] \in Seq(Cell) /\ Len(ch[l]) \in Nat
  BY <1>2, <1>3, LenProperties
<1>6. Stepped(todo, todo, step)
  BY <1>2, NotifyFrames
<1>7. lists[l] \in Records /\ (\A c \in DOMAIN heap : heap[c] \in CellType) /\ DOMAIN heap \subseteq Cell
  BY <1>1 DEF Holds, Typed
<1> QED BY <1>2, <1>3, <1>4, <1>5, <1>6, <1>7

\* How a cell leaves a list that is told of the end of x.
Forgets(ch, ch2, l, x) ==
  /\ SameRest(heap, heap', lists, lists')
  /\ \E p \in 1 .. Len(ch[l]) : heap[ch[l][p]].obj_id = x /\ ch2 = [ch EXCEPT ![l] = RemoveAt(ch[l], p)]

\* The first cell of the list is the variable's and is freed.
LEMMA HeadForgotten ==
  ASSUME NEW ch, Consistent(ch), fault = "none", todo # <<>>, todo[1].op = "notify", Has(lists, todo[1].list), NotifyHead
  PROVE  \E ch2 \in [List -> Seq(Cell)] : Consistent(ch2)' /\ Forgets(ch, ch2, todo[1].list, todo[1].var)
<1>1. PICK l : l = todo[1].list
  OBVIOUS
<1>2. PICK x : x = todo[1].var
  OBVIOUS
<1>3. PICK step : step = todo[1].step
  OBVIOUS
<1>4. PICK list : list = lists[l]
  OBVIOUS
<1>5. PICK tmp : tmp = list.first
  OBVIOUS
<1>6. PICK next : next = heap[tmp].next
  OBVIOUS
<1>7. PICK last : last = IF next = NULL THEN NULL ELSE Relast(list, tmp)
  OBVIOUS
<1>8. PICK list2 : list2 = [list EXCEPT !.first = next, !.last = last, !.nelem = @ - 1]
  OBVIOUS
<1>9. /\ tmp # NULL /\ heap[tmp].obj_id = x
      /\ lists' = [lists EXCEPT ![l] = list2] /\ unseen' = [unseen EXCEPT ![l] = @ \ {tmp}]
      /\ heap' = IF next = NULL THEN Without(heap, tmp) ELSE [Without(heap, tmp) EXCEPT ![next].prev = NULL]
      /\ UNCHANGED <<todo, vars, loops, fault>>
      /\ l \in DOMAIN lists
  BY <1>1, <1>2, <1>4, <1>5, <1>6, <1>7, <1>8, Zenon DEF NotifyHead, FreeCell, Has
<1> DEFINE s == ch[l]
           n == Len(s)
<1>10. /\ ch \in [List -> Seq(Cell)] /\ l \in List /\ x \in Var /\ step \in Cell \cup {NULL}
       /\ s \in Seq(Cell) /\ Once(s) /\ IsChain(heap, s, list) /\ n \in Nat
       /\ list \in Records /\ (\A c \in DOMAIN heap : heap[c] \in CellType) /\ DOMAIN heap \subseteq Cell
       /\ step # NULL => Passed(heap, s, step, x)
       /\ Stepped(todo, todo, step) /\ Notified(todo, l, x, step)
  <2>1. Notified(todo, l, x, step) /\ l \in DOMAIN lists
    BY <1>1, <1>2, <1>3, <1>9 DEF Notified
  <2> QED BY <1>4, <2>1, NotifyContext
<1> HIDE DEF s, n
<1>11. 1 \in 1 .. n /\ tmp = s[1] /\ next = At(s, 2) /\ list.last = At(s, n) /\ list.nelem = n /\ tmp \in DOMAIN heap
  <2>1. tmp = At(s, 1)
    BY <1>5, <1>10 DEF IsChain
  <2>2. 1 \in 1 .. n /\ tmp = s[1]
    BY <1>9, <2>1 DEF At, n
  <2> QED BY <1>6, <1>10, <2>2 DEF IsChain, Leads, n
<1>12. /\ (next = NULL <=> n = 1) /\ (n # 1 => next = s[2] /\ 2 \in 1 .. n) /\ list.last = s[n]
  <2>1. 2 \in 1 .. n <=> n # 1
    <3>1. n \in Nat /\ 1 \in 1 .. n
      BY <1>10, <1>11
    <3> QED BY <3>1
  <2>2. n # 1 => next = s[2] /\ s[2] \in Cell
    BY <1>10, <1>11, <2>1, ElementOfSeq DEF At, n
  <2>3. n = 1 => next = NULL
    BY <1>10, <1>11, <2>1 DEF At, n
  <2>4. list.last = s[n]
    BY <1>10, <1>11 DEF At, n
  <2> QED BY <2>1, <2>2, <2>3, <2>4, NullIsNoCell
<1>13. /\ list2 \in Records /\ list2.first = next /\ list2.last = last /\ list2.nelem = n - 1
       /\ list2.state = list.state /\ list2.current_item = list.current_item /\ list2.ref_count = list.ref_count
       /\ last = IF 1 = n THEN At(s, 0) ELSE list.last
  <2>1. last = IF 1 = n THEN NULL ELSE list.last
    <3>1. n # 1 => tmp # list.last
      BY <1>10, <1>11, <1>12 DEF Once, n
    <3> QED BY <1>7, <1>12, <3>1 DEF Relast
  <2>2. At(s, 0) = NULL
    BY DEF At
  <2>3. next \in Cell \cup {NULL} /\ last \in Cell \cup {NULL} /\ n - 1 \in Nat
    <3>1. next \in Cell \cup {NULL}
      BY <1>6, <1>10, <1>11 DEF CellType
    <3>2. list.last \in Cell \cup {NULL}
      BY <1>10 DEF Records
    <3> QED BY <1>10, <1>11, <2>1, <3>1, <3>2
  <2> QED BY <1>8, <1>10, <1>11, <2>1, <2>2, <2>3 DEF Records
<1>14. step = NULL
  BY <1>9, <1>10, <1>11 DEF Passed
<1> DEFINE h2 == heap'
<1>15. CutOut(heap, h2, s, 1) /\ \A c \in DOMAIN h2 : h2[c] \in CellType
  <2> DEFINE w == Without(heap, tmp)
  <2>1. DOMAIN w = DOMAIN heap \ {tmp} /\ \A d \in DOMAIN w : w[d] = heap[d] /\ w[d] \in CellType
    <3> QED BY <1>10 DEF Without
  <2>2. h2 = IF next = NULL THEN w ELSE [w EXCEPT ![next].prev = NULL]
    BY <1>9
  <2> HIDE DEF w, h2
  <2>3. /\ At(s, 1 - 1) = NULL /\ At(s, 1 + 1) = next
    BY <1>11 DEF At
  <2>4. \A c \in DOMAIN heap : c # NULL
    BY <1>10, NullIsNoCell
  <2>5. CASE next = NULL
    BY <1>11, <2>1, <2>2, <2>3, <2>4, <2>5 DEF CutOut
  <2>6. CASE next # NULL
    <3>1. next \in DOMAIN w
      <4>1. next = s[2] /\ s[2] # s[1] /\ s[2] \in DOMAIN heap
        <5>1. n # 1 /\ next = s[2] /\ 2 \in 1 .. n /\ 1 \in 1 .. n
          BY <1>11, <1>12, <2>6
        <5>2. Once(s) /\ Leads(heap, s)
          BY <1>10 DEF IsChain
        <5> QED BY <5>1, <5>2 DEF Once, Leads, n
      <4> QED BY <1>11, <2>1, <4>1
    <3>2. /\ DOMAIN h2 = DOMAIN w
          /\ \A d \in DOMAIN w : /\ h2[d] \in CellType /\ h2[d].obj_id = w[d].obj_id
                                 /\ h2[d].next = w[d].next /\ h2[d].prev = IF d = next THEN NULL ELSE w[d].prev
      <4>1. h2 = [w EXCEPT ![next].prev = NULL] /\ NULL \in Cell \cup {NULL}
        BY <2>2, <2>6
      <4>2. \A d \in DOMAIN w : w[d] \in CellType
        BY <2>1
      <4>3. PrevChanged(w, h2, next, NULL)
        BY <3>1, <4>1, <4>2, PrevSet, Zenon
      <4> QED BY <4>3 DEF PrevChanged
    <3> QED BY <1>11, <2>1, <2>3, <2>4, <3>2 DEF CutOut
  <2> QED BY <2>5, <2>6
<1> DEFINE ls2 == lists'
           un2 == unseen'
           td2 == todo'
<1>16. ls2 = [lists EXCEPT ![l] = list2] /\ un2 = [unseen EXCEPT ![l] = @ \ {tmp}] /\ td2 = todo
  BY <1>9
<1> HIDE DEF h2, ls2, un2, td2
<1>17. PICK ch2 : ch2 = [ch EXCEPT ![l] = RemoveAt(ch[l], 1)]
  OBVIOUS
<1>18. CellFreed(ch, ch2, heap, h2, lists, ls2, unseen, un2, l, 1)
  <2>1. ls2[l] = list2
    BY <1>9, <1>16
  <2>2. Shortened(s, 1, lists[l], list2)
    BY <1>4, <1>11, <1>13 DEF Shortened, n
  <2>3. ls2 = [lists EXCEPT ![l] = ls2[l]]
    BY <1>16, <2>1
  <2> QED BY <1>4, <1>11, <1>13, <1>15, <1>16, <1>17, <2>1, <2>2, <2>3 DEF CellFreed, s
<1>19. ch2 \in [List -> Seq(Cell)] /\ Holds(ch2, h2, ls2, vars, td2, loops, un2)
  <2>1. Holds(ch, heap, lists, vars, todo, loops, unseen)
    BY DEF Consistent
  <2>2. 1 \in 1 .. Len(ch[l]) /\ heap[ch[l][1]].obj_id = x
    BY <1>9, <1>11 DEF s, n
  <2>3. Behind(heap, ch[l], 1, step, x)
    BY <1>14 DEF Behind
  <2>4. Stepped(todo, td2, step) /\ Notified(todo, l, x, step) /\ l \in DOMAIN lists /\ step \in Cell \cup {NULL}
    BY <1>9, <1>10, <1>16
  <2>5. ch2 \in [List -> Seq(Cell)]
    BY <1>18, <2>1, <2>2, <2>3, <2>4, FreeHolds
  <2>6. Holds(ch2, h2, ls2, vars, td2, loops, un2)
    BY <1>18, <2>1, <2>2, <2>3, <2>4, FreeHolds, Zenon
  <2> QED BY <2>5, <2>6
<1>20. Consistent(ch2)'
  BY <1>9, <1>19 DEF Consistent, h2, ls2, un2, td2
<1>21. Forgets(ch, ch2, todo[1].list, todo[1].var)
  <2>1. SameIds(heap, heap')
    BY <1>15 DEF CutOut, SameIds, h2
  <2>2. list2.list_type = list.list_type
    BY <1>8, <1>10 DEF Records
  <2>3. SameTypes(lists, lists')
    BY <1>4, <1>9, <2>2, TypeStays
  <2> QED BY <1>1, <1>2, <1>9, <1>11, <1>17, <2>1, <2>3, Zenon DEF Forgets, SameRest, s, n
<1> QED BY <1>19, <1>20, <1>21

\* Where the walk that is told of the end of x goes on from.
WalksFrom(l, x, old, first, step) ==
  /\ lists[l].first = first /\ first # NULL /\ heap[first].obj_id # x
  /\ step = IF old = NULL THEN first ELSE old

\* The walk is at place p of the chain s, up to which there is nothing of x.
Stands(s, p, step, x) ==
  /\ s[p] = step /\ step \in Cell /\ (\A q \in 1 .. p : heap[s[q]].obj_id # x)
  /\ heap[step].next = At(s, p + 1)

\* The walk stands at a cell of the list, up to which nothing is the variable's.
LEMMA WalkPlace ==
  ASSUME NEW ch, Consistent(ch), NEW l, NEW x, NEW old, Notified(todo, l, x, old), l \in DOMAIN lists,
         NEW first, NEW step, WalksFrom(l, x, old, first, step)
  PROVE  \E p \in 1 .. Len(ch[l]) : Stands(ch[l], p, step, x)
<1> USE DEF WalksFrom
<1> DEFINE s == ch[l]
<1>1. /\ s \in Seq(Cell) /\ IsChain(heap, s, lists[l]) /\ Len(s) \in Nat
      /\ old # NULL => Passed(heap, s, old, x)
  BY NotifyContext
<1> HIDE DEF s
<1>2. \E p \in 1 .. Len(s) : s[p] = step /\ \A q \in 1 .. p : heap[s[q]].obj_id # x
  <2>1. CASE old = NULL
    <3>1. first = At(s, 1)
      BY <1>1 DEF IsChain
    <3>2. 1 \in 1 .. Len(s) /\ s[1] = step
      BY <2>1, <3>1 DEF At
    <3>3. \A q \in 1 .. 1 : heap[s[q]].obj_id # x
      BY <2>1, <3>2
    <3> QED BY <3>2, <3>3
  <2>2. CASE old # NULL
    BY <1>1, <2>2 DEF Passed
  <2> QED BY <2>1, <2>2
<1>3. PICK p \in 1 .. Len(s) : s[p] = step /\ \A q \in 1 .. p : heap[s[q]].obj_id # x
  BY <1>2
<1>4. heap[step].next = At(s, p + 1) /\ step \in Cell
  BY <1>1, <1>3, ElementOfSeq DEF IsChain, Leads
<1> QED BY <1>3, <1>4 DEF s, Stands

\* The pointers of a step of the walk.
Stepping(l, x, first, step, tmp) ==
  /\ l = todo[1].list /\ x = todo[1].var
  /\ first = lists[l].first /\ step = IF todo[1].step = NULL THEN first ELSE todo[1].step
  /\ tmp = heap[step].next

\* The cell after the one the walk stands at is the variable's and is freed.
LEMMA NextForgotten ==
  ASSUME NEW ch, Consistent(ch), fault = "none", todo # <<>>, todo[1].op = "notify", Has(lists, todo[1].list), NotifyStep,
         NEW l, NEW x, NEW first, NEW step, NEW tmp, Stepping(l, x, first, step, tmp), heap[tmp].obj_id = x
  PROVE  \E ch2 \in [List -> Seq(Cell)] : Consistent(ch2)' /\ Forgets(ch, ch2, l, x)
<1>1. l = todo[1].list /\ x = todo[1].var /\ first = lists[l].first /\ tmp = heap[step].next
  BY DEF Stepping
<1>2. step = IF todo[1].step = NULL THEN first ELSE todo[1].step
  BY DEF Stepping
<1>3. PICK old : old = todo[1].step
  OBVIOUS
<1>0. Notified(todo, l, x, old)
  BY <1>1, <1>3 DEF Notified
<1>4. PICK list : list = lists[l]
  OBVIOUS
<1>6. PICK next : next = heap[tmp].next
  OBVIOUS
<1>8. PICK list2 : list2 = [list EXCEPT !.last = Relast(list, tmp), !.nelem = @ - 1]
  OBVIOUS
<1>9. /\ first # NULL /\ heap[first].obj_id # x /\ tmp # NULL
      /\ lists' = [lists EXCEPT ![l] = list2] /\ unseen' = [unseen EXCEPT ![l] = @ \ {tmp}]
      /\ heap' = LET cut == [Without(heap, tmp) EXCEPT ![step].next = next]
                 IN  IF next = NULL THEN cut ELSE [cut EXCEPT ![next].prev = step]
      /\ todo' = [todo EXCEPT ![1].step = step]
      /\ UNCHANGED <<vars, loops, fault>>
      /\ l \in DOMAIN lists
  BY <1>1, <1>2, <1>3, <1>4, <1>6, <1>8, Zenon DEF NotifyStep, FreeCell, Has
<1> DEFINE s == ch[l]
           n == Len(s)
<1>10. /\ ch \in [List -> Seq(Cell)] /\ l \in List /\ x \in Var
       /\ s \in Seq(Cell) /\ Once(s) /\ IsChain(heap, s, list) /\ n \in Nat
       /\ list \in Records /\ (\A c \in DOMAIN heap : heap[c] \in CellType) /\ DOMAIN heap \subseteq Cell
  <2> QED BY <1>4, <1>9, <1>0, NotifyContext
<1>11. PICK m \in 1 .. n :
         s[m] = step /\ step \in Cell /\ (\A q \in 1 .. m : heap[s[q]].obj_id # x) /\ heap[step].next = At(s, m + 1)
  <2>1. WalksFrom(l, x, old, first, step)
    BY <1>1, <1>2, <1>3, <1>9, Zenon DEF WalksFrom
  <2>2. \E m \in 1 .. Len(ch[l]) : Stands(ch[l], m, step, x)
    BY <1>0, <1>9, <2>1, WalkPlace, Zenon
  <2> QED BY <2>2 DEF Stands
<1>12. PICK p : p = m + 1
  OBVIOUS
<1> HIDE DEF s, n
<1>13. /\ p \in 1 .. n /\ p # 1 /\ p - 1 = m /\ m \in 1 .. p - 1 /\ tmp = s[p] /\ tmp \in DOMAIN heap
       /\ next = At(s, p + 1) /\ list.last = At(s, n) /\ list.nelem = n /\ heap[tmp].prev = At(s, p - 1)
       /\ next \in Cell \cup {NULL} /\ step \in DOMAIN heap
  <2>1. tmp = At(s, p)
    BY <1>1, <1>11, <1>12
  <2>2. p \in 1 .. n /\ tmp = s[p]
    BY <1>9, <2>1 DEF At, n
  <2>3. p # 1 /\ p - 1 = m /\ m \in 1 .. p - 1
    BY <1>10, <1>11, <1>12
  <2>4. tmp \in DOMAIN heap /\ next = At(s, p + 1) /\ list.last = At(s, n) /\ list.nelem = n /\ heap[tmp].prev = At(s, p - 1)
    BY <1>6, <1>10, <2>2 DEF IsChain, Leads, n
  <2>5. next \in Cell \cup {NULL}
    BY <1>6, <1>10, <2>4 DEF CellType
  <2>6. step \in DOMAIN heap
    BY <1>10, <1>11 DEF IsChain, Leads, n
  <2> QED BY <2>2, <2>3, <2>4, <2>5, <2>6
<1>14. /\ list2 \in Records /\ list2.first = list.first /\ list2.nelem = n - 1
       /\ list2.state = list.state /\ list2.current_item = list.current_item /\ list2.ref_count = list.ref_count
       /\ list2.last = IF p = n THEN At(s, p - 1) ELSE list.last
  <2>1. Relast(list, tmp) = IF p = n THEN At(s, p - 1) ELSE list.last
    <3>1. n \in 1 .. n /\ list.last = s[n]
      BY <1>10, <1>13 DEF At, n
    <3>2. tmp = list.last <=> p = n
      BY <1>10, <1>13, <3>1 DEF Once, n
    <3> QED BY <1>13, <3>2 DEF Relast
  <2>2. Relast(list, tmp) \in Cell \cup {NULL} /\ n - 1 \in Nat
    <3>1. At(s, p - 1) \in Cell \cup {NULL}
      BY <1>10, <1>13 DEF CellType
    <3>2. list.last \in Cell \cup {NULL}
      BY <1>10 DEF Records
    <3> QED BY <1>10, <1>13, <2>1, <3>1, <3>2
  <2> QED BY <1>8, <1>10, <1>13, <2>1, <2>2 DEF Records
<1> DEFINE h2 == heap'
<1>15. CutOut(heap, h2, s, p) /\ \A c \in DOMAIN h2 : h2[c] \in CellType
  <2> DEFINE w == Without(heap, tmp)
             cut == [w EXCEPT ![step].next = next]
  <2>1. DOMAIN w = DOMAIN heap \ {tmp} /\ \A d \in DOMAIN w : w[d] = heap[d] /\ w[d] \in CellType
    <3> QED BY <1>10 DEF Without
  <2>2. h2 = IF next = NULL THEN cut ELSE [cut EXCEPT ![next].prev = step]
    BY <1>9
  <2>3. step \in DOMAIN w /\ At(s, p - 1) = step
    <3>1. step = s[p - 1] /\ p - 1 \in 1 .. n
      BY <1>11, <1>13
    <3>2. s[p - 1] # s[p]
      BY <1>10, <1>13, <3>1 DEF Once, n
    <3>3. step \in DOMAIN w
      BY <1>13, <2>1, <3>1, <3>2
    <3> QED BY <3>1, <3>3 DEF At, n
  <2> HIDE DEF w
  <2>4. /\ DOMAIN cut = DOMAIN w
        /\ \A d \in DOMAIN w : /\ cut[d] \in CellType /\ cut[d].obj_id = w[d].obj_id
                               /\ cut[d].prev = w[d].prev /\ cut[d].next = IF d = step THEN next ELSE w[d].next
    <3>1. step \in DOMAIN w /\ next \in Cell \cup {NULL} /\ \A d \in DOMAIN w : w[d] \in CellType
      BY <1>13, <2>1, <2>3
    <3>2. cut = [w EXCEPT ![step].next = next]
      OBVIOUS
    <3> HIDE DEF cut
    <3>3. NextChanged(w, cut, step, next)
      BY <3>1, <3>2, NextSet, Zenon
    <3> QED BY <3>3 DEF NextChanged
  <2> HIDE DEF cut, h2
  <2>5. \A c \in DOMAIN heap : c # NULL
    BY <1>10, NullIsNoCell
  <2>6. CASE next = NULL
    BY <1>13, <2>1, <2>2, <2>3, <2>4, <2>5, <2>6 DEF CutOut
  <2>7. CASE next # NULL
    <3>1. next \in DOMAIN cut
      <4>1. p + 1 \in 1 .. n /\ next = s[p + 1]
        BY <1>13, <2>7 DEF At, n
      <4>2. s[p + 1] # s[p] /\ s[p + 1] \in DOMAIN heap
        BY <1>10, <1>13, <4>1 DEF Once, IsChain, Leads, n
      <4> QED BY <1>13, <2>1, <2>4, <4>1, <4>2
    <3>2. /\ DOMAIN h2 = DOMAIN cut
          /\ \A d \in DOMAIN cut : /\ h2[d] \in CellType /\ h2[d].obj_id = cut[d].obj_id
                                   /\ h2[d].next = cut[d].next /\ h2[d].prev = IF d = next THEN step ELSE cut[d].prev
      <4>1. h2 = [cut EXCEPT ![next].prev = step] /\ step \in Cell \cup {NULL}
        BY <1>11, <2>2, <2>7
      <4>2. \A d \in DOMAIN cut : cut[d] \in CellType
        BY <2>4
      <4>3. step \in Cell \cup {NULL} /\ h2 = [cut EXCEPT ![next].prev = step]
        BY <4>1
      <4>4. PrevChanged(cut, h2, next, step)
        BY <3>1, <4>2, <4>3, PrevSet, Zenon
      <4> QED BY <4>4 DEF PrevChanged
    <3> QED BY <1>13, <2>1, <2>3, <2>4, <3>2 DEF CutOut
  <2> QED BY <2>6, <2>7
<1> DEFINE ls2 == lists'
           un2 == unseen'
           td2 == todo'
<1>16. ls2 = [lists EXCEPT ![l] = list2] /\ un2 = [unseen EXCEPT ![l] = @ \ {tmp}] /\ td2 = [todo EXCEPT ![1].step = step]
  BY <1>9
<1> HIDE DEF h2, ls2, un2, td2
<1>17. PICK ch2 : ch2 = [ch EXCEPT ![l] = RemoveAt(ch[l], p)]
  OBVIOUS
<1>18. CellFreed(ch, ch2, heap, h2, lists, ls2, unseen, un2, l, p)
  <2>1. ls2[l] = list2
    BY <1>9, <1>16
  <2>2. Shortened(s, p, lists[l], list2)
    BY <1>4, <1>13, <1>14 DEF Shortened, n
  <2>3. ls2 = [lists EXCEPT ![l] = ls2[l]]
    BY <1>16, <2>1
  <2> QED BY <1>4, <1>13, <1>14, <1>15, <1>16, <1>17, <2>1, <2>2, <2>3 DEF CellFreed, s
<1>19. ch2 \in [List -> Seq(Cell)] /\ Holds(ch2, h2, ls2, vars, td2, loops, un2)
  <2>1. Holds(ch, heap, lists, vars, todo, loops, unseen)
    BY DEF Consistent
  <2>2. p \in 1 .. Len(ch[l]) /\ heap[ch[l][p]].obj_id = x
    BY <1>13 DEF s, n
  <2>3. Behind(heap, ch[l], p, step, x)
    BY <1>11, <1>13 DEF Behind, s
  <2>4. Stepped(todo, td2, step) /\ Notified(todo, l, x, old) /\ l \in DOMAIN lists /\ step \in Cell \cup {NULL}
    BY <1>0, <1>9, <1>11, <1>16 DEF Stepped
  <2>5. ch2 \in [List -> Seq(Cell)]
    <3>1. RemoveAt(s, p) \in Seq(Cell)
      BY <1>10, <1>13, RemoveAtFacts DEF n
    <3> QED BY <1>10, <1>17, <3>1 DEF s
  <2>6. Holds(ch2, h2, ls2, vars, td2, loops, un2)
    BY <1>18, <2>1, <2>2, <2>3, <2>4, FreeHolds, Zenon
  <2> QED BY <2>5, <2>6
<1>20. Consistent(ch2)'
  BY <1>9, <1>19 DEF Consistent, h2, ls2, un2, td2
<1>21. Forgets(ch, ch2, l, x)
  <2>1. SameIds(heap, heap')
    BY <1>15 DEF CutOut, SameIds, h2
  <2>2. list2.list_type = list.list_type
    BY <1>8, <1>10 DEF Records
  <2>3. SameTypes(lists, lists')
    BY <1>4, <1>9, <2>2, TypeStays
  <2> QED BY <1>13, <1>17, <2>1, <2>3 DEF Forgets, SameRest, s, n
<1> QED BY <1>19, <1>20, <1>21

\* Only the place of the walk changes, or the walk is over.
LEMMA MoveHolds ==
  ASSUME NEW ch, NEW h, NEW ls, NEW vs, NEW td, NEW lps, NEW un, Holds(ch, h, ls, vs, td, lps, un),
         NEW l, NEW x, NEW old, Notified(td, l, x, old), l \in DOMAIN ls,
         NEW r \in Cell, Passed(h, ch[l], r, x), NEW td2, Stepped(td, td2, r)
  PROVE  Holds(ch, h, ls, vs, td2, lps, un)
<1>1. Nesting(td) /\ UnderWay(ch, h, ls, td) /\ r \in Cell \cup {NULL}
  BY DEF Holds
<1>2. /\ Nesting(td2) /\ Dead(td2) = Dead(td) /\ Told(td2) = Told(td) /\ Unmade(td2) = Unmade(td)
  BY <1>1, NotifyFrames
<1>3. UnderWay(ch, h, ls, td2)
  BY <1>1, NotifyMoves
<1> QED BY <1>2, <1>3 DEF Holds

\* The walk ends when no cell of the list is the variable's.
LEMMA EndHolds ==
  ASSUME NEW ch, NEW h, NEW ls, NEW vs, NEW td, NEW lps, NEW un, Holds(ch, h, ls, vs, td, lps, un),
         NEW l, NEW x, NEW old, Notified(td, l, x, old), \A k \in 1 .. Len(ch[l]) : h[ch[l][k]].obj_id # x
  PROVE  Holds(ch, h, ls, vs, Tail(td), lps, un)
<1>1. Nesting(td) /\ UnderWay(ch, h, ls, td)
  BY DEF Holds
<1>3. /\ l \in List
      /\ Dead(td) = {x} /\ Told(td) = {l}
      /\ Nesting(Tail(td)) /\ Dead(Tail(td)) = {x} /\ Told(Tail(td)) = {} /\ Unmade(Tail(td)) = Unmade(td)
      /\ UnderWay(ch, h, ls, Tail(td))
  BY <1>1, NotifyFrames
<1>4. Attached(h, vs, Own(ch), {x}, {})
  <2>1. Attached(h, vs, Own(ch), Dead(td), Told(td))
    BY HoldsAttached
  <2>2. ch[l] \in Seq(Cell)
    BY <1>3 DEF Holds
  <2>3. \A d \in Own(ch)[l] : h[d].obj_id # x
    BY <1>3, <2>2, SetOfSeq DEF Own
  <2>4. Attached(h, vs, Own(ch), {x}, {l})
    BY <1>3, <2>1
  <2> QED BY <1>3, <2>3, <2>4, Over
<1>5. Attached(h, vs, Own(ch), Dead(Tail(td)), Told(Tail(td)))
  BY <1>3, <1>4
<1> QED BY <1>3, <1>5 DEF Holds, Attached

\* The cell after the one the walk stands at is another variable's, and the walk goes on.
LEMMA CellStays ==
  ASSUME NEW ch, Consistent(ch), fault = "none", todo # <<>>, todo[1].op = "notify", Has(lists, todo[1].list), NotifyStep,
         NEW l, NEW x, NEW first, NEW step, NEW tmp, Stepping(l, x, first, step, tmp), heap[tmp].obj_id # x
  PROVE  ch \in [List -> Seq(Cell)] /\ Consistent(ch)' /\ UNCHANGED <<heap, lists>>
<1>a. l = todo[1].list /\ x = todo[1].var /\ first = lists[l].first /\ tmp = heap[step].next
  BY DEF Stepping
<1>b. step = IF todo[1].step = NULL THEN first ELSE todo[1].step
  BY DEF Stepping
<1>1. PICK old : todo[1].step = old
  OBVIOUS
<1>2. /\ first # NULL /\ heap[first].obj_id # x /\ tmp # NULL
      /\ todo' = [todo EXCEPT ![1].step = tmp]
      /\ UNCHANGED <<heap, lists, vars, loops, unseen, fault>>
      /\ l \in DOMAIN lists
  BY <1>a, <1>b, Zenon DEF NotifyStep, Has, Beyond
<1>0. Notified(todo, l, x, old)
  BY <1>a, <1>1 DEF Notified
<1>3. PICK p \in 1 .. Len(ch[l]) :
        ch[l][p] = step /\ step \in Cell /\ (\A q \in 1 .. p : heap[ch[l][q]].obj_id # x) /\ heap[step].next = At(ch[l], p + 1)
  <2>1. WalksFrom(l, x, old, first, step)
    BY <1>a, <1>b, <1>1, <1>2 DEF WalksFrom
  <2>2. \E p \in 1 .. Len(ch[l]) : Stands(ch[l], p, step, x)
    BY <1>0, <1>2, <2>1, WalkPlace, Zenon
  <2> QED BY <2>2 DEF Stands
<1>4. ch \in [List -> Seq(Cell)] /\ l \in List /\ ch[l] \in Seq(Cell) /\ Len(ch[l]) \in Nat
  BY <1>0, <1>2, NotifyContext
<1>5. p + 1 \in 1 .. Len(ch[l]) /\ ch[l][p + 1] = tmp
  BY <1>a, <1>2, <1>3 DEF At
<1>6. tmp \in Cell /\ Passed(heap, ch[l], tmp, x)
  <2>1. \A q \in 1 .. p + 1 : q = p + 1 \/ q \in 1 .. p
    BY <1>3
  <2>2. \A q \in 1 .. p + 1 : heap[ch[l][q]].obj_id # x
    BY <1>3, <1>5, <2>1
  <2> QED BY <1>4, <1>5, <2>2, ElementOfSeq DEF Passed
<1> DEFINE td2 == todo'
<1>7. td2 = [todo EXCEPT ![1].step = tmp]
  BY <1>2
<1> HIDE DEF td2
<1>8. Holds(ch, heap, lists, vars, td2, loops, unseen)
  <2>1. Holds(ch, heap, lists, vars, todo, loops, unseen)
    BY DEF Consistent
  <2>2. Stepped(todo, td2, tmp) /\ l \in DOMAIN lists /\ tmp \in Cell /\ Passed(heap, ch[l], tmp, x)
    BY <1>2, <1>6, <1>7 DEF Stepped
  <2> QED BY <1>0, <2>1, <2>2, MoveHolds, Zenon
<1> QED BY <1>2, <1>4, <1>8 DEF Consistent, td2

\* The last cell has been reached.
LEMMA WalkEnds ==
  ASSUME NEW ch, Consistent(ch), fault = "none", todo # <<>>, todo[1].op = "notify", Has(lists, todo[1].list), NotifyEnd
  PROVE  ch \in [List -> Seq(Cell)] /\ Consistent(ch)' /\ UNCHANGED <<heap, lists>>
<1>1. PICK l : l = todo[1].list
  OBVIOUS
<1>2. PICK x : x = todo[1].var
  OBVIOUS
<1>3. PICK old : old = todo[1].step
  OBVIOUS
<1>4. PICK first : first = lists[l].first
  OBVIOUS
<1>5. PICK step : step = IF old = NULL THEN first ELSE old
  OBVIOUS
<1>6. /\ first # NULL => heap[first].obj_id # x /\ heap[step].next = NULL
      /\ todo' = Tail(todo)
      /\ UNCHANGED <<heap, lists, vars, loops, unseen, fault>>
      /\ l \in DOMAIN lists
  BY <1>1, <1>2, <1>3, <1>4, <1>5 DEF NotifyEnd, Has
<1>7. todo[1].list = l /\ todo[1].var = x /\ todo[1].step = old /\ lists[l].first = first
  BY <1>1, <1>2, <1>3, <1>4
<1>0. Notified(todo, l, x, old)
  BY <1>7 DEF Notified
<1>8. /\ ch \in [List -> Seq(Cell)] /\ l \in List
      /\ ch[l] \in Seq(Cell) /\ IsChain(heap, ch[l], lists[l]) /\ Len(ch[l]) \in Nat
  BY <1>0, <1>6, NotifyContext
<1>9. \A k \in 1 .. Len(ch[l]) : heap[ch[l][k]].obj_id # x
  <2>1. CASE first = NULL
    <3>1. At(ch[l], 1) = NULL
      BY <1>7, <1>8, <2>1 DEF IsChain
    <3>2. 1 \in 1 .. Len(ch[l]) => ch[l][1] \in Cell
      BY <1>8, ElementOfSeq
    <3>3. ~(1 \in 1 .. Len(ch[l]))
      BY <3>1, <3>2, NullIsNoCell DEF At
    <3> QED BY <1>8, <3>3
  <2>2. CASE first # NULL
    <3>1. PICK p \in 1 .. Len(ch[l]) :
            ch[l][p] = step /\ step \in Cell /\ (\A q \in 1 .. p : heap[ch[l][q]].obj_id # x) /\ heap[step].next = At(ch[l], p + 1)
      <4>1. WalksFrom(l, x, old, first, step)
        BY <1>5, <1>6, <1>7, <2>2 DEF WalksFrom
      <4>2. \E p \in 1 .. Len(ch[l]) : Stands(ch[l], p, step, x)
        BY <1>0, <1>6, <4>1, WalkPlace, Zenon
      <4> QED BY <4>2 DEF Stands
    <3>2. At(ch[l], p + 1) = NULL
      BY <1>6, <2>2, <3>1
    <3>3. p + 1 \in 1 .. Len(ch[l]) => ch[l][p + 1] \in Cell
      BY <1>8, ElementOfSeq
    <3>4. ~(p + 1 \in 1 .. Len(ch[l]))
      BY <3>2, <3>3, NullIsNoCell DEF At
    <3>5. p = Len(ch[l])
      BY <1>8, <3>1, <3>4
    <3> QED BY <3>1, <3>5
  <2> QED BY <2>1, <2>2
<1> DEFINE td2 == todo'
<1>10. td2 = Tail(todo)
  BY <1>6
<1> HIDE DEF td2
<1>11. Holds(ch, heap, lists, vars, td2, loops, unseen)
  <2>1. Holds(ch, heap, lists, vars, todo, loops, unseen)
    BY DEF Consistent
  <2>2. Holds(ch, heap, lists, vars, Tail(todo), loops, unseen)
    BY <1>0, <1>9, <2>1, EndHolds, Zenon
  <2> QED BY <1>10, <2>2
<1> QED BY <1>6, <1>8, <1>11 DEF Consistent, td2

\* ListItemDestroyNotify keeps the invariant, and takes at most one cell, of the dying variable, out of its list.
LEMMA NotifyKeeps ==
  ASSUME NEW ch, Consistent(ch), ItemDestroyNotify
  PROVE  \E ch2 \in [List -> Seq(Cell)] :
           /\ Consistent(ch2)'
           /\ \/ UNCHANGED <<heap, lists>> /\ ch2 = ch
              \/ todo[1].list \in DOMAIN lists /\ Forgets(ch, ch2, todo[1].list, todo[1].var)
<1>1. fault = "none" /\ todo # <<>> /\ todo[1].op = "notify"
  BY DEF ItemDestroyNotify
<1>2. CASE ~Has(lists, todo[1].list)
  <2>1. NotifyNoList
    BY <1>2 DEF ItemDestroyNotify
  <2>2. Consistent(ch)' /\ UNCHANGED <<heap, lists>> /\ ch \in [List -> Seq(Cell)]
    BY <2>1, Zenon DEF NotifyNoList, Consistent, Holds
  <2> QED BY <2>2
<1>3. CASE Has(lists, todo[1].list)
  <2>0. todo[1].list \in DOMAIN lists
    BY <1>3 DEF Has
  <2>1. CASE NotifyHead
    <3>1. \E ch2 \in [List -> Seq(Cell)] : Consistent(ch2)' /\ Forgets(ch, ch2, todo[1].list, todo[1].var)
      BY <1>1, <1>3, <2>1, HeadForgotten
    <3> QED BY <2>0, <3>1
  <2>2. CASE NotifyStep
    <3>1. PICK l : l = todo[1].list
      OBVIOUS
    <3>2. PICK x : x = todo[1].var
      OBVIOUS
    <3>3. PICK first : first = lists[l].first
      OBVIOUS
    <3>4. PICK step : step = IF todo[1].step = NULL THEN first ELSE todo[1].step
      OBVIOUS
    <3>5. PICK tmp : tmp = heap[step].next
      OBVIOUS
    <3>a. Stepping(l, x, first, step, tmp)
      BY <3>1, <3>2, <3>3, <3>4, <3>5 DEF Stepping
    <3>6. CASE heap[tmp].obj_id = x
      <4>1. \E ch2 \in [List -> Seq(Cell)] : Consistent(ch2)' /\ Forgets(ch, ch2, l, x)
        BY <1>1, <1>3, <2>2, <3>a, <3>6, NextForgotten, Zenon
      <4> QED BY <2>0, <3>1, <3>2, <4>1
    <3>7. CASE heap[tmp].obj_id # x
      <4>1. ch \in [List -> Seq(Cell)] /\ Consistent(ch)' /\ UNCHANGED <<heap, lists>>
        BY <1>1, <1>3, <2>2, <3>a, <3>7, CellStays, Zenon
      <4> QED BY <4>1
    <3> QED BY <3>6, <3>7
  <2>3. CASE NotifyEnd
    <3>1. ch \in [List -> Seq(Cell)] /\ Consistent(ch)' /\ UNCHANGED <<heap, lists>>
      BY <1>1, <1>3, <2>3, WalkEnds
    <3> QED BY <3>1
  <2> QED BY <1>3, <2>1, <2>2, <2>3 DEF ItemDestroyNotify
<1> QED BY <1>2, <1>3

-----------------------------------------------------------------------------
(* Each step keeps the invariant: the end of a variable *)

\* Calling the first callback of a dying variable, or unregistering it after the last, keeps the invariant.
LEMMA CallHolds ==
  ASSUME NEW ch, NEW h, NEW ls, NEW vs, NEW td, NEW lps, NEW un, Holds(ch, h, ls, vs, td, lps, un),
         NEW x, Destroying(td, x)
  PROVE  /\ vs[x].cblist # <<>> =>
              Holds(ch, h, ls, [vs EXCEPT ![x].cblist = Tail(@)], <<Notify(vs[x].cblist[1].list, x)>> \o td, lps, un)
         /\ vs[x].cblist = <<>> => Holds(ch, h, ls, Without(vs, x), Tail(td), lps, un)
<1>1. Nesting(td) /\ UnderWay(ch, h, ls, td)
  BY DEF Holds
<1>2. /\ Dead(td) = {x} /\ Told(td) = {}
      /\ Nesting(Tail(td)) /\ Dead(Tail(td)) = {} /\ Told(Tail(td)) = {} /\ Unmade(Tail(td)) = Unmade(td)
      /\ UnderWay(ch, h, ls, Tail(td))
  BY <1>1, DestroyFrames
<1>3. \A l \in List :
        LET up == <<Notify(l, x)>> \o td
        IN  /\ Nesting(up) /\ Dead(up) = {x} /\ Told(up) = {l} /\ Unmade(up) = Unmade(td)
            /\ UnderWay(ch, h, ls, up)
  BY <1>1, DestroyFrames
<1>4. Attached(h, vs, Own(ch), {x}, {})
  <2>1. Attached(h, vs, Own(ch), Dead(td), Told(td))
    BY HoldsAttached
  <2> QED BY <1>2, <2>1
<1>5. ASSUME vs[x].cblist # <<>>
      PROVE  Holds(ch, h, ls, [vs EXCEPT ![x].cblist = Tail(@)], <<Notify(vs[x].cblist[1].list, x)>> \o td, lps, un)
  <2> DEFINE vs2 == [vs EXCEPT ![x].cblist = Tail(@)]
             l == vs[x].cblist[1].list
             up == <<Notify(l, x)>> \o td
  <2>1. l \in List /\ Attached(h, vs2, Own(ch), {x}, {l})
    BY <1>4, <1>5, Called, Zenon
  <2> HIDE DEF l
  <2>2. Nesting(up) /\ Dead(up) = {x} /\ Told(up) = {l} /\ Unmade(up) = Unmade(td) /\ UnderWay(ch, h, ls, up)
    BY <1>3, <2>1
  <2> HIDE DEF vs2, up
  <2>3. Attached(h, vs2, Own(ch), Dead(up), Told(up))
    BY <2>1, <2>2
  <2>4. Holds(ch, h, ls, vs2, up, lps, un)
    BY <2>2, <2>3 DEF Holds, Attached, Typed
  <2> QED BY <2>4 DEF vs2, up, l
<1>6. ASSUME vs[x].cblist = <<>> PROVE Holds(ch, h, ls, Without(vs, x), Tail(td), lps, un)
  <2> DEFINE vs2 == Without(vs, x)
             off == Tail(td)
  <2>1. Attached(h, vs2, Own(ch), {}, {})
    BY <1>4, <1>6, Buried
  <2>2. Nesting(off) /\ Dead(off) = {} /\ Told(off) = {} /\ Unmade(off) = Unmade(td) /\ UnderWay(ch, h, ls, off)
    BY <1>2
  <2> HIDE DEF vs2, off
  <2>3. Holds(ch, h, ls, vs2, off, lps, un)
    BY <2>1, <2>2 DEF Holds, Attached, Typed
  <2> QED BY <2>3 DEF vs2, off
<1> QED BY <1>5, <1>6

\* _NclDestroyObj keeps the invariant.
LEMMA CallBackKeeps ==
  ASSUME NEW ch, Consistent(ch), CallBack
  PROVE  ch \in [List -> Seq(Cell)] /\ Consistent(ch)' /\ UNCHANGED <<heap, lists>>
<1>1. PICK x : todo[1].var = x
  OBVIOUS
<1>2. /\ todo # <<>> /\ todo[1].op = "destroy" /\ UNCHANGED <<heap, lists, loops, unseen, fault>>
      /\ \/ /\ vars[x].cblist # <<>> /\ todo' = <<Notify(vars[x].cblist[1].list, x)>> \o todo
            /\ vars' = [vars EXCEPT ![x].cblist = Tail(@)]
         \/ vars[x].cblist = <<>> /\ todo' = Tail(todo) /\ vars' = Without(vars, x)
  BY <1>1 DEF CallBack
<1>3. Holds(ch, heap, lists, vars, todo, loops, unseen)
  BY Zenon DEF Consistent
<1>4. /\ vars[x].cblist # <<>> =>
           Holds(ch, heap, lists, [vars EXCEPT ![x].cblist = Tail(@)], <<Notify(vars[x].cblist[1].list, x)>> \o todo, loops, unseen)
      /\ vars[x].cblist = <<>> => Holds(ch, heap, lists, Without(vars, x), Tail(todo), loops, unseen)
  <2>1. Destroying(todo, x)
    BY <1>1, <1>2 DEF Destroying
  <2> QED BY <1>3, <2>1, CallHolds
<1> DEFINE vs2 == vars'
           td2 == todo'
<1>5. Holds(ch, heap, lists, vs2, td2, loops, unseen)
  BY <1>2, <1>4, Zenon
<1>6. ch \in [List -> Seq(Cell)]
  BY <1>3 DEF Holds
<1> HIDE DEF vs2, td2
<1> QED BY <1>2, <1>5, <1>6, Zenon DEF Consistent, vs2, td2

\* Nothing is under way.
LEMMA QuietHolds ==
  ASSUME NEW ch, NEW h, NEW ls, NEW vs, NEW lps, NEW un
  PROVE  Holds(ch, h, ls, vs, <<>>, lps, un) <=>
           /\ Typed(h, ls, vs, lps, un) /\ ch \in [List -> Seq(Cell)]
           /\ Chained(ch, h, ls, {}) /\ Shared(h, Own(ch)) /\ Attached(h, vs, Own(ch), {}, {})
           /\ Looped(ch, ls, lps, un)
<1> DEFINE td == <<>>
<1>2. Nesting(td) /\ Dead(td) = {} /\ Told(td) = {} /\ Unmade(td) = {} /\ UnderWay(ch, h, ls, td)
  BY NoFrames
<1> HIDE DEF td
<1>3. Holds(ch, h, ls, vs, td, lps, un) <=>
           /\ Typed(h, ls, vs, lps, un) /\ ch \in [List -> Seq(Cell)]
           /\ Chained(ch, h, ls, {}) /\ Shared(h, Own(ch)) /\ Attached(h, vs, Own(ch), {}, {})
           /\ Looped(ch, ls, lps, un)
  BY <1>2 DEF Holds, Attached, Typed
<1> QED BY <1>3 DEF td

\* A variable is about to die.
LEMMA DyingHolds ==
  ASSUME NEW ch, NEW h, NEW ls, NEW vs, NEW lps, NEW un, NEW x \in Var,
         Typed(h, ls, vs, lps, un), ch \in [List -> Seq(Cell)],
         Chained(ch, h, ls, {}), Shared(h, Own(ch)), Attached(h, vs, Own(ch), {x}, {}), Looped(ch, ls, lps, un)
  PROVE  Holds(ch, h, ls, vs, <<Dying(x)>>, lps, un)
<1> DEFINE td == <<Dying(x)>>
<1>1. Nesting(td) /\ Dead(td) = {x} /\ Told(td) = {} /\ Unmade(td) = {} /\ UnderWay(ch, h, ls, td)
  BY DyingFrame
<1> HIDE DEF td
<1>2. Holds(ch, h, ls, vs, td, lps, un)
  BY <1>1 DEF Holds, Attached, Typed
<1> QED BY <1>2 DEF td

\* A new variable keeps the invariant.
LEMMA DefineKeeps ==
  ASSUME NEW ch, Consistent(ch), NEW x \in Var, Define(x)
  PROVE  ch \in [List -> Seq(Cell)] /\ Consistent(ch)' /\ UNCHANGED <<heap, lists>>
<1>1. /\ todo = <<>> /\ todo' = todo /\ x \notin DOMAIN vars /\ vars' = With(vars, x, NewVar(TRUE))
      /\ UNCHANGED <<heap, lists, loops, unseen, fault>>
  BY DEF Define, Quiet, FreshVar, Has
<1>2. Holds(ch, heap, lists, vars, <<>>, loops, unseen)
  BY <1>1, Zenon DEF Consistent
<1> DEFINE vs2 == With(vars, x, NewVar(TRUE))
<1>3. /\ Typed(heap, lists, vars, loops, unseen) /\ ch \in [List -> Seq(Cell)]
      /\ Chained(ch, heap, lists, {}) /\ Shared(heap, Own(ch)) /\ Attached(heap, vars, Own(ch), {}, {})
      /\ Looped(ch, lists, loops, unseen)
  BY <1>2, QuietHolds
<1>4. Attached(heap, vs2, Own(ch), {}, {})
  BY <1>1, <1>3, Defined
<1> HIDE DEF vs2
<1>5. Typed(heap, lists, vs2, loops, unseen)
  BY <1>3, <1>4 DEF Typed, Attached
<1>6. Holds(ch, heap, lists, vs2, <<>>, loops, unseen)
  BY <1>3, <1>4, <1>5, QuietHolds, Zenon
<1>7. vars' = vs2 /\ todo' = <<>>
  BY <1>1 DEF vs2
<1> QED BY <1>1, <1>3, <1>6, <1>7, Zenon DEF Consistent

\* The program deletes a variable.
LEMMA DestroyVarKeeps ==
  ASSUME NEW ch, Consistent(ch), NEW x \in Var, DestroyVar(x)
  PROVE  ch \in [List -> Seq(Cell)] /\ Consistent(ch)' /\ UNCHANGED <<heap, lists>>
<1>1. /\ todo = <<>> /\ todo' = <<Dying(x)>> /\ x \in DOMAIN vars
      /\ UNCHANGED <<heap, lists, vars, loops, unseen, fault>>
  BY DEF DestroyVar, Quiet, Has
<1>2. Holds(ch, heap, lists, vars, <<>>, loops, unseen)
  BY <1>1, Zenon DEF Consistent
<1>3. /\ Typed(heap, lists, vars, loops, unseen) /\ ch \in [List -> Seq(Cell)]
      /\ Chained(ch, heap, lists, {}) /\ Shared(heap, Own(ch)) /\ Attached(heap, vars, Own(ch), {}, {})
      /\ Looped(ch, lists, loops, unseen)
  BY <1>2, QuietHolds
<1>4. Attached(heap, vars, Own(ch), {x}, {})
  BY <1>1, <1>3, Doomed
<1>5. Holds(ch, heap, lists, vars, <<Dying(x)>>, loops, unseen)
  BY <1>3, <1>4, DyingHolds, Zenon
<1> QED BY <1>1, <1>3, <1>5, Zenon DEF Consistent

-----------------------------------------------------------------------------
(* Operations on the record of a list *)

\* The lists that are being sequenced do not change.
LEMMA LoopedSame ==
  ASSUME NEW ch, NEW ch2, NEW ls, NEW ls2, NEW lps, NEW un, NEW un2, Looped(ch, ls, lps, un),
         \A i \in DOMAIN lps :
           LET m == lps[i].list
           IN  m \in DOMAIN ls2 /\ ls2[m] = ls[m] /\ ch2[m] = ch[m] /\ un2[m] = un[m]
  PROVE  Looped(ch2, ls2, lps, un2)
BY DEF Looped

\* No list that a data value holds is being sequenced.
LEMMA HeldIsNotLooped ==
  ASSUME NEW ch, NEW ls, NEW lps, NEW un, Looped(ch, ls, lps, un), NEW l,
         l \notin DOMAIN ls \/ ls[l].ref_count # 0
  PROVE  \A i \in DOMAIN lps : lps[i].list # l /\ lps[i].list \in DOMAIN ls
BY DEF Looped

\* What other fields keep when the type or the count of references changes.
LEMMA RecordFacts ==
  ASSUME NEW list \in Records
  PROVE  /\ \A t \in Types :
              LET new == [list EXCEPT !.list_type = t]
              IN  new \in Records /\ new.first = list.first /\ new.last = list.last /\ new.nelem = list.nelem
         /\ \A r \in 0 .. MaxRefs :
              LET new == [list EXCEPT !.ref_count = r]
              IN  new \in Records /\ new.first = list.first /\ new.last = list.last /\ new.nelem = list.nelem
         /\ list.ref_count \in 0 .. MaxRefs
BY DEF Records

\* Changes of the list record that do not concern its chain keep the invariant.
LEMMA RecordHolds ==
  ASSUME NEW ch, NEW h, NEW ls, NEW vs, NEW lps, NEW un, Holds(ch, h, ls, vs, <<>>, lps, un),
         NEW l \in DOMAIN ls, ls[l].ref_count # 0, NEW list \in Records,
         list.first = ls[l].first, list.last = ls[l].last, list.nelem = ls[l].nelem,
         NEW ls2, ls2 = [ls EXCEPT ![l] = list]
  PROVE  Holds(ch, h, ls2, vs, <<>>, lps, un)
<1>1. /\ Typed(h, ls, vs, lps, un) /\ ch \in [List -> Seq(Cell)]
      /\ Chained(ch, h, ls, {}) /\ Shared(h, Own(ch)) /\ Attached(h, vs, Own(ch), {}, {})
      /\ Looped(ch, ls, lps, un)
  BY QuietHolds
<1>2. /\ DOMAIN ls2 = DOMAIN ls /\ ls2[l] = list
      /\ \A m \in DOMAIN ls : m # l => ls2[m] = ls[m]
  OBVIOUS
<1>3. Typed(h, ls2, vs, lps, un)
  BY <1>1, <1>2 DEF Typed
<1>4. Chained(ch, h, ls2, {})
  <2>1. \A m \in DOMAIN ls : ls2[m].first = ls[m].first /\ ls2[m].last = ls[m].last /\ ls2[m].nelem = ls[m].nelem
    BY <1>2
  <2> QED BY <1>1, <1>2, <2>1 DEF Chained, IsChain
<1>5. Looped(ch, ls2, lps, un)
  <2>1. \A i \in DOMAIN lps : lps[i].list # l /\ lps[i].list \in DOMAIN ls
    BY <1>1, HeldIsNotLooped
  <2>2. \A i \in DOMAIN lps : lps[i].list \in DOMAIN ls2 /\ ls2[lps[i].list] = ls[lps[i].list]
    BY <1>2, <2>1
  <2> QED BY <1>1, <2>2, LoopedSame
<1> QED BY <1>1, <1>3, <1>4, <1>5, QuietHolds, Zenon

\* A new, empty list keeps the invariant.
LEMMA CreateHolds ==
  ASSUME NEW ch, NEW h, NEW ls, NEW vs, NEW lps, NEW un, Holds(ch, h, ls, vs, <<>>, lps, un),
         NEW l \in List, l \notin DOMAIN ls, NEW t \in Types,
         NEW ls2, ls2 = With(ls, l, NewList(t, 1))
  PROVE  Holds(ch, h, ls2, vs, <<>>, lps, un)
<1>1. /\ Typed(h, ls, vs, lps, un) /\ ch \in [List -> Seq(Cell)]
      /\ Chained(ch, h, ls, {}) /\ Shared(h, Own(ch)) /\ Attached(h, vs, Own(ch), {}, {})
      /\ Looped(ch, ls, lps, un)
  BY QuietHolds
<1>2. /\ DOMAIN ls2 = DOMAIN ls \cup {l} /\ ls2[l] = NewList(t, 1)
      /\ \A m \in DOMAIN ls : ls2[m] = ls[m]
  BY DEF With
<1>3. NewList(t, 1) \in Records
  BY BoundAssumption DEF NewList, Records, IDLE, SEQUENCING
<1>4. Typed(h, ls2, vs, lps, un)
  BY <1>1, <1>2, <1>3 DEF Typed
<1>5. Chained(ch, h, ls2, {})
  <2>1. ch[l] = <<>>
    BY <1>1 DEF Chained
  <2>2. IsChain(h, <<>>, NewList(t, 1))
    BY DEF IsChain, Leads, At, NewList
  <2> QED BY <1>1, <1>2, <2>1, <2>2 DEF Chained
<1>6. Looped(ch, ls2, lps, un)
  <2>1. \A i \in DOMAIN lps : lps[i].list # l /\ lps[i].list \in DOMAIN ls
    BY <1>1, HeldIsNotLooped
  <2>2. \A i \in DOMAIN lps : lps[i].list \in DOMAIN ls2 /\ ls2[lps[i].list] = ls[lps[i].list]
    BY <1>2, <2>1
  <2> QED BY <1>1, <2>2, LoopedSame
<1> QED BY <1>1, <1>4, <1>5, <1>6, QuietHolds, Zenon

\* ListCreate keeps the invariant.
LEMMA CreateKeeps ==
  ASSUME NEW ch, Consistent(ch), NEW l \in List, NEW t \in Types, ListCreate(l, t)
  PROVE  ch \in [List -> Seq(Cell)] /\ Consistent(ch)' /\ UNCHANGED heap
<1>1. /\ todo = <<>> /\ todo' = todo /\ l \notin DOMAIN lists /\ lists' = With(lists, l, NewList(t, 1))
      /\ UNCHANGED <<heap, vars, loops, unseen, fault>>
  BY DEF ListCreate, Quiet, FreshList, Has
<1>2. Holds(ch, heap, lists, vars, <<>>, loops, unseen)
  BY <1>1, Zenon DEF Consistent
<1> DEFINE ls2 == With(lists, l, NewList(t, 1))
<1>3. Holds(ch, heap, ls2, vars, <<>>, loops, unseen)
  BY <1>1, <1>2, CreateHolds, Zenon
<1>4. ch \in [List -> Seq(Cell)]
  BY <1>2 DEF Holds
<1>5. lists' = ls2 /\ todo' = <<>>
  BY <1>1
<1> HIDE DEF ls2
<1> QED BY <1>1, <1>3, <1>4, <1>5, Zenon DEF Consistent

\* ListSetType keeps the invariant.
LEMMA SetTypeKeeps ==
  ASSUME NEW ch, Consistent(ch), NEW l \in List, NEW t \in Types, ListSetType(l, t)
  PROVE  ch \in [List -> Seq(Cell)] /\ Consistent(ch)' /\ UNCHANGED heap
<1>1. /\ todo = <<>> /\ todo' = todo /\ l \in DOMAIN lists /\ lists[l].ref_count > 0
      /\ lists' = [lists EXCEPT ![l].list_type = t]
      /\ UNCHANGED <<heap, vars, loops, unseen, fault>>
  BY DEF ListSetType, Quiet, ValueList, Has
<1>2. Holds(ch, heap, lists, vars, <<>>, loops, unseen)
  BY <1>1, Zenon DEF Consistent
<1>3. ch \in [List -> Seq(Cell)] /\ lists[l] \in Records
  BY <1>1, <1>2 DEF Holds, Typed
<1> DEFINE list == [lists[l] EXCEPT !.list_type = t]
           ls2 == [lists EXCEPT ![l] = list]
<1>4. /\ list \in Records /\ list.first = lists[l].first /\ list.last = lists[l].last
      /\ list.nelem = lists[l].nelem /\ lists[l].ref_count # 0
  BY <1>1, <1>3, RecordFacts
<1>5. lists' = ls2 /\ todo' = <<>>
  BY <1>1
<1>6. ls2 = [lists EXCEPT ![l] = list]
  OBVIOUS
<1> HIDE DEF list, ls2
<1>7. Holds(ch, heap, ls2, vars, <<>>, loops, unseen)
  BY <1>1, <1>2, <1>4, <1>6, RecordHolds, Zenon
<1> QED BY <1>1, <1>3, <1>5, <1>7, Zenon DEF Consistent

\* One more data value holds the list.
LEMMA AddParentKeeps ==
  ASSUME NEW ch, Consistent(ch), NEW l \in List, ListAddParent(l)
  PROVE  ch \in [List -> Seq(Cell)] /\ Consistent(ch)' /\ UNCHANGED heap
<1>1. /\ todo = <<>> /\ todo' = todo /\ l \in DOMAIN lists /\ lists[l].ref_count > 0 /\ lists[l].ref_count < MaxRefs
      /\ lists' = [lists EXCEPT ![l].ref_count = @ + 1]
      /\ UNCHANGED <<heap, vars, loops, unseen, fault>>
  BY DEF ListAddParent, Quiet, ValueList, Has
<1>2. Holds(ch, heap, lists, vars, <<>>, loops, unseen)
  BY <1>1, Zenon DEF Consistent
<1>3. ch \in [List -> Seq(Cell)] /\ lists[l] \in Records
  BY <1>1, <1>2 DEF Holds, Typed
<1> DEFINE r == lists[l].ref_count + 1
           list == [lists[l] EXCEPT !.ref_count = r]
           ls2 == [lists EXCEPT ![l] = list]
<1>4. /\ list \in Records /\ list.first = lists[l].first /\ list.last = lists[l].last
      /\ list.nelem = lists[l].nelem /\ lists[l].ref_count # 0
  <2>1. r \in 0 .. MaxRefs
    BY <1>1, <1>3, BoundAssumption, RecordFacts
  <2> HIDE DEF r
  <2> QED BY <1>1, <1>3, <2>1, RecordFacts
<1>5. lists' = ls2 /\ todo' = <<>>
  BY <1>1
<1>6. ls2 = [lists EXCEPT ![l] = list]
  OBVIOUS
<1> HIDE DEF list, ls2
<1>7. Holds(ch, heap, ls2, vars, <<>>, loops, unseen)
  BY <1>1, <1>2, <1>4, <1>6, RecordHolds, Zenon
<1> QED BY <1>1, <1>3, <1>5, <1>7, Zenon DEF Consistent

\* A list leaves the table, and the walk over its cells begins.
LEMMA UnmakeHolds ==
  ASSUME NEW ch, NEW h, NEW ls, NEW vs, NEW lps, NEW un, Holds(ch, h, ls, vs, <<>>, lps, un),
         NEW l \in DOMAIN ls, NEW lps2, Looped(ch, ls, lps2, un), \A i \in DOMAIN lps2 : lps2[i].list # l,
         lps2 \in Seq([list : List, results : Nat, done : BOOLEAN]),
         NEW ls2, ls2 = Without(ls, l), NEW un2, un2 = [un EXCEPT ![l] = {}]
  PROVE  Holds(ch, h, ls2, vs, <<Unmaking(l, ls[l].first)>>, lps2, un2)
<1>1. /\ Typed(h, ls, vs, lps, un) /\ ch \in [List -> Seq(Cell)]
      /\ Chained(ch, h, ls, {}) /\ Shared(h, Own(ch)) /\ Attached(h, vs, Own(ch), {}, {})
  BY QuietHolds
<1>2. /\ DOMAIN ls2 = DOMAIN ls \ {l} /\ l \in List
      /\ \A m \in DOMAIN ls2 : ls2[m] = ls[m]
  BY <1>1 DEF Without, Typed
<1>3. un2 \in [List -> SUBSET Cell] /\ \A m \in List : m # l => un2[m] = un[m]
  BY <1>1, <1>2 DEF Typed
<1>4. /\ DOMAIN h \subseteq Cell /\ (\A c \in DOMAIN h : h[c] \in CellType)
      /\ DOMAIN ls2 \subseteq List /\ (\A m \in DOMAIN ls2 : ls2[m] \in Records)
  BY <1>1, <1>2 DEF Typed
<1>5. IsChain(h, ch[l], ls[l]) /\ ls[l] \in Records
  BY <1>1 DEF Chained, Typed
<1>6. Chained(ch, h, ls2, {l})
  <2>1. \A m \in List \ DOMAIN ls2 : Leads(h, ch[m]) /\ (m \notin {l} => ch[m] = <<>>)
    BY <1>1, <1>2, <1>5 DEF Chained, IsChain
  <2> QED BY <1>1, <1>2, <2>1 DEF Chained
<1>7. Looped(ch, ls2, lps2, un2)
  <2>1. \A i \in DOMAIN lps2 : lps2[i].list # l /\ lps2[i].list \in DOMAIN ls
    BY DEF Looped
  <2>2. \A i \in DOMAIN lps2 : lps2[i].list \in DOMAIN ls2 /\ lps2[i].list \in List
    BY <1>1, <1>2, <2>1 DEF Typed
  <2>3. \A i \in DOMAIN lps2 : ls2[lps2[i].list] = ls[lps2[i].list] /\ un2[lps2[i].list] = un[lps2[i].list]
    BY <1>2, <1>3, <2>1, <2>2
  <2> QED BY <2>2, <2>3 DEF Looped
<1> DEFINE c == ls[l].first
           td == <<Unmaking(l, c)>>
<1>8. c \in Cell \cup {NULL} /\ c = At(ch[l], 1) /\ l \notin DOMAIN ls2
  BY <1>2, <1>5 DEF Records, IsChain
<1>9. /\ Nesting(td) /\ Dead(td) = {} /\ Told(td) = {} /\ Unmade(td) = {l}
      /\ UnderWay(ch, h, ls2, td)
  BY <1>2, <1>8, UnmakingFrame
<1> HIDE DEF td
<1>10. Holds(ch, h, ls2, vs, td, lps2, un2)
  BY <1>1, <1>3, <1>4, <1>6, <1>7, <1>9, HoldsNext, Zenon
<1> QED BY <1>10 DEF td

\* One data value less holds the list, or the list is unmade.
LEMMA DelParentKeeps ==
  ASSUME NEW ch, Consistent(ch), NEW l \in List, ListDelParent(l)
  PROVE  ch \in [List -> Seq(Cell)] /\ Consistent(ch)' /\ UNCHANGED heap
<1>1. todo = <<>> /\ l \in DOMAIN lists /\ lists[l].ref_count > 0
  BY DEF ListDelParent, Quiet, ValueList, Has
<1>2. Holds(ch, heap, lists, vars, <<>>, loops, unseen)
  BY <1>1, Zenon DEF Consistent
<1>3. /\ ch \in [List -> Seq(Cell)] /\ lists[l] \in Records /\ Looped(ch, lists, loops, unseen)
      /\ loops \in Seq([list : List, results : Nat, done : BOOLEAN])
  BY <1>1, <1>2 DEF Holds, Typed
<1>4. CASE lists[l].ref_count = 1
  <2> DEFINE ls2 == Without(lists, l)
             un2 == [unseen EXCEPT ![l] = {}]
             td2 == <<Unmaking(l, lists[l].first)>>
  <2>1. todo' = td2 \o todo /\ lists' = ls2 /\ unseen' = un2 /\ UNCHANGED <<heap, vars, loops, fault>>
    BY <1>4 DEF ListDelParent, Unmake
  <2>2. todo' = td2
    BY <1>1, <2>1, ConsTuple
  <2>3. \A i \in DOMAIN loops : loops[i].list # l
    BY <1>1, <1>3, HeldIsNotLooped, SMTT(20)
  <2>4. Holds(ch, heap, ls2, vars, td2, loops, un2)
    BY <1>1, <1>2, <1>3, <2>3, UnmakeHolds, Zenon
  <2> HIDE DEF ls2, un2, td2
  <2> QED BY <1>3, <2>1, <2>2, <2>4, Zenon DEF Consistent
<1>5. CASE lists[l].ref_count # 1
  <2> DEFINE r == lists[l].ref_count - 1
             list == [lists[l] EXCEPT !.ref_count = r]
             ls2 == [lists EXCEPT ![l] = list]
  <2>1. lists' = ls2 /\ todo' = <<>> /\ UNCHANGED <<heap, vars, loops, unseen, fault>>
    BY <1>1, <1>5 DEF ListDelParent
  <2>2. /\ list \in Records /\ list.first = lists[l].first /\ list.last = lists[l].last
        /\ list.nelem = lists[l].nelem /\ lists[l].ref_count # 0
    <3>1. r \in 0 .. MaxRefs
      BY <1>1, <1>3, BoundAssumption, RecordFacts
    <3> HIDE DEF r
    <3> QED BY <1>1, <1>3, <3>1, RecordFacts
  <2>3. ls2 = [lists EXCEPT ![l] = list]
    OBVIOUS
  <2> HIDE DEF list, ls2
  <2>4. Holds(ch, heap, ls2, vars, <<>>, loops, unseen)
    BY <1>1, <1>2, <2>2, <2>3, RecordHolds, Zenon
  <2> QED BY <1>3, <2>1, <2>4, Zenon DEF Consistent
<1> QED BY <1>4, <1>5

\* The end of a list expression unmakes its temporary list.
LEMMA TermKeeps ==
  ASSUME NEW ch, Consistent(ch), Term
  PROVE  ch \in [List -> Seq(Cell)] /\ Consistent(ch)' /\ UNCHANGED heap
<1>1. todo = <<>> /\ loops # <<>> /\ loops' = Tail(loops)
  BY DEF Term, Quiet
<1>2. Holds(ch, heap, lists, vars, <<>>, loops, unseen)
  BY <1>1, Zenon DEF Consistent
<1>3. /\ ch \in [List -> Seq(Cell)] /\ Looped(ch, lists, loops, unseen)
      /\ loops \in Seq([list : List, results : Nat, done : BOOLEAN])
  BY <1>2 DEF Holds, Typed
<1> DEFINE l == loops[1].list
           lps2 == Tail(loops)
           n == Len(loops)
<1>4. n \in Nat /\ 1 \in 1 .. n /\ DOMAIN loops = 1 .. n /\ lps2 \in Seq([list : List, results : Nat, done : BOOLEAN])
      /\ Len(lps2) = n - 1 /\ (\A k \in 1 .. n - 1 : lps2[k] = loops[k + 1]) /\ DOMAIN lps2 = 1 .. n - 1
  BY <1>1, <1>3, EmptySeq, LenProperties, HeadTailProperties
<1> HIDE DEF n, lps2
<1>5. l \in DOMAIN lists
  BY <1>3, <1>4 DEF Looped
<1>6. \A k \in 1 .. n - 1 : k + 1 \in 1 .. n /\ k + 1 # 1
  BY <1>4
<1>7. \A k \in DOMAIN lps2 : lps2[k].list # l
  <2> SUFFICES ASSUME NEW k \in 1 .. n - 1, lps2[k].list = l PROVE FALSE
    BY <1>4
  <2>1. loops[k + 1].list = loops[1].list /\ k + 1 \in DOMAIN loops /\ 1 \in DOMAIN loops /\ k + 1 # 1
    BY <1>4, <1>6
  <2>2. \A i, j \in DOMAIN loops : loops[i].list = loops[j].list => i = j
    BY <1>3 DEF Looped
  <2> QED BY <2>1, <2>2
<1>8. Looped(ch, lists, lps2, unseen)
  <2>1. ASSUME NEW i \in 1 .. n - 1, NEW j \in 1 .. n - 1, lps2[i].list = lps2[j].list PROVE i = j
    <3>1. loops[i + 1].list = loops[j + 1].list /\ i + 1 \in DOMAIN loops /\ j + 1 \in DOMAIN loops
      BY <1>4, <1>6, <2>1
    <3>2. \A a, b \in DOMAIN loops : loops[a].list = loops[b].list => a = b
      BY <1>3 DEF Looped
    <3>3. i + 1 = j + 1
      BY <3>1, <3>2
    <3> QED BY <1>4, <3>3
  <2>2. \A i \in 1 .. n - 1 :
          LET m == lps2[i].list
          IN  /\ m \in DOMAIN lists /\ lists[m].ref_count = 0
              /\ lps2[i].done => unseen[m] = {}
              /\ ~lps2[i].done /\ lists[m].state = SEQUENCING => Ahead(ch[m], lists[m].current_item, unseen[m])
    <3> SUFFICES ASSUME NEW i \in 1 .. n - 1
                 PROVE  LET m == lps2[i].list
                        IN  /\ m \in DOMAIN lists /\ lists[m].ref_count = 0
                            /\ lps2[i].done => unseen[m] = {}
                            /\ ~lps2[i].done /\ lists[m].state = SEQUENCING => Ahead(ch[m], lists[m].current_item, unseen[m])
      OBVIOUS
    <3>1. lps2[i] = loops[i + 1] /\ i + 1 \in DOMAIN loops
      BY <1>4, <1>6
    <3>2. LET m == loops[i + 1].list
          IN  /\ m \in DOMAIN lists /\ lists[m].ref_count = 0
              /\ loops[i + 1].done => unseen[m] = {}
              /\ ~loops[i + 1].done /\ lists[m].state = SEQUENCING => Ahead(ch[m], lists[m].current_item, unseen[m])
      BY <1>3, <3>1 DEF Looped
    <3> QED BY <3>1, <3>2
  <2> QED BY <1>4, <2>1, <2>2 DEF Looped
<1> DEFINE ls2 == Without(lists, l)
           un2 == [unseen EXCEPT ![l] = {}]
           td2 == <<Unmaking(l, lists[l].first)>>
<1>9. todo' = td2 \o todo /\ lists' = ls2 /\ unseen' = un2 /\ UNCHANGED <<heap, vars, fault>>
  BY DEF Term, Unmake
<1>10. todo' = td2
  BY <1>1, <1>9, ConsTuple
<1>11. Holds(ch, heap, ls2, vars, td2, lps2, un2)
  <2> HIDE DEF l
  <2> QED BY <1>2, <1>4, <1>5, <1>7, <1>8, UnmakeHolds, Zenon
<1>12. loops' = lps2
  BY <1>1 DEF lps2
<1> HIDE DEF ls2, un2, td2
<1> QED BY <1>3, <1>9, <1>10, <1>11, <1>12, Zenon DEF Consistent

-----------------------------------------------------------------------------
(* ListDestroy *)

\* Whether the reference is the last does not depend on the callbacks.
LEMMA SameUnreferenced ==
  ASSUME NEW v \in VarType, NEW w \in VarType, w.named = v.named, w.parents = v.parents, NEW l \in List
  PROVE  Unreferenced(w, l) <=> Unreferenced(v, l)
<1>1. Parents(w) = Parents(v)
  BY DEF Parents
<1>2. Parents(DelParent(w, l)) = Parents(w) \ {l} /\ Parents(DelParent(v, l)) = Parents(v) \ {l}
  BY DelParentFacts
<1> QED BY <1>1, <1>2 DEF Unreferenced

\* The variable of a cell, which no variable that dies is, watches it.
LEMMA CellVariable ==
  ASSUME NEW h, NEW vs, NEW own, Attached(h, vs, own, {}, {}), NEW l \in List, NEW c \in own[l]
  PROVE  LET x == h[c].obj_id
         IN  /\ x \in DOMAIN vs /\ x \in Var /\ vs[x] \in VarType /\ Apart(vs[x])
             /\ [list |-> l, cell |-> c] \in ToSet(vs[x].cblist)
<1> DEFINE x == h[c].obj_id
<1>1. x \in DOMAIN vs /\ [list |-> l, cell |-> c] \in ToSet(vs[x].cblist)
  BY DEF Attached, Watching
<1>2. vs[x] \in VarType /\ x \in Var /\ Single(vs)
  BY <1>1 DEF Attached
<1>3. Apart(vs[x])
  BY <1>1, <1>2, SingleIs, Zenon
<1> QED BY <1>1, <1>2, <1>3

\* ListDestroy frees a cell, and its variable may die of it.
LEMMA ForsakenHolds ==
  ASSUME NEW ch, NEW h, NEW ls, NEW vs, NEW lps, NEW un, NEW m \in List, NEW c \in Cell,
         Holds(ch, h, ls, vs, <<Unmaking(m, c)>>, lps, un), NEW x, h[c].obj_id = x,
         NEW h2, h2 = Without(h, c), NEW vs2, vs2 = [vs EXCEPT ![x] = Forsake(@, m, c)],
         NEW ch2, ch2 = [ch EXCEPT ![m] = Tail(ch[m])], NEW rest, rest = Unmaking(m, h[c].next)
  PROVE  /\ ch2 \in [List -> Seq(Cell)]
         /\ Holds(ch2, h2, ls, vs2, IF Unreferenced(vs[x], m) THEN <<Dying(x), rest>> ELSE <<rest>>, lps, un)
<1> DEFINE td == <<Unmaking(m, c)>>
<1>1. td # <<>> /\ td[1].op = "unmake" /\ td[1].list = m /\ td[1].cell = c
  BY DEF Unmaking
<1>2. Nesting(td) /\ UnderWay(ch, h, ls, td)
  BY DEF Holds
<1>3. Dead(td) = {} /\ Told(td) = {} /\ Unmade(td) = {m} /\ m \notin DOMAIN ls /\ c = At(ch[m], 1)
  <2> HIDE DEF td
  <2> QED BY <1>1, <1>2, UnmakeFrames
<1>4. /\ Typed(h, ls, vs, lps, un) /\ ch \in [List -> Seq(Cell)]
      /\ Chained(ch, h, ls, {m}) /\ Shared(h, Own(ch)) /\ Looped(ch, ls, lps, un)
  BY <1>3 DEF Holds
<1>5. Attached(h, vs, Own(ch), {}, {})
  BY <1>3, HoldsAttached
<1> HIDE DEF td
<1>6. /\ DOMAIN h \subseteq Cell /\ (\A d \in DOMAIN h : h[d] \in CellType)
      /\ DOMAIN ls \subseteq List /\ (\A l \in DOMAIN ls : ls[l] \in Records)
      /\ lps \in Seq([list : List, results : Nat, done : BOOLEAN]) /\ un \in [List -> SUBSET Cell]
  BY <1>4 DEF Typed
<1> DEFINE s == ch[m]
<1>7. s \in Seq(Cell) /\ Once(s) /\ Leads(h, s)
  BY <1>3, <1>4 DEF Chained
<1>8. s # <<>> /\ s[1] = c
  <2>1. Len(s) \in Nat /\ 1 \in 1 .. Len(s)
    BY <1>3, <1>7, NullIsNoCell, LenProperties DEF At
  <2> QED BY <1>3, <2>1 DEF At
<1>9. DOMAIN h2 = DOMAIN h \ {c} /\ \A d \in DOMAIN h2 : h2[d] = h[d] /\ h2[d] \in CellType
  BY <1>6, WithoutCell
<1> HIDE DEF s
<1>10. /\ Tail(s) \in Seq(Cell) /\ Leads(h2, Tail(s)) /\ Once(Tail(s))
       /\ ToSet(Tail(s)) = ToSet(s) \ {c}
       /\ c \in ToSet(s) /\ c \in DOMAIN h /\ h[c].next = At(Tail(s), 1)
  <2>1. Beheaded(h, h2, s)
    BY <1>8, <1>9 DEF Beheaded
  <2>2. Headless(h, h2, s)
    BY <1>7, <2>1, TailLeads, Zenon
  <2> QED BY <1>8, <2>2 DEF Headless
<1>11. ch2 \in [List -> Seq(Cell)] /\ ch2[m] = Tail(s) /\ \A l \in List : l # m => ch2[l] = ch[l]
  BY <1>4, <1>10 DEF s
<1>12. \A l \in List : (l # m => c \notin Own(ch)[l]) /\ Own(ch2)[l] = Own(ch)[l] \ {c}
  <2>1. c \in Own(ch)[m] /\ Own(ch2)[m] = Own(ch)[m] \ {c}
    BY <1>10, <1>11 DEF Own, s
  <2>2. ASSUME NEW l \in List, l # m PROVE c \notin Own(ch)[l] /\ Own(ch2)[l] = Own(ch)[l] \ {c}
    <3>1. c \notin Own(ch)[l]
      BY <1>4, <2>1, <2>2 DEF Shared
    <3>2. Own(ch2)[l] = Own(ch)[l]
      BY <1>11, <2>2 DEF Own
    <3> QED BY <3>1, <3>2
  <2> QED BY <2>1, <2>2
<1>13. c \in Own(ch)[m]
  BY <1>10 DEF Own, s
<1>r. Removes(h, h2, Own(ch), Own(ch2), c)
  <2>1. \A l \in List : \A d \in Own(ch2)[l] : d \in DOMAIN h2
    BY <1>4, <1>9, <1>12 DEF Shared
  <2> QED BY <1>9, <1>12, <2>1 DEF Removes
<1>14. Shared(h2, Own(ch2))
  BY <1>4, <1>r, SharedLess, Zenon
<1>15. Chained(ch2, h2, ls, {m})
  <2>1. ASSUME NEW l \in List, l # m
        PROVE  (Leads(h, ch[l]) => Leads(h2, ch[l])) /\ \A list : IsChain(h, ch[l], list) => IsChain(h2, ch[l], list)
    <3>1. \A k \in 1 .. Len(ch[l]) : ch[l][k] # c
      <4>1. \A k \in 1 .. Len(ch[l]) : ch[l][k] \in ToSet(ch[l])
        BY <1>4, SetOfSeq
      <4> QED BY <1>12, <2>1, <4>1 DEF Own
    <3>2. \A k \in 1 .. Len(ch[l]) :
            ch[l][k] \in DOMAIN h => ch[l][k] \in DOMAIN h2 /\ h2[ch[l][k]].next = h[ch[l][k]].next /\ h2[ch[l][k]].prev = h[ch[l][k]].prev
      BY <1>9, <3>1
    <3> DEFINE u == ch[l]
    <3> HIDE DEF u
    <3>3. \A k \in 1 .. Len(u) : u[k] \in DOMAIN h => u[k] \in DOMAIN h2 /\ h2[u[k]].next = h[u[k]].next /\ h2[u[k]].prev = h[u[k]].prev
      BY <3>2 DEF u
    <3>4. (Leads(h, u) => Leads(h2, u)) /\ \A list : IsChain(h, u, list) => IsChain(h2, u, list)
      BY <3>3, ChainApart
    <3> QED BY <3>4 DEF u
  <2>2. \A l \in List : Once(ch2[l])
    BY <1>4, <1>10, <1>11 DEF Chained
  <2>3. \A l \in DOMAIN ls : IsChain(h2, ch2[l], ls[l])
    <3>1. \A l \in DOMAIN ls : l \in List /\ l # m /\ IsChain(h, ch[l], ls[l])
      BY <1>3, <1>4, <1>6 DEF Chained
    <3> QED BY <1>11, <2>1, <3>1
  <2>4. \A l \in List \ DOMAIN ls : Leads(h2, ch2[l]) /\ (l \notin {m} => ch2[l] = <<>>)
    <3>1. \A l \in List \ DOMAIN ls : Leads(h, ch[l]) /\ (l # m => ch[l] = <<>>)
      BY <1>4 DEF Chained
    <3> QED BY <1>10, <1>11, <2>1, <3>1
  <2> QED BY <2>2, <2>3, <2>4 DEF Chained
<1>16. Looped(ch2, ls, lps, un)
  <2>1. \A i \in DOMAIN lps : lps[i].list # m /\ lps[i].list \in DOMAIN ls
    BY <1>3, <1>4, HeldIsNotLooped
  <2>2. \A i \in DOMAIN lps : lps[i].list \in DOMAIN ls /\ ch2[lps[i].list] = ch[lps[i].list]
    BY <1>6, <1>11, <2>1
  <2> QED BY <1>4, <2>2, LoopedSame
<1> DEFINE u == Unwatch(vs[x], c)
           w == DelParent(u, m)
           vs3 == [vs EXCEPT ![x] = w]
<1>17. x \in DOMAIN vs /\ x \in Var /\ vs[x] \in VarType /\ Apart(vs[x]) /\ [list |-> m, cell |-> c] \in ToSet(vs[x].cblist)
  BY <1>5, <1>13, CellVariable
<1>18. u \in VarType /\ u.named = vs[x].named /\ u.parents = vs[x].parents
  <2>1. [list |-> m, cell |-> c].cell = c
    OBVIOUS
  <2> QED BY <1>17, <2>1, UnwatchFacts
<1>19. Unreferenced(u, m) <=> Unreferenced(vs[x], m)
  BY <1>17, <1>18, SameUnreferenced
<1>20. vs2 = vs3
  BY DEF Forsake
<1>21. Mine(h, Own(ch), m, c, x)
  BY <1>12, <1>13 DEF Mine
<1>22. vs3 = [vs EXCEPT ![x] = DelParent(u, m)]
  OBVIOUS
<1>w. u = Unwatch(vs[x], c)
  OBVIOUS
<1> HIDE DEF u, w, vs3
<1> DEFINE nx == h[c].next
<1>23. nx \in Cell \cup {NULL} /\ nx = At(ch2[m], 1)
  BY <1>6, <1>10, <1>11 DEF CellType
<1> HIDE DEF nx
<1>24. CASE Unreferenced(vs[x], m)
  <2>0. LetsGo(vs, vs3, x, c, m, {x})
    BY <1>22, <1>w DEF LetsGo
  <2>1. Attached(h2, vs3, Own(ch2), {x}, {})
    BY <1>5, <1>r, <1>21, <2>0, Lost, SMTT(20)
  <2> DEFINE up == <<Dying(x), Unmaking(m, nx)>>
  <2>2. /\ Nesting(up) /\ Dead(up) = {x} /\ Told(up) = {} /\ Unmade(up) = {m}
        /\ UnderWay(ch2, h2, ls, up)
    <3>1. x \in Var /\ nx \in Cell \cup {NULL} /\ m \notin DOMAIN ls /\ nx = At(ch2[m], 1)
      BY <1>3, <1>17, <1>23
    <3>2. up = <<Dying(x), Unmaking(m, nx)>>
      OBVIOUS
    <3> HIDE DEF up
    <3>3. Nesting(up)
      BY <3>1, <3>2, DyingUnmakingFrame, Zenon
    <3>4. Dead(up) = {x} /\ Told(up) = {} /\ Unmade(up) = {m}
      BY <3>1, <3>2, DyingUnmakingFrame
    <3>5. \A p, q, r : m \notin DOMAIN r /\ nx = At(p[m], 1) => UnderWay(p, q, r, up)
      BY <3>1, <3>2, DyingUnmakingFrame, Zenon
    <3> QED BY <3>1, <3>3, <3>4, <3>5
  <2> HIDE DEF up
  <2>3. \A d \in DOMAIN h2 : h2[d] \in CellType
    BY <1>9
  <2>4. DOMAIN h2 \subseteq Cell
    BY <1>6, <1>9
  <2>5. Holds(ch2, h2, ls, vs3, up, lps, un)
    BY <1>6, <1>11, <1>14, <1>15, <1>16, <2>1, <2>2, <2>3, <2>4, HoldsNext, Zenon
  <2> QED BY <1>11, <1>20, <1>24, <2>5 DEF up, nx
<1>25. CASE ~Unreferenced(vs[x], m)
  <2>0. LetsGo(vs, vs3, x, c, m, {})
    BY <1>19, <1>22, <1>25, <1>w DEF LetsGo
  <2>1. Attached(h2, vs3, Own(ch2), {}, {})
    BY <1>5, <1>r, <1>21, <2>0, Lost
  <2> DEFINE up == <<Unmaking(m, nx)>>
  <2>2. /\ Nesting(up) /\ Dead(up) = {} /\ Told(up) = {} /\ Unmade(up) = {m}
        /\ UnderWay(ch2, h2, ls, up)
    BY <1>3, <1>23, UnmakingFrame
  <2> HIDE DEF up
  <2>3. \A d \in DOMAIN h2 : h2[d] \in CellType
    BY <1>9
  <2>4. DOMAIN h2 \subseteq Cell
    BY <1>6, <1>9
  <2>5. Holds(ch2, h2, ls, vs3, up, lps, un)
    BY <1>6, <1>11, <1>14, <1>15, <1>16, <2>1, <2>2, <2>3, <2>4, HoldsNext, Zenon
  <2> QED BY <1>11, <1>20, <1>25, <2>5 DEF up, nx
<1> QED BY <1>24, <1>25

\* ListDestroy ends when there are no more cells.
LEMMA EmptiedHolds ==
  ASSUME NEW ch, NEW h, NEW ls, NEW vs, NEW lps, NEW un, NEW m \in List,
         Holds(ch, h, ls, vs, <<Unmaking(m, NULL)>>, lps, un)
  PROVE  Holds(ch, h, ls, vs, <<>>, lps, un)
<1> DEFINE td == <<Unmaking(m, NULL)>>
<1>1. td # <<>> /\ td[1].op = "unmake" /\ td[1].list = m /\ td[1].cell = NULL
  BY DEF Unmaking
<1>2. Nesting(td) /\ UnderWay(ch, h, ls, td)
  BY DEF Holds
<1>3. Dead(td) = {} /\ Told(td) = {} /\ Unmade(td) = {m} /\ m \notin DOMAIN ls /\ NULL = At(ch[m], 1)
  <2> HIDE DEF td
  <2> QED BY <1>1, <1>2, UnmakeFrames
<1>4. /\ Typed(h, ls, vs, lps, un) /\ ch \in [List -> Seq(Cell)]
      /\ Chained(ch, h, ls, {m}) /\ Shared(h, Own(ch)) /\ Looped(ch, ls, lps, un)
  BY <1>3 DEF Holds
<1>5. Attached(h, vs, Own(ch), {}, {})
  BY <1>3, HoldsAttached
<1> HIDE DEF td
<1>6. ch[m] = <<>>
  <2> SUFFICES ASSUME ch[m] # <<>> PROVE FALSE
    OBVIOUS
  <2>1. ch[m] \in Seq(Cell)
    BY <1>4
  <2>2. Len(ch[m]) \in Nat /\ 1 \in 1 .. Len(ch[m]) /\ ch[m][1] \in Cell
    BY <2>1, EmptySeq, LenProperties
  <2> QED BY <1>3, <2>2, NullIsNoCell DEF At
<1>7. Chained(ch, h, ls, {})
  BY <1>4, <1>6 DEF Chained
<1> QED BY <1>4, <1>5, <1>7, QuietHolds, Zenon

\* ListDestroy keeps the invariant, and leaves the other lists alone.
LEMMA ListDestroyKeeps ==
  ASSUME NEW ch, Consistent(ch), ListDestroy
  PROVE  \E ch2 \in [List -> Seq(Cell)] :
           /\ Consistent(ch2)' /\ UNCHANGED lists
           /\ \A l \in DOMAIN lists : ch2[l] = ch[l]
<1>1. PICK m \in List, c \in Cell \cup {NULL} : todo = <<Unmaking(m, c)>>
  BY UnmakeFrames DEF ListDestroy, Consistent, Holds
<1>2. todo[1] = Unmaking(m, c) /\ todo[1].list = m /\ todo[1].cell = c /\ Tail(todo) = <<>>
  BY <1>1 DEF Unmaking
<1>3. Holds(ch, heap, lists, vars, <<Unmaking(m, c)>>, loops, unseen)
  BY <1>1, Zenon DEF Consistent
<1>4. UNCHANGED <<lists, loops, unseen, fault>>
  BY DEF ListDestroy
<1>5. CASE c = NULL
  <2>1. todo' = <<>> /\ UNCHANGED <<heap, vars>>
    BY <1>2, <1>5 DEF ListDestroy
  <2>2. Holds(ch, heap, lists, vars, <<>>, loops, unseen)
    BY <1>3, <1>5, EmptiedHolds
  <2>3. ch \in [List -> Seq(Cell)]
    BY <1>3 DEF Holds
  <2> QED BY <1>4, <2>1, <2>2, <2>3, Zenon DEF Consistent
<1>6. CASE c # NULL
  <2> DEFINE x == heap[c].obj_id
             rest == Unmaking(m, heap[c].next)
             h2 == Without(heap, c)
             vs2 == [vars EXCEPT ![x] = Forsake(@, m, c)]
             td2 == IF Unreferenced(vars[x], m) THEN <<Dying(x), rest>> ELSE <<rest>>
             ch2 == [ch EXCEPT ![m] = Tail(ch[m])]
  <2>1. [todo[1] EXCEPT !.cell = heap[c].next] = rest
    BY <1>2 DEF Unmaking
  <2>2. heap' = h2 /\ vars' = vs2
    BY <1>2, <1>6 DEF ListDestroy
  <2>3. todo' = td2
    <3>1. todo' = IF Unreferenced(vars[x], m) THEN <<Dying(x)>> \o (<<rest>> \o <<>>) ELSE <<rest>> \o <<>>
      BY <1>2, <1>6, <2>1 DEF ListDestroy
    <3> HIDE DEF rest, x
    <3>2. <<rest>> \o <<>> = <<rest>> /\ <<Dying(x)>> \o <<rest>> = <<Dying(x), rest>>
      BY ConsTuple
    <3> QED BY <3>1, <3>2
  <2>4. ch2 \in [List -> Seq(Cell)] /\ Holds(ch2, h2, lists, vs2, td2, loops, unseen)
    <3>1. c \in Cell
      BY <1>6
    <3>2. /\ h2 = Without(heap, c) /\ vs2 = [vars EXCEPT ![x] = Forsake(@, m, c)] /\ ch2 = [ch EXCEPT ![m] = Tail(ch[m])]
          /\ rest = Unmaking(m, heap[c].next) /\ heap[c].obj_id = x
          /\ td2 = IF Unreferenced(vars[x], m) THEN <<Dying(x), rest>> ELSE <<rest>>
      OBVIOUS
    <3> HIDE DEF h2, vs2, ch2, rest, x, td2
    <3>3. ch2 \in [List -> Seq(Cell)]
      BY <1>3, <3>1, <3>2, ForsakenHolds, ZenonT(60)
    <3>4. Holds(ch2, h2, lists, vs2, IF Unreferenced(vars[x], m) THEN <<Dying(x), rest>> ELSE <<rest>>, loops, unseen)
      BY <1>3, <3>1, <3>2, ForsakenHolds, Zenon
    <3> QED BY <3>2, <3>3, <3>4
  <2>5. \A l \in DOMAIN lists : ch2[l] = ch[l]
    <3>1. m \notin DOMAIN lists /\ DOMAIN lists \subseteq List /\ ch \in [List -> Seq(Cell)]
      BY <1>1, <1>2, UnmakeFrames, Zenon DEF Consistent, Holds, Typed, Unmaking
    <3> QED BY <3>1
  <2> HIDE DEF h2, vs2, td2, ch2
  <2>6. Consistent(ch2)'
    BY <1>4, <2>2, <2>3, <2>4, Zenon DEF Consistent
  <2> QED BY <1>4, <2>4, <2>5, <2>6
<1> QED BY <1>5, <1>6

-----------------------------------------------------------------------------
(* Each step keeps the invariant: cells come and go *)

\* The list l, which a data value holds, gets another chain; no other list does.
Rechained(ch, ch2, h, h2, ls, ls2, l) ==
  /\ ch2 = [ch EXCEPT ![l] = ch2[l]] /\ ch2[l] \in Seq(Cell) /\ Once(ch2[l])
  /\ ls2 = [ls EXCEPT ![l] = ls2[l]] /\ ls2[l] \in Records /\ IsChain(h2, ch2[l], ls2[l])
  /\ DOMAIN h2 \subseteq Cell /\ (\A c \in DOMAIN h2 : h2[c] \in CellType)
  /\ \A m \in List : m # l =>
       \A c \in ToSet(ch[m]) : c \in DOMAIN h2 /\ h2[c].next = h[c].next /\ h2[c].prev = h[c].prev

\* An operation that changes one chain keeps the invariant if cells and variables still correspond.
LEMMA RechainedHolds ==
  ASSUME NEW ch, NEW h, NEW ls, NEW vs, NEW lps, NEW un, Holds(ch, h, ls, vs, <<>>, lps, un),
         NEW l \in DOMAIN ls, ls[l].ref_count # 0,
         NEW ch2, NEW h2, NEW ls2, Rechained(ch, ch2, h, h2, ls, ls2, l), Shared(h2, Own(ch2)),
         NEW vs2
  PROVE  /\ ch2 \in [List -> Seq(Cell)]
         /\ Attached(h2, vs2, Own(ch2), {}, {}) => Holds(ch2, h2, ls2, vs2, <<>>, lps, un)
         /\ \A x \in Var : Attached(h2, vs2, Own(ch2), {x}, {}) => Holds(ch2, h2, ls2, vs2, <<Dying(x)>>, lps, un)
<1>1. /\ Typed(h, ls, vs, lps, un) /\ ch \in [List -> Seq(Cell)] /\ Chained(ch, h, ls, {}) /\ Looped(ch, ls, lps, un)
  BY QuietHolds
<1>2. /\ DOMAIN ls \subseteq List /\ (\A m \in DOMAIN ls : ls[m] \in Records)
      /\ lps \in Seq([list : List, results : Nat, done : BOOLEAN]) /\ un \in [List -> SUBSET Cell]
  BY <1>1 DEF Typed
<1>3. /\ ch2 = [ch EXCEPT ![l] = ch2[l]] /\ ch2[l] \in Seq(Cell) /\ Once(ch2[l])
      /\ ls2 = [ls EXCEPT ![l] = ls2[l]] /\ ls2[l] \in Records /\ IsChain(h2, ch2[l], ls2[l])
      /\ DOMAIN h2 \subseteq Cell /\ (\A c \in DOMAIN h2 : h2[c] \in CellType)
      /\ \A m \in List : m # l =>
           \A c \in ToSet(ch[m]) : c \in DOMAIN h2 /\ h2[c].next = h[c].next /\ h2[c].prev = h[c].prev
  BY DEF Rechained
<1>4. ch2 \in [List -> Seq(Cell)] /\ \A m \in List : m # l => ch2[m] = ch[m]
  BY <1>1, <1>2, <1>3
<1>5. DOMAIN ls2 = DOMAIN ls /\ \A m \in DOMAIN ls : m # l => ls2[m] = ls[m]
  BY <1>3
<1>6. Typed(h2, ls2, vs2, lps, un) <=> DOMAIN vs2 \subseteq Var /\ \A y \in DOMAIN vs2 : vs2[y] \in VarType
  BY <1>2, <1>3, <1>5 DEF Typed
<1>7. Chained(ch2, h2, ls2, {})
  <2>1. ASSUME NEW m \in List, m # l
        PROVE  (Leads(h, ch[m]) => Leads(h2, ch[m])) /\ \A list : IsChain(h, ch[m], list) => IsChain(h2, ch[m], list)
    <3> DEFINE u == ch[m]
    <3>1. u \in Seq(Cell)
      BY <1>1
    <3>2. \A k \in 1 .. Len(u) : u[k] \in ToSet(u)
      BY <3>1, SetOfSeq
    <3>3. \A k \in 1 .. Len(u) : u[k] \in DOMAIN h => u[k] \in DOMAIN h2 /\ h2[u[k]].next = h[u[k]].next /\ h2[u[k]].prev = h[u[k]].prev
      BY <1>3, <2>1, <3>2
    <3> HIDE DEF u
    <3>4. (Leads(h, u) => Leads(h2, u)) /\ \A list : IsChain(h, u, list) => IsChain(h2, u, list)
      BY <3>3, ChainApart
    <3> QED BY <3>4 DEF u
  <2>2. \A m \in List : Once(ch2[m])
    BY <1>1, <1>3, <1>4 DEF Chained
  <2>3. \A m \in DOMAIN ls2 : IsChain(h2, ch2[m], ls2[m])
    <3>1. \A m \in DOMAIN ls : m \in List /\ IsChain(h, ch[m], ls[m])
      BY <1>1, <1>2 DEF Chained
    <3> QED BY <1>3, <1>4, <1>5, <2>1, <3>1
  <2>4. \A m \in List \ DOMAIN ls2 : Leads(h2, ch2[m]) /\ ch2[m] = <<>>
    <3>1. \A m \in List \ DOMAIN ls : Leads(h, ch[m]) /\ ch[m] = <<>>
      BY <1>1 DEF Chained
    <3> QED BY <1>4, <1>5, <2>1, <3>1
  <2> QED BY <2>2, <2>3, <2>4 DEF Chained
<1>8. Looped(ch2, ls2, lps, un)
  <2>1. \A i \in DOMAIN lps : lps[i].list # l /\ lps[i].list \in DOMAIN ls
    BY <1>1, HeldIsNotLooped
  <2>2. \A i \in DOMAIN lps : lps[i].list \in DOMAIN ls2 /\ ls2[lps[i].list] = ls[lps[i].list] /\ ch2[lps[i].list] = ch[lps[i].list]
    BY <1>2, <1>4, <1>5, <2>1
  <2> QED BY <1>1, <2>2, LoopedSame
<1>9. ASSUME Attached(h2, vs2, Own(ch2), {}, {}) PROVE Holds(ch2, h2, ls2, vs2, <<>>, lps, un)
  <2>1. Typed(h2, ls2, vs2, lps, un)
    BY <1>6, <1>9 DEF Attached
  <2> QED BY <1>4, <1>7, <1>8, <1>9, <2>1, QuietHolds, Zenon
<1>10. ASSUME NEW x \in Var, Attached(h2, vs2, Own(ch2), {x}, {}) PROVE Holds(ch2, h2, ls2, vs2, <<Dying(x)>>, lps, un)
  <2>1. Typed(h2, ls2, vs2, lps, un)
    BY <1>6, <1>10 DEF Attached
  <2> QED BY <1>4, <1>7, <1>8, <1>10, <2>1, DyingHolds, Zenon
<1> QED BY <1>4, <1>9, <1>10

\* The cell at place p of l is cut out.
Cuts(ch, ch2, h, h2, ls, ls2, l, p) ==
  /\ p \in 1 .. Len(ch[l]) /\ CutOut(h, h2, ch[l], p) /\ (\A c \in DOMAIN h2 : h2[c] \in CellType)
  /\ ls2 = [ls EXCEPT ![l] = ls2[l]] /\ ls2[l] \in Records /\ Shortened(ch[l], p, ls[l], ls2[l])
  /\ ch2 = [ch EXCEPT ![l] = RemoveAt(ch[l], p)]

\* A pop changes one chain, and takes one cell from it.
LEMMA CutHolds ==
  ASSUME NEW ch, NEW h, NEW ls, NEW vs, NEW lps, NEW un, Holds(ch, h, ls, vs, <<>>, lps, un),
         NEW l \in DOMAIN ls, NEW p, NEW ch2, NEW h2, NEW ls2, Cuts(ch, ch2, h, h2, ls, ls2, l, p), NEW c, c = ch[l][p],
         NEW x, x = h[c].obj_id
  PROVE  /\ Rechained(ch, ch2, h, h2, ls, ls2, l) /\ Shared(h2, Own(ch2))
         /\ Removes(h, h2, Own(ch), Own(ch2), c) /\ Mine(h, Own(ch), l, c, x)
<1> DEFINE s == ch[l]
           t == RemoveAt(s, p)
           list2 == ls2[l]
<1>1. /\ Typed(h, ls, vs, lps, un) /\ ch \in [List -> Seq(Cell)] /\ Chained(ch, h, ls, {}) /\ Shared(h, Own(ch))
  BY QuietHolds
<1>2. /\ p \in 1 .. Len(s) /\ CutOut(h, h2, s, p) /\ (\A d \in DOMAIN h2 : h2[d] \in CellType)
      /\ ls2 = [ls EXCEPT ![l] = list2] /\ list2 \in Records /\ Shortened(s, p, ls[l], list2)
      /\ ch2 = [ch EXCEPT ![l] = t] /\ c = s[p]
  BY DEF Cuts
<1>3. l \in List /\ s \in Seq(Cell) /\ Once(s) /\ IsChain(h, s, ls[l]) /\ DOMAIN h \subseteq Cell
  BY <1>1 DEF Typed, Chained
<1> HIDE DEF list2
<1>4. IsChain(h2, t, list2) /\ t \in Seq(Cell) /\ Once(t) /\ ToSet(t) = ToSet(s) \ {c}
  <2> HIDE DEF s
  <2>1. /\ p \in 1 .. Len(s) /\ CutOut(h, h2, s, p) /\ Shortened(s, p, ls[l], list2)
        /\ s \in Seq(Cell) /\ Once(s) /\ IsChain(h, s, ls[l])
    BY <1>2, <1>3
  <2>2. IsChain(h2, t, list2)
    BY <2>1, CutChain, Zenon
  <2>3. t \in Seq(Cell)
    BY <2>1, CutChain, Zenon
  <2>4. ToSet(t) = ToSet(s) \ {s[p]}
    BY <2>1, CutChain
  <2>5. Once(t)
    BY <2>1, CutChain, Zenon
  <2> QED BY <1>2, <2>2, <2>3, <2>4, <2>5
<1> HIDE DEF t
<1>5. ch2[l] = t /\ \A m \in List : m # l => ch2[m] = ch[m]
  BY <1>1, <1>2, <1>3
<1>6. \A m \in List : m # l => \A d \in ToSet(ch[m]) : d \in DOMAIN h /\ d \notin ToSet(s)
  BY <1>1, <1>3 DEF Shared, Own
<1>7. \A i \in 1 .. Len(s) : s[i] \in ToSet(s) /\ s[i] \in Cell
  BY <1>3, SetOfSeq
<1>8. c \in ToSet(s)
  BY <1>2, <1>7
<1>9. /\ DOMAIN h2 = DOMAIN h \ {c}
      /\ \A d \in DOMAIN h2 :
           /\ h2[d].obj_id = h[d].obj_id
           /\ h2[d].next = (IF d = At(s, p - 1) THEN At(s, p + 1) ELSE h[d].next)
           /\ h2[d].prev = (IF d = At(s, p + 1) THEN At(s, p - 1) ELSE h[d].prev)
  BY <1>2 DEF CutOut
<1>10. ASSUME NEW m \in List, m # l, NEW d \in ToSet(ch[m])
       PROVE  d \in DOMAIN h2 /\ h2[d].next = h[d].next /\ h2[d].prev = h[d].prev
  <2>1. d \in DOMAIN h2 /\ d \in DOMAIN h /\ d # NULL
    BY <1>3, <1>6, <1>8, <1>9, <1>10, NullIsNoCell
  <2>2. \A k : At(s, k) \in ToSet(s) \/ At(s, k) = NULL
    BY <1>7 DEF At
  <2>3. d # At(s, p - 1) /\ d # At(s, p + 1)
    BY <1>6, <1>10, <2>1, <2>2
  <2> QED BY <1>9, <2>1, <2>3
<1>11. Rechained(ch, ch2, h, h2, ls, ls2, l)
  <2>1. ls2[l] = list2 /\ DOMAIN h2 \subseteq Cell
    BY <1>3, <1>9 DEF list2
  <2>2. ls2 = [ls EXCEPT ![l] = ls2[l]] /\ ch2 = [ch EXCEPT ![l] = ch2[l]]
    BY <1>2, <1>5, <2>1
  <2> QED BY <1>2, <1>4, <1>5, <1>10, <2>1, <2>2 DEF Rechained
<1>12. c \in Own(ch)[l] /\ \A m \in List : m # l => c \notin Own(ch)[m]
  BY <1>3, <1>6, <1>8 DEF Own
<1>13. Mine(h, Own(ch), l, c, x)
  BY <1>3, <1>12 DEF Mine
<1>14. \A m \in List : Own(ch2)[m] = Own(ch)[m] \ {c}
  <2> SUFFICES ASSUME NEW m \in List PROVE Own(ch2)[m] = Own(ch)[m] \ {c}
    OBVIOUS
  <2>1. CASE m = l
    BY <1>4, <1>5, <2>1 DEF Own
  <2>2. CASE m # l
    BY <1>5, <1>12, <2>2 DEF Own
  <2> QED BY <2>1, <2>2
<1>15. Removes(h, h2, Own(ch), Own(ch2), c)
  <2>1. \A m \in List : \A d \in Own(ch2)[m] : d \in DOMAIN h2
    BY <1>1, <1>9, <1>14 DEF Shared
  <2> QED BY <1>9, <1>14, <2>1 DEF Removes
<1>16. Shared(h2, Own(ch2))
  BY <1>1, <1>15, SharedLess, Zenon
<1> QED BY <1>11, <1>13, <1>15, <1>16

\* Where the lists and the heap are once the cell at place p of s has been popped.
Pops(s, p, c, h2, list, list2) ==
  /\ p \in 1 .. Len(s) /\ c = s[p]
  /\ CutOut(heap, h2, s, p) /\ (\A d \in DOMAIN h2 : h2[d] \in CellType)
  /\ list2 \in Records /\ Shortened(s, p, list, list2)

\* The assignments of ListPop cut out the last cell or the first.
LEMMA RelinkedCut ==
  ASSUME NEW h, NEW s \in Seq(Cell), Once(s), Leads(h, s), \A k \in 1 .. Len(s) : h[s[k]].prev = At(s, k - 1),
         NEW p \in 1 .. Len(s), DOMAIN h \subseteq Cell, \A d \in DOMAIN h : h[d] \in CellType,
         NEW c, c = s[p], NEW h2,
         \/ p = Len(s) /\ h2 = Without(Relink(h, h[c].prev, "next", NULL), c)
         \/ p = 1 /\ h2 = Without(Relink(h, h[c].next, "prev", NULL), c)
  PROVE  CutOut(h, h2, s, p) /\ \A d \in DOMAIN h2 : h2[d] \in CellType
<1> DEFINE n == Len(s)
<1>1. n \in Nat /\ p \in 1 .. n /\ \A k \in 1 .. n : s[k] \in Cell /\ s[k] \in DOMAIN h
  BY LenProperties, ElementOfSeq DEF Leads
<1>2. c \in DOMAIN h /\ h[c].prev = At(s, p - 1) /\ h[c].next = At(s, p + 1)
  BY <1>1 DEF Leads
<1>3. NULL \notin DOMAIN h
  BY NullIsNoCell
<1>4. \A k : At(s, k) \in (DOMAIN h) \cup {NULL}
  BY <1>1 DEF At
<1>5. \A v \in (DOMAIN h) \cup {NULL} : NextChanged(h, Relink(h, v, "next", NULL), v, NULL) /\ PrevChanged(h, Relink(h, v, "prev", NULL), v, NULL)
  BY <1>3, RelinkFacts
<1>6. CASE p = n /\ h2 = Without(Relink(h, h[c].prev, "next", NULL), c)
  <2>1. PICK v : v = h[c].prev
    OBVIOUS
  <2>2. PICK w : w = Relink(h, v, "next", NULL)
    OBVIOUS
  <2>3. v = At(s, p - 1) /\ At(s, p + 1) = NULL /\ v \in (DOMAIN h) \cup {NULL}
    <3>1. ~(p + 1 \in 1 .. n)
      BY <1>1, <1>6
    <3> QED BY <1>2, <1>4, <2>1, <3>1 DEF At
  <2>4. NextChanged(h, w, v, NULL)
    BY <1>5, <2>2, <2>3
  <2>5. h2 = Without(w, c)
    BY <1>6, <2>1, <2>2
  <2>6. DOMAIN h2 = DOMAIN h \ {c} /\ \A d \in DOMAIN h2 : h2[d] = w[d]
    BY <2>4, <2>5 DEF Without, NextChanged
  <2>7. \A d \in DOMAIN h2 : d # NULL
    BY <1>3, <2>6
  <2> QED BY <2>3, <2>4, <2>6, <2>7 DEF CutOut, NextChanged
<1>7. CASE p = 1 /\ h2 = Without(Relink(h, h[c].next, "prev", NULL), c)
  <2>1. PICK v : v = h[c].next
    OBVIOUS
  <2>2. PICK w : w = Relink(h, v, "prev", NULL)
    OBVIOUS
  <2>3. v = At(s, p + 1) /\ At(s, p - 1) = NULL /\ v \in (DOMAIN h) \cup {NULL}
    <3>1. ~(p - 1 \in 1 .. n)
      BY <1>1, <1>7
    <3> QED BY <1>2, <1>4, <2>1, <3>1 DEF At
  <2>4. PrevChanged(h, w, v, NULL)
    BY <1>5, <2>2, <2>3
  <2>5. h2 = Without(w, c)
    BY <1>7, <2>1, <2>2
  <2>6. DOMAIN h2 = DOMAIN h \ {c} /\ \A d \in DOMAIN h2 : h2[d] = w[d]
    BY <2>4, <2>5 DEF Without, PrevChanged
  <2>7. \A d \in DOMAIN h2 : d # NULL
    BY <1>3, <2>6
  <2> QED BY <2>3, <2>4, <2>6, <2>7 DEF CutOut, PrevChanged
<1> QED BY <1>6, <1>7

\* So the record and the memory after ListPop are those of the list without it.
LEMMA PopCuts ==
  ASSUME NEW s \in Seq(Cell), Once(s), NEW list \in Records, IsChain(heap, s, list), list.first # NULL,
         DOMAIN heap \subseteq Cell, \A d \in DOMAIN heap : heap[d] \in CellType
  PROVE  /\ Pops(s, Len(s), list.last, Without(Relink(heap, heap[list.last].prev, "next", NULL), list.last), list, PopLast(list))
         /\ Pops(s, 1, list.first, Without(Relink(heap, heap[list.first].next, "prev", NULL), list.first), list, PopFirst(list))
<1> DEFINE n == Len(s)
<1>1. n \in Nat /\ 1 \in 1 .. n /\ n \in 1 .. n
  <2>1. n \in Nat /\ list.first = At(s, 1)
    BY LenProperties DEF IsChain
  <2>2. 1 \in 1 .. n
    BY <2>1 DEF At
  <2> QED BY <2>1, <2>2
<1>2. /\ list.first = s[1] /\ list.last = s[n] /\ list.nelem = n /\ Leads(heap, s)
      /\ \A k \in 1 .. n : heap[s[k]].prev = At(s, k - 1)
  BY <1>1 DEF IsChain, At
<1>3. /\ s[1] \in DOMAIN heap /\ s[n] \in DOMAIN heap
      /\ heap[s[n]].next = NULL /\ heap[s[1]].prev = NULL
      /\ heap[s[n]].prev = At(s, n - 1) /\ heap[s[1]].next = At(s, 2)
      /\ At(s, n - 1) \in Cell \cup {NULL} /\ At(s, 2) \in Cell \cup {NULL}
      /\ (n = 1 => At(s, n - 1) = NULL /\ At(s, 2) = NULL)
  <2>1. ~(n + 1 \in 1 .. n) /\ ~(0 \in 1 .. n) /\ (n = 1 => ~(2 \in 1 .. n)) /\ 1 - 1 = 0 /\ 1 + 1 = 2
    <3>1. n \in Nat
      BY <1>1
    <3> HIDE DEF n
    <3> QED BY <3>1
  <2>2. s[1] \in DOMAIN heap /\ s[n] \in DOMAIN heap
    BY <1>1, <1>2 DEF Leads
  <2>3. heap[s[n]].next = At(s, n + 1) /\ heap[s[1]].next = At(s, 1 + 1) /\ heap[s[n]].prev = At(s, n - 1) /\ heap[s[1]].prev = At(s, 1 - 1)
    BY <1>1, <1>2 DEF Leads
  <2>4. \A k : At(s, k) \in Cell \cup {NULL}
    BY ElementOfSeq DEF At
  <2>5. At(s, n + 1) = NULL /\ At(s, 0) = NULL /\ (n = 1 => At(s, n - 1) = NULL /\ At(s, 2) = NULL)
    BY <2>1 DEF At
  <2> QED BY <2>1, <2>2, <2>3, <2>4, <2>5
<1>4. ASSUME NEW list2, list2 = PopLast(list) PROVE list2 \in Records /\ Shortened(s, n, list, list2)
  <2>1. PICK a : a = heap[list.last].prev
    OBVIOUS
  <2>2. PICK b : b = heap[list.last].next
    OBVIOUS
  <2>3. PICK first, current : first = (IF list.nelem = 1 THEN a ELSE list.first) /\ current = IF list.current_item = list.last THEN b ELSE list.current_item
    OBVIOUS
  <2>4. list2 = [list EXCEPT !.last = a, !.first = first, !.current_item = current, !.nelem = list.nelem - 1]
    BY <1>4, <2>1, <2>2, <2>3 DEF PopLast, Records
  <2>5. a = At(s, n - 1) /\ b = NULL /\ a \in Cell \cup {NULL}
    BY <1>2, <1>3, <2>1, <2>2
  <2>6. first \in Cell \cup {NULL} /\ current \in Cell \cup {NULL} /\ list.nelem - 1 \in Nat
    BY <1>1, <1>2, <2>3, <2>5 DEF Records
  <2>7. list2 \in Records /\ list2.last = a /\ list2.first = first /\ list2.nelem = list.nelem - 1
    BY <2>4, <2>5, <2>6 DEF Records
  <2>8. first = IF n = 1 THEN At(s, 2) ELSE list.first
    BY <1>2, <1>3, <2>3, <2>5
  <2> QED BY <2>5, <2>7, <2>8 DEF Shortened
<1>5. ASSUME NEW list2, list2 = PopFirst(list) PROVE list2 \in Records /\ Shortened(s, 1, list, list2)
  <2>1. PICK a : a = heap[list.first].next
    OBVIOUS
  <2>2. PICK b : b = heap[list.first].prev
    OBVIOUS
  <2>3. PICK last, current : last = (IF list.nelem = 1 THEN a ELSE list.last) /\ current = IF list.current_item = list.first THEN b ELSE list.current_item
    OBVIOUS
  <2>4. list2 = [list EXCEPT !.first = a, !.last = last, !.current_item = current, !.nelem = list.nelem - 1]
    BY <1>5, <2>1, <2>2, <2>3 DEF PopFirst, Records
  <2>5. a = At(s, 2) /\ b = NULL /\ a \in Cell \cup {NULL}
    BY <1>2, <1>3, <2>1, <2>2
  <2>6. last \in Cell \cup {NULL} /\ current \in Cell \cup {NULL} /\ list.nelem - 1 \in Nat
    BY <1>1, <1>2, <2>3, <2>5 DEF Records
  <2>7. list2 \in Records /\ list2.first = a /\ list2.last = last /\ list2.nelem = list.nelem - 1
    BY <2>4, <2>5, <2>6 DEF Records
  <2>8. last = IF 1 = n THEN At(s, 1 - 1) ELSE list.last
    BY <1>2, <1>3, <2>3, <2>5
  <2> QED BY <2>5, <2>7, <2>8 DEF Shortened
<1>6. PICK c, h2 : c = list.last /\ h2 = Without(Relink(heap, heap[c].prev, "next", NULL), c)
  OBVIOUS
<1>7. CutOut(heap, h2, s, n) /\ \A d \in DOMAIN h2 : h2[d] \in CellType
  BY <1>1, <1>2, <1>6, RelinkedCut
<1>8. PICK d, h3 : d = list.first /\ h3 = Without(Relink(heap, heap[d].next, "prev", NULL), d)
  OBVIOUS
<1>9. CutOut(heap, h3, s, 1) /\ \A e \in DOMAIN h3 : h3[e] \in CellType
  BY <1>1, <1>2, <1>8, RelinkedCut
<1>10. Pops(s, n, c, h2, list, PopLast(list))
  BY <1>1, <1>2, <1>4, <1>6, <1>7 DEF Pops
<1>11. Pops(s, 1, d, h3, list, PopFirst(list))
  BY <1>1, <1>2, <1>5, <1>8, <1>9 DEF Pops
<1> QED BY <1>6, <1>8, <1>10, <1>11

\* ListPop keeps the invariant.
LEMMA PopKeeps ==
  ASSUME NEW ch, Consistent(ch), NEW l \in List, ListPop(l)
  PROVE  \E ch2 \in [List -> Seq(Cell)] :
           /\ Consistent(ch2)' /\ SameRest(heap, heap', lists, lists')
           /\ LET p == IF PopsLast(lists[l]) THEN Len(ch[l]) ELSE 1
              IN  p \in 1 .. Len(ch[l]) /\ ch2 = [ch EXCEPT ![l] = RemoveAt(ch[l], p)]
<1>1. PICK list : list = lists[l]
  OBVIOUS
<1>2. PICK c : c = IF PopsLast(list) THEN list.last ELSE list.first
  OBVIOUS
<1>3. PICK x : x = heap[c].obj_id
  OBVIOUS
<1>4. /\ todo = <<>> /\ l \in DOMAIN lists /\ list.ref_count > 0 /\ list.first # NULL
      /\ lists' = [lists EXCEPT ![l] = IF PopsLast(list) THEN PopLast(list) ELSE PopFirst(list)]
      /\ heap' = Without(IF PopsLast(list) THEN Relink(heap, heap[c].prev, "next", NULL)
                         ELSE Relink(heap, heap[c].next, "prev", NULL), c)
      /\ LetGo(l, x, c, heap[c].orig_type)
      /\ UNCHANGED <<loops, unseen, fault>>
  BY <1>1, <1>2, <1>3 DEF ListPop, Quiet, ValueList, Has
<1>5. Holds(ch, heap, lists, vars, <<>>, loops, unseen)
  BY <1>4, Zenon DEF Consistent
<1>6. /\ ch \in [List -> Seq(Cell)] /\ ch[l] \in Seq(Cell) /\ Once(ch[l]) /\ IsChain(heap, ch[l], list) /\ list \in Records
      /\ DOMAIN heap \subseteq Cell /\ (\A d \in DOMAIN heap : heap[d] \in CellType)
      /\ list.ref_count # 0
  BY <1>1, <1>4, <1>5 DEF Holds, Chained, Typed, Records
<1>7. PICK list2 : list2 = IF PopsLast(list) THEN PopLast(list) ELSE PopFirst(list)
  OBVIOUS
<1> DEFINE h2 == heap'
           ls2 == lists'
           vs2 == vars'
           td2 == todo'
<1>8. PICK p : Pops(ch[l], p, c, h2, list, list2) /\ p = IF PopsLast(list) THEN Len(ch[l]) ELSE 1
  <2>1. PICK s : s = ch[l]
    OBVIOUS
  <2>2. /\ Pops(s, Len(s), list.last, Without(Relink(heap, heap[list.last].prev, "next", NULL), list.last), list, PopLast(list))
        /\ Pops(s, 1, list.first, Without(Relink(heap, heap[list.first].next, "prev", NULL), list.first), list, PopFirst(list))
    BY <1>4, <1>6, <2>1, PopCuts
  <2>3. CASE PopsLast(list)
    <3>1. Pops(s, Len(s), c, h2, list, list2)
      BY <1>2, <1>4, <1>7, <2>2, <2>3
    <3> QED BY <2>1, <2>3, <3>1
  <2>4. CASE ~PopsLast(list)
    <3>1. Pops(s, 1, c, h2, list, list2)
      BY <1>2, <1>4, <1>7, <2>2, <2>4
    <3> QED BY <2>1, <2>4, <3>1
  <2> QED BY <2>3, <2>4
<1>9. ls2 = [lists EXCEPT ![l] = list2] /\ UNCHANGED <<loops, unseen, fault>>
  BY <1>4, <1>7
<1>10. LET u == Unwatch(vars[x], c)
       IN  \/ vs2 = [vars EXCEPT ![x] = u] /\ td2 = <<Dying(x)>>
           \/ vs2 = [vars EXCEPT ![x] = DelParent(u, l)] /\ td2 = IF Unreferenced(u, l) THEN <<Dying(x)>> ELSE <<>>
  BY <1>4 DEF LetGo
<1> HIDE DEF h2, ls2, vs2, td2
<1>11. PICK ch2 : ch2 = [ch EXCEPT ![l] = RemoveAt(ch[l], p)]
  OBVIOUS
<1>12. Cuts(ch, ch2, heap, h2, lists, ls2, l, p) /\ c = ch[l][p]
  <2>1. ls2[l] = list2
    BY <1>4, <1>9
  <2>2. ls2 = [lists EXCEPT ![l] = ls2[l]]
    BY <1>9, <2>1
  <2> QED BY <1>1, <1>8, <1>11, <2>1, <2>2 DEF Cuts, Pops
<1>13. /\ Rechained(ch, ch2, heap, h2, lists, ls2, l) /\ Shared(h2, Own(ch2))
       /\ Removes(heap, h2, Own(ch), Own(ch2), c) /\ Mine(heap, Own(ch), l, c, x)
  <2>1. Rechained(ch, ch2, heap, h2, lists, ls2, l)
    BY <1>3, <1>4, <1>5, <1>12, CutHolds, Zenon
  <2>2. Shared(h2, Own(ch2))
    BY <1>3, <1>4, <1>5, <1>12, CutHolds, Zenon
  <2>3. Removes(heap, h2, Own(ch), Own(ch2), c)
    BY <1>3, <1>4, <1>5, <1>12, CutHolds, Zenon
  <2>4. Mine(heap, Own(ch), l, c, x)
    BY <1>3, <1>4, <1>5, <1>12, CutHolds, Zenon
  <2> QED BY <2>1, <2>2, <2>3, <2>4
<1>14. Attached(heap, vars, Own(ch), {}, {})
  BY <1>5, QuietHolds
<1>15. x \in Var
  <2>1. c \in Own(ch)[l]
    BY <1>13 DEF Mine
  <2> QED BY <1>3, <1>14, <2>1, CellVariable
<1>16. \A dead : LetsGo(vars, vs2, x, c, l, dead) => Attached(h2, vs2, Own(ch2), dead, {})
  BY <1>13, <1>14, Lost, Zenon
<1>17. \/ LetsGo(vars, vs2, x, c, l, {x}) /\ td2 = <<Dying(x)>>
       \/ LetsGo(vars, vs2, x, c, l, {}) /\ td2 = <<>>
  <2>1. PICK u : u = Unwatch(vars[x], c)
    OBVIOUS
  <2>2. CASE vs2 = [vars EXCEPT ![x] = u] /\ td2 = <<Dying(x)>>
    BY <2>1, <2>2 DEF LetsGo
  <2>3. CASE vs2 = [vars EXCEPT ![x] = DelParent(u, l)] /\ td2 = (IF Unreferenced(u, l) THEN <<Dying(x)>> ELSE <<>>)
    <3>1. CASE Unreferenced(u, l)
      BY <2>1, <2>3, <3>1 DEF LetsGo
    <3>2. CASE ~Unreferenced(u, l)
      BY <2>1, <2>3, <3>2 DEF LetsGo
    <3> QED BY <3>1, <3>2
  <2> QED BY <1>10, <2>1, <2>2, <2>3
<1>18. lists[l].ref_count # 0
  BY <1>1, <1>6
<1>19. /\ ch2 \in [List -> Seq(Cell)]
       /\ Attached(h2, vs2, Own(ch2), {}, {}) => Holds(ch2, h2, ls2, vs2, <<>>, loops, unseen)
       /\ \A y \in Var : Attached(h2, vs2, Own(ch2), {y}, {}) => Holds(ch2, h2, ls2, vs2, <<Dying(y)>>, loops, unseen)
  BY <1>4, <1>5, <1>13, <1>18, RechainedHolds
<1>20. Holds(ch2, h2, ls2, vs2, td2, loops, unseen)
  BY <1>15, <1>16, <1>17, <1>19
<1>21. Consistent(ch2)'
  BY <1>9, <1>20, Zenon DEF Consistent, h2, ls2, vs2, td2
<1>22. SameIds(heap, heap')
  BY <1>8 DEF Pops, CutOut, SameIds, h2
<1>23. SameTypes(lists, lists')
  <2>1. PopLast(list).list_type = list.list_type /\ PopFirst(list).list_type = list.list_type
    BY <1>6 DEF PopLast, PopFirst, Records
  <2> QED BY <1>1, <1>4, <1>7, <1>9, <2>1, TypeStays DEF ls2
<1>24. p \in 1 .. Len(ch[l])
  BY <1>8 DEF Pops
<1> QED BY <1>1, <1>8, <1>11, <1>19, <1>21, <1>22, <1>23, <1>24 DEF SameRest

\* The cell c of x is new on the list l, which another chain has taken in.
Enters(ch, ch2, h, h2, l, c, x) ==
  /\ c \notin DOMAIN h /\ DOMAIN h2 = DOMAIN h \cup {c} /\ h2[c].obj_id = x
  /\ \A d \in DOMAIN h : h2[d].obj_id = h[d].obj_id
  /\ ToSet(ch2[l]) = ToSet(ch[l]) \cup {c}

\* An operation that enters a variable in a list keeps the invariant.
LEMMA EnterHolds ==
  ASSUME NEW ch, NEW h, NEW ls, NEW vs, NEW lps, NEW un, Holds(ch, h, ls, vs, <<>>, lps, un),
         NEW l \in DOMAIN ls, ls[l].ref_count # 0, NEW c \in Cell, NEW x \in Var,
         NEW ch2, NEW h2, NEW ls2, Rechained(ch, ch2, h, h2, ls, ls2, l), Enters(ch, ch2, h, h2, l, c, x),
         NEW vs2, Takes(vs, vs2, x, l, c)
  PROVE  ch2 \in [List -> Seq(Cell)] /\ Holds(ch2, h2, ls2, vs2, <<>>, lps, un)
<1>1. /\ l \in List /\ ch \in [List -> Seq(Cell)] /\ Shared(h, Own(ch)) /\ Attached(h, vs, Own(ch), {}, {})
  BY QuietHolds DEF Typed
<1>2. /\ c \notin DOMAIN h /\ DOMAIN h2 = DOMAIN h \cup {c} /\ h2[c].obj_id = x
      /\ \A d \in DOMAIN h : h2[d].obj_id = h[d].obj_id
      /\ ToSet(ch2[l]) = ToSet(ch[l]) \cup {c}
  BY DEF Enters
<1>3. \A m \in List : m # l => ch2[m] = ch[m]
  BY <1>1 DEF Rechained
<1>4. \A m \in List : Own(ch2)[m] = IF m = l THEN Own(ch)[m] \cup {c} ELSE Own(ch)[m]
  BY <1>2, <1>3 DEF Own
<1>5. \A m \in List : \A d \in Own(ch)[m] : d \in DOMAIN h
  BY <1>1 DEF Shared
<1>6. Adds(Own(ch), Own(ch2), l, {c})
  BY <1>2, <1>4, <1>5 DEF Adds
<1>7. SameItems(h, h2, Own(ch))
  BY <1>2, <1>5 DEF SameItems
<1>8. Shared(h2, Own(ch2))
  BY <1>1, <1>2, <1>6, SharedMore, Zenon
<1>9. Attached(h2, vs2, Own(ch2), {}, {})
  BY <1>1, <1>2, <1>6, <1>7, Gained, Zenon
<1>10. ch2 \in [List -> Seq(Cell)]
  BY <1>8, RechainedHolds
<1>11. Holds(ch2, h2, ls2, vs2, <<>>, lps, un)
  BY <1>8, <1>9, RechainedHolds, Zenon
<1> QED BY <1>10, <1>11

\* The heap once the cell c of x has joined the chain s, whose neighbour of c alone
\* is changed.
Joins(h, h2, s, c, x) ==
  /\ c \notin DOMAIN h /\ DOMAIN h2 = DOMAIN h \cup {c} /\ h2[c].obj_id = x /\ h2[c] \in CellType
  /\ \A d \in DOMAIN h :
       /\ h2[d] \in CellType /\ h2[d].obj_id = h[d].obj_id
       /\ d \notin ToSet(s) => h2[d].next = h[d].next /\ h2[d].prev = h[d].prev

\* The list l, whose chain becomes t and its record list2, takes in c.
TakesIn(ch, ch2, h2, ls, ls2, l, t, list2, c) ==
  /\ t \in Seq(Cell) /\ Once(t) /\ ToSet(t) = ToSet(ch[l]) \cup {c}
  /\ list2 \in Records /\ IsChain(h2, t, list2)
  /\ ch2 = [ch EXCEPT ![l] = t] /\ ls2 = [ls EXCEPT ![l] = list2]

\* A longer chain is a change of one chain that enters one cell.
LEMMA Joined ==
  ASSUME NEW ch, NEW h, NEW ls, NEW vs, NEW lps, NEW un, Holds(ch, h, ls, vs, <<>>, lps, un),
         NEW l \in DOMAIN ls, NEW c \in Cell, NEW x, NEW h2, Joins(h, h2, ch[l], c, x),
         NEW ch2, NEW ls2, NEW t, NEW list2, TakesIn(ch, ch2, h2, ls, ls2, l, t, list2, c)
  PROVE  Rechained(ch, ch2, h, h2, ls, ls2, l) /\ Enters(ch, ch2, h, h2, l, c, x)
<1>1. /\ l \in List /\ ch \in [List -> Seq(Cell)] /\ Shared(h, Own(ch)) /\ DOMAIN h \subseteq Cell
  BY QuietHolds DEF Typed
<1>2. ch2[l] = t /\ ls2[l] = list2
  BY <1>1 DEF TakesIn
<1>3. ch2 = [ch EXCEPT ![l] = ch2[l]] /\ ls2 = [ls EXCEPT ![l] = ls2[l]]
  BY <1>2 DEF TakesIn
<1>4. DOMAIN h2 \subseteq Cell /\ \A d \in DOMAIN h2 : h2[d] \in CellType
  BY <1>1 DEF Joins
<1>5. ASSUME NEW m \in List, m # l, NEW d \in ToSet(ch[m])
      PROVE  d \in DOMAIN h2 /\ h2[d].next = h[d].next /\ h2[d].prev = h[d].prev
  <2>1. d \in DOMAIN h /\ d \notin ToSet(ch[l])
    BY <1>1, <1>5 DEF Shared, Own
  <2> QED BY <2>1 DEF Joins
<1>6. Rechained(ch, ch2, h, h2, ls, ls2, l)
  BY <1>2, <1>3, <1>4, <1>5 DEF Rechained, TakesIn
<1>7. Enters(ch, ch2, h, h2, l, c, x)
  BY <1>2 DEF Enters, Joins, TakesIn
<1> QED BY <1>6, <1>7

\* What the ends of a chain are.
LEMMA ChainEnds ==
  ASSUME NEW h, NEW s \in Seq(Cell), NEW list, IsChain(h, s, list), NULL \notin DOMAIN h
  PROVE  /\ list.first \in (DOMAIN h) \cup {NULL} /\ list.last \in (DOMAIN h) \cup {NULL}
         /\ list.first # NULL => list.first \in ToSet(s)
         /\ list.last # NULL => list.last \in ToSet(s)
         /\ ToSet(s) \subseteq DOMAIN h
<1>1. \A k : At(s, k) # NULL => At(s, k) \in ToSet(s)
  BY SetOfSeq DEF At
<1>2. ToSet(s) \subseteq DOMAIN h
  BY SetOfSeq DEF IsChain, Leads
<1> QED BY <1>1, <1>2 DEF IsChain

\* The assignments of ListAppend make the chain longer at its end.
LEMMA AppendJoins ==
  ASSUME NEW h, NULL \notin DOMAIN h, DOMAIN h \subseteq Cell, \A d \in DOMAIN h : h[d] \in CellType,
         NEW s \in Seq(Cell), Once(s), NEW list \in Records, IsChain(h, s, list),
         NEW c \in Cell, c \notin DOMAIN h, NEW x \in Var, NEW o \in {"value", "var"}
  PROVE  LET h2 == With(Relink(h, list.last, "next", c), c, NewCell(x, o, list.last, NULL))
             list2 == [list EXCEPT !.last = c, !.nelem = @ + 1, !.first = IF list.last = NULL THEN c ELSE @]
         IN  Joins(h, h2, s, c, x) /\ list2 \in Records /\ Appended(h, h2, s, list, list2, c) /\ c \notin ToSet(s)
<1>1. PICK last : last = list.last
  OBVIOUS
<1>2. PICK first : first = IF last = NULL THEN c ELSE list.first
  OBVIOUS
<1>3. PICK list2 : list2 = [list EXCEPT !.last = c, !.nelem = list.nelem + 1, !.first = first]
  OBVIOUS
<1>4. PICK w : w = Relink(h, last, "next", c)
  OBVIOUS
<1>5. PICK new : new = NewCell(x, o, last, NULL)
  OBVIOUS
<1>6. PICK h2 : h2 = With(w, c, new)
  OBVIOUS
<1>7. last \in (DOMAIN h) \cup {NULL} /\ (last # NULL => last \in ToSet(s)) /\ ToSet(s) \subseteq DOMAIN h
  BY <1>1, ChainEnds
<1>8. NextChanged(h, w, last, c)
  BY <1>4, <1>7, RelinkFacts
<1>9. new \in CellType /\ new.obj_id = x /\ new.prev = last /\ new.next = NULL
  BY <1>5, <1>7 DEF NewCell, CellType
<1>10. DOMAIN h2 = DOMAIN h \cup {c} /\ h2[c] = new /\ \A d \in DOMAIN h : h2[d] = w[d]
  BY <1>6, <1>8 DEF With, NextChanged
<1>11. Joins(h, h2, s, c, x)
  BY <1>7, <1>8, <1>9, <1>10 DEF Joins, NextChanged
<1>12. list2 \in Records /\ list2.last = c /\ list2.nelem = list.nelem + 1 /\ list2.first = first
  <2>1. first \in Cell \cup {NULL} /\ list.nelem + 1 \in Nat
    BY <1>2 DEF Records
  <2> QED BY <1>3, <2>1 DEF Records
<1>13. Appended(h, h2, s, list, list2, c)
  BY <1>1, <1>2, <1>7, <1>8, <1>9, <1>10, <1>12 DEF Appended, NextChanged
<1>14. list2 = [list EXCEPT !.last = c, !.nelem = @ + 1, !.first = IF list.last = NULL THEN c ELSE @]
  BY <1>1, <1>2, <1>3 DEF Records
<1> QED BY <1>1, <1>4, <1>5, <1>6, <1>7, <1>11, <1>12, <1>13, <1>14

\* The assignments of ListPush make the chain longer at its beginning.
LEMMA PushJoins ==
  ASSUME NEW h, NULL \notin DOMAIN h, DOMAIN h \subseteq Cell, \A d \in DOMAIN h : h[d] \in CellType,
         NEW s \in Seq(Cell), Once(s), NEW list \in Records, IsChain(h, s, list),
         NEW c \in Cell, c \notin DOMAIN h, NEW x \in Var, NEW o \in {"value", "var"}
  PROVE  LET h2 == With(Relink(h, list.first, "prev", c), c, NewCell(x, o, NULL, list.first))
             list2 == [list EXCEPT !.first = c, !.nelem = @ + 1, !.last = IF list.first = NULL THEN c ELSE @]
         IN  Joins(h, h2, s, c, x) /\ list2 \in Records /\ Pushed(h, h2, s, list, list2, c) /\ c \notin ToSet(s)
<1>1. PICK first : first = list.first
  OBVIOUS
<1>2. PICK last : last = IF first = NULL THEN c ELSE list.last
  OBVIOUS
<1>3. PICK list2 : list2 = [list EXCEPT !.first = c, !.nelem = list.nelem + 1, !.last = last]
  OBVIOUS
<1>4. PICK w : w = Relink(h, first, "prev", c)
  OBVIOUS
<1>5. PICK new : new = NewCell(x, o, NULL, first)
  OBVIOUS
<1>6. PICK h2 : h2 = With(w, c, new)
  OBVIOUS
<1>7. first \in (DOMAIN h) \cup {NULL} /\ (first # NULL => first \in ToSet(s)) /\ ToSet(s) \subseteq DOMAIN h
  BY <1>1, ChainEnds
<1>8. PrevChanged(h, w, first, c)
  BY <1>4, <1>7, RelinkFacts
<1>9. new \in CellType /\ new.obj_id = x /\ new.next = first /\ new.prev = NULL
  BY <1>5, <1>7 DEF NewCell, CellType
<1>10. DOMAIN h2 = DOMAIN h \cup {c} /\ h2[c] = new /\ \A d \in DOMAIN h : h2[d] = w[d]
  BY <1>6, <1>8 DEF With, PrevChanged
<1>11. Joins(h, h2, s, c, x)
  BY <1>7, <1>8, <1>9, <1>10 DEF Joins, PrevChanged
<1>12. list2 \in Records /\ list2.first = c /\ list2.nelem = list.nelem + 1 /\ list2.last = last
  <2>1. last \in Cell \cup {NULL} /\ list.nelem + 1 \in Nat
    BY <1>2 DEF Records
  <2> QED BY <1>3, <2>1 DEF Records
<1>13. Pushed(h, h2, s, list, list2, c)
  BY <1>1, <1>2, <1>7, <1>8, <1>9, <1>10, <1>12 DEF Pushed, PrevChanged
<1>14. list2 = [list EXCEPT !.first = c, !.nelem = @ + 1, !.last = IF list.first = NULL THEN c ELSE @]
  BY <1>1, <1>2, <1>3 DEF Records
<1> QED BY <1>1, <1>4, <1>5, <1>6, <1>7, <1>11, <1>12, <1>13, <1>14

\* ListAppend keeps the invariant.
LEMMA AppendKeeps ==
  ASSUME NEW ch, Consistent(ch), NEW l \in List, NEW x \in Var, NEW o \in {"value", "var"}, NEW c \in Cell, ListAppend(l, x, o, c)
  PROVE  /\ l \in DOMAIN lists /\ SameRest(heap, heap', lists, lists') /\ heap'[c].obj_id = x
         /\ \E ch2 \in [List -> Seq(Cell)] : Consistent(ch2)' /\ ch2 = [ch EXCEPT ![l] = Append(ch[l], c)]
<1>1. PICK list : list = lists[l]
  OBVIOUS
<1>2. PICK last : last = list.last
  OBVIOUS
<1>3. /\ todo = <<>> /\ l \in DOMAIN lists /\ list.ref_count > 0 /\ c \notin DOMAIN heap
      /\ heap' = With(Relink(heap, last, "next", c), c, NewCell(x, o, last, NULL))
      /\ lists' = [lists EXCEPT ![l].last = c, ![l].nelem = @ + 1, ![l].first = IF last = NULL THEN c ELSE @]
      /\ vars' = With(vars, x, Hold(VarOf(x, o), l, c))
      /\ UNCHANGED <<todo, loops, unseen, fault>> /\ Entered(x, o)
  BY <1>1, <1>2 DEF ListAppend, Quiet, ValueList, Has, FreeCells
<1>4. Holds(ch, heap, lists, vars, <<>>, loops, unseen)
  BY <1>3, Zenon DEF Consistent
<1>5. /\ ch \in [List -> Seq(Cell)] /\ ch[l] \in Seq(Cell) /\ Once(ch[l]) /\ IsChain(heap, ch[l], list) /\ list \in Records
      /\ DOMAIN heap \subseteq Cell /\ (\A d \in DOMAIN heap : heap[d] \in CellType)
      /\ list.ref_count # 0
  BY <1>1, <1>3, <1>4 DEF Holds, Chained, Typed, Records
<1>6. PICK list2 : list2 = [list EXCEPT !.last = c, !.nelem = @ + 1, !.first = IF last = NULL THEN c ELSE @]
  OBVIOUS
<1> DEFINE h2 == heap'
           ls2 == lists'
           vs2 == vars'
<1>7. ls2 = [lists EXCEPT ![l] = list2]
  BY <1>1, <1>3, <1>5, <1>6
<1>8. Takes(vars, vs2, x, l, c)
  BY <1>3 DEF Takes, VarOf, Entered, FreshVar, Has
<1>9. PICK s : s = ch[l]
  OBVIOUS
<1>10. Joins(heap, h2, s, c, x) /\ list2 \in Records /\ Appended(heap, h2, s, list, list2, c) /\ c \notin ToSet(s)
  <2>1. NULL \notin DOMAIN heap
    BY <1>5, NullIsNoCell
  <2>2. s \in Seq(Cell) /\ Once(s) /\ IsChain(heap, s, list)
    BY <1>5, <1>9
  <2>3. h2 = With(Relink(heap, list.last, "next", c), c, NewCell(x, o, list.last, NULL))
    BY <1>2, <1>3
  <2>4. list2 = [list EXCEPT !.last = c, !.nelem = @ + 1, !.first = IF list.last = NULL THEN c ELSE @]
    BY <1>2, <1>6
  <2> HIDE DEF h2
  <2> QED BY <1>3, <1>5, <2>1, <2>2, <2>3, <2>4, AppendJoins, Zenon
<1> HIDE DEF h2, ls2, vs2
<1>11. PICK t : t = Append(s, c)
  OBVIOUS
<1>12. IsChain(h2, t, list2) /\ t \in Seq(Cell) /\ Once(t) /\ ToSet(t) = ToSet(s) \cup {c}
  <2>1. s \in Seq(Cell) /\ Once(s) /\ IsChain(heap, s, list) /\ c \notin ToSet(s) /\ Appended(heap, h2, s, list, list2, c)
    BY <1>5, <1>9, <1>10
  <2> QED BY <1>11, <2>1, AppendChain
<1>13. PICK ch2 : ch2 = [ch EXCEPT ![l] = t]
  OBVIOUS
<1>14. TakesIn(ch, ch2, h2, lists, ls2, l, t, list2, c) /\ Joins(heap, h2, ch[l], c, x)
  BY <1>7, <1>9, <1>10, <1>12, <1>13 DEF TakesIn
<1>15. Rechained(ch, ch2, heap, h2, lists, ls2, l)
  BY <1>3, <1>4, <1>14, Joined, Zenon
<1>16. Enters(ch, ch2, heap, h2, l, c, x)
  BY <1>3, <1>4, <1>14, Joined, Zenon
<1>17. lists[l].ref_count # 0
  BY <1>1, <1>5
<1>18. ch2 \in [List -> Seq(Cell)]
  BY <1>3, <1>4, <1>8, <1>15, <1>16, <1>17, EnterHolds
<1>19. Holds(ch2, h2, ls2, vs2, <<>>, loops, unseen)
  BY <1>3, <1>4, <1>8, <1>15, <1>16, <1>17, EnterHolds, Zenon
<1>20. Consistent(ch2)'
  BY <1>3, <1>19, Zenon DEF Consistent, h2, ls2, vs2
<1>21. SameIds(heap, heap') /\ heap'[c].obj_id = x
  BY <1>10 DEF Joins, SameIds, h2
<1>22. SameTypes(lists, lists')
  <2>1. list2.list_type = list.list_type
    BY <1>5, <1>6 DEF Records
  <2>2. lists' = [lists EXCEPT ![l] = list2] /\ l \in DOMAIN lists
    BY <1>3, <1>7 DEF ls2
  <2>3. list2.list_type = lists[l].list_type
    BY <1>1, <2>1
  <2> QED BY <2>2, <2>3, TypeStays
<1> QED BY <1>3, <1>9, <1>11, <1>13, <1>18, <1>20, <1>21, <1>22 DEF SameRest

\* ListPush keeps the invariant.
LEMMA PushKeeps ==
  ASSUME NEW ch, Consistent(ch), NEW l \in List, NEW x \in Var, NEW o \in {"value", "var"}, NEW c \in Cell, ListPush(l, x, o, c)
  PROVE  /\ l \in DOMAIN lists /\ SameRest(heap, heap', lists, lists') /\ heap'[c].obj_id = x
         /\ \E ch2 \in [List -> Seq(Cell)] : Consistent(ch2)' /\ ch2 = [ch EXCEPT ![l] = Cons(c, ch[l])]
<1>1. PICK list : list = lists[l]
  OBVIOUS
<1>2. PICK first : first = list.first
  OBVIOUS
<1>3. /\ todo = <<>> /\ l \in DOMAIN lists /\ list.ref_count > 0 /\ c \notin DOMAIN heap
      /\ heap' = With(Relink(heap, first, "prev", c), c, NewCell(x, o, NULL, first))
      /\ lists' = [lists EXCEPT ![l].first = c, ![l].nelem = @ + 1, ![l].last = IF first = NULL THEN c ELSE @]
      /\ vars' = With(vars, x, Hold(VarOf(x, o), l, c))
      /\ UNCHANGED <<todo, loops, unseen, fault>> /\ Entered(x, o)
  BY <1>1, <1>2 DEF ListPush, Quiet, ValueList, Has, FreeCells
<1>4. Holds(ch, heap, lists, vars, <<>>, loops, unseen)
  BY <1>3, Zenon DEF Consistent
<1>5. /\ ch \in [List -> Seq(Cell)] /\ ch[l] \in Seq(Cell) /\ Once(ch[l]) /\ IsChain(heap, ch[l], list) /\ list \in Records
      /\ DOMAIN heap \subseteq Cell /\ (\A d \in DOMAIN heap : heap[d] \in CellType)
      /\ list.ref_count # 0
  BY <1>1, <1>3, <1>4 DEF Holds, Chained, Typed, Records
<1>6. PICK list2 : list2 = [list EXCEPT !.first = c, !.nelem = @ + 1, !.last = IF first = NULL THEN c ELSE @]
  OBVIOUS
<1> DEFINE h2 == heap'
           ls2 == lists'
           vs2 == vars'
<1>7. ls2 = [lists EXCEPT ![l] = list2]
  BY <1>1, <1>3, <1>5, <1>6
<1>8. Takes(vars, vs2, x, l, c)
  BY <1>3 DEF Takes, VarOf, Entered, FreshVar, Has
<1>9. PICK s : s = ch[l]
  OBVIOUS
<1>10. Joins(heap, h2, s, c, x) /\ list2 \in Records /\ Pushed(heap, h2, s, list, list2, c) /\ c \notin ToSet(s)
  <2>1. NULL \notin DOMAIN heap
    BY <1>5, NullIsNoCell
  <2>2. s \in Seq(Cell) /\ Once(s) /\ IsChain(heap, s, list)
    BY <1>5, <1>9
  <2>3. h2 = With(Relink(heap, list.first, "prev", c), c, NewCell(x, o, NULL, list.first))
    BY <1>2, <1>3
  <2>4. list2 = [list EXCEPT !.first = c, !.nelem = @ + 1, !.last = IF list.first = NULL THEN c ELSE @]
    BY <1>2, <1>6
  <2> HIDE DEF h2
  <2> QED BY <1>3, <1>5, <2>1, <2>2, <2>3, <2>4, PushJoins, Zenon
<1> HIDE DEF h2, ls2, vs2
<1>11. PICK t : t = <<c>> \o s /\ t = Cons(c, s)
  BY DEF Cons
<1>12. IsChain(h2, t, list2) /\ t \in Seq(Cell) /\ Once(t) /\ ToSet(t) = ToSet(s) \cup {c}
  <2>1. s \in Seq(Cell) /\ Once(s) /\ IsChain(heap, s, list) /\ c \notin ToSet(s) /\ Pushed(heap, h2, s, list, list2, c)
    BY <1>5, <1>9, <1>10
  <2> QED BY <1>11, <2>1, PushChain
<1>13. PICK ch2 : ch2 = [ch EXCEPT ![l] = t]
  OBVIOUS
<1>14. TakesIn(ch, ch2, h2, lists, ls2, l, t, list2, c) /\ Joins(heap, h2, ch[l], c, x)
  BY <1>7, <1>9, <1>10, <1>12, <1>13 DEF TakesIn
<1>15. Rechained(ch, ch2, heap, h2, lists, ls2, l)
  BY <1>3, <1>4, <1>14, Joined, Zenon
<1>16. Enters(ch, ch2, heap, h2, l, c, x)
  BY <1>3, <1>4, <1>14, Joined, Zenon
<1>17. lists[l].ref_count # 0
  BY <1>1, <1>5
<1>18. ch2 \in [List -> Seq(Cell)]
  BY <1>3, <1>4, <1>8, <1>15, <1>16, <1>17, EnterHolds
<1>19. Holds(ch2, h2, ls2, vs2, <<>>, loops, unseen)
  BY <1>3, <1>4, <1>8, <1>15, <1>16, <1>17, EnterHolds, Zenon
<1>20. Consistent(ch2)'
  BY <1>3, <1>19, Zenon DEF Consistent, h2, ls2, vs2
<1>21. SameIds(heap, heap') /\ heap'[c].obj_id = x
  BY <1>10 DEF Joins, SameIds, h2
<1>22. SameTypes(lists, lists')
  <2>1. list2.list_type = list.list_type
    BY <1>5, <1>6 DEF Records
  <2>2. lists' = [lists EXCEPT ![l] = list2] /\ l \in DOMAIN lists
    BY <1>3, <1>7 DEF ls2
  <2>3. list2.list_type = lists[l].list_type
    BY <1>1, <2>1
  <2> QED BY <2>2, <2>3, TypeStays
<1> QED BY <1>3, <1>9, <1>11, <1>13, <1>18, <1>20, <1>21, <1>22 DEF SameRest

-----------------------------------------------------------------------------
(* Each step keeps the invariant: the sequencing of a list *)

\* The cells ahead of the last one are all; those ahead of a cell that has been
\* handed out are ahead of the one before it.
LEMMA AheadStart ==
  ASSUME NEW s \in Seq(Cell), Once(s)
  PROVE  Ahead(s, At(s, Len(s)), ToSet(s))
<1>1. PICK n : n = Len(s)
  OBVIOUS
<1>2. n \in Nat /\ ToSet(s) = {s[q] : q \in 1 .. n} /\ \A k \in 1 .. n : s[k] \in Cell
  BY <1>1, LenProperties, SetOfSeq
<1>3. ASSUME At(s, n) = NULL PROVE ToSet(s) = {}
  <2>1. n \notin 1 .. n
    BY <1>1, <1>2, <1>3, NullIsNoCell DEF At
  <2>2. 1 .. n = {}
    BY <1>2, <2>1
  <2> QED BY <1>2, <2>2
<1>4. ASSUME NEW p \in 1 .. n, At(s, n) = s[p] PROVE ToSet(s) \subseteq {s[q] : q \in 1 .. p}
  <2>1. n \in 1 .. n
    BY <1>2
  <2>2. p = n
    BY <1>1, <1>4, <2>1 DEF At, Once
  <2> QED BY <1>2, <2>2
<1> QED BY <1>1, <1>3, <1>4 DEF Ahead

\* When a cell has been handed out, what has not is not behind the one before it.
LEMMA AheadNext ==
  ASSUME NEW s \in Seq(Cell), Once(s), NEW p \in 1 .. Len(s), NEW un, Ahead(s, s[p], un)
  PROVE  Ahead(s, At(s, p - 1), un \ {s[p]})
<1>1. PICK n : n = Len(s)
  OBVIOUS
<1>2. n \in Nat /\ p \in 1 .. n /\ (\A k \in 1 .. n : s[k] \in Cell) /\ \A i, j \in 1 .. n : s[i] = s[j] => i = j
  BY <1>1, LenProperties, ElementOfSeq DEF Once
<1>3. \A u \in un : \E q \in 1 .. p : u = s[q]
  BY DEF Ahead
<1>4. \A u \in un \ {s[p]} : \E q \in 1 .. p - 1 : u = s[q]
  <2> SUFFICES ASSUME NEW u \in un, u # s[p] PROVE \E q \in 1 .. p - 1 : u = s[q]
    OBVIOUS
  <2>1. PICK q \in 1 .. p : u = s[q]
    BY <1>3
  <2>2. q # p
    BY <2>1
  <2>3. q \in 1 .. p - 1
    BY <1>2, <2>2
  <2> QED BY <2>1, <2>3
<1>5. ASSUME At(s, p - 1) = NULL PROVE un \ {s[p]} = {}
  <2>1. p - 1 \notin 1 .. n
    BY <1>1, <1>2, <1>5, NullIsNoCell DEF At
  <2>2. 1 .. p - 1 = {}
    BY <1>2, <2>1
  <2> QED BY <1>4, <2>2
<1>6. ASSUME NEW k \in 1 .. n, At(s, p - 1) = s[k] PROVE un \ {s[p]} \subseteq {s[q] : q \in 1 .. k}
  <2>1. s[k] # NULL
    BY <1>2, NullIsNoCell
  <2>2. p - 1 \in 1 .. n /\ At(s, p - 1) = s[p - 1]
    BY <1>1, <1>6, <2>1 DEF At
  <2>3. k = p - 1
    BY <1>2, <1>6, <2>2
  <2> QED BY <1>4, <2>3
<1> QED BY <1>1, <1>5, <1>6 DEF Ahead

\* The innermost loop goes on to frame, its list m to list2, of which cells are
\* to come.
Sequences(ch, ls, ls2, lps, lps2, un, un2, list2, frame, cells) ==
  LET m == lps[1].list
  IN  /\ lps # <<>>
      /\ list2 \in Records /\ list2.first = ls[m].first /\ list2.last = ls[m].last
      /\ list2.nelem = ls[m].nelem /\ list2.ref_count = ls[m].ref_count
      /\ frame \in [list : List, results : Nat, done : BOOLEAN] /\ frame.list = m
      /\ cells \subseteq Cell /\ (frame.done => cells = {})
      /\ ~frame.done /\ list2.state = SEQUENCING => Ahead(ch[m], list2.current_item, cells)
      /\ ls2 = [ls EXCEPT ![m] = list2] /\ lps2 = [lps EXCEPT ![1] = frame] /\ un2 = [un EXCEPT ![m] = cells]

\* A step of the sequencing keeps the invariant.
LEMMA SequenceHolds ==
  ASSUME NEW ch, NEW h, NEW ls, NEW vs, NEW lps, NEW un, Holds(ch, h, ls, vs, <<>>, lps, un),
         NEW ls2, NEW lps2, NEW un2, NEW list2, NEW frame, NEW cells,
         Sequences(ch, ls, ls2, lps, lps2, un, un2, list2, frame, cells)
  PROVE  Holds(ch, h, ls2, vs, <<>>, lps2, un2)
<1>1. PICK m : m = lps[1].list
  OBVIOUS
<1>2. /\ lps # <<>>
      /\ list2 \in Records /\ list2.first = ls[m].first /\ list2.last = ls[m].last
      /\ list2.nelem = ls[m].nelem /\ list2.ref_count = ls[m].ref_count
      /\ frame \in [list : List, results : Nat, done : BOOLEAN] /\ frame.list = m
      /\ cells \subseteq Cell /\ (frame.done => cells = {})
      /\ ~frame.done /\ list2.state = SEQUENCING => Ahead(ch[m], list2.current_item, cells)
      /\ ls2 = [ls EXCEPT ![m] = list2] /\ lps2 = [lps EXCEPT ![1] = frame] /\ un2 = [un EXCEPT ![m] = cells]
  BY <1>1 DEF Sequences
<1>3. /\ Typed(h, ls, vs, lps, un) /\ ch \in [List -> Seq(Cell)] /\ Chained(ch, h, ls, {}) /\ Shared(h, Own(ch))
      /\ Attached(h, vs, Own(ch), {}, {}) /\ Looped(ch, ls, lps, un)
  BY QuietHolds
<1>4. lps \in Seq([list : List, results : Nat, done : BOOLEAN]) /\ un \in [List -> SUBSET Cell]
  BY <1>3 DEF Typed
<1>5. 1 \in DOMAIN lps /\ lps2 \in Seq([list : List, results : Nat, done : BOOLEAN]) /\ DOMAIN lps2 = DOMAIN lps
      /\ lps2[1] = frame /\ \A i \in DOMAIN lps : i # 1 => lps2[i] = lps[i]
  BY <1>2, <1>4, EmptySeq
<1>6. m \in DOMAIN ls /\ ls[m].ref_count = 0 /\ \A i \in DOMAIN lps : lps[i].list = m => i = 1
  BY <1>1, <1>3, <1>5 DEF Looped
<1>7. m \in List /\ DOMAIN ls2 = DOMAIN ls /\ ls2[m] = list2 /\ \A l \in DOMAIN ls : l # m => ls2[l] = ls[l]
  BY <1>2, <1>3, <1>6 DEF Typed
<1>8. un2 \in [List -> SUBSET Cell] /\ un2[m] = cells /\ \A l \in List : l # m => un2[l] = un[l]
  BY <1>2, <1>4, <1>7
<1>9. Typed(h, ls2, vs, lps2, un2)
  BY <1>2, <1>3, <1>5, <1>7, <1>8 DEF Typed
<1>10. Chained(ch, h, ls2, {})
  <2>1. \A l \in DOMAIN ls2 : IsChain(h, ch[l], ls2[l])
    BY <1>2, <1>3, <1>7 DEF Chained, IsChain
  <2> QED BY <1>3, <1>7, <2>1 DEF Chained
<1>11. Looped(ch, ls2, lps2, un2)
  <2>1. \A i \in DOMAIN lps2 : lps2[i].list = lps[i].list
    BY <1>1, <1>2, <1>5
  <2>2. \A i, j \in DOMAIN lps2 : lps2[i].list = lps2[j].list => i = j
    BY <1>3, <1>5, <2>1 DEF Looped
  <2>3. ASSUME NEW i \in DOMAIN lps2
        PROVE  LET k == lps2[i].list
               IN  /\ k \in DOMAIN ls2 /\ ls2[k].ref_count = 0
                   /\ lps2[i].done => un2[k] = {}
                   /\ ~lps2[i].done /\ ls2[k].state = SEQUENCING => Ahead(ch[k], ls2[k].current_item, un2[k])
    <3>1. CASE i = 1
      BY <1>2, <1>5, <1>6, <1>7, <1>8, <3>1
    <3>2. CASE i # 1
      <4>1. PICK k : k = lps[i].list
        OBVIOUS
      <4>2. k # m /\ i \in DOMAIN lps
        BY <1>5, <1>6, <3>2, <4>1
      <4>3. /\ k \in DOMAIN ls /\ ls[k].ref_count = 0 /\ (lps[i].done => un[k] = {})
            /\ ~lps[i].done /\ ls[k].state = SEQUENCING => Ahead(ch[k], ls[k].current_item, un[k])
        BY <1>3, <4>1, <4>2 DEF Looped
      <4>4. k \in List
        BY <1>3, <4>3 DEF Typed
      <4>5. lps2[i] = lps[i] /\ ls2[k] = ls[k] /\ un2[k] = un[k]
        BY <1>5, <1>7, <1>8, <3>2, <4>2, <4>3, <4>4
      <4> QED BY <1>7, <4>1, <4>3, <4>5
    <3> QED BY <3>1, <3>2
  <2> QED BY <2>2, <2>3 DEF Looped
<1> QED BY <1>3, <1>9, <1>10, <1>11, QuietHolds, Zenon

\* A sequence that is not empty has a first element.
LEMMA FirstOfSeq ==
  ASSUME NEW S, NEW s \in Seq(S), s # <<>>
  PROVE  1 \in DOMAIN s /\ s[1] \in S
BY EmptySeq

\* ListGetNext keeps the invariant.
LEMMA SetNextKeeps ==
  ASSUME NEW ch, Consistent(ch), SetNext
  PROVE  ch \in [List -> Seq(Cell)] /\ Consistent(ch)' /\ UNCHANGED heap
<1>1. PICK m : m = loops[1].list
  OBVIOUS
<1>2. PICK list : list = lists[m]
  OBVIOUS
<1>3. PICK c : c = IF list.state = IDLE THEN list.last ELSE list.current_item
  OBVIOUS
<1>4. todo = <<>> /\ loops # <<>> /\ ~loops[1].done /\ UNCHANGED <<heap, vars, todo>>
  BY Zenon DEF SetNext, Quiet
<1>5. Holds(ch, heap, lists, vars, <<>>, loops, unseen) /\ fault \in {"none", "no list", "freed cell"}
  BY <1>4, Zenon DEF Consistent
<1>6. /\ ch \in [List -> Seq(Cell)] /\ Typed(heap, lists, vars, loops, unseen) /\ Chained(ch, heap, lists, {})
      /\ Looped(ch, lists, loops, unseen)
  BY <1>5, QuietHolds, Zenon
<1>7. /\ loops \in Seq([list : List, results : Nat, done : BOOLEAN]) /\ unseen \in [List -> SUBSET Cell]
      /\ DOMAIN heap \subseteq Cell /\ \A d \in DOMAIN heap : heap[d] \in CellType
  BY <1>6 DEF Typed
<1>8. 1 \in DOMAIN loops /\ loops[1] \in [list : List, results : Nat, done : BOOLEAN]
  BY <1>4, <1>7, FirstOfSeq
<1>9. /\ m \in DOMAIN lists /\ m \in List
      /\ list.state = SEQUENCING => Ahead(ch[m], list.current_item, unseen[m])
  BY <1>1, <1>2, <1>4, <1>6, <1>8 DEF Looped
<1>10. PICK s : s = ch[m]
  OBVIOUS
<1>11. /\ list \in Records /\ s \in Seq(Cell) /\ Once(s) /\ IsChain(heap, s, list) /\ Chain(m) = s
  BY <1>2, <1>6, <1>9, <1>10, ChainFound DEF Typed, Chained
<1>12. PICK cells : cells = IF list.state = IDLE THEN ToSet(s) ELSE unseen[m]
  OBVIOUS
<1>13. Ahead(s, c, cells) /\ cells \subseteq Cell
  <2>1. CASE list.state = IDLE
    <3>1. c = At(s, Len(s)) /\ cells = ToSet(s)
      BY <1>3, <1>11, <1>12, <2>1 DEF IsChain
    <3>2. ToSet(s) \subseteq Cell
      BY <1>11, SetOfSeq
    <3> QED BY <1>11, <3>1, <3>2, AheadStart
  <2>2. CASE list.state # IDLE
    <3>1. list.state = SEQUENCING /\ c = list.current_item /\ cells = unseen[m]
      BY <1>3, <1>11, <1>12, <2>2 DEF Records
    <3> QED BY <1>7, <1>9, <1>10, <3>1
  <2> QED BY <2>1, <2>2
<1> DEFINE ls2 == lists'
           lps2 == loops'
           un2 == unseen'
<1>14. \/ /\ c = NULL /\ UNCHANGED fault
          /\ lists' = [lists EXCEPT ![m].state = IDLE, ![m].current_item = NULL]
          /\ loops' = [loops EXCEPT ![1].done = TRUE]
          /\ unseen' = [unseen EXCEPT ![m] = cells]
       \/ /\ c # NULL /\ c \in ToSet(s) /\ UNCHANGED fault
          /\ lists' = [lists EXCEPT ![m].state = SEQUENCING, ![m].current_item = heap[c].prev]
          /\ loops' = [loops EXCEPT ![1].results = @ + 1]
          /\ unseen' = [unseen EXCEPT ![m] = cells \ {c}]
       \/ fault' = "freed cell" /\ UNCHANGED <<lists, loops, unseen>>
  BY <1>1, <1>2, <1>3, <1>11, <1>12, Zenon DEF SetNext, Start
<1>15. CASE /\ c = NULL /\ UNCHANGED fault
            /\ lists' = [lists EXCEPT ![m].state = IDLE, ![m].current_item = NULL]
            /\ loops' = [loops EXCEPT ![1].done = TRUE]
            /\ unseen' = [unseen EXCEPT ![m] = cells]
  <2>1. PICK list2 : list2 = [list EXCEPT !.state = IDLE, !.current_item = NULL]
    OBVIOUS
  <2>2. PICK frame : frame = [loops[1] EXCEPT !.done = TRUE]
    OBVIOUS
  <2>3. ls2 = [lists EXCEPT ![m] = list2] /\ lps2 = [loops EXCEPT ![1] = frame] /\ un2 = [unseen EXCEPT ![m] = cells]
    BY <1>2, <1>15, <2>1, <2>2
  <2>4. /\ list2 \in Records /\ list2.first = list.first /\ list2.last = list.last
        /\ list2.nelem = list.nelem /\ list2.ref_count = list.ref_count
    BY <1>11, <2>1 DEF Records
  <2>5. frame \in [list : List, results : Nat, done : BOOLEAN] /\ frame.list = m /\ frame.done
    BY <1>1, <1>8, <2>2
  <2>6. cells = {}
    BY <1>13, <1>15 DEF Ahead
  <2> HIDE DEF ls2, lps2, un2
  <2>7. Sequences(ch, lists, ls2, loops, lps2, unseen, un2, list2, frame, cells)
    BY <1>1, <1>2, <1>4, <2>3, <2>4, <2>5, <2>6 DEF Sequences
  <2>8. Holds(ch, heap, ls2, vars, <<>>, lps2, un2)
    BY <1>5, <2>7, SequenceHolds, Zenon
  <2> QED BY <1>4, <1>5, <1>6, <1>15, <2>8, Zenon DEF Consistent, ls2, lps2, un2
<1>16. CASE /\ c # NULL /\ c \in ToSet(s) /\ UNCHANGED fault
            /\ lists' = [lists EXCEPT ![m].state = SEQUENCING, ![m].current_item = heap[c].prev]
            /\ loops' = [loops EXCEPT ![1].results = @ + 1]
            /\ unseen' = [unseen EXCEPT ![m] = cells \ {c}]
  <2>0. PICK before : before = heap[c].prev
    OBVIOUS
  <2>1. PICK list2 : list2 = [list EXCEPT !.state = SEQUENCING, !.current_item = before]
    OBVIOUS
  <2>2. PICK frame : frame = [loops[1] EXCEPT !.results = @ + 1]
    OBVIOUS
  <2>3. PICK left : left = cells \ {c}
    OBVIOUS
  <2>4. ls2 = [lists EXCEPT ![m] = list2] /\ lps2 = [loops EXCEPT ![1] = frame] /\ un2 = [unseen EXCEPT ![m] = left]
    BY <1>2, <1>16, <2>0, <2>1, <2>2, <2>3
  <2>5. PICK p \in 1 .. Len(s) : s[p] = c
    BY <1>11, <1>16, SetOfSeq
  <2>6. c \in DOMAIN heap /\ before = At(s, p - 1)
    BY <1>11, <2>0, <2>5 DEF IsChain, Leads
  <2>7. before \in Cell \cup {NULL}
    BY <1>7, <2>0, <2>6 DEF CellType
  <2>8. /\ list2 \in Records /\ list2.first = list.first /\ list2.last = list.last /\ list2.current_item = before
        /\ list2.nelem = list.nelem /\ list2.ref_count = list.ref_count
    BY <1>11, <2>1, <2>7 DEF Records
  <2>9. frame \in [list : List, results : Nat, done : BOOLEAN] /\ frame.list = m /\ ~frame.done
    BY <1>1, <1>4, <1>8, <2>2
  <2>10. Ahead(s, before, left) /\ left \subseteq Cell
    BY <1>11, <1>13, <2>3, <2>5, <2>6, AheadNext
  <2> HIDE DEF ls2, lps2, un2
  <2>11. Sequences(ch, lists, ls2, loops, lps2, unseen, un2, list2, frame, left)
    BY <1>1, <1>2, <1>4, <1>10, <2>4, <2>8, <2>9, <2>10 DEF Sequences
  <2>12. Holds(ch, heap, ls2, vars, <<>>, lps2, un2)
    BY <1>5, <2>11, SequenceHolds, Zenon
  <2> QED BY <1>4, <1>5, <1>6, <1>16, <2>12, Zenon DEF Consistent, ls2, lps2, un2
<1>17. CASE fault' = "freed cell" /\ UNCHANGED <<lists, loops, unseen>>
  BY <1>4, <1>5, <1>6, <1>17, Zenon DEF Consistent
<1> QED BY <1>4, <1>6, <1>14, <1>15, <1>16, <1>17, Zenon

-----------------------------------------------------------------------------
(* Each step keeps the invariant: a selection *)

\* F is what Held goes through.
Holding(F, vs, m, cs, items, n) ==
  /\ F[0] = vs
  /\ \A k \in 1 .. n : F[k] = [F[k - 1] EXCEPT ![items[k]] = Hold(@, m, cs[k])]

HeldFunction(F, vs, m, cs, items, n) ==
  F = [k \in 0 .. n |-> IF k = 0 THEN vs ELSE [F[k - 1] EXCEPT ![items[k]] = Hold(@, m, cs[k])]]

\* The recursive function of Held exists.
LEMMA HeldExists ==
  ASSUME NEW vs, NEW m, NEW cs, NEW items, NEW n \in Nat
  PROVE  \E F : HeldFunction(F, vs, m, cs, items, n)
<1> DEFINE T == {j \in Nat : \E F : HeldFunction(F, vs, m, cs, items, j)}
<1>1. 0 \in T
  <2> DEFINE F == [k \in 0 .. 0 |-> vs]
  <2>1. F = [k \in 0 .. 0 |-> IF k = 0 THEN vs ELSE [F[k - 1] EXCEPT ![items[k]] = Hold(@, m, cs[k])]]
    OBVIOUS
  <2> HIDE DEF F
  <2> QED BY <2>1 DEF HeldFunction
<1>2. ASSUME NEW j \in Nat, j \in T PROVE j + 1 \in T
  <2>1. PICK F : HeldFunction(F, vs, m, cs, items, j)
    BY <1>2
  <2>2. F = [k \in 0 .. j |-> IF k = 0 THEN vs ELSE [F[k - 1] EXCEPT ![items[k]] = Hold(@, m, cs[k])]]
    BY <2>1 DEF HeldFunction
  <2>3. PICK v : v = [F[j] EXCEPT ![items[j + 1]] = Hold(@, m, cs[j + 1])]
    OBVIOUS
  <2>4. PICK G : G = [k \in 0 .. j + 1 |-> IF k = j + 1 THEN v ELSE F[k]]
    OBVIOUS
  <2>5. \A k \in 0 .. j : G[k] = F[k]
    BY <2>4
  <2>6. G[j + 1] = v
    BY <2>4
  <2>7. ASSUME NEW k \in 0 .. j + 1
        PROVE  G[k] = IF k = 0 THEN vs ELSE [G[k - 1] EXCEPT ![items[k]] = Hold(@, m, cs[k])]
    <3>1. CASE k = 0
      <4>1. 0 \in 0 .. j /\ F[0] = vs
        BY <2>2
      <4>2. G[0] = vs
        BY <2>5, <4>1
      <4> QED BY <3>1, <4>2
    <3>2. CASE k # 0 /\ k # j + 1
      <4>1. k \in 0 .. j /\ k - 1 \in 0 .. j
        BY <3>2
      <4> QED BY <2>2, <2>5, <3>2, <4>1
    <3>3. CASE k = j + 1
      <4>1. k - 1 = j /\ j \in 0 .. j /\ k # 0
        BY <3>3
      <4> QED BY <2>3, <2>5, <2>6, <3>3, <4>1
    <3> QED BY <3>1, <3>2, <3>3
  <2>8. G = [k \in 0 .. j + 1 |-> IF k = 0 THEN vs ELSE [G[k - 1] EXCEPT ![items[k]] = Hold(@, m, cs[k])]]
    <3>1. G = [k \in 0 .. j + 1 |-> G[k]]
      BY <2>4
    <3> QED BY <2>7, <3>1
  <2>9. HeldFunction(G, vs, m, cs, items, j + 1)
    BY <2>8 DEF HeldFunction
  <2> QED BY <2>9
<1>3. Nat \subseteq T
  <2> HIDE DEF T
  <2> QED BY <1>1, <1>2, EveryNumber
<1> QED BY <1>3

\* Held is its last value.
LEMMA HeldIs ==
  ASSUME NEW m, NEW cs, NEW items, Len(cs) \in Nat
  PROVE  \E F : Holding(F, vars, m, cs, items, Len(cs)) /\ Held(m, cs, items) = F[Len(cs)]
<1> DEFINE n == Len(cs)
           F == CHOOSE F : HeldFunction(F, vars, m, cs, items, n)
<1>1. HeldFunction(F, vars, m, cs, items, n)
  BY HeldExists
<1>2. Held(m, cs, items) = F[n]
  BY DEF Held, HeldFunction
<1> HIDE DEF F
<1>3. PICK k : k = n
  OBVIOUS
<1>4. k \in Nat /\ HeldFunction(F, vars, m, cs, items, k)
  BY <1>1, <1>3
<1> HIDE DEF n
<1>5. Holding(F, vars, m, cs, items, k)
  <2>1. F = [j \in 0 .. k |-> IF j = 0 THEN vars ELSE [F[j - 1] EXCEPT ![items[j]] = Hold(@, m, cs[j])]]
    BY <1>4 DEF HeldFunction
  <2>2. 0 \in 0 .. k /\ \A j \in 1 .. k : j \in 0 .. k /\ j # 0
    BY <1>4
  <2>3. F[0] = vars
    BY <2>1, <2>2
  <2>4. \A j \in 1 .. k : F[j] = [F[j - 1] EXCEPT ![items[j]] = Hold(@, m, cs[j])]
    BY <2>1, <2>2
  <2> QED BY <2>3, <2>4 DEF Holding
<1> QED BY <1>2, <1>3, <1>5 DEF n

\* The variables items are in cells of h2 that no list has, in this order.
Filled(h2, vs, own, cs, items) ==
  /\ cs \in Seq(Cell) /\ Once(cs) /\ items \in [1 .. Len(cs) -> DOMAIN vs]
  /\ \A k \in 1 .. Len(cs) : h2[cs[k]].obj_id = items[k] /\ \A l \in List : cs[k] \notin own[l]

\* One more of them is held, from vs and own1 to vs2 and own2.
TakesNext(own, own1, own2, vs, vs2, m, cs, items, k) ==
  /\ k \in 0 .. Len(cs) - 1
  /\ own1 = [own EXCEPT ![m] = {cs[i] : i \in 1 .. k}] /\ own2 = [own EXCEPT ![m] = {cs[i] : i \in 1 .. k + 1}]
  /\ vs2 = [vs EXCEPT ![items[k + 1]] = Hold(@, m, cs[k + 1])]

\* One more cell of a selection gets its variable.
LEMMA TakenStep ==
  ASSUME NEW h2, NEW vs, NEW v1, NEW own, NEW own1, NEW m \in List, NEW cs, NEW items, NEW F, NEW k,
         Attached(h2, vs, own1, {}, {}), DOMAIN vs = DOMAIN v1,
         Filled(h2, v1, own, cs, items), own \in [List -> SUBSET Cell], own[m] = {},
         NEW own2, NEW vs2, TakesNext(own, own1, own2, vs, vs2, m, cs, items, k)
  PROVE  Attached(h2, vs2, own2, {}, {})
<1>0. /\ k \in 0 .. Len(cs) - 1
      /\ own1 = [own EXCEPT ![m] = {cs[i] : i \in 1 .. k}] /\ own2 = [own EXCEPT ![m] = {cs[i] : i \in 1 .. k + 1}]
      /\ vs2 = [vs EXCEPT ![items[k + 1]] = Hold(@, m, cs[k + 1])]
  BY DEF TakesNext
<1>1. PICK n : n = Len(cs)
  OBVIOUS
<1>2. n \in Nat /\ cs \in Seq(Cell) /\ (\A i \in 1 .. n : cs[i] \in Cell) /\ \A i, j \in 1 .. n : cs[i] = cs[j] => i = j
  BY <1>1, LenProperties, ElementOfSeq DEF Filled, Once
<1>3. k + 1 \in 1 .. n /\ k \in Nat /\ (\A i \in 1 .. k : i \in 1 .. n /\ i # k + 1)
  BY <1>0, <1>1, <1>2
<1>4. PICK c, x : c = cs[k + 1] /\ x = items[k + 1]
  OBVIOUS
<1>5. c \in Cell /\ x \in DOMAIN vs /\ h2[c].obj_id = x /\ \A l \in List : c \notin own[l]
  BY <1>1, <1>2, <1>3, <1>4 DEF Filled
<1>6. DOMAIN vs \subseteq Var
  BY DEF Attached
<1>7. Adds(own1, own2, m, {c})
  <2>1. {cs[i] : i \in 1 .. k + 1} = {cs[i] : i \in 1 .. k} \cup {c}
    <3>1. \A i \in 1 .. k + 1 : i \in 1 .. k \/ i = k + 1
      BY <1>3
    <3>2. \A i \in 1 .. k : i \in 1 .. k + 1
      BY <1>3
    <3>3. k + 1 \in 1 .. k + 1
      BY <1>3
    <3> QED BY <1>4, <3>1, <3>2, <3>3
  <2>2. c \notin {cs[i] : i \in 1 .. k}
    BY <1>2, <1>3, <1>4
  <2>3. own1[m] = {cs[i] : i \in 1 .. k} /\ own2[m] = {cs[i] : i \in 1 .. k + 1}
    BY <1>0
  <2>4. \A l \in List : l # m => own1[l] = own[l] /\ own2[l] = own[l]
    BY <1>0
  <2> QED BY <1>5, <2>1, <2>2, <2>3, <2>4 DEF Adds
<1>8. SameItems(h2, h2, own1)
  BY DEF SameItems
<1>9. Takes(vs, vs2, x, m, c)
  <2>1. vs2 = [vs EXCEPT ![x] = Hold(vs[x], m, c)]
    BY <1>0, <1>4
  <2>2. DOMAIN vs \cup {x} = DOMAIN vs
    BY <1>5
  <2>3. PICK w : w = Hold(vs[x], m, c)
    OBVIOUS
  <2>4. vs2 = [y \in DOMAIN vs |-> IF y = x THEN w ELSE vs[y]]
    BY <1>5, <2>1, <2>3
  <2>5. vs2 = With(vs, x, w)
    BY <2>2, <2>4 DEF With
  <2> QED BY <1>5, <2>3, <2>5 DEF Takes
<1>10. Attached(h2, vs2, own2, {}, {})
  <2>1. x \in Var
    BY <1>5, <1>6
  <2> QED BY <1>5, <1>7, <1>8, <1>9, <2>1, Gained, Zenon
<1> QED BY <1>10

\* When all have, every variable of the selected list will tell it.
LEMMA Taken ==
  ASSUME NEW h2, NEW vs, NEW own, NEW m \in List, NEW cs, NEW items, NEW F,
         Attached(h2, vs, own, {}, {}), Filled(h2, vs, own, cs, items), Holding(F, vs, m, cs, items, Len(cs)),
         own \in [List -> SUBSET Cell], own[m] = {}
  PROVE  Attached(h2, F[Len(cs)], [own EXCEPT ![m] = ToSet(cs)], {}, {}) /\ DOMAIN F[Len(cs)] = DOMAIN vs
<1> DEFINE n == Len(cs)
           O(k) == [own EXCEPT ![m] = {cs[i] : i \in 1 .. k}]
           T == {k \in Nat : Attached(h2, F[k], O(k), {}, {}) /\ DOMAIN F[k] = DOMAIN vs}
<1>1. cs \in Seq(Cell) /\ n \in Nat
  BY LenProperties DEF Filled
<1>2. 0 \in T
  <2>1. O(0) = own
    OBVIOUS
  <2>2. F[0] = vs
    BY DEF Holding
  <2> HIDE DEF O
  <2> QED BY <2>1, <2>2
<1>3. ASSUME NEW k \in 0 .. n - 1, k \in T PROVE k + 1 \in T
  <2>1. PICK v, v2, own1, own2 : v = F[k] /\ v2 = F[k + 1] /\ own1 = O(k) /\ own2 = O(k + 1)
    OBVIOUS
  <2>2. k \in Nat /\ k + 1 \in 1 .. n /\ (k + 1) - 1 = k /\ k + 1 \in Nat
    BY <1>1
  <2>3. v2 = [v EXCEPT ![items[k + 1]] = Hold(@, m, cs[k + 1])]
    BY <2>1, <2>2 DEF Holding
  <2>4. Attached(h2, v, own1, {}, {}) /\ DOMAIN v = DOMAIN vs
    BY <1>3, <2>1
  <2>5. own1 = [own EXCEPT ![m] = {cs[i] : i \in 1 .. k}] /\ own2 = [own EXCEPT ![m] = {cs[i] : i \in 1 .. k + 1}]
    BY <2>1
  <2>6. Attached(h2, v2, own2, {}, {})
    <3>1. TakesNext(own, own1, own2, v, v2, m, cs, items, k)
      BY <2>3, <2>5 DEF TakesNext
    <3> QED BY <2>4, <3>1, TakenStep, Zenon
  <2>7. DOMAIN v2 = DOMAIN vs
    BY <2>3, <2>4
  <2> HIDE DEF O
  <2> QED BY <2>1, <2>2, <2>6, <2>7
<1>4. n \in T
  <2>1. 0 .. n \subseteq T
    <3> HIDE DEF T, n
    <3> QED BY <1>1, <1>2, <1>3, EveryNumberTo
  <2> HIDE DEF T
  <2> QED BY <1>1, <2>1
<1>5. ToSet(cs) = {cs[i] : i \in 1 .. n}
  BY <1>1, SetOfSeq
<1> QED BY <1>4, <1>5

\* The heap h with the cells cs of the variables items, chained.
Extended(h, cs, items) ==
  [c \in DOMAIN h \cup ToSet(cs) |->
     IF c \in DOMAIN h THEN h[c]
     ELSE LET k == CHOOSE k \in 1 .. Len(cs) : cs[k] = c
          IN  NewCell(items[k], "var", At(cs, k - 1), At(cs, k + 1))]

Extends(h, h2, cs, items) ==
  /\ DOMAIN h \subseteq Cell /\ \A d \in DOMAIN h : h[d] \in CellType
  /\ cs \in Seq(Cell) /\ Once(cs) /\ \A k \in 1 .. Len(cs) : cs[k] \notin DOMAIN h
  /\ items \in [1 .. Len(cs) -> Var] /\ h2 = Extended(h, cs, items)

\* The memory with the cells of a selection.
LEMMA ExtendedFacts ==
  ASSUME NEW h, NEW cs, NEW items, NEW h2, Extends(h, h2, cs, items)
  PROVE  /\ DOMAIN h2 = DOMAIN h \cup ToSet(cs) /\ DOMAIN h2 \subseteq Cell
         /\ \A d \in DOMAIN h : h2[d] = h[d]
         /\ \A d \in DOMAIN h2 : h2[d] \in CellType
         /\ \A k \in 1 .. Len(cs) : h2[cs[k]].obj_id = items[k] /\ h2[cs[k]].prev = At(cs, k - 1)
         /\ Leads(h2, cs)
<1> USE DEF Extends
<1>1. PICK n : n = Len(cs)
  OBVIOUS
<1>2. /\ n \in Nat /\ ToSet(cs) \subseteq Cell /\ (\A k \in 1 .. n : cs[k] \in ToSet(cs))
      /\ (\A c \in ToSet(cs) : \E k \in 1 .. n : cs[k] = c) /\ \A i, j \in 1 .. n : cs[i] = cs[j] => i = j
  BY <1>1, LenProperties, SetOfSeq DEF Once
<1>3. DOMAIN h2 = DOMAIN h \cup ToSet(cs) /\ \A d \in DOMAIN h : h2[d] = h[d]
  BY DEF Extended
<1>4. \A k : At(cs, k) \in Cell \cup {NULL}
  BY ElementOfSeq DEF At
<1>5. ASSUME NEW k \in 1 .. n PROVE h2[cs[k]] = NewCell(items[k], "var", At(cs, k - 1), At(cs, k + 1))
  <2>1. cs[k] \in ToSet(cs) /\ cs[k] \notin DOMAIN h
    BY <1>1, <1>2
  <2>2. PICK j : j = CHOOSE i \in 1 .. Len(cs) : cs[i] = cs[k]
    OBVIOUS
  <2>3. j \in 1 .. n /\ cs[j] = cs[k]
    BY <1>1, <2>2
  <2>4. j = k
    BY <1>2, <2>3
  <2>5. h2[cs[k]] = NewCell(items[j], "var", At(cs, j - 1), At(cs, j + 1))
    BY <2>1, <2>2 DEF Extended
  <2> QED BY <2>4, <2>5
<1>6. ASSUME NEW k \in 1 .. n
      PROVE  /\ h2[cs[k]] \in CellType /\ h2[cs[k]].obj_id = items[k]
             /\ h2[cs[k]].prev = At(cs, k - 1) /\ h2[cs[k]].next = At(cs, k + 1)
  <2>1. PICK x, a, b, e : x = items[k] /\ a = At(cs, k - 1) /\ b = At(cs, k + 1) /\ e = h2[cs[k]]
    OBVIOUS
  <2>2. x \in Var /\ a \in Cell \cup {NULL} /\ b \in Cell \cup {NULL}
    BY <1>1, <1>4, <2>1
  <2>3. e = [obj_id |-> x, orig_type |-> "var", prev |-> a, next |-> b]
    BY <1>5, <2>1 DEF NewCell
  <2>4. e \in CellType /\ e.obj_id = x /\ e.prev = a /\ e.next = b
    BY <2>2, <2>3 DEF CellType
  <2> QED BY <2>1, <2>4
<1>7. \A d \in DOMAIN h2 : h2[d] \in CellType
  <2> SUFFICES ASSUME NEW d \in DOMAIN h2 PROVE h2[d] \in CellType
    OBVIOUS
  <2>1. CASE d \in DOMAIN h
    BY <1>3, <2>1
  <2>2. CASE d \notin DOMAIN h
    <3>1. PICK k \in 1 .. n : cs[k] = d
      BY <1>2, <1>3, <2>2
    <3> QED BY <1>6, <3>1
  <2> QED BY <2>1, <2>2
<1>8. Leads(h2, cs)
  BY <1>1, <1>2, <1>3, <1>6 DEF Leads
<1> QED BY <1>1, <1>2, <1>3, <1>6, <1>7, <1>8

\* A list m that has been selected from a list of the lists ls: it has the cells cs
\* of the variables items.
Selects(ch, ch2, h, h2, vs, vs2, m, cs, items) ==
  /\ cs \in Seq(Cell) /\ Once(cs) /\ (\A k \in 1 .. Len(cs) : cs[k] \notin DOMAIN h)
  /\ items \in [1 .. Len(cs) -> DOMAIN vs]
  /\ h2 = Extended(h, cs, items) /\ ch2 = [ch EXCEPT ![m] = cs]
  /\ \E F : Holding(F, vs, m, cs, items, Len(cs)) /\ vs2 = F[Len(cs)]

\* The chains after a selection.
LEMMA SelectParts ==
  ASSUME NEW ch, NEW h, NEW ls, NEW vs, NEW lps, NEW un, Holds(ch, h, ls, vs, <<>>, lps, un),
         NEW m \in List, m \notin DOMAIN ls, NEW cs, NEW items,
         NEW ch2, NEW h2, NEW vs2, Selects(ch, ch2, h, h2, vs, vs2, m, cs, items)
  PROVE  /\ ch2 \in [List -> Seq(Cell)] /\ ch2[m] = cs /\ cs \in Seq(Cell) /\ Once(cs)
         /\ \A l \in List : l # m => ch2[l] = ch[l]
         /\ DOMAIN h2 \subseteq Cell /\ \A d \in DOMAIN h2 : h2[d] \in CellType
         /\ Leads(h2, cs) /\ (\A k \in 1 .. Len(cs) : h2[cs[k]].prev = At(cs, k - 1))
         /\ \A s \in Seq(Cell) : \A list : IsChain(h, s, list) => IsChain(h2, s, list)
         /\ Shared(h2, Own(ch2)) /\ Attached(h2, vs2, Own(ch2), {}, {})
         /\ DOMAIN vs2 \subseteq Var /\ \A x \in DOMAIN vs2 : vs2[x] \in VarType
<1>1. /\ Typed(h, ls, vs, lps, un) /\ ch \in [List -> Seq(Cell)]
      /\ Chained(ch, h, ls, {}) /\ Shared(h, Own(ch)) /\ Attached(h, vs, Own(ch), {}, {})
  BY QuietHolds
<1>2. DOMAIN h \subseteq Cell /\ (\A d \in DOMAIN h : h[d] \in CellType) /\ DOMAIN vs \subseteq Var /\ ch[m] = <<>>
  BY <1>1 DEF Typed, Chained
<1>3. /\ cs \in Seq(Cell) /\ Once(cs) /\ (\A k \in 1 .. Len(cs) : cs[k] \notin DOMAIN h)
      /\ items \in [1 .. Len(cs) -> DOMAIN vs]
      /\ h2 = Extended(h, cs, items) /\ ch2 = [ch EXCEPT ![m] = cs]
  BY DEF Selects
<1>4. items \in [1 .. Len(cs) -> Var]
  BY <1>2, <1>3
<1>5. /\ DOMAIN h2 = DOMAIN h \cup ToSet(cs) /\ DOMAIN h2 \subseteq Cell
      /\ \A d \in DOMAIN h : h2[d] = h[d]
      /\ \A d \in DOMAIN h2 : h2[d] \in CellType
      /\ \A k \in 1 .. Len(cs) : h2[cs[k]].obj_id = items[k] /\ h2[cs[k]].prev = At(cs, k - 1)
      /\ Leads(h2, cs)
  <2>1. Extends(h, h2, cs, items)
    BY <1>2, <1>3, <1>4 DEF Extends
  <2> QED BY <2>1, ExtendedFacts
<1>6. ch2 \in [List -> Seq(Cell)] /\ ch2[m] = cs /\ \A l \in List : l # m => ch2[l] = ch[l]
  BY <1>1, <1>3
<1>7. \A s \in Seq(Cell) : \A list : IsChain(h, s, list) => IsChain(h2, s, list)
  <2> SUFFICES ASSUME NEW s \in Seq(Cell), NEW list, IsChain(h, s, list) PROVE IsChain(h2, s, list)
    OBVIOUS
  <2>1. \A k \in 1 .. Len(s) : s[k] \in DOMAIN h => s[k] \in DOMAIN h2 /\ h2[s[k]].next = h[s[k]].next /\ h2[s[k]].prev = h[s[k]].prev
    BY <1>5
  <2> QED BY <2>1, ChainApart
<1>8. \A l \in List : Own(ch)[l] = ToSet(ch[l]) /\ Own(ch2)[l] = ToSet(ch2[l])
  BY DEF Own
<1>9. Own(ch)[m] = {}
  BY <1>2, <1>8 DEF ToSet
<1>10. \A l \in List : Own(ch)[l] \subseteq DOMAIN h
  BY <1>1 DEF Shared
<1>11. \A c \in ToSet(cs) : c \notin DOMAIN h
  BY <1>3, SetOfSeq
<1>12. Adds(Own(ch), Own(ch2), m, ToSet(cs))
  BY <1>6, <1>8, <1>9, <1>10, <1>11 DEF Adds
<1>13. Shared(h2, Own(ch2))
  BY <1>1, <1>5, <1>12, SharedMore, Zenon
<1>14. Attached(h2, vs, Own(ch), {}, {})
  <2>1. \A l \in List : \A c \in Own(ch)[l] : h2[c] = h[c]
    BY <1>5, <1>10
  <2>2. Watching(h2, vs, Own(ch), {}, {})
    BY <1>1, <2>1, Zenon DEF Attached, Watching
  <2>3. Exact(h2, vs, Own(ch), {})
    <3>1. \A x \in DOMAIN vs : \A cb \in ToSet(vs[x].cblist) : cb.list \in List
      BY <1>1, VarFacts DEF Attached
    <3> QED BY <1>1, <2>1, <3>1 DEF Attached, Exact
  <2>4. Kept(h2, vs, Own(ch), {})
    <3>1. \A x \in DOMAIN vs : \A l \in Parents(vs[x]) : l \in List
      BY DEF Parents
    <3> QED BY <1>1, <2>1, <3>1, SMTT(20) DEF Attached, Kept
  <2> QED BY <1>1, <2>2, <2>3, <2>4 DEF Attached
<1>15. PICK F : Holding(F, vs, m, cs, items, Len(cs)) /\ vs2 = F[Len(cs)]
  BY DEF Selects
<1>16. Filled(h2, vs, Own(ch), cs, items)
  BY <1>3, <1>5, <1>10 DEF Filled
<1>17. Own(ch) \in [List -> SUBSET Cell]
  BY <1>2, <1>8, <1>10 DEF Own
<1>18. Attached(h2, vs2, Own(ch2), {}, {})
  <2>1. PICK own2 : own2 = [Own(ch) EXCEPT ![m] = ToSet(cs)]
    OBVIOUS
  <2>2. Own(ch2) = own2
    BY <1>6, <1>8, <1>17, <2>1 DEF Own
  <2>3. Attached(h2, vs2, own2, {}, {})
    BY <1>9, <1>14, <1>15, <1>16, <1>17, <2>1, Taken
  <2> QED BY <2>2, <2>3
<1>19. DOMAIN vs2 \subseteq Var /\ \A x \in DOMAIN vs2 : vs2[x] \in VarType
  BY <1>18 DEF Attached
<1> QED BY <1>3, <1>5, <1>6, <1>7, <1>13, <1>18, <1>19

\* The selected list, entered in the table, keeps the invariant.
LEMMA SelectedHolds ==
  ASSUME NEW ch, NEW h, NEW ls, NEW vs, NEW lps, NEW un, Holds(ch, h, ls, vs, <<>>, lps, un),
         NEW m \in List, m \notin DOMAIN ls, NEW cs, NEW items,
         NEW ch2, NEW h2, NEW vs2, Selects(ch, ch2, h, h2, vs, vs2, m, cs, items),
         NEW list2 \in Records, IsChain(h2, cs, list2), NEW ls2, ls2 = With(ls, m, list2),
         NEW lps2, Looped(ch2, ls2, lps2, un), lps2 \in Seq([list : List, results : Nat, done : BOOLEAN])
  PROVE  Holds(ch2, h2, ls2, vs2, <<>>, lps2, un)
<1>1. /\ ch2 \in [List -> Seq(Cell)] /\ ch2[m] = cs /\ cs \in Seq(Cell) /\ Once(cs)
      /\ \A l \in List : l # m => ch2[l] = ch[l]
      /\ DOMAIN h2 \subseteq Cell /\ \A d \in DOMAIN h2 : h2[d] \in CellType
      /\ \A s \in Seq(Cell) : \A list : IsChain(h, s, list) => IsChain(h2, s, list)
      /\ Shared(h2, Own(ch2)) /\ Attached(h2, vs2, Own(ch2), {}, {})
      /\ DOMAIN vs2 \subseteq Var /\ \A x \in DOMAIN vs2 : vs2[x] \in VarType
  BY SelectParts
<1>2. Typed(h, ls, vs, lps, un) /\ ch \in [List -> Seq(Cell)] /\ Chained(ch, h, ls, {})
  BY QuietHolds
<1>3. DOMAIN ls2 = DOMAIN ls \cup {m} /\ ls2[m] = list2 /\ \A l \in DOMAIN ls : ls2[l] = ls[l]
  BY DEF With
<1>4. Typed(h2, ls2, vs2, lps2, un)
  BY <1>1, <1>2, <1>3 DEF Typed
<1>5. Chained(ch2, h2, ls2, {})
  <2>1. \A l \in List : Once(ch2[l])
    BY <1>1, <1>2 DEF Chained
  <2>2. \A l \in DOMAIN ls2 : IsChain(h2, ch2[l], ls2[l])
    <3> SUFFICES ASSUME NEW l \in DOMAIN ls2 PROVE IsChain(h2, ch2[l], ls2[l])
      OBVIOUS
    <3>1. CASE l = m
      BY <1>1, <1>3, <3>1
    <3>2. CASE l # m
      <4>1. l \in DOMAIN ls /\ l \in List
        BY <1>2, <1>3, <3>2 DEF Typed
      <4>2. IsChain(h, ch[l], ls[l]) /\ ch[l] \in Seq(Cell)
        BY <1>2, <4>1 DEF Chained
      <4> QED BY <1>1, <1>3, <3>2, <4>1, <4>2
    <3> QED BY <3>1, <3>2
  <2>3. \A l \in List \ DOMAIN ls2 : ch2[l] = <<>>
    BY <1>1, <1>2, <1>3 DEF Chained
  <2>4. Leads(h2, <<>>)
    BY DEF Leads
  <2> QED BY <2>1, <2>2, <2>3, <2>4 DEF Chained
<1> QED BY <1>1, <1>4, <1>5, QuietHolds, Zenon

\* The selected list, to be unmade because an index was out of range, keeps the invariant.
LEMMA UnfinishedHolds ==
  ASSUME NEW ch, NEW h, NEW ls, NEW vs, NEW lps, NEW un, Holds(ch, h, ls, vs, <<>>, lps, un),
         NEW m \in List, m \notin DOMAIN ls, NEW cs, NEW items,
         NEW ch2, NEW h2, NEW vs2, Selects(ch, ch2, h, h2, vs, vs2, m, cs, items)
  PROVE  Holds(ch2, h2, ls, vs2, <<Unmaking(m, At(cs, 1))>>, lps, un)
<1>1. /\ ch2 \in [List -> Seq(Cell)] /\ ch2[m] = cs /\ cs \in Seq(Cell) /\ Once(cs) /\ Leads(h2, cs)
      /\ \A l \in List : l # m => ch2[l] = ch[l]
      /\ DOMAIN h2 \subseteq Cell /\ \A d \in DOMAIN h2 : h2[d] \in CellType
      /\ \A s \in Seq(Cell) : \A list : IsChain(h, s, list) => IsChain(h2, s, list)
      /\ Shared(h2, Own(ch2)) /\ Attached(h2, vs2, Own(ch2), {}, {})
  BY SelectParts
<1>2. Typed(h, ls, vs, lps, un) /\ ch \in [List -> Seq(Cell)] /\ Chained(ch, h, ls, {}) /\ Looped(ch, ls, lps, un)
  BY QuietHolds
<1>3. Chained(ch2, h2, ls, {m})
  <2>1. \A l \in List : Once(ch2[l])
    BY <1>1, <1>2 DEF Chained
  <2>2. \A l \in DOMAIN ls : IsChain(h2, ch2[l], ls[l])
    <3> SUFFICES ASSUME NEW l \in DOMAIN ls PROVE IsChain(h2, ch2[l], ls[l])
      OBVIOUS
    <3>1. l \in List /\ l # m
      BY <1>2 DEF Typed
    <3>2. IsChain(h, ch[l], ls[l]) /\ ch[l] \in Seq(Cell)
      BY <1>2, <3>1 DEF Chained
    <3> QED BY <1>1, <3>1, <3>2
  <2>3. \A l \in List \ DOMAIN ls : l # m => ch2[l] = <<>>
    BY <1>1, <1>2 DEF Chained
  <2>4. Leads(h2, <<>>)
    BY DEF Leads
  <2> QED BY <1>1, <2>1, <2>2, <2>3, <2>4 DEF Chained
<1>4. Looped(ch2, ls, lps, un)
  <2>1. \A i \in DOMAIN lps : lps[i].list # m /\ lps[i].list \in DOMAIN ls
    BY <1>2, HeldIsNotLooped
  <2>2. \A i \in DOMAIN lps : ch2[lps[i].list] = ch[lps[i].list]
    BY <1>1, <1>2, <2>1 DEF Typed
  <2> QED BY <1>2, <2>1, <2>2, LoopedSame
<1>5. PICK c, td : c = At(cs, 1) /\ td = <<Unmaking(m, c)>>
  OBVIOUS
<1>6. c \in Cell \cup {NULL} /\ c = At(ch2[m], 1)
  BY <1>1, <1>5, ElementOfSeq DEF At
<1>7. Nesting(td) /\ Dead(td) = {} /\ Told(td) = {} /\ Unmade(td) = {m} /\ UnderWay(ch2, h2, ls, td)
  BY <1>5, <1>6, UnmakingFrame
<1>8. /\ DOMAIN ls \subseteq List /\ (\A l \in DOMAIN ls : ls[l] \in Records)
      /\ lps \in Seq([list : List, results : Nat, done : BOOLEAN]) /\ un \in [List -> SUBSET Cell]
  BY <1>2 DEF Typed
<1>9. Holds(ch2, h2, ls, vs2, td, lps, un)
  <2>1. DOMAIN h2 \subseteq Cell /\ Shared(h2, Own(ch2)) /\ Attached(h2, vs2, Own(ch2), {}, {}) /\ ch2 \in [List -> Seq(Cell)]
    BY <1>1
  <2>2. \A d \in DOMAIN h2 : h2[d] \in CellType
    BY <1>1
  <2> QED BY <1>3, <1>4, <1>7, <1>8, <2>1, <2>2, HoldsNext, Zenon
<1> QED BY <1>5, <1>9

\* A function on 1 .. n is a sequence.
LEMMA FunctionIsSeq ==
  ASSUME NEW S, NEW n \in Nat, NEW f \in [1 .. n -> S]
  PROVE  f \in Seq(S) /\ Len(f) = n
OBVIOUS

\* The chain of m has the cells cs, new ones of variables that are at places of the chain s.
Chosen(ch, ch2, s, m, cs) ==
  /\ cs \in Seq(Cell) /\ ch2 = [ch EXCEPT ![m] = cs]
  /\ \A k \in 1 .. Len(cs) : cs[k] \notin DOMAIN heap /\ \E p \in 1 .. Len(s) : heap'[cs[k]].obj_id = heap[s[p]].obj_id
  /\ \A d \in DOMAIN heap : heap'[d] = heap[d]

\* What a selection makes of the lists, and of the operations under way.
Outcome(m, type, ref_count, complete, cs) ==
  /\ complete => /\ lists' = With(lists, m, [NewList(type, ref_count) EXCEPT
                                               !.first = At(cs, 1), !.last = At(cs, Len(cs)), !.nelem = Len(cs)])
                 /\ todo' = <<>>
  /\ ~complete => lists' = lists /\ todo' = <<Unmaking(m, At(cs, 1))>>

\* What ListSelect does, in terms of the chains.
LEMMA SelectIs ==
  ASSUME NEW ch, Holds(ch, heap, lists, vars, <<>>, loops, unseen), Consistent(ch), NEW l \in DOMAIN lists,
         NEW ps \in Seq(0 .. lists[l].nelem - 1), NEW m, NEW ref_count, NEW complete, Select(l, ps, m, ref_count, complete)
  PROVE  \E cs, items, ch2 :
           /\ Selects(ch, ch2, heap, heap', vars, vars', m, cs, items) /\ Outcome(m, lists[l].list_type, ref_count, complete, cs)
           /\ Chosen(ch, ch2, ch[l], m, cs)
<1> DEFINE n == Len(ps)
           s == Chain(l)
           items == [k \in 1 .. n |-> heap[s[ps[k] + 1]].obj_id]
<1>2. l \in List /\ s \in Seq(Cell) /\ s = ch[l] /\ IsChain(heap, s, lists[l]) /\ Attached(heap, vars, Own(ch), {}, {})
  <2>1. Chained(ch, heap, lists, {}) /\ Attached(heap, vars, Own(ch), {}, {})
    BY QuietHolds
  <2> QED BY <2>1, ChainFound DEF Chained
<1>3. n \in Nat /\ \A k \in 1 .. n : ps[k] \in 0 .. lists[l].nelem - 1
  BY LenProperties, ElementOfSeq
<1>4. lists[l].nelem = Len(s) /\ Len(s) \in Nat
  BY <1>2, LenProperties DEF IsChain
<1>5. items = [k \in 1 .. n |-> heap[s[ps[k] + 1]].obj_id]
  OBVIOUS
<1>6. ASSUME NEW k \in 1 .. n PROVE items[k] \in DOMAIN vars
  <2>1. ps[k] + 1 \in 1 .. Len(s)
    BY <1>3, <1>4
  <2>2. s[ps[k] + 1] \in Own(ch)[l]
    BY <1>2, <2>1, SetOfSeq DEF Own
  <2> QED BY <1>2, <1>5, <2>2, CellVariable
<1>7. PICK cs \in [1 .. n -> FreeCells] :
        LET at(k) == IF k \in 1 .. n THEN cs[k] ELSE NULL
            new(c) == LET k == CHOOSE k \in 1 .. n : cs[k] = c
                      IN  NewCell(items[k], "var", at(k - 1), at(k + 1))
        IN  /\ IsInjective(cs)
            /\ heap' = [c \in DOMAIN heap \cup ToSet(cs) |-> IF Has(heap, c) THEN heap[c] ELSE new(c)]
            /\ vars' = Held(m, cs, items)
            /\ lists' = IF complete
                        THEN With(lists, m,
                               [NewList(lists[l].list_type, ref_count) EXCEPT
                                  !.first = at(1), !.last = at(n), !.nelem = n])
                        ELSE lists
            /\ todo' = IF complete THEN <<>> ELSE <<Unmaking(m, at(1))>>
  BY Zenon DEF Select
<1> HIDE DEF n, s, items
<1>8. cs \in Seq(Cell) /\ Len(cs) = n /\ \A k \in 1 .. n : cs[k] \notin DOMAIN heap
  <2>1. cs \in [1 .. n -> Cell]
    BY DEF FreeCells
  <2>2. cs \in Seq(Cell) /\ Len(cs) = n
    BY <1>3, <2>1, FunctionIsSeq
  <2> QED BY <2>2 DEF FreeCells
<1>9. Once(cs)
  BY <1>7, <1>8 DEF IsInjective, Once
<1>10. heap' = Extended(heap, cs, items)
  BY <1>7, <1>8 DEF Extended, Has, At
<1>11. \E F : Holding(F, vars, m, cs, items, Len(cs)) /\ vars' = F[Len(cs)]
  BY <1>3, <1>7, <1>8, HeldIs
<1>12. PICK ch2 : ch2 = [ch EXCEPT ![m] = cs]
  OBVIOUS
<1>13. items \in [1 .. Len(cs) -> DOMAIN vars]
  BY <1>5, <1>6, <1>8
<1>14. Selects(ch, ch2, heap, heap', vars, vars', m, cs, items)
  BY <1>8, <1>9, <1>10, <1>11, <1>12, <1>13 DEF Selects
<1>15. Outcome(m, lists[l].list_type, ref_count, complete, cs)
  BY <1>7, <1>8 DEF Outcome, At
<1>16. Chosen(ch, ch2, ch[l], m, cs)
  <2>1. \A k \in 1 .. n : \E p \in 1 .. Len(s) : items[k] = heap[s[p]].obj_id
    <3>1. \A k \in 1 .. n : ps[k] + 1 \in 1 .. Len(s)
      BY <1>3, <1>4
    <3> QED BY <1>5, <3>1
  <2>2. \A d \in DOMAIN heap : heap'[d] = heap[d]
    BY <1>10 DEF Extended
  <2>3. ASSUME NEW k \in 1 .. n PROVE heap'[cs[k]].obj_id = items[k]
    <3>1. cs[k] \in ToSet(cs) /\ cs[k] \notin DOMAIN heap
      BY <1>8, SetOfSeq
    <3>2. PICK j : j = CHOOSE i \in 1 .. Len(cs) : cs[i] = cs[k]
      OBVIOUS
    <3>3. j \in 1 .. n /\ cs[j] = cs[k]
      BY <1>8, <3>2
    <3>4. j = k
      BY <1>8, <1>9, <3>3 DEF Once
    <3>5. heap'[cs[k]] = NewCell(items[j], "var", At(cs, j - 1), At(cs, j + 1))
      BY <1>10, <3>1, <3>2 DEF Extended
    <3> QED BY <3>4, <3>5 DEF NewCell
  <2> QED BY <1>2, <1>8, <1>12, <2>1, <2>2, <2>3 DEF Chosen
<1> QED BY <1>14, <1>15, <1>16

\* Every stride-th position between two positions is a position.
LEMMA ProgressionInRange ==
  ASSUME NEW nelem \in Nat, NEW start \in 0 .. nelem - 1, NEW finish \in 0 .. nelem - 1, NEW stride \in {-1, 1, 2}
  PROVE  Progression(start, finish, stride) \in Seq(0 .. nelem - 1)
<1>1. PICK by : by = IF stride < 0 THEN -stride ELSE stride
  OBVIOUS
<1>2. by \in {1, 2}
  BY <1>1
<1>3. PICK d : d = IF start <= finish THEN finish - start ELSE start - finish
  OBVIOUS
<1>4. d \in Nat /\ (start <= finish => start + d = finish) /\ (~(start <= finish) => start - d = finish)
  BY <1>3
<1>5. PICK q : q = d \div by
  OBVIOUS
<1>6. q \in Nat /\ q * by <= d
  <2>1. CASE by = 1
    BY <1>4, <1>5, <2>1
  <2>2. CASE by = 2
    BY <1>4, <1>5, <2>2
  <2> QED BY <1>2, <2>1, <2>2
<1>7. PICK count : count = 1 + q
  OBVIOUS
<1>8. ASSUME NEW k \in 1 .. count
      PROVE  (IF start <= finish THEN start + (k - 1) * by ELSE start - (k - 1) * by) \in 0 .. nelem - 1
  <2>1. k - 1 \in 0 .. q
    BY <1>6, <1>7
  <2>2. PICK e : e = (k - 1) * by
    OBVIOUS
  <2>3. e \in 0 .. d
    <3>1. CASE by = 1
      BY <1>4, <1>6, <2>1, <2>2, <3>1
    <3>2. CASE by = 2
      BY <1>4, <1>6, <2>1, <2>2, <3>2
    <3> QED BY <1>2, <3>1, <3>2
  <2>4. CASE start <= finish
    <3>1. start + e \in 0 .. nelem - 1
      BY <1>4, <2>3, <2>4
    <3> QED BY <2>2, <2>4, <3>1
  <2>5. CASE ~(start <= finish)
    <3>1. start - e \in 0 .. nelem - 1
      BY <1>4, <2>3, <2>5
    <3> QED BY <2>2, <2>5, <3>1
  <2> QED BY <2>4, <2>5
<1>9. PICK taken : taken = [k \in 1 .. count |-> IF start <= finish THEN start + (k - 1) * by ELSE start - (k - 1) * by]
  OBVIOUS
<1>10. taken \in [1 .. count -> 0 .. nelem - 1] /\ count \in Nat
  BY <1>6, <1>7, <1>8, <1>9
<1>11. taken \in Seq(0 .. nelem - 1) /\ Len(taken) = count
  BY <1>10, FunctionIsSeq
<1>12. Reverse(taken) \in Seq(0 .. nelem - 1)
  <2>1. Reverse(taken) = [i \in 1 .. count |-> taken[(count - i) + 1]]
    BY <1>11 DEF Reverse
  <2>2. \A i \in 1 .. count : (count - i) + 1 \in 1 .. count
    BY <1>10
  <2>3. Reverse(taken) \in [1 .. count -> 0 .. nelem - 1]
    BY <1>10, <2>1, <2>2
  <2> QED BY <1>10, <2>3, FunctionIsSeq
<1>13. Progression(start, finish, stride) = IF stride < 0 THEN Reverse(taken) ELSE taken
  BY <1>1, <1>3, <1>5, <1>7, <1>9 DEF Progression
<1> QED BY <1>11, <1>12, <1>13

\* What a selection enters are positions of the list.
LEMMA EnteringInRange ==
  ASSUME NEW sel \in Selections, NEW nelem \in Nat
  PROVE  Entering(sel, nelem) \in Seq(0 .. nelem - 1)
<1>1. <<>> \in Seq(0 .. nelem - 1)
  OBVIOUS
<1>2. CASE sel \in Vectors
  <2>1. PICK v : sel = [kind |-> "vector", ind |-> v] /\ v \in SeqOf(0 .. MaxLength, MaxLength)
    BY <1>2 DEF Vectors
  <2>2. sel.kind = "vector" /\ sel.ind = v
    BY <2>1
  <2>3. PICK n \in 0 .. MaxLength : v \in [1 .. n -> 0 .. MaxLength]
    BY <2>1 DEF SeqOf
  <2>4. n \in Nat /\ v \in Seq(0 .. MaxLength) /\ Len(v) = n /\ DOMAIN v = 1 .. n
    <3>1. n \in Nat
      BY BoundAssumption
    <3> QED BY <2>3, <3>1, FunctionIsSeq
  <2>5. PICK bad : bad = {k \in 1 .. n : ~InRange(v[k], nelem)}
    OBVIOUS
  <2>6. \A k \in 1 .. n : v[k] \in Int /\ (k \notin bad => v[k] \in 0 .. nelem - 1)
    BY <2>3, <2>5, BoundAssumption DEF InRange
  <2>7. Entering(sel, nelem) = IF bad = {} THEN v ELSE SubSeq(v, 1 + CHOOSE k \in bad : \A j \in bad : j <= k, n)
    BY <2>2, <2>4, <2>5 DEF Entering, Positions
  <2>8. CASE bad = {}
    <3>1. v \in [1 .. n -> 0 .. nelem - 1]
      BY <2>3, <2>6, <2>8
    <3> QED BY <2>4, <2>7, <2>8, <3>1, FunctionIsSeq
  <2>9. CASE bad # {}
    <3>1. PICK b : b = CHOOSE k \in bad : \A j \in bad : j <= k
      OBVIOUS
    <3>2. \E k \in bad : \A j \in bad : j <= k
      <4>1. bad \in SUBSET (0 .. n)
        BY <2>4, <2>5
      <4> QED BY <2>4, <2>9, <4>1, GreatestElement
    <3>3. b \in bad /\ \A j \in bad : j <= b
      BY <3>1, <3>2
    <3>4. b \in 1 .. n /\ 1 + b \in Int /\ n \in Int
      BY <2>4, <2>5, <3>3
    <3>5. \A i \in 1 + b .. n : v[i] \in 0 .. nelem - 1
      <4>1. \A i \in 1 + b .. n : i \in 1 .. n /\ ~(i <= b)
        BY <2>4, <3>4
      <4> QED BY <2>6, <3>3, <4>1
    <3>6. SubSeq(v, 1 + b, n) \in Seq(0 .. nelem - 1)
      BY <3>4, <3>5, SubSeqProperties
    <3> QED BY <2>7, <2>9, <3>1, <3>6
  <2> QED BY <2>8, <2>9
<1>3. CASE sel \in Ranges
  <2>1. /\ sel.kind # "vector" /\ sel.stride \in {-1, 1, 2}
        /\ Low(sel) \in Int /\ High(sel, nelem) \in Int
    <3>1. CASE sel \in [kind : {"range"}, start : 0 .. MaxLength, finish : 0 .. MaxLength, stride : {-1, 1, 2}]
      BY <3>1, BoundAssumption DEF Low, High
    <3>2. CASE sel \in [kind : {"from"}, start : 0 .. MaxLength, stride : {-1, 1, 2}]
      BY <3>2, BoundAssumption DEF Low, High
    <3>3. CASE sel \in [kind : {"to"}, finish : 0 .. MaxLength, stride : {-1, 1, 2}]
      BY <3>3, BoundAssumption DEF Low, High
    <3> QED BY <1>3, <3>1, <3>2, <3>3 DEF Ranges
  <2>2. CASE InRange(Low(sel), nelem) /\ InRange(High(sel, nelem), nelem)
    <3>1. PICK a, b : a = Low(sel) /\ b = High(sel, nelem)
      OBVIOUS
    <3>2. a \in 0 .. nelem - 1 /\ b \in 0 .. nelem - 1
      BY <2>1, <2>2, <3>1 DEF InRange
    <3>3. Progression(a, b, sel.stride) \in Seq(0 .. nelem - 1)
      BY <2>1, <3>2, ProgressionInRange
    <3> QED BY <2>1, <2>2, <3>1, <3>3 DEF Entering, Positions
  <2>3. CASE ~(InRange(Low(sel), nelem) /\ InRange(High(sel, nelem), nelem))
    BY <1>1, <2>1, <2>3 DEF Entering, Positions
  <2> QED BY <2>2, <2>3
<1> QED BY <1>2, <1>3 DEF Selections

\* The record of an idle list of n cells, from a to b.
IdleRecord(list, type, a, b, n, r) ==
  list = [list_type |-> type, first |-> a, last |-> b, nelem |-> n, state |-> IDLE, current_item |-> NULL, ref_count |-> r]

\* What such a record says.
IdleFields(list, a, b, n, r) ==
  /\ list \in Records /\ list.first = a /\ list.last = b /\ list.nelem = n
  /\ list.ref_count = r /\ list.state = IDLE

\* The record of an idle list is one of the records of lists.
LEMMA RecordIs ==
  ASSUME NEW type \in Types, NEW a \in Cell \cup {NULL}, NEW b \in Cell \cup {NULL}, NEW n \in Nat, NEW r \in 0 .. MaxRefs,
         NEW list, IdleRecord(list, type, a, b, n, r)
  PROVE  IdleFields(list, a, b, n, r)
BY DEF IdleRecord, IdleFields, Records

\* The new record of a list that the cells cs make up.
MadeOf(list2, type, ref_count, cs) ==
  list2 = [NewList(type, ref_count) EXCEPT !.first = At(cs, 1), !.last = At(cs, Len(cs)), !.nelem = Len(cs)]

\* What becomes of it.
Completed(h2, cs, list2, ref_count) ==
  list2 \in Records /\ IsChain(h2, cs, list2) /\ list2.ref_count = ref_count /\ list2.state = IDLE

\* The pointers lead along the cells cs and back.
Linked(h, cs) == Leads(h, cs) /\ \A k \in 1 .. Len(cs) : h[cs[k]].prev = At(cs, k - 1)

\* The record of a selected list, and its chain.
LEMMA SelectedRecord ==
  ASSUME NEW h2, NEW cs \in Seq(Cell), Linked(h2, cs),
         NEW type \in Types, NEW ref_count \in 0 .. MaxRefs,
         NEW list2, MadeOf(list2, type, ref_count, cs)
  PROVE  Completed(h2, cs, list2, ref_count)
<1>1. PICK a, b, n : a = At(cs, 1) /\ b = At(cs, Len(cs)) /\ n = Len(cs)
  OBVIOUS
<1>2. a \in Cell \cup {NULL} /\ b \in Cell \cup {NULL} /\ n \in Nat
  BY <1>1, LenProperties, ElementOfSeq DEF At
<1>3. IdleRecord(list2, type, a, b, n, ref_count)
  BY <1>1 DEF NewList, MadeOf, IdleRecord
<1>4. IdleFields(list2, a, b, n, ref_count)
  BY <1>2, <1>3, RecordIs, Zenon
<1> QED BY <1>1, <1>4 DEF IsChain, Linked, Completed, IdleFields

\* The innermost loop is over the new list m, or the loops are the same.
LoopsOn(lps, lps2, m, list2) ==
  \/ lps2 = lps
  \/ list2.ref_count = 0 /\ list2.state = IDLE /\ lps2 = <<[list |-> m, results |-> 0, done |-> FALSE]>> \o lps

\* A new list, over which an expression may now loop, keeps what is known of the loops.
LEMMA LoopedSelected ==
  ASSUME NEW ch, NEW ch2, NEW ls, NEW ls2, NEW lps, NEW un, NEW m, NEW lps2, Looped(ch, ls, lps, un),
         lps \in Seq([list : List, results : Nat, done : BOOLEAN]), m \in List, DOMAIN ls \subseteq List,
         m \notin DOMAIN ls, NEW list2, ls2 = With(ls, m, list2), \A l \in List : l # m => ch2[l] = ch[l],
         LoopsOn(lps, lps2, m, list2)
  PROVE  Looped(ch2, ls2, lps2, un) /\ lps2 \in Seq([list : List, results : Nat, done : BOOLEAN])
<1>1. \A i \in DOMAIN lps : lps[i].list # m /\ lps[i].list \in DOMAIN ls
  BY HeldIsNotLooped
<1>2. DOMAIN ls2 = DOMAIN ls \cup {m} /\ ls2[m] = list2 /\ \A l \in DOMAIN ls : ls2[l] = ls[l]
  BY DEF With
<1>3. \A i \in DOMAIN lps : LET k == lps[i].list IN k \in DOMAIN ls2 /\ ls2[k] = ls[k] /\ ch2[k] = ch[k]
  BY <1>1, <1>2
<1>4. Looped(ch2, ls2, lps, un)
  BY <1>3, LoopedSame
<1>5. CASE lps2 = lps
  BY <1>4, <1>5
<1>6. CASE list2.ref_count = 0 /\ list2.state = IDLE /\ lps2 = <<[list |-> m, results |-> 0, done |-> FALSE]>> \o lps
  <2>1. PICK e : e = [list |-> m, results |-> 0, done |-> FALSE]
    OBVIOUS
  <2>2. e \in [list : List, results : Nat, done : BOOLEAN] /\ e.list = m /\ ~e.done
    BY <2>1
  <2>3. PICK n : n = Len(lps)
    OBVIOUS
  <2>4. n \in Nat /\ DOMAIN lps = 1 .. n
    BY <2>3, LenProperties
  <2>5. /\ lps2 \in Seq([list : List, results : Nat, done : BOOLEAN]) /\ Len(lps2) = n + 1 /\ lps2[1] = e
        /\ \A k \in 1 .. n : lps2[k + 1] = lps[k]
    BY <1>6, <2>1, <2>2, <2>3, ConsFacts
  <2>6. DOMAIN lps2 = 1 .. n + 1
    BY <2>5, LenProperties
  <2>7. \A i \in 1 .. n + 1 : i = 1 \/ (i - 1 \in 1 .. n /\ lps2[i] = lps[i - 1])
    <3> SUFFICES ASSUME NEW i \in 1 .. n + 1, i # 1 PROVE i - 1 \in 1 .. n /\ lps2[i] = lps[i - 1]
      OBVIOUS
    <3>1. i - 1 \in 1 .. n /\ (i - 1) + 1 = i
      BY <2>4
    <3> QED BY <2>5, <3>1
  <2>8. ASSUME NEW i \in 1 .. n + 1, NEW j \in 1 .. n + 1, lps2[i].list = lps2[j].list PROVE i = j
    <3>0. \A k \in 1 .. n + 1 : lps2[k].list = m => k = 1
      <4> SUFFICES ASSUME NEW k \in 1 .. n + 1, k # 1 PROVE lps2[k].list # m
        OBVIOUS
      <4>1. k - 1 \in DOMAIN lps /\ lps2[k] = lps[k - 1]
        BY <2>4, <2>7
      <4> QED BY <1>1, <4>1
    <3>1. CASE i = 1
      BY <2>2, <2>5, <2>8, <3>0, <3>1
    <3>2. CASE j = 1
      BY <2>2, <2>5, <2>8, <3>0, <3>2
    <3>3. CASE i # 1 /\ j # 1
      <4>1. lps[i - 1].list = lps[j - 1].list /\ i - 1 \in DOMAIN lps /\ j - 1 \in DOMAIN lps
        BY <2>4, <2>7, <2>8, <3>3
      <4>2. i - 1 = j - 1
        BY <4>1 DEF Looped
      <4> QED BY <2>4, <4>2
    <3> QED BY <3>1, <3>2, <3>3
  <2>9. ASSUME NEW i \in 1 .. n + 1
        PROVE  LET k == lps2[i].list
               IN  /\ k \in DOMAIN ls2 /\ ls2[k].ref_count = 0
                   /\ lps2[i].done => un[k] = {}
                   /\ ~lps2[i].done /\ ls2[k].state = SEQUENCING => Ahead(ch2[k], ls2[k].current_item, un[k])
    <3>1. CASE i = 1
      <4>1. list2.state # SEQUENCING
        BY <1>6 DEF IDLE, SEQUENCING
      <4> QED BY <1>2, <1>6, <2>2, <2>5, <3>1, <4>1
    <3>2. CASE i # 1
      <4>1. i - 1 \in DOMAIN lps /\ lps2[i] = lps[i - 1]
        BY <2>4, <2>7, <3>2
      <4>2. PICK e2, k : e2 = lps[i - 1] /\ k = e2.list
        OBVIOUS
      <4>3. /\ k \in DOMAIN ls2 /\ ls2[k].ref_count = 0 /\ (e2.done => un[k] = {})
            /\ ~e2.done /\ ls2[k].state = SEQUENCING => Ahead(ch2[k], ls2[k].current_item, un[k])
        BY <1>4, <4>1, <4>2 DEF Looped
      <4> QED BY <4>1, <4>2, <4>3
    <3> QED BY <3>1, <3>2
  <2>10. Looped(ch2, ls2, lps2, un)
    BY <2>6, <2>8, <2>9 DEF Looped
  <2> QED BY <2>5, <2>10
<1> QED BY <1>5, <1>6 DEF LoopsOn

\* ListSelect keeps the invariant.
LEMMA SelectKeeps ==
  ASSUME NEW ch, Consistent(ch), Quiet, NEW l \in DOMAIN lists, NEW m \in List, m \notin DOMAIN lists,
         NEW ps \in Seq(0 .. lists[l].nelem - 1), NEW ref_count \in 0 .. MaxRefs, NEW complete,
         Select(l, ps, m, ref_count, complete), UNCHANGED <<unseen, fault>>,
         \/ UNCHANGED loops
         \/ complete /\ ref_count = 0 /\ loops' = <<[list |-> m, results |-> 0, done |-> FALSE]>> \o loops
  PROVE  \E ch2 \in [List -> Seq(Cell)] :
           /\ Consistent(ch2)'
           /\ \E cs : Outcome(m, lists[l].list_type, ref_count, complete, cs) /\ Chosen(ch, ch2, ch[l], m, cs)
<1>1. todo = <<>> /\ Holds(ch, heap, lists, vars, <<>>, loops, unseen)
  BY DEF Quiet, Consistent
<1>2. PICK type : type = lists[l].list_type
  OBVIOUS
<1>3. PICK cs, items, ch2 : /\ Selects(ch, ch2, heap, heap', vars, vars', m, cs, items) /\ Outcome(m, type, ref_count, complete, cs)
                            /\ Chosen(ch, ch2, ch[l], m, cs)
  BY <1>1, <1>2, SelectIs
<1>4. /\ Typed(heap, lists, vars, loops, unseen) /\ Looped(ch, lists, loops, unseen) /\ ch \in [List -> Seq(Cell)]
  BY <1>1, QuietHolds
<1>5. type \in Types /\ DOMAIN lists \subseteq List /\ loops \in Seq([list : List, results : Nat, done : BOOLEAN])
  BY <1>2, <1>4 DEF Typed, Records
<1> DEFINE h2 == heap'
           ls2 == lists'
           vs2 == vars'
           lps2 == loops'
           td2 == todo'
<1>6. Selects(ch, ch2, heap, h2, vars, vs2, m, cs, items)
  BY <1>3
<1>7. \/ lps2 = loops
      \/ complete /\ ref_count = 0 /\ lps2 = <<[list |-> m, results |-> 0, done |-> FALSE]>> \o loops
  OBVIOUS
<1>8. /\ complete => /\ ls2 = With(lists, m, [NewList(type, ref_count) EXCEPT
                                                !.first = At(cs, 1), !.last = At(cs, Len(cs)), !.nelem = Len(cs)])
                     /\ td2 = <<>>
      /\ ~complete => ls2 = lists /\ td2 = <<Unmaking(m, At(cs, 1))>>
  BY <1>3 DEF Outcome
<1>9. UNCHANGED <<unseen, fault>>
  OBVIOUS
<1> HIDE DEF h2, ls2, vs2, lps2, td2
<1>10. /\ ch2 \in [List -> Seq(Cell)] /\ cs \in Seq(Cell) /\ (\A k \in List : k # m => ch2[k] = ch[k])
       /\ Linked(h2, cs)
  BY <1>1, <1>6, SelectParts DEF Linked
<1>11. Holds(ch2, h2, ls2, vs2, td2, lps2, unseen)
  <2>1. CASE complete
    <3>1. PICK list2 : MadeOf(list2, type, ref_count, cs)
      BY DEF MadeOf
    <3>2. ls2 = With(lists, m, list2) /\ td2 = <<>>
      BY <1>8, <2>1, <3>1 DEF MadeOf
    <3>a. Completed(h2, cs, list2, ref_count)
      BY <1>5, <1>10, <3>1, SelectedRecord, Zenon
    <3>3. list2 \in Records /\ IsChain(h2, cs, list2) /\ list2.ref_count = ref_count /\ list2.state = IDLE
      BY <3>a DEF Completed
    <3>4. LoopsOn(loops, lps2, m, list2)
      BY <1>7, <3>3 DEF LoopsOn
    <3>5. Looped(ch2, ls2, lps2, unseen) /\ lps2 \in Seq([list : List, results : Nat, done : BOOLEAN])
      BY <1>4, <1>5, <1>10, <3>2, <3>4, LoopedSelected
    <3>6. Holds(ch2, h2, ls2, vs2, <<>>, lps2, unseen)
      BY <1>1, <1>6, <3>2, <3>3, <3>5, SelectedHolds, Zenon
    <3> QED BY <3>2, <3>6
  <2>2. CASE ~complete
    <3>1. ls2 = lists /\ td2 = <<Unmaking(m, At(cs, 1))>> /\ lps2 = loops
      BY <1>7, <1>8, <2>2
    <3>2. Holds(ch2, h2, lists, vs2, <<Unmaking(m, At(cs, 1))>>, loops, unseen)
      BY <1>1, <1>6, UnfinishedHolds, Zenon
    <3> QED BY <3>1, <3>2
  <2> QED BY <2>1, <2>2
<1>12. Consistent(ch2)'
  BY <1>9, <1>11, Zenon DEF Consistent, h2, ls2, vs2, lps2, td2
<1> QED BY <1>2, <1>3, <1>10, <1>12

\* The copy of a list keeps the invariant.
LEMMA CopyKeeps ==
  ASSUME NEW ch, Consistent(ch), NEW l \in List, NEW m \in List, ListCopy(l, m)
  PROVE  /\ l \in DOMAIN lists /\ m \notin DOMAIN lists /\ todo = <<>>
         /\ \E ch2 \in [List -> Seq(Cell)] :
              /\ Consistent(ch2)'
              /\ \E cs : Outcome(m, lists[l].list_type, 1, TRUE, cs) /\ Chosen(ch, ch2, ch[l], m, cs)
<1>1. /\ Quiet /\ l \in DOMAIN lists /\ m \notin DOMAIN lists /\ UNCHANGED <<loops, unseen, fault>>
      /\ Select(l, [k \in 1 .. lists[l].nelem |-> k - 1], m, 1, TRUE)
  BY DEF ListCopy, ValueList, FreshList, Has
<1>2. PICK n, ps : n = lists[l].nelem /\ ps = [k \in 1 .. n |-> k - 1]
  OBVIOUS
<1>3. n \in Nat
  BY <1>1, <1>2, Zenon DEF Consistent, Holds, Typed, Records
<1>4. ps \in Seq(0 .. n - 1)
  <2>1. ps \in [1 .. n -> 0 .. n - 1]
    BY <1>2, <1>3
  <2> QED BY <1>3, <2>1, FunctionIsSeq
<1>5. 1 \in 0 .. MaxRefs
  BY BoundAssumption
<1>6. Select(l, ps, m, 1, TRUE) /\ ps \in Seq(0 .. lists[l].nelem - 1)
  BY <1>1, <1>2, <1>4
<1>7. UNCHANGED <<unseen, fault>> /\ UNCHANGED loops
  BY <1>1
<1> QED BY <1>1, <1>5, <1>6, <1>7, SelectKeeps DEF Quiet

\* The selection of a list expression keeps the invariant.
LEMMA ReadKeeps ==
  ASSUME NEW ch, Consistent(ch), NEW l \in List, NEW m \in List, NEW sel \in Selections, ListRead(l, sel, m)
  PROVE  /\ l \in DOMAIN lists /\ m \notin DOMAIN lists /\ todo = <<>>
         /\ \E ch2 \in [List -> Seq(Cell)] :
              /\ Consistent(ch2)'
              /\ \E valid, cs : Outcome(m, lists[l].list_type, 0, valid, cs) /\ Chosen(ch, ch2, ch[l], m, cs)
<1>1. PICK nelem, ps, valid : nelem = lists[l].nelem /\ ps = Entering(sel, nelem) /\ valid = Valid(sel, nelem)
  OBVIOUS
<1>2. /\ Quiet /\ l \in DOMAIN lists /\ m \notin DOMAIN lists /\ UNCHANGED <<unseen, fault>>
      /\ Select(l, ps, m, 0, valid)
      /\ loops' = IF valid THEN <<[list |-> m, results |-> 0, done |-> FALSE]>> \o loops ELSE loops
  BY <1>1 DEF ListRead, ValueList, FreshList, Has
<1>3. nelem \in Nat
  BY <1>1, <1>2, Zenon DEF Consistent, Holds, Typed, Records
<1>4. ps \in Seq(0 .. lists[l].nelem - 1)
  BY <1>1, <1>3, EnteringInRange
<1>5. 0 \in 0 .. MaxRefs
  BY BoundAssumption
<1>6. UNCHANGED loops \/ (valid /\ 0 = 0 /\ loops' = <<[list |-> m, results |-> 0, done |-> FALSE]>> \o loops)
  BY <1>2
<1>7. \E ch2 \in [List -> Seq(Cell)] :
        /\ Consistent(ch2)'
        /\ \E cs : Outcome(m, lists[l].list_type, 0, valid, cs) /\ Chosen(ch, ch2, ch[l], m, cs)
  BY <1>2, <1>4, <1>5, <1>6, SelectKeeps
<1> QED BY <1>2, <1>7 DEF Quiet

-----------------------------------------------------------------------------
(* Every step keeps the invariant *)

\* At the start there are no lists.
LEMMA InitConsistent ==
  ASSUME Init
  PROVE  IInv
<1>1. PICK ch : ch = [l \in List |-> <<>>]
  OBVIOUS
<1>2. ch \in [List -> Seq(Cell)] /\ \A l \in List : ch[l] = <<>>
  BY <1>1
<1>3. /\ DOMAIN heap = {} /\ DOMAIN lists = {} /\ DOMAIN vars = {}
      /\ todo = <<>> /\ loops = <<>> /\ unseen \in [List -> SUBSET Cell] /\ fault = "none"
  BY DEF Init
<1>4. Len(<<>>) = 0 /\ ToSet(<<>>) = {}
  BY DEF ToSet
<1>5. Dead(<<>>) = {} /\ Told(<<>>) = {} /\ Unmade(<<>>) = {}
  BY DEF Dead, Told, Unmade
<1>6. \A l \in List : Own(ch)[l] = {}
  BY <1>2, <1>4 DEF Own
<1>7. Typed(heap, lists, vars, loops, unseen)
  BY <1>3 DEF Typed
<1>8. Nesting(todo)
  BY <1>3 DEF Nesting
<1>9. Chained(ch, heap, lists, Unmade(todo))
  BY <1>2, <1>3, <1>4 DEF Chained, Once, Leads
<1>10. Shared(heap, Own(ch))
  BY <1>3, <1>6 DEF Shared
<1>11. Watching(heap, vars, Own(ch), Dead(todo), Told(todo))
  BY <1>6 DEF Watching
<1>12. /\ Exact(heap, vars, Own(ch), Dead(todo)) /\ Single(vars)
       /\ Kept(heap, vars, Own(ch), Dead(todo)) /\ Dead(todo) \subseteq DOMAIN vars
  BY <1>3, <1>5 DEF Exact, Single, Kept
<1>13. UnderWay(ch, heap, lists, todo) /\ Looped(ch, lists, loops, unseen)
  BY <1>3 DEF UnderWay, Looped
<1>14. Consistent(ch)
  BY <1>2, <1>3, <1>7, <1>8, <1>9, <1>10, <1>11, <1>12, <1>13 DEF Consistent, Holds
<1> QED BY <1>2, <1>14 DEF IInv

\* Every operation keeps the invariant.
LEMMA StepConsistent ==
  ASSUME NEW ch \in [List -> Seq(Cell)], Consistent(ch), [Next]_all
  PROVE  \E ch2 \in [List -> Seq(Cell)] : Consistent(ch2)'
<1>1. CASE UNCHANGED all
  BY <1>1, Zenon DEF all, Consistent
<1>2. ASSUME NEW x \in Var, Define(x) \/ DestroyVar(x)
      PROVE  \E ch2 \in [List -> Seq(Cell)] : Consistent(ch2)'
  BY <1>2, DefineKeeps, DestroyVarKeeps
<1>3. ASSUME NEW l \in List, NEW t \in Types, ListCreate(l, t) \/ ListSetType(l, t)
      PROVE  \E ch2 \in [List -> Seq(Cell)] : Consistent(ch2)'
  BY <1>3, CreateKeeps, SetTypeKeeps
<1>4. ASSUME NEW l \in List, NEW x \in Var, NEW o \in {"value", "var"}, NEW c \in Cell,
             ListPush(l, x, o, c) \/ ListAppend(l, x, o, c)
      PROVE  \E ch2 \in [List -> Seq(Cell)] : Consistent(ch2)'
  BY <1>4, PushKeeps, AppendKeeps
<1>5. ASSUME NEW l \in List, ListPop(l) \/ ListAddParent(l) \/ ListDelParent(l)
      PROVE  \E ch2 \in [List -> Seq(Cell)] : Consistent(ch2)'
  BY <1>5, PopKeeps, AddParentKeeps, DelParentKeeps
<1>6. ASSUME NEW l \in List, NEW m \in List, NEW sel \in Selections, ListRead(l, sel, m)
      PROVE  \E ch2 \in [List -> Seq(Cell)] : Consistent(ch2)'
  BY <1>6, ReadKeeps
<1>7. ASSUME NEW l \in List, NEW m \in List, ListCopy(l, m)
      PROVE  \E ch2 \in [List -> Seq(Cell)] : Consistent(ch2)'
  BY <1>7, CopyKeeps
<1>8. CASE SetNext \/ Term
  BY <1>8, SetNextKeeps, TermKeeps
<1>9. CASE CallBack \/ ItemDestroyNotify \/ ListDestroy
  BY <1>9, CallBackKeeps, NotifyKeeps, ListDestroyKeeps
<1> QED BY <1>1, <1>2, <1>3, <1>4, <1>5, <1>6, <1>7, <1>8, <1>9, Zenon DEF Next, Environment

\* The pointers of every list make up a chain, no two chains share a cell, and the cells
\* and callbacks correspond, except for those the operations under way account for.
LEMMA Invariant == Spec => []IInv
<1>1. Init => IInv
  BY InitConsistent
<1>2. IInv /\ [Next]_all => IInv'
  BY StepConsistent DEF IInv
<1> QED BY <1>1, <1>2, PTL DEF Spec

-----------------------------------------------------------------------------
(* What it means *)

\* Every field of the cells, the lists and the variables, and everything under way, is what
\* it should be; a list never counts more cells than there are.
THEOREM TypesHold == Spec => []TypeOK
<1>1. IInv => TypeOK
  BY TypeHolds DEF IInv
<1> QED BY <1>1, Invariant, PTL

\* ListPush, ListAppend, ListPop, ListSelect and the callback of a dying variable, and
\* ListDestroy interrupted by it, leave first, last, nelem and both pointers of every list
\* right, whatever number of lists, variables and cells there is.
THEOREM ListsStayLinked == Spec => []WellLinked
<1>1. IInv => WellLinked
  BY LinksHold DEF IInv
<1> QED BY <1>1, Invariant, PTL

\* Between operations every variable on a list will tell it of its end, for each of its
\* cells, and no variable would tell a list of a cell it does not have.
THEOREM CellsStayWatched == Spec => []Watched
<1>1. IInv => Watched
  BY WatchHolds DEF IInv
<1> QED BY <1>1, Invariant, PTL

\* Between operations a variable without a name is on a list, and a variable counts no list
\* as a parent that does not have it.
THEOREM NothingLeaks == Spec => []NoLeak
<1>1. IInv => NoLeak
  BY LeakHolds DEF IInv
<1> QED BY <1>1, Invariant, PTL

\* An expression on a list has handed out every element its temporary list still has when
\* its loop ends, whatever its body did to lists and variables meanwhile.
THEOREM EverythingHandedOut == Spec => []AllHandedOut
<1>1. IInv => AllHandedOut
  BY HandedOutHolds DEF IInv
<1> QED BY <1>1, Invariant, PTL

-----------------------------------------------------------------------------
(* What the lists promise *)

\* The variables of the cells s, and the types and the variables of all lists.
Items(s, h) == [k \in 1 .. Len(s) |-> h[s[k]].obj_id]
Contents(ch, h, ls) == [l \in DOMAIN ls |-> [type |-> ls[l].list_type, items |-> Items(ch[l], h)]]

\* The chains are sequences of cells in use.
Rooted(ch, h, ls) ==
  /\ DOMAIN ls \subseteq List /\ ch \in [List -> Seq(Cell)]
  /\ \A l \in List : \A k \in 1 .. Len(ch[l]) : ch[l][k] \in DOMAIN h
  /\ \A c \in DOMAIN h : h[c].obj_id \in Var

Seen(ch) == Content = Contents(ch, heap, lists) /\ DyingVars = Dead(todo) /\ Rooted(ch, heap, lists)

\* The variables that die are those of the frames that say so.
LEMMA DeadAre ==
  ASSUME NEW td, Nesting(td)
  PROVE  Dead(td) = {td[i].var : i \in {j \in DOMAIN td : td[j].op = "destroy"}}
<1>1. \A i \in DOMAIN td : td[i].op = "destroy" => td[i].var \in Var /\ td[i] = Dying(td[i].var)
  <2>1. CASE td = <<>>
    BY <2>1
  <2>2. CASE \E x \in Var : td = <<Dying(x)>>
    BY <2>2 DEF Dying
  <2>3. CASE \E x \in Var, l \in List, s \in Cell \cup {NULL} : td = <<Notifying(l, x, s), Dying(x)>>
    BY <2>3 DEF Dying, Notifying
  <2>4. CASE \E m \in List, c \in Cell \cup {NULL} : td = <<Unmaking(m, c)>>
    BY <2>4 DEF Unmaking
  <2>5. CASE \E m \in List, c \in Cell \cup {NULL}, x \in Var : td = <<Dying(x), Unmaking(m, c)>>
    BY <2>5 DEF Dying, Unmaking
  <2>6. CASE \E m \in List, c \in Cell \cup {NULL}, x \in Var, l \in List, s \in Cell \cup {NULL} :
               td = <<Notifying(l, x, s), Dying(x), Unmaking(m, c)>>
    BY <2>6 DEF Dying, Notifying, Unmaking
  <2> QED BY <2>1, <2>2, <2>3, <2>4, <2>5, <2>6 DEF Nesting
<1>2. \A x : Dying(x).op = "destroy" /\ Dying(x).var = x
  BY DEF Dying
<1> QED BY <1>1, <1>2 DEF Dead

\* What the lists have, when the invariant holds.
LEMMA SeenNow == \A ch : Consistent(ch) => Seen(ch)
<1> SUFFICES ASSUME NEW ch, Consistent(ch) PROVE Seen(ch)
  OBVIOUS
<1>1. Holds(ch, heap, lists, vars, todo, loops, unseen)
  BY Zenon DEF Consistent
<1>2. DOMAIN lists \subseteq List /\ ch \in [List -> Seq(Cell)]
  BY <1>1 DEF Holds, Typed
<1>3. \A l \in List : Leads(heap, ch[l])
  BY <1>1 DEF Holds, Chained, IsChain
<1>4. Rooted(ch, heap, lists)
  <2>1. \A c \in DOMAIN heap : heap[c].obj_id \in Var
    BY <1>1 DEF Holds, Typed, CellType
  <2> QED BY <1>2, <1>3, <2>1 DEF Rooted, Leads
<1>5. DyingVars = Dead(todo)
  <2>1. Nesting(todo)
    BY <1>1 DEF Holds
  <2> QED BY <2>1, DeadAre DEF DyingVars
<1>6. Content = Contents(ch, heap, lists)
  <2>1. ASSUME NEW l \in DOMAIN lists PROVE ItemsOf(l) = Items(ch[l], heap)
    <3>1. Chain(l) = ch[l] /\ ch[l] \in Seq(Cell)
      BY ChainFound
    <3>2. DOMAIN ch[l] = 1 .. Len(ch[l])
      BY <3>1
    <3> HIDE DEF Chain
    <3> QED BY <3>1, <3>2 DEF ItemsOf, Items
  <2> QED BY <2>1 DEF Content, Contents
<1> QED BY <1>4, <1>5, <1>6 DEF Seen

LEMMA SeenNext == \A ch : Consistent(ch)' => Seen(ch)'
<1>1. (\A ch : Consistent(ch) => Seen(ch))'
  BY SeenNow, PTL
<1> QED BY <1>1

\* A list with the same cells has the same variables.
LEMMA ItemsStay ==
  ASSUME NEW ch, NEW h, NEW ls, NEW ch2, NEW h2, NEW ls2, Rooted(ch, h, ls), Rooted(ch2, h2, ls2), SameIds(h, h2),
         NEW l \in List, ch2[l] = ch[l]
  PROVE  Items(ch2[l], h2) = Items(ch[l], h)
<1>1. \A k \in 1 .. Len(ch[l]) : h2[ch2[l][k]].obj_id = h[ch[l][k]].obj_id
  BY DEF Rooted, SameIds
<1> QED BY <1>1 DEF Items

\* When the cells of all lists are the same, so are the contents.
LEMMA ContentsStay ==
  ASSUME NEW ch, NEW h, NEW ls, NEW ch2, NEW h2, NEW ls2, Rooted(ch, h, ls), Rooted(ch2, h2, ls2), SameIds(h, h2),
         SameTypes(ls, ls2), \A l \in DOMAIN ls : ch2[l] = ch[l]
  PROVE  Contents(ch2, h2, ls2) = Contents(ch, h, ls)
<1>1. ASSUME NEW l \in DOMAIN ls PROVE Items(ch2[l], h2) = Items(ch[l], h)
  <2>1. l \in List /\ ch2[l] = ch[l]
    BY DEF Rooted
  <2> QED BY <2>1, ItemsStay
<1> HIDE DEF Items
<1> QED BY <1>1 DEF Contents, SameTypes

\* When one list gets other cells, its variables alone change.
LEMMA ContentsChange ==
  ASSUME NEW ch, NEW h, NEW ls, NEW ch2, NEW h2, NEW ls2, Rooted(ch, h, ls), Rooted(ch2, h2, ls2), SameIds(h, h2),
         SameTypes(ls, ls2), NEW l \in DOMAIN ls, \A m \in DOMAIN ls : m # l => ch2[m] = ch[m]
  PROVE  Contents(ch2, h2, ls2) = [Contents(ch, h, ls) EXCEPT ![l].items = Items(ch2[l], h2)]
<1>1. ASSUME NEW m \in DOMAIN ls, m # l PROVE Items(ch2[m], h2) = Items(ch[m], h)
  <2>1. m \in List /\ ch2[m] = ch[m]
    BY <1>1 DEF Rooted
  <2> QED BY <2>1, ItemsStay
<1> HIDE DEF Items
<1>2. DOMAIN ls2 = DOMAIN ls /\ \A m \in DOMAIN ls : ls2[m].list_type = ls[m].list_type
  BY DEF SameTypes
<1> DEFINE C == Contents(ch, h, ls)
           C2 == Contents(ch2, h2, ls2)
<1>3. DOMAIN C = DOMAIN ls /\ DOMAIN C2 = DOMAIN ls
  BY <1>2 DEF Contents
<1>4. \A m \in DOMAIN ls : m # l => C2[m] = C[m]
  BY <1>1, <1>2 DEF Contents
<1>5. C2[l] = [C[l] EXCEPT !.items = Items(ch2[l], h2)]
  BY <1>2 DEF Contents
<1>6. C2 = [m \in DOMAIN ls |-> C2[m]]
  BY <1>2 DEF Contents
<1> HIDE DEF C, C2
<1>7. C2 = [C EXCEPT ![l].items = Items(ch2[l], h2)]
  BY <1>3, <1>4, <1>5, <1>6
<1> QED BY <1>7 DEF C, C2

\* What nobody sees of a step.
LEMMA StepUnseen ==
  ASSUME NEW ch, NEW ch2, Consistent(ch), Consistent(ch2)', SameRest(heap, heap', lists, lists'),
         \A l \in DOMAIN lists : ch2[l] = ch[l], Dead(todo') = Dead(todo)
  PROVE  UNCHANGED <<Content, DyingVars>>
<1>1. Content = Contents(ch, heap, lists) /\ DyingVars = Dead(todo) /\ Rooted(ch, heap, lists)
  BY SeenNow DEF Seen
<1>2. Content' = Contents(ch2, heap', lists') /\ DyingVars' = Dead(todo') /\ Rooted(ch2, heap', lists')
  BY SeenNext DEF Seen
<1>3. Contents(ch2, heap', lists') = Contents(ch, heap, lists)
  BY <1>1, <1>2, ContentsStay DEF SameRest
<1> QED BY <1>1, <1>2, <1>3

\* The variables of cells are a sequence as long as theirs.
LEMMA ItemsAre ==
  ASSUME NEW s \in Seq(Cell), NEW h, \A k \in 1 .. Len(s) : h[s[k]].obj_id \in Var
  PROVE  /\ Items(s, h) \in Seq(Var) /\ Len(Items(s, h)) = Len(s)
         /\ \A k \in 1 .. Len(s) : Items(s, h)[k] = h[s[k]].obj_id
<1>1. PICK n \in Nat : n = Len(s)
  BY LenProperties
<1>2. Items(s, h) \in [1 .. n -> Var]
  BY <1>1 DEF Items
<1>3. Items(s, h) \in Seq(Var) /\ Len(Items(s, h)) = n
  BY <1>2, FunctionIsSeq, Zenon
<1> QED BY <1>1, <1>3 DEF Items

\* Two sequences of the same length with the same elements are one.
LEMMA SameSequence ==
  ASSUME NEW S, NEW s \in Seq(S), NEW t \in Seq(S), Len(s) = Len(t), \A k \in 1 .. Len(s) : s[k] = t[k]
  PROVE  s = t
BY SeqEqual

\* Cells in h2 have the variables they have in h, and all have one.
Named(s, h) == s \in Seq(Cell) /\ \A k \in 1 .. Len(s) : s[k] \in DOMAIN h /\ h[s[k]].obj_id \in Var

LEMMA RootedNamed ==
  ASSUME NEW ch, NEW h, NEW ls, Rooted(ch, h, ls), NEW l \in List
  PROVE  Named(ch[l], h)
BY DEF Rooted, Named

\* Without the cell at place p, the list has its variables without the one at p.
LEMMA ItemsRemoved ==
  ASSUME NEW s, NEW h, Named(s, h), NEW p \in 1 .. Len(s), NEW h2, Named(RemoveAt(s, p), h2), SameIds(h, h2)
  PROVE  Items(RemoveAt(s, p), h2) = RemoveAt(Items(s, h), p)
<1>0. PICK t : t = RemoveAt(s, p) /\ Named(t, h2)
  OBVIOUS
<1>1. s \in Seq(Cell) /\ t \in Seq(Cell) /\ Len(s) \in Nat
  BY <1>0, LenProperties DEF Named
<1>2. PICK a : a = Items(s, h)
  OBVIOUS
<1>3. PICK b : b = Items(t, h2)
  OBVIOUS
<1>4. a \in Seq(Var) /\ Len(a) = Len(s) /\ \A k \in 1 .. Len(s) : a[k] = h[s[k]].obj_id
  BY <1>1, <1>2, ItemsAre DEF Named
<1>5. b \in Seq(Var) /\ Len(b) = Len(t) /\ \A k \in 1 .. Len(t) : b[k] = h2[t[k]].obj_id
  BY <1>0, <1>1, <1>3, ItemsAre DEF Named
<1>6. Len(t) = Len(s) - 1 /\ \A k \in 1 .. Len(s) - 1 : t[k] = IF k < p THEN s[k] ELSE s[k + 1]
  BY <1>0, <1>1, RemoveAtFacts
<1>7. PICK r : r = RemoveAt(a, p)
  OBVIOUS
<1>8. r \in Seq(Var) /\ Len(r) = Len(s) - 1 /\ \A k \in 1 .. Len(s) - 1 : r[k] = IF k < p THEN a[k] ELSE a[k + 1]
  <2>1. p \in 1 .. Len(a)
    BY <1>4
  <2> QED BY <1>4, <1>7, <2>1, RemoveAtFacts
<1>9. ASSUME NEW k \in 1 .. Len(s) - 1 PROVE b[k] = r[k]
  <2>1. t[k] \in DOMAIN h2 /\ b[k] = h2[t[k]].obj_id
    BY <1>0, <1>5, <1>6 DEF Named
  <2>2. PICK j \in 1 .. Len(s) : t[k] = s[j] /\ r[k] = a[j]
    <3>1. CASE k < p
      <4>1. k \in 1 .. Len(s)
        BY <1>1
      <4> QED BY <1>6, <1>8, <3>1, <4>1
    <3>2. CASE ~(k < p)
      <4>1. k + 1 \in 1 .. Len(s)
        BY <1>1
      <4> QED BY <1>6, <1>8, <3>2, <4>1
    <3> QED BY <3>1, <3>2
  <2>3. s[j] \in DOMAIN h
    BY DEF Named
  <2> QED BY <1>4, <2>1, <2>2, <2>3 DEF SameIds
<1>10. b = r
  BY <1>5, <1>6, <1>8, <1>9, SameSequence
<1> QED BY <1>0, <1>2, <1>3, <1>7, <1>10

\* With one more cell, the list has one more variable.
LEMMA ItemsAppended ==
  ASSUME NEW s, NEW h, Named(s, h), NEW c, NEW h2, Named(Append(s, c), h2), SameIds(h, h2)
  PROVE  Items(Append(s, c), h2) = Append(Items(s, h), h2[c].obj_id)
<1>0. PICK t : t = Append(s, c) /\ Named(t, h2)
  OBVIOUS
<1>1. PICK n \in Nat : s \in Seq(Cell) /\ t \in Seq(Cell) /\ Len(s) = n
  BY <1>0, LenProperties DEF Named
<1>2. Len(t) = n + 1 /\ t[n + 1] = c /\ \A k \in 1 .. n : t[k] = s[k]
  BY <1>0, <1>1, AppendProperties
<1>3. PICK a : a = Items(s, h)
  OBVIOUS
<1>4. PICK b : b = Items(t, h2)
  OBVIOUS
<1>5. PICK x : x = h2[c].obj_id
  OBVIOUS
<1>6. a \in Seq(Var) /\ Len(a) = n /\ \A k \in 1 .. n : a[k] = h[s[k]].obj_id
  BY <1>1, <1>3, ItemsAre DEF Named
<1>7. b \in Seq(Var) /\ Len(b) = n + 1 /\ \A k \in 1 .. n + 1 : b[k] = h2[t[k]].obj_id
  <2>1. b \in Seq(Var) /\ Len(b) = Len(t) /\ \A k \in 1 .. Len(t) : b[k] = h2[t[k]].obj_id
    BY <1>0, <1>1, <1>4, ItemsAre DEF Named
  <2> QED BY <1>2, <2>1
<1>8. x \in Var
  <2>1. n + 1 \in 1 .. Len(t)
    BY <1>2
  <2> QED BY <1>0, <1>2, <1>5, <2>1 DEF Named
<1>9. PICK r : r = Append(a, x)
  OBVIOUS
<1>10. r \in Seq(Var) /\ Len(r) = n + 1 /\ r[n + 1] = x /\ \A k \in 1 .. n : r[k] = a[k]
  BY <1>6, <1>8, <1>9, AppendProperties
<1>11. ASSUME NEW k \in 1 .. n PROVE b[k] = r[k]
  <2>1. k \in 1 .. n + 1 /\ s[k] \in DOMAIN h /\ s[k] \in DOMAIN h2 /\ t[k] = s[k]
    <3>1. k \in 1 .. n + 1 /\ s[k] \in DOMAIN h /\ t[k] = s[k]
      BY <1>1, <1>2 DEF Named
    <3>2. t[k] \in DOMAIN h2
      BY <1>0, <1>2, <3>1 DEF Named
    <3> QED BY <3>1, <3>2
  <2>2. h2[s[k]].obj_id = h[s[k]].obj_id
    BY <2>1 DEF SameIds
  <2>3. b[k] = h2[s[k]].obj_id
    BY <1>7, <2>1
  <2>4. r[k] = h[s[k]].obj_id
    BY <1>6, <1>10
  <2> QED BY <2>2, <2>3, <2>4
<1>12. \A k \in 1 .. n + 1 : b[k] = r[k]
  <2>1. b[n + 1] = x
    BY <1>2, <1>5, <1>7
  <2> QED BY <1>10, <1>11, <2>1
<1>13. b = r
  BY <1>7, <1>10, <1>12, SameSequence
<1> QED BY <1>0, <1>3, <1>4, <1>5, <1>9, <1>13

\* With a new first cell, it has a new first variable.
LEMMA ItemsPushed ==
  ASSUME NEW s, NEW h, Named(s, h), NEW c \in Cell, NEW h2, Named(Cons(c, s), h2), SameIds(h, h2)
  PROVE  Items(Cons(c, s), h2) = Cons(h2[c].obj_id, Items(s, h))
<1>0. PICK t : t = <<c>> \o s /\ t = Cons(c, s) /\ Named(t, h2)
  BY DEF Cons
<1>1. PICK n \in Nat : s \in Seq(Cell) /\ t \in Seq(Cell) /\ Len(s) = n
  BY <1>0, LenProperties DEF Named
<1>2. Len(t) = n + 1 /\ t[1] = c /\ \A k \in 1 .. n : t[k + 1] = s[k]
  BY <1>0, <1>1, ConsFacts
<1>3. PICK a : a = Items(s, h)
  OBVIOUS
<1>4. PICK b : b = Items(t, h2)
  OBVIOUS
<1>5. PICK x : x = h2[c].obj_id
  OBVIOUS
<1>6. a \in Seq(Var) /\ Len(a) = n /\ \A k \in 1 .. n : a[k] = h[s[k]].obj_id
  BY <1>1, <1>3, ItemsAre DEF Named
<1>7. b \in Seq(Var) /\ Len(b) = n + 1 /\ \A k \in 1 .. n + 1 : b[k] = h2[t[k]].obj_id
  <2>1. b \in Seq(Var) /\ Len(b) = Len(t) /\ \A k \in 1 .. Len(t) : b[k] = h2[t[k]].obj_id
    BY <1>0, <1>1, <1>4, ItemsAre DEF Named
  <2> QED BY <1>2, <2>1
<1>8. x \in Var
  <2>1. 1 \in 1 .. Len(t)
    BY <1>2
  <2> QED BY <1>0, <1>2, <1>5, <2>1 DEF Named
<1>9. PICK r : r = <<x>> \o a
  OBVIOUS
<1>10. r \in Seq(Var) /\ Len(r) = n + 1 /\ r[1] = x /\ \A k \in 1 .. n : r[k + 1] = a[k]
  BY <1>6, <1>8, <1>9, ConsFacts
<1>11. ASSUME NEW k \in 1 .. n PROVE b[k + 1] = r[k + 1]
  <2>1. k + 1 \in 1 .. n + 1 /\ s[k] \in DOMAIN h /\ t[k + 1] = s[k]
    BY <1>1, <1>2 DEF Named
  <2>2. s[k] \in DOMAIN h2
    BY <1>0, <1>2, <2>1 DEF Named
  <2>3. h2[s[k]].obj_id = h[s[k]].obj_id
    BY <2>1, <2>2 DEF SameIds
  <2>4. b[k + 1] = h2[s[k]].obj_id
    BY <1>7, <2>1
  <2>5. r[k + 1] = h[s[k]].obj_id
    BY <1>6, <1>10
  <2> QED BY <2>3, <2>4, <2>5
<1>12. ASSUME NEW k \in 1 .. n + 1 PROVE b[k] = r[k]
  <2>1. CASE k = 1
    BY <1>2, <1>5, <1>7, <1>10, <2>1
  <2>2. CASE k # 1
    <3>1. k - 1 \in 1 .. n /\ (k - 1) + 1 = k
      BY <2>2
    <3>2. b[(k - 1) + 1] = r[(k - 1) + 1]
      BY <1>11, <3>1
    <3> QED BY <3>1, <3>2
  <2> QED BY <2>1, <2>2
<1>13. b = r
  BY <1>7, <1>10, <1>12, SameSequence
<1> QED BY <1>0, <1>3, <1>4, <1>5, <1>9, <1>13 DEF Cons

\* The sequence without its last element and without its first.
LEMMA EndsRemoved ==
  ASSUME NEW S, NEW s \in Seq(S), s # <<>>
  PROVE  RemoveAt(s, Len(s)) = Front(s) /\ RemoveAt(s, 1) = Tail(s) /\ Last(s) = s[Len(s)] /\ Head(s) = s[1]
<1>1. PICK n \in Nat : Len(s) = n /\ n # 0 /\ 1 \in 1 .. n /\ n \in 1 .. n /\ \A i \in 1 .. n : s[i] \in S
  <2>1. Len(s) \in Nat /\ Len(s) # 0
    BY EmptySeq
  <2> QED BY <2>1, LenProperties
<1>2. /\ RemoveAt(s, n) \in Seq(S) /\ Len(RemoveAt(s, n)) = n - 1
      /\ \A k \in 1 .. n - 1 : RemoveAt(s, n)[k] = IF k < n THEN s[k] ELSE s[k + 1]
  BY <1>1, RemoveAtFacts
<1>3. /\ RemoveAt(s, 1) \in Seq(S) /\ Len(RemoveAt(s, 1)) = n - 1
      /\ \A k \in 1 .. n - 1 : RemoveAt(s, 1)[k] = IF k < 1 THEN s[k] ELSE s[k + 1]
  BY <1>1, RemoveAtFacts
<1>4. Front(s) \in Seq(S) /\ Len(Front(s)) = n - 1 /\ \A k \in 1 .. n - 1 : Front(s)[k] = s[k]
  <2>1. \A i \in 1 .. n - 1 : s[i] \in S
    BY <1>1
  <2>2. PICK f : f = SubSeq(s, 1, n - 1)
    OBVIOUS
  <2>3. f \in Seq(S) /\ Len(f) = (IF 1 <= n - 1 THEN (n - 1) - 1 + 1 ELSE 0) /\ \A i \in 1 .. (n - 1) - 1 + 1 : f[i] = s[1 + i - 1]
    BY <1>1, <2>1, <2>2, SubSeqProperties
  <2>4. Len(f) = n - 1 /\ \A i \in 1 .. n - 1 : f[i] = s[i]
    BY <1>1, <2>3
  <2> QED BY <1>1, <2>2, <2>3, <2>4 DEF Front
<1>5. Tail(s) \in Seq(S) /\ Len(Tail(s)) = n - 1 /\ \A k \in 1 .. n - 1 : Tail(s)[k] = s[k + 1]
  BY <1>1, HeadTailProperties
<1>6. RemoveAt(s, n) = Front(s)
  <2>1. \A k \in 1 .. n - 1 : RemoveAt(s, n)[k] = Front(s)[k]
    BY <1>1, <1>2, <1>4
  <2> QED BY <1>2, <1>4, <2>1, SameSequence
<1>7. RemoveAt(s, 1) = Tail(s)
  <2>1. \A k \in 1 .. n - 1 : RemoveAt(s, 1)[k] = Tail(s)[k]
    BY <1>1, <1>3, <1>5
  <2> QED BY <1>3, <1>5, <2>1, SameSequence
<1> QED BY <1>1, <1>6, <1>7 DEF Last

\* The step gives list l other cells.
Refills(ch, ch2, l) ==
  /\ Named(ch[l], heap) /\ Named(ch2[l], heap') /\ SameIds(heap, heap')
  /\ l \in DOMAIN Content /\ Content[l].items = Items(ch[l], heap) /\ Content[l].type = lists[l].list_type
  /\ Content' = [Content EXCEPT ![l].items = Items(ch2[l], heap')]

\* What is seen of it.
LEMMA OneListSeen ==
  ASSUME NEW ch, NEW ch2, Consistent(ch), Consistent(ch2)', SameRest(heap, heap', lists, lists'),
         NEW l \in DOMAIN lists, \A m \in DOMAIN lists : m # l => ch2[m] = ch[m]
  PROVE  Refills(ch, ch2, l)
<1>1. Content = Contents(ch, heap, lists) /\ Rooted(ch, heap, lists)
  BY SeenNow DEF Seen
<1>2. Content' = Contents(ch2, heap', lists') /\ Rooted(ch2, heap', lists')
  BY SeenNext DEF Seen
<1>3. l \in List
  BY <1>1 DEF Rooted
<1>4. Named(ch[l], heap) /\ Named(ch2[l], heap')
  BY <1>1, <1>2, <1>3, RootedNamed
<1>5. Contents(ch2, heap', lists') = [Contents(ch, heap, lists) EXCEPT ![l].items = Items(ch2[l], heap')]
  BY <1>1, <1>2, ContentsChange DEF SameRest
<1>6. /\ l \in DOMAIN Contents(ch, heap, lists) /\ Contents(ch, heap, lists)[l].items = Items(ch[l], heap)
      /\ Contents(ch, heap, lists)[l].type = lists[l].list_type
  BY DEF Contents
<1> QED BY <1>1, <1>2, <1>3, <1>4, <1>5, <1>6 DEF SameRest, Refills

\* The variables that die, seen before and after.
LEMMA DeadSeen ==
  ASSUME NEW ch, NEW ch2, Consistent(ch), Consistent(ch2)'
  PROVE  DyingVars = Dead(todo) /\ DyingVars' = Dead(todo')
BY SeenNow, SeenNext DEF Seen

\* ListAppend adds the variable at the end.
LEMMA AppendPromise ==
  ASSUME NEW ch, Consistent(ch), NEW l \in List, NEW x \in Var, NEW o \in {"value", "var"}, NEW c \in Cell, ListAppend(l, x, o, c)
  PROVE  Promise!AddLast(l, x)
<1>1. l \in DOMAIN lists /\ SameRest(heap, heap', lists, lists') /\ heap'[c].obj_id = x
  BY AppendKeeps
<1>2. PICK ch2 \in [List -> Seq(Cell)] : Consistent(ch2)' /\ ch2 = [ch EXCEPT ![l] = Append(ch[l], c)]
  BY AppendKeeps
<1>3. ch \in [List -> Seq(Cell)] /\ DOMAIN lists \subseteq List
  BY Zenon DEF Consistent, Holds, Typed
<1>4. ch2[l] = Append(ch[l], c) /\ \A m \in DOMAIN lists : m # l => ch2[m] = ch[m]
  BY <1>2, <1>3
<1>5. /\ Named(ch[l], heap) /\ Named(ch2[l], heap') /\ SameIds(heap, heap')
      /\ l \in DOMAIN Content /\ Content[l].items = Items(ch[l], heap)
      /\ Content' = [Content EXCEPT ![l].items = Items(ch2[l], heap')]
  <2>1. Consistent(ch2)' /\ (\A m \in DOMAIN lists : m # l => ch2[m] = ch[m])
    BY <1>2, <1>4
  <2>2. l \in DOMAIN lists /\ SameRest(heap, heap', lists, lists')
    BY <1>1
  <2>3. Refills(ch, ch2, l)
    BY <2>1, <2>2, OneListSeen
  <2> QED BY <2>3 DEF Refills
<1>6. Items(ch2[l], heap') = Append(Items(ch[l], heap), x)
  <2>1. PICK h2, t : h2 = heap' /\ t = ch2[l]
    OBVIOUS
  <2>2. Named(ch[l], heap) /\ t = Append(ch[l], c) /\ Named(t, h2) /\ SameIds(heap, h2)
    BY <1>4, <1>5, <2>1
  <2>3. Items(t, h2) = Append(Items(ch[l], heap), h2[c].obj_id)
    BY <2>2, ItemsAppended
  <2> QED BY <1>1, <2>1, <2>3
<1>7. UNCHANGED DyingVars
  BY DeadSeen, <1>2 DEF ListAppend
<1>8. Content' = [Content EXCEPT ![l].items = Append(Content[l].items, x)]
  BY <1>5, <1>6
<1> QED BY <1>5, <1>7, <1>8 DEF Promise!AddLast, Promise!Has, Promise!Become

\* ListPush adds it at the front.
LEMMA PushPromise ==
  ASSUME NEW ch, Consistent(ch), NEW l \in List, NEW x \in Var, NEW o \in {"value", "var"}, NEW c \in Cell, ListPush(l, x, o, c)
  PROVE  Promise!Push(l, x)
<1>1. l \in DOMAIN lists /\ SameRest(heap, heap', lists, lists') /\ heap'[c].obj_id = x
  BY PushKeeps
<1>2. PICK ch2 \in [List -> Seq(Cell)] : Consistent(ch2)' /\ ch2 = [ch EXCEPT ![l] = Cons(c, ch[l])]
  BY PushKeeps
<1>3. ch \in [List -> Seq(Cell)] /\ DOMAIN lists \subseteq List
  BY Zenon DEF Consistent, Holds, Typed
<1>4. ch2[l] = Cons(c, ch[l]) /\ \A m \in DOMAIN lists : m # l => ch2[m] = ch[m]
  BY <1>2, <1>3
<1>5. /\ Named(ch[l], heap) /\ Named(ch2[l], heap') /\ SameIds(heap, heap')
      /\ l \in DOMAIN Content /\ Content[l].items = Items(ch[l], heap)
      /\ Content' = [Content EXCEPT ![l].items = Items(ch2[l], heap')]
  <2>1. Consistent(ch2)' /\ (\A m \in DOMAIN lists : m # l => ch2[m] = ch[m])
    BY <1>2, <1>4
  <2>2. l \in DOMAIN lists /\ SameRest(heap, heap', lists, lists')
    BY <1>1
  <2>3. Refills(ch, ch2, l)
    BY <2>1, <2>2, OneListSeen
  <2> QED BY <2>3 DEF Refills
<1>6. Items(ch2[l], heap') = Cons(x, Items(ch[l], heap))
  <2>1. PICK h2, t : h2 = heap' /\ t = ch2[l]
    OBVIOUS
  <2>2. Named(ch[l], heap) /\ t = Cons(c, ch[l]) /\ Named(t, h2) /\ SameIds(heap, h2)
    BY <1>4, <1>5, <2>1
  <2>3. Items(t, h2) = Cons(h2[c].obj_id, Items(ch[l], heap))
    BY <2>2, ItemsPushed
  <2> QED BY <1>1, <2>1, <2>3
<1>7. UNCHANGED DyingVars
  BY DeadSeen, <1>2 DEF ListPush
<1>8. Content' = [Content EXCEPT ![l].items = Cons(x, Content[l].items)]
  BY <1>5, <1>6
<1> QED BY <1>5, <1>7, <1>8 DEF Cons, Promise!Push, Promise!Has, Promise!Become

\* The specification of the lists has the same operators on sequences.
LEMMA SameOperators ==
  /\ \A s : Promise!Front(s) = Front(s) /\ Promise!Last(s) = Last(s) /\ Promise!ToSet(s) = ToSet(s)
  /\ \A s, k : Promise!RemoveAt(s, k) = RemoveAt(s, k)
BY DEF Promise!Front, Front, Promise!Last, Last, Promise!ToSet, ToSet, Promise!RemoveAt, RemoveAt

\* ListPop takes a variable from the end the type says, and may be its end.
LEMMA PopPromise ==
  ASSUME NEW ch, Consistent(ch), NEW l \in List, ListPop(l)
  PROVE  Promise!Pop(l)
<1>1. PICK p : p = IF PopsLast(lists[l]) THEN Len(ch[l]) ELSE 1
  OBVIOUS
<1>2. PICK ch2 : /\ Consistent(ch2)' /\ SameRest(heap, heap', lists, lists')
                 /\ p \in 1 .. Len(ch[l]) /\ ch2 = [ch EXCEPT ![l] = RemoveAt(ch[l], p)]
  BY <1>1, PopKeeps
<1>3. /\ ch \in [List -> Seq(Cell)] /\ l \in DOMAIN lists /\ DOMAIN lists \subseteq List
      /\ IsChain(heap, ch[l], lists[l]) /\ todo = <<>>
  BY DEF ListPop, Quiet, ValueList, Has, Consistent, Holds, Typed, Chained
<1>4. ch2[l] = RemoveAt(ch[l], p) /\ \A m \in DOMAIN lists : m # l => ch2[m] = ch[m]
  BY <1>2, <1>3
<1>5. Refills(ch, ch2, l)
  BY <1>2, <1>3, <1>4, OneListSeen
<1>6. PICK items : items = Items(ch[l], heap)
  OBVIOUS
<1>7. Items(ch2[l], heap') = RemoveAt(items, p)
  <2>1. PICK h2, t : h2 = heap' /\ t = ch2[l]
    OBVIOUS
  <2>2. Named(ch[l], heap) /\ t = RemoveAt(ch[l], p) /\ Named(t, h2) /\ SameIds(heap, h2)
    BY <1>4, <1>5, <2>1 DEF Refills
  <2>3. Items(t, h2) = RemoveAt(Items(ch[l], heap), p)
    BY <1>2, <2>2, ItemsRemoved
  <2> QED BY <1>6, <2>1, <2>3
<1>8. /\ items \in Seq(Var) /\ Len(items) = Len(ch[l])
      /\ \A k \in 1 .. Len(ch[l]) : items[k] = heap[ch[l][k]].obj_id
  BY <1>5, <1>6, ItemsAre DEF Refills, Named
<1>9. PICK x : x = items[p] /\ x \in Var
  BY <1>2, <1>8
<1>10. items # <<>> /\ RemoveAt(items, Len(items)) = Front(items) /\ RemoveAt(items, 1) = Tail(items)
       /\ Last(items) = items[Len(items)] /\ Head(items) = items[1]
  <2>1. items # <<>>
    BY <1>2, <1>8
  <2> QED BY <1>8, <2>1, EndsRemoved
<1>11. PICK fifo \in BOOLEAN : fifo = (lists[l].list_type = "NCL_FIFO")
  OBVIOUS
<1>12. p = (IF fifo THEN Len(items) ELSE 1) /\ PopsLast(lists[l]) = fifo
  BY <1>1, <1>8, <1>11 DEF PopsLast, FIFO
<1>13. DyingVars' \in {DyingVars, DyingVars \cup {x}}
  <2>1. PICK c : c = IF fifo THEN lists[l].last ELSE lists[l].first
    OBVIOUS
  <2>2. c = ch[l][p]
    BY <1>2, <1>3, <1>8, <1>12, <2>1 DEF IsChain, At
  <2>3. heap[c].obj_id = x
    BY <1>2, <1>8, <1>9, <2>2
  <2>4. todo' = <<>> \/ todo' = <<Dying(x)>>
    <3>1. LetGo(l, heap[c].obj_id, c, heap[c].orig_type)
      BY <1>12, <2>1 DEF ListPop
    <3> QED BY <2>3, <3>1 DEF LetGo
  <2>5. DyingVars = Dead(todo) /\ DyingVars' = Dead(todo')
    BY <1>2, DeadSeen
  <2>6. Dead(<<>>) = {} /\ Dead(<<Dying(x)>>) = {x}
    BY <1>9, DyingFrame, NoFrames
  <2> QED BY <1>3, <2>4, <2>5, <2>6
<1>14. /\ l \in DOMAIN Content /\ Content[l].items = items /\ Content[l].type = lists[l].list_type
       /\ Content' = [Content EXCEPT ![l].items = RemoveAt(items, p)]
  BY <1>5, <1>6, <1>7 DEF Refills
<1>15. PICK rest : rest = IF fifo THEN Front(items) ELSE Tail(items)
  OBVIOUS
<1>16. Content' = [Content EXCEPT ![l].items = rest] /\ x = IF fifo THEN Last(items) ELSE Head(items)
  BY <1>9, <1>10, <1>12, <1>14, <1>15
<1>17. (Content[l].type = "NCL_FIFO") = fifo
  BY <1>11, <1>14
<1>18. Content[l].items = items /\ Promise!Front(items) = Front(items) /\ Promise!Last(items) = Last(items)
  BY <1>14, SameOperators
<1>19. CASE fifo
  <2>1. Content[l].type = "NCL_FIFO" /\ rest = Promise!Front(items) /\ x = Promise!Last(items)
    BY <1>15, <1>16, <1>17, <1>18, <1>19
  <2> QED BY <1>10, <1>13, <1>14, <1>16, <2>1 DEF Promise!Pop, Promise!Has, Promise!Become
<1>20. CASE ~fifo
  <2>1. Content[l].type # "NCL_FIFO" /\ rest = Tail(items) /\ x = Head(items)
    BY <1>15, <1>16, <1>17, <1>20
  <2> QED BY <1>10, <1>13, <1>14, <1>16, <2>1 DEF Promise!Pop, Promise!Has, Promise!Become
<1> QED BY <1>11, <1>19, <1>20

\* Telling a list of the end of a variable changes nothing about which variables die.
LEMMA NotifyDead ==
  ASSUME NEW ch, Consistent(ch), NEW ch2, Consistent(ch2)', ItemDestroyNotify
  PROVE  todo[1].var \in DyingVars /\ UNCHANGED DyingVars
<1>1. todo # <<>> /\ todo[1].op = "notify" /\ Nesting(todo)
  BY Zenon DEF ItemDestroyNotify, Consistent, Holds
<1>2. PICK l, x, s : l = todo[1].list /\ x = todo[1].var /\ s = todo[1].step
  OBVIOUS
<1>3. Notified(todo, l, x, s)
  BY <1>1, <1>2 DEF Notified
<1>4. Dead(todo) = {x} /\ Dead(Tail(todo)) = {x}
  BY <1>1, <1>3, NotifyFrames
<1>5. UNCHANGED todo \/ todo' = Tail(todo) \/ \E r : todo' = [todo EXCEPT ![1].step = r]
  BY Zenon DEF ItemDestroyNotify, NotifyHead, NotifyStep, NotifyEnd, NotifyNoList
<1>6. Dead(todo') = {x}
  <2>1. ASSUME NEW r, todo' = [todo EXCEPT ![1].step = r] PROVE Dead(todo') = Dead(todo)
    <3>1. PICK td : td = [todo EXCEPT ![1].step = r]
      OBVIOUS
    <3>2. DOMAIN td = DOMAIN todo /\ \A i \in DOMAIN todo : i # 1 => td[i] = todo[i]
      BY <3>1
    <3>3. 1 \in DOMAIN todo => td[1] = [todo[1] EXCEPT !.step = r]
      BY <3>1
    <3>4. \A y : todo[1] # Dying(y)
      BY <1>1 DEF Dying
    <3>5. \A y : 1 \in DOMAIN todo => td[1] # Dying(y)
      <4> SUFFICES ASSUME NEW y, 1 \in DOMAIN todo, td[1] = Dying(y) PROVE FALSE
        OBVIOUS
      <4>1. "op" \in DOMAIN todo[1] /\ td[1].op = todo[1].op /\ td[1].op = "destroy"
        BY <3>3 DEF Dying
      <4> QED BY <1>1, <4>1
    <3> QED BY <2>1, <3>1, <3>2, <3>4, <3>5 DEF Dead
  <2> QED BY <1>4, <1>5, <2>1
<1>7. DyingVars = Dead(todo) /\ DyingVars' = Dead(todo')
  BY DeadSeen
<1> QED BY <1>2, <1>4, <1>6, <1>7

\* ListItemDestroyNotify takes an occurrence of a dying variable from the list, or nothing.
LEMMA NotifyPromise ==
  ASSUME NEW ch, Consistent(ch), ItemDestroyNotify
  PROVE  \/ UNCHANGED <<Content, DyingVars>>
         \/ todo[1].list \in List /\ Promise!Forget(todo[1].list)
<1>1. PICK l, x : l = todo[1].list /\ x = todo[1].var
  OBVIOUS
<1>2. PICK ch2 : /\ Consistent(ch2)'
                 /\ \/ UNCHANGED <<heap, lists>> /\ ch2 = ch
                    \/ l \in DOMAIN lists /\ Forgets(ch, ch2, l, x)
  BY <1>1, NotifyKeeps
<1>3. x \in DyingVars /\ UNCHANGED DyingVars
  BY <1>1, <1>2, NotifyDead
<1>4. CASE UNCHANGED <<heap, lists>> /\ ch2 = ch
  <2>1. Dead(todo') = Dead(todo)
    BY <1>2, <1>3, DeadSeen
  <2>2. SameRest(heap, heap', lists, lists') /\ \A m \in DOMAIN lists : ch2[m] = ch[m]
    BY <1>4 DEF SameRest, SameIds, SameTypes
  <2> QED BY <1>2, <2>1, <2>2, StepUnseen
<1>5. CASE l \in DOMAIN lists /\ Forgets(ch, ch2, l, x)
  <2>1. PICK p \in 1 .. Len(ch[l]) : heap[ch[l][p]].obj_id = x /\ ch2 = [ch EXCEPT ![l] = RemoveAt(ch[l], p)]
    BY <1>5 DEF Forgets
  <2>2. SameRest(heap, heap', lists, lists')
    BY <1>5 DEF Forgets
  <2>3. ch \in [List -> Seq(Cell)] /\ DOMAIN lists \subseteq List
    BY Zenon DEF Consistent, Holds, Typed
  <2>4. ch2[l] = RemoveAt(ch[l], p) /\ \A m \in DOMAIN lists : m # l => ch2[m] = ch[m]
    BY <1>5, <2>1, <2>3
  <2>5. Refills(ch, ch2, l)
    BY <1>2, <1>5, <2>2, <2>4, OneListSeen
  <2>6. PICK items : items = Items(ch[l], heap)
    OBVIOUS
  <2>7. Items(ch2[l], heap') = RemoveAt(items, p)
    <3>1. PICK h2, t : h2 = heap' /\ t = ch2[l]
      OBVIOUS
    <3>2. Named(ch[l], heap) /\ t = RemoveAt(ch[l], p) /\ Named(t, h2) /\ SameIds(heap, h2)
      BY <2>4, <2>5, <3>1 DEF Refills
    <3>3. Items(t, h2) = RemoveAt(Items(ch[l], heap), p)
      BY <3>2, ItemsRemoved
    <3> QED BY <2>6, <3>1, <3>3
  <2>8. items \in Seq(Var) /\ Len(items) = Len(ch[l]) /\ items[p] = x
    BY <2>1, <2>5, <2>6, ItemsAre DEF Refills, Named
  <2>9. p \in DOMAIN items
    BY <2>8
  <2>10. /\ l \in DOMAIN Content /\ Content[l].items = items
         /\ Content' = [Content EXCEPT ![l].items = Promise!RemoveAt(items, p)]
    BY <2>5, <2>6, <2>7, SameOperators DEF Refills
  <2>11. Promise!Forget(l)
    BY <1>3, <2>8, <2>9, <2>10 DEF Promise!Forget, Promise!Has, Promise!Become
  <2> QED BY <1>1, <1>5, <2>3, <2>11
<1> QED BY <1>2, <1>4, <1>5

\* What the lists have is the same when their cells are.
LEMMA ContentSame ==
  ASSUME NEW ch, Consistent(ch), Consistent(ch)', UNCHANGED <<heap, lists>>
  PROVE  UNCHANGED Content
<1>1. Content = Contents(ch, heap, lists) /\ Content' = Contents(ch, heap', lists')
  BY SeenNow, SeenNext DEF Seen
<1> QED BY <1>1

\* A variable that is deleted begins to die.
LEMMA DestroyPromise ==
  ASSUME NEW ch, Consistent(ch), NEW x \in Var, DestroyVar(x)
  PROVE  Promise!Destroy(x)
<1>1. Consistent(ch)' /\ UNCHANGED <<heap, lists>>
  BY DestroyVarKeeps
<1>2. DyingVars = Dead(todo) /\ DyingVars' = Dead(todo')
  BY <1>1, DeadSeen
<1>3. Dead(todo) = {} /\ Dead(todo') = {x}
  BY NoFrames, DyingFrame DEF DestroyVar, Quiet
<1> QED BY <1>1, <1>2, <1>3, ContentSame DEF Promise!Destroy

\* A variable that has told all its lists is on none.
LEMMA NoHolder ==
  ASSUME NEW ch, Consistent(ch), NEW x, Dead(todo) = {x}, Told(todo) = {}, vars[x].cblist = <<>>
  PROVE  Promise!Holders(x) = {}
<1> SUFFICES ASSUME NEW l \in DOMAIN Content, x \in ToSet(Content[l].items) PROVE FALSE
  BY SameOperators DEF Promise!Holders
<1>1. Content = Contents(ch, heap, lists) /\ Rooted(ch, heap, lists)
  BY SeenNow DEF Seen
<1>2. l \in List /\ Named(ch[l], heap) /\ Content[l].items = Items(ch[l], heap)
  <2>1. l \in DOMAIN lists /\ l \in List /\ Content[l].items = Items(ch[l], heap)
    BY <1>1 DEF Contents, Rooted
  <2> QED BY <1>1, <2>1, RootedNamed
<1>3. PICK items \in Seq(Var) : /\ items = Content[l].items /\ Len(items) = Len(ch[l])
                                /\ \A k \in 1 .. Len(ch[l]) : items[k] = heap[ch[l][k]].obj_id
  BY <1>2, ItemsAre DEF Named
<1>4. PICK k \in 1 .. Len(ch[l]) : heap[ch[l][k]].obj_id = x
  <2>1. PICK k \in 1 .. Len(items) : items[k] = x
    BY <1>3, SetOfSeq
  <2> QED BY <1>3, <2>1
<1>5. PICK c : c = ch[l][k]
  OBVIOUS
<1>6. c \in Own(ch)[l] /\ heap[c].obj_id = x
  <2>1. c \in ToSet(ch[l])
    BY <1>2, <1>5, SetOfSeq DEF Named
  <2> QED BY <1>2, <1>4, <1>5, <2>1 DEF Own
<1>7. Watching(heap, vars, Own(ch), Dead(todo), Told(todo))
  BY Zenon DEF Consistent, Holds
<1>8. [list |-> l, cell |-> c] \in ToSet(vars[x].cblist)
  BY <1>2, <1>6, <1>7 DEF Watching
<1> QED BY <1>8 DEF ToSet

\* A callback is called, or the variable is gone, which no list has.
LEMMA CallBackPromise ==
  ASSUME NEW ch, Consistent(ch), CallBack
  PROVE  UNCHANGED <<Content, DyingVars>> \/ \E x \in Var : Promise!Bury(x)
<1>1. PICK x : x = todo[1].var
  OBVIOUS
<1>2. /\ todo # <<>> /\ todo[1].op = "destroy"
      /\ \/ vars[x].cblist # <<>> /\ todo' = <<Notify(vars[x].cblist[1].list, x)>> \o todo
         \/ vars[x].cblist = <<>> /\ todo' = Tail(todo)
  BY <1>1 DEF CallBack
<1>3. Consistent(ch)' /\ UNCHANGED Content
  BY CallBackKeeps, ContentSame
<1>4. DyingVars = Dead(todo) /\ DyingVars' = Dead(todo')
  BY <1>3, DeadSeen
<1>5. /\ Nesting(todo) /\ Dead(todo) \subseteq DOMAIN vars
      /\ DOMAIN vars \subseteq Var /\ \A y \in DOMAIN vars : vars[y] \in VarType
  BY Zenon DEF Consistent, Holds, Typed
<1>6. Destroying(todo, x)
  BY <1>1, <1>2 DEF Destroying
<1>7. /\ x \in Var /\ Dead(todo) = {x} /\ Told(todo) = {} /\ Dead(Tail(todo)) = {}
      /\ \A l \in List : Dead(<<Notify(l, x)>> \o todo) = {x}
  BY <1>5, <1>6, DestroyFrames
<1>8. CASE vars[x].cblist # <<>> /\ todo' = <<Notify(vars[x].cblist[1].list, x)>> \o todo
  <2>1. vars[x].cblist \in Seq([list : List, cell : Cell])
    BY <1>5, <1>7 DEF VarType
  <2>2. vars[x].cblist[1].list \in List
    <3>1. vars[x].cblist[1] \in [list : List, cell : Cell]
      BY <1>8, <2>1, FirstOfSeq
    <3> QED BY <3>1
  <2> QED BY <1>3, <1>4, <1>7, <1>8, <2>2
<1>9. CASE vars[x].cblist = <<>> /\ todo' = Tail(todo)
  <2>1. Promise!Holders(x) = {}
    BY <1>7, <1>9, NoHolder
  <2>2. DyingVars = {x} /\ DyingVars' = DyingVars \ {x}
    BY <1>4, <1>7, <1>9
  <2> QED BY <1>3, <1>7, <2>1, <2>2 DEF Promise!Bury
<1> QED BY <1>2, <1>8, <1>9

\* One variable dies at a time.
LEMMA OneDies ==
  ASSUME NEW td, Nesting(td)
  PROVE  Dead(td) = {} \/ \E x \in Var : Dead(td) = {x}
<1>1. CASE td = <<>>
  BY <1>1, NoFrames
<1>2. CASE td # <<>> /\ td[1].op = "destroy"
  <2>1. Destroying(td, td[1].var)
    BY <1>2 DEF Destroying
  <2> QED BY <2>1, DestroyFrames
<1>3. CASE td # <<>> /\ td[1].op = "notify"
  <2>1. PICK l, x, s : Notified(td, l, x, s)
    BY <1>3 DEF Notified
  <2> QED BY <2>1, NotifyFrames
<1>4. CASE td # <<>> /\ td[1].op = "unmake"
  BY <1>4, UnmakeFrames
<1>5. td = <<>> \/ (td # <<>> /\ td[1].op \in {"destroy", "notify", "unmake"})
  <2>1. \A x : Dying(x).op = "destroy"
    BY DEF Dying
  <2>2. \A l, x, s : Notifying(l, x, s).op = "notify"
    BY DEF Notifying
  <2>3. \A m, c : Unmaking(m, c).op = "unmake"
    BY DEF Unmaking
  <2>4. \/ td = <<>>
        \/ /\ td # <<>>
           /\ \/ \E x : td[1] = Dying(x)
              \/ \E l, x, s : td[1] = Notifying(l, x, s)
              \/ \E m, c : td[1] = Unmaking(m, c)
    BY DEF Nesting
  <2> QED BY <2>1, <2>2, <2>3, <2>4
<1> QED BY <1>1, <1>2, <1>3, <1>4, <1>5

\* ListDestroy goes on: a variable may begin to die.
LEMMA UnmakePromise ==
  ASSUME NEW ch, Consistent(ch), ListDestroy
  PROVE  UNCHANGED <<Content, DyingVars>> \/ \E x \in Var : Promise!Destroy(x)
<1>1. PICK ch2 : Consistent(ch2)' /\ UNCHANGED lists /\ \A l \in DOMAIN lists : ch2[l] = ch[l]
  BY ListDestroyKeeps
<1>2. Content = Contents(ch, heap, lists) /\ DyingVars = Dead(todo) /\ Rooted(ch, heap, lists)
  BY SeenNow DEF Seen
<1>3. Content' = Contents(ch2, heap', lists') /\ DyingVars' = Dead(todo') /\ Rooted(ch2, heap', lists')
  BY <1>1, SeenNext DEF Seen
<1>4. SameRest(heap, heap', lists, lists')
  <2>1. \A d \in DOMAIN heap' : d \in DOMAIN heap /\ heap'[d] = heap[d]
    BY DEF ListDestroy, Without
  <2> QED BY <1>1, <2>1 DEF SameRest, SameIds, SameTypes
<1>5. UNCHANGED Content
  BY <1>1, <1>2, <1>3, <1>4, ContentsStay DEF SameRest
<1>6. Dead(todo) = {}
  BY UnmakeFrames DEF ListDestroy, Consistent, Holds
<1>7. Dead(todo') = {} \/ \E x \in Var : Dead(todo') = {x}
  <2>1. Nesting(todo')
    BY <1>1, Zenon DEF Consistent, Holds
  <2> QED BY <2>1, OneDies
<1> QED BY <1>2, <1>3, <1>5, <1>6, <1>7 DEF Promise!Destroy

\* A new list is empty.
LEMMA CreatePromise ==
  ASSUME NEW ch, Consistent(ch), NEW l \in List, NEW t \in Types, ListCreate(l, t)
  PROVE  Promise!Create(l, t)
<1>1. /\ todo = <<>> /\ l \notin DOMAIN lists /\ lists' = With(lists, l, NewList(t, 1)) /\ UNCHANGED <<heap, todo>>
  BY DEF ListCreate, Quiet, FreshList, Has
<1>2. Consistent(ch)'
  BY CreateKeeps
<1>3. Content = Contents(ch, heap, lists)
  BY SeenNow DEF Seen
<1>4. Content' = Contents(ch, heap, lists')
  BY <1>1, <1>2, SeenNext DEF Seen
<1>5. UNCHANGED DyingVars
  BY <1>1, <1>2, DeadSeen
<1>6. Items(ch[l], heap) = <<>>
  <2>1. ch[l] = <<>>
    BY <1>1, NoFrames, Zenon DEF Consistent, Holds, Chained
  <2>2. PICK s \in Seq(Cell) : s = ch[l] /\ Len(s) = 0
    BY <2>1, EmptySeq, Zenon DEF Consistent, Holds
  <2>3. \A k \in 1 .. Len(s) : heap[s[k]].obj_id \in Var
    BY <2>2
  <2>4. Items(s, heap) \in Seq(Var) /\ Len(Items(s, heap)) = Len(s)
    BY <2>3, ItemsAre
  <2> QED BY <2>2, <2>4, EmptySeq
<1>7. DOMAIN Content = DOMAIN lists /\ DOMAIN lists' = DOMAIN lists \cup {l}
  BY <1>1, <1>3 DEF Contents, With
<1>8. Content' = [m \in DOMAIN lists \cup {l} |-> IF m = l THEN [type |-> t, items |-> <<>>] ELSE Content[m]]
  <2>1. lists'[l].list_type = t
    BY <1>1 DEF With, NewList
  <2>2. \A m \in DOMAIN lists : m # l /\ lists'[m] = lists[m]
    BY <1>1 DEF With
  <2> HIDE DEF Items
  <2> QED BY <1>3, <1>4, <1>6, <1>7, <2>1, <2>2 DEF Contents
<1> QED BY <1>1, <1>5, <1>7, <1>8 DEF Promise!Create, Promise!Enter, Promise!Has

\* A list changes its type and nothing else.
LEMMA SetTypePromise ==
  ASSUME NEW ch, Consistent(ch), NEW l \in List, NEW t \in Types, ListSetType(l, t)
  PROVE  Promise!SetType(l, t)
<1>1. /\ todo = <<>> /\ l \in DOMAIN lists /\ UNCHANGED <<heap, todo>>
      /\ lists' = [lists EXCEPT ![l].list_type = t]
  BY DEF ListSetType, Quiet, ValueList, Has
<1>2. Consistent(ch)'
  BY SetTypeKeeps
<1>3. Content = Contents(ch, heap, lists)
  BY SeenNow DEF Seen
<1>4. Content' = Contents(ch, heap, lists')
  BY <1>1, <1>2, SeenNext DEF Seen
<1>5. UNCHANGED DyingVars
  BY <1>1, <1>2, DeadSeen
<1>6. lists[l] \in Records
  BY <1>1, Zenon DEF Consistent, Holds, Typed
<1>7. Content' = [Content EXCEPT ![l].type = t]
  <2>1. lists'[l].list_type = t /\ DOMAIN lists' = DOMAIN lists /\ \A m \in DOMAIN lists : m # l => lists'[m] = lists[m]
    BY <1>1, <1>6 DEF Records
  <2>2. DOMAIN Content = DOMAIN lists /\ DOMAIN Content' = DOMAIN lists
    BY <1>3, <1>4, <2>1 DEF Contents
  <2>3. \A m \in DOMAIN lists : m # l => Content'[m] = Content[m]
    BY <1>3, <1>4, <2>1 DEF Contents
  <2>4. Content'[l] = [Content[l] EXCEPT !.type = t]
    BY <1>1, <1>3, <1>4, <2>1 DEF Contents
  <2>5. Content' = [m \in DOMAIN lists |-> Content'[m]]
    BY <1>4, <2>1 DEF Contents
  <2> QED BY <2>2, <2>3, <2>4, <2>5
<1>8. l \in DOMAIN Content
  BY <1>1, <1>3 DEF Contents
<1> QED BY <1>5, <1>7, <1>8 DEF Promise!SetType, Promise!Has

\* A list that is unregistered is no more, and nothing dies of that alone.
LEMMA DropPromise ==
  ASSUME NEW ch, Consistent(ch), Consistent(ch)', todo = <<>>, NEW l \in DOMAIN lists, Unmake(l)
  PROVE  l \in List /\ Promise!Drop(l)
<1>1. lists' = Without(lists, l) /\ heap' = heap /\ todo' = <<Unmaking(l, lists[l].first)>>
  BY ConsTuple DEF Unmake
<1>2. Content = Contents(ch, heap, lists) /\ Rooted(ch, heap, lists)
  BY SeenNow DEF Seen
<1>3. Content' = Contents(ch, heap, lists')
  BY <1>1, SeenNext DEF Seen
<1>4. UNCHANGED DyingVars
  <2>1. Nesting(todo')
    BY Zenon DEF Consistent, Holds
  <2>2. PICK td : td = todo'
    OBVIOUS
  <2>3. td # <<>> /\ td[1].op = "unmake"
    BY <1>1, <2>2 DEF Unmaking
  <2>4. Dead(todo') = {}
    BY <2>1, <2>2, <2>3, UnmakeFrames
  <2> QED BY <2>4, DeadSeen, NoFrames
<1>5. Content' = [m \in DOMAIN Content \ {l} |-> Content[m]]
  <2>1. DOMAIN Content = DOMAIN lists /\ DOMAIN lists' = DOMAIN lists \ {l}
    BY <1>1, <1>2 DEF Contents, Without
  <2>2. \A m \in DOMAIN lists' : lists'[m] = lists[m]
    BY <1>1 DEF Without
  <2> HIDE DEF Items
  <2> QED BY <1>2, <1>3, <2>1, <2>2 DEF Contents
<1>6. l \in DOMAIN Content /\ l \in List
  BY <1>2 DEF Contents, Rooted
<1> QED BY <1>4, <1>5, <1>6 DEF Promise!Drop, Promise!Has

\* Holding a list once more or less is nothing to its users, but for the last time.
LEMMA DelParentPromise ==
  ASSUME NEW ch, Consistent(ch), NEW l \in List, ListDelParent(l)
  PROVE  UNCHANGED <<Content, DyingVars>> \/ Promise!Drop(l)
<1>1. todo = <<>> /\ l \in DOMAIN lists /\ Consistent(ch)'
  BY DelParentKeeps DEF ListDelParent, Quiet, ValueList, Has
<1>2. CASE lists[l].ref_count = 1
  <2>1. Unmake(l)
    BY <1>2 DEF ListDelParent
  <2> QED BY <1>1, <2>1, DropPromise
<1>3. CASE lists[l].ref_count # 1
  <2>1. lists' = [lists EXCEPT ![l].ref_count = @ - 1] /\ UNCHANGED <<heap, todo>>
    BY <1>3 DEF ListDelParent
  <2>2. SameTypes(lists, lists')
    <3>1. lists[l] \in Records
      BY <1>1, Zenon DEF Consistent, Holds, Typed
    <3>2. PICK list : list = [lists[l] EXCEPT !.ref_count = @ - 1]
      OBVIOUS
    <3>3. list.list_type = lists[l].list_type
      BY <3>1, <3>2 DEF Records
    <3>4. PICK ls2 : ls2 = lists'
      OBVIOUS
    <3>5. ls2 = [lists EXCEPT ![l] = list]
      BY <2>1, <3>2, <3>4
    <3> QED BY <1>1, <3>3, <3>4, <3>5, TypeStays
  <2>3. SameRest(heap, heap', lists, lists')
    BY <2>1, <2>2 DEF SameRest, SameIds
  <2> QED BY <1>1, <2>1, <2>3, StepUnseen
<1> QED BY <1>2, <1>3

LEMMA AddParentPromise ==
  ASSUME NEW ch, Consistent(ch), NEW l \in List, ListAddParent(l)
  PROVE  UNCHANGED <<Content, DyingVars>>
<1>1. l \in DOMAIN lists /\ Consistent(ch)' /\ UNCHANGED <<heap, todo>>
  BY AddParentKeeps DEF ListAddParent, ValueList, Has
<1>2. SameTypes(lists, lists')
  <2>1. lists[l] \in Records
    BY <1>1, Zenon DEF Consistent, Holds, Typed
  <2>2. PICK list : list = [lists[l] EXCEPT !.ref_count = @ + 1]
    OBVIOUS
  <2>3. list.list_type = lists[l].list_type
    BY <2>1, <2>2 DEF Records
  <2>4. PICK ls2 : ls2 = lists'
    OBVIOUS
  <2>5. ls2 = [lists EXCEPT ![l] = list]
    BY <2>2, <2>4 DEF ListAddParent
  <2> QED BY <1>1, <2>3, <2>4, <2>5, TypeStays
<1>3. SameRest(heap, heap', lists, lists')
  BY <1>1, <1>2 DEF SameRest, SameIds
<1> QED BY <1>1, <1>3, StepUnseen

\* A new variable is on no list.
LEMMA DefinePromise ==
  ASSUME NEW ch, Consistent(ch), NEW x \in Var, Define(x)
  PROVE  UNCHANGED <<Content, DyingVars>>
<1>1. Consistent(ch)' /\ UNCHANGED <<heap, lists, todo>>
  BY DefineKeeps DEF Define
<1> QED BY <1>1, ContentSame, DeadSeen

\* Sequencing a list changes its place in it.
LEMMA SetNextPromise ==
  ASSUME NEW ch, Consistent(ch), SetNext
  PROVE  UNCHANGED <<Content, DyingVars>>
<1>1. Consistent(ch)' /\ UNCHANGED <<heap, todo>>
  BY SetNextKeeps, Zenon DEF SetNext
<1>2. SameTypes(lists, lists')
  <2>1. PICK m : m = loops[1].list
    OBVIOUS
  <2>2. PICK c : c = IF lists[m].state = IDLE THEN Start(lists[m]) ELSE lists[m].current_item
    OBVIOUS
  <2>3. PICK before : before = heap[c].prev
    OBVIOUS
  <2>4. \/ UNCHANGED lists
        \/ lists' = [lists EXCEPT ![m].state = IDLE, ![m].current_item = NULL]
        \/ lists' = [lists EXCEPT ![m].state = SEQUENCING, ![m].current_item = before]
    BY <2>1, <2>2, <2>3, Zenon DEF SetNext
  <2>5. ASSUME NEW s, NEW d, lists' = [lists EXCEPT ![m].state = s, ![m].current_item = d]
        PROVE  SameTypes(lists, lists')
    BY <2>5 DEF SameTypes
  <2>6. UNCHANGED lists => SameTypes(lists, lists')
    BY DEF SameTypes
  <2> QED BY <2>4, <2>5, <2>6
<1>3. SameRest(heap, heap', lists, lists')
  BY <1>1, <1>2 DEF SameRest, SameIds
<1> QED BY <1>1, <1>3, StepUnseen

\* The end of a list expression is that of its list.
LEMMA TermPromise ==
  ASSUME NEW ch, Consistent(ch), Term
  PROVE  \E l \in List : Promise!Drop(l)
<1>1. PICK l : l = loops[1].list
  OBVIOUS
<1>2. todo = <<>> /\ loops # <<>> /\ Unmake(l)
  BY <1>1 DEF Term, Quiet
<1>3. l \in DOMAIN lists
  <2>1. loops \in Seq([list : List, results : Nat, done : BOOLEAN]) /\ Looped(ch, lists, loops, unseen)
    BY Zenon DEF Consistent, Holds, Typed
  <2>2. 1 \in DOMAIN loops
    BY <1>2, <2>1, FirstOfSeq
  <2> QED BY <1>1, <2>1, <2>2 DEF Looped
<1> QED BY <1>2, <1>3, TermKeeps, DropPromise

\* A selection that is made makes a list of elements of l, and one that is not makes nothing.
LEMMA SelectPromise ==
  ASSUME NEW ch, Consistent(ch), NEW ch2, Consistent(ch2)', todo = <<>>, NEW l \in DOMAIN lists, NEW m \in List,
         m \notin DOMAIN lists, NEW ref_count, NEW complete, NEW cs, Outcome(m, lists[l].list_type, ref_count, complete, cs),
         Chosen(ch, ch2, ch[l], m, cs)
  PROVE  (complete => Promise!Select(l, m)) /\ (~complete => UNCHANGED <<Content, DyingVars>>)
<1>1. Content = Contents(ch, heap, lists) /\ DyingVars = Dead(todo) /\ Rooted(ch, heap, lists)
  BY SeenNow DEF Seen
<1>2. Content' = Contents(ch2, heap', lists') /\ DyingVars' = Dead(todo') /\ Rooted(ch2, heap', lists')
  BY SeenNext DEF Seen
<1>3. SameIds(heap, heap')
  BY DEF Chosen, SameIds
<1>4. l \in List /\ ch2[m] = cs /\ (\A d \in List : d # m => ch2[d] = ch[d]) /\ DOMAIN lists \subseteq List
  BY <1>1 DEF Rooted, Chosen
<1>5. ASSUME complete PROVE Promise!Select(l, m)
  <2>1. lists'[m].list_type = lists[l].list_type /\ DOMAIN lists' = DOMAIN lists \cup {m} /\ todo' = <<>>
    BY <1>5 DEF Outcome, With, NewList
  <2>2. \A d \in DOMAIN lists : d # m /\ lists'[d] = lists[d]
    BY <1>5 DEF Outcome, With
  <2>3. UNCHANGED DyingVars
    BY <1>1, <1>2, <2>1
  <2>4. PICK items, from : items = Items(cs, heap') /\ from = Items(ch[l], heap)
    OBVIOUS
  <2>5. /\ cs \in Seq(Cell) /\ items \in Seq(Var) /\ Len(items) = Len(cs)
        /\ \A k \in 1 .. Len(cs) : items[k] = heap'[cs[k]].obj_id
    <3>1. PICK h2 : h2 = heap'
      OBVIOUS
    <3>2. Named(cs, h2)
      BY <1>2, <1>4, <3>1, RootedNamed
    <3> QED BY <2>4, <3>1, <3>2, ItemsAre DEF Named
  <2>6. /\ from \in Seq(Var) /\ Len(from) = Len(ch[l])
        /\ \A k \in 1 .. Len(ch[l]) : from[k] = heap[ch[l][k]].obj_id
    BY <1>1, <1>4, <2>4, RootedNamed, ItemsAre DEF Named
  <2>7. ToSet(items) \subseteq ToSet(from)
    <3> SUFFICES ASSUME NEW x \in ToSet(items) PROVE x \in ToSet(from)
      OBVIOUS
    <3>1. PICK k \in 1 .. Len(items) : items[k] = x
      BY <2>5, SetOfSeq
    <3>2. PICK p \in 1 .. Len(ch[l]) : heap'[cs[k]].obj_id = heap[ch[l][p]].obj_id
      BY <2>5, <3>1 DEF Chosen
    <3>3. p \in 1 .. Len(from) /\ from[p] = x
      BY <2>5, <2>6, <3>1, <3>2
    <3> QED BY <2>6, <3>3, SetOfSeq
  <2>8. DOMAIN Content = DOMAIN lists /\ DOMAIN Content' = DOMAIN lists \cup {m}
    BY <1>1, <1>2, <2>1 DEF Contents
  <2>9. \A d \in DOMAIN lists : Content'[d] = Content[d]
    <3> SUFFICES ASSUME NEW d \in DOMAIN lists PROVE Content'[d] = Content[d]
      OBVIOUS
    <3>1. d \in List /\ d # m /\ ch2[d] = ch[d] /\ lists'[d] = lists[d]
      BY <1>4, <2>2
    <3>2. Items(ch2[d], heap') = Items(ch[d], heap)
      BY <1>1, <1>2, <1>3, <3>1, ItemsStay
    <3> HIDE DEF Items
    <3> QED BY <1>1, <1>2, <2>1, <3>1, <3>2 DEF Contents
  <2>10. Content'[m] = [type |-> lists[l].list_type, items |-> items]
    <3> HIDE DEF Items
    <3> QED BY <1>2, <1>4, <2>1, <2>4 DEF Contents
  <2>11. Content[l].type = lists[l].list_type /\ Content[l].items = from
    <3> HIDE DEF Items
    <3> QED BY <1>1, <2>4 DEF Contents
  <2>12. Content' = [d \in DOMAIN lists \cup {m} |->
                       IF d = m THEN [type |-> Content[l].type, items |-> items] ELSE Content[d]]
    <3>1. Content' = [d \in DOMAIN Content' |-> Content'[d]]
      BY <1>2 DEF Contents
    <3> QED BY <2>8, <2>9, <2>10, <2>11, <3>1
  <2>13. Content'[m].items = items
    BY <2>10
  <2>14. Promise!Enter(m, Content[l].type, items)
    BY <2>8, <2>12 DEF Promise!Enter
  <2> QED BY <2>3, <2>7, <2>8, <2>11, <2>13, <2>14, SameOperators DEF Promise!Select, Promise!Has
<1>6. ASSUME ~complete PROVE UNCHANGED <<Content, DyingVars>>
  <2>1. lists' = lists /\ todo' = <<Unmaking(m, At(cs, 1))>>
    BY <1>6 DEF Outcome
  <2>2. SameRest(heap, heap', lists, lists')
    BY <1>3, <2>1 DEF SameRest, SameTypes
  <2>3. \A d \in DOMAIN lists : ch2[d] = ch[d]
    BY <1>4
  <2>4. Dead(todo') = Dead(todo)
    <3>1. Nesting(todo')
      BY Zenon DEF Consistent, Holds
    <3>2. PICK td : td = todo'
      OBVIOUS
    <3>3. td # <<>> /\ td[1].op = "unmake"
      BY <2>1, <3>2 DEF Unmaking
    <3> QED BY <3>1, <3>2, <3>3, UnmakeFrames, NoFrames
  <2> QED BY <2>2, <2>3, <2>4, StepUnseen
<1> QED BY <1>5, <1>6

LEMMA CopyPromise ==
  ASSUME NEW ch, Consistent(ch), NEW l \in List, NEW m \in List, ListCopy(l, m)
  PROVE  Promise!Select(l, m)
<1>1. /\ l \in DOMAIN lists /\ m \notin DOMAIN lists /\ todo = <<>>
      /\ \E ch2 \in [List -> Seq(Cell)] :
           /\ Consistent(ch2)'
           /\ \E cs : Outcome(m, lists[l].list_type, 1, TRUE, cs) /\ Chosen(ch, ch2, ch[l], m, cs)
  BY CopyKeeps
<1>2. PICK ch2, cs : Consistent(ch2)' /\ Outcome(m, lists[l].list_type, 1, TRUE, cs) /\ Chosen(ch, ch2, ch[l], m, cs)
  BY <1>1
<1> QED BY <1>1, <1>2, SelectPromise

LEMMA ReadPromise ==
  ASSUME NEW ch, Consistent(ch), NEW l \in List, NEW m \in List, NEW sel \in Selections, ListRead(l, sel, m)
  PROVE  Promise!Select(l, m) \/ UNCHANGED <<Content, DyingVars>>
<1>1. /\ l \in DOMAIN lists /\ m \notin DOMAIN lists /\ todo = <<>>
      /\ \E ch2 \in [List -> Seq(Cell)] :
           /\ Consistent(ch2)'
           /\ \E valid, cs : Outcome(m, lists[l].list_type, 0, valid, cs) /\ Chosen(ch, ch2, ch[l], m, cs)
  BY ReadKeeps
<1>2. PICK ch2, valid, cs :
        Consistent(ch2)' /\ Outcome(m, lists[l].list_type, 0, valid, cs) /\ Chosen(ch, ch2, ch[l], m, cs)
  BY <1>1
<1>3. CASE valid
  BY <1>1, <1>2, <1>3, SelectPromise
<1>4. CASE ~valid
  BY <1>1, <1>2, <1>4, SelectPromise
<1> QED BY <1>3, <1>4

\* At first there are no lists and no variable dies.
LEMMA InitPromise ==
  ASSUME Init
  PROVE  Promise!Init
<1>1. DOMAIN lists = {} /\ todo = <<>>
  BY DEF Init
<1>2. Content = [l \in {} |-> <<>>]
  BY <1>1 DEF Content
<1>3. DyingVars = {}
  BY <1>1 DEF DyingVars
<1> QED BY <1>2, <1>3 DEF Promise!Init

\* Every step is one of the promise, or is not seen.
LEMMA StepPromise ==
  ASSUME NEW ch, Consistent(ch), [Next]_all
  PROVE  [Promise!Next]_(Promise!vars)
<1> DEFINE Still == UNCHANGED <<Content, DyingVars>>
<1>0. Still => [Promise!Next]_(Promise!vars)
  BY DEF Promise!vars
<1>1. CASE UNCHANGED all
  <2>1. Consistent(ch)' /\ UNCHANGED <<heap, lists, todo>>
    BY <1>1, Zenon DEF all, Consistent
  <2>2. Still
    BY <2>1, ContentSame, DeadSeen
  <2> QED BY <1>0, <2>2
<1>2. ASSUME NEW x \in Var, Define(x) \/ DestroyVar(x) PROVE Still \/ Promise!Next
  <2>1. CASE Define(x)
    BY <2>1, DefinePromise
  <2>2. CASE DestroyVar(x)
    BY <2>2, DestroyPromise DEF Promise!Next
  <2> QED BY <1>2, <2>1, <2>2
<1>3. ASSUME NEW l \in List, NEW t \in Types, ListCreate(l, t) \/ ListSetType(l, t) PROVE Promise!Next
  <2>1. t \in {"NCL_FIFO", "NCL_LIFO"}
    BY TypeAssumption
  <2>2. Promise!Create(l, t) \/ Promise!SetType(l, t)
    BY <1>3, CreatePromise, SetTypePromise
  <2> QED BY <2>1, <2>2 DEF Promise!Next
<1>4. ASSUME NEW l \in List, NEW x \in Var, NEW o \in {"value", "var"}, NEW c \in Cell,
             ListPush(l, x, o, c) \/ ListAppend(l, x, o, c)
      PROVE  Promise!Next
  <2>1. Promise!Push(l, x) \/ Promise!AddLast(l, x)
    BY <1>4, PushPromise, AppendPromise
  <2> QED BY <2>1 DEF Promise!Next
<1>5. ASSUME NEW l \in List, ListPop(l) \/ ListAddParent(l) \/ ListDelParent(l) PROVE Still \/ Promise!Next
  <2>1. Still \/ Promise!Pop(l) \/ Promise!Drop(l)
    BY <1>5, PopPromise, AddParentPromise, DelParentPromise
  <2> QED BY <2>1 DEF Promise!Next
<1>6. ASSUME NEW l \in List, NEW m \in List, NEW sel \in Selections, ListRead(l, sel, m) PROVE Still \/ Promise!Next
  <2>1. Still \/ Promise!Select(l, m)
    BY <1>6, ReadPromise
  <2> QED BY <2>1 DEF Promise!Next
<1>7. ASSUME NEW l \in List, NEW m \in List, ListCopy(l, m) PROVE Promise!Next
  <2>1. Promise!Select(l, m)
    BY <1>7, CopyPromise
  <2> QED BY <2>1 DEF Promise!Next
<1>8. CASE SetNext \/ Term
  <2>1. Still \/ \E l \in List : Promise!Drop(l)
    BY <1>8, SetNextPromise, TermPromise
  <2> QED BY <1>0, <2>1 DEF Promise!Next
<1>9. CASE CallBack
  <2>1. Still \/ \E x \in Var : Promise!Bury(x)
    BY <1>9, CallBackPromise
  <2> QED BY <1>0, <2>1 DEF Promise!Next
<1>10. CASE ItemDestroyNotify
  <2>1. Still \/ \E l \in List : Promise!Forget(l)
    BY <1>10, NotifyPromise
  <2> QED BY <1>0, <2>1 DEF Promise!Next
<1>11. CASE ListDestroy
  <2>1. Still \/ \E x \in Var : Promise!Destroy(x)
    BY <1>11, UnmakePromise
  <2> QED BY <1>0, <2>1 DEF Promise!Next
<1> HIDE DEF Still
<1> QED BY <1>0, <1>1, <1>2, <1>3, <1>4, <1>5, <1>6, <1>7, <1>8, <1>9, <1>10, <1>11, Zenon DEF Next, Environment

\* To its users a list is a sequence of variables, filled at either end and emptied at the end
\* its type says; a selection is made of elements of the list selected from, and a variable that
\* dies is gone only when no list has it, whatever the operations do in between.
THEOREM ListsKeepPromise == Spec => KeepsPromise
<1>1. Init => Promise!Init
  BY InitPromise
<1>2. IInv /\ [Next]_all => [Promise!Next]_(Promise!vars)
  BY StepPromise DEF IInv
<1> QED BY <1>1, <1>2, Invariant, PTL DEF Spec, KeepsPromise, Promise!Spec
=============================================================================
