-------------------------- MODULE ObjTable_proofs --------------------------
(***************************************************************************)
(* Proofs about ObjTable, for every table size, id range and set of        *)
(* objects.                                                                *)
(***************************************************************************)
EXTENDS ObjTable, TLAPS

(* Every id belongs to a slot of the table.                                *)
LEMMA SlotFacts == \A i \in Nat : SlotOf(i) \in Slots
BY TableSizeAssumption DEF SlotOf, Slots

(* A sequence without its position i keeps the order of the others.        *)
LEMMA CutFacts ==
  ASSUME NEW S, NEW s \in Seq(S), NEW i \in DOMAIN s
  PROVE  LET d == SubSeq(s, 1, i - 1) \o SubSeq(s, i + 1, Len(s))
         IN  /\ d \in Seq(S) /\ Len(d) = Len(s) - 1
             /\ \A j \in 1 .. Len(s) - 1 : d[j] = IF j < i THEN s[j] ELSE s[j + 1]
<1> DEFINE a == SubSeq(s, 1, i - 1)
           b == SubSeq(s, i + 1, Len(s))
<1>1. a \in Seq(S) /\ Len(a) = i - 1 /\ \A j \in 1 .. i - 1 : a[j] = s[j]
  OBVIOUS
<1>2. b \in Seq(S) /\ Len(b) = Len(s) - i
        /\ \A j \in 1 .. Len(s) - i : b[j] = s[i + j]
  OBVIOUS
<1>3. Len(s) \in Nat /\ i \in 1 .. Len(s)
  OBVIOUS
<1> HIDE DEF a, b
<1>4. a \o b \in Seq(S) /\ Len(a \o b) = Len(s) - 1
  BY <1>1, <1>2, <1>3
<1>5. \A j \in 1 .. Len(s) - 1 : (a \o b)[j] = IF j < i THEN s[j] ELSE s[j + 1]
  BY <1>1, <1>2, <1>3
<1>6. QED
  BY <1>4, <1>5 DEF a, b

-----------------------------------------------------------------------------
(* Slots: what inserting, removing and finding do to one.                  *)

(* A slot is empty or holds an inline entry and a chain.                   *)
LEMMA SlotShape ==
  ASSUME NEW slot \in SlotType
  PROVE  \/ slot = EmptySlot /\ slot.first.id = NoId /\ slot.next = <<>> /\ Content(slot) = {}
         \/ /\ slot.first \in Entries /\ slot.first.id \in Nat /\ slot.first.id # NoId
            /\ slot.next \in Seq(Entries)
            /\ slot = [first |-> slot.first, next |-> slot.next]
            /\ Content(slot) = {slot.first} \cup {slot.next[k] : k \in DOMAIN slot.next}
<1>1. CASE slot = EmptySlot
  BY <1>1 DEF EmptySlot, Entry, Content, NoId
<1>2. CASE slot \in [first : Entries, next : Seq(Entries)]
  <2>1. slot.first \in Entries /\ slot.first.id \in Nat /\ slot.next \in Seq(Entries)
    BY <1>2 DEF Entries
  <2>2. slot.first.id # NoId
    BY <2>1 DEF NoId
  <2>3. QED
    BY <1>2, <2>1, <2>2 DEF Content
<1>3. QED
  BY <1>1, <1>2 DEF SlotType

(* Inserting adds one entry and loses none.                                *)
LEMMA InsertFacts ==
  ASSUME NEW slot \in SlotType, NEW e \in Entries, Distinct(slot),
         \A f \in Content(slot) : f.id # e.id
  PROVE  /\ Insert(slot, e) \in SlotType
         /\ Distinct(Insert(slot, e))
         /\ Content(Insert(slot, e)) = Content(slot) \cup {e}
<1>0. e.id \in Nat /\ e.id # NoId
  BY DEF Entries, NoId
<1>1. CASE slot = EmptySlot
  <2>1. slot.first.id = NoId /\ slot.next = <<>> /\ Content(slot) = {}
    BY <1>1 DEF EmptySlot, Entry, Content
  <2>2. Insert(slot, e) = [first |-> e, next |-> <<>>]
    BY <1>1, <2>1 DEF Insert, EmptySlot
  <2>3. QED
    BY <1>0, <2>1, <2>2 DEF SlotType, Content, Distinct
<1>2. CASE slot # EmptySlot
  <2>1. /\ slot.first \in Entries /\ slot.first.id # NoId
        /\ slot.next \in Seq(Entries)
        /\ slot = [first |-> slot.first, next |-> slot.next]
        /\ Content(slot) = {slot.first} \cup {slot.next[k] : k \in DOMAIN slot.next}
    BY <1>2, SlotShape
  <2> DEFINE c == slot.next
             d == Append(c, e)
  <2>2. Insert(slot, e) = [first |-> slot.first, next |-> d]
    BY <2>1 DEF Insert
  <2>3. /\ d \in Seq(Entries)
        /\ DOMAIN c = 1 .. Len(c) /\ Len(c) \in Nat /\ DOMAIN d = 1 .. Len(c) + 1
        /\ d[Len(c) + 1] = e /\ \A k \in 1 .. Len(c) : d[k] = c[k]
    BY <2>1
  <2> HIDE DEF c, d
  <2>4. {d[k] : k \in DOMAIN d} = {c[k] : k \in DOMAIN c} \cup {e}
    BY <2>3
  <2>5. Content(Insert(slot, e)) = Content(slot) \cup {e}
    <3>1. Insert(slot, e).first = slot.first /\ Insert(slot, e).next = d
      BY <2>2
    <3>2. Content(Insert(slot, e)) = {slot.first} \cup {d[k] : k \in DOMAIN d}
      BY <2>1, <3>1 DEF Content
    <3>3. Content(slot) = {slot.first} \cup {c[k] : k \in DOMAIN c}
      BY <2>1 DEF c
    <3>4. QED
      BY <2>4, <3>2, <3>3
  <2>6. /\ \A k \in DOMAIN c : c[k].id # slot.first.id /\ c[k].id # e.id
        /\ \A j, k \in DOMAIN c : c[j].id = c[k].id => j = k
        /\ slot.first.id # e.id
    BY <2>1 DEF Distinct, c
  <2>7. \A k \in DOMAIN d : d[k].id # slot.first.id
    BY <2>3, <2>6
  <2>8. ASSUME NEW j \in DOMAIN d, NEW k \in DOMAIN d, d[j].id = d[k].id PROVE j = k
    <3>1. CASE j = Len(c) + 1
      BY <2>3, <2>6, <2>8, <3>1
    <3>2. CASE k = Len(c) + 1
      BY <2>3, <2>6, <2>8, <3>2
    <3>3. CASE j \in DOMAIN c /\ k \in DOMAIN c
      BY <2>3, <2>6, <2>8, <3>3
    <3>4. QED
      BY <2>3, <3>1, <3>2, <3>3
  <2>9. QED
    BY <2>1, <2>2, <2>3, <2>5, <2>7, <2>8 DEF SlotType, Distinct
<1>3. QED
  BY <1>1, <1>2

(* Drop takes the one entry with the id off a chain and no other.          *)
LEMMA DropFacts ==
  ASSUME NEW c \in Seq(Entries), NEW i \in Nat,
         \A j, k \in DOMAIN c : c[j].id = c[k].id => j = k
  PROVE  /\ Drop(c, i) \in Seq(Entries)
         /\ {Drop(c, i)[k] : k \in DOMAIN Drop(c, i)} = {e \in {c[k] : k \in DOMAIN c} : e.id # i}
         /\ \A j, k \in DOMAIN Drop(c, i) : Drop(c, i)[j].id = Drop(c, i)[k].id => j = k
<1>1. CASE ~\E k \in DOMAIN c : c[k].id = i
  BY <1>1 DEF Drop
<1>2. CASE \E k \in DOMAIN c : c[k].id = i
  <2>1. PICK p \in DOMAIN c : c[p].id = i
    BY <1>2
  <2>2. /\ DOMAIN c = 1 .. Len(c) /\ Len(c) \in Nat
    OBVIOUS
  <2>3. \A k \in DOMAIN c : (c[k].id = i /\ \A j \in 1 .. k - 1 : c[j].id # i) <=> k = p
    BY <2>1, <2>2
  <2>4. (CHOOSE k \in DOMAIN c : c[k].id = i /\ \A j \in 1 .. k - 1 : c[j].id # i) = p
    BY <2>1, <2>3
  <2> DEFINE d == SubSeq(c, 1, p - 1) \o SubSeq(c, p + 1, Len(c))
  <2>5. Drop(c, i) = d
    BY <1>2, <2>4 DEF Drop
  <2>6. /\ d \in Seq(Entries) /\ Len(d) = Len(c) - 1
        /\ \A k \in 1 .. Len(c) - 1 : d[k] = IF k < p THEN c[k] ELSE c[k + 1]
    BY CutFacts
  <2> HIDE DEF d
  <2>8. /\ d \in Seq(Entries) /\ DOMAIN d = 1 .. Len(c) - 1
        /\ \A k \in 1 .. Len(c) - 1 : d[k] = IF k < p THEN c[k] ELSE c[k + 1]
    BY <2>6
  <2> DEFINE f(k) == IF k < p THEN k ELSE k + 1
  <2>9. \A k \in DOMAIN d : f(k) \in DOMAIN c /\ f(k) # p /\ d[k] = c[f(k)]
    BY <2>1, <2>2, <2>8
  <2>10. \A j, k \in DOMAIN d : f(j) = f(k) => j = k
    BY <2>1, <2>2, <2>8
  <2>11. \A n \in DOMAIN c \ {p} : \E k \in DOMAIN d : f(k) = n
    <3> SUFFICES ASSUME NEW n \in DOMAIN c \ {p} PROVE \E k \in DOMAIN d : f(k) = n
      OBVIOUS
    <3>1. CASE n < p
      <4>1. n \in DOMAIN d /\ f(n) = n
        BY <2>1, <2>2, <2>8, <3>1
      <4>2. QED
        BY <4>1
    <3>2. CASE n > p
      <4>1. n - 1 \in DOMAIN d /\ f(n - 1) = n
        BY <2>1, <2>2, <2>8, <3>2
      <4>2. QED
        BY <4>1
    <3>3. QED
      BY <2>1, <2>2, <3>1, <3>2
  <2> HIDE DEF f
  <2>12. {d[k] : k \in DOMAIN d} = {e \in {c[k] : k \in DOMAIN c} : e.id # i}
    <3>1. ASSUME NEW k \in DOMAIN d PROVE d[k] \in {c[n] : n \in DOMAIN c} /\ d[k].id # i
      BY <2>1, <2>9
    <3>2. ASSUME NEW n \in DOMAIN c, c[n].id # i PROVE c[n] \in {d[k] : k \in DOMAIN d}
      <4>1. PICK k \in DOMAIN d : f(k) = n
        BY <2>1, <2>11, <3>2
      <4>2. QED
        BY <2>9, <4>1
    <3>3. QED
      BY <3>1, <3>2
  <2>13. \A j, k \in DOMAIN d : d[j].id = d[k].id => j = k
    BY <2>9, <2>10
  <2>14. QED
    BY <2>5, <2>8, <2>12, <2>13
<1>3. QED
  BY <1>1, <1>2

(* Removing an id takes its entry, and nothing else, off its slot.         *)
LEMMA RemoveFacts ==
  ASSUME NEW slot \in SlotType, NEW i \in Nat, Distinct(slot)
  PROVE  /\ Remove(slot, i) \in SlotType
         /\ Distinct(Remove(slot, i))
         /\ Content(Remove(slot, i)) = {e \in Content(slot) : e.id # i}
<1>1. CASE slot = EmptySlot
  <2>1. Remove(slot, i) = slot /\ Content(slot) = {}
    BY <1>1 DEF EmptySlot, Entry, Content, Remove
  <2>2. QED
    BY <2>1
<1>2. CASE slot # EmptySlot
  <2> DEFINE c == slot.next
  <2>1. /\ slot.first \in Entries /\ slot.first.id \in Nat /\ slot.first.id # NoId
        /\ c \in Seq(Entries)
        /\ slot = [first |-> slot.first, next |-> c]
        /\ Content(slot) = {slot.first} \cup {c[k] : k \in DOMAIN c}
    BY <1>2, SlotShape
  <2>2. /\ \A k \in DOMAIN c : c[k].id # slot.first.id
        /\ \A j, k \in DOMAIN c : c[j].id = c[k].id => j = k
    BY DEF Distinct
  <2>3. CASE slot.first.id = i /\ c = <<>>
    <3>1. Remove(slot, i) = EmptySlot
      BY <2>1, <2>3 DEF Remove
    <3>2. {e \in Content(slot) : e.id # i} = {}
      BY <2>1, <2>3
    <3>3. EmptySlot \in SlotType /\ Distinct(EmptySlot) /\ Content(EmptySlot) = {}
      BY DEF SlotType, EmptySlot, Distinct, Content, Entry
    <3>4. QED
      BY <3>1, <3>2, <3>3
  <2>4. CASE slot.first.id = i /\ c # <<>>
    <3> DEFINE t == Tail(c)
    <3>1. Remove(slot, i) = [first |-> c[1], next |-> t]
      BY <2>1, <2>4 DEF Remove
    <3>2. DOMAIN c = 1 .. Len(c) /\ Len(c) \in Nat \ {0} /\ c[1] \in Entries
      BY <2>1, <2>4
    <3>3. t \in Seq(Entries) /\ DOMAIN t = 1 .. Len(c) - 1 /\ \A k \in DOMAIN t : t[k] = c[k + 1]
      BY <2>1, <2>4
    <3> HIDE DEF c, t
    <3>4. \A k \in DOMAIN t : k + 1 \in DOMAIN c /\ k + 1 # 1
      BY <3>2, <3>3
    <3>5. {c[1]} \cup {t[k] : k \in DOMAIN t} = {c[k] : k \in DOMAIN c}
      <4>1. ASSUME NEW n \in DOMAIN c, n # 1 PROVE c[n] \in {t[k] : k \in DOMAIN t}
        <5>1. n - 1 \in DOMAIN t /\ (n - 1) + 1 = n
          BY <3>2, <3>3, <4>1
        <5>2. QED
          BY <3>3, <5>1
      <4>2. 1 \in DOMAIN c
        BY <3>2
      <4>3. QED
        BY <3>3, <3>4, <4>1, <4>2
    <3>6. c[1].id \in Nat /\ c[1].id # NoId
      BY <3>2 DEF Entries, NoId
    <3>7. Content(Remove(slot, i)) = {c[1]} \cup {t[k] : k \in DOMAIN t}
      <4>1. Remove(slot, i).first = c[1] /\ Remove(slot, i).next = t
        BY <3>1
      <4>2. QED
        BY <3>6, <4>1 DEF Content
    <3>8. {e \in Content(slot) : e.id # i} = {c[k] : k \in DOMAIN c}
      BY <2>1, <2>2, <2>4
    <3>9. Distinct([first |-> c[1], next |-> t])
      <4>1. ASSUME NEW k \in DOMAIN t PROVE t[k].id # c[1].id
        BY <2>2, <3>2, <3>3, <3>4
      <4>2. ASSUME NEW j \in DOMAIN t, NEW k \in DOMAIN t, t[j].id = t[k].id PROVE j = k
        <5>1. j + 1 = k + 1
          BY <2>2, <3>3, <3>4, <4>2
        <5>2. QED
          BY <3>3, <3>2, <5>1
      <4>3. QED
        BY <4>1, <4>2 DEF Distinct
    <3>10. Remove(slot, i) \in SlotType
      BY <3>1, <3>2, <3>3 DEF SlotType
    <3>11. Content(Remove(slot, i)) = {e \in Content(slot) : e.id # i}
      BY <3>5, <3>7, <3>8
    <3>12. QED
      BY <3>1, <3>9, <3>10, <3>11
  <2>5. CASE slot.first.id # i
    <3> DEFINE d == Drop(c, i)
    <3>1. /\ d \in Seq(Entries)
          /\ {d[k] : k \in DOMAIN d} = {e \in {c[k] : k \in DOMAIN c} : e.id # i}
          /\ \A j, k \in DOMAIN d : d[j].id = d[k].id => j = k
      BY <2>1, <2>2, DropFacts
    <3>2. Remove(slot, i) = [first |-> slot.first, next |-> d]
      BY <2>1, <2>5 DEF Remove
    <3> HIDE DEF c, d
    <3>3. Content(Remove(slot, i)) = {slot.first} \cup {d[k] : k \in DOMAIN d}
      <4>1. Remove(slot, i).first = slot.first /\ Remove(slot, i).next = d
        BY <3>2
      <4>2. QED
        BY <2>1, <4>1 DEF Content
    <3>4. \A k \in DOMAIN d : d[k] \in {c[n] : n \in DOMAIN c}
      BY <3>1
    <3>5. \A k \in DOMAIN d : d[k].id # slot.first.id
      BY <2>2, <3>4
    <3>6. QED
      BY <2>1, <2>5, <3>1, <3>2, <3>3, <3>5 DEF SlotType, Distinct
  <2>6. QED
    BY <2>3, <2>4, <2>5
<1>3. QED
  BY <1>1, <1>2

(* Finding: _NclGetObj returns the object of the entry with the id, and    *)
(* NULL when the slot has none.                                            *)
LEMMA GetObjFacts ==
  ASSUME NEW i \in Nat, objs[SlotOf(i)] \in SlotType, Distinct(objs[SlotOf(i)])
  PROVE  /\ \A e \in Content(objs[SlotOf(i)]) : e.id = i => GetObj(i) = e.obj
         /\ (\A e \in Content(objs[SlotOf(i)]) : e.id # i) => GetObj(i) = NULL
<1> DEFINE slot == objs[SlotOf(i)]
           c == slot.next
<1>1. i # NoId
  BY DEF NoId
<1>2. CASE slot = EmptySlot
  BY <1>1, <1>2 DEF GetObj, EmptySlot, Entry, Find, Content
<1>3. CASE slot # EmptySlot
  <2>1. /\ slot.first \in Entries /\ slot.first.id # NoId
        /\ c \in Seq(Entries)
        /\ Content(slot) = {slot.first} \cup {c[k] : k \in DOMAIN c}
    BY <1>3, SlotShape
  <2>2. /\ \A k \in DOMAIN c : c[k].id # slot.first.id
        /\ \A j, k \in DOMAIN c : c[j].id = c[k].id => j = k
    BY DEF Distinct
  <2>3. GetObj(i) = IF slot.first.id = i THEN slot.first.obj ELSE Find(c, i)
    BY DEF GetObj
  <2> HIDE DEF slot, c
  <2>4. CASE slot.first.id = i
    <3>1. \A e \in Content(slot) : e.id = i => e = slot.first
      BY <2>1, <2>2, <2>4
    <3>2. slot.first \in Content(slot)
      BY <2>1
    <3>3. QED
      BY <2>3, <2>4, <3>1, <3>2 DEF slot
  <2>5. CASE slot.first.id # i /\ \E k \in DOMAIN c : c[k].id = i
    <3>1. PICK p \in DOMAIN c : c[p].id = i
      BY <2>5
    <3>2. DOMAIN c = 1 .. Len(c) /\ Len(c) \in Nat
      BY <2>1
    <3>3. \A k \in DOMAIN c : (c[k].id = i /\ \A j \in 1 .. k - 1 : c[j].id # i) <=> k = p
      BY <2>2, <3>1, <3>2
    <3>4. (CHOOSE k \in DOMAIN c : c[k].id = i /\ \A j \in 1 .. k - 1 : c[j].id # i) = p
      BY <3>1, <3>3
    <3>5. GetObj(i) = c[p].obj
      BY <2>3, <2>5, <3>4 DEF Find
    <3>6. \A e \in Content(slot) : e.id = i => e = c[p]
      BY <2>1, <2>2, <2>5, <3>1
    <3>7. c[p] \in Content(slot)
      BY <2>1
    <3>8. QED
      BY <3>1, <3>5, <3>6, <3>7 DEF slot
  <2>6. CASE slot.first.id # i /\ ~\E k \in DOMAIN c : c[k].id = i
    <3>1. GetObj(i) = NULL
      BY <2>3, <2>6 DEF Find
    <3>2. \A e \in Content(slot) : e.id # i
      BY <2>1, <2>6
    <3>3. QED
      BY <3>1, <3>2 DEF slot
  <2>7. QED
    BY <2>4, <2>5, <2>6
<1>4. QED
  BY <1>2, <1>3

-----------------------------------------------------------------------------
(* The table as a whole.                                                   *)

(* The contents of a slot are entries of objects.                          *)
LEMMA ContentFacts ==
  ASSUME TypeOK, NEW s \in Slots
  PROVE  objs[s] \in SlotType /\ Content(objs[s]) \subseteq Entries
<1>1. objs[s] \in SlotType
  BY DEF TypeOK
<1>2. Content(objs[s]) \subseteq Entries
  BY <1>1, SlotShape
<1>3. QED
  BY <1>1, <1>2

(* A look-up finds the object that has the id, if there is one.            *)
LEMMA LookUp ==
  IInv => /\ \A o \in Obj : Alive(o) => GetObj(id[o]) = o
          /\ \A i \in Nat : (\A o \in Obj : id[o] # i) => GetObj(i) = NULL
<1> SUFFICES ASSUME IInv
             PROVE  /\ \A o \in Obj : Alive(o) => GetObj(id[o]) = o
                    /\ \A i \in Nat : (\A o \in Obj : id[o] # i) => GetObj(i) = NULL
  OBVIOUS
<1>1. ASSUME NEW i \in Nat
      PROVE  /\ SlotOf(i) \in Slots /\ objs[SlotOf(i)] \in SlotType /\ Distinct(objs[SlotOf(i)])
             /\ Content(objs[SlotOf(i)]) \subseteq Entries
  BY <1>1, SlotFacts, ContentFacts DEF IInv, EntriesTrue
<1>2. ASSUME NEW o \in Obj, Alive(o) PROVE GetObj(id[o]) = o
  <2>1. id[o] \in Nat /\ Entry(id[o], o) \in Content(objs[SlotOf(id[o])])
    BY <1>2 DEF Alive, IInv, ObjectsEntered
  <2>2. Entry(id[o], o).id = id[o] /\ Entry(id[o], o).obj = o
    BY DEF Entry
  <2>3. QED
    BY <1>1, <2>1, <2>2, GetObjFacts
<1>3. ASSUME NEW i \in Nat, \A o \in Obj : id[o] # i PROVE GetObj(i) = NULL
  <2>1. \A e \in Content(objs[SlotOf(i)]) : e.id # i
    BY <1>1, <1>3 DEF IInv, EntriesTrue, Entries
  <2>2. QED
    BY <1>1, <2>1, GetObjFacts
<1>4. QED
  BY <1>2, <1>3

(* No two objects have the same id.                                        *)
LEMMA UniqueIds ==
  ASSUME IInv, NEW o \in Obj, NEW p \in Obj, Alive(o), id[o] = id[p]
  PROVE  o = p
BY LookUp DEF Alive

(* The id a registration settles on is free, and its test finds it free.   *)
LEMMA PassedOverFree ==
  ASSUME IInv, NEW i \in Nat, PassOver(i)
  PROVE  /\ \A o \in Obj : id[o] # i
         /\ \A e \in Content(objs[SlotOf(i)]) : e.id # i
         /\ ~Duplicate(i)
         /\ i >= currentId
<1>1. /\ SlotOf(i) \in Slots /\ objs[SlotOf(i)] \in SlotType
      /\ Content(objs[SlotOf(i)]) \subseteq Entries
  BY SlotFacts, ContentFacts DEF IInv
<1>2. \A o \in Obj : id[o] # i
  <2> SUFFICES ASSUME NEW o \in Obj, id[o] = i PROVE FALSE
    OBVIOUS
  <2>1. Alive(o) /\ GetObj(i) = o
    BY LookUp DEF Alive
  <2>2. CASE recycled
    BY <2>1, <2>2, NullAssumption DEF PassOver
  <2>3. CASE ~recycled
    BY <2>1, <2>3 DEF PassOver, IInv, CounterAhead, TypeOK
  <2>4. QED
    BY <2>2, <2>3
<1>3. \A e \in Content(objs[SlotOf(i)]) : e.id # i
  BY <1>1, <1>2 DEF IInv, EntriesTrue, Entries
<1>4. ~Duplicate(i)
  <2> DEFINE slot == objs[SlotOf(i)]
  <2>1. slot.first.id # i
    <3>1. CASE slot.first.id = NoId
      BY <3>1 DEF NoId
    <3>2. CASE slot.first.id # NoId
      BY <1>3, <3>2 DEF Content
    <3>3. QED
      BY <3>1, <3>2
  <2>2. \A k \in DOMAIN slot.next : slot.next[k].id # i
    BY <1>3 DEF Content
  <2>3. ASSUME NEW k \in 1 .. Len(slot.next) - 1, slot.first.id # NoId
        PROVE  slot.next[k].id # i
    <3>1. slot.next \in Seq(Entries)
      BY <1>1, <2>3, SlotShape DEF EmptySlot, Entry
    <3>2. k \in DOMAIN slot.next
      BY <3>1
    <3>3. QED
      BY <2>2, <3>2
  <2>4. QED
    BY <2>1, <2>3 DEF Duplicate
<1>5. i >= currentId
  BY DEF PassOver, IInv, TypeOK
<1>6. QED
  BY <1>2, <1>3, <1>4, <1>5

-----------------------------------------------------------------------------
(* The invariant.                                                          *)

LEMMA InitIInv == Init => IInv
<1> SUFFICES ASSUME Init PROVE IInv
  OBVIOUS
<1>1. \A s \in Slots : objs[s] = EmptySlot /\ Content(objs[s]) = {} /\ Distinct(objs[s])
  BY DEF Init, EmptySlot, Content, Distinct, Entry
<1>2. \A o \in Obj : ~Alive(o) /\ id[o] # FATAL
  <2>1. NoId \notin Nat /\ NoId # FATAL
    BY SMT DEF NoId, FATAL
  <2>2. \A o \in Obj : id[o] = NoId
    BY DEF Init
  <2>3. QED
    BY <2>1, <2>2, Zenon DEF Alive
<1>3. TypeOK
  BY <1>1 DEF Init, TypeOK, SlotType
<1>4. QED
  BY <1>1, <1>2, <1>3
     DEF Init, IInv, EntriesTrue, ObjectsEntered, CounterAhead, NoInternalError, StaleBehind

(* What a registration does.                                               *)
LEMMA RegisterStep ==
  ASSUME IInv, NEW o \in Obj, Register(o)
  PROVE  \E i \in currentId .. IntMax - 1 :
           /\ i \in Nat /\ id[o] = NoId
           /\ \A p \in Obj : id[p] # i
           /\ \A e \in Content(objs[SlotOf(i)]) : e.id # i
           /\ id' = [id EXCEPT ![o] = i]
           /\ objs' = [objs EXCEPT ![SlotOf(i)] = Insert(@, Entry(i, o))]
           /\ currentId' = IF Wraps(i) THEN RecycleStart ELSE i + 1
           /\ recycled' = (recycled \/ Wraps(i))
           /\ stale' = IF Wraps(i) THEN {} ELSE stale
<1>1. PICK i \in currentId .. IntMax - 1 :
        /\ id[o] = NoId
        /\ PassOver(i)
        /\ ~Duplicate(i) =>
             /\ id' = [id EXCEPT ![o] = i]
             /\ objs' = [objs EXCEPT ![SlotOf(i)] = Insert(@, Entry(i, o))]
             /\ currentId' = IF Wraps(i) THEN RecycleStart ELSE i + 1
             /\ recycled' = (recycled \/ Wraps(i))
             /\ stale' = IF Wraps(i) THEN {} ELSE stale
  BY DEF Register
<1>2. i \in Nat
  BY IdAssumption DEF IInv, TypeOK
<1>3. QED
  BY <1>1, <1>2, PassedOverFree

LEMMA RegisterIInv ==
  ASSUME IInv, NEW o \in Obj, Register(o)
  PROVE  IInv'
<1>1. PICK i \in currentId .. IntMax - 1 :
           /\ i \in Nat /\ id[o] = NoId
           /\ \A p \in Obj : id[p] # i
           /\ \A e \in Content(objs[SlotOf(i)]) : e.id # i
           /\ id' = [id EXCEPT ![o] = i]
           /\ objs' = [objs EXCEPT ![SlotOf(i)] = Insert(@, Entry(i, o))]
           /\ currentId' = IF Wraps(i) THEN RecycleStart ELSE i + 1
           /\ recycled' = (recycled \/ Wraps(i))
           /\ stale' = IF Wraps(i) THEN {} ELSE stale
  BY RegisterStep
<1>2. /\ currentId \in Nat /\ RecycleStart \in Nat /\ IntMax \in Nat
      /\ id \in [Obj -> (0 .. IntMax - 1) \cup {NoId, FATAL}]
      /\ objs \in [Slots -> SlotType] /\ stale \subseteq Nat
      /\ recycled \in BOOLEAN /\ (recycled => currentId >= RecycleStart)
  BY IdAssumption DEF IInv, TypeOK
<1> DEFINE c == SlotOf(i)
           e == Entry(i, o)
<1>3. c \in Slots /\ e \in Entries /\ e.id = i /\ e.obj = o
  BY <1>1, SlotFacts DEF Entry, Entries
<1>4. /\ Insert(objs[c], e) \in SlotType
      /\ Distinct(Insert(objs[c], e))
      /\ Content(Insert(objs[c], e)) = Content(objs[c]) \cup {e}
  BY <1>1, <1>2, <1>3, InsertFacts DEF IInv, EntriesTrue
<1>5. /\ objs' \in [Slots -> SlotType]
      /\ objs'[c] = Insert(objs[c], e)
      /\ \A s \in Slots \ {c} : objs'[s] = objs[s]
  BY <1>1, <1>2, <1>3, <1>4
<1>6. id'[o] = i /\ \A p \in Obj \ {o} : id'[p] = id[p]
  BY <1>1, <1>2
<1> HIDE DEF c, e
<1>7. TypeOK'
  <2>1. id' \in [Obj -> (0 .. IntMax - 1) \cup {NoId, FATAL}]
    BY <1>1, <1>2
  <2>2. currentId' \in Nat /\ (recycled' => currentId' >= RecycleStart)
    BY <1>1, <1>2
  <2>3. stale' \subseteq Nat /\ recycled' \in BOOLEAN
    <3>1. Wraps(i) \in BOOLEAN
      BY DEF Wraps
    <3>2. QED
      BY <1>1, <1>2, <3>1
  <2>4. QED
    BY <1>5, <2>1, <2>2, <2>3 DEF TypeOK
<1>8. EntriesTrue'
  <2> SUFFICES ASSUME NEW s \in Slots
               PROVE  /\ Distinct(objs'[s])
                      /\ \A f \in Content(objs'[s]) : SlotOf(f.id) = s /\ id'[f.obj] = f.id
    BY DEF EntriesTrue, Distinct, Content, SlotOf
  <2>1. Distinct(objs[s]) /\ Content(objs[s]) \subseteq Entries
    BY ContentFacts DEF IInv, EntriesTrue
  <2>2. ASSUME NEW f \in Content(objs[s])
        PROVE  SlotOf(f.id) = s /\ id'[f.obj] = f.id
    <3>1. SlotOf(f.id) = s /\ id[f.obj] = f.id /\ f.obj \in Obj /\ f.id \in Nat
      BY <2>1 DEF IInv, EntriesTrue, Entries
    <3>2. f.obj # o
      BY <1>1, <3>1 DEF NoId
    <3>3. QED
      BY <1>6, <3>1, <3>2
  <2>3. SlotOf(e.id) = c /\ id'[e.obj] = e.id
    BY <1>3, <1>6 DEF c
  <2>4. QED
    BY <1>4, <1>5, <2>1, <2>2, <2>3
<1>9. ObjectsEntered'
  <2> SUFFICES ASSUME NEW p \in Obj, id'[p] \in Nat
               PROVE  Entry(id'[p], p) \in Content(objs'[SlotOf(id'[p])])
    BY DEF ObjectsEntered, Alive, Entry, Content, SlotOf
  <2>1. CASE p = o
    BY <1>4, <1>5, <1>6, <2>1 DEF c, e
  <2>2. CASE p # o
    <3>1. id'[p] = id[p] /\ id[p] \in Nat /\ SlotOf(id[p]) \in Slots
      BY <1>6, <2>2, SlotFacts
    <3>2. Entry(id[p], p) \in Content(objs[SlotOf(id[p])])
      BY <3>1 DEF IInv, ObjectsEntered, Alive
    <3>3. QED
      BY <1>4, <1>5, <3>1, <3>2
  <2>3. QED
    BY <2>1, <2>2
<1>10. CounterAhead'
  <2> SUFFICES ASSUME ~recycled', NEW p \in Obj, id'[p] \in Nat PROVE id'[p] < currentId'
    BY DEF CounterAhead, Alive
  <2>1. ~recycled /\ currentId' = i + 1
    BY <1>1
  <2>2. p # o => id[p] < currentId
    BY <1>6, <2>1 DEF IInv, CounterAhead, Alive
  <2>3. QED
    BY <1>1, <1>2, <1>6, <2>1, <2>2
<1>11. NoInternalError'
  BY <1>1, <1>6 DEF IInv, NoInternalError, FATAL
<1>12. StaleBehind'
  <2> SUFFICES ASSUME NEW j \in stale' PROVE j < currentId' /\ \A p \in Obj : id'[p] # j
    BY DEF StaleBehind
  <2>1. j \in stale /\ currentId' = i + 1
    BY <1>1
  <2>2. j \in Nat /\ j < currentId /\ \A p \in Obj : id[p] # j
    BY <1>2, <2>1 DEF IInv, StaleBehind
  <2>3. QED
    BY <1>1, <1>2, <1>6, <2>1, <2>2
<1>13. QED
  BY <1>7, <1>8, <1>9, <1>10, <1>11, <1>12 DEF IInv

LEMMA UnRegisterIInv ==
  ASSUME IInv, NEW o \in Obj, UnRegister(o)
  PROVE  IInv'
<1> DEFINE k == id[o]
           c == SlotOf(k)
<1>1. k \in Nat /\ c \in Slots
  BY SlotFacts DEF UnRegister, Alive
<1>2. /\ currentId \in Nat /\ objs \in [Slots -> SlotType] /\ stale \subseteq Nat
      /\ id \in [Obj -> (0 .. IntMax - 1) \cup {NoId, FATAL}]
  BY DEF IInv, TypeOK
<1>3. /\ objs' = [objs EXCEPT ![c] = Remove(@, k)]
      /\ id' = [id EXCEPT ![o] = NoId]
      /\ stale' = IF k < currentId THEN stale \cup {k} ELSE stale
      /\ UNCHANGED <<currentId, recycled>>
  BY DEF UnRegister
<1>4. /\ Remove(objs[c], k) \in SlotType
      /\ Distinct(Remove(objs[c], k))
      /\ Content(Remove(objs[c], k)) = {f \in Content(objs[c]) : f.id # k}
  BY <1>1, <1>2, RemoveFacts DEF IInv, EntriesTrue
<1>5. /\ objs' \in [Slots -> SlotType]
      /\ objs'[c] = Remove(objs[c], k)
      /\ \A s \in Slots \ {c} : objs'[s] = objs[s]
  BY <1>1, <1>2, <1>3, <1>4
<1>6. id'[o] = NoId /\ \A p \in Obj \ {o} : id'[p] = id[p]
  BY <1>2, <1>3
<1>7. \A p \in Obj \ {o} : id[p] # k
  BY <1>1, UniqueIds DEF Alive
<1> HIDE DEF c, k
<1>8. TypeOK'
  <2>1. id' \in [Obj -> (0 .. IntMax - 1) \cup {NoId, FATAL}]
    BY <1>2, <1>3
  <2>2. QED
    BY <1>1, <1>2, <1>3, <1>5, <2>1 DEF TypeOK, IInv
<1>9. EntriesTrue'
  <2> SUFFICES ASSUME NEW s \in Slots
               PROVE  /\ Distinct(objs'[s])
                      /\ \A f \in Content(objs'[s]) : SlotOf(f.id) = s /\ id'[f.obj] = f.id
    BY DEF EntriesTrue, Distinct, Content, SlotOf
  <2>1. Distinct(objs[s]) /\ Content(objs[s]) \subseteq Entries
    BY ContentFacts DEF IInv, EntriesTrue
  <2>2. ASSUME NEW f \in Content(objs[s]), f.id # k \/ s # c
        PROVE  SlotOf(f.id) = s /\ id'[f.obj] = f.id
    <3>1. SlotOf(f.id) = s /\ id[f.obj] = f.id /\ f.obj \in Obj
      BY <2>1 DEF IInv, EntriesTrue, Entries
    <3>2. f.obj # o
      BY <2>2, <3>1 DEF c, k
    <3>3. QED
      BY <1>6, <3>1, <3>2
  <2>3. QED
    BY <1>4, <1>5, <2>1, <2>2
<1>10. ObjectsEntered'
  <2> SUFFICES ASSUME NEW p \in Obj, id'[p] \in Nat
               PROVE  Entry(id'[p], p) \in Content(objs'[SlotOf(id'[p])])
    BY DEF ObjectsEntered, Alive, Entry, Content, SlotOf
  <2>1. p # o
    BY <1>6 DEF NoId
  <2>2. id'[p] = id[p] /\ id[p] \in Nat /\ id[p] # k /\ SlotOf(id[p]) \in Slots
    BY <1>6, <1>7, <2>1, SlotFacts
  <2>3. Entry(id[p], p) \in Content(objs[SlotOf(id[p])]) /\ Entry(id[p], p).id = id[p]
    BY <2>2 DEF IInv, ObjectsEntered, Alive, Entry
  <2>4. QED
    BY <1>4, <1>5, <2>2, <2>3
<1>11. CounterAhead'
  BY <1>3, <1>6 DEF IInv, CounterAhead, Alive, NoId
<1>12. NoInternalError'
  BY <1>6 DEF IInv, NoInternalError, FATAL, NoId
<1>13. StaleBehind'
  <2>1. \A p \in Obj : id'[p] # k
    BY <1>1, <1>6, <1>7 DEF NoId
  <2>2. \A j \in stale : \A p \in Obj : id'[p] # j
    BY <1>2, <1>6 DEF IInv, StaleBehind, NoId
  <2>3. QED
    BY <1>1, <1>2, <1>3, <2>1, <2>2 DEF IInv, StaleBehind
<1>14. QED
  BY <1>8, <1>9, <1>10, <1>11, <1>12, <1>13 DEF IInv

LEMMA NextIInv == IInv /\ [Next]_vars => IInv'
<1> SUFFICES ASSUME IInv, [Next]_vars PROVE IInv'
  OBVIOUS
<1>1. CASE UNCHANGED vars
  BY <1>1 DEF vars, IInv, TypeOK, EntriesTrue, Distinct, Content, ObjectsEntered, Alive,
              CounterAhead, NoInternalError, StaleBehind
<1>2. CASE Next
  BY <1>2, RegisterIInv, UnRegisterIInv DEF Next
<1>3. QED
  BY <1>1, <1>2

LEMMA Invariance == Spec => []IInv
BY InitIInv, NextIInv, PTL DEF Spec

(* Slots, chains and ids keep their types: a chain hangs only on a slot    *)
(* that has a first entry, and the counter stays ahead once recycled.      *)
THEOREM TypeCorrect == Spec => []TypeOK
<1>1. IInv => TypeOK
  BY DEF IInv
<1>2. QED
  BY <1>1, Invariance, PTL

(* Every living object is found under its id.                              *)
THEOREM EveryObjectIsFound == Spec => []Findable
<1>1. IInv => Findable
  BY LookUp DEF Findable
<1>2. QED
  BY <1>1, Invariance, PTL

(* The duplicate-id error of _NclRegisterObj is never reported.            *)
THEOREM DuplicateNeverReported == Spec => []NoInternalError
<1>1. IInv => NoInternalError
  BY DEF IInv
<1>2. QED
  BY <1>1, Invariance, PTL

(* An id given back behind the counter leads nowhere.                      *)
THEOREM StaleIdsLeadNowhere == Spec => []StaleIdsFindNothing
<1>1. IInv => StaleIdsFindNothing
  BY LookUp DEF StaleIdsFindNothing, IInv, StaleBehind, Ids, TypeOK
<1>2. QED
  BY <1>1, Invariance, PTL
-----------------------------------------------------------------------------
(* The refinement: the table implements a partial map.                     *)

\* The map that the ids f of the objects stand for.
ById(f) ==
  [i \in {f[o] : o \in {p \in Obj : f[p] \in Nat}} |-> CHOOSE o \in Obj : f[o] = i]

(* When living objects have ids of their own, an id leads to its object.   *)
LEMMA ByIdFacts ==
  ASSUME NEW f, \A o, p \in Obj : f[o] \in Nat /\ f[o] = f[p] => o = p
  PROVE  /\ \A i : i \in DOMAIN ById(f) <=> i \in Nat /\ \E o \in Obj : f[o] = i
         /\ \A o \in Obj : f[o] \in Nat => ById(f)[f[o]] = o
<1>1. \A i : i \in DOMAIN ById(f) <=> i \in Nat /\ \E o \in Obj : f[o] = i
  BY DEF ById
<1>2. ASSUME NEW o \in Obj, f[o] \in Nat PROVE ById(f)[f[o]] = o
  <2>1. ById(f)[f[o]] = CHOOSE p \in Obj : f[p] = f[o]
    BY <1>2 DEF ById
  <2>2. \A p \in Obj : f[p] = f[o] => p = o
    BY <1>2
  <2>3. QED
    BY <2>1, <2>2
<1>3. QED
  BY <1>1, <1>2

\* The table maps exactly the ids of the living objects to them.
Agrees == Mapping = ById(id)

(* It always does.                                                         *)
LEMMA MappingById == IInv => Agrees
<1> SUFFICES ASSUME IInv PROVE Mapping = ById(id)
  BY DEF Agrees
<1>1. id \in [Obj -> (0 .. IntMax - 1) \cup {NoId, FATAL}] /\ IntMax \in Nat
  BY IdAssumption DEF IInv, TypeOK
<1>2. \A o, p \in Obj : id[o] \in Nat /\ id[o] = id[p] => o = p
  BY UniqueIds DEF Alive
<1>3. /\ \A i : i \in DOMAIN ById(id) <=> i \in Nat /\ \E o \in Obj : id[o] = i
      /\ \A o \in Obj : id[o] \in Nat => ById(id)[id[o]] = o
  BY <1>2, ByIdFacts
<1>4. \A i : i \in Ids <=> i \in Nat /\ \E o \in Obj : id[o] = i
  <2>1. ASSUME NEW i \in Ids PROVE i \in Nat /\ \E o \in Obj : id[o] = i
    BY <1>1, LookUp DEF Ids
  <2>2. ASSUME NEW o \in Obj, id[o] \in Nat PROVE id[o] \in Ids
    <3>1. id[o] \in 0 .. IntMax
      BY <1>1, <2>2 DEF NoId, FATAL
    <3>2. GetObj(id[o]) = o
      BY <2>2, LookUp DEF Alive
    <3>3. QED
      BY <3>1, <3>2, NullAssumption DEF Ids
  <2>3. QED
    BY <2>1, <2>2
<1>5. \A i \in Ids : GetObj(i) = ById(id)[i]
  BY <1>3, <1>4, LookUp DEF Alive
<1>6. DOMAIN ById(id) = Ids
  BY <1>3, <1>4
<1>7. ASSUME NEW D, D = Ids,
             NEW g(_), \A i \in D : g(i) = GetObj(i)
      PROVE  [i \in D |-> g(i)] = [i \in Ids |-> GetObj(i)]
  BY <1>7
<1> DEFINE D == {id[o] : o \in {p \in Obj : id[p] \in Nat}}
           g(i) == CHOOSE o \in Obj : id[o] = i
<1>8. D = Ids /\ \A i \in D : g(i) = GetObj(i)
  BY <1>5, <1>6 DEF ById
<1>9. QED
  BY <1>7, <1>8 DEF Mapping, ById

(* A registration binds the id it hands out.                               *)
LEMMA RegisterBinds ==
  ASSUME IInv, IInv', Agrees, Agrees', NEW o \in Obj, Register(o)
  PROVE  \E i \in 0 .. IntMax : Map!Bind(i, o)
<1>1. PICK i \in currentId .. IntMax - 1 :
        /\ i \in Nat /\ id[o] = NoId /\ (\A p \in Obj : id[p] # i)
        /\ id' = [id EXCEPT ![o] = i]
  BY RegisterStep
<1>2. /\ id \in [Obj -> (0 .. IntMax - 1) \cup {NoId, FATAL}]
      /\ IntMax \in Nat /\ i \in 0 .. IntMax /\ NoId \notin Nat
  BY <1>1, IdAssumption DEF IInv, TypeOK, NoId
<1>3. id'[o] = i /\ \A p \in Obj \ {o} : id'[p] = id[p]
  BY <1>1, <1>2
<1>4. \A q, p \in Obj : id[q] \in Nat /\ id[q] = id[p] => q = p
  BY UniqueIds DEF Alive
<1>5. \A q, p \in Obj : id'[q] \in Nat /\ id'[q] = id'[p] => q = p
  BY <1>1, <1>3, <1>4
<1>6. /\ \A j : j \in DOMAIN Mapping <=> j \in Nat /\ \E p \in Obj : id[p] = j
      /\ \A p \in Obj : id[p] \in Nat => Mapping[id[p]] = p
  BY <1>4, ByIdFacts DEF Agrees
<1>7. /\ \A j : j \in DOMAIN Mapping' <=> j \in Nat /\ \E p \in Obj : id'[p] = j
      /\ \A p \in Obj : id'[p] \in Nat => Mapping'[id'[p]] = p
  BY <1>5, ByIdFacts DEF Agrees
<1>8. i \notin DOMAIN Mapping /\ \A j \in DOMAIN Mapping : Mapping[j] # o
  BY <1>1, <1>2, <1>6
<1>9. DOMAIN Mapping' = DOMAIN Mapping \cup {i}
  <2>1. ASSUME NEW j \in DOMAIN Mapping' PROVE j \in DOMAIN Mapping \cup {i}
    BY <1>3, <1>6, <1>7, <2>1
  <2>2. ASSUME NEW j \in DOMAIN Mapping PROVE j \in DOMAIN Mapping'
    <3>1. PICK p \in Obj : id[p] = j /\ j \in Nat
      BY <1>6
    <3>2. id'[p] = j
      BY <1>1, <1>2, <1>3, <3>1
    <3>3. QED
      BY <1>7, <3>1, <3>2
  <2>3. i \in DOMAIN Mapping'
    BY <1>1, <1>3, <1>7
  <2>4. QED
    BY <2>1, <2>2, <2>3
<1>10. ASSUME NEW j \in DOMAIN Mapping'
       PROVE  Mapping'[j] = IF j = i THEN o ELSE Mapping[j]
  <2>1. PICK p \in Obj : id'[p] = j /\ j \in Nat
    BY <1>7
  <2>2. Mapping'[j] = p
    BY <1>7, <2>1
  <2>3. CASE p = o
    BY <1>3, <2>1, <2>2, <2>3
  <2>4. CASE p # o
    BY <1>1, <1>3, <1>6, <2>1, <2>2, <2>4
  <2>5. QED
    BY <2>3, <2>4
<1>11. Mapping' = [j \in DOMAIN Mapping' |-> Mapping'[j]]
  BY DEF Mapping
<1>12. Mapping' = [j \in DOMAIN Mapping \cup {i} |-> IF j = i THEN o ELSE Mapping[j]]
  BY <1>9, <1>10, <1>11
<1>13. QED
  BY <1>2, <1>8, <1>12 DEF Map!Bind

(* The destruction of an object unbinds its id.                            *)
LEMMA UnRegisterUnbinds ==
  ASSUME IInv, IInv', Agrees, Agrees', NEW o \in Obj, UnRegister(o)
  PROVE  \E i \in DOMAIN Mapping : Map!Unbind(i)
<1>1. /\ id \in [Obj -> (0 .. IntMax - 1) \cup {NoId, FATAL}]
      /\ id[o] \in Nat /\ id' = [id EXCEPT ![o] = NoId] /\ NoId \notin Nat
  BY DEF IInv, TypeOK, UnRegister, Alive, NoId
<1>2. id'[o] = NoId /\ \A p \in Obj \ {o} : id'[p] = id[p]
  BY <1>1
<1>3. \A q, p \in Obj : id[q] \in Nat /\ id[q] = id[p] => q = p
  BY UniqueIds DEF Alive
<1>4. \A q, p \in Obj : id'[q] \in Nat /\ id'[q] = id'[p] => q = p
  BY <1>1, <1>2, <1>3
<1>5. /\ \A j : j \in DOMAIN Mapping <=> j \in Nat /\ \E p \in Obj : id[p] = j
      /\ \A p \in Obj : id[p] \in Nat => Mapping[id[p]] = p
  BY <1>3, ByIdFacts DEF Agrees
<1>6. /\ \A j : j \in DOMAIN Mapping' <=> j \in Nat /\ \E p \in Obj : id'[p] = j
      /\ \A p \in Obj : id'[p] \in Nat => Mapping'[id'[p]] = p
  BY <1>4, ByIdFacts DEF Agrees
<1>7. id[o] \in DOMAIN Mapping
  BY <1>1, <1>5
<1>8. DOMAIN Mapping' = DOMAIN Mapping \ {id[o]}
  <2>1. ASSUME NEW j \in DOMAIN Mapping' PROVE j \in DOMAIN Mapping \ {id[o]}
    <3>1. PICK p \in Obj : id'[p] = j /\ j \in Nat
      BY <1>6
    <3>2. p # o /\ id[p] = j
      BY <1>1, <1>2, <3>1
    <3>3. QED
      BY <1>3, <1>5, <3>1, <3>2
  <2>2. ASSUME NEW j \in DOMAIN Mapping, j # id[o] PROVE j \in DOMAIN Mapping'
    BY <1>2, <1>5, <1>6, <2>2
  <2>3. QED
    BY <2>1, <2>2
<1>9. ASSUME NEW j \in DOMAIN Mapping' PROVE Mapping'[j] = Mapping[j]
  <2>1. PICK p \in Obj : id'[p] = j /\ j \in Nat
    BY <1>6
  <2>2. p # o /\ id[p] = j
    BY <1>1, <1>2, <2>1
  <2>3. QED
    BY <1>5, <1>6, <2>1, <2>2
<1>10. Mapping' = [j \in DOMAIN Mapping' |-> Mapping'[j]]
  BY DEF Mapping
<1>11. Mapping' = [j \in DOMAIN Mapping \ {id[o]} |-> Mapping[j]]
  BY <1>8, <1>9, <1>10
<1>12. QED
  BY <1>7, <1>11 DEF Map!Unbind

(* The hash table implements the partial map of IdMap: what _NclRegisterObj *)
(* and _NclUnRegisterObj do to slots and chains is to bind and unbind ids.  *)
THEOREM TableIsMap == Spec => IsMap
<1>1. Init => Map!Init
  <2> SUFFICES ASSUME Init PROVE Mapping = [i \in {} |-> i]
    BY DEF Map!Init
  <2>1. Mapping = ById(id)
    BY InitIInv, MappingById DEF Agrees
  <2>2. \A p \in Obj : id[p] \notin Nat
    BY DEF Init, NoId
  <2>3. {id[o] : o \in {p \in Obj : id[p] \in Nat}} = {}
    BY <2>2
  <2>4. QED
    BY <2>1, <2>3 DEF ById
<1>2. IInv /\ IInv' /\ Agrees /\ Agrees' /\ [Next]_vars
        => [Map!Next]_Mapping
  <2> SUFFICES ASSUME IInv, IInv', Agrees, Agrees', [Next]_vars
               PROVE  Map!Next \/ UNCHANGED Mapping
    OBVIOUS
  <2>1. CASE UNCHANGED vars
    BY <2>1 DEF vars, Agrees
  <2>2. CASE \E o \in Obj : Register(o)
    BY <2>2, RegisterBinds DEF Map!Next
  <2>3. CASE \E o \in Obj : UnRegister(o)
    BY <2>3, UnRegisterUnbinds DEF Map!Next
  <2>4. QED
    BY <2>1, <2>2, <2>3 DEF Next
<1>3. QED
  BY <1>1, <1>2, MappingById, Invariance, PTL DEF Spec, IsMap, Map!Spec

=============================================================================
