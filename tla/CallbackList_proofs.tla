------------------------ MODULE CallbackList_proofs ------------------------
(***************************************************************************)
(* Proofs about CallbackList, for every heap, table size and selector set. *)
(***************************************************************************)
EXTENDS CallbackList, TLAPS

-----------------------------------------------------------------------------
(* Facts about the table and about sequences.                              *)

(* The table has at least one chain, and every index hashes to a chain of  *)
(* it (the mask of _NhlCBCreate).                                          *)
LEMMA TableFacts ==
  /\ Size \in Nat \ {0}
  /\ 0 \in Slots
  /\ \A i \in Nat : SlotOf(i) \in Slots
  /\ \A s \in Selector : IndexOf(s) \in Nat
<1> DEFINE k == 1 + (IF HashMult < 0 THEN 0 ELSE IF HashMult > 8 THEN 8 ELSE HashMult)
<1>1. k \in 1 .. 9
  BY HashMultAssumption
<1>2. Size \in Nat \ {0}
  BY <1>1 DEF Size
<1>3. ASSUME NEW i \in Nat PROVE SlotOf(i) \in Slots
  BY <1>2 DEF SlotOf, Slots
<1>4. QED
  BY <1>2, <1>3, SelectorAssumption DEF Slots, IndexOf

(* RemoveAt drops one position and keeps the order of the others.          *)
LEMMA RemoveAtFacts ==
  ASSUME NEW S, NEW s \in Seq(S), NEW i \in DOMAIN s
  PROVE  /\ RemoveAt(s, i) \in Seq(S)
         /\ Len(RemoveAt(s, i)) = Len(s) - 1
         /\ \A j \in 1 .. Len(s) - 1 :
              RemoveAt(s, i)[j] = IF j < i THEN s[j] ELSE s[j + 1]
<1> DEFINE a == SubSeq(s, 1, i - 1)
           b == SubSeq(s, i + 1, Len(s))
<1>1. a \in Seq(S) /\ Len(a) = i - 1 /\ \A j \in 1 .. i - 1 : a[j] = s[j]
  OBVIOUS
<1>2. b \in Seq(S) /\ Len(b) = Len(s) - i
        /\ \A j \in 1 .. Len(s) - i : b[j] = s[i + j]
  OBVIOUS
<1>3. RemoveAt(s, i) = a \o b
  BY DEF RemoveAt
<1>4. Len(s) \in Nat /\ i \in 1 .. Len(s)
  OBVIOUS
<1> HIDE DEF a, b
<1>5. a \o b \in Seq(S) /\ Len(a \o b) = Len(s) - 1
  BY <1>1, <1>2, <1>4
<1>6. \A j \in 1 .. Len(s) - 1 : (a \o b)[j] = IF j < i THEN s[j] ELSE s[j + 1]
  BY <1>1, <1>2, <1>4
<1>7. QED
  BY <1>3, <1>5, <1>6

-----------------------------------------------------------------------------
(* What the two changes to a chain do.                                     *)

(* A linked node is found where _NhlCBDelete looks for it.                 *)
LEMMA FoundWhereHashed ==
  ASSUME TypeOK, WellHashed, NEW n \in Linked
  PROVE  /\ SlotOf(index[n]) \in Slots
         /\ n \in OnChain(SlotOf(index[n]))
         /\ Position(SlotOf(index[n]), n) \in DOMAIN hash[SlotOf(index[n])]
         /\ hash[SlotOf(index[n])][Position(SlotOf(index[n]), n)] = n
<1>1. PICK b \in Slots : n \in OnChain(b)
  BY DEF Linked
<1>2. SlotOf(index[n]) = b
  BY <1>1 DEF WellHashed
<1>3. \E i \in DOMAIN hash[b] : hash[b][i] = n
  BY <1>1 DEF OnChain
<1>4. QED
  BY <1>1, <1>2, <1>3 DEF Position

(* Unlinking a node takes it, and nothing else, off the list.              *)
LEMMA UnlinkFacts ==
  ASSUME TypeOK, WellHashed, NEW n \in Linked, Unlink(n), UNCHANGED index
  PROVE  /\ hash' \in [Slots -> Seq(Node)]
         /\ WellHashed'
         /\ \A b \in Slots : OnChain(b)' = OnChain(b) \ {n}
         /\ Linked' = Linked \ {n}
<1> DEFINE c == SlotOf(index[n])
           p == Position(c, n)
           r == RemoveAt(hash[c], p)
<1>1. /\ c \in Slots /\ n \in OnChain(c)
      /\ p \in DOMAIN hash[c] /\ hash[c][p] = n
  BY FoundWhereHashed
<1>2. hash \in [Slots -> Seq(Node)] /\ hash[c] \in Seq(Node)
  BY <1>1 DEF TypeOK
<1>3. /\ r \in Seq(Node)
      /\ Len(r) = Len(hash[c]) - 1
      /\ \A j \in 1 .. Len(hash[c]) - 1 : r[j] = IF j < p THEN hash[c][j] ELSE hash[c][j + 1]
  BY <1>1, <1>2, RemoveAtFacts
<1>4. hash' = [hash EXCEPT ![c] = r]
  BY DEF Unlink
<1>5. hash' \in [Slots -> Seq(Node)] /\ hash'[c] = r /\ \A b \in Slots \ {c} : hash'[b] = hash[b]
  BY <1>1, <1>2, <1>3, <1>4
<1> HIDE DEF c, p, r
<1>6. \A i, j \in DOMAIN hash[c] : hash[c][i] = hash[c][j] => i = j
  BY <1>1 DEF WellHashed
<1>7. {r[j] : j \in DOMAIN r} = {hash[c][i] : i \in DOMAIN hash[c]} \ {n}
  <2>1. DOMAIN r = 1 .. Len(hash[c]) - 1 /\ DOMAIN hash[c] = 1 .. Len(hash[c]) /\ Len(hash[c]) \in Nat
    BY <1>2, <1>3
  <2>2. ASSUME NEW j \in DOMAIN r
        PROVE  r[j] \in {hash[c][i] : i \in DOMAIN hash[c]} \ {n}
    <3>1. CASE j < p
      BY <1>1, <1>3, <1>6, <2>1, <3>1
    <3>2. CASE ~(j < p)
      <4>1. j + 1 \in DOMAIN hash[c] /\ j + 1 # p /\ r[j] = hash[c][j + 1]
        BY <1>1, <1>3, <2>1, <3>2
      <4>2. QED
        BY <1>1, <1>6, <4>1
    <3>3. QED
      BY <3>1, <3>2
  <2>3. ASSUME NEW i \in DOMAIN hash[c], hash[c][i] # n
        PROVE  \E j \in DOMAIN r : r[j] = hash[c][i]
    <3>1. CASE i < p
      BY <1>1, <1>3, <2>1, <3>1
    <3>2. CASE i > p
      <4>1. i - 1 \in DOMAIN r /\ ~(i - 1 < p) /\ (i - 1) + 1 = i
        BY <1>1, <2>1, <3>2
      <4>2. r[i - 1] = hash[c][i]
        BY <1>3, <2>1, <4>1
      <4>3. QED
        BY <4>1, <4>2
    <3>3. i # p
      BY <1>1, <2>3
    <3>4. QED
      BY <1>1, <2>1, <3>1, <3>2, <3>3
  <2>4. QED
    BY <2>2, <2>3
<1>8. ASSUME NEW b \in Slots PROVE OnChain(b)' = OnChain(b) \ {n}
  <2>1. CASE b = c
    <3>1. hash'[b] = r /\ hash[b] = hash[c]
      BY <1>5, <2>1
    <3>2. OnChain(b)' = {r[j] : j \in DOMAIN r}
      BY <3>1 DEF OnChain
    <3>3. OnChain(b) = {hash[c][i] : i \in DOMAIN hash[c]}
      BY <3>1 DEF OnChain
    <3>4. QED
      BY <1>7, <3>2, <3>3
  <2>2. CASE b # c
    <3>1. OnChain(b)' = OnChain(b)
      BY <1>5, <2>2 DEF OnChain
    <3>2. n \notin OnChain(b)
      BY <2>2 DEF WellHashed, c
    <3>3. QED
      BY <3>1, <3>2
  <2>3. QED
    BY <2>1, <2>2
<1>9. WellHashed'
  <2>1. ASSUME NEW b \in Slots, NEW m \in OnChain(b)' PROVE SlotOf(index'[m]) = b
    BY <1>8, <2>1 DEF WellHashed
  <2>2. ASSUME NEW b \in Slots, NEW i \in DOMAIN hash'[b], NEW j \in DOMAIN hash'[b],
               hash'[b][i] = hash'[b][j]
        PROVE  i = j
    <3>1. CASE b # c
      BY <1>5, <2>2, <3>1 DEF WellHashed
    <3>2. CASE b = c
      <4>1. i \in 1 .. Len(hash[c]) - 1 /\ j \in 1 .. Len(hash[c]) - 1 /\ r[i] = r[j]
        BY <1>3, <1>5, <2>2, <3>2
      <4>2. DOMAIN hash[c] = 1 .. Len(hash[c]) /\ Len(hash[c]) \in Nat
        BY <1>2
      <4> DEFINE f(x) == IF x < p THEN x ELSE x + 1
      <4>3. f(i) \in DOMAIN hash[c] /\ f(j) \in DOMAIN hash[c]
        BY <1>1, <4>1, <4>2
      <4>4. r[i] = hash[c][f(i)] /\ r[j] = hash[c][f(j)]
        BY <1>3, <4>1
      <4>5. f(i) = f(j)
        BY <1>6, <4>1, <4>3, <4>4
      <4>6. QED
        BY <1>1, <4>1, <4>2, <4>5
    <3>3. QED
      BY <3>1, <3>2
  <2>3. QED
    BY <2>1, <2>2 DEF WellHashed
<1>10. Linked' = Linked \ {n}
  BY <1>8 DEF Linked
<1>11. QED
  BY <1>5, <1>8, <1>9, <1>10

(* Adding a node puts it, and nothing else, at the end of its chain.       *)
LEMMA AddFacts ==
  ASSUME TypeOK, WellHashed, NEW n \in Node, NEW s \in Selector, Add(n, s)
  PROVE  /\ hash' \in [Slots -> Seq(Node)] /\ index' \in [Node -> Nat]
         /\ WellHashed'
         /\ \A b \in Slots : OnChain(b) \subseteq OnChain(b)'
         /\ Linked' = Linked \cup {n}
<1> DEFINE k == IndexOf(s)
           c == SlotOf(k)
<1>1. k \in Nat /\ c \in Slots
  BY TableFacts
<1>2. hash \in [Slots -> Seq(Node)] /\ hash[c] \in Seq(Node) /\ index \in [Node -> Nat]
  BY <1>1 DEF TypeOK
<1>3. hash' = [hash EXCEPT ![c] = Append(@, n)] /\ index' = [index EXCEPT ![n] = k]
  BY DEF Add
<1>4. n \notin Linked
  BY DEF Add
<1> HIDE DEF k, c
<1>5. /\ hash'[c] = Append(hash[c], n)
      /\ \A b \in Slots \ {c} : hash'[b] = hash[b]
      /\ hash' \in [Slots -> Seq(Node)]
      /\ index' \in [Node -> Nat] /\ index'[n] = k
      /\ \A m \in Node \ {n} : index'[m] = index[m]
  BY <1>1, <1>2, <1>3
<1>6. /\ DOMAIN hash[c] = 1 .. Len(hash[c]) /\ Len(hash[c]) \in Nat
      /\ DOMAIN hash'[c] = 1 .. Len(hash[c]) + 1
      /\ hash'[c][Len(hash[c]) + 1] = n
      /\ \A i \in 1 .. Len(hash[c]) : hash'[c][i] = hash[c][i]
  BY <1>2, <1>5
<1>7. OnChain(c)' = OnChain(c) \cup {n}
  BY <1>6, SMTT(40) DEF OnChain
<1>8. \A b \in Slots \ {c} : OnChain(b)' = OnChain(b)
  BY <1>5 DEF OnChain
<1>9. \A b \in Slots : n \notin OnChain(b) /\ OnChain(b) \subseteq Node
  BY <1>4 DEF Linked, OnChain, TypeOK
<1>10. Linked' = Linked \cup {n}
  BY <1>1, <1>7, <1>8 DEF Linked
<1>11. WellHashed'
  <2>1. ASSUME NEW b \in Slots, NEW m \in OnChain(b)' PROVE SlotOf(index'[m]) = b
    <3>1. CASE m = n
      BY <1>5, <1>8, <1>9, <3>1 DEF c
    <3>2. CASE m # n
      <4>1. m \in OnChain(b) /\ m \in Node
        BY <1>7, <1>8, <1>9, <3>2
      <4>2. QED
        BY <1>5, <3>2, <4>1 DEF WellHashed
    <3>3. QED
      BY <3>1, <3>2
  <2>2. ASSUME NEW b \in Slots, NEW i \in DOMAIN hash'[b], NEW j \in DOMAIN hash'[b],
               hash'[b][i] = hash'[b][j]
        PROVE  i = j
    <3>1. CASE b # c
      BY <1>5, <2>2, <3>1 DEF WellHashed
    <3>2. CASE b = c
      <4>1. \A x \in DOMAIN hash[c] : hash[c][x] # n
        BY <1>1, <1>9 DEF OnChain
      <4>2. \A x, y \in DOMAIN hash[c] : hash[c][x] = hash[c][y] => x = y
        BY <1>1 DEF WellHashed
      <4>3. i \in 1 .. Len(hash[c]) + 1 /\ j \in 1 .. Len(hash[c]) + 1 /\ hash'[c][i] = hash'[c][j]
        BY <1>6, <2>2, <3>2
      <4>4. CASE i \in 1 .. Len(hash[c]) /\ j \in 1 .. Len(hash[c])
        BY <1>6, <4>2, <4>3, <4>4
      <4>5. CASE i = Len(hash[c]) + 1 \/ j = Len(hash[c]) + 1
        <5>1. \A x \in 1 .. Len(hash[c]) : hash'[c][x] # n
          BY <1>6, <4>1
        <5>2. hash'[c][i] = n /\ hash'[c][j] = n
          BY <1>6, <4>3, <4>5
        <5>3. i \notin 1 .. Len(hash[c]) /\ j \notin 1 .. Len(hash[c])
          BY <5>1, <5>2
        <5>4. QED
          BY <1>6, <4>3, <5>3
      <4>6. QED
        BY <1>6, <4>3, <4>4, <4>5
    <3>3. QED
      BY <3>1, <3>2
  <2>3. QED
    BY <2>1, <2>2 DEF WellHashed
<1>12. QED
  BY <1>5, <1>7, <1>8, <1>10, <1>11

(* Following the pointers of a chain leads to its nodes or to NULL.        *)
LEMMA PointerFacts ==
  ASSUME TypeOK, NEW b \in Slots
  PROVE  /\ OnChain(b) \subseteq Node
         /\ First(b) \in OnChain(b) \cup {NULL}
         /\ \A n \in OnChain(b) : NextOn(b, n) \in OnChain(b) \cup {NULL}
<1>1. hash[b] \in Seq(Node) /\ DOMAIN hash[b] = 1 .. Len(hash[b]) /\ Len(hash[b]) \in Nat
  BY DEF TypeOK
<1>2. OnChain(b) \subseteq Node
  BY <1>1 DEF OnChain
<1>3. First(b) \in OnChain(b) \cup {NULL}
  <2>1. CASE hash[b] = <<>>
    BY <2>1 DEF First
  <2>2. CASE hash[b] # <<>>
    <3>1. 1 \in DOMAIN hash[b]
      BY <1>1, <2>2
    <3>2. QED
      BY <2>2, <3>1 DEF First, OnChain
  <2>3. QED
    BY <2>1, <2>2
<1>4. ASSUME NEW n \in OnChain(b) PROVE NextOn(b, n) \in OnChain(b) \cup {NULL}
  <2>1. \E i \in DOMAIN hash[b] : hash[b][i] = n
    BY DEF OnChain
  <2>2. Position(b, n) \in DOMAIN hash[b]
    BY <2>1 DEF Position
  <2>3. CASE Position(b, n) < Len(hash[b])
    <3>1. Position(b, n) + 1 \in DOMAIN hash[b]
      BY <1>1, <2>2, <2>3
    <3>2. QED
      BY <2>3, <3>1 DEF NextOn, OnChain
  <2>4. CASE ~(Position(b, n) < Len(hash[b]))
    BY <2>4 DEF NextOn
  <2>5. QED
    BY <2>3, <2>4
<1>5. QED
  BY <1>2, <1>3, <1>4

(* A list that was just freed has no node on any chain.                    *)
LEMMA FreedFacts ==
  ASSUME FreeList
  PROVE  /\ hash' \in [Slots -> Seq(Node)]
         /\ WellHashed' /\ Linked' = {} /\ marked' = {} /\ data' = {}
<1>1. /\ hash' \in [Slots -> Seq(Node)]
      /\ \A b \in Slots : hash'[b] = <<>>
      /\ marked' = {} /\ data' = {}
  BY DEF FreeList, Empty
<1>2. \A b \in Slots : OnChain(b)' = {}
  BY <1>1 DEF OnChain
<1>3. QED
  BY <1>1, <1>2 DEF WellHashed, Linked

(* Whoever leaves the chains alone leaves what is on them alone.           *)
LEMMA ChainsUnchanged ==
  ASSUME UNCHANGED <<hash, index>>
  PROVE  /\ WellHashed' <=> WellHashed
         /\ Linked' = Linked
         /\ \A b \in Slots : OnChain(b)' = OnChain(b)
BY DEF WellHashed, Linked, OnChain

-----------------------------------------------------------------------------
(* The invariant.                                                          *)

LEMMA InitIInv == Init => IInv
<1> SUFFICES ASSUME Init PROVE IInv
  OBVIOUS
<1>1. hash \in [Slots -> Seq(Node)] /\ \A b \in Slots : hash[b] = <<>>
  BY DEF Init, Empty
<1>2. \A b \in Slots : OnChain(b) = {}
  BY <1>1 DEF OnChain
<1>3. WellHashed
  BY <1>1, <1>2 DEF WellHashed
<1>4. TypeOK
  BY <1>1, TableFacts DEF Init, TypeOK
<1>5. QED
  BY <1>3, <1>4 DEF Init, IInv, Bits, NoUseAfterFree, NoZombies

LEMMA NextIInv == IInv /\ [Next]_vars => IInv'
<1> SUFFICES ASSUME IInv, [Next]_vars PROVE IInv'
  OBVIOUS
<1> USE DEF IInv
<1>1. CASE UNCHANGED vars
  BY <1>1 DEF vars, list, walk, TypeOK, Bits, NoUseAfterFree, NoZombies, WellHashed,
              OnChain, Linked
<1>2. CASE Create
  BY <1>2 DEF Create, walk, TypeOK, Bits, NoUseAfterFree, NoZombies, WellHashed, OnChain, Linked
<1>3. ASSUME NEW n \in Node, NEW s \in Selector, Add(n, s) PROVE IInv'
  <2>1. /\ hash' \in [Slots -> Seq(Node)] /\ index' \in [Node -> Nat] /\ WellHashed'
        /\ \A b \in Slots : OnChain(b) \subseteq OnChain(b)'
        /\ Linked' = Linked \cup {n}
    BY <1>3, AddFacts
  <2>2. TypeOK'
    BY <1>3, <2>1 DEF Add, TypeOK, walk
  <2>3. NoUseAfterFree'
    BY <1>3, <2>1 DEF Add, walk, NoUseAfterFree, TypeOK
  <2>4. QED
    BY <1>3, <2>1, <2>2, <2>3 DEF Add, walk, Bits, NoZombies
<1>4. ASSUME NEW n \in Node, Delete(n) PROVE IInv'
  <2>1. CASE calling
    <3>1. UNCHANGED <<hash, index, slot>>
      BY <1>4, <2>1 DEF Delete, walk
    <3>2. QED
      BY <1>4, <2>1, <3>1, ChainsUnchanged
         DEF Delete, walk, TypeOK, Bits, NoUseAfterFree, NoZombies
  <2>2. CASE ~calling
    <3>1. n \in Linked /\ n \notin marked /\ Unlink(n) /\ UNCHANGED index
      BY <1>4, <2>2 DEF Delete
    <3>2. /\ hash' \in [Slots -> Seq(Node)] /\ WellHashed' /\ Linked' = Linked \ {n}
      BY <3>1, UnlinkFacts
    <3>3. QED
      BY <1>4, <2>2, <3>1, <3>2 DEF Delete, walk, TypeOK, Bits, NoUseAfterFree, NoZombies
  <2>3. QED
    BY <2>1, <2>2
<1>5. CASE Destroy
  <2>1. CASE calling
    BY <1>5, <2>1 DEF Destroy, ClientRuns, walk, TypeOK, Bits, NoUseAfterFree, NoZombies,
                      WellHashed, OnChain, Linked
  <2>2. CASE ~calling
    <3>1. FreeList
      BY <1>5, <2>2 DEF Destroy
    <3>2. QED
      BY <1>5, <2>2, <3>1, FreedFacts
         DEF Destroy, FreeList, ClientRuns, walk, TypeOK, Bits, NoUseAfterFree, NoZombies
  <2>3. QED
    BY <2>1, <2>2
<1>6. ASSUME NEW o, NEW i \in Nat, NEW b \in Slots, StartWalk(o, i, b) PROVE IInv'
  <2>1. First(b) \in OnChain(b) \cup {NULL} /\ OnChain(b) \subseteq Node
    BY PointerFacts
  <2>2. UNCHANGED <<hash, index, marked>> /\ cb' = First(b) /\ slot' = b
    BY <1>6 DEF StartWalk
  <2>3. WellHashed' /\ Linked' = Linked /\ OnChain(b)' = OnChain(b)
    BY <2>2 DEF WellHashed, Linked, OnChain
  <2>4. NoUseAfterFree'
    BY <1>6, <2>1, <2>2 DEF StartWalk, NoUseAfterFree, OnChain
  <2>5. QED
    BY <1>6, <2>1, <2>3, <2>4, WalksAssumption DEF StartWalk, TypeOK, Bits, NoZombies
<1>7. CASE Invoke
  BY <1>7 DEF Invoke, list, TypeOK, Bits, NoUseAfterFree, NoZombies, WellHashed, OnChain, Linked
<1>8. CASE Skip \/ Return
  <2>1. Advance /\ calling /\ cb # NULL
    BY <1>8 DEF Skip, Return, Bits
  <2>2. slot \in Slots /\ cb \in OnChain(slot) /\ alive
    BY <2>1 DEF NoUseAfterFree, TypeOK
  <2>3. NextOn(slot, cb) \in OnChain(slot) \cup {NULL} /\ OnChain(slot) \subseteq Node
    BY <2>2, PointerFacts
  <2>4. UNCHANGED <<hash, index, marked, slot>> /\ cb' = NextOn(slot, cb)
    BY <2>1 DEF Advance, list
  <2>5. WellHashed' /\ Linked' = Linked /\ OnChain(slot)' = OnChain(slot)
    BY <2>4 DEF WellHashed, Linked, OnChain
  <2>6. NoUseAfterFree'
    BY <2>1, <2>2, <2>3, <2>4, <2>5 DEF Advance, list, NoUseAfterFree
  <2>7. QED
    BY <2>1, <2>2, <2>3, <2>4, <2>5, <2>6 DEF Advance, list, TypeOK, Bits, NoZombies
<1>9. CASE ReturnToDestroyed
  <2>1. FreeList
    BY <1>9 DEF ReturnToDestroyed
  <2>2. QED
    BY <1>9, <2>1, FreedFacts, TableFacts
       DEF ReturnToDestroyed, LeaveWalk, FreeList, TypeOK, Bits, NoUseAfterFree, NoZombies
<1>10. CASE NextSlot
  <2>1. slot + 1 \in Slots
    BY <1>10, TableFacts DEF NextSlot, TypeOK, Slots
  <2>2. First(slot + 1) \in OnChain(slot + 1) \cup {NULL} /\ OnChain(slot + 1) \subseteq Node
    BY <2>1, PointerFacts
  <2>3. UNCHANGED <<hash, index, marked>> /\ cb' = First(slot + 1) /\ slot' = slot + 1
    BY <1>10 DEF NextSlot, list
  <2>4. WellHashed' /\ Linked' = Linked /\ OnChain(slot)' = OnChain(slot + 1)
    BY <2>3 DEF WellHashed, Linked, OnChain
  <2>5. QED
    BY <1>10, <2>1, <2>2, <2>3, <2>4
       DEF NextSlot, list, TypeOK, Bits, NoUseAfterFree, NoZombies
<1>11. CASE EndWalk
  <2>1. UNCHANGED <<hash, index>>
    BY <1>11 DEF EndWalk
  <2>2. QED
    BY <1>11, <2>1, ChainsUnchanged DEF EndWalk, TypeOK, Bits, NoUseAfterFree, NoZombies
<1>12. ASSUME NEW n \in Node, Sweep(n) PROVE IInv'
  <2>1. n \in Linked /\ n \in marked /\ Unlink(n) /\ UNCHANGED index
    BY <1>12 DEF Sweep, Doomed
  <2>2. hash' \in [Slots -> Seq(Node)] /\ WellHashed' /\ Linked' = Linked \ {n}
    BY <2>1, UnlinkFacts
  <2>3. QED
    BY <1>12, <2>1, <2>2 DEF Sweep, walk, TypeOK, Bits, NoUseAfterFree, NoZombies
<1>13. CASE EndSweep
  <2>1. marked = {}
    BY <1>13 DEF EndSweep, Doomed
  <2>2. QED
    BY <1>13, <2>1, TableFacts
       DEF EndSweep, LeaveWalk, list, TypeOK, Bits, NoUseAfterFree, NoZombies, WellHashed,
           OnChain, Linked
<1>14. CASE Client
  <2>1. ASSUME NEW s \in Selector, CallCallbacks(s) PROVE IInv'
    BY <1>6, <2>1, TableFacts DEF CallCallbacks
  <2>2. ASSUME Iterate PROVE IInv'
    BY <1>6, <2>2, TableFacts DEF Iterate
  <2>3. QED
    BY <1>2, <1>3, <1>4, <1>5, <1>14, <2>1, <2>2 DEF Client
<1>15. CASE Walking
  BY <1>7, <1>8, <1>9, <1>10, <1>11, <1>12, <1>13, <1>15 DEF Walking
<1>16. QED
  BY <1>1, <1>14, <1>15 DEF Next

LEMMA Invariance == Spec => []IInv
BY InitIInv, NextIInv, PTL DEF Spec

(* The variables keep their types.                                         *)
THEOREM TypeCorrect == Spec => []TypeOK
<1>1. IInv => TypeOK
  BY DEF IInv
<1>2. QED
  BY <1>1, Invariance, PTL

(* No walk of Callbacks.c stands on freed memory, whatever the callbacks   *)
(* it calls delete or destroy.                                             *)
THEOREM NoWalkReadsFreedMemory == Spec => []NoUseAfterFree
<1>1. IInv => NoUseAfterFree
  BY DEF IInv
<1>2. QED
  BY <1>1, Invariance, PTL

(* When the list is at rest no deleted node is left on any chain.          *)
THEOREM SweepIsComplete == Spec => []NoZombies
<1>1. IInv => NoZombies
  BY DEF IInv
<1>2. QED
  BY <1>1, Invariance, PTL

(* Every node is on the chain _NhlCBDelete searches, exactly once.         *)
THEOREM NodesAreWellHashed == Spec => []WellHashed
<1>1. IInv => WellHashed
  BY DEF IInv
<1>2. QED
  BY <1>1, Invariance, PTL

-----------------------------------------------------------------------------
(* The data of the nodes of a list with a task_proc.                       *)

\* Every walk is one the list is used with, and no other action changes op.
OpIsAWalk == pc # "idle" => op \in Walks

LEMMA DataInvariance ==
  ASSUME "call" \notin Walks, HasTask,
         IInv, IInv', OpIsAWalk, data = Linked, [Next]_vars
  PROVE  OpIsAWalk' /\ data' = Linked'
<1>1. CASE UNCHANGED vars
  BY <1>1 DEF vars, list, walk, OpIsAWalk, Linked, OnChain
<1>2. CASE Create
  BY <1>2 DEF Create, walk, OpIsAWalk, Linked, OnChain
<1>3. ASSUME NEW n \in Node, NEW s \in Selector, Add(n, s) PROVE OpIsAWalk' /\ data' = Linked'
  <2>1. Linked' = Linked \cup {n}
    BY <1>3, AddFacts DEF IInv
  <2>2. QED
    BY <1>3, <2>1 DEF Add, walk, OpIsAWalk
<1>4. ASSUME NEW n \in Node, Delete(n) PROVE OpIsAWalk' /\ data' = Linked'
  <2>1. CASE calling
    BY <1>4, <2>1 DEF Delete, walk, OpIsAWalk, Linked, OnChain
  <2>2. CASE ~calling
    <3>1. n \in Linked /\ Unlink(n) /\ UNCHANGED index
      BY <1>4, <2>2 DEF Delete
    <3>2. Linked' = Linked \ {n}
      BY <3>1, UnlinkFacts DEF IInv
    <3>3. QED
      BY <1>4, <2>2, <3>2 DEF Delete, walk, OpIsAWalk
  <2>3. QED
    BY <2>1, <2>2
<1>5. CASE Destroy
  <2>1. CASE calling
    BY <1>5, <2>1 DEF Destroy, walk, OpIsAWalk, Linked, OnChain
  <2>2. CASE ~calling
    BY <1>5, <2>2, FreedFacts DEF Destroy, walk, OpIsAWalk
  <2>3. QED
    BY <2>1, <2>2
<1>6. ASSUME NEW o, NEW i, NEW b, StartWalk(o, i, b) PROVE OpIsAWalk' /\ data' = Linked'
  BY <1>6 DEF StartWalk, OpIsAWalk, Linked, OnChain
<1>7. CASE Invoke
  BY <1>7 DEF Invoke, list, OpIsAWalk, Linked, OnChain
<1>8. CASE Skip \/ Return
  <2>1. Advance /\ pc # "idle"
    BY <1>8 DEF Skip, Return
  <2>2. QED
    BY <2>1 DEF Advance, list, OpIsAWalk, Linked, OnChain
<1>9. CASE ReturnToDestroyed
  BY <1>9, FreedFacts DEF ReturnToDestroyed, LeaveWalk, OpIsAWalk
<1>10. CASE NextSlot
  BY <1>10 DEF NextSlot, list, OpIsAWalk, Linked, OnChain
<1>11. CASE EndWalk
  BY <1>11 DEF EndWalk, OpIsAWalk, Linked, OnChain
<1>12. ASSUME NEW n \in Node, Sweep(n) PROVE OpIsAWalk' /\ data' = Linked'
  <2>1. n \in Linked /\ Unlink(n) /\ UNCHANGED index
    BY <1>12 DEF Sweep, Doomed
  <2>2. Linked' = Linked \ {n}
    BY <2>1, UnlinkFacts DEF IInv
  <2>3. op = "iterate"
    BY <1>12, WalksAssumption DEF Sweep, OpIsAWalk
  <2>4. QED
    BY <1>12, <2>2, <2>3 DEF Sweep, walk, OpIsAWalk
<1>13. CASE EndSweep
  BY <1>13 DEF EndSweep, LeaveWalk, list, OpIsAWalk, Linked, OnChain
<1>14. CASE Client
  BY <1>2, <1>3, <1>4, <1>5, <1>6, <1>14 DEF Client, CallCallbacks, Iterate
<1>15. CASE Walking
  BY <1>7, <1>8, <1>9, <1>10, <1>11, <1>12, <1>13, <1>15 DEF Walking
<1>16. QED
  BY <1>1, <1>14, <1>15 DEF Next

(* A list that is only iterated over keeps a node's cbnode_data exactly as *)
(* long as the node, whoever is deleted during which callback.             *)
THEOREM DataLivesWithItsNode ==
  ASSUME "call" \notin Walks
  PROVE  Spec => []DataOwned
<1> DEFINE DInv == OpIsAWalk /\ DataOwned
<1>1. Init => DInv
  <2>1. ASSUME Init PROVE \A b \in Slots : OnChain(b) = {}
    BY <2>1 DEF Init, Empty, OnChain
  <2>2. QED
    BY <2>1 DEF Init, OpIsAWalk, DataOwned, Linked
<1>2. IInv /\ IInv' /\ DInv /\ [Next]_vars => DInv'
  <2>1. CASE HasTask
    BY <2>1, DataInvariance DEF DataOwned
  <2>2. CASE ~HasTask
    <3> SUFFICES ASSUME DInv, [Next]_vars PROVE OpIsAWalk'
      BY <2>2 DEF DataOwned
    <3>1. CASE \E n \in Node : Delete(n) \/ Sweep(n) \/ \E s \in Selector : Add(n, s)
      BY <3>1 DEF Delete, Sweep, Add, walk, OpIsAWalk
    <3>2. CASE Destroy \/ Create \/ UNCHANGED vars
      BY <3>2 DEF Destroy, Create, walk, vars, OpIsAWalk
    <3>3. CASE Iterate \/ \E s \in Selector : CallCallbacks(s)
      BY <3>3 DEF Iterate, CallCallbacks, StartWalk, OpIsAWalk
    <3>4. CASE Invoke \/ Skip \/ Return \/ NextSlot \/ EndWalk
      BY <3>4 DEF Invoke, Skip, Return, Advance, NextSlot, EndWalk, OpIsAWalk
    <3>5. CASE ReturnToDestroyed \/ EndSweep
      BY <3>5 DEF ReturnToDestroyed, EndSweep, LeaveWalk, OpIsAWalk
    <3>6. QED
      BY <3>1, <3>2, <3>3, <3>4, <3>5 DEF Next, Client, Walking
  <2>3. QED
    BY <2>1, <2>2
<1>3. QED
  BY <1>1, <1>2, Invariance, PTL DEF Spec
-----------------------------------------------------------------------------
(* The refinement of CallbackPromise.                                      *)

\* A walk is one the list is used with, and a call walks the chain of what it
\* looks for.
Course ==
  /\ OpIsAWalk
  /\ op = "call" => slot = SlotOf(sel)

(* Only the start of a walk says where a call goes on.                     *)
LEMMA CourseKept == Course /\ [Next]_vars => Course'
<1> SUFFICES ASSUME Course, [Next]_vars PROVE Course'
  OBVIOUS
<1>1. CASE \E n \in Node : Delete(n) \/ Sweep(n) \/ \E s \in Selector : Add(n, s)
  BY <1>1 DEF Delete, Sweep, Add, walk, Course, OpIsAWalk, SlotOf
<1>2. CASE Destroy \/ Create \/ UNCHANGED vars
  BY <1>2 DEF Destroy, Create, walk, vars, Course, OpIsAWalk, SlotOf
<1>3. CASE Iterate \/ \E s \in Selector : CallCallbacks(s)
  BY <1>3 DEF Iterate, CallCallbacks, StartWalk, Course, OpIsAWalk, SlotOf
<1>4. CASE Invoke \/ Skip \/ Return \/ NextSlot \/ EndWalk
  BY <1>4 DEF Invoke, Skip, Return, Advance, NextSlot, EndWalk, Course, OpIsAWalk, SlotOf
<1>5. CASE ReturnToDestroyed \/ EndSweep
  BY <1>5 DEF ReturnToDestroyed, EndSweep, LeaveWalk, Course, OpIsAWalk
<1>6. QED
  BY <1>1, <1>2, <1>3, <1>4, <1>5 DEF Next, Client, Walking

LEMMA CourseInvariance == Spec => []Course
<1>1. Init => Course
  BY DEF Init, Course, OpIsAWalk
<1>2. QED
  BY <1>1, CourseKept, PTL DEF Spec

\* The nodes of chain b behind position p.
Behind(b, p) == {hash[b][i] : i \in {j \in DOMAIN hash[b] : j > p}}

\* The nodes an iteration comes to after chain b.
After(b) == UNION {OnChain(d) : d \in (b + 1) .. (Size - 1)}

\* The chains a walk still comes to.
Later == IF op = "iterate" THEN After(slot) ELSE {}

Due == {n \in Ahead \cap Registered : op = "iterate" \/ index[n] = sel}

(* A node's position is where it is.                                       *)
LEMMA PositionFacts ==
  ASSUME TypeOK, WellHashed, NEW b \in Slots, NEW n \in OnChain(b)
  PROVE  /\ Position(b, n) \in DOMAIN hash[b]
         /\ hash[b][Position(b, n)] = n
         /\ \A i \in DOMAIN hash[b] : hash[b][i] = n => i = Position(b, n)
<1>1. \E i \in DOMAIN hash[b] : hash[b][i] = n
  BY DEF OnChain
<1>2. Position(b, n) \in DOMAIN hash[b] /\ hash[b][Position(b, n)] = n
  BY <1>1 DEF Position
<1>3. QED
  BY <1>2 DEF WellHashed

\* What lies ahead of a walk, by where it stands.
AheadByPlace ==
  /\ ~calling => Ahead = {}
  /\ calling /\ cb = NULL => Ahead = Later
  /\ calling /\ pc = "callback" => Ahead = Behind(slot, Position(slot, cb)) \cup Later
  /\ calling /\ cb # NULL /\ pc # "callback" =>
       Ahead = {cb} \cup Behind(slot, Position(slot, cb)) \cup Later

LEMMA AheadFacts == IInv => AheadByPlace
<1> SUFFICES ASSUME IInv PROVE AheadByPlace
  OBVIOUS
<1>1. ~calling => Ahead = {}
  BY DEF Ahead
<1>2. ASSUME calling, cb = NULL PROVE Ahead = Later
  <2>1. pc # "callback"
    BY <1>2 DEF IInv, Bits
  <2>2. QED
    BY <1>2, <2>1 DEF Ahead, Later, After
<1>3. ASSUME calling, pc = "callback"
      PROVE  Ahead = Behind(slot, Position(slot, cb)) \cup Later
  <2>1. cb # NULL
    BY <1>3 DEF IInv, Bits
  <2>2. QED
    BY <1>3, <2>1 DEF Ahead, Later, After, Behind
<1>4. ASSUME calling, cb # NULL, pc # "callback"
      PROVE  Ahead = {cb} \cup Behind(slot, Position(slot, cb)) \cup Later
  <2> DEFINE p == Position(slot, cb)
             here == {hash[slot][i] : i \in {j \in DOMAIN hash[slot] : j >= p}}
  <2>1. slot \in Slots /\ cb \in OnChain(slot)
    BY <1>4 DEF IInv, TypeOK, NoUseAfterFree
  <2>2. p \in DOMAIN hash[slot] /\ hash[slot][p] = cb
    BY <2>1, PositionFacts DEF IInv
  <2>3. hash[slot] \in Seq(Node) /\ p \in Nat /\ \A j \in DOMAIN hash[slot] : j \in Nat
    BY <2>1, <2>2 DEF IInv, TypeOK
  <2>4. Ahead = here \cup Later
    BY <1>4 DEF Ahead, Later, After
  <2>5. \A j \in DOMAIN hash[slot] : j >= p <=> j = p \/ j > p
    BY <2>3
  <2> HIDE DEF p
  <2>6. here = {cb} \cup Behind(slot, p)
    BY <2>2, <2>5 DEF Behind
  <2>7. QED
    BY <2>4, <2>6 DEF p
<1>5. QED
  BY <1>1, <1>2, <1>3, <1>4 DEF AheadByPlace

LEMMA AheadFactsNext == IInv' => AheadByPlace'
BY AheadFacts, PTL

(* A walk that starts has its chain ahead of it.                           *)
LEMMA FirstFacts ==
  ASSUME TypeOK, WellHashed, NEW b \in Slots
  PROVE  /\ First(b) = NULL => OnChain(b) = {}
         /\ First(b) # NULL => OnChain(b) = {First(b)} \cup Behind(b, Position(b, First(b)))
<1>1. hash[b] \in Seq(Node) /\ DOMAIN hash[b] = 1 .. Len(hash[b]) /\ Len(hash[b]) \in Nat
  BY DEF TypeOK
<1>2. CASE hash[b] = <<>>
  BY <1>2 DEF First, OnChain
<1>3. CASE hash[b] # <<>>
  <2>1. 1 \in DOMAIN hash[b] /\ First(b) = hash[b][1] /\ First(b) \in Node
    BY <1>1, <1>3 DEF First
  <2>2. First(b) \in OnChain(b)
    BY <2>1 DEF OnChain
  <2>3. Position(b, First(b)) = 1
    BY <2>1, <2>2, PositionFacts
  <2>4. \A j \in DOMAIN hash[b] : j = 1 \/ j > 1
    BY <1>1
  <2>5. OnChain(b) = {First(b)} \cup Behind(b, 1)
    BY <2>1, <2>4 DEF OnChain, Behind
  <2>6. QED
    BY <2>1, <2>3, <2>5, NullAssumption
<1>4. QED
  BY <1>2, <1>3

(* cb->next is the first node behind cb.                                   *)
LEMMA NextFacts ==
  ASSUME TypeOK, WellHashed, NEW b \in Slots, NEW n \in OnChain(b)
  PROVE  /\ NextOn(b, n) = NULL => Behind(b, Position(b, n)) = {}
         /\ NextOn(b, n) # NULL =>
              Behind(b, Position(b, n)) =
                {NextOn(b, n)} \cup Behind(b, Position(b, NextOn(b, n)))
<1> DEFINE p == Position(b, n)
<1>1. hash[b] \in Seq(Node) /\ DOMAIN hash[b] = 1 .. Len(hash[b]) /\ Len(hash[b]) \in Nat
  BY DEF TypeOK
<1>2. p \in DOMAIN hash[b] /\ p \in Nat
  BY <1>1, PositionFacts
<1>3. CASE p < Len(hash[b])
  <2>1. p + 1 \in DOMAIN hash[b] /\ NextOn(b, n) = hash[b][p + 1] /\ NextOn(b, n) \in Node
    BY <1>1, <1>2, <1>3 DEF NextOn
  <2>2. NextOn(b, n) \in OnChain(b)
    BY <2>1 DEF OnChain
  <2>3. Position(b, NextOn(b, n)) = p + 1
    BY <2>1, <2>2, PositionFacts
  <2> HIDE DEF p
  <2>4. \A j \in DOMAIN hash[b] : j > p <=> j = p + 1 \/ j > p + 1
    BY <1>1, <1>2
  <2>5. Behind(b, p) = {NextOn(b, n)} \cup Behind(b, p + 1)
    BY <2>1, <2>4 DEF Behind
  <2>6. QED
    BY <2>1, <2>3, <2>5, NullAssumption DEF p
<1>4. CASE ~(p < Len(hash[b]))
  <2>1. NextOn(b, n) = NULL
    BY <1>4 DEF NextOn
  <2>2. \A j \in DOMAIN hash[b] : ~(j > p)
    BY <1>1, <1>2, <1>4
  <2> HIDE DEF p
  <2>3. Behind(b, p) = {}
    BY <2>2 DEF Behind
  <2>4. QED
    BY <2>1, <2>3 DEF p
<1>5. QED
  BY <1>3, <1>4

(* A node is not behind itself, nor on a chain that follows.               *)
LEMMA Apart ==
  ASSUME TypeOK, WellHashed, NEW b \in Slots, NEW n \in OnChain(b)
  PROVE  n \notin Behind(b, Position(b, n)) /\ n \notin After(b)
<1> DEFINE p == Position(b, n)
<1>1. n \notin Behind(b, p)
  <2>1. p \in DOMAIN hash[b] /\ \A i \in DOMAIN hash[b] : hash[b][i] = n => i = p
    BY PositionFacts
  <2>2. p \in Nat
    BY <2>1 DEF TypeOK
  <2> HIDE DEF p
  <2>3. QED
    BY <2>1, <2>2 DEF Behind
<1>2. n \notin After(b)
  <2>1. b \in Nat /\ Size \in Nat
    BY TableFacts DEF Slots
  <2>2. \A d \in (b + 1) .. (Size - 1) : d \in Slots /\ d # b
    BY <2>1 DEF Slots
  <2>3. SlotOf(index[n]) = b
    BY DEF WellHashed
  <2>4. QED
    BY <2>2, <2>3 DEF After, WellHashed
<1>3. QED
  BY <1>1, <1>2

(* What a chain that was left alone has behind a position is unchanged.    *)
LEMMA BehindKept ==
  ASSUME UNCHANGED hash
  PROVE  /\ \A b, p : Behind(b, p)' = Behind(b, p)
         /\ \A b, n : Position(b, n)' = Position(b, n)
         /\ \A b : After(b)' = After(b) /\ OnChain(b)' = OnChain(b)
         /\ Linked' = Linked
BY DEF Behind, Position, After, OnChain, Linked

\* What a client of the list sees.
Firing == IF calling THEN op ELSE "none"
Sought == IF calling THEN sel ELSE 0
Inside == IF pc = "callback" THEN cb ELSE NULL

Stutters == UNCHANGED <<alive /\ ~destroyPending, Registered, index, Firing, Sought, Due, Inside>>

\* A list that is not calling owes nothing.
Rests == ~calling => Due = {} /\ Firing = "none" /\ Sought = 0 /\ Inside = NULL

LEMMA AtRest == IInv => Rests
<1>1. IInv /\ ~calling => Ahead = {} /\ pc # "callback"
  BY AheadFacts DEF IInv, Bits, AheadByPlace
<1>2. QED
  BY <1>1 DEF Rests, Due, Firing, Sought, Inside

LEMMA AtRestNext == IInv' => Rests'
BY AtRest, PTL

(* A registration made now is due if the walk still comes to its node.     *)
LEMMA AddPromise ==
  ASSUME IInv, IInv', Course, NEW n \in Node, NEW s \in Selector, Add(n, s)
  PROVE  Promise!Register(n, IndexOf(s))
<1> DEFINE k == IndexOf(s)
           c == SlotOf(k)
<1>1. /\ ClientRuns /\ alive /\ ~destroyPending /\ n \notin Linked
      /\ UNCHANGED <<alive, calling, destroyPending, marked, pc, op, sel, slot, cb>>
      /\ index' = [index EXCEPT ![n] = k]
      /\ hash' = [hash EXCEPT ![c] = Append(@, n)]
  BY DEF Add, walk
<1>2. /\ Linked' = Linked \cup {n}
      /\ n \notin marked /\ n \notin Registered
      /\ Registered' = Registered \cup {n}
  BY <1>1, AddFacts DEF IInv, Registered
<1>3. /\ k \in Nat /\ c \in Slots
      /\ hash \in [Slots -> Seq(Node)] /\ index \in [Node -> Nat]
      /\ index'[n] = k /\ \A m \in Node \ {n} : index'[m] = index[m]
  BY <1>1, TableFacts DEF IInv, TypeOK
<1>4. CASE ~calling
  <2>1. Due = {} /\ Due' = {} /\ Firing = "none" /\ Sought = 0 /\ Inside = NULL
        /\ Firing' = "none" /\ Sought' = 0 /\ Inside' = NULL
    BY <1>1, <1>4, AtRest, AtRestNext DEF Rests
  <2>2. QED
    BY <1>1, <1>2, <2>1 DEF Promise!Register, Promise!ClientRuns, Due, Firing, Sought, Inside
<1>5. CASE calling
  <2>1. pc = "callback" /\ cb # NULL /\ slot \in Slots /\ cb \in OnChain(slot) /\ cb # n
        /\ op \in {"call", "iterate"}
    BY <1>1, <1>5, WalksAssumption
       DEF IInv, Bits, ClientRuns, NoUseAfterFree, TypeOK, Linked, Course, OpIsAWalk
  <2>2. /\ Ahead = Behind(slot, Position(slot, cb)) \cup Later
        /\ Ahead' = Behind(slot, Position(slot, cb))' \cup Later'
    BY <1>1, <1>5, <2>1, AheadFacts, AheadFactsNext DEF AheadByPlace
  <2>3. cb \in OnChain(slot)'
    <3>1. \A b \in Slots : OnChain(b) \subseteq OnChain(b)'
      BY AddFacts DEF IInv
    <3>2. cb \in {hash'[slot][i] : i \in DOMAIN hash'[slot]}
      BY <2>1, <3>1 DEF OnChain
    <3>3. QED
      BY <1>1, <3>2 DEF OnChain
  <2>4. \A b \in Slots : OnChain(b)' = IF b = c THEN OnChain(b) \cup {n} ELSE OnChain(b)
    <3>1. ASSUME NEW b \in Slots, b # c PROVE OnChain(b)' = OnChain(b)
      BY <1>1, <1>3, <3>1 DEF OnChain
    <3>2. OnChain(c)' = OnChain(c) \cup {n}
      <4>1. hash'[c] = Append(hash[c], n) /\ hash[c] \in Seq(Node)
        BY <1>1, <1>3
      <4> HIDE DEF c, k
      <4>2. QED
        BY <4>1, SMTT(40) DEF OnChain
    <3>3. QED
      BY <3>1, <3>2
  <2>5. Behind(slot, Position(slot, cb))' =
          IF slot = c THEN Behind(slot, Position(slot, cb)) \cup {n} ELSE Behind(slot, Position(slot, cb))
    <3> DEFINE p == Position(slot, cb)
    <3>1. p \in DOMAIN hash[slot] /\ hash[slot][p] = cb
      BY <2>1, PositionFacts DEF IInv
    <3>2. CASE slot # c
      <4>1. hash'[slot] = hash[slot]
        BY <1>1, <1>3, <2>1, <3>2
      <4>2. QED
        BY <1>1, <3>2, <4>1 DEF Behind, Position
    <3>3. CASE slot = c
      <4>1. hash'[slot] = Append(hash[slot], n) /\ hash[slot] \in Seq(Node)
        BY <1>1, <1>3, <3>3
      <4>2. /\ Len(hash[slot]) \in Nat /\ DOMAIN hash[slot] = 1 .. Len(hash[slot])
            /\ DOMAIN hash'[slot] = 1 .. Len(hash[slot]) + 1
            /\ hash'[slot][Len(hash[slot]) + 1] = n
            /\ \A i \in 1 .. Len(hash[slot]) : hash'[slot][i] = hash[slot][i]
        BY <4>1
      <4>3. p \in DOMAIN hash'[slot] /\ hash'[slot][p] = cb
        BY <3>1, <4>2
      <4>4. p = Position(slot, cb)'
        BY <1>1, <2>1, <2>3, <4>3, PositionFacts DEF IInv, WellHashed, Position
      <4> HIDE DEF p
      <4>5. Behind(slot, p)' = Behind(slot, p) \cup {n}
        <5> DEFINE L == Len(hash[slot])
        <5>1. \A j : j \in DOMAIN hash'[slot] /\ j > p <=> (j \in DOMAIN hash[slot] /\ j > p) \/ j = L + 1
          BY <3>1, <4>2
        <5> HIDE DEF L
        <5>2. hash'[slot][L + 1] = n /\ \A i \in DOMAIN hash[slot] : hash'[slot][i] = hash[slot][i]
          BY <4>2 DEF L
        <5>3. Behind(slot, p)' = {hash'[slot][i] : i \in {j \in DOMAIN hash'[slot] : j > p}}
          BY <1>1, <4>4 DEF Behind, p
        <5>4. QED
          BY <5>1, <5>2, <5>3 DEF Behind
      <4>6. QED
        BY <1>1, <3>3, <4>4, <4>5 DEF p
    <3>4. QED
      BY <3>2, <3>3
  <2>6. Later' \in {Later, Later \cup {n}}
    <3>1. (slot + 1) .. (Size - 1) \subseteq Slots
      BY <2>1, TableFacts DEF Slots
    <3>2. After(slot)' = IF c \in (slot + 1) .. (Size - 1) THEN After(slot) \cup {n} ELSE After(slot)
      BY <1>1, <2>4, <3>1 DEF After
    <3>3. QED
      BY <1>1, <3>2 DEF Later
  <2>7. Ahead' \in {Ahead, Ahead \cup {n}}
    BY <2>2, <2>5, <2>6
  <2>8. n \notin Due /\ Due' \in {Due, Due \cup {n}}
    <3>1. Registered \subseteq Node
      BY DEF Registered, Linked, OnChain, IInv, TypeOK
    <3>2. QED
      BY <1>1, <1>2, <1>3, <2>7, <3>1 DEF Due
  <2>9. op = "call" => IF k = sel THEN Due' = Due \cup {n} ELSE Due' = Due
    <3> SUFFICES ASSUME op = "call" PROVE IF k = sel THEN Due' = Due \cup {n} ELSE Due' = Due
      OBVIOUS
    <3>1. CASE k = sel
      <4>1. slot = c
        BY <3>1 DEF Course
      <4>2. n \in Due'
        BY <1>1, <1>2, <1>3, <2>2, <2>5, <3>1, <4>1 DEF Due
      <4>3. QED
        BY <2>8, <3>1, <4>2
    <3>2. CASE k # sel
      <4>1. n \notin Due'
        BY <1>1, <1>3, <3>2 DEF Due
      <4>2. QED
        BY <2>8, <3>2, <4>1
    <3>3. QED
      BY <3>1, <3>2
  <2>10. QED
    <3> HIDE DEF k, c
    <3>1. Firing = op /\ Firing' = op /\ Sought = sel /\ Sought' = sel /\ Inside = cb /\ Inside' = cb
      BY <1>1, <1>5, <2>1 DEF Firing, Sought, Inside
    <3>2. \/ (op = "call" => k # sel) /\ Due' = Due
          \/ (op = "call" => k = sel) /\ op # "none" /\ Due' = Due \cup {n}
      BY <2>1, <2>8, <2>9
    <3>3. QED
      BY <1>1, <1>2, <2>1, <3>1, <3>2
         DEF Promise!Register, Promise!ClientRuns, Due, Firing, Sought, Inside, k
<1>6. QED
  BY <1>4, <1>5

(* A registration given up is no longer due; after a destroy nothing is.   *)
LEMMA DeletePromise ==
  ASSUME IInv, IInv', NEW n \in Node, Delete(n)
  PROVE  Promise!Unregister(n) \/ Stutters
<1>1. /\ ClientRuns /\ alive /\ n \in Linked /\ n \notin marked
      /\ UNCHANGED <<alive, calling, destroyPending, index, pc, op, sel, slot, cb>>
  BY DEF Delete, walk
<1>2. Registered' = Registered \ {n}
  <2>1. CASE calling
    <3>1. UNCHANGED hash /\ marked' = marked \cup {n}
      BY <2>1 DEF Delete
    <3>2. QED
      BY <1>1, <3>1, BehindKept DEF Registered
  <2>2. CASE ~calling
    <3>1. Linked' = Linked \ {n} /\ marked' = marked
      BY <1>1, <2>2, UnlinkFacts DEF Delete, IInv
    <3>2. QED
      BY <1>1, <3>1 DEF Registered
  <2>3. QED
    BY <2>1, <2>2
<1>3. Due' = Due \ {n}
  <2>1. CASE calling
    <3>1. UNCHANGED <<hash, slot, cb, pc, op, calling>>
      BY <1>1, <2>1 DEF Delete
    <3>2. Ahead' = Ahead
      BY <3>1 DEF Ahead, Position, OnChain
    <3>3. QED
      BY <1>1, <1>2, <3>2 DEF Due
  <2>2. CASE ~calling
    BY <1>1, <2>2, AtRest, AtRestNext DEF Rests
  <2>3. QED
    BY <2>1, <2>2
<1>4. UNCHANGED <<Firing, Sought, Inside>>
  BY <1>1 DEF Firing, Sought, Inside
<1>5. CASE destroyPending
  <2>1. Registered = {} /\ Registered' = {} /\ Due = {} /\ Due' = {}
    BY <1>1, <1>5 DEF Registered, Due
  <2>2. QED
    BY <1>1, <1>4, <2>1 DEF Stutters
<1>6. CASE ~destroyPending
  <2>1. n \in Registered
    BY <1>1, <1>6 DEF Registered
  <2>2. Firing = "none" \/ Inside # NULL
    BY <1>1 DEF ClientRuns, IInv, Bits, Firing, Inside
  <2>3. QED
    BY <1>1, <1>2, <1>3, <1>4, <2>1, <2>2
       DEF Promise!Unregister, Promise!ClientRuns, Firing, Sought, Inside, Due
<1>7. QED
  BY <1>5, <1>6

(* A destroy closes the list at once, though the nodes may stay a while.   *)
LEMMA DestroyPromise ==
  ASSUME IInv, IInv', Destroy
  PROVE  Promise!Close
<1>1. ClientRuns /\ alive /\ ~destroyPending /\ UNCHANGED <<calling, index, pc, op, sel, slot, cb>>
  BY DEF Destroy, walk
<1>2. ~(alive' /\ ~destroyPending') /\ Registered' = {}
  <2>1. CASE calling
    BY <2>1 DEF Destroy, Registered
  <2>2. CASE ~calling
    BY <2>2, FreedFacts DEF Destroy, FreeList, Registered
  <2>3. QED
    BY <2>1, <2>2
<1>3. Due' = {}
  BY <1>2 DEF Due
<1>4. Firing = "none" \/ Inside # NULL
  BY <1>1 DEF ClientRuns, IInv, Bits, Firing, Inside
<1>5. UNCHANGED <<Firing, Sought, Inside>>
  BY <1>1 DEF Firing, Sought, Inside
<1>6. QED
  BY <1>1, <1>2, <1>3, <1>4, <1>5 DEF Promise!Close, Promise!ClientRuns, Firing, Sought, Inside, Due

LEMMA CreatePromise ==
  ASSUME IInv, IInv', Create
  PROVE  Promise!Open
<1>1. /\ pc = "idle" /\ ~alive /\ alive'
      /\ UNCHANGED <<calling, destroyPending, hash, index, marked, pc, op, sel, slot, cb>>
  BY DEF Create, walk
<1>2. ~calling /\ ~destroyPending
  BY <1>1 DEF IInv, Bits
<1>3. Registered' = Registered
  BY <1>1, BehindKept DEF Registered
<1>4. Rests /\ Rests'
  BY AtRest, AtRestNext
<1>5. QED
  BY <1>1, <1>2, <1>3, <1>4 DEF Promise!Open, Rests, Due, Firing, Sought, Inside

(* A walk starts owing a call to every registration it is about.           *)
LEMMA StartPromise ==
  ASSUME IInv, IInv', NEW o, NEW i \in Nat, NEW b \in Slots, StartWalk(o, i, b)
  PROVE  /\ Firing = "none" /\ Inside = NULL /\ Inside' = NULL
         /\ Firing' = o /\ Sought' = i
         /\ alive /\ ~destroyPending /\ alive' /\ ~destroyPending'
         /\ index' = index /\ Registered' = Registered
         /\ o = "iterate" => Due' = {n \in Registered : n \in OnChain(b) \/ n \in After(b)}
         /\ o # "iterate" => Due' = {n \in Registered : n \in OnChain(b) /\ index[n] = i}
<1>1. /\ pc = "idle" /\ alive /\ ~calling /\ calling' /\ ~destroyPending'
      /\ pc' = "walk" /\ op' = o /\ sel' = i /\ slot' = b /\ cb' = First(b)
      /\ UNCHANGED <<alive, hash, index, marked>>
  BY DEF StartWalk
<1>2. ~destroyPending
  BY <1>1 DEF IInv, Bits
<1>3. Registered' = Registered
  BY <1>1, <1>2, BehindKept DEF Registered
<1>4. Later' = IF o = "iterate" THEN After(b) ELSE {}
  BY <1>1, BehindKept DEF Later, After, OnChain
<1>5. Ahead' = OnChain(b) \cup Later'
  <2>1. CASE First(b) = NULL
    <3>1. OnChain(b) = {}
      BY <2>1, FirstFacts DEF IInv
    <3>2. QED
      BY <1>1, <2>1, <3>1, AheadFactsNext DEF AheadByPlace
  <2>2. CASE First(b) # NULL
    <3>1. OnChain(b) = {First(b)} \cup Behind(b, Position(b, First(b)))
      BY <2>2, FirstFacts DEF IInv
    <3>2. Behind(slot, Position(slot, cb))' = Behind(b, Position(b, First(b)))
      BY <1>1 DEF Behind, Position
    <3>3. QED
      BY <1>1, <2>2, <3>1, <3>2, AheadFactsNext DEF AheadByPlace
  <2>3. QED
    BY <2>1, <2>2
<1>6. QED
  BY <1>1, <1>2, <1>3, <1>4, <1>5 DEF Due, Firing, Sought, Inside

(* A call owes what the hash chain of its selector has, which is all.      *)
LEMMA CallPromise ==
  ASSUME IInv, IInv', NEW s \in Selector, CallCallbacks(s)
  PROVE  Promise!FireCall(IndexOf(s))
<1> DEFINE k == IndexOf(s)
           c == SlotOf(k)
<1>1. k \in Nat /\ c \in Slots /\ StartWalk("call", k, c)
  BY TableFacts DEF CallCallbacks
<1> HIDE DEF k
<1>2. \A n \in Linked : index[n] = k => n \in OnChain(c)
  <2>1. ASSUME NEW n \in Linked, index[n] = k PROVE n \in OnChain(c)
    BY <2>1, FoundWhereHashed DEF IInv
  <2>2. QED
    BY <2>1
<1> HIDE DEF c
<1>3. /\ Firing = "none" /\ Inside = NULL /\ Inside' = NULL
      /\ Firing' = "call" /\ Sought' = k
      /\ alive /\ ~destroyPending /\ alive' /\ ~destroyPending'
      /\ index' = index /\ Registered' = Registered
      /\ "call" # "iterate" =>
           Due' = {n \in Registered : n \in OnChain(c) /\ index[n] = k}
  BY <1>1, StartPromise, Zenon
<1>4. Due' = {n \in Registered : index[n] = k}
  BY <1>2, <1>3 DEF Registered
<1>5. QED
  BY <1>3, <1>4 DEF Promise!FireCall, Firing, Sought, Inside, Due, k

LEMMA IteratePromise ==
  ASSUME IInv, IInv', Iterate
  PROVE  Promise!FireAll
<1>1. /\ Firing = "none" /\ Inside = NULL /\ Inside' = NULL
      /\ Firing' = "iterate" /\ Sought' = 0
      /\ alive /\ ~destroyPending /\ alive' /\ ~destroyPending'
      /\ index' = index /\ Registered' = Registered
      /\ Due' = {n \in Registered : n \in OnChain(0) \/ n \in After(0)}
  BY StartPromise, TableFacts DEF Iterate
<1>2. \A n \in Linked : n \in OnChain(0) \/ n \in After(0)
  <2>1. \A d \in Slots : d = 0 \/ d \in (0 + 1) .. (Size - 1)
    BY TableFacts DEF Slots
  <2>2. QED
    BY <2>1 DEF Linked, After
<1>3. Due' = Registered
  BY <1>1, <1>2 DEF Registered
<1>4. QED
  BY <1>1, <1>3 DEF Promise!FireAll, Firing, Sought, Inside, Due

\* The refinement is about lists whose registrations are matched by their
\* index: one with a task_proc is not called.
Matched == HasTask => "call" \notin Walks

\* The library is between two nodes, and the list is there.
LEMMA WalkingFacts ==
  ASSUME IInv, Course, pc \in {"walk", "callback"}
  PROVE  /\ calling /\ alive /\ op \in {"call", "iterate"} /\ slot \in Slots
         /\ pc = "walk" => ~destroyPending
         /\ cb # NULL => cb \in OnChain(slot) /\ cb \in Linked
                         /\ cb \notin Behind(slot, Position(slot, cb)) /\ cb \notin Later
<1>1. /\ calling /\ alive /\ op \in {"call", "iterate"} /\ slot \in Slots
      /\ pc = "walk" => ~destroyPending
      /\ cb # NULL => cb \in OnChain(slot)
  BY WalksAssumption DEF IInv, Bits, NoUseAfterFree, TypeOK, Course, OpIsAWalk
<1>2. QED
  BY <1>1, Apart DEF IInv, Linked, Later

(* A node that is called was due, and is due no more.                      *)
LEMMA InvokePromise ==
  ASSUME Matched, IInv, IInv', Course, Invoke, NEW n, n = cb
  PROVE  Promise!Call(n)
<1>1. /\ pc = "walk" /\ cb # NULL /\ Wanted(cb) /\ cb \notin marked /\ pc' = "callback"
      /\ UNCHANGED <<alive, calling, destroyPending, hash, index, marked, op, sel, slot, cb>>
  BY DEF Invoke, list
<1>2. /\ calling /\ alive /\ ~destroyPending /\ cb \in Linked
      /\ cb \notin Behind(slot, Position(slot, cb)) /\ cb \notin Later
  BY <1>1, WalkingFacts
<1>3. Ahead = {cb} \cup Behind(slot, Position(slot, cb)) \cup Later
  BY <1>1, <1>2, AheadFacts DEF AheadByPlace
<1>4. Ahead' = Behind(slot, Position(slot, cb)) \cup Later
  <2>1. Behind(slot, Position(slot, cb))' = Behind(slot, Position(slot, cb)) /\ Later' = Later
    BY <1>1 DEF Behind, Position, Later, After, OnChain
  <2>2. QED
    BY <1>1, <1>2, <2>1, AheadFactsNext DEF AheadByPlace
<1>5. Registered' = Registered /\ cb \in Registered
  BY <1>1, <1>2, BehindKept DEF Registered
<1>6. op = "iterate" \/ index[cb] = sel
  BY <1>1, WalkingFacts DEF Wanted, Matched, Course, OpIsAWalk
<1>7. cb \in Due /\ Due' = Due \ {cb}
  BY <1>1, <1>2, <1>3, <1>4, <1>5, <1>6 DEF Due
<1>8. QED
  BY <1>1, <1>5, <1>7 DEF Promise!Call, Firing, Sought, Inside, Due

(* cb = cb->next leaves cb behind and everything else ahead.               *)
LEMMA AdvanceFacts ==
  ASSUME IInv, IInv', Course, pc \in {"walk", "callback"}, cb # NULL, Advance
  PROVE  /\ UNCHANGED <<alive, destroyPending, index, Registered, Firing, Sought>>
         /\ alive /\ ~destroyPending
         /\ Inside' = NULL
         /\ Due' = Due \ {cb}
<1>1. /\ ~destroyPending /\ pc' = "walk" /\ cb' = NextOn(slot, cb)
      /\ UNCHANGED <<alive, calling, destroyPending, hash, index, marked, op, sel, slot>>
  BY DEF Advance, list
<1>2. /\ calling /\ alive /\ slot \in Slots /\ cb \in OnChain(slot)
      /\ cb \notin Behind(slot, Position(slot, cb)) /\ cb \notin Later
  BY WalkingFacts
<1>3. Ahead \ {cb} = Behind(slot, Position(slot, cb)) \cup Later
  BY <1>2, AheadFacts DEF AheadByPlace
<1>4. Later' = Later
  BY <1>1 DEF Later, After, OnChain
<1>5. Ahead' = Behind(slot, Position(slot, cb)) \cup Later
  <2>1. CASE cb' = NULL
    <3>1. Behind(slot, Position(slot, cb)) = {}
      BY <1>1, <1>2, <2>1, NextFacts DEF IInv
    <3>2. QED
      BY <1>1, <1>2, <1>4, <2>1, <3>1, AheadFactsNext DEF AheadByPlace
  <2>2. CASE cb' # NULL
    <3>1. Behind(slot, Position(slot, cb)) = {cb'} \cup Behind(slot, Position(slot, cb'))
      BY <1>1, <1>2, <2>2, NextFacts DEF IInv
    <3>2. Behind(slot, Position(slot, cb))' = Behind(slot, Position(slot, cb'))
      BY <1>1 DEF Behind, Position
    <3>3. QED
      BY <1>1, <1>2, <1>4, <2>2, <3>1, <3>2, AheadFactsNext DEF AheadByPlace
  <2>3. QED
    BY <2>1, <2>2
<1>6. Registered' = Registered
  BY <1>1, BehindKept DEF Registered
<1>7. Due' = Due \ {cb}
  BY <1>1, <1>3, <1>5, <1>6 DEF Due
<1>8. QED
  BY <1>1, <1>2, <1>6, <1>7 DEF Firing, Sought, Inside

(* A node passed by was not due, or the task_proc declined the call.       *)
LEMMA SkipPromise ==
  ASSUME Matched, IInv, IInv', Course, Skip, NEW n, n = cb
  PROVE  Promise!Decline(n) \/ Stutters
<1>1. pc = "walk" /\ cb # NULL /\ (HasTask \/ cb \in marked \/ ~Wanted(cb)) /\ Advance
  BY DEF Skip
<1>2. /\ UNCHANGED <<alive, destroyPending, index, Registered, Firing, Sought>>
      /\ Inside' = NULL /\ Due' = Due \ {cb}
  BY <1>1, AdvanceFacts
<1>3. Inside = NULL
  BY <1>1 DEF Inside
<1>4. CASE cb \in Due
  <2>1. HasTask
    BY <1>1, <1>4 DEF Due, Registered, Wanted
  <2>2. QED
    BY <1>2, <1>3, <1>4, <2>1 DEF Promise!Decline, Firing, Sought, Inside, Due
<1>5. CASE cb \notin Due
  BY <1>2, <1>3, <1>5 DEF Stutters
<1>6. QED
  BY <1>4, <1>5

(* A callback returns; what it left due is due.                            *)
LEMMA ReturnPromise ==
  ASSUME IInv, IInv', Course, Return
  PROVE  Promise!CallReturns
<1>1. pc = "callback" /\ cb # NULL /\ Advance
  BY DEF Return, IInv, Bits
<1>2. /\ UNCHANGED <<alive, destroyPending, index, Registered, Firing, Sought>>
      /\ alive /\ ~destroyPending /\ Inside' = NULL /\ Due' = Due \ {cb}
  BY <1>1, AdvanceFacts
<1>3. cb \notin Due
  <2>1. Ahead = Behind(slot, Position(slot, cb)) \cup Later
    BY <1>1, WalkingFacts, AheadFacts DEF AheadByPlace
  <2>2. QED
    BY <1>1, <2>1, WalkingFacts DEF Due
<1>4. Inside # NULL
  BY <1>1 DEF Inside
<1>5. QED
  BY <1>2, <1>3, <1>4 DEF Promise!CallReturns, Firing, Sought, Inside, Due

(* A destroyed list is left when the callback that destroyed it returns.   *)
LEMMA AbandonPromise ==
  ASSUME IInv, IInv', Course, ReturnToDestroyed
  PROVE  Promise!Abandon
<1>1. pc = "callback" /\ destroyPending /\ ~calling' /\ FreeList /\ index' = index
  BY DEF ReturnToDestroyed
<1>2. Firing # "none"
  BY <1>1, WalkingFacts DEF Firing
<1>3. Registered = {} /\ Due = {}
  BY <1>1 DEF Registered, Due
<1>4. ~alive' /\ Registered' = {}
  BY <1>1, FreedFacts DEF FreeList, Registered
<1>5. Due' = {} /\ Firing' = "none" /\ Sought' = 0 /\ Inside' = NULL
  BY <1>1, AtRestNext DEF Rests
<1>6. QED
  BY <1>1, <1>2, <1>3, <1>4, <1>5 DEF Promise!Abandon, Firing, Sought, Inside, Due

(* Between two chains nothing that is due is passed by.                    *)
LEMMA NextSlotPromise ==
  ASSUME IInv, IInv', Course, NextSlot
  PROVE  Stutters
<1>1. /\ pc = "walk" /\ cb = NULL /\ op = "iterate" /\ slot < Size - 1
      /\ slot' = slot + 1 /\ cb' = First(slot + 1)
      /\ UNCHANGED <<alive, calling, destroyPending, hash, index, marked, pc, op, sel>>
  BY DEF NextSlot, list
<1>2. calling /\ slot + 1 \in Slots
  BY <1>1, TableFacts DEF IInv, Bits, TypeOK, Slots
<1>3. Later = OnChain(slot + 1) \cup After(slot + 1)
  <2>1. slot \in Nat /\ Size \in Nat /\ slot + 1 \in Nat
    BY TableFacts DEF IInv, TypeOK, Slots
  <2>2. (slot + 1) .. (Size - 1) = {slot + 1} \cup (slot + 1 + 1) .. (Size - 1)
    BY <1>1, <2>1
  <2>3. QED
    BY <1>1, <2>2 DEF Later, After
<1>4. Later' = After(slot + 1)
  BY <1>1 DEF Later, After, OnChain
<1>5. Ahead' = OnChain(slot + 1) \cup After(slot + 1)
  <2>1. CASE First(slot + 1) = NULL
    <3>1. OnChain(slot + 1) = {}
      BY <1>2, <2>1, FirstFacts DEF IInv
    <3>2. QED
      BY <1>1, <1>2, <1>4, <2>1, <3>1, AheadFactsNext DEF AheadByPlace
  <2>2. CASE First(slot + 1) # NULL
    <3>1. OnChain(slot + 1) = {cb'} \cup Behind(slot + 1, Position(slot + 1, cb'))
      BY <1>1, <1>2, <2>2, FirstFacts DEF IInv
    <3>2. Behind(slot, Position(slot, cb))' = Behind(slot + 1, Position(slot + 1, cb'))
      BY <1>1 DEF Behind, Position
    <3>3. QED
      BY <1>1, <1>2, <1>4, <2>2, <3>1, <3>2, AheadFactsNext DEF AheadByPlace
  <2>3. QED
    BY <2>1, <2>2
<1>6. Ahead = Ahead'
  BY <1>1, <1>2, <1>3, <1>5, AheadFacts DEF AheadByPlace
<1>7. Registered' = Registered
  BY <1>1, BehindKept DEF Registered
<1>8. QED
  BY <1>1, <1>6, <1>7 DEF Stutters, Due, Firing, Sought, Inside

(* A walk that has come to its end owes nothing.                           *)
LEMMA EndPromise ==
  ASSUME IInv, IInv', Course, EndWalk
  PROVE  Promise!EndFiring
<1>1. /\ pc = "walk" /\ cb = NULL /\ (op = "call" \/ slot = Size - 1) /\ ~calling'
      /\ UNCHANGED <<alive, destroyPending, hash, index, marked>>
  BY DEF EndWalk
<1>2. calling /\ Firing # "none" /\ Inside = NULL
  BY <1>1, WalkingFacts DEF Firing, Inside
<1>3. Later = {}
  <2>1. slot = Size - 1 => (slot + 1) .. (Size - 1) = {}
    BY TableFacts DEF IInv, TypeOK, Slots
  <2>2. QED
    BY <1>1, <2>1 DEF Later, After
<1>4. Due = {}
  BY <1>1, <1>2, <1>3, AheadFacts DEF AheadByPlace, Due
<1>5. Registered' = Registered
  BY <1>1, BehindKept DEF Registered
<1>6. Due' = {} /\ Firing' = "none" /\ Sought' = 0 /\ Inside' = NULL
  BY <1>1, AtRestNext DEF Rests
<1>7. QED
  BY <1>1, <1>2, <1>4, <1>5, <1>6 DEF Promise!EndFiring, Firing, Sought, Inside, Due

(* Nobody outside sees the sweep.                                          *)
LEMMA SweepPromise ==
  ASSUME IInv, IInv', (\E n \in Node : Sweep(n)) \/ EndSweep
  PROVE  Stutters
<1>1. pc = "sweep" /\ UNCHANGED <<alive, calling, destroyPending, index>>
  BY DEF Sweep, EndSweep, list
<1>2. ~calling
  BY <1>1 DEF IInv, Bits
<1>3. Registered' = Registered
  <2>1. ASSUME NEW n \in Node, Sweep(n) PROVE Registered' = Registered
    <3>1. n \in Linked /\ n \in marked /\ Unlink(n) /\ marked' = marked \ {n}
      BY <2>1 DEF Sweep, Doomed
    <3>2. Linked' = Linked \ {n}
      BY <1>1, <3>1, UnlinkFacts DEF IInv
    <3>3. QED
      BY <1>1, <3>1, <3>2 DEF Registered
  <2>2. ASSUME EndSweep PROVE Registered' = Registered
    BY <2>2, BehindKept DEF EndSweep, list, Registered
  <2>3. QED
    BY <2>1, <2>2
<1>4. Rests /\ Rests'
  BY AtRest, AtRestNext
<1>5. QED
  BY <1>1, <1>2, <1>3, <1>4 DEF Stutters, Rests

LEMMA InitPromise == Init => Promise!Init
<1> SUFFICES ASSUME Init PROVE Promise!Init
  OBVIOUS
<1>1. \A b \in Slots : OnChain(b) = {}
  BY DEF Init, Empty, OnChain
<1>2. Registered = {} /\ Due = {}
  BY <1>1 DEF Registered, Linked, Due
<1>3. QED
  BY <1>2 DEF Init, Promise!Init, Due

LEMMA NextPromise ==
  ASSUME Matched
  PROVE  IInv /\ IInv' /\ Course /\ [Next]_vars => Promise!Next \/ Stutters
<1> SUFFICES ASSUME IInv, IInv', Course, [Next]_vars PROVE Promise!Next \/ Stutters
  OBVIOUS
<1>1. CASE UNCHANGED vars
  BY <1>1 DEF vars, list, walk, Stutters, Registered, Linked, Due, Ahead, Position, OnChain,
              Firing, Sought, Inside
<1>2. CASE Client
  <2>1. ASSUME NEW n \in Node, NEW s \in Selector, Add(n, s) PROVE Promise!Next
    <3>1. Promise!Register(n, IndexOf(s)) /\ IndexOf(s) \in {IndexOf(t) : t \in Selector}
      BY <2>1, AddPromise
    <3>2. QED
      BY <3>1 DEF Promise!Next
  <2>2. ASSUME NEW n \in Node, Delete(n) PROVE Promise!Next \/ Stutters
    BY <2>2, DeletePromise DEF Promise!Next
  <2>3. ASSUME NEW s \in Selector, CallCallbacks(s) PROVE Promise!Next
    <3>1. Promise!FireCall(IndexOf(s)) /\ IndexOf(s) \in {IndexOf(t) : t \in Selector}
      BY <2>3, CallPromise
    <3>2. QED
      BY <3>1 DEF Promise!Next
  <2>4. ASSUME Create \/ Destroy \/ Iterate PROVE Promise!Next
    BY <2>4, CreatePromise, DestroyPromise, IteratePromise DEF Promise!Next
  <2>5. QED
    BY <1>2, <2>1, <2>2, <2>3, <2>4 DEF Client
<1>3. CASE Walking
  <2>1. ASSUME Invoke \/ Skip PROVE Promise!Next \/ Stutters
    <3>1. PICK n \in Node : n = cb
      BY <2>1 DEF Invoke, Skip, IInv, TypeOK
    <3>2. Promise!Call(n) \/ Promise!Decline(n) \/ Stutters
      BY <2>1, <3>1, InvokePromise, SkipPromise
    <3>3. QED
      BY <3>1, <3>2 DEF Promise!Next
  <2>2. ASSUME Return \/ ReturnToDestroyed \/ EndWalk PROVE Promise!Next
    BY <2>2, ReturnPromise, AbandonPromise, EndPromise DEF Promise!Next
  <2>3. ASSUME NextSlot \/ (\E n \in Node : Sweep(n)) \/ EndSweep PROVE Stutters
    BY <2>3, NextSlotPromise, SweepPromise
  <2>4. QED
    BY <1>3, <2>1, <2>2, <2>3 DEF Walking
<1>4. QED
  BY <1>1, <1>2, <1>3 DEF Next

(* A callback list implements the debts of CallbackPromise: every matching *)
(* registration is called once, those made by callbacks included, none     *)
(* after it was given up, and chains, marks and sweeps cannot be seen.     *)
THEOREM CallbacksKeepPromise ==
  ASSUME HasTask => "call" \notin Walks
  PROVE  Spec => KeepsPromise
<1>1. IInv /\ IInv' /\ Course /\ [Next]_vars
      => [Promise!Next]_<<alive /\ ~destroyPending, Registered, index, Firing, Sought, Due, Inside>>
  BY NextPromise DEF Matched, Stutters
<1>2. [Promise!Next]_<<alive /\ ~destroyPending, Registered, index, Firing, Sought, Due, Inside>>
      => [Promise!Next]_(Promise!vars)
  BY DEF Promise!vars, Firing, Sought, Due, Inside
<1>3. QED
  BY <1>1, <1>2, InitPromise, Invariance, CourseInvariance, PTL
     DEF Spec, KeepsPromise, Promise!Spec

=============================================================================
