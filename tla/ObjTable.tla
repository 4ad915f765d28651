------------------------------ MODULE ObjTable ------------------------------
(***************************************************************************)
(* The object registry of the NCL interpreter, src/ni/src/ncl/NclData.c:   *)
(* every object is known to the others by an id, which the static table    *)
(* objs maps to its address.                                               *)
(*                                                                         *)
(* A slot of objs holds its first entry inline and the others on a chain;  *)
(* an inline entry with id -1 is empty.  Ids are handed out by a counter   *)
(* that starts again at RECYCLE_START_ID when it reaches MAX_ID; from then *)
(* on (recycled) the ids of living objects are passed over.                *)
(***************************************************************************)
EXTENDS Integers, Sequences

CONSTANTS Obj,            \* the addresses objects are allocated at
          NULL,           \* the null pointer
          TableSize,      \* OBJ_LIST_START_SIZE
          RecycleStart,   \* RECYCLE_START_ID
          MaxId,          \* MAX_ID
          IntMax          \* INT_MAX: beyond it the counter is undefined

ASSUME NullAssumption == NULL \notin Obj
ASSUME TableSizeAssumption == TableSize \in Nat \ {0}
ASSUME IdAssumption ==
  /\ RecycleStart \in Nat /\ MaxId \in Nat /\ IntMax \in Nat
  /\ RecycleStart < MaxId /\ MaxId <= IntMax

VARIABLES objs,       \* the table
          currentId,  \* the id handed out next
          recycled,   \* the counter has started again
          id,         \* the obj.id of each object, -1 before and after its life
          stale       \* history: the ids the counter has passed that were given back

vars == <<objs, currentId, recycled, id, stale>>

Slots == 0 .. TableSize - 1
NoId == -1
FATAL == -4    \* NhlFATAL, which a failed registration returns as the id

SlotOf(i) == i % TableSize

Entry(i, o) == [id |-> i, obj |-> o]

EmptySlot == [first |-> Entry(NoId, NULL), next |-> <<>>]

\* find_in_list: the first entry of a chain with this id.
Find(chain, i) ==
  IF \E k \in DOMAIN chain : chain[k].id = i
  THEN chain[CHOOSE k \in DOMAIN chain :
               chain[k].id = i /\ \A j \in 1 .. k - 1 : chain[j].id # i].obj
  ELSE NULL

\* _NclGetObj.
GetObj(i) ==
  LET slot == objs[SlotOf(i)]
  IN  IF slot.first.id = i THEN slot.first.obj ELSE Find(slot.next, i)

\* The ids at which the table has an object.
Ids == {i \in 0 .. IntMax : GetObj(i) # NULL}

Alive(o) == id[o] \in Nat

Init ==
  /\ objs = [s \in Slots |-> EmptySlot]
  /\ currentId = 0
  /\ recycled = FALSE
  /\ id = [o \in Obj |-> NoId]
  /\ stale = {}

-----------------------------------------------------------------------------
(* _NclRegisterObj *)

\* Faulty: the ids of living objects are not passed over.
PassOver_None(i) == i = currentId

\* The id at which the search for a free one stops.
PassOver(i) ==
  IF recycled
  THEN /\ i >= currentId /\ GetObj(i) = NULL
       /\ \A j \in currentId .. i - 1 : GetObj(j) # NULL
  ELSE i = currentId

\* The test for an id that is already in use: the last entry of the chain is
\* not looked at.
Duplicate(i) ==
  LET slot == objs[SlotOf(i)]
  IN  \/ slot.first.id = i
      \/ /\ slot.first.id # NoId
         /\ \E k \in 1 .. Len(slot.next) - 1 : slot.next[k].id = i

\* Faulty: a full slot gets a new chain.
Insert_NewChain(slot, e) ==
  IF slot.first.id = NoId
  THEN [slot EXCEPT !.first = e]
  ELSE [slot EXCEPT !.next = <<e>>]

Insert(slot, e) ==
  IF slot.first.id = NoId
  THEN [slot EXCEPT !.first = e]
  ELSE [slot EXCEPT !.next = Append(@, e)]

\* Does the counter start again after handing out i?
Wraps(i) == i + 1 = MaxId

\* _NclObjCreate registers the object it has initialised.
Register(o) ==
  \E i \in currentId .. IntMax - 1 :
    /\ id[o] = NoId
    /\ PassOver(i)
    /\ IF Duplicate(i)
       THEN /\ id' = [id EXCEPT ![o] = FATAL]
            /\ currentId' = i
            /\ UNCHANGED <<objs, recycled, stale>>
       ELSE /\ id' = [id EXCEPT ![o] = i]
            /\ objs' = [objs EXCEPT ![SlotOf(i)] = Insert(@, Entry(i, o))]
            /\ currentId' = IF Wraps(i) THEN RecycleStart ELSE i + 1
            /\ recycled' = (recycled \/ Wraps(i))
            /\ stale' = IF Wraps(i) THEN {} ELSE stale

-----------------------------------------------------------------------------
(* _NclUnRegisterObj *)

\* Faulty: the search starts one entry late.
Drop_LateStart(chain, i) ==
  SelectSeq(chain, LAMBDA e : e.id # i \/ e = chain[1])

\* The chain without its first entry for this id.
Drop(chain, i) ==
  IF \E k \in DOMAIN chain : chain[k].id = i
  THEN LET k == CHOOSE k \in DOMAIN chain :
                  chain[k].id = i /\ \A j \in 1 .. k - 1 : chain[j].id # i
       IN  SubSeq(chain, 1, k - 1) \o SubSeq(chain, k + 1, Len(chain))
  ELSE chain

\* Faulty: the inline entry is emptied and its chain left behind it.
Remove_LeaveChain(slot, i) ==
  IF slot.first.id = NoId THEN slot
  ELSE IF slot.first.id = i THEN [slot EXCEPT !.first = Entry(NoId, NULL)]
  ELSE [slot EXCEPT !.next = Drop(@, i)]

\* The slot without id i: the first entry of the chain moves into the slot.
Remove(slot, i) ==
  IF slot.first.id = NoId THEN slot
  ELSE IF slot.first.id = i
  THEN IF slot.next = <<>> THEN EmptySlot
       ELSE [first |-> slot.next[1], next |-> Tail(slot.next)]
  ELSE [slot EXCEPT !.next = Drop(@, i)]

\* Faulty: the counter takes back the id it handed out last.
UnRegister_GiveBack(o) ==
  /\ Alive(o)
  /\ objs' = [objs EXCEPT ![SlotOf(id[o])] = Remove(@, id[o])]
  /\ id' = [id EXCEPT ![o] = NoId]
  /\ stale' = IF id[o] < currentId THEN stale \cup {id[o]} ELSE stale
  /\ currentId' = IF id[o] = currentId - 1 THEN id[o] ELSE currentId
  /\ UNCHANGED recycled

\* The destructor of an object unregisters it and frees it.
UnRegister(o) ==
  /\ Alive(o)
  /\ objs' = [objs EXCEPT ![SlotOf(id[o])] = Remove(@, id[o])]
  /\ id' = [id EXCEPT ![o] = NoId]
  /\ stale' = IF id[o] < currentId THEN stale \cup {id[o]} ELSE stale
  /\ UNCHANGED <<currentId, recycled>>

Next == \E o \in Obj : Register(o) \/ UnRegister(o)

Spec == Init /\ [][Next]_vars

-----------------------------------------------------------------------------
Entries == [id : Nat, obj : Obj]

\* A slot with an empty inline entry has no chain: _NclUnRegisterObj looks no
\* further.
SlotType == {EmptySlot} \cup [first : Entries, next : Seq(Entries)]

TypeOK ==
  /\ objs \in [Slots -> SlotType]
  /\ currentId \in Nat /\ (recycled => currentId >= RecycleStart)
  /\ recycled \in BOOLEAN
  /\ id \in [Obj -> (0 .. IntMax - 1) \cup {NoId, FATAL}]
  /\ stale \subseteq Nat

\* Whatever was unregistered around it, a living object is found under its id,
\* and so no two living objects share one.
Findable == \A o \in Obj : Alive(o) => GetObj(id[o]) = o

\* The internal error of _NclRegisterObj ("invalid duplication of object id")
\* is never reported, though its test does not look at every entry.
NoInternalError == \A o \in Obj : id[o] # FATAL

\* Until the counter starts again, an id that was given back behind it leads
\* nowhere: who kept it finds NULL and not another object.
StaleIdsFindNothing == stale \cap Ids = {}

\* The entries of a slot, and that no two of them have the same id.
Content(slot) ==
  (IF slot.first.id = NoId THEN {} ELSE {slot.first})
    \cup {slot.next[k] : k \in DOMAIN slot.next}

Distinct(slot) ==
  /\ \A k \in DOMAIN slot.next : slot.next[k].id # slot.first.id
  /\ \A j, k \in DOMAIN slot.next : slot.next[j].id = slot.next[k].id => j = k

\* The inductive invariant: the table and the objects agree, and before the
\* counter has started again it is ahead of every id.
EntriesTrue ==
  \A s \in Slots :
    /\ Distinct(objs[s])
    /\ \A e \in Content(objs[s]) : SlotOf(e.id) = s /\ id[e.obj] = e.id

ObjectsEntered ==
  \A o \in Obj : Alive(o) => Entry(id[o], o) \in Content(objs[SlotOf(id[o])])

CounterAhead == ~recycled => \A o \in Obj : Alive(o) => id[o] < currentId

StaleBehind == \A i \in stale : i < currentId /\ \A o \in Obj : id[o] # i

IInv ==
  /\ TypeOK /\ EntriesTrue /\ ObjectsEntered
  /\ CounterAhead /\ NoInternalError /\ StaleBehind

\* The ids in use and what a look-up finds under them.
Mapping == [i \in Ids |-> GetObj(i)]

\* The registry is the map its users take it for.
Map == INSTANCE IdMap WITH Id <- 0 .. IntMax, map <- Mapping

IsMap == Map!Spec
=============================================================================
