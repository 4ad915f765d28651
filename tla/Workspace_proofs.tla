-------------------------- MODULE Workspace_proofs --------------------------
(***************************************************************************)
(* Proofs about Workspace, for every set of sizes, limits and views, every *)
(* pool and any number of workspaces: its types, IdleListExact, PoolSound  *)
(* and MapWhole.                                                           *)
(*                                                                         *)
(* What storage is given up depends on sums of sizes.  The proofs of this  *)
(* module need only that it is storage of idle workspaces; Workspace_space *)
(* adds the sums.                                                          *)
(***************************************************************************)
EXTENDS Workspace, TLAPS

Fields == {"ws", "idle", "slots", "free", "total_size", "maximum_size",
           "threshold_size", "last_ws_id", "ret"}

\* The manager by itself: its records, its idle list and the pool.
RecordsSound(s) ==
  /\ Fields \subseteq DOMAIN s
  /\ s.ws \in [DOMAIN s.ws -> Records]
  /\ s.last_ws_id \in Nat /\ DOMAIN s.ws \subseteq 1 .. s.last_ws_id
  /\ \A w \in DOMAIN s.ws : s.ws[w].data_intact => s.ws[w].ws_ptr

IdleSound(s) ==
  /\ s.idle \in Seq(Nat) /\ IsInjective(s.idle)
  /\ \A w \in Range(s.idle) : w \in DOMAIN s.ws /\ ~s.ws[w].in_use
  /\ \A w \in DOMAIN s.ws : s.ws[w].ws_ptr /\ ~s.ws[w].in_use => w \in Range(s.idle)

PoolExact(s) ==
  /\ s.slots \in Nat /\ s.free \in Nat
  /\ s.free + Len(s.idle) = s.slots

Sound(s) == RecordsSound(s) /\ IdleSound(s) /\ PoolExact(s)

\* From s to r, the workspaces but w are there as before, unless idle ones were given up.
OthersKept(s, r, w) ==
  \A v \in DOMAIN s.ws \ {w} :
    /\ v \in DOMAIN r.ws
    /\ \/ r.ws[v] = s.ws[v]
       \/ ~s.ws[v].in_use /\ r.ws[v] = Emptied(s.ws[v])

\* The same record but for its size.
SizeOnly(r, new) == \E size \in Nat \ {0} : new = [r EXCEPT !.cur_size = size]

\* The record of a workspace that was given back.
Idled(r, size) ==
  [r EXCEPT !.cur_size = size, !.in_use = FALSE, !.data_intact = TRUE]

\* A workspace that was lent, of a given owner.
Lent(w, owner) ==
  /\ w \in Ids /\ wsp.ws[w].owner = owner
  /\ wsp.ws[w].in_use /\ wsp.ws[w].ws_ptr

MapRecord ==
  [phase : {"none", "off", "arinam", "mplnam", "draw", "idle"}, what : {"fill", "grid"},
   view : Views, aws_id : Int, aws : Int, new_amap_req : BOOLEAN, failed : BOOLEAN]

\* The clients hold what they were lent.
ClientsSound ==
  /\ \A w \in held : Lent(w, "plot")
  /\ map \in MapRecord
  /\ map.aws_id # NoId => map.aws_id \in Ids /\ wsp.ws[map.aws_id].owner = "map"
  /\ Drawing => Lent(map.aws, "map")

\* The area map a draw starts from, and the one it may start from the next time.
AreaMapKept ==
  /\ map.phase \in {"draw", "idle"} /\ ~map.failed =>
       map.aws_id = map.aws /\ wsp.ws[map.aws].content = map.view
  /\ map.phase = "off" /\ map.aws_id # NoId /\ wsp.ws[map.aws_id].data_intact
     /\ ~map.new_amap_req /\ ~map.failed =>
       wsp.ws[map.aws_id].content = map.view

IInv == Sound(wsp) /\ ClientsSound /\ AreaMapKept

-----------------------------------------------------------------------------
(* The idle list *)

\* Where the elements come from when one is taken out.
LEMMA RemoveFirstAt ==
  ASSUME NEW S, NEW s \in Seq(S), IsInjective(s), NEW e \in Range(s)
  PROVE  /\ RemoveFirst(s, e) \in Seq(S)
         /\ Len(RemoveFirst(s, e)) = Len(s) - 1
         /\ \E p \in 1 .. Len(s) :
              /\ s[p] = e
              /\ \A j \in 1 .. Len(s) - 1 :
                   RemoveFirst(s, e)[j] = IF j < p THEN s[j] ELSE s[j + 1]
<1> DEFINE I == {i \in 1 .. Len(s) : s[i] = e}
<1>1. PICK p \in 1 .. Len(s) : s[p] = e
  BY DEF Range
<1>2. I = {p}
  BY <1>1 DEF IsInjective
<1>3. Min(I) = p
  <2>1. p \in I /\ \A y \in I : p <= y
    BY <1>1, <1>2
  <2>2. \A x \in I : x = p
    BY <1>2
  <2> HIDE DEF I
  <2> QED BY <2>1, <2>2 DEF Min
<1> DEFINE a == SubSeq(s, 1, p - 1)
           b == SubSeq(s, p + 1, Len(s))
<1> DEFINE r == a \o b
<1>4. RemoveFirst(s, e) = r
  BY <1>1, <1>2, <1>3 DEF RemoveFirst, RemoveAt, SelectInSeq
<1>5. a \in Seq(S) /\ Len(a) = p - 1 /\ \A j \in 1 .. p - 1 : a[j] = s[j]
  OBVIOUS
<1>6. b \in Seq(S) /\ Len(b) = Len(s) - p /\ \A j \in 1 .. Len(s) - p : b[j] = s[p + j]
  OBVIOUS
<1>7. Len(s) \in Nat /\ p \in 1 .. Len(s)
  OBVIOUS
<1> HIDE DEF a, b, I
<1>8. r \in Seq(S) /\ Len(r) = Len(s) - 1
  <2>1. a \o b \in Seq(S) /\ Len(a \o b) = Len(a) + Len(b)
    <3>1. a \in Seq(S) /\ b \in Seq(S)
      BY <1>5, <1>6
    <3> QED BY <3>1
  <2>2. Len(a) + Len(b) = Len(s) - 1
    BY <1>5, <1>6, <1>7
  <2> QED BY <2>1, <2>2
<1>9. \A j \in 1 .. Len(s) - 1 : r[j] = IF j < p THEN s[j] ELSE s[j + 1]
  BY <1>5, <1>6, <1>7 DEF r
<1> HIDE DEF r
<1> QED BY <1>1, <1>4, <1>8, <1>9

LEMMA RemoveFirstFacts ==
  ASSUME NEW S, NEW s \in Seq(S), IsInjective(s), NEW e \in Range(s)
  PROVE  /\ RemoveFirst(s, e) \in Seq(S)
         /\ Len(RemoveFirst(s, e)) = Len(s) - 1
         /\ IsInjective(RemoveFirst(s, e))
         /\ Range(RemoveFirst(s, e)) = Range(s) \ {e}
<1> DEFINE r == RemoveFirst(s, e)
<1>1. r \in Seq(S) /\ Len(r) = Len(s) - 1
  BY RemoveFirstAt
<1>2. PICK p \in 1 .. Len(s) :
        s[p] = e /\ \A j \in 1 .. Len(s) - 1 : r[j] = IF j < p THEN s[j] ELSE s[j + 1]
  BY RemoveFirstAt
<1>3. Len(s) \in Nat /\ p \in 1 .. Len(s)
  OBVIOUS
<1>4. \A j \in 1 .. Len(s) - 1 : r[j] = IF j < p THEN s[j] ELSE s[j + 1]
  BY <1>2
<1> HIDE DEF r
<1>5. DOMAIN r = 1 .. Len(s) - 1 /\ DOMAIN s = 1 .. Len(s)
  BY <1>1
<1>6. IsInjective(r)
  <2> SUFFICES ASSUME NEW i \in DOMAIN r, NEW j \in DOMAIN r, r[i] = r[j] PROVE i = j
    BY DEF IsInjective
  <2> DEFINE At(k) == IF k < p THEN k ELSE k + 1
  <2>1. At(i) \in DOMAIN s /\ At(j) \in DOMAIN s /\ s[At(i)] = s[At(j)]
    BY <1>3, <1>4, <1>5
  <2>2. At(i) = At(j)
    BY <2>1 DEF IsInjective
  <2> QED BY <1>3, <1>5, <2>2
<1>7. \A j \in DOMAIN r : r[j] \in Range(s) \ {e}
  <2> TAKE j \in DOMAIN r
  <2>1. CASE j < p
    BY <1>2, <1>3, <1>4, <1>5, <2>1 DEF IsInjective, Range
  <2>2. CASE ~(j < p)
    <3>1. j + 1 \in 1 .. Len(s) /\ j + 1 # p /\ r[j] = s[j + 1]
      BY <1>3, <1>4, <1>5, <2>2
    <3> QED BY <1>2, <1>3, <1>5, <3>1 DEF IsInjective, Range
  <2> QED BY <2>1, <2>2
<1>8. \A x \in Range(s) \ {e} : \E j \in DOMAIN r : r[j] = x
  <2> TAKE x \in Range(s) \ {e}
  <2>1. PICK i \in 1 .. Len(s) : s[i] = x
    BY <1>5 DEF Range
  <2>2. CASE i < p
    BY <1>3, <1>4, <1>5, <2>1, <2>2
  <2>3. CASE ~(i < p)
    <3>1. i - 1 \in 1 .. Len(s) - 1 /\ ~(i - 1 < p) /\ i - 1 + 1 = i
      BY <1>2, <1>3, <2>1, <2>3
    <3> QED BY <1>4, <1>5, <2>1, <3>1
  <2> QED BY <2>2, <2>3
<1>9. Range(r) = Range(s) \ {e}
  BY <1>7, <1>8 DEF Range
<1> QED
  BY <1>1, <1>6, <1>9 DEF r

LEMMA ConsFacts ==
  ASSUME NEW S, NEW s \in Seq(S), IsInjective(s), NEW e \in S, e \notin Range(s)
  PROVE  /\ <<e>> \o s \in Seq(S)
         /\ Len(<<e>> \o s) = Len(s) + 1
         /\ IsInjective(<<e>> \o s)
         /\ Range(<<e>> \o s) = Range(s) \cup {e}
<1> DEFINE r == <<e>> \o s
<1>1. r \in Seq(S) /\ Len(r) = Len(s) + 1 /\ Len(s) \in Nat
  OBVIOUS
<1>2. \A j \in 1 .. Len(s) + 1 : r[j] = IF j = 1 THEN e ELSE s[j - 1]
  OBVIOUS
<1> HIDE DEF r
<1>3. DOMAIN r = 1 .. Len(s) + 1 /\ DOMAIN s = 1 .. Len(s)
  BY <1>1
<1>4. \A j \in DOMAIN r : j # 1 => j - 1 \in DOMAIN s /\ r[j] \in Range(s)
  BY <1>1, <1>2, <1>3 DEF Range
<1>5. IsInjective(r)
  <2>1. ASSUME NEW i \in DOMAIN r, NEW j \in DOMAIN r, r[i] = r[j], i # 1, j # 1 PROVE i = j
    <3>1. i - 1 \in DOMAIN s /\ j - 1 \in DOMAIN s /\ s[i - 1] = s[j - 1]
      BY <1>2, <1>3, <1>4, <2>1
    <3>2. i - 1 = j - 1
      BY <3>1 DEF IsInjective
    <3> QED BY <1>1, <1>3, <3>2
  <2>2. ASSUME NEW i \in DOMAIN r, i # 1 PROVE r[i] # r[1]
    BY <1>1, <1>2, <1>3, <1>4, <2>2
  <2> QED BY <2>1, <2>2 DEF IsInjective
<1>6. \A i \in DOMAIN s : i + 1 \in DOMAIN r /\ r[i + 1] = s[i]
  BY <1>1, <1>2, <1>3
<1>7. 1 \in DOMAIN r /\ r[1] = e
  BY <1>1, <1>2, <1>3
<1>8. Range(r) = Range(s) \cup {e}
  BY <1>2, <1>3, <1>4, <1>6, <1>7, SMTT(40) DEF Range
<1> QED
  BY <1>1, <1>5, <1>8 DEF r

\* Taking a workspace off the idle list, and marking it in use, keep the manager sound.
LEMMA TakenOff ==
  ASSUME NEW s, Sound(s), NEW w \in DOMAIN s.ws
  PROVE  LET r == RemoveFromIdleList(s, w)
         IN  /\ Fields \subseteq DOMAIN r
             /\ r.ws = s.ws /\ r.last_ws_id = s.last_ws_id
             /\ r.idle \in Seq(Nat) /\ IsInjective(r.idle)
             /\ Range(r.idle) = Range(s.idle) \ {w}
             /\ PoolExact(r)
<1> DEFINE r == RemoveFromIdleList(s, w)
<1> USE DEF Sound, Fields
<1>1. CASE w \in Range(s.idle)
  <2>1. r = [s EXCEPT !.free = @ + 1, !.idle = RemoveFirst(@, w)]
    BY <1>1 DEF RemoveFromIdleList
  <2>2. /\ r.ws = s.ws /\ r.last_ws_id = s.last_ws_id /\ r.slots = s.slots
        /\ r.idle = RemoveFirst(s.idle, w) /\ r.free = s.free + 1
        /\ Fields \subseteq DOMAIN r
    BY <2>1 DEF RecordsSound
  <2>3. /\ r.idle \in Seq(Nat) /\ IsInjective(r.idle)
        /\ Len(r.idle) = Len(s.idle) - 1
        /\ Range(r.idle) = Range(s.idle) \ {w}
    BY <1>1, <2>2, RemoveFirstFacts DEF IdleSound
  <2>4. PoolExact(r)
    <3>1. Len(s.idle) \in Nat /\ s.slots \in Nat /\ s.free \in Nat
          /\ s.free + Len(s.idle) = s.slots
      BY DEF IdleSound, PoolExact
    <3> HIDE DEF r
    <3>2. s.free + 1 \in Nat /\ s.free + 1 + (Len(s.idle) - 1) = s.slots
      BY <3>1
    <3> QED BY <2>2, <2>3, <3>1, <3>2 DEF PoolExact
  <2> QED BY <2>2, <2>3, <2>4
<1>2. CASE w \notin Range(s.idle)
  BY <1>2 DEF RemoveFromIdleList, RecordsSound, IdleSound
<1> QED
  BY <1>1, <1>2

LEMMA EmptiedIsRecord ==
  ASSUME NEW r \in Records
  PROVE  /\ Emptied(r) \in Records
         /\ ~Emptied(r).ws_ptr /\ ~Emptied(r).data_intact
         /\ Emptied(r).owner = r.owner /\ Emptied(r).in_use = r.in_use
BY DEF Emptied, Records

\* Making room empties some of the idle workspaces and touches no other.
LEMMA RoomMade ==
  ASSUME NEW s, Sound(s), NEW amount
  PROVE  LET r == MakeRoom(s, amount)
         IN  /\ Sound(r)
             /\ DOMAIN r.ws = DOMAIN s.ws
             /\ r.last_ws_id = s.last_ws_id /\ r.idle = s.idle
             /\ \A w \in DOMAIN s.ws :
                  r.ws[w] = s.ws[w] \/ (~s.ws[w].in_use /\ r.ws[w] = Emptied(s.ws[w]))
<1> DEFINE over == s.total_size + amount - s.threshold_size
           given == {w \in GivenUp(s, over) : s.ws[w].ws_ptr}
           r == MakeRoom(s, amount)
<1>1. given \subseteq Range(s.idle)
  BY DEF GivenUp, Range
<1>2. r = [s EXCEPT !.ws = [w \in DOMAIN @ |-> IF w \in given THEN Emptied(@[w]) ELSE @[w]],
                    !.total_size = @ - Space(s.ws, given)]
  BY DEF MakeRoom, ReduceCurrentAlloc
<1> HIDE DEF given
<1>3. /\ r.ws = [w \in DOMAIN s.ws |-> IF w \in given THEN Emptied(s.ws[w]) ELSE s.ws[w]]
      /\ r.idle = s.idle /\ r.slots = s.slots /\ r.free = s.free
      /\ r.last_ws_id = s.last_ws_id /\ Fields \subseteq DOMAIN r
  BY <1>2 DEF Sound, RecordsSound, Fields
<1> HIDE DEF r
<1>4. \A w \in DOMAIN s.ws :
        r.ws[w] = s.ws[w] \/ (~s.ws[w].in_use /\ r.ws[w] = Emptied(s.ws[w]))
  BY <1>1, <1>3 DEF Sound, IdleSound
<1>5. \A w \in DOMAIN s.ws : s.ws[w] \in Records
  BY DEF Sound, RecordsSound
<1>6. DOMAIN r.ws = DOMAIN s.ws
  BY <1>3
<1>7. \A w \in DOMAIN s.ws :
        /\ r.ws[w] \in Records /\ r.ws[w].in_use = s.ws[w].in_use
        /\ r.ws[w].ws_ptr => s.ws[w].ws_ptr
        /\ r.ws[w].data_intact => r.ws[w].ws_ptr
  BY <1>4, <1>5, EmptiedIsRecord DEF Sound, RecordsSound
<1>8. RecordsSound(r)
  <2>1. r.ws \in [DOMAIN r.ws -> Records]
    BY <1>3, <1>6, <1>7
  <2> QED BY <1>3, <1>6, <1>7, <2>1 DEF Sound, RecordsSound
<1>9. IdleSound(r)
  BY <1>3, <1>6, <1>7 DEF Sound, IdleSound
<1>10. PoolExact(r)
  BY <1>3 DEF Sound, PoolExact
<1> QED
  BY <1>3, <1>4, <1>6, <1>8, <1>9, <1>10 DEF Sound, r

\* Changing the record of a workspace that is off the idle list.
LEMMA RecordChanged ==
  ASSUME NEW s, NEW r, Sound(s), NEW w \in DOMAIN s.ws, w \notin Range(s.idle),
         NEW new \in Records, Fields \subseteq DOMAIN r,
         r.ws = [s.ws EXCEPT ![w] = new], r.idle = s.idle,
         r.slots = s.slots, r.free = s.free, r.last_ws_id = s.last_ws_id,
         new.data_intact => new.ws_ptr, new.ws_ptr => new.in_use
  PROVE  /\ Sound(r) /\ DOMAIN r.ws = DOMAIN s.ws /\ r.ws[w] = new
         /\ \A v \in DOMAIN s.ws \ {w} : r.ws[v] = s.ws[v]
<1>1. /\ DOMAIN r.ws = DOMAIN s.ws /\ r.ws[w] = new
      /\ \A v \in DOMAIN s.ws \ {w} : r.ws[v] = s.ws[v]
      /\ r.ws \in [DOMAIN r.ws -> Records]
  BY DEF Sound, RecordsSound
<1>2. RecordsSound(r)
  BY <1>1 DEF Sound, RecordsSound
<1>3. IdleSound(r)
  BY <1>1 DEF Sound, IdleSound
<1> QED
  BY <1>1, <1>2, <1>3 DEF Sound, PoolExact

-----------------------------------------------------------------------------
(* The operations of the manager *)

\* A workspace that is used is lent, with what it contained if that is intact; one
\* that cannot be used is as it was, or without storage.
LEMMA UseKeeps ==
  ASSUME NEW s, Sound(s), NEW w \in DOMAIN s.ws
  PROVE  LET r == UseWorkspace(s, w)
         IN  /\ Sound(r) /\ DOMAIN r.ws = DOMAIN s.ws
             /\ r.last_ws_id = s.last_ws_id
             /\ OthersKept(s, r, w)
             /\ r.ws[w].owner = s.ws[w].owner
             /\ r.ret = "ok" => r.ws[w].in_use /\ r.ws[w].ws_ptr
             /\ r.ws[w].data_intact =>
                  s.ws[w].data_intact /\ r.ws[w].content = s.ws[w].content
             /\ s.ws[w].in_use => r.ret = "busy" /\ r.ws = s.ws
<1> DEFINE amount == IF s.ws[w].ws_ptr THEN 0 ELSE s.ws[w].cur_size
           off == RemoveFromIdleList(s, w)
           mine == [off EXCEPT !.ws[w].in_use = TRUE]
           room == MakeRoom(mine, amount)
           old == s.ws[w]
           r == UseWorkspace(s, w)
<1>1. old \in Records /\ (old.data_intact => old.ws_ptr)
  BY DEF Sound, RecordsSound
<1>2. Sound(mine) /\ DOMAIN mine.ws = DOMAIN s.ws /\ mine.last_ws_id = s.last_ws_id
      /\ mine.ws[w] = [old EXCEPT !.in_use = TRUE]
      /\ w \notin Range(mine.idle)
      /\ \A v \in DOMAIN s.ws \ {w} : mine.ws[v] = s.ws[v]
  <2>1. /\ Fields \subseteq DOMAIN off
        /\ off.ws = s.ws /\ off.last_ws_id = s.last_ws_id
        /\ off.idle \in Seq(Nat) /\ IsInjective(off.idle)
        /\ Range(off.idle) = Range(s.idle) \ {w}
        /\ PoolExact(off)
    BY TakenOff
  <2> HIDE DEF off
  <2>2. /\ mine.ws = [s.ws EXCEPT ![w] = [old EXCEPT !.in_use = TRUE]]
        /\ mine.last_ws_id = s.last_ws_id /\ mine.idle = off.idle
        /\ mine.slots = off.slots /\ mine.free = off.free
        /\ Fields \subseteq DOMAIN mine
    BY <2>1 DEF Fields
  <2> HIDE DEF mine
  <2>3. [old EXCEPT !.in_use = TRUE] \in Records
    BY <1>1 DEF Records
  <2> HIDE DEF old
  <2>4. /\ DOMAIN mine.ws = DOMAIN s.ws
        /\ mine.ws[w] = [old EXCEPT !.in_use = TRUE]
        /\ \A v \in DOMAIN s.ws \ {w} : mine.ws[v] = s.ws[v]
        /\ mine.ws \in [DOMAIN mine.ws -> Records]
    BY <2>2, <2>3 DEF Sound, RecordsSound
  <2>5. mine.ws[w].in_use /\ (mine.ws[w].data_intact => mine.ws[w].ws_ptr)
    BY <1>1, <2>4 DEF Records
  <2>6. RecordsSound(mine)
    BY <2>2, <2>4, <2>5 DEF Sound, RecordsSound
  <2>7. IdleSound(mine)
    BY <2>1, <2>2, <2>4, <2>5 DEF Sound, IdleSound
  <2>8. PoolExact(mine)
    BY <2>1, <2>2 DEF PoolExact
  <2> QED BY <2>1, <2>2, <2>4, <2>6, <2>7, <2>8 DEF Sound
<1>3. /\ Sound(room) /\ DOMAIN room.ws = DOMAIN mine.ws
      /\ room.last_ws_id = mine.last_ws_id /\ room.idle = mine.idle
      /\ \A v \in DOMAIN mine.ws :
           room.ws[v] = mine.ws[v] \/ (~mine.ws[v].in_use /\ room.ws[v] = Emptied(mine.ws[v]))
  <2> HIDE DEF mine, amount
  <2> QED BY <1>2, RoomMade
<1> DEFINE got == [room EXCEPT !.ret = "ok"]
           no == [room EXCEPT !.ws[w].in_use = FALSE, !.ret = "refused"]
           new == [room EXCEPT !.ws[w].ws_ptr = TRUE, !.ws[w].data_intact = FALSE,
                               !.total_size = @ + amount, !.ret = "ok"]
<1>4. \/ old.in_use /\ r = [s EXCEPT !.ret = "busy"]
      \/ ~old.in_use /\ old.ws_ptr /\ r = got
      \/ ~old.in_use /\ ~old.ws_ptr /\ r = no
      \/ ~old.in_use /\ ~old.ws_ptr /\ r = new
  BY DEF UseWorkspace
<1> HIDE DEF mine, room, off, r, amount
<1>5. mine.ws[w].in_use
  BY <1>1, <1>2 DEF Records
<1>6. /\ room.ws[w] = [old EXCEPT !.in_use = TRUE]
      /\ w \notin Range(room.idle) /\ w \in DOMAIN room.ws
      /\ DOMAIN room.ws = DOMAIN s.ws /\ room.last_ws_id = s.last_ws_id
  BY <1>2, <1>3, <1>5
<1>7. OthersKept(s, room, w)
  BY <1>2, <1>3 DEF OthersKept
<1>8. Fields \subseteq DOMAIN room /\ Fields \subseteq DOMAIN s
  BY <1>3 DEF Sound, RecordsSound
<1>9. CASE old.in_use /\ r = [s EXCEPT !.ret = "busy"]
  <2>1. /\ r.ws = s.ws /\ r.idle = s.idle /\ r.slots = s.slots /\ r.free = s.free
        /\ r.last_ws_id = s.last_ws_id /\ r.ret = "busy" /\ Fields \subseteq DOMAIN r
    BY <1>8, <1>9 DEF Fields
  <2>2. Sound(r)
    BY <2>1 DEF Sound, RecordsSound, IdleSound, PoolExact
  <2> QED BY <2>1, <2>2 DEF r, OthersKept
<1>10. CASE ~old.in_use /\ old.ws_ptr /\ r = got
  <2>1. /\ r.ws = room.ws /\ r.idle = room.idle /\ r.slots = room.slots /\ r.free = room.free
        /\ r.last_ws_id = room.last_ws_id /\ r.ret = "ok" /\ Fields \subseteq DOMAIN r
    BY <1>8, <1>10 DEF Fields
  <2>2. Sound(r)
    BY <1>3, <2>1 DEF Sound, RecordsSound, IdleSound, PoolExact
  <2>3. OthersKept(s, r, w)
    BY <1>7, <2>1 DEF OthersKept
  <2>4. /\ r.ws[w].owner = old.owner /\ r.ws[w].in_use /\ r.ws[w].ws_ptr
        /\ r.ws[w].data_intact = old.data_intact /\ r.ws[w].content = old.content
    BY <1>1, <1>6, <1>10, <2>1 DEF Records
  <2> QED BY <1>6, <1>10, <2>1, <2>2, <2>3, <2>4 DEF r
<1>11. CASE ~old.in_use /\ ~old.ws_ptr /\ (r = no \/ r = new)
  <2> DEFINE rec == IF r = no THEN [room.ws[w] EXCEPT !.in_use = FALSE]
                    ELSE [room.ws[w] EXCEPT !.ws_ptr = TRUE, !.data_intact = FALSE]
  <2>0. room.ws[w] \in Records
    BY <1>1, <1>6 DEF Records
  <2>1. /\ r.ws = [room.ws EXCEPT ![w] = rec] /\ r.idle = room.idle
        /\ r.slots = room.slots /\ r.free = room.free
        /\ r.last_ws_id = room.last_ws_id /\ Fields \subseteq DOMAIN r
        /\ r.ret = IF r = no THEN "refused" ELSE "ok"
    <3>1. CASE r = no
      BY <1>6, <1>8, <3>1 DEF Fields
    <3>2. CASE r # no
      <4>1. r = new
        BY <1>11, <3>2
      <4> HIDE DEF rec, no
      <4>2. /\ r.idle = room.idle /\ r.slots = room.slots /\ r.free = room.free
            /\ r.last_ws_id = room.last_ws_id /\ Fields \subseteq DOMAIN r
            /\ r.ret = "ok"
        BY <1>8, <4>1 DEF Fields
      <4>3. r.ws = [room.ws EXCEPT ![w] = [room.ws[w] EXCEPT !.ws_ptr = TRUE, !.data_intact = FALSE]]
        BY <1>6, <1>8, <4>1 DEF Fields
      <4> QED BY <3>2, <4>2, <4>3 DEF rec
    <3> QED BY <3>1, <3>2
  <2>2. /\ rec \in Records /\ (rec.ws_ptr => rec.in_use) /\ ~rec.data_intact
        /\ rec.owner = old.owner /\ (rec.in_use => rec.ws_ptr)
        /\ (r # no => rec.in_use /\ rec.ws_ptr)
    <3>1. CASE r = no
      BY <1>1, <1>6, <1>11, <2>0, <3>1 DEF Records
    <3>2. CASE r # no
      BY <1>1, <1>6, <1>11, <2>0, <3>2 DEF Records
    <3> QED BY <3>1, <3>2
  <2> HIDE DEF rec
  <2>3. /\ Sound(r) /\ DOMAIN r.ws = DOMAIN room.ws /\ r.ws[w] = rec
        /\ \A v \in DOMAIN room.ws \ {w} : r.ws[v] = room.ws[v]
    BY <1>3, <1>6, <2>1, <2>2, RecordChanged
  <2>4. OthersKept(s, r, w)
    BY <1>6, <1>7, <2>3 DEF OthersKept
  <2> QED BY <1>6, <1>11, <2>1, <2>2, <2>3, <2>4 DEF r
<1> QED
  BY <1>4, <1>9, <1>10, <1>11

\* A workspace in use that is made larger or smaller keeps all but its size.
LEMMA ResizeKeeps ==
  ASSUME NEW s, Sound(s), NEW w \in DOMAIN s.ws, s.ws[w].in_use,
         NEW amount, s.ws[w].cur_size + amount \in Nat \ {0}
  PROVE  LET r == ChangeWorkspaceSize(s, w, amount)
         IN  /\ Sound(r) /\ DOMAIN r.ws = DOMAIN s.ws
             /\ r.last_ws_id = s.last_ws_id
             /\ OthersKept(s, r, w)
             /\ SizeOnly(s.ws[w], r.ws[w])
<1> DEFINE room == MakeRoom(s, amount)
           old == s.ws[w]
           bigger == [room EXCEPT !.ws[w].cur_size = @ + amount,
                                  !.total_size = @ + amount, !.ret = "ok"]
           no == [room EXCEPT !.ret = "refused"]
           r == ChangeWorkspaceSize(s, w, amount)
<1>1. old \in Records /\ old = [old EXCEPT !.cur_size = old.cur_size]
  BY DEF Sound, RecordsSound, Records
<1>2. /\ Sound(room) /\ DOMAIN room.ws = DOMAIN s.ws
      /\ room.last_ws_id = s.last_ws_id /\ room.idle = s.idle
      /\ \A v \in DOMAIN s.ws :
           room.ws[v] = s.ws[v] \/ (~s.ws[v].in_use /\ room.ws[v] = Emptied(s.ws[v]))
  BY RoomMade
<1>3. r = bigger \/ r = no
  BY DEF ChangeWorkspaceSize
<1> HIDE DEF room, r
<1>4. room.ws[w] = old /\ OthersKept(s, room, w) /\ Fields \subseteq DOMAIN room
      /\ w \notin Range(room.idle)
  BY <1>2 DEF OthersKept, Sound, RecordsSound, IdleSound
<1>5. CASE r = no
  <2>1. /\ r.ws = room.ws /\ r.idle = room.idle /\ r.slots = room.slots /\ r.free = room.free
        /\ r.last_ws_id = room.last_ws_id /\ Fields \subseteq DOMAIN r
    BY <1>4, <1>5 DEF Fields
  <2>2. Sound(r) /\ OthersKept(s, r, w)
    BY <1>2, <1>4, <2>1 DEF Sound, RecordsSound, IdleSound, PoolExact, OthersKept
  <2>3. old.cur_size \in Nat \ {0} /\ r.ws[w] = [old EXCEPT !.cur_size = old.cur_size]
    BY <1>1, <1>4, <2>1 DEF Records
  <2> QED BY <1>2, <2>1, <2>2, <2>3 DEF r, SizeOnly
<1>6. CASE r = bigger
  <2> DEFINE size == old.cur_size + amount
             new == [old EXCEPT !.cur_size = size]
  <2>1. /\ r.idle = room.idle /\ r.slots = room.slots /\ r.free = room.free
        /\ r.last_ws_id = room.last_ws_id /\ Fields \subseteq DOMAIN r
    BY <1>4, <1>6 DEF Fields
  <2>2. r.ws = [room.ws EXCEPT ![w] = new]
    BY <1>4, <1>6 DEF Fields
  <2>3. new \in Records /\ new.in_use /\ (new.data_intact => new.ws_ptr)
    BY <1>1 DEF Records, Sound, RecordsSound
  <2> HIDE DEF new
  <2>4. /\ Sound(r) /\ DOMAIN r.ws = DOMAIN room.ws /\ r.ws[w] = new
        /\ \A v \in DOMAIN room.ws \ {w} : r.ws[v] = room.ws[v]
    BY <1>2, <1>4, <2>1, <2>2, <2>3, RecordChanged
  <2>5. OthersKept(s, r, w)
    BY <1>2, <1>4, <2>4 DEF OthersKept
  <2> QED BY <1>2, <2>1, <2>4, <2>5 DEF r, new, SizeOnly
<1> QED
  BY <1>3, <1>5, <1>6

\* Beginning an area map changes what is in it and its size.
LEMMA ArinamKeeps ==
  ASSUME NEW s, Sound(s), NEW w \in DOMAIN s.ws, s.ws[w].in_use
  PROVE  LET r == Arinam(s, w)
         IN  /\ Sound(r) /\ DOMAIN r.ws = DOMAIN s.ws
             /\ r.last_ws_id = s.last_ws_id
             /\ OthersKept(s, r, w)
             /\ r.ws[w].owner = s.ws[w].owner
             /\ r.ws[w].in_use /\ r.ws[w].ws_ptr = s.ws[w].ws_ptr
<1> DEFINE old == s.ws[w]
           begun == [s EXCEPT !.ws[w].data_intact = FALSE, !.ret = "ok"]
           sized == IF old.cur_size = old.req_size THEN begun
                    ELSE ChangeWorkspaceSize(begun, w, old.req_size - old.cur_size)
           r == Arinam(s, w)
<1>1. old \in Records /\ w \notin Range(s.idle) /\ Fields \subseteq DOMAIN s
  BY DEF Sound, RecordsSound, IdleSound
<1>2. /\ Sound(begun) /\ DOMAIN begun.ws = DOMAIN s.ws /\ begun.last_ws_id = s.last_ws_id
      /\ begun.ws[w] = [old EXCEPT !.data_intact = FALSE]
      /\ \A v \in DOMAIN s.ws \ {w} : begun.ws[v] = s.ws[v]
  <2> DEFINE new == [old EXCEPT !.data_intact = FALSE]
  <2>1. /\ begun.idle = s.idle /\ begun.slots = s.slots /\ begun.free = s.free
        /\ begun.last_ws_id = s.last_ws_id /\ Fields \subseteq DOMAIN begun
    BY <1>1 DEF Fields
  <2>2. begun.ws = [s.ws EXCEPT ![w] = new]
    BY <1>1 DEF Fields
  <2>3. new \in Records /\ new.in_use /\ ~new.data_intact
    BY <1>1 DEF Records
  <2> HIDE DEF begun, new
  <2>4. /\ Sound(begun) /\ DOMAIN begun.ws = DOMAIN s.ws /\ begun.ws[w] = new
        /\ \A v \in DOMAIN s.ws \ {w} : begun.ws[v] = s.ws[v]
    BY <1>1, <2>1, <2>2, <2>3, RecordChanged
  <2> QED BY <2>1, <2>4 DEF new
<1>3. r = sized \/ r = [sized EXCEPT !.ws[w].content = Partial]
  BY DEF Arinam
<1> HIDE DEF begun, r
<1>4. begun.ws[w] \in Records /\ begun.ws[w].in_use /\ begun.ws[w].owner = old.owner
      /\ begun.ws[w].ws_ptr = old.ws_ptr /\ begun.ws[w].cur_size = old.cur_size
  BY <1>1, <1>2, ZenonT(60) DEF Records
<1>5. /\ Sound(sized) /\ DOMAIN sized.ws = DOMAIN s.ws /\ sized.last_ws_id = s.last_ws_id
      /\ OthersKept(s, sized, w)
      /\ SizeOnly(begun.ws[w], sized.ws[w])
  <2>1. CASE sized = begun
    <3>1. begun.ws[w] = [begun.ws[w] EXCEPT !.cur_size = old.cur_size] /\ old.cur_size \in Nat \ {0}
      BY <1>1, <1>4 DEF Records
    <3> QED BY <1>2, <2>1, <3>1 DEF OthersKept, SizeOnly
  <2>2. CASE sized = ChangeWorkspaceSize(begun, w, old.req_size - old.cur_size)
    <3> DEFINE amount == old.req_size - old.cur_size
               t == ChangeWorkspaceSize(begun, w, amount)
    <3>1. begun.ws[w].cur_size + amount \in Nat \ {0}
      BY <1>1, <1>4 DEF Records
    <3> HIDE DEF amount
    <3>2. /\ Sound(t) /\ DOMAIN t.ws = DOMAIN begun.ws
          /\ t.last_ws_id = begun.last_ws_id
          /\ OthersKept(begun, t, w)
          /\ SizeOnly(begun.ws[w], t.ws[w])
      <4>1. Sound(begun) /\ w \in DOMAIN begun.ws /\ begun.ws[w].in_use
        BY <1>2, <1>4
      <4> HIDE DEF old, sized
      <4> QED BY <3>1, <4>1, ResizeKeeps
    <3> HIDE DEF t
    <3>3. OthersKept(s, t, w)
      BY <1>2, <3>2 DEF OthersKept
    <3>4. sized = t
      BY <2>2 DEF t, amount
    <3> HIDE DEF sized
    <3> QED BY <1>2, <3>2, <3>3, <3>4
  <2> QED BY <2>1, <2>2
<1> HIDE DEF sized
<1>6. PICK size \in Nat \ {0} : sized.ws[w] = [begun.ws[w] EXCEPT !.cur_size = size]
  BY <1>5 DEF SizeOnly
<1>7. sized.ws[w] \in Records /\ sized.ws[w].in_use /\ sized.ws[w].owner = old.owner
      /\ sized.ws[w].ws_ptr = old.ws_ptr
  BY <1>4, <1>6 DEF Records
<1>8. CASE r = sized
  BY <1>5, <1>7, <1>8 DEF r
<1>9. CASE r = [sized EXCEPT !.ws[w].content = Partial]
  <2> DEFINE new == [sized.ws[w] EXCEPT !.content = Partial]
  <2>0. Fields \subseteq DOMAIN sized /\ w \in DOMAIN sized.ws /\ w \notin Range(sized.idle)
    BY <1>5, <1>7 DEF Sound, RecordsSound, IdleSound
  <2>1. /\ r.idle = sized.idle /\ r.slots = sized.slots /\ r.free = sized.free
        /\ r.last_ws_id = sized.last_ws_id /\ Fields \subseteq DOMAIN r
    BY <1>9, <2>0 DEF Fields
  <2>2. r.ws = [sized.ws EXCEPT ![w] = new]
    BY <1>9, <2>0 DEF Fields
  <2>3. new \in Records /\ new.in_use /\ new.owner = old.owner /\ new.ws_ptr = old.ws_ptr
        /\ (new.data_intact => new.ws_ptr)
    <3>1. sized.ws[w].data_intact => sized.ws[w].ws_ptr
      BY <1>5, <2>0 DEF Sound, RecordsSound
    <3> QED BY <1>7, <3>1 DEF Records
  <2> HIDE DEF new
  <2>4. /\ Sound(r) /\ DOMAIN r.ws = DOMAIN sized.ws /\ r.ws[w] = new
        /\ \A v \in DOMAIN sized.ws \ {w} : r.ws[v] = sized.ws[v]
    BY <1>5, <2>0, <2>1, <2>2, <2>3, RecordChanged
  <2>5. OthersKept(s, r, w)
    BY <1>5, <2>4 DEF OthersKept
  <2> QED BY <1>5, <2>1, <2>3, <2>4, <2>5 DEF r
<1> QED
  BY <1>3, <1>8, <1>9

\* A refill gives every slot it adds a node.
LEMMA RefilledFacts ==
  ASSUME NEW s, Fields \subseteq DOMAIN s, PoolExact(s)
  PROVE  /\ Fields \subseteq DOMAIN Refilled(s) /\ PoolExact(Refilled(s))
         /\ Refilled(s).free > 0 /\ Refilled(s).idle = s.idle
         /\ Refilled(s).ws = s.ws /\ Refilled(s).last_ws_id = s.last_ws_id
<1>1. CASE s.free > 0
  BY <1>1 DEF Refilled
<1>2. CASE ~(s.free > 0)
  <2>1. Refilled(s) = [s EXCEPT !.slots = @ + Chunk, !.free = Chunk]
    BY <1>2 DEF Refilled
  <2>2. /\ Fields \subseteq DOMAIN Refilled(s)
        /\ Refilled(s).free = Chunk /\ Refilled(s).slots = s.slots + Chunk
        /\ Refilled(s).idle = s.idle /\ Refilled(s).ws = s.ws
        /\ Refilled(s).last_ws_id = s.last_ws_id
    BY <2>1 DEF Fields
  <2>3. s.free = 0 /\ s.free \in Nat /\ s.slots \in Nat /\ s.free + Len(s.idle) = s.slots
    BY <1>2 DEF PoolExact
  <2>4. Chunk \in Nat /\ Chunk > 0 /\ s.slots + Chunk \in Nat
    BY <2>3, BoundAssumption
  <2>5. Chunk + Len(s.idle) = s.slots + Chunk
    <3>1. Len(s.idle) = s.slots
      <4>1. CASE Len(s.idle) \in Int
        BY <2>3, <4>1
      <4>2. CASE Len(s.idle) \notin Int
        BY <2>3, <4>2
      <4> QED BY <4>1, <4>2
    <3> QED BY <2>3, <2>4, <3>1
  <2> QED BY <2>2, <2>4, <2>5 DEF PoolExact
<1> QED
  BY <1>1, <1>2

\* What is idled comes to the idle list, with its storage and its content.
LEMMA IdleKeeps ==
  ASSUME NEW s, Sound(s), NEW w \in DOMAIN s.ws, s.ws[w].in_use, s.ws[w].ws_ptr,
         NEW size \in Nat \ {0}
  PROVE  LET r == IdleWorkspace(s, w, size)
         IN  /\ Sound(r) /\ DOMAIN r.ws = DOMAIN s.ws
             /\ r.last_ws_id = s.last_ws_id
             /\ OthersKept(s, r, w)
             /\ r.ws[w] = Idled(s.ws[w], size)
<1> DEFINE old == s.ws[w]
           new == [old EXCEPT !.cur_size = size, !.in_use = FALSE, !.data_intact = TRUE]
           idled == [s EXCEPT !.total_size = @ - (s.ws[w].cur_size - size),
                              !.ws[w].cur_size = size,
                              !.ws[w].in_use = FALSE,
                              !.ws[w].data_intact = TRUE,
                              !.ret = "ok"]
           more == Refilled(idled)
           r == IdleWorkspace(s, w, size)
<1>1. old \in Records /\ Fields \subseteq DOMAIN s /\ w \notin Range(s.idle)
      /\ PoolExact(s) /\ s.idle \in Seq(Nat) /\ IsInjective(s.idle) /\ w \in Nat
  BY DEF Sound, RecordsSound, IdleSound
<1>2. r = [more EXCEPT !.free = @ - 1, !.idle = <<w>> \o @]
  BY DEF IdleWorkspace, AddToIdleList
<1>3. /\ idled.idle = s.idle /\ idled.slots = s.slots /\ idled.free = s.free
      /\ idled.last_ws_id = s.last_ws_id /\ Fields \subseteq DOMAIN idled
  BY <1>1 DEF Fields
<1>4. idled.ws = [s.ws EXCEPT ![w] = new]
  <2> DEFINE s1 == [s EXCEPT !.total_size = @ - (s.ws[w].cur_size - size),
                             !.ws[w].cur_size = size]
             s2 == [s1 EXCEPT !.ws[w].in_use = FALSE]
             s3 == [s2 EXCEPT !.ws[w].data_intact = TRUE]
  <2>1. s1.ws = [s.ws EXCEPT ![w] = [old EXCEPT !.cur_size = size]] /\ Fields \subseteq DOMAIN s1
    BY <1>1 DEF Fields
  <2>2. idled = [s3 EXCEPT !.ret = "ok"]
    OBVIOUS
  <2> HIDE DEF s1, idled
  <2>3. s2.ws = [s1.ws EXCEPT ![w] = [s1.ws[w] EXCEPT !.in_use = FALSE]]
        /\ Fields \subseteq DOMAIN s2
    BY <2>1 DEF Fields
  <2> HIDE DEF s2
  <2>4. s3.ws = [s2.ws EXCEPT ![w] = [s2.ws[w] EXCEPT !.data_intact = TRUE]]
        /\ Fields \subseteq DOMAIN s3
    BY <2>3 DEF Fields
  <2> HIDE DEF s3
  <2>5. idled.ws = s3.ws
    BY <2>2, <2>4 DEF Fields
  <2> HIDE DEF old
  <2>6. s3.ws = [s.ws EXCEPT ![w] = [[[old EXCEPT !.cur_size = size] EXCEPT !.in_use = FALSE]
                                      EXCEPT !.data_intact = TRUE]]
    BY <2>1, <2>3, <2>4, ZenonT(60)
  <2>7. new = [[[old EXCEPT !.cur_size = size] EXCEPT !.in_use = FALSE] EXCEPT !.data_intact = TRUE]
    BY <1>1 DEF Records
  <2> QED BY <2>5, <2>6, <2>7
<1>5. new \in Records /\ ~new.in_use /\ new.ws_ptr
  BY <1>1 DEF Records
<1> HIDE DEF idled, new, r, more, old
<1>6. PoolExact(idled)
  BY <1>1, <1>3 DEF PoolExact
<1>7. /\ Fields \subseteq DOMAIN more /\ PoolExact(more)
      /\ more.free > 0 /\ more.idle = s.idle
      /\ more.ws = idled.ws /\ more.last_ws_id = s.last_ws_id
  BY <1>3, <1>6, RefilledFacts DEF more
<1>8. /\ r.ws = idled.ws /\ r.idle = <<w>> \o s.idle /\ r.free = more.free - 1
      /\ r.slots = more.slots /\ r.last_ws_id = s.last_ws_id
      /\ Fields \subseteq DOMAIN r
  BY <1>2, <1>7 DEF Fields
<1>9. /\ r.idle \in Seq(Nat) /\ Len(r.idle) = Len(s.idle) + 1
      /\ IsInjective(r.idle) /\ Range(r.idle) = Range(s.idle) \cup {w}
  BY <1>1, <1>8, ConsFacts
<1>10. /\ DOMAIN r.ws = DOMAIN s.ws /\ r.ws[w] = new
       /\ \A v \in DOMAIN s.ws \ {w} : r.ws[v] = s.ws[v]
       /\ r.ws \in [DOMAIN r.ws -> Records]
  BY <1>4, <1>5, <1>8 DEF Sound, RecordsSound
<1>11. RecordsSound(r)
  BY <1>5, <1>8, <1>10 DEF Sound, RecordsSound
<1>12. IdleSound(r)
  BY <1>5, <1>9, <1>10 DEF Sound, IdleSound
<1>13. PoolExact(r)
  <2>1. Len(s.idle) \in Nat /\ more.free \in Nat /\ more.slots \in Nat
        /\ more.free + Len(s.idle) = more.slots
    BY <1>1, <1>7 DEF PoolExact
  <2>2. more.free - 1 \in Nat /\ more.free - 1 + (Len(s.idle) + 1) = more.slots
    BY <1>7, <2>1
  <2> QED BY <1>8, <1>9, <2>1, <2>2 DEF PoolExact
<1> QED
  BY <1>8, <1>10, <1>11, <1>12, <1>13 DEF Sound, OthersKept, Idled, r, new, old

\* A new workspace is the next one, without storage.
LEMMA NewKeeps ==
  ASSUME NEW s, Sound(s), NEW owner \in {"plot", "map"}, NEW type \in Types,
         NEW size \in Nat \ {0}
  PROVE  LET r == NewWorkspace(s, owner, type, size)
             w == s.last_ws_id + 1
         IN  /\ Sound(r) /\ DOMAIN r.ws = DOMAIN s.ws \cup {w}
             /\ r.last_ws_id = w /\ w \notin DOMAIN s.ws /\ w \in Nat /\ w > 0
             /\ r.ret = "ok"
             /\ \A v \in DOMAIN s.ws : r.ws[v] = s.ws[v]
             /\ r.ws[w].owner = owner /\ ~r.ws[w].data_intact
<1> DEFINE w == s.last_ws_id + 1
           new == [owner |-> owner, type |-> type, ws_ptr |-> FALSE,
                   cur_size |-> size, req_size |-> size,
                   in_use |-> FALSE, data_intact |-> FALSE, content |-> Junk]
           r == NewWorkspace(s, owner, type, size)
<1>1. Fields \subseteq DOMAIN s
  BY DEF Sound, RecordsSound
<1>2. new \in Records
  BY DEF Records
<1>3. /\ r.ws = [v \in DOMAIN s.ws \cup {w} |-> IF v # w THEN s.ws[v] ELSE new]
      /\ r.last_ws_id = w /\ r.idle = s.idle /\ r.slots = s.slots /\ r.free = s.free
      /\ r.ret = "ok" /\ Fields \subseteq DOMAIN r
  BY <1>1 DEF NewWorkspace, Fields
<1>4. w \in Nat /\ w > 0 /\ w \notin DOMAIN s.ws /\ DOMAIN s.ws \subseteq 1 .. w
  BY DEF Sound, RecordsSound
<1>5. ~new.ws_ptr /\ ~new.data_intact /\ new.owner = owner
  OBVIOUS
<1> HIDE DEF r, new, w
<1>6. /\ DOMAIN r.ws = DOMAIN s.ws \cup {w} /\ r.ws[w] = new
      /\ \A v \in DOMAIN s.ws : r.ws[v] = s.ws[v]
      /\ r.ws \in [DOMAIN r.ws -> Records]
  BY <1>2, <1>3, <1>4 DEF Sound, RecordsSound
<1>7. DOMAIN r.ws \subseteq 1 .. w
  <2>1. w \in 1 .. w
    BY <1>4
  <2> QED BY <1>4, <1>6, <2>1
<1>8. RecordsSound(r)
  BY <1>3, <1>4, <1>5, <1>6, <1>7 DEF Sound, RecordsSound
<1>9. IdleSound(r)
  BY <1>3, <1>4, <1>5, <1>6 DEF Sound, IdleSound
<1>10. PoolExact(r)
  BY <1>3 DEF Sound, PoolExact
<1> QED
  BY <1>3, <1>4, <1>5, <1>6, <1>8, <1>9, <1>10 DEF Sound, r, w

\* A freed workspace is gone, from the idle list too.
LEMMA FreeKeeps ==
  ASSUME NEW s, Sound(s), NEW w \in DOMAIN s.ws
  PROVE  LET r == FreeWorkspace(s, w)
         IN  /\ Sound(r) /\ DOMAIN r.ws = DOMAIN s.ws \ {w}
             /\ r.last_ws_id = s.last_ws_id
             /\ OthersKept(s, r, w)
<1> DEFINE off == IF s.ws[w].in_use THEN s ELSE RemoveFromIdleList(s, w)
           r == FreeWorkspace(s, w)
<1>1. /\ Fields \subseteq DOMAIN off
      /\ off.ws = s.ws /\ off.last_ws_id = s.last_ws_id
      /\ off.idle \in Seq(Nat) /\ IsInjective(off.idle)
      /\ Range(off.idle) = Range(s.idle) \ {w}
      /\ PoolExact(off)
  <2>1. CASE s.ws[w].in_use
    BY <2>1 DEF Sound, RecordsSound, IdleSound
  <2>2. CASE ~s.ws[w].in_use
    BY <2>2, TakenOff
  <2> QED BY <2>1, <2>2
<1>2. r = [off EXCEPT !.total_size = @ - Space(s.ws, {w}), !.ret = "ok",
                      !.ws = [v \in DOMAIN @ \ {w} |-> @[v]]]
  BY DEF FreeWorkspace
<1> HIDE DEF off, r
<1>3. /\ r.ws = [v \in DOMAIN s.ws \ {w} |-> s.ws[v]]
      /\ r.last_ws_id = s.last_ws_id /\ r.idle = off.idle
      /\ r.slots = off.slots /\ r.free = off.free /\ Fields \subseteq DOMAIN r
  BY <1>1, <1>2 DEF Fields
<1>4. /\ DOMAIN r.ws = DOMAIN s.ws \ {w}
      /\ \A v \in DOMAIN s.ws \ {w} : r.ws[v] = s.ws[v]
      /\ r.ws \in [DOMAIN r.ws -> Records]
  BY <1>3 DEF Sound, RecordsSound
<1>5. RecordsSound(r)
  BY <1>3, <1>4 DEF Sound, RecordsSound
<1>6. IdleSound(r)
  BY <1>1, <1>3, <1>4 DEF Sound, IdleSound
<1>7. PoolExact(r)
  BY <1>1, <1>3 DEF PoolExact
<1> QED
  BY <1>3, <1>4, <1>5, <1>6, <1>7 DEF Sound, OthersKept, r

-----------------------------------------------------------------------------
(* The steps *)

LEMMA InitEstablishes ==
  ASSUME Init PROVE IInv
<1>1. PICK l \in Limits :
        wsp = [ws |-> <<>>, idle |-> <<>>, slots |-> 0, free |-> 0, total_size |-> 0,
               maximum_size |-> l[1], threshold_size |-> IF l[2] > l[1] THEN l[1] ELSE l[2],
               last_ws_id |-> 0, ret |-> "ok"]
  BY DEF Init
<1>2. PICK v \in Views : map = [NewMap(v) EXCEPT !.phase = "none"]
  BY DEF Init
<1>3. /\ wsp.ws = <<>> /\ wsp.idle = <<>> /\ wsp.slots = 0 /\ wsp.free = 0
      /\ wsp.last_ws_id = 0 /\ Fields \subseteq DOMAIN wsp
  BY <1>1 DEF Fields
<1>4. DOMAIN wsp.ws = {} /\ Range(wsp.idle) = {} /\ wsp.idle \in Seq(Nat)
      /\ IsInjective(wsp.idle) /\ Len(wsp.idle) = 0
  BY <1>3 DEF Range, IsInjective
<1>5. RecordsSound(wsp)
  <2>1. wsp.ws \in [DOMAIN wsp.ws -> Records]
    BY <1>3, <1>4
  <2> QED BY <1>3, <1>4, <2>1 DEF RecordsSound
<1>6. IdleSound(wsp) /\ PoolExact(wsp)
  BY <1>3, <1>4 DEF IdleSound, PoolExact
<1>7. map \in MapRecord /\ map.phase = "none" /\ map.aws_id = NoId
  <2>1. map = [phase |-> "none", what |-> "fill", view |-> v, aws_id |-> NoId, aws |-> NoId,
               new_amap_req |-> TRUE, failed |-> FALSE]
    BY <1>2 DEF NewMap
  <2> QED BY <2>1 DEF MapRecord, NoId
<1>8. held = {}
  BY DEF Init
<1> QED
  BY <1>5, <1>6, <1>7, <1>8 DEF IInv, Sound, ClientsSound, AreaMapKept, Drawing

\* What an operation on one workspace does to another.
LEMMA Another ==
  ASSUME RecordsSound(wsp), NEW r, NEW w, OthersKept(wsp, r, w), NEW v \in Ids, v # w
  PROVE  /\ v \in DOMAIN r.ws /\ r.ws[v].owner = wsp.ws[v].owner
         /\ wsp.ws[v].in_use => r.ws[v] = wsp.ws[v]
         /\ r.ws[v].data_intact =>
              wsp.ws[v].data_intact /\ r.ws[v].content = wsp.ws[v].content
<1>1. wsp.ws[v] \in Records /\ v \in DOMAIN r.ws
      /\ (r.ws[v] = wsp.ws[v] \/ (~wsp.ws[v].in_use /\ r.ws[v] = Emptied(wsp.ws[v])))
  BY DEF OthersKept, RecordsSound, Ids
<1> QED
  BY <1>1, EmptiedIsRecord

\* A step of the plots, on one of their workspaces or a new one.
LEMMA PlotStep ==
  ASSUME IInv, ~Drawing, UNCHANGED map, NEW w, w \in Ids => w \in Plots,
         Sound(wsp'), OthersKept(wsp, wsp', w),
         held' \subseteq held \cup {w}, w \in held' => Lent(w, "plot")'
  PROVE  IInv'
<1>1. RecordsSound(wsp) /\ ClientsSound /\ AreaMapKept
  BY DEF IInv, Sound
<1>2. \A v \in held' : Lent(v, "plot")'
  <2> TAKE v \in held'
  <2>1. CASE v = w
    BY <2>1
  <2>2. CASE v # w
    <3>1. Lent(v, "plot")
      BY <1>1, <2>2 DEF ClientsSound
    <3>2. v \in DOMAIN wsp'.ws /\ wsp'.ws[v] = wsp.ws[v]
      BY <1>1, <2>2, <3>1, Another DEF Lent
    <3> QED BY <3>1, <3>2 DEF Lent, Ids
  <2> QED BY <2>1, <2>2
<1>3. map.aws_id # NoId =>
        /\ map.aws_id \in Ids' /\ wsp'.ws[map.aws_id].owner = "map"
        /\ wsp'.ws[map.aws_id].data_intact =>
             /\ wsp.ws[map.aws_id].data_intact
             /\ wsp'.ws[map.aws_id].content = wsp.ws[map.aws_id].content
  <2> HAVE map.aws_id # NoId
  <2>1. map.aws_id \in Ids /\ wsp.ws[map.aws_id].owner = "map"
    BY <1>1 DEF ClientsSound
  <2>2. map.aws_id # w
    BY <2>1 DEF Plots
  <2> QED BY <1>1, <2>1, <2>2, Another DEF Ids
<1>4. ClientsSound'
  BY <1>1, <1>2, <1>3 DEF ClientsSound, Drawing
<1>5. AreaMapKept'
  BY <1>1, <1>3 DEF AreaMapKept, Drawing
<1> QED
  BY <1>4, <1>5 DEF IInv

\* A step of the map, on its workspace or a new one.
LEMMA MapStep ==
  ASSUME IInv, UNCHANGED held, NEW w, w \in Ids => wsp.ws[w].owner = "map",
         Sound(wsp'), OthersKept(wsp, wsp', w),
         w \in Ids', wsp'.ws[w].owner = "map",
         map' \in MapRecord, map'.aws_id = map.aws_id \/ map'.aws_id = w,
         Drawing' => Lent(map.aws, "map")', AreaMapKept'
  PROVE  IInv'
<1>1. RecordsSound(wsp) /\ ClientsSound
  BY DEF IInv, Sound
<1>2. \A v \in held : Lent(v, "plot")'
  <2> TAKE v \in held
  <2>1. Lent(v, "plot") /\ v # w
    BY <1>1 DEF ClientsSound, Lent
  <2>2. v \in DOMAIN wsp'.ws /\ wsp'.ws[v] = wsp.ws[v]
    BY <1>1, <2>1, Another DEF Lent
  <2> QED BY <2>1, <2>2 DEF Lent, Ids
<1>3. map'.aws_id # NoId => map'.aws_id \in Ids' /\ wsp'.ws[map'.aws_id].owner = "map"
  <2> HAVE map'.aws_id # NoId
  <2>1. CASE map'.aws_id = w
    BY <2>1
  <2>2. CASE map'.aws_id # w
    <3>1. map.aws_id \in Ids /\ wsp.ws[map.aws_id].owner = "map" /\ map'.aws_id = map.aws_id
      BY <1>1, <2>2 DEF ClientsSound
    <3> QED BY <1>1, <2>2, <3>1, Another DEF Ids
  <2> QED BY <2>1, <2>2
<1>4. ClientsSound'
  BY <1>2, <1>3 DEF ClientsSound
<1> QED
  BY <1>4 DEF IInv

LEMMA SetValuesKeeps ==
  ASSUME IInv, NEW maximum, NEW threshold, SetValues(maximum, threshold) PROVE IInv'
<1>1. /\ wsp'.ws = wsp.ws /\ wsp'.idle = wsp.idle /\ wsp'.slots = wsp.slots
      /\ wsp'.free = wsp.free /\ wsp'.last_ws_id = wsp.last_ws_id
      /\ Fields \subseteq DOMAIN wsp'
  BY DEF SetValues, IInv, Sound, RecordsSound, Fields
<1>2. Sound(wsp')
  BY <1>1 DEF IInv, Sound, RecordsSound, IdleSound, PoolExact
<1> QED
  BY <1>1, <1>2 DEF SetValues, IInv, ClientsSound, AreaMapKept, Drawing, Lent, Ids

LEMMA PlotNewKeeps ==
  ASSUME IInv, NEW type \in Types, NEW size \in PlotSizes, PlotNew(type, size) PROVE IInv'
<1> DEFINE w == wsp.last_ws_id + 1
<1>1. Sound(wsp) /\ size \in Nat \ {0}
  BY SizeAssumption DEF IInv
<1>2. wsp' = NewWorkspace(wsp, "plot", type, size) /\ ~Drawing /\ UNCHANGED <<held, map>>
  BY DEF PlotNew
<1>3. /\ Sound(wsp') /\ w \notin DOMAIN wsp.ws
      /\ DOMAIN wsp'.ws = DOMAIN wsp.ws \cup {w}
      /\ \A v \in DOMAIN wsp.ws : wsp'.ws[v] = wsp.ws[v]
  BY <1>1, <1>2, NewKeeps
<1> HIDE DEF w
<1>4. OthersKept(wsp, wsp', w) /\ w \notin Ids /\ w \notin held
  BY <1>3 DEF OthersKept, Ids, IInv, ClientsSound, Lent
<1> QED
  BY <1>2, <1>3, <1>4, PlotStep

LEMMA PlotUseKeeps ==
  ASSUME IInv, NEW w \in Plots, PlotUse(w) PROVE IInv'
<1>1. Sound(wsp) /\ w \in DOMAIN wsp.ws /\ wsp.ws[w].owner = "plot" /\ w \in Ids
  BY DEF IInv, Plots, Ids
<1>2. wsp' = UseWorkspace(wsp, w) /\ ~Drawing /\ UNCHANGED map
      /\ held' = (IF wsp'.ret = "ok" THEN held \cup {w} ELSE held)
      /\ w \notin held
  BY DEF PlotUse
<1>3. /\ Sound(wsp') /\ OthersKept(wsp, wsp', w) /\ DOMAIN wsp'.ws = DOMAIN wsp.ws
      /\ wsp'.ws[w].owner = wsp.ws[w].owner
      /\ wsp'.ret = "ok" => wsp'.ws[w].in_use /\ wsp'.ws[w].ws_ptr
  BY <1>1, <1>2, UseKeeps
<1>4. w \in held' => Lent(w, "plot")'
  BY <1>1, <1>2, <1>3 DEF Lent, Ids
<1> QED
  BY <1>2, <1>3, <1>4, PlotStep

LEMMA PlotArinamKeeps ==
  ASSUME IInv, NEW w \in Plots, PlotArinam(w) PROVE IInv'
<1>1. wsp' = Arinam(wsp, w) /\ ~Drawing /\ UNCHANGED <<held, map>> /\ w \in held
  BY DEF PlotArinam
<1>2. Sound(wsp) /\ Lent(w, "plot")
  BY <1>1 DEF IInv, ClientsSound
<1>3. /\ w \in DOMAIN wsp.ws /\ wsp.ws[w].owner = "plot"
      /\ wsp.ws[w].in_use /\ wsp.ws[w].ws_ptr
  BY <1>2 DEF Lent, Ids
<1>4. /\ Sound(wsp') /\ OthersKept(wsp, wsp', w) /\ DOMAIN wsp'.ws = DOMAIN wsp.ws
      /\ wsp'.ws[w].owner = wsp.ws[w].owner
      /\ wsp'.ws[w].in_use /\ wsp'.ws[w].ws_ptr = wsp.ws[w].ws_ptr
  BY <1>1, <1>2, <1>3, ArinamKeeps
<1>5. Lent(w, "plot")'
  BY <1>3, <1>4 DEF Lent, Ids
<1> QED
  BY <1>1, <1>4, <1>5, PlotStep

\* Enlarging keeps a workspace that is lent lent, and its content.
LEMMA EnlargeKeeps ==
  ASSUME Sound(wsp), NEW w \in Ids, wsp.ws[w].in_use, wsp' = EnlargeWorkspace(wsp, w)
  PROVE  /\ Sound(wsp') /\ DOMAIN wsp'.ws = DOMAIN wsp.ws /\ OthersKept(wsp, wsp', w)
         /\ wsp'.ws[w].owner = wsp.ws[w].owner
         /\ wsp'.ws[w].in_use /\ wsp'.ws[w].ws_ptr = wsp.ws[w].ws_ptr
         /\ wsp'.ws[w].content = wsp.ws[w].content
         /\ wsp'.ws[w].data_intact = wsp.ws[w].data_intact
<1>1. wsp.ws[w] \in Records /\ w \in DOMAIN wsp.ws
  BY DEF Sound, RecordsSound, Ids
<1> DEFINE amount == wsp.ws[w].cur_size
<1>2. wsp.ws[w].cur_size + amount \in Nat \ {0}
  BY <1>1 DEF Records
<1>3. wsp' = ChangeWorkspaceSize(wsp, w, amount)
  BY DEF EnlargeWorkspace
<1> HIDE DEF amount
<1>4. /\ Sound(wsp') /\ DOMAIN wsp'.ws = DOMAIN wsp.ws /\ OthersKept(wsp, wsp', w)
      /\ SizeOnly(wsp.ws[w], wsp'.ws[w])
  BY <1>1, <1>2, <1>3, ResizeKeeps
<1>5. PICK size \in Nat \ {0} : wsp'.ws[w] = [wsp.ws[w] EXCEPT !.cur_size = size]
  BY <1>4 DEF SizeOnly
<1> QED
  BY <1>1, <1>4, <1>5 DEF Records

LEMMA PlotOverflowKeeps ==
  ASSUME IInv, NEW w \in Plots, PlotOverflow(w) PROVE IInv'
<1>1. wsp' = EnlargeWorkspace(wsp, w) /\ ~Drawing /\ UNCHANGED <<held, map>> /\ w \in held
  BY DEF PlotOverflow
<1>2. Sound(wsp) /\ Lent(w, "plot")
  BY <1>1 DEF IInv, ClientsSound
<1>3. w \in Ids /\ wsp.ws[w].owner = "plot" /\ wsp.ws[w].in_use /\ wsp.ws[w].ws_ptr
  BY <1>2 DEF Lent
<1>4. /\ Sound(wsp') /\ OthersKept(wsp, wsp', w) /\ DOMAIN wsp'.ws = DOMAIN wsp.ws
      /\ wsp'.ws[w].owner = wsp.ws[w].owner
      /\ wsp'.ws[w].in_use /\ wsp'.ws[w].ws_ptr = wsp.ws[w].ws_ptr
  BY <1>1, <1>2, <1>3, EnlargeKeeps
<1>5. Lent(w, "plot")'
  BY <1>3, <1>4 DEF Lent, Ids
<1> QED
  BY <1>1, <1>4, <1>5, PlotStep

LEMMA TrimmedSizes ==
  ASSUME NEW r \in Records, NEW size \in Trimmed(r) PROVE size \in Nat \ {0}
<1>1. r.cur_size \in Nat \ {0}
  BY DEF Records
<1> QED
  BY <1>1 DEF Trimmed

LEMMA PlotIdleKeeps ==
  ASSUME IInv, NEW w \in Plots, PlotIdle(w) PROVE IInv'
<1>1. ~Drawing /\ UNCHANGED map /\ w \in held /\ held' = held \ {w}
  BY DEF PlotIdle
<1>2. PICK size \in Trimmed(wsp.ws[w]) : wsp' = IdleWorkspace(wsp, w, size)
  BY DEF PlotIdle
<1>3. Sound(wsp) /\ Lent(w, "plot")
  BY <1>1 DEF IInv, ClientsSound
<1>4. w \in DOMAIN wsp.ws /\ wsp.ws[w].in_use /\ wsp.ws[w].ws_ptr /\ wsp.ws[w] \in Records
  BY <1>3 DEF Lent, Ids, Sound, RecordsSound
<1>5. size \in Nat \ {0}
  BY <1>4, TrimmedSizes
<1>6. Sound(wsp') /\ OthersKept(wsp, wsp', w)
  BY <1>2, <1>3, <1>4, <1>5, IdleKeeps
<1> QED
  BY <1>1, <1>6, PlotStep

LEMMA PlotFreeKeeps ==
  ASSUME IInv, NEW w \in Plots, PlotFree(w) PROVE IInv'
<1>1. wsp' = FreeWorkspace(wsp, w) /\ ~Drawing /\ UNCHANGED <<held, map>> /\ w \notin held
  BY DEF PlotFree
<1>2. Sound(wsp) /\ w \in DOMAIN wsp.ws
  BY DEF IInv, Plots, Ids
<1>3. Sound(wsp') /\ OthersKept(wsp, wsp', w)
  BY <1>1, <1>2, FreeKeeps
<1> QED
  BY <1>1, <1>3, PlotStep

LEMMA MapCreateKeeps ==
  ASSUME IInv, NEW view \in Views, MapCreate(view) PROVE IInv'
<1>1. map' = [phase |-> "off", what |-> "fill", view |-> view, aws_id |-> NoId, aws |-> NoId,
              new_amap_req |-> TRUE, failed |-> FALSE]
      /\ UNCHANGED <<wsp, held>>
  BY DEF MapCreate, NewMap
<1>2. map' \in MapRecord
  BY <1>1 DEF MapRecord, NoId
<1> QED
  BY <1>1, <1>2 DEF IInv, ClientsSound, AreaMapKept, Drawing, Lent, Ids

LEMMA ChangeViewKeeps ==
  ASSUME IInv, NEW view \in Views, ChangeView(view) PROVE IInv'
<1>1. /\ map \in MapRecord /\ map.phase = "off" /\ UNCHANGED <<wsp, held>>
      /\ map' = [map EXCEPT !.view = view, !.new_amap_req = TRUE]
  BY DEF ChangeView, IInv, ClientsSound
<1>2. /\ map' \in MapRecord /\ map'.phase = "off" /\ map'.new_amap_req
      /\ map'.aws_id = map.aws_id
  BY <1>1 DEF MapRecord
<1> QED
  BY <1>1, <1>2 DEF IInv, ClientsSound, AreaMapKept, Drawing, Lent, Ids

LEMMA MapDestroyKeeps ==
  ASSUME IInv, MapDestroy PROVE IInv'
<1>1. /\ map.phase = "off" /\ UNCHANGED held
      /\ wsp' = IF map.aws_id = NoId THEN wsp ELSE FreeWorkspace(wsp, map.aws_id)
      /\ map' = [map EXCEPT !.phase = "none", !.aws_id = NoId, !.new_amap_req = TRUE,
                            !.failed = FALSE]
  BY DEF MapDestroy
<1>2. map \in MapRecord /\ Sound(wsp) /\ ClientsSound
  BY DEF IInv, ClientsSound
<1>3. map' \in MapRecord /\ map'.phase = "none" /\ map'.aws_id = NoId
  <2> DEFINE m == [map EXCEPT !.phase = "none", !.aws_id = NoId]
             n == [m EXCEPT !.new_amap_req = TRUE]
  <2>0. NoId \in Int
    BY DEF NoId
  <2>1. m \in MapRecord /\ m.phase = "none" /\ m.aws_id = NoId
    BY <1>2, <2>0 DEF MapRecord
  <2>2. map' = [n EXCEPT !.failed = FALSE]
    BY <1>1
  <2> HIDE DEF m
  <2>3. n \in MapRecord /\ n.phase = "none" /\ n.aws_id = NoId
    BY <2>1 DEF MapRecord
  <2> HIDE DEF n
  <2> QED BY <2>2, <2>3 DEF MapRecord
<1>4. Sound(wsp') /\ \A v \in held : Lent(v, "plot")'
  <2>1. CASE map.aws_id = NoId
    BY <1>1, <1>2, <2>1 DEF ClientsSound, Lent, Ids
  <2>2. CASE map.aws_id # NoId
    <3>1. map.aws_id \in DOMAIN wsp.ws /\ wsp.ws[map.aws_id].owner = "map"
      BY <1>2, <2>2 DEF ClientsSound, Ids
    <3>2. Sound(wsp') /\ OthersKept(wsp, wsp', map.aws_id)
      BY <1>1, <1>2, <2>2, <3>1, FreeKeeps
    <3>3. ASSUME NEW v \in held PROVE Lent(v, "plot")'
      <4>1. Lent(v, "plot") /\ v # map.aws_id
        BY <1>2, <3>1 DEF ClientsSound, Lent
      <4>2. v \in DOMAIN wsp'.ws /\ wsp'.ws[v] = wsp.ws[v]
        BY <1>2, <3>2, <4>1, Another DEF Lent, Sound
      <4> QED BY <4>1, <4>2 DEF Lent, Ids
    <3> QED BY <3>2, <3>3
  <2> QED BY <2>1, <2>2
<1>5. ClientsSound' /\ AreaMapKept'
  BY <1>1, <1>3, <1>4 DEF ClientsSound, AreaMapKept, Drawing
<1> QED
  BY <1>4, <1>5 DEF IInv

LEMMA MapRecords ==
  ASSUME NEW m \in MapRecord
  PROVE  /\ Ready(m) \in MapRecord /\ Ready(m).phase = "draw" /\ Ready(m).aws = m.aws
         /\ Ready(m).aws_id = m.aws /\ Ready(m).failed = m.failed /\ Ready(m).view = m.view
         /\ Returned(m) \in MapRecord /\ Returned(m).phase = "off"
         /\ Returned(m).aws_id = m.aws_id /\ Returned(m).failed = m.failed
         /\ Returned(m).view = m.view
         /\ Failed(m) \in MapRecord /\ Failed(m).aws_id = m.aws_id
         /\ Failed(m).failed = m.failed /\ Failed(m).view = m.view
         /\ Failed(m).phase = "off" \/ (Failed(m).phase = "idle" /\ Failed(m).aws = m.aws)
<1>1. NoId \in Int
  BY DEF NoId
<1>2. /\ Ready(m) \in MapRecord /\ Ready(m).phase = "draw" /\ Ready(m).aws = m.aws
      /\ Ready(m).aws_id = m.aws /\ Ready(m).failed = m.failed /\ Ready(m).view = m.view
  BY DEF Ready, MapRecord
<1>3. /\ Returned(m) \in MapRecord /\ Returned(m).phase = "off"
      /\ Returned(m).aws_id = m.aws_id /\ Returned(m).failed = m.failed
      /\ Returned(m).view = m.view
  BY <1>1 DEF Returned, MapRecord
<1>4. CASE m.what = "fill"
  <2>1. Failed(m) = [m EXCEPT !.phase = "idle"]
    BY <1>4 DEF Failed
  <2> QED BY <1>2, <1>3, <2>1 DEF MapRecord
<1>5. CASE m.what # "fill"
  <2>1. Failed(m) = Returned(m)
    BY <1>5 DEF Failed
  <2> QED BY <1>2, <1>3, <2>1
<1> QED
  BY <1>4, <1>5

\* A step of the map that is drawing, on the workspace it was lent and which it keeps
\* as long as it draws.
LEMMA DrawingStep ==
  ASSUME IInv, Drawing, UNCHANGED held, Sound(wsp'), OthersKept(wsp, wsp', map.aws),
         map.aws \in Ids', wsp'.ws[map.aws].owner = "map",
         map' \in MapRecord, map'.aws_id = map.aws_id \/ map'.aws_id = map.aws,
         Drawing' => map'.aws = map.aws /\ wsp'.ws[map.aws].in_use /\ wsp'.ws[map.aws].ws_ptr,
         AreaMapKept'
  PROVE  IInv'
<1>1. Lent(map.aws, "map")
  BY DEF IInv, ClientsSound
<1>2. map.aws \in Ids => wsp.ws[map.aws].owner = "map"
  BY <1>1 DEF Lent
<1>3. Drawing' => Lent(map.aws, "map")'
  BY DEF Lent
<1> QED
  BY <1>2, <1>3, MapStep

\* A lent workspace, for the map that draws.
LEMMA MapLent ==
  ASSUME IInv, Drawing
  PROVE  /\ Sound(wsp) /\ map \in MapRecord /\ map.aws \in Ids /\ map.aws \in DOMAIN wsp.ws
         /\ wsp.ws[map.aws] \in Records /\ wsp.ws[map.aws].owner = "map"
         /\ wsp.ws[map.aws].in_use /\ wsp.ws[map.aws].ws_ptr
BY DEF IInv, ClientsSound, Lent, Ids, Sound, RecordsSound

LEMMA MapArinamKeeps ==
  ASSUME IInv, MapArinam PROVE IInv'
<1>1. map.phase = "arinam" /\ Drawing /\ wsp' = Arinam(wsp, map.aws) /\ UNCHANGED held
  BY DEF MapArinam, Drawing
<1>2. /\ Sound(wsp) /\ map \in MapRecord /\ map.aws \in DOMAIN wsp.ws
      /\ wsp.ws[map.aws].owner = "map"
      /\ wsp.ws[map.aws].in_use /\ wsp.ws[map.aws].ws_ptr
  BY <1>1, MapLent
<1>3. /\ Sound(wsp') /\ DOMAIN wsp'.ws = DOMAIN wsp.ws /\ OthersKept(wsp, wsp', map.aws)
      /\ wsp'.ws[map.aws].owner = wsp.ws[map.aws].owner
      /\ wsp'.ws[map.aws].in_use /\ wsp'.ws[map.aws].ws_ptr = wsp.ws[map.aws].ws_ptr
  BY <1>1, <1>2, ArinamKeeps
<1>4. /\ map' \in MapRecord /\ map'.aws_id = map.aws_id
      /\ Drawing' => map'.aws = map.aws
      /\ AreaMapKept'
  <2>1. CASE map' = [map EXCEPT !.phase = "mplnam"]
    <3>1. map' \in MapRecord /\ map'.phase = "mplnam" /\ map'.aws_id = map.aws_id
          /\ map'.aws = map.aws
      BY <1>2, <2>1 DEF MapRecord
    <3> QED BY <3>1 DEF AreaMapKept
  <2>2. CASE map' = Failed([map EXCEPT !.failed = TRUE])
    <3> DEFINE m == [map EXCEPT !.failed = TRUE]
    <3>1. m \in MapRecord /\ m.failed /\ m.aws_id = map.aws_id /\ m.aws = map.aws
      BY <1>2 DEF MapRecord
    <3>2. map' = Failed(m)
      BY <2>2
    <3> HIDE DEF m
    <3>3. /\ map' \in MapRecord /\ map'.aws_id = map.aws_id /\ map'.failed
          /\ map'.phase = "off" \/ map'.aws = map.aws
      BY <3>1, <3>2, MapRecords
    <3> QED BY <3>3 DEF AreaMapKept, Drawing
  <2> QED BY <2>1, <2>2 DEF MapArinam
<1> QED
  BY <1>1, <1>2, <1>3, <1>4, DrawingStep DEF Ids

LEMMA MapBuiltKeeps ==
  ASSUME IInv, MapBuilt PROVE IInv'
<1> DEFINE new == [wsp.ws[map.aws] EXCEPT !.content = map.view]
           m == [map EXCEPT !.failed = FALSE]
<1>1. /\ map.phase = "mplnam" /\ Drawing /\ UNCHANGED held
      /\ wsp' = [wsp EXCEPT !.ws[map.aws].content = map.view]
      /\ map' = Ready(m)
  BY DEF MapBuilt, Drawing
<1>2. /\ Sound(wsp) /\ map \in MapRecord /\ map.aws \in DOMAIN wsp.ws
      /\ wsp.ws[map.aws] \in Records /\ wsp.ws[map.aws].owner = "map"
      /\ wsp.ws[map.aws].in_use /\ wsp.ws[map.aws].ws_ptr
  BY <1>1, MapLent
<1>3. Fields \subseteq DOMAIN wsp /\ map.aws \notin Range(wsp.idle) /\ map.view \in Views
  BY <1>2 DEF Sound, RecordsSound, IdleSound, MapRecord
<1>4. /\ wsp'.idle = wsp.idle /\ wsp'.slots = wsp.slots /\ wsp'.free = wsp.free
      /\ wsp'.last_ws_id = wsp.last_ws_id /\ Fields \subseteq DOMAIN wsp'
      /\ wsp'.ws = [wsp.ws EXCEPT ![map.aws] = new]
  BY <1>1, <1>2, <1>3 DEF Fields
<1>5. /\ new \in Records /\ new.owner = "map" /\ new.in_use /\ new.ws_ptr
      /\ new.content = map.view
  BY <1>2, <1>3 DEF Records
<1>6. m \in MapRecord /\ m.aws = map.aws /\ m.view = map.view
  BY <1>2 DEF MapRecord
<1> HIDE DEF new, m
<1>7. /\ Sound(wsp') /\ DOMAIN wsp'.ws = DOMAIN wsp.ws /\ wsp'.ws[map.aws] = new
      /\ \A v \in DOMAIN wsp.ws \ {map.aws} : wsp'.ws[v] = wsp.ws[v]
  BY <1>2, <1>3, <1>4, <1>5, RecordChanged
<1>8. OthersKept(wsp, wsp', map.aws)
  BY <1>7 DEF OthersKept
<1>9. /\ map' \in MapRecord /\ map'.phase = "draw" /\ map'.aws = map.aws
      /\ map'.aws_id = map.aws /\ map'.view = map.view
  BY <1>1, <1>6, MapRecords
<1>10. AreaMapKept'
  BY <1>5, <1>7, <1>9 DEF AreaMapKept
<1> QED
  BY <1>1, <1>2, <1>5, <1>7, <1>8, <1>9, <1>10, DrawingStep DEF Ids

\* An error while the area map is built or drawn from.
LEMMA FailedKeeps ==
  ASSUME IInv, map.phase \in {"mplnam", "draw"},
         wsp'.ws[map.aws].content = wsp.ws[map.aws].content,
         map' = Failed([map EXCEPT !.failed = @ \/ map.phase = "mplnam"])
  PROVE  /\ map' \in MapRecord /\ map'.aws_id = map.aws_id
         /\ Drawing' => map'.aws = map.aws
         /\ AreaMapKept'
<1> DEFINE m == [map EXCEPT !.failed = @ \/ map.phase = "mplnam"]
<1>1. Drawing /\ map \in MapRecord
  BY DEF Drawing, IInv, ClientsSound
<1>2. m \in MapRecord
  <2>1. (map.failed \/ map.phase = "mplnam") \in BOOLEAN
    BY <1>1 DEF MapRecord
  <2> DEFINE b == map.failed \/ map.phase = "mplnam"
  <2> HIDE DEF b
  <2>2. [map EXCEPT !.failed = b] \in MapRecord
    BY <1>1, <2>1 DEF MapRecord, b
  <2> QED BY <2>2 DEF b
<1>3. /\ m.aws_id = map.aws_id /\ m.aws = map.aws /\ m.view = map.view
      /\ ~m.failed => ~map.failed /\ map.phase = "draw"
  BY <1>1 DEF MapRecord
<1>4. map' = Failed(m)
  OBVIOUS
<1> HIDE DEF m
<1>5. /\ map' \in MapRecord /\ map'.aws_id = map.aws_id
      /\ map'.failed = m.failed /\ map'.view = map.view
      /\ map'.phase = "off" \/ (map'.phase = "idle" /\ map'.aws = map.aws)
  BY <1>2, <1>3, <1>4, MapRecords
<1>6. ~map'.failed => map.aws_id = map.aws /\ wsp'.ws[map.aws].content = map.view
  BY <1>3, <1>5 DEF IInv, AreaMapKept
<1> QED
  BY <1>5, <1>6 DEF AreaMapKept, Drawing

LEMMA MapOverflowKeeps ==
  ASSUME IInv, MapOverflow PROVE IInv'
<1>1. /\ map.phase \in {"mplnam", "draw"} /\ Drawing /\ UNCHANGED held
      /\ wsp' = EnlargeWorkspace(wsp, map.aws)
      /\ \/ map' = map
         \/ map' = Failed([map EXCEPT !.failed = @ \/ map.phase = "mplnam"])
  BY DEF MapOverflow, Drawing
<1>2. /\ Sound(wsp) /\ map \in MapRecord /\ map.aws \in Ids
      /\ wsp.ws[map.aws].owner = "map"
      /\ wsp.ws[map.aws].in_use /\ wsp.ws[map.aws].ws_ptr
  BY <1>1, MapLent
<1>3. /\ Sound(wsp') /\ DOMAIN wsp'.ws = DOMAIN wsp.ws /\ OthersKept(wsp, wsp', map.aws)
      /\ wsp'.ws[map.aws].owner = wsp.ws[map.aws].owner
      /\ wsp'.ws[map.aws].in_use /\ wsp'.ws[map.aws].ws_ptr = wsp.ws[map.aws].ws_ptr
      /\ wsp'.ws[map.aws].content = wsp.ws[map.aws].content
  BY <1>1, <1>2, EnlargeKeeps
<1>4. /\ map' \in MapRecord /\ map'.aws_id = map.aws_id
      /\ Drawing' => map'.aws = map.aws
      /\ AreaMapKept'
  <2>1. CASE map' = map
    BY <1>1, <1>2, <1>3, <2>1 DEF IInv, AreaMapKept
  <2>2. CASE map' = Failed([map EXCEPT !.failed = @ \/ map.phase = "mplnam"])
    BY <1>1, <1>3, <2>2, FailedKeeps
  <2> QED BY <1>1, <2>1, <2>2
<1> QED
  BY <1>1, <1>2, <1>3, <1>4, DrawingStep DEF Ids

LEMMA MapErrorKeeps ==
  ASSUME IInv, MapError PROVE IInv'
<1>1. /\ map.phase \in {"mplnam", "draw"} /\ Drawing /\ UNCHANGED <<wsp, held>>
      /\ map' = Failed([map EXCEPT !.failed = @ \/ map.phase = "mplnam"])
  BY DEF MapError, Drawing
<1>2. /\ Sound(wsp) /\ map.aws \in Ids /\ wsp.ws[map.aws].owner = "map"
      /\ wsp.ws[map.aws].in_use /\ wsp.ws[map.aws].ws_ptr
  BY <1>1, MapLent
<1>3. /\ map' \in MapRecord /\ map'.aws_id = map.aws_id
      /\ Drawing' => map'.aws = map.aws
      /\ AreaMapKept'
  BY <1>1, FailedKeeps
<1>4. OthersKept(wsp, wsp', map.aws) /\ Sound(wsp') /\ map.aws \in Ids'
  BY <1>1, <1>2 DEF OthersKept, Ids
<1> QED
  BY <1>1, <1>2, <1>3, <1>4, DrawingStep

LEMMA MapDrawnKeeps ==
  ASSUME IInv, MapDrawn PROVE IInv'
<1>1. /\ map.phase = "draw" /\ map' = [map EXCEPT !.phase = "idle"]
      /\ UNCHANGED <<wsp, held>> /\ map \in MapRecord
  BY DEF MapDrawn, IInv, ClientsSound
<1>2. /\ map' \in MapRecord /\ map'.phase = "idle" /\ map'.aws = map.aws
      /\ map'.aws_id = map.aws_id /\ map'.failed = map.failed /\ map'.view = map.view
  BY <1>1 DEF MapRecord
<1> QED
  BY <1>1, <1>2 DEF IInv, ClientsSound, AreaMapKept, Drawing, Lent, Ids

LEMMA MapIdleKeeps ==
  ASSUME IInv, MapIdle PROVE IInv'
<1>1. map.phase = "idle" /\ Drawing /\ map' = Returned(map) /\ UNCHANGED held
  BY DEF MapIdle, Drawing
<1>2. PICK size \in Trimmed(wsp.ws[map.aws]) : wsp' = IdleWorkspace(wsp, map.aws, size)
  BY DEF MapIdle
<1>3. /\ Sound(wsp) /\ map \in MapRecord /\ map.aws \in DOMAIN wsp.ws
      /\ wsp.ws[map.aws] \in Records /\ wsp.ws[map.aws].owner = "map"
      /\ wsp.ws[map.aws].in_use /\ wsp.ws[map.aws].ws_ptr
  BY <1>1, MapLent
<1>4. size \in Nat \ {0}
  BY <1>3, TrimmedSizes
<1>5. /\ Sound(wsp') /\ DOMAIN wsp'.ws = DOMAIN wsp.ws /\ OthersKept(wsp, wsp', map.aws)
      /\ wsp'.ws[map.aws] = Idled(wsp.ws[map.aws], size)
  BY <1>2, <1>3, <1>4, IdleKeeps
<1>6. /\ wsp'.ws[map.aws].owner = "map"
      /\ wsp'.ws[map.aws].content = wsp.ws[map.aws].content
  BY <1>3, <1>5 DEF Idled, Records
<1>7. /\ map' \in MapRecord /\ map'.phase = "off" /\ map'.aws_id = map.aws_id
      /\ map'.failed = map.failed /\ map'.view = map.view
  BY <1>1, <1>3, MapRecords
<1>8. AreaMapKept'
  BY <1>1, <1>6, <1>7 DEF IInv, AreaMapKept
<1>9. ~Drawing'
  BY <1>7 DEF Drawing
<1> QED
  BY <1>1, <1>3, <1>5, <1>6, <1>7, <1>8, <1>9, DrawingStep DEF Ids

\* A map's first workspace is a new record that contains nothing yet.
LEMMA NewMapWorkspace ==
  ASSUME NEW s, NEW size, NEW r, Sound(s), size \in Nat \ {0},
         r = NewWorkspace(s, "map", "AREAMAP", size)
  PROVE  /\ Sound(r) /\ DOMAIN r.ws = DOMAIN s.ws \cup {s.last_ws_id + 1}
         /\ r.last_ws_id = s.last_ws_id + 1
         /\ s.last_ws_id + 1 \notin DOMAIN s.ws /\ s.last_ws_id + 1 \in Nat
         /\ \A v \in DOMAIN s.ws : r.ws[v] = s.ws[v]
         /\ r.ws[s.last_ws_id + 1].owner = "map" /\ ~r.ws[s.last_ws_id + 1].data_intact
<1> DEFINE w == s.last_ws_id + 1
<1>1. Fields \subseteq DOMAIN s /\ s.last_ws_id \in Nat
  BY DEF Sound, RecordsSound
<1>2. r.ws[w].owner = "map" /\ ~r.ws[w].data_intact /\ r.last_ws_id = w
  BY <1>1 DEF NewWorkspace, Fields
<1>3. /\ Sound(r) /\ DOMAIN r.ws = DOMAIN s.ws \cup {w} /\ w \notin DOMAIN s.ws
      /\ \A v \in DOMAIN s.ws : r.ws[v] = s.ws[v]
  <2> SUFFICES ASSUME NEW owner \in {"plot", "map"}, NEW type \in Types,
                      r = NewWorkspace(s, owner, type, size)
               PROVE  /\ Sound(r) /\ DOMAIN r.ws = DOMAIN s.ws \cup {w}
                      /\ w \notin DOMAIN s.ws
                      /\ \A v \in DOMAIN s.ws : r.ws[v] = s.ws[v]
    BY DEF Types
  <2>1. Sound(r) /\ DOMAIN r.ws = DOMAIN s.ws \cup {w} /\ w \notin DOMAIN s.ws
    BY NewKeeps
  <2>2. \A v \in DOMAIN s.ws : r.ws[v] = s.ws[v]
    BY NewKeeps
  <2> QED BY <2>1, <2>2
<1> QED BY <1>1, <1>2, <1>3

\* The first test of mpSetUpAreamap is the one place where a map trusts what an idle
\* workspace contains.
LEMMA SetUpAreamapKeeps ==
  ASSUME IInv, NEW what \in {"fill", "grid"}, NEW size \in MapSizes, SetUpAreamap(what, size)
  PROVE  IInv'
<1> DEFINE made == IF map.aws_id = NoId THEN NewWorkspace(wsp, "map", "AREAMAP", size) ELSE wsp
           aws == IF map.aws_id = NoId THEN made.last_ws_id ELSE map.aws_id
           used == UseWorkspace(made, aws)
           set == [map EXCEPT !.what = what, !.aws = aws]
           begun == [used EXCEPT !.ws[aws].req_size = size]
<1>1. map.phase = "off" /\ UNCHANGED held /\ map \in MapRecord /\ Sound(wsp) /\ AreaMapKept
      /\ size \in Nat \ {0} /\ ClientsSound
  BY SizeAssumption DEF SetUpAreamap, IInv, ClientsSound
<1>2. \/ used.ret # "ok" /\ wsp' = used /\ map' = map
      \/ /\ used.ret = "ok" /\ used.ws[aws].data_intact /\ ~map.new_amap_req
         /\ wsp' = used /\ map' = Ready(set)
      \/ /\ used.ret = "ok" /\ wsp' = begun
         /\ map' = [set EXCEPT !.phase = "arinam"]
  BY DEF SetUpAreamap
<1>3. /\ Sound(made) /\ aws \in DOMAIN made.ws /\ aws \in Int /\ made.ws[aws].owner = "map"
      /\ aws \in Ids => wsp.ws[aws].owner = "map"
      /\ \A v \in DOMAIN wsp.ws : v \in DOMAIN made.ws /\ made.ws[v] = wsp.ws[v]
      /\ map.aws_id = NoId => ~made.ws[aws].data_intact
      /\ map.aws_id # NoId => aws = map.aws_id /\ aws \in DOMAIN wsp.ws
  <2>1. CASE map.aws_id = NoId
    <3> DEFINE w == wsp.last_ws_id + 1
    <3>1. made = NewWorkspace(wsp, "map", "AREAMAP", size)
      BY <2>1
    <3>0. "AREAMAP" \in Types /\ "map" \in {"plot", "map"} /\ Sound(wsp) /\ size \in Nat \ {0}
      BY <1>1 DEF Types
    <3> HIDE DEF made, used, set, begun, aws
    <3>2. /\ Sound(made) /\ DOMAIN made.ws = DOMAIN wsp.ws \cup {w}
          /\ made.last_ws_id = w /\ w \notin DOMAIN wsp.ws /\ w \in Nat
          /\ \A v \in DOMAIN wsp.ws : made.ws[v] = wsp.ws[v]
          /\ made.ws[w].owner = "map" /\ ~made.ws[w].data_intact
      BY <3>0, <3>1, NewMapWorkspace
    <3> HIDE DEF w
    <3> QED BY <2>1, <3>2 DEF Ids, aws
  <2>2. CASE map.aws_id # NoId
    <3>1. made = wsp /\ aws = map.aws_id
      BY <2>2
    <3>2. map.aws_id \in DOMAIN wsp.ws /\ wsp.ws[map.aws_id].owner = "map" /\ map.aws_id \in Int
      BY <1>1, <2>2 DEF ClientsSound, Ids, MapRecord
    <3> QED BY <1>1, <2>2, <3>1, <3>2
  <2> QED BY <2>1, <2>2
<1> HIDE DEF made, aws
<1>4. /\ Sound(used) /\ DOMAIN used.ws = DOMAIN made.ws /\ OthersKept(made, used, aws)
      /\ used.ws[aws].owner = made.ws[aws].owner
      /\ used.ret = "ok" => used.ws[aws].in_use /\ used.ws[aws].ws_ptr
      /\ used.ws[aws].data_intact =>
           made.ws[aws].data_intact /\ used.ws[aws].content = made.ws[aws].content
  BY <1>3, UseKeeps
<1> HIDE DEF used, set, begun
<1>5. OthersKept(wsp, used, aws)
  BY <1>3, <1>4 DEF OthersKept
<1>6. set \in MapRecord /\ set.phase = "off" /\ set.aws = aws /\ set.view = map.view
      /\ set.aws_id = map.aws_id /\ set.failed = map.failed
  BY <1>1, <1>3 DEF MapRecord, set
<1>7. used.ws[aws].data_intact /\ ~map.new_amap_req /\ ~map.failed =>
        used.ws[aws].content = map.view
  BY <1>1, <1>3, <1>4 DEF AreaMapKept
<1>8. CASE used.ret # "ok" /\ wsp' = used /\ map' = map
  <2>1. AreaMapKept'
    BY <1>1, <1>3, <1>7, <1>8 DEF AreaMapKept
  <2>2. ~Drawing'
    BY <1>1, <1>8 DEF Drawing
  <2> QED BY <1>1, <1>3, <1>4, <1>5, <1>8, <2>1, <2>2, MapStep DEF Ids
<1>9. CASE /\ used.ret = "ok" /\ used.ws[aws].data_intact /\ ~map.new_amap_req
           /\ wsp' = used /\ map' = Ready(set)
  <2>1. /\ map' \in MapRecord /\ map'.phase = "draw" /\ map'.aws = aws
        /\ map'.aws_id = aws /\ map'.failed = map.failed /\ map'.view = map.view
    BY <1>6, <1>9, MapRecords
  <2>2. AreaMapKept'
    BY <1>7, <1>9, <2>1 DEF AreaMapKept
  <2>3. Lent(map.aws, "map")'
    BY <1>3, <1>4, <1>9, <2>1 DEF Lent, Ids
  <2> QED BY <1>1, <1>3, <1>4, <1>5, <1>9, <2>1, <2>2, <2>3, MapStep DEF Ids
<1>10. CASE used.ret = "ok" /\ wsp' = begun /\ map' = [set EXCEPT !.phase = "arinam"]
  <2> DEFINE new == [used.ws[aws] EXCEPT !.req_size = size]
  <2>1. /\ Fields \subseteq DOMAIN used /\ used.ws[aws] \in Records /\ aws \in DOMAIN used.ws
        /\ used.ws[aws].in_use /\ used.ws[aws].ws_ptr /\ aws \notin Range(used.idle)
    BY <1>3, <1>4, <1>10 DEF Sound, RecordsSound, IdleSound
  <2>2. /\ wsp'.idle = used.idle /\ wsp'.slots = used.slots /\ wsp'.free = used.free
        /\ wsp'.last_ws_id = used.last_ws_id /\ Fields \subseteq DOMAIN wsp'
        /\ wsp'.ws = [used.ws EXCEPT ![aws] = new]
    BY <1>10, <2>1 DEF Fields, begun
  <2>3. new \in Records /\ new.owner = "map" /\ new.in_use /\ new.ws_ptr
    BY <1>1, <1>3, <1>4, <2>1 DEF Records
  <2> HIDE DEF new
  <2>4. /\ Sound(wsp') /\ DOMAIN wsp'.ws = DOMAIN used.ws /\ wsp'.ws[aws] = new
        /\ \A v \in DOMAIN used.ws \ {aws} : wsp'.ws[v] = used.ws[v]
    BY <1>4, <2>1, <2>2, <2>3, RecordChanged
  <2>5. OthersKept(wsp, wsp', aws)
    BY <1>3, <1>4, <1>5, <2>4 DEF OthersKept
  <2>6. /\ map' \in MapRecord /\ map'.phase = "arinam" /\ map'.aws = aws
        /\ map'.aws_id = map.aws_id
    BY <1>6, <1>10 DEF MapRecord
  <2>7. AreaMapKept' /\ Lent(map.aws, "map")'
    BY <2>1, <2>3, <2>4, <2>6 DEF AreaMapKept, Lent, Ids
  <2> QED BY <1>1, <1>3, <2>1, <2>3, <2>4, <2>5, <2>6, <2>7, MapStep DEF Ids
<1> QED
  BY <1>2, <1>8, <1>9, <1>10

LEMMA StepKeeps ==
  ASSUME IInv, [Next]_vars PROVE IInv'
<1>1. CASE UNCHANGED vars
  BY <1>1 DEF vars, IInv, ClientsSound, AreaMapKept, Drawing, Lent, Ids
<1>2. ASSUME NEW l \in Limits, SetValues(l[1], l[2]) PROVE IInv'
  BY <1>2, SetValuesKeeps
<1>3. ASSUME NEW type \in Types, NEW size \in PlotSizes, PlotNew(type, size) PROVE IInv'
  BY <1>3, PlotNewKeeps
<1>4. ASSUME NEW w \in Plots,
             PlotUse(w) \/ PlotArinam(w) \/ PlotOverflow(w) \/ PlotIdle(w) \/ PlotFree(w)
      PROVE  IInv'
  BY <1>4, PlotUseKeeps, PlotArinamKeeps, PlotOverflowKeeps, PlotIdleKeeps, PlotFreeKeeps
<1>5. ASSUME NEW v \in Views, MapCreate(v) \/ ChangeView(v) PROVE IInv'
  BY <1>5, MapCreateKeeps, ChangeViewKeeps
<1>6. ASSUME NEW what \in {"fill", "grid"}, NEW size \in MapSizes, SetUpAreamap(what, size)
      PROVE  IInv'
  BY <1>6, SetUpAreamapKeeps
<1>7. CASE MapArinam \/ MapBuilt \/ MapOverflow \/ MapError \/ MapDrawn \/ MapIdle \/ MapDestroy
  BY <1>7, MapArinamKeeps, MapBuiltKeeps, MapOverflowKeeps, MapErrorKeeps, MapDrawnKeeps,
     MapIdleKeeps, MapDestroyKeeps
<1> QED
  BY <1>1, <1>2, <1>3, <1>4, <1>5, <1>6, <1>7 DEF Next

THEOREM Invariant ==
  Spec => []IInv
<1>1. Init => IInv
  BY InitEstablishes
<1>2. IInv /\ [Next]_vars => IInv'
  BY StepKeeps
<1> QED
  BY <1>1, <1>2, PTL DEF Spec

-----------------------------------------------------------------------------
\* The records, what plots and maps hold and where a map stands keep their types; what
\* is held is in use and has its storage (_NhlUseWorkspace, _NhlIdleWorkspace).
THEOREM TypesHold ==
  Spec => []TypeOK
<1>1. IInv => TypeOK
  <2> HAVE IInv
  <2>1. Sound(wsp) /\ ClientsSound /\ map \in MapRecord
    BY DEF IInv, ClientsSound
  <2>2. Ids \subseteq 1 .. wsp.last_ws_id
        /\ \A w \in Ids : wsp.ws[w] \in Records /\ (wsp.ws[w].data_intact => wsp.ws[w].ws_ptr)
    BY <2>1 DEF Sound, RecordsSound, Ids
  <2>3. held \subseteq Plots
        /\ \A w \in held : wsp.ws[w].in_use /\ wsp.ws[w].ws_ptr
    BY <2>1 DEF ClientsSound, Lent, Plots
  <2>4. \A w \in (IF Drawing THEN {map.aws} ELSE {}) : wsp.ws[w].in_use /\ wsp.ws[w].ws_ptr
    BY <2>1 DEF ClientsSound, Lent
  <2>5. map.phase \in {"none", "off", "arinam", "mplnam", "draw", "idle"}
        /\ map.aws_id \in Ids \cup {NoId}
    BY <2>1 DEF ClientsSound, MapRecord
  <2> QED BY <2>2, <2>3, <2>4, <2>5 DEF TypeOK
<1> QED
  BY <1>1, Invariant, PTL

\* Whatever is used, idled, freed and given up, the idle list has exactly the workspaces
\* whose storage may be given up (AddToIdleList, RemoveFromIdleList).
THEOREM IdleListStaysExact ==
  Spec => []IdleListExact
<1>1. IInv => IdleListExact
  BY DEF IInv, Sound, IdleSound, IdleListExact, Ids
<1> QED
  BY <1>1, Invariant, PTL

\* The pool of list nodes is never overrun and never hands out a slot without a node,
\* for every size of its refills (GetIdleRec, PutBackIdleRec).
THEOREM PoolStaysSound ==
  Spec => []PoolSound
<1>1. IInv => PoolSound
  BY DEF IInv, Sound, PoolExact, PoolSound
<1> QED
  BY <1>1, Invariant, PTL

\* A map is drawn from a finished area map of what it shows, however other plots have
\* used and lost workspaces since its last draw (mpSetUpAreamap).
THEOREM MapStaysWhole ==
  Spec => []MapWhole
<1>1. IInv => MapWhole
  BY DEF IInv, AreaMapKept, MapWhole
<1> QED
  BY <1>1, Invariant, PTL
=============================================================================
