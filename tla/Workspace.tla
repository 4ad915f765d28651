------------------------------ MODULE Workspace ------------------------------
(***************************************************************************)
(* The Workspace object of the HLU library, src/ni/src/lib/hlu/            *)
(* Workspace.c: it lends the low-level graphics routines their work        *)
(* arrays.  A workspace that is not in use keeps its storage and stays on  *)
(* an idle list, the one idled last in front; when the storage of all      *)
(* workspaces would pass threshold_size, idle ones are given up from the   *)
(* back, and a request that would pass maximum_size even so is refused.    *)
(*                                                                         *)
(* Two clients: the plots, which use workspaces as scratch, and the data   *)
(* handler of a map (MapV41DataHandler.c), which alone relies on what an   *)
(* idle workspace contains: it fills from the area map of its last draw    *)
(* when the manager says that the data are intact.                         *)
(*                                                                         *)
(* A size counts blocks of 256 bytes, the least a workspace is trimmed to. *)
(* Every caller asks for persistence NhlwsNONE, so that only the scratch   *)
(* idle list is ever used; malloc succeeds.                                *)
(***************************************************************************)
EXTENDS Integers, Sequences, FiniteSets, FiniteSetsExt, SequencesExt

CONSTANTS Views,      \* what a map may show: projection, limits, areas
          PlotSizes,  \* the sizes plots ask for
          MapSizes,   \* the sizes an area map is estimated to need
          Limits,     \* the pairs <<maximum, threshold>> wsMaximumSize and wsThresholdSize are set to
          Chunk,      \* NhlwsIDLE_REC_ALLOC
          MaxIds      \* bound on the workspaces ever created

ASSUME SizeAssumption == PlotSizes \cup MapSizes \subseteq Nat \ {0}
ASSUME LimitAssumption == Limits \subseteq Nat \X Nat
ASSUME BoundAssumption == Chunk \in Nat \ {0} /\ MaxIds \in Nat

VARIABLES wsp,   \* WSp, the workspace records, the idle list and the pool its nodes come from
          held,  \* the workspaces plots have a pointer to
          map    \* the map's data handler

vars == <<wsp, held, map>>

\* The workspaces that are trimmed, area maps and CONPACK's arrays (which nobody
\* begins anew), and the others, which keep their size.
Types == {"AREAMAP", "OTHER"}
Junk == "junk"        \* storage whose content nobody relies on
Partial == "partial"  \* an area map begun and not finished
NoId == -1

Ids == DOMAIN wsp.ws

\* The storage the workspaces of a set have.
Space(ws, W) ==
  MapThenSumSet(LAMBDA w : IF ws[w].ws_ptr THEN ws[w].cur_size ELSE 0, W)

-----------------------------------------------------------------------------
(* The idle list and the pool its nodes come from. *)

\* Faulty: after a refill all slots are taken to have a node.
Refilled_All(s) ==
  IF s.free > 0 THEN s ELSE [s EXCEPT !.slots = @ + Chunk, !.free = s.slots + Chunk]

\* GetIdleRec, the part that refills the pool.  Its slots up to NextIdleRec have a node
\* each; a refill is made when none has, adds Chunk slots and fills as many.
Refilled(s) ==
  IF s.free > 0 THEN s ELSE [s EXCEPT !.slots = @ + Chunk, !.free = Chunk]

AddToIdleList(s, w) ==
  [Refilled(s) EXCEPT !.free = @ - 1, !.idle = <<w>> \o @]

\* With PutBackIdleRec.
RemoveFromIdleList(s, w) ==
  IF w \in Range(s.idle) THEN [s EXCEPT !.free = @ + 1, !.idle = RemoveFirst(@, w)] ELSE s

-----------------------------------------------------------------------------
(* The storage. *)

\* Faulty: the one idled last is given up first.
GivenUp_Newest(s, over) ==
  LET Before(k) == {s.idle[l] : l \in 1 .. k - 1}
  IN  {s.idle[k] : k \in {k \in DOMAIN s.idle : Space(s.ws, Before(k)) < over}}

\* The idle workspaces that are given up: from the back of the list, until what
\* those behind one had makes up for the excess.
GivenUp(s, over) ==
  LET Behind(k) == {s.idle[l] : l \in k + 1 .. Len(s.idle)}
  IN  {s.idle[k] : k \in {k \in DOMAIN s.idle : Space(s.ws, Behind(k)) < over}}

\* Faulty: data_intact stays set when the storage is given up.
Emptied_StillIntact(r) == [r EXCEPT !.ws_ptr = FALSE, !.content = Junk]

\* A workspace without storage.
Emptied(r) == [r EXCEPT !.ws_ptr = FALSE, !.data_intact = FALSE, !.content = Junk]

ReduceCurrentAlloc(s, over) ==
  LET given == {w \in GivenUp(s, over) : s.ws[w].ws_ptr}
  IN  [s EXCEPT !.ws = [w \in DOMAIN @ |-> IF w \in given THEN Emptied(@[w]) ELSE @[w]],
                !.total_size = @ - Space(s.ws, given)]

\* Making room for an amount, the excess over the threshold given up where it can be.
MakeRoom(s, amount) ==
  ReduceCurrentAlloc(s, s.total_size + amount - s.threshold_size)

Fits(s, amount) == s.total_size + amount <= s.maximum_size

\* _NhlUseWorkspace, with GetScratchSpace.
UseWorkspace(s, w) ==
  LET amount == IF s.ws[w].ws_ptr THEN 0 ELSE s.ws[w].cur_size
      room == MakeRoom([RemoveFromIdleList(s, w) EXCEPT !.ws[w].in_use = TRUE], amount)
  IN  IF s.ws[w].in_use THEN [s EXCEPT !.ret = "busy"]
      ELSE IF s.ws[w].ws_ptr THEN [room EXCEPT !.ret = "ok"]
      ELSE IF ~Fits(room, amount)
           THEN [room EXCEPT !.ws[w].in_use = FALSE, !.ret = "refused"]
      ELSE [room EXCEPT !.ws[w].ws_ptr = TRUE, !.ws[w].data_intact = FALSE,
                        !.total_size = @ + amount, !.ret = "ok"]

\* ChangeWorkspaceSize; EnlargeWorkspace is the same for the current size.
ChangeWorkspaceSize(s, w, amount) ==
  LET room == MakeRoom(s, amount)
  IN  IF Fits(room, amount)
      THEN [room EXCEPT !.ws[w].cur_size = @ + amount,
                        !.total_size = @ + amount, !.ret = "ok"]
      ELSE [room EXCEPT !.ret = "refused"]

EnlargeWorkspace(s, w) == ChangeWorkspaceSize(s, w, s.ws[w].cur_size)

\* _NhlArinam: the area map begins anew, in the size that was asked for.
Arinam(s, w) ==
  LET r == s.ws[w]
      begun == [s EXCEPT !.ws[w].data_intact = FALSE, !.ret = "ok"]
      sized == IF r.cur_size = r.req_size THEN begun
               ELSE ChangeWorkspaceSize(begun, w, r.req_size - r.cur_size)
  IN  IF sized.ret = "ok" THEN [sized EXCEPT !.ws[w].content = Partial] ELSE sized

\* TrimWorkspace.  What the array or the low-level routine says was used is any amount.
Trimmed(r) ==
  IF r.type = "OTHER" THEN {r.cur_size} ELSE 1 .. r.cur_size

\* Faulty: a workspace that is trimmed keeps its old size in the total.
IdleWorkspace_Untold(s, w, size) ==
  AddToIdleList([s EXCEPT !.ws[w].cur_size = size,
                          !.ws[w].in_use = FALSE,
                          !.ws[w].data_intact = TRUE,
                          !.ret = "ok"], w)

\* _NhlIdleWorkspace, trimmed to a size.
IdleWorkspace(s, w, size) ==
  AddToIdleList([s EXCEPT !.total_size = @ - (s.ws[w].cur_size - size),
                          !.ws[w].cur_size = size,
                          !.ws[w].in_use = FALSE,
                          !.ws[w].data_intact = TRUE,
                          !.ret = "ok"], w)

\* _NhlNewWorkspace: a record, and no storage yet.
NewWorkspace(s, owner, type, size) ==
  LET w == s.last_ws_id + 1
  IN  [s EXCEPT !.last_ws_id = w, !.ret = "ok",
                !.ws = [v \in DOMAIN @ \cup {w} |->
                          IF v # w THEN @[v]
                          ELSE [owner |-> owner, type |-> type, ws_ptr |-> FALSE,
                                cur_size |-> size, req_size |-> size,
                                in_use |-> FALSE, data_intact |-> FALSE,
                                content |-> Junk]]]

\* Faulty: the record goes, its place on the idle list does not.
FreeWorkspace_StillIdle(s, w) ==
  [s EXCEPT !.total_size = @ - Space(s.ws, {w}), !.ret = "ok",
            !.ws = [v \in DOMAIN @ \ {w} |-> @[v]]]

\* _NhlFreeWorkspace, with wsDeleteNode.
FreeWorkspace(s, w) ==
  LET off == IF s.ws[w].in_use THEN s ELSE RemoveFromIdleList(s, w)
  IN  [off EXCEPT !.total_size = @ - Space(s.ws, {w}), !.ret = "ok",
                  !.ws = [v \in DOMAIN @ \ {w} |-> @[v]]]

-----------------------------------------------------------------------------
(* The Workspace object's resources. *)

\* Faulty: a threshold above the maximum is accepted.
SetValues_Unchecked(maximum, threshold) ==
  /\ wsp' = [wsp EXCEPT !.maximum_size = maximum, !.threshold_size = threshold]
  /\ UNCHANGED <<held, map>>

\* WorkspaceSetValues, with wsMaximumSize and wsThresholdSize above their least values.
SetValues(maximum, threshold) ==
  /\ wsp' = [wsp EXCEPT !.maximum_size = maximum,
                        !.threshold_size = IF threshold > maximum THEN maximum ELSE threshold]
  /\ UNCHANGED <<held, map>>

-----------------------------------------------------------------------------
(* The plots: contour, vector, streamline and the map transformation. *)

Drawing == map.phase \notin {"none", "off"}

Plots == {w \in Ids : wsp.ws[w].owner = "plot"}

PlotNew(type, size) ==
  /\ ~Drawing
  /\ wsp.last_ws_id < MaxIds
  /\ wsp' = NewWorkspace(wsp, "plot", type, size)
  /\ UNCHANGED <<held, map>>

PlotUse(w) ==
  /\ ~Drawing
  /\ w \notin held
  /\ wsp' = UseWorkspace(wsp, w)
  /\ held' = IF wsp'.ret = "ok" THEN held \cup {w} ELSE held
  /\ UNCHANGED map

\* A label area map of its own (cnInitAreamap).
PlotArinam(w) ==
  /\ ~Drawing
  /\ w \in held
  /\ wsp.ws[w].type = "AREAMAP"
  /\ wsp' = Arinam(wsp, w)
  /\ UNCHANGED <<held, map>>

\* A low-level routine finds the array too small.
PlotOverflow(w) ==
  /\ ~Drawing
  /\ w \in held
  /\ wsp' = EnlargeWorkspace(wsp, w)
  /\ UNCHANGED <<held, map>>

\* At the end of a draw, whether it succeeded or not; the pointer becomes NULL.
PlotIdle(w) ==
  /\ ~Drawing
  /\ w \in held
  /\ \E size \in Trimmed(wsp.ws[w]) : wsp' = IdleWorkspace(wsp, w, size)
  /\ held' = held \ {w}
  /\ UNCHANGED map

PlotFree(w) ==
  /\ ~Drawing
  /\ w \notin held
  /\ wsp' = FreeWorkspace(wsp, w)
  /\ UNCHANGED <<held, map>>

-----------------------------------------------------------------------------
(* The map. *)

\* The map's data handler as it is made.
NewMap(view) ==
  [phase |-> "off", what |-> "fill", view |-> view, aws_id |-> NoId, aws |-> NoId,
   new_amap_req |-> TRUE, failed |-> FALSE]

MapCreate(view) ==
  /\ map.phase = "none"
  /\ map' = NewMap(view)
  /\ UNCHANGED <<wsp, held>>

\* MapV41DHDestroy.
MapDestroy ==
  /\ map.phase = "off"
  /\ wsp' = IF map.aws_id = NoId THEN wsp ELSE FreeWorkspace(wsp, map.aws_id)
  /\ map' = [map EXCEPT !.phase = "none", !.aws_id = NoId, !.new_amap_req = TRUE,
                        !.failed = FALSE]
  /\ UNCHANGED held

\* Faulty: a change of the view does not call for a new area map.
ChangeView_Unasked(view) ==
  /\ map.phase = "off"
  /\ map' = [map EXCEPT !.view = view]
  /\ UNCHANGED <<wsp, held>>

\* MapV41DHUpdateDrawList: what is shown has changed.
ChangeView(view) ==
  /\ map.phase = "off"
  /\ map' = [map EXCEPT !.view = view, !.new_amap_req = TRUE]
  /\ UNCHANGED <<wsp, held>>

\* The area map is there: it is remembered and drawn from.
Ready(m) == [m EXCEPT !.phase = "draw", !.aws_id = m.aws, !.new_amap_req = FALSE]

\* mpFill or mpGrid returns.
Returned(m) == [m EXCEPT !.phase = "off", !.what = "fill", !.aws = NoId]

\* mpFill gives the workspace back after an error; mpGrid returns with it in use.
Failed(m) == IF m.what = "fill" THEN [m EXCEPT !.phase = "idle"] ELSE Returned(m)

\* mpFill or mpGrid: mpSetUpAreamap up to the test whether the data are intact.
\* When the workspace cannot be had, the one just made is forgotten.
SetUpAreamap(what, size) ==
  /\ map.phase = "off"
  /\ map.aws_id = NoId => wsp.last_ws_id < MaxIds
  /\ LET new == map.aws_id = NoId
         made == IF new THEN NewWorkspace(wsp, "map", "AREAMAP", size) ELSE wsp
         aws == IF new THEN made.last_ws_id ELSE map.aws_id
         used == UseWorkspace(made, aws)
         set == [map EXCEPT !.what = what, !.aws = aws]
     IN  IF used.ret # "ok" THEN wsp' = used /\ map' = map
         ELSE IF used.ws[aws].data_intact /\ ~map.new_amap_req
         THEN wsp' = used /\ map' = Ready(set)
         ELSE /\ wsp' = [used EXCEPT !.ws[aws].req_size = size]
              /\ map' = [set EXCEPT !.phase = "arinam"]
  /\ UNCHANGED held

MapArinam ==
  /\ map.phase = "arinam"
  /\ wsp' = Arinam(wsp, map.aws)
  /\ map' = IF wsp'.ret = "ok" THEN [map EXCEPT !.phase = "mplnam"]
            ELSE Failed([map EXCEPT !.failed = TRUE])
  /\ UNCHANGED held

\* _NhlMplnam has put all areas into the map.
MapBuilt ==
  /\ map.phase = "mplnam"
  /\ wsp' = [wsp EXCEPT !.ws[map.aws].content = map.view]
  /\ map' = Ready([map EXCEPT !.failed = FALSE])
  /\ UNCHANGED held

\* The area map overflows while it is built (_NhlMplnam) or drawn from (_NhlArscam,
\* _NhlMapgrm): the routine enlarges it and starts again, or returns an error.
MapOverflow ==
  /\ map.phase \in {"mplnam", "draw"}
  /\ wsp' = EnlargeWorkspace(wsp, map.aws)
  /\ map' = IF wsp'.ret = "ok" THEN map
            ELSE Failed([map EXCEPT !.failed = @ \/ map.phase = "mplnam"])
  /\ UNCHANGED held

\* Any other error of the low-level routines.
MapError ==
  /\ map.phase \in {"mplnam", "draw"}
  /\ map' = Failed([map EXCEPT !.failed = @ \/ map.phase = "mplnam"])
  /\ UNCHANGED <<wsp, held>>

MapDrawn ==
  /\ map.phase = "draw"
  /\ map' = [map EXCEPT !.phase = "idle"]
  /\ UNCHANGED <<wsp, held>>

MapIdle ==
  /\ map.phase = "idle"
  /\ \E size \in Trimmed(wsp.ws[map.aws]) : wsp' = IdleWorkspace(wsp, map.aws, size)
  /\ map' = Returned(map)
  /\ UNCHANGED held

-----------------------------------------------------------------------------
\* WorkspaceInitialize, and no map yet.
Init ==
  /\ \E l \in Limits :
       wsp = [ws |-> <<>>, idle |-> <<>>, slots |-> 0, free |-> 0, total_size |-> 0,
              maximum_size |-> l[1], threshold_size |-> IF l[2] > l[1] THEN l[1] ELSE l[2],
              last_ws_id |-> 0, ret |-> "ok"]
  /\ held = {}
  /\ \E v \in Views : map = [NewMap(v) EXCEPT !.phase = "none"]

Next ==
  \/ \E l \in Limits : SetValues(l[1], l[2])
  \/ \E type \in Types, size \in PlotSizes : PlotNew(type, size)
  \/ \E w \in Plots : \/ PlotUse(w) \/ PlotArinam(w) \/ PlotOverflow(w)
                      \/ PlotIdle(w) \/ PlotFree(w)
  \/ \E v \in Views : MapCreate(v) \/ ChangeView(v)
  \/ \E what \in {"fill", "grid"}, size \in MapSizes : SetUpAreamap(what, size)
  \/ MapArinam \/ MapBuilt \/ MapOverflow \/ MapError \/ MapDrawn \/ MapIdle \/ MapDestroy

Spec == Init /\ [][Next]_vars

-----------------------------------------------------------------------------
Records == [owner : {"plot", "map"}, type : Types, ws_ptr : BOOLEAN,
            cur_size : Nat \ {0}, req_size : Nat \ {0}, in_use : BOOLEAN,
            data_intact : BOOLEAN, content : Views \cup {Junk, Partial}]

\* Types of the variables; a workspace a client points to is in use and has its
\* storage; one without storage never counts as intact (ReduceCurrentAlloc, _NhlNewWorkspace).
TypeOK ==
  /\ Ids \subseteq 1 .. wsp.last_ws_id
  /\ \A w \in Ids : wsp.ws[w] \in Records /\ (wsp.ws[w].data_intact => wsp.ws[w].ws_ptr)
  /\ held \subseteq Plots
  /\ \A w \in held \cup (IF Drawing THEN {map.aws} ELSE {}) :
       wsp.ws[w].in_use /\ wsp.ws[w].ws_ptr
  /\ map.phase \in {"none", "off", "arinam", "mplnam", "draw", "idle"}
  /\ map.aws_id \in Ids \cup {NoId}

\* The total that WorkspaceGetValues reports and every limit is tested against is the
\* storage the workspaces have, whatever they were trimmed, enlarged and given up by
\* (the count that DEBUG_WS prints as "the actual value").
Accounted == wsp.total_size = Space(wsp.ws, Ids)

\* The idle list has the workspaces whose storage may be given up, each once: all that
\* have storage and are not in use, none that is in use and none that was freed.
IdleListExact ==
  /\ \A w \in Range(wsp.idle) : w \in Ids /\ ~wsp.ws[w].in_use
  /\ IsInjective(wsp.idle)
  /\ \A w \in Ids : wsp.ws[w].ws_ptr /\ ~wsp.ws[w].in_use => w \in Range(wsp.idle)

\* Over all refills the pool has a slot for every node that is out, and no more slots
\* without one: PutBackIdleRec never writes past its end, and GetIdleRec never hands out
\* what a slot without a node contains.
PoolSound == wsp.free + Len(wsp.idle) = wsp.slots

\* A request is refused for want of space only when nothing idle has any left to give
\* up: idle workspaces never cost a plot its draw.
RefusedOnlyWhenFull ==
  wsp.ret = "refused" =>
    \A w \in Range(wsp.idle) : ~wsp.ws[w].ws_ptr

\* No step takes the storage of a workspace in use, and among the idle ones the one
\* idled longest ago loses it first (ReduceCurrentAlloc starts at ScratchTail).
GivesUpOldestFirst ==
  [][\A w \in Ids \cap DOMAIN wsp'.ws :
       wsp.ws[w].ws_ptr /\ ~wsp'.ws[w].ws_ptr =>
         \E k \in DOMAIN wsp.idle :
           /\ wsp.idle[k] = w
           /\ \A l \in k .. Len(wsp.idle) :
                LET v == wsp.idle[l]
                IN  v \in DOMAIN wsp'.ws => ~wsp'.ws[v].ws_ptr \/ wsp'.ws[v].in_use]_vars

\* A map is drawn from a finished area map of what it shows, whichever plots took the
\* storage since its last draw, unless building the area map has failed since one was
\* finished (_NhlWorkspaceDataIntact and new_amap_req decide, MapV41DataHandler.c:2908).
MapWhole ==
  map.phase = "draw" /\ ~map.failed => wsp.ws[map.aws].content = map.view
=============================================================================
