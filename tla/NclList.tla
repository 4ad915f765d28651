------------------------------- MODULE NclList -------------------------------
(***************************************************************************)
(* The lists of the NCL language, src/ni/src/ncl/NclList.c: doubly linked  *)
(* chains of cells that name variables by id, the variables' side of it    *)
(* (VarAddParent, VarDelParent and the DESTROYED callbacks, NclVar.c), and *)
(* the list operations of the machine (Execute.c) that sequence a copy.    *)
(*                                                                         *)
(* One process, but operations nest: popping or destroying a list drops a  *)
(* variable's last reference, whose destruction calls back every list that *)
(* still holds it.  todo is the stack of the operations under way; a new   *)
(* one starts when it is empty.                                            *)
(***************************************************************************)
EXTENDS Integers, Sequences, SequencesExt, FiniteSets

CONSTANTS List,      \* list ids
          Var,       \* variable ids
          Cell,      \* the memory of NclListObjList cells
          NULL,
          Types,     \* list_type, the part that says from which end to pop
          MaxLength, \* bound: the longest selection
          MaxRefs    \* bound: the data values that hold one list

ASSUME DistinctAssumption == NULL \notin List \cup Var \cup Cell
ASSUME TypeAssumption == Types \subseteq {"NCL_FIFO", "NCL_LIFO"}
ASSUME MemoryAssumption == IsFiniteSet(Cell)
ASSUME BoundAssumption == MaxLength \in Nat /\ MaxRefs \in Nat \ {0}

VARIABLES heap,     \* the cells in use
          lists,    \* the lists that are registered
          vars,     \* the variables that are registered
          todo,     \* the operations under way, innermost first
          loops,    \* the list expressions being evaluated, innermost first
          unseen,   \* history: the cells a sequencing has yet to hand out
          fault     \* a null or freed pointer was followed

all == <<heap, lists, vars, todo, loops, unseen, fault>>

FIFO == "NCL_FIFO"
IDLE == "NCL_LIST_IDLE"
SEQUENCING == "NCL_LIST_SEQUENCING"

Has(f, k) == k \in DOMAIN f

With(f, k, v) == [x \in DOMAIN f \cup {k} |-> IF x = k THEN v ELSE f[x]]
Without(f, k) == [x \in DOMAIN f \ {k} |-> f[x]]

FreeCells == Cell \ DOMAIN heap

\* Nothing is under way.
Quiet == todo = <<>> /\ fault = "none"

\* An id is handed out again only when nobody remembers it (see ObjTable).
FreshList(l) ==
  /\ ~Has(lists, l)
  /\ \A x \in DOMAIN vars :
       /\ vars[x].parents[l] = 0
       /\ \A i \in DOMAIN vars[x].cblist : vars[x].cblist[i].list # l

FreshVar(x) == ~Has(vars, x) /\ \A c \in DOMAIN heap : heap[c].obj_id # x

\* ref_count is 0 for the temporary list of an expression, which no data value
\* holds.
NewList(type, ref_count) ==
  [list_type |-> type, first |-> NULL, last |-> NULL, nelem |-> 0,
   state |-> IDLE, current_item |-> NULL, ref_count |-> ref_count]

\* parents counts the entries each list has in the variable's list of parents.
NewVar(named) == [named |-> named, parents |-> [l \in List |-> 0], cblist |-> <<>>]

Init ==
  /\ heap = [c \in {} |-> NULL]
  /\ lists = [l \in {} |-> NULL]
  /\ vars = [x \in {} |-> NULL]
  /\ todo = <<>>
  /\ loops = <<>>
  /\ unseen = [l \in List |-> {}]
  /\ fault = "none"

-----------------------------------------------------------------------------
(* The variables' side. *)

\* _NclAddParent and _NclAddCallback, for the cell c of list l.
Hold(x, l, c) ==
  [x EXCEPT !.parents[l] = @ + 1, !.cblist = Append(@, [list |-> l, cell |-> c])]

\* _NhlCBDelete of the callback of cell c.
Unwatch(x, c) ==
  LET i == CHOOSE i \in DOMAIN x.cblist : x.cblist[i].cell = c
  IN  [x EXCEPT !.cblist = RemoveAt(@, i)]

\* VarDelParent removes every entry of this parent.
DelParent(x, l) == [x EXCEPT !.parents[l] = 0]

Parents(x) == {l \in List : x.parents[l] > 0}

\* Faulty: the references that are left are compared with the wrong bound.
Unreferenced_TooFew(x, l) == ~x.named /\ Cardinality(Parents(DelParent(x, l))) < 0

\* A variable without a symbol goes with its last reference.
Unreferenced(x, l) ==
  /\ ~x.named
  /\ Parents(x) # {} /\ Parents(DelParent(x, l)) = {}

\* A variable of the program comes into being, or is deleted.
Define(x) ==
  /\ Quiet /\ FreshVar(x)
  /\ vars' = With(vars, x, NewVar(TRUE))
  /\ UNCHANGED <<heap, lists, todo, loops, unseen, fault>>

Dying(x) == [op |-> "destroy", var |-> x]

DestroyVar(x) ==
  /\ Quiet /\ Has(vars, x) /\ vars[x].named
  /\ todo' = <<Dying(x)>>
  /\ UNCHANGED <<heap, lists, vars, loops, unseen, fault>>

\* _NclDestroyObj calls the DESTROYED callbacks in the order they were added,
\* then VarDestroy unregisters and frees the variable.
Notify(l, x) == [op |-> "notify", list |-> l, var |-> x, step |-> NULL]

CallBack ==
  /\ fault = "none" /\ todo # <<>> /\ todo[1].op = "destroy"
  /\ LET x == todo[1].var
     IN  IF vars[x].cblist # <<>>
         THEN /\ todo' = <<Notify(vars[x].cblist[1].list, x)>> \o todo
              /\ vars' = [vars EXCEPT ![x].cblist = Tail(@)]
         ELSE /\ todo' = Tail(todo)
              /\ vars' = Without(vars, x)
  /\ UNCHANGED <<heap, lists, loops, unseen, fault>>

-----------------------------------------------------------------------------
(* ListItemDestroyNotify: every cell of the variable leaves the list. *)

\* Faulty: the last pointer is left at the cell that is freed.
Relast_Missing(list, tmp) == list.last

\* Where last points once cell tmp has been cut out.
Relast(list, tmp) == IF tmp = list.last THEN heap[tmp].prev ELSE list.last

\* Free cell tmp of list l, whose other fields become list.
FreeCell(l, list, tmp) ==
  /\ lists' = [lists EXCEPT ![l] = list]
  /\ unseen' = [unseen EXCEPT ![l] = @ \ {tmp}]

NotifyHead ==
  LET l == todo[1].list
      x == todo[1].var
      tmp == lists[l].first
      next == heap[tmp].next
      last == IF next = NULL THEN NULL ELSE Relast(lists[l], tmp)
  IN  /\ tmp # NULL /\ heap[tmp].obj_id = x
      /\ FreeCell(l, [lists[l] EXCEPT !.first = next, !.last = last, !.nelem = @ - 1], tmp)
      /\ heap' = IF next = NULL THEN Without(heap, tmp)
                 ELSE [Without(heap, tmp) EXCEPT ![next].prev = NULL]
      /\ UNCHANGED <<todo, vars, loops, fault>>

\* Faulty: the walk does not go on.
Beyond_Stay(step, tmp) == step

\* Where the walk goes on from step when the cell tmp that follows stays.
Beyond(step, tmp) == tmp

\* The first cell is no longer one of the variable's.
NotifyStep ==
  LET l == todo[1].list
      x == todo[1].var
      first == lists[l].first
      step == IF todo[1].step = NULL THEN first ELSE todo[1].step
      tmp == heap[step].next
      next == heap[tmp].next
  IN  /\ first # NULL /\ heap[first].obj_id # x
      /\ tmp # NULL
      /\ IF heap[tmp].obj_id = x
         THEN /\ FreeCell(l, [lists[l] EXCEPT !.last = Relast(lists[l], tmp), !.nelem = @ - 1], tmp)
              /\ LET cut == [Without(heap, tmp) EXCEPT ![step].next = next]
                 IN  heap' = IF next = NULL THEN cut ELSE [cut EXCEPT ![next].prev = step]
              /\ todo' = [todo EXCEPT ![1].step = step]
         ELSE /\ todo' = [todo EXCEPT ![1].step = Beyond(step, tmp)]
              /\ UNCHANGED <<heap, lists, unseen>>
      /\ UNCHANGED <<vars, loops, fault>>

NotifyEnd ==
  LET first == lists[todo[1].list].first
      step == IF todo[1].step = NULL THEN first ELSE todo[1].step
  IN  /\ first # NULL => heap[first].obj_id # todo[1].var /\ heap[step].next = NULL
      /\ todo' = Tail(todo)
      /\ UNCHANGED <<heap, lists, vars, loops, unseen, fault>>

\* _NclGetObj finds no list of that id, and the result is not tested.
NotifyNoList ==
  /\ fault' = "no list"
  /\ UNCHANGED <<heap, lists, vars, todo, loops, unseen>>

ItemDestroyNotify ==
  /\ fault = "none" /\ todo # <<>> /\ todo[1].op = "notify"
  /\ IF Has(lists, todo[1].list)
     THEN NotifyHead \/ NotifyStep \/ NotifyEnd
     ELSE NotifyNoList

-----------------------------------------------------------------------------
(* Creating, filling and typing a list. *)

ListCreate(l, type) ==
  /\ Quiet /\ FreshList(l)
  /\ lists' = With(lists, l, NewList(type, 1))
  /\ UNCHANGED <<heap, vars, todo, loops, unseen, fault>>

\* Values are put into a new variable without a name; a variable is entered
\* itself.  orig_type remembers which it was.
Entered(x, orig) == IF orig = "value" THEN FreshVar(x) ELSE Has(vars, x)

VarOf(x, orig) == IF orig = "value" THEN NewVar(FALSE) ELSE vars[x]

\* Faulty: the next pointer of the last cell keeps what malloc left there.
NewCell_Unset(x, orig, prev, next) ==
  [obj_id |-> x, orig_type |-> orig, prev |-> prev, next |-> IF next = NULL THEN "unset" ELSE next]

NewCell(x, orig, prev, next) == [obj_id |-> x, orig_type |-> orig, prev |-> prev, next |-> next]

ValueList(l) == Has(lists, l) /\ lists[l].ref_count > 0

\* The cell c, if any, gets a new neighbour.
Relink(h, c, field, new) == IF c = NULL THEN h ELSE [h EXCEPT ![c][field] = new]

ListAppend(l, x, orig, c) ==
  /\ Quiet /\ ValueList(l) /\ Entered(x, orig) /\ c \in FreeCells
  /\ LET last == lists[l].last
     IN  /\ heap' = With(Relink(heap, last, "next", c), c, NewCell(x, orig, last, NULL))
         /\ lists' = [lists EXCEPT ![l].last = c, ![l].nelem = @ + 1,
                                   ![l].first = IF last = NULL THEN c ELSE @]
  /\ vars' = With(vars, x, Hold(VarOf(x, orig), l, c))
  /\ UNCHANGED <<todo, loops, unseen, fault>>

ListPush(l, x, orig, c) ==
  /\ Quiet /\ ValueList(l) /\ Entered(x, orig) /\ c \in FreeCells
  /\ LET first == lists[l].first
     IN  /\ heap' = With(Relink(heap, first, "prev", c), c, NewCell(x, orig, NULL, first))
         /\ lists' = [lists EXCEPT ![l].first = c, ![l].nelem = @ + 1,
                                   ![l].last = IF first = NULL THEN c ELSE @]
  /\ vars' = With(vars, x, Hold(VarOf(x, orig), l, c))
  /\ UNCHANGED <<todo, loops, unseen, fault>>

ListSetType(l, type) ==
  /\ Quiet /\ ValueList(l)
  /\ lists' = [lists EXCEPT ![l].list_type = type]
  /\ UNCHANGED <<heap, vars, todo, loops, unseen, fault>>

-----------------------------------------------------------------------------
(* ListPop *)

\* Faulty: the ends are confused.
PopsLast_Swapped(list) == list.list_type # FIFO

PopsLast(list) == list.list_type = FIFO

\* The list without its last cell (FIFO) or its first (LIFO).
PopLast(list) ==
  [list EXCEPT !.last = heap[list.last].prev,
               !.first = IF list.nelem = 1 THEN heap[list.last].prev ELSE @,
               !.current_item = IF @ = list.last THEN heap[list.last].next ELSE @,
               !.nelem = @ - 1]

PopFirst(list) ==
  [list EXCEPT !.first = heap[list.first].next,
               !.last = IF list.nelem = 1 THEN heap[list.first].next ELSE @,
               !.current_item = IF @ = list.first THEN heap[list.first].prev ELSE @,
               !.nelem = @ - 1]

\* What becomes of the variable of a popped cell: its value is stripped from it
\* and it is destroyed, or it loses this parent.
LetGo(l, x, c, orig) ==
  LET var == Unwatch(vars[x], c)
  IN  IF orig = "value"
      THEN vars' = [vars EXCEPT ![x] = var] /\ todo' = <<Dying(x)>>
      ELSE /\ vars' = [vars EXCEPT ![x] = DelParent(var, l)]
           /\ todo' = IF Unreferenced(var, l) THEN <<Dying(x)>> ELSE <<>>

ListPop(l) ==
  /\ Quiet /\ ValueList(l)
  /\ lists[l].first # NULL /\ lists[l].last # NULL
  /\ LET list == lists[l]
         fifo == PopsLast(list)
         c == IF fifo THEN list.last ELSE list.first
     IN  /\ lists' = [lists EXCEPT ![l] = IF fifo THEN PopLast(list) ELSE PopFirst(list)]
         /\ heap' = Without(IF fifo THEN Relink(heap, heap[c].prev, "next", NULL)
                            ELSE Relink(heap, heap[c].next, "prev", NULL), c)
         /\ LetGo(l, heap[c].obj_id, c, heap[c].orig_type)
  /\ UNCHANGED <<loops, unseen, fault>>

-----------------------------------------------------------------------------
(* ListDestroy, and the data values that hold the list. *)

Unmaking(l, c) == [op |-> "unmake", list |-> l, cell |-> c]

\* _NclUnRegisterObj, and the walk over the cells begins.
Unmake(l) ==
  /\ lists' = Without(lists, l)
  /\ unseen' = [unseen EXCEPT ![l] = {}]
  /\ todo' = <<Unmaking(l, lists[l].first)>> \o todo
  /\ UNCHANGED <<heap, vars, fault>>

\* Faulty: the callback stays on the variable.
Forsake_Watched(x, l, c) == DelParent(x, l)

Forsake(x, l, c) == DelParent(Unwatch(x, c), l)

ListDestroy ==
  /\ fault = "none" /\ todo # <<>> /\ todo[1].op = "unmake"
  /\ LET l == todo[1].list
         c == todo[1].cell
         x == heap[c].obj_id
         rest == <<[todo[1] EXCEPT !.cell = heap[c].next]>> \o Tail(todo)
     IN  IF c = NULL
         THEN todo' = Tail(todo) /\ UNCHANGED <<heap, vars>>
         ELSE /\ heap' = Without(heap, c)
              /\ vars' = [vars EXCEPT ![x] = Forsake(@, l, c)]
              /\ todo' = IF Unreferenced(vars[x], l) THEN <<Dying(x)>> \o rest ELSE rest
  /\ UNCHANGED <<lists, loops, unseen, fault>>

ListAddParent(l) ==
  /\ Quiet /\ ValueList(l) /\ lists[l].ref_count < MaxRefs
  /\ lists' = [lists EXCEPT ![l].ref_count = @ + 1]
  /\ UNCHANGED <<heap, vars, todo, loops, unseen, fault>>

ListDelParent(l) ==
  /\ Quiet /\ ValueList(l)
  /\ IF lists[l].ref_count = 1
     THEN Unmake(l) /\ UNCHANGED loops
     ELSE /\ lists' = [lists EXCEPT ![l].ref_count = @ - 1]
          /\ UNCHANGED <<heap, vars, todo, loops, unseen, fault>>

-----------------------------------------------------------------------------
(* ListSelect *)

\* The cells of a list in the order of their next pointers.
Chain(l) ==
  LET walk[n \in 0 .. Cardinality(Cell)] ==
        IF n = 0 THEN IF lists[l].first = NULL THEN <<>> ELSE <<lists[l].first>>
        ELSE LET w == walk[n - 1]
             IN  IF w = <<>> \/ heap[w[Len(w)]].next = NULL THEN w
                 ELSE Append(w, heap[w[Len(w)]].next)
  IN  walk[Cardinality(Cell)]

\* Every stride-th position from start to finish, in either direction; a
\* negative stride reverses the result.
Progression(start, finish, stride) ==
  LET by == IF stride < 0 THEN -stride ELSE stride
      count == 1 + (IF start <= finish THEN finish - start ELSE start - finish) \div by
      at(k) == IF start <= finish THEN start + (k - 1) * by ELSE start - (k - 1) * by
      taken == [k \in 1 .. count |-> at(k)]
  IN  IF stride < 0 THEN Reverse(taken) ELSE taken

\* The range of a selection: a bound that is left out is an end of the list.
Low(sel) == IF sel.kind = "to" THEN 0 ELSE sel.start
High(sel, nelem) == IF sel.kind = "from" THEN nelem - 1 ELSE sel.finish

\* The positions a selection names, counted from 0: a vector of indices or a
\* range.
Positions(sel, nelem) ==
  IF sel.kind = "vector" THEN sel.ind
  ELSE Progression(Low(sel), High(sel, nelem), sel.stride)

InRange(p, nelem) == p >= 0 /\ p < nelem

\* The positions that are entered before an index out of range is found: a range
\* is tested first, a vector is entered from its end.
Entering(sel, nelem) ==
  LET ps == Positions(sel, nelem)
      bad == {k \in DOMAIN ps : ~InRange(ps[k], nelem)}
  IN  IF sel.kind = "vector"
      THEN IF bad = {} THEN ps
           ELSE SubSeq(ps, 1 + CHOOSE k \in bad : \A j \in bad : j <= k, Len(ps))
      ELSE IF InRange(Low(sel), nelem) /\ InRange(High(sel, nelem), nelem) THEN ps
      ELSE <<>>

Valid(sel, nelem) == Entering(sel, nelem) = Positions(sel, nelem)

\* The variables once the cells cs of list m hold the items.
Held(m, cs, items) ==
  LET held[k \in 0 .. Len(cs)] ==
        IF k = 0 THEN vars ELSE [held[k - 1] EXCEPT ![items[k]] = Hold(@, m, cs[k])]
  IN  held[Len(cs)]

\* Cells for the variables at positions ps of list l make up a list m, entered
\* in the table when it is complete and unmade when it is not.
Select(l, ps, m, ref_count, complete) ==
  LET n == Len(ps)
      from == Chain(l)
      items == [k \in 1 .. n |-> heap[from[ps[k] + 1]].obj_id]
  IN  \E cs \in [1 .. n -> FreeCells] :
        LET at(k) == IF k \in 1 .. n THEN cs[k] ELSE NULL
            new(c) == LET k == CHOOSE k \in 1 .. n : cs[k] = c
                      IN  NewCell(items[k], "var", at(k - 1), at(k + 1))
        IN  /\ IsInjective(cs)
            /\ heap' = [c \in DOMAIN heap \cup ToSet(cs) |-> IF Has(heap, c) THEN heap[c] ELSE new(c)]
            /\ vars' = Held(m, cs, items)
            /\ lists' = IF complete
                        THEN With(lists, m,
                               [NewList(lists[l].list_type, ref_count) EXCEPT
                                  !.first = at(1), !.last = at(n), !.nelem = n])
                        ELSE lists
            /\ todo' = IF complete THEN <<>> ELSE <<Unmaking(m, at(1))>>

\* The data value that holds a list is copied: ListSelect of no selection.
ListCopy(l, m) ==
  /\ Quiet /\ ValueList(l) /\ FreshList(m)
  /\ Select(l, [k \in 1 .. lists[l].nelem |-> k - 1], m, 1, TRUE)
  /\ UNCHANGED <<loops, unseen, fault>>

-----------------------------------------------------------------------------
(* An expression on a list: the machine selects a temporary list (LIST_READ),*)
(* evaluates the rest of the expression on each element in turn (SET_NEXT),  *)
(* and joins the results (TERM_LIST).  The functions this evaluation calls   *)
(* may do any of the other operations, further such expressions included.    *)

\* number_of_item: 0 has the expression refused.  A bound that is left out
\* counts as 0; in a vector the expression reads the address of the indices.
NumberOfItem(sel) ==
  IF sel.kind = "vector" THEN Len(sel.ind)
  ELSE 1 + High(sel, 1) - Low(sel)

ListRead(l, sel, m) ==
  /\ Quiet /\ ValueList(l) /\ FreshList(m)
  /\ NumberOfItem(sel) # 0
  /\ LET nelem == lists[l].nelem
     IN  /\ Select(l, Entering(sel, nelem), m, 0, Valid(sel, nelem))
         /\ loops' = IF Valid(sel, nelem)
                     THEN <<[list |-> m, results |-> 0, done |-> FALSE]>> \o loops
                     ELSE loops
  /\ UNCHANGED <<unseen, fault>>

\* Faulty: the sequencing starts at the first element.
Start_First(list) == list.first

Start(list) == list.last

\* ListGetNext starts when idle, hands out an element, and is idle at the end.
SetNext ==
  /\ Quiet /\ loops # <<>> /\ ~loops[1].done
  /\ LET m == loops[1].list
         list == lists[m]
         c == IF list.state = IDLE THEN Start(list) ELSE list.current_item
         cells == IF list.state = IDLE THEN ToSet(Chain(m)) ELSE unseen[m]
     IN  IF c = NULL
         THEN /\ lists' = [lists EXCEPT ![m].state = IDLE, ![m].current_item = NULL]
              /\ loops' = [loops EXCEPT ![1].done = TRUE]
              /\ unseen' = [unseen EXCEPT ![m] = cells]
              /\ UNCHANGED fault
         ELSE IF c \in ToSet(Chain(m))
         THEN /\ lists' = [lists EXCEPT ![m].state = SEQUENCING,
                                        ![m].current_item = heap[c].prev]
              /\ loops' = [loops EXCEPT ![1].results = @ + 1]
              /\ unseen' = [unseen EXCEPT ![m] = cells \ {c}]
              /\ UNCHANGED fault
         ELSE fault' = "freed cell" /\ UNCHANGED <<lists, loops, unseen>>
  /\ UNCHANGED <<heap, vars, todo>>

\* The results are taken from the stack, as many as the list has elements, and
\* the temporary list is destroyed.
Term ==
  /\ Quiet /\ loops # <<>> /\ loops[1].done
  /\ Unmake(loops[1].list)
  /\ loops' = Tail(loops)

-----------------------------------------------------------------------------
\* The subscripts of list expressions, up to the bound.
Vectors == {[kind |-> "vector", ind |-> v] : v \in SeqOf(0 .. MaxLength, MaxLength) \ {<<>>}}

Ranges ==
  LET index == 0 .. MaxLength
      strides == {-1, 1, 2}
  IN  [kind : {"range"}, start : index, finish : index, stride : strides]
        \cup [kind : {"from"}, start : index, stride : strides]
        \cup [kind : {"to"}, finish : index, stride : strides]

Selections == Vectors \cup Ranges

Environment ==
  \/ \E x \in Var : Define(x) \/ DestroyVar(x)
  \/ \E l \in List, t \in Types : ListCreate(l, t) \/ ListSetType(l, t)
  \/ \E l \in List, x \in Var, o \in {"value", "var"}, c \in Cell :
       ListPush(l, x, o, c) \/ ListAppend(l, x, o, c)
  \/ \E l \in List : ListPop(l) \/ ListAddParent(l) \/ ListDelParent(l)
  \/ \E l, m \in List, sel \in Selections : ListRead(l, sel, m)
  \/ \E l, m \in List : ListCopy(l, m)
  \/ SetNext \/ Term

Next == Environment \/ CallBack \/ ItemDestroyNotify \/ ListDestroy

Spec == Init /\ [][Next]_all
-----------------------------------------------------------------------------
ItemsOf(l) == LET chain == Chain(l) IN [k \in DOMAIN chain |-> heap[chain[k]].obj_id]

CellType ==
  [obj_id : Var, orig_type : {"value", "var"}, prev : Cell \cup {NULL}, next : Cell \cup {NULL}]

ListType ==
  [list_type : Types, first : Cell \cup {NULL}, last : Cell \cup {NULL},
   nelem : 0 .. Cardinality(Cell), state : {IDLE, SEQUENCING},
   current_item : Cell \cup {NULL}, ref_count : 0 .. MaxRefs]

VarType ==
  [named : BOOLEAN, parents : [List -> Nat], cblist : Seq([list : List, cell : Cell])]

FrameType ==
  [op : {"destroy"}, var : Var]
    \cup [op : {"notify"}, list : List, var : Var, step : Cell \cup {NULL}]
    \cup [op : {"unmake"}, list : List, cell : Cell \cup {NULL}]

TypeOK ==
  /\ DOMAIN heap \subseteq Cell /\ \A c \in DOMAIN heap : heap[c] \in CellType
  /\ DOMAIN lists \subseteq List /\ \A l \in DOMAIN lists : lists[l] \in ListType
  /\ DOMAIN vars \subseteq Var /\ \A x \in DOMAIN vars : vars[x] \in VarType
  /\ todo \in Seq(FrameType) /\ loops \in Seq([list : List, results : Nat, done : BOOLEAN])
  /\ unseen \in [List -> SUBSET Cell]
  /\ fault \in {"none", "no list", "freed cell"}

\* Even in the middle of a removal, a list is a chain of nelem cells from first
\* to last, and prev leads back along it.
WellLinked ==
  \A l \in DOMAIN lists :
    LET chain == Chain(l)
        n == Len(chain)
    IN  /\ lists[l].nelem = n
        /\ ToSet(chain) \subseteq DOMAIN heap /\ Cardinality(ToSet(chain)) = n
        /\ lists[l].last = IF n = 0 THEN NULL ELSE chain[n]
        /\ \A k \in 1 .. n :
             /\ heap[chain[k]].prev = IF k = 1 THEN NULL ELSE chain[k - 1]
             /\ heap[chain[k]].next = IF k = n THEN NULL ELSE chain[k + 1]

\* Between operations every cell in use is on a list, its variable exists and
\* will tell the list of its end; and no variable would tell anyone else.
Watched ==
  Quiet =>
    LET cells == UNION {{l} \X ToSet(Chain(l)) : l \in DOMAIN lists}
        watches == UNION {{<<cb.list, cb.cell>> : cb \in ToSet(vars[x].cblist)} : x \in DOMAIN vars}
    IN  /\ DOMAIN heap = {lc[2] : lc \in cells}
        /\ \A lc \in cells :
             LET x == heap[lc[2]].obj_id
             IN  Has(vars, x) /\ [list |-> lc[1], cell |-> lc[2]] \in ToSet(vars[x].cblist)
        /\ watches \subseteq cells

\* Between operations a variable without a name is held by a list, and whatever
\* list it counts as a parent does have it: nothing leaks, and nothing is kept
\* by a list it has left.
NoLeak ==
  Quiet =>
    \A x \in DOMAIN vars :
      /\ ~vars[x].named => Parents(vars[x]) # {}
      /\ \A l \in Parents(vars[x]) : Has(lists, l) /\ x \in ToSet(ItemsOf(l))

\* When the sequencing of a list ends it has handed out every element that is
\* still there.
AllHandedOut ==
  \A i \in DOMAIN loops : loops[i].done => unseen[loops[i].list] = {}

\* Every operation comes to its end, if only the process goes on.
OperationsEnd == todo # <<>> ~> (todo = <<>> \/ fault # "none")

Progress == WF_all(CallBack \/ ItemDestroyNotify \/ ListDestroy)

FairSpec == Spec /\ Progress

\* A variable that dies is always told to a list that exists.
NoListMissing == fault # "no list"

\* Sequencing never steps onto a cell that has been freed: "list has to be
\* sequenced which require unique storage", says ListSelect.
SequencesOwnCells == fault # "freed cell"

\* To its users a list is a sequence of variables.
Content == [l \in DOMAIN lists |-> [type |-> lists[l].list_type, items |-> ItemsOf(l)]]
DyingVars == {todo[i].var : i \in {j \in DOMAIN todo : todo[j].op = "destroy"}}

Promise == INSTANCE NclListPromise WITH content <- Content, dying <- DyingVars

KeepsPromise == Promise!Spec
=============================================================================
