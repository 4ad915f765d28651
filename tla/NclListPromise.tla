--------------------------- MODULE NclListPromise ---------------------------
(***************************************************************************)
(* What the lists of src/ni/src/ncl/NclList.c promise: a list is a         *)
(* sequence of variables, filled at either end and emptied at the end its  *)
(* type says, from which a variable that dies is taken before it is gone.  *)
(***************************************************************************)
EXTENDS Integers, Sequences, SequencesExt

CONSTANTS List, Var

VARIABLES content,  \* the type and the variables of each list
          dying     \* the variables whose destruction is under way

vars == <<content, dying>>

Init == content = [l \in {} |-> <<>>] /\ dying = {}

Holders(x) == {l \in DOMAIN content : x \in ToSet(content[l].items)}

Has(l) == l \in DOMAIN content

Become(l, items) == content' = [content EXCEPT ![l].items = items]

Enter(l, type, items) ==
  content' = [m \in DOMAIN content \cup {l} |->
                IF m = l THEN [type |-> type, items |-> items] ELSE content[m]]

Create(l, type) == ~Has(l) /\ Enter(l, type, <<>>) /\ UNCHANGED dying

Push(l, x) == Has(l) /\ Become(l, <<x>> \o content[l].items) /\ UNCHANGED dying

AddLast(l, x) == Has(l) /\ Become(l, Append(content[l].items, x)) /\ UNCHANGED dying

SetType(l, type) ==
  Has(l) /\ content' = [content EXCEPT ![l].type = type] /\ UNCHANGED dying

\* A pop may be the end of the variable.
Pop(l) ==
  /\ Has(l) /\ content[l].items # <<>>
  /\ LET items == content[l].items
         fifo == content[l].type = "NCL_FIFO"
         x == IF fifo THEN Last(items) ELSE Head(items)
     IN  /\ Become(l, IF fifo THEN Front(items) ELSE Tail(items))
         /\ dying' \in {dying, dying \cup {x}}

\* A new list of elements of l.
Select(l, m) ==
  /\ Has(l) /\ ~Has(m)
  /\ m \in DOMAIN content'
  /\ \E items \in {content'[m].items} :
       ToSet(items) \subseteq ToSet(content[l].items) /\ Enter(m, content[l].type, items)
  /\ UNCHANGED dying

Drop(l) == Has(l) /\ content' = [m \in DOMAIN content \ {l} |-> content[m]] /\ UNCHANGED dying

Destroy(x) == dying' = dying \cup {x} /\ UNCHANGED content

\* An occurrence of a dying variable leaves a list.
Forget(l) ==
  /\ Has(l)
  /\ \E k \in DOMAIN content[l].items :
       /\ content[l].items[k] \in dying
       /\ Become(l, RemoveAt(content[l].items, k))
  /\ UNCHANGED dying

\* A variable is gone when no list has it.
Bury(x) == x \in dying /\ Holders(x) = {} /\ dying' = dying \ {x} /\ UNCHANGED content

Next ==
  \/ \E l \in List, t \in {"NCL_FIFO", "NCL_LIFO"} : Create(l, t) \/ SetType(l, t)
  \/ \E l \in List, x \in Var : Push(l, x) \/ AddLast(l, x)
  \/ \E l \in List : Pop(l) \/ Drop(l) \/ Forget(l)
  \/ \E l, m \in List : Select(l, m)
  \/ \E x \in Var : Destroy(x) \/ Bury(x)

Spec == Init /\ [][Next]_vars
=============================================================================
