---------------------------- MODULE CallbackList ----------------------------
(***************************************************************************)
(* One callback list of the HLU library, src/ni/src/lib/hlu/Callbacks.c:   *)
(* a table of singly linked chains of nodes that may be added to, deleted  *)
(* from and destroyed by the very callbacks it is calling.                 *)
(*                                                                         *)
(* A chain is the sequence of its nodes; cb->next is the node one position *)
(* further, read when the walk moves and not before.  Node is the heap the *)
(* nodes are allocated from: a cell that was freed may be allocated again, *)
(* and an exhausted heap is the failed NhlMalloc of _NhlCBAdd.             *)
(*                                                                         *)
(* pc says whose code is running: the clients between two calls ("idle"),  *)
(* the library walking the chains ("walk"), a callback ("callback"), which *)
(* is client code again, or the library unlinking marked nodes ("sweep").  *)
(***************************************************************************)
EXTENDS Integers, Sequences, SequencesExt

CONSTANTS Node,      \* heap cells for callback nodes
          NULL,      \* the null pointer
          Selector,  \* the selectors clients register and call with
          HashMult,  \* the hash_mult argument of _NhlCBCreate
          HasTask,   \* whether the list was created with a task_proc
          Walks      \* which walks the list's owner starts

ASSUME NullAssumption == NULL \notin Node
ASSUME SelectorAssumption == Selector \subseteq Nat
ASSUME HashMultAssumption == HashMult \in Int
ASSUME HasTaskAssumption == HasTask \in BOOLEAN
ASSUME WalksAssumption == Walks \subseteq {"call", "iterate"}

VARIABLES alive,           \* the list record is allocated
          calling,         \* the _NhlCBCALLING bit
          destroyPending,  \* the _NhlCBLISTDESTROY bit
          hash,            \* the chains
          index,           \* the index field of each node
          marked,          \* the nodes with the _NhlCBNODEDESTROY bit
          data,            \* the nodes whose cbnode_data is allocated
          pc, op,          \* who runs, and which walk is in progress
          sel,             \* the index the walk looks for
          slot, cb         \* the chain being walked and the node reached

list == <<alive, calling, destroyPending, hash, index, marked, data>>
walk == <<pc, op, sel, slot, cb>>
vars == <<list, walk>>

-----------------------------------------------------------------------------
(* The table: its size, where an index hashes to, and chain navigation.    *)

\* hash_mult is clipped to 0..8 and the size doubled that many times.
Size == <<1, 2, 4, 8, 16, 32, 64, 128, 256>>
          [1 + (IF HashMult < 0 THEN 0 ELSE IF HashMult > 8 THEN 8 ELSE HashMult)]

Slots == 0 .. Size - 1

IndexOf(s) == IF Size = 1 THEN 0 ELSE s

SlotOf(i) == i % Size

OnChain(b) == {hash[b][i] : i \in DOMAIN hash[b]}

Linked == UNION {OnChain(b) : b \in Slots}

First(b) == IF hash[b] = <<>> THEN NULL ELSE hash[b][1]

Position(b, n) == CHOOSE i \in DOMAIN hash[b] : hash[b][i] = n

\* Faulty: the next pointer of a node is not cleared when it is added.
NextOn_Uncleared(b, n) == LET i == Position(b, n)
                          IN  IF i < Len(hash[b]) THEN hash[b][i + 1] ELSE "unset"

NextOn(b, n) == LET i == Position(b, n)
                IN  IF i < Len(hash[b]) THEN hash[b][i + 1] ELSE NULL

Unlink(n) ==
  LET b == SlotOf(index[n])
  IN  hash' = [hash EXCEPT ![b] = RemoveAt(@, Position(b, n))]

ClientRuns == pc \in {"idle", "callback"}

Empty == [b \in Slots |-> <<>>]

Init ==
  /\ alive = FALSE /\ calling = FALSE /\ destroyPending = FALSE
  /\ hash = Empty
  /\ index = [n \in Node |-> 0]
  /\ marked = {} /\ data = {}
  /\ pc = "idle" /\ op = "none"
  /\ sel = 0 /\ slot = 0 /\ cb = NULL

-----------------------------------------------------------------------------
(* The operations of the clients, from outside or from within a callback.  *)

\* _NhlCBCreate.
Create ==
  /\ pc = "idle" /\ ~alive
  /\ alive' = TRUE
  /\ UNCHANGED <<calling, destroyPending, hash, index, marked, data, walk>>

\* Faulty: the index is clamped to the table instead of masked.
Add_Clamped(n, s) ==
  /\ ClientRuns /\ alive /\ ~destroyPending
  /\ n \notin Linked
  /\ index' = [index EXCEPT ![n] = IndexOf(s)]
  /\ hash' = [hash EXCEPT ![IF s < Size THEN s ELSE Size - 1] = Append(@, n)]
  /\ UNCHANGED <<alive, calling, destroyPending, marked, data, walk>>

\* Faulty: the node goes to the head of its chain.
Add_AtHead(n, s) ==
  /\ ClientRuns /\ alive /\ ~destroyPending
  /\ n \notin Linked
  /\ index' = [index EXCEPT ![n] = IndexOf(s)]
  /\ hash' = [hash EXCEPT ![SlotOf(IndexOf(s))] = <<n>> \o @]
  /\ UNCHANGED <<alive, calling, destroyPending, marked, data, walk>>

\* _NhlCBAdd.  A task_proc that allocates no cbnode_data makes the call fail
\* without effect.  No client adds to a list its owner has destroyed.
Add(n, s) ==
  /\ ClientRuns /\ alive /\ ~destroyPending
  /\ n \notin Linked
  /\ index' = [index EXCEPT ![n] = IndexOf(s)]
  /\ hash' = [hash EXCEPT ![SlotOf(IndexOf(s))] = Append(@, n)]
  /\ data' = IF HasTask THEN data \cup {n} ELSE data
  /\ UNCHANGED <<alive, calling, destroyPending, marked, walk>>

\* Faulty: the node is freed though the list is calling.
Delete_AtOnce(n) ==
  /\ ClientRuns /\ alive
  /\ n \in Linked \ marked
  /\ Unlink(n) /\ data' = data \ {n}
  /\ UNCHANGED <<alive, calling, destroyPending, index, marked, walk>>

\* _NhlCBDelete: a client gives up a registration it holds.
Delete(n) ==
  /\ ClientRuns /\ alive
  /\ n \in Linked \ marked
  /\ IF calling
     THEN marked' = marked \cup {n} /\ UNCHANGED <<hash, data>>
     ELSE Unlink(n) /\ data' = data \ {n} /\ UNCHANGED marked
  /\ UNCHANGED <<alive, calling, destroyPending, index, walk>>

\* The part of _NhlCBDestroy that frees every node and the list.
FreeList ==
  /\ alive' = FALSE /\ destroyPending' = FALSE
  /\ hash' = Empty
  /\ marked' = {} /\ data' = {}

\* _NhlCBDestroy, called by the list's owner.
Destroy ==
  /\ ClientRuns /\ alive /\ ~destroyPending
  /\ IF calling
     THEN destroyPending' = TRUE /\ UNCHANGED <<alive, hash, marked, data>>
     ELSE FreeList
  /\ UNCHANGED <<calling, index, walk>>

-----------------------------------------------------------------------------
(* The walks.  A call on a list that is already calling returns at once,   *)
(* so a nested call is no step.                                            *)

StartWalk(o, i, b) ==
  /\ pc = "idle" /\ alive /\ ~calling
  /\ o \in Walks
  /\ calling' = TRUE /\ destroyPending' = FALSE
  /\ pc' = "walk" /\ op' = o /\ sel' = i
  /\ slot' = b /\ cb' = First(b)
  /\ UNCHANGED <<alive, hash, index, marked, data>>

\* _NhlCBCallCallbacks up to its loop.
CallCallbacks(s) == StartWalk("call", IndexOf(s), SlotOf(IndexOf(s)))

\* _NhlCBIterate up to its loops.
Iterate == StartWalk("iterate", 0, 0)

\* Does the walk want this node?  With a task_proc nobody tests the index.
Wanted(n) == op = "iterate" \/ HasTask \/ index[n] = sel

\* The loop calls cb->cbfunc.
Invoke ==
  /\ pc = "walk" /\ cb # NULL
  /\ Wanted(cb) /\ cb \notin marked
  /\ pc' = "callback"
  /\ UNCHANGED <<list, op, sel, slot, cb>>

\* Faulty: a node that was deleted during its own callback restarts the chain.
Advance_Restart ==
  /\ ~destroyPending
  /\ pc' = "walk"
  /\ cb' = IF cb \in marked THEN First(slot) ELSE NextOn(slot, cb)
  /\ UNCHANGED <<list, op, sel, slot>>

\* cb = cb->next, after the LISTDESTROY bit was found clear.
Advance ==
  /\ ~destroyPending
  /\ pc' = "walk"
  /\ cb' = NextOn(slot, cb)
  /\ UNCHANGED <<list, op, sel, slot>>

\* The loop passes a node by; a task_proc may answer no for any node.
Skip ==
  /\ pc = "walk" /\ cb # NULL
  /\ HasTask \/ cb \in marked \/ ~Wanted(cb)
  /\ Advance

\* The callback returns and the loop goes on.
Return == pc = "callback" /\ Advance

\* The function returns, and its local variables are gone.
LeaveWalk ==
  /\ pc' = "idle" /\ op' = "none"
  /\ sel' = 0 /\ slot' = 0 /\ cb' = NULL

\* Faulty: clearing CALLING clears the LISTDESTROY bit with it.
ReturnToDestroyed_BitsCleared ==
  /\ pc = "callback" /\ destroyPending
  /\ calling' = FALSE /\ destroyPending' = FALSE
  /\ pc' = "sweep"
  /\ UNCHANGED <<alive, hash, index, marked, data, op, sel, slot, cb>>

\* The callback returns to a list that was destroyed meanwhile: the loop
\* breaks, CALLING is cleared and _NhlCBDestroy does its work.
ReturnToDestroyed ==
  /\ pc = "callback" /\ destroyPending
  /\ calling' = FALSE
  /\ FreeList
  /\ LeaveWalk
  /\ UNCHANGED index

\* _NhlCBIterate goes on to the next chain.
NextSlot ==
  /\ pc = "walk" /\ cb = NULL
  /\ op = "iterate" /\ slot < Size - 1
  /\ slot' = slot + 1
  /\ cb' = First(slot + 1)
  /\ UNCHANGED <<list, pc, op, sel>>

\* Faulty: the last chain is never reached.
EndWalk_OneShort ==
  /\ pc = "walk" /\ cb = NULL
  /\ op = "call" \/ slot = Size - 2
  /\ calling' = FALSE
  /\ pc' = "sweep"
  /\ UNCHANGED <<alive, destroyPending, hash, index, marked, data, op, sel, slot, cb>>

\* The walk is over: CALLING is cleared and the sweep begins.
EndWalk ==
  /\ pc = "walk" /\ cb = NULL
  /\ op = "call" \/ slot = Size - 1
  /\ calling' = FALSE
  /\ pc' = "sweep"
  /\ UNCHANGED <<alive, destroyPending, hash, index, marked, data, op, sel, slot, cb>>

\* Faulty: only the chain that was walked is swept.
Doomed_WalkedChain == marked \cap OnChain(slot)

\* The nodes the sweep, which visits every chain, still has to free.
Doomed == marked \cap Linked

\* Faulty: no sweep releases cbnode_data.
Sweep_NoTask(n) ==
  /\ pc = "sweep" /\ n \in Doomed
  /\ Unlink(n)
  /\ marked' = marked \ {n}
  /\ UNCHANGED <<alive, calling, destroyPending, index, data, walk>>

\* One node of the sweep is unlinked and freed.  Only the sweep of
\* _NhlCBIterate has the task_proc release the node's cbnode_data.
Sweep(n) ==
  /\ pc = "sweep" /\ n \in Doomed
  /\ Unlink(n)
  /\ marked' = marked \ {n}
  /\ data' = IF op = "iterate" THEN data \ {n} ELSE data
  /\ UNCHANGED <<alive, calling, destroyPending, index, walk>>

EndSweep ==
  /\ pc = "sweep" /\ Doomed = {}
  /\ LeaveWalk
  /\ UNCHANGED list

-----------------------------------------------------------------------------
Client ==
  \/ Create
  \/ \E n \in Node, s \in Selector : Add(n, s)
  \/ \E n \in Node : Delete(n)
  \/ Destroy
  \/ \E s \in Selector : CallCallbacks(s)
  \/ Iterate

Walking ==
  \/ Invoke
  \/ Skip
  \/ Return
  \/ ReturnToDestroyed
  \/ NextSlot
  \/ EndWalk
  \/ \E n \in Node : Sweep(n)
  \/ EndSweep

Next == Client \/ Walking

Spec == Init /\ [][Next]_vars

\* The library runs on, and every callback returns.
FairSpec == Spec /\ WF_vars(Walking)

-----------------------------------------------------------------------------
TypeOK ==
  /\ alive \in BOOLEAN /\ calling \in BOOLEAN /\ destroyPending \in BOOLEAN
  /\ hash \in [Slots -> Seq(Node)]
  /\ index \in [Node -> Nat]
  /\ marked \subseteq Node /\ data \subseteq Node
  /\ pc \in {"idle", "walk", "callback", "sweep"}
  /\ op \in {"none", "call", "iterate"}
  /\ sel \in Nat /\ slot \in Slots
  /\ cb \in Node \cup {NULL}

\* While a walk is in progress the list record is still allocated and the
\* node the walk stands on is still linked, whatever the callbacks deleted or
\* destroyed: the walk reads no freed memory (the CALLING tests of
\* _NhlCBDelete and _NhlCBDestroy).
NoUseAfterFree ==
  calling => alive /\ (cb # NULL => cb \in OnChain(slot))

\* Once nobody walks the list no node waits to be destroyed, on any chain: the
\* sweep takes the nodes callbacks deleted from chains the walk never visited.
NoZombies == pc = "idle" => marked = {}

\* A node's cbnode_data lives exactly as long as the node is on the list
\* (the task_proc is told of every ADD and of every DELETE).
DataOwned == HasTask => data = Linked

\* A node is on the chain its index hashes to and on it once: _NhlCBDelete
\* looks there and nowhere else, and frees the node after the first hit.
WellHashed ==
  \A b \in Slots :
    /\ \A n \in OnChain(b) : SlotOf(index[n]) = b
    /\ \A i, j \in DOMAIN hash[b] : hash[b][i] = hash[b][j] => i = j

\* Every walk comes to its end, though callbacks add nodes ahead of it.
WalkEnds == calling ~> pc = "idle"

\* A destroy that a walk made wait is carried out.
DestroyHonoured == destroyPending ~> ~alive

\* The state bits agree with who is running.
Bits ==
  /\ calling <=> pc \in {"walk", "callback"}
  /\ pc # "idle" => alive
  /\ destroyPending => pc = "callback"
  /\ pc = "callback" => cb # NULL

\* The inductive invariant.
IInv ==
  /\ TypeOK /\ Bits
  /\ NoUseAfterFree /\ NoZombies /\ WellHashed
  /\ marked \subseteq Linked

-----------------------------------------------------------------------------
(* What the list promises its clients: CallbackPromise.                    *)

\* The registrations clients hold.
Registered == IF destroyPending THEN {} ELSE Linked \ marked

\* The nodes ahead of the walk.
Ahead ==
  LET here == {hash[slot][i] : i \in {j \in DOMAIN hash[slot] :
                 cb # NULL /\ (IF pc = "callback" THEN j > Position(slot, cb)
                                                  ELSE j >= Position(slot, cb))}}
      later == IF op = "iterate" THEN UNION {OnChain(b) : b \in (slot + 1) .. (Size - 1)}
                                 ELSE {}
  IN  IF calling THEN here \cup later ELSE {}

Promise == INSTANCE CallbackPromise WITH
             Key     <- {IndexOf(s) : s \in Selector},
             open    <- alive /\ ~destroyPending,
             regs    <- Registered,
             key     <- index,
             running <- IF calling THEN op ELSE "none",
             looking <- IF calling THEN sel ELSE 0,
             due     <- {n \in Ahead \cap Registered : op = "iterate" \/ index[n] = sel},
             inside  <- IF pc = "callback" THEN cb ELSE NULL

\* The list keeps its promise: deferred deletion and destruction, the sweep
\* and the hashing cannot be told from their effect.
KeepsPromise == Promise!Spec
=============================================================================
