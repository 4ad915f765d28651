# Specifications of NCL

The NCAR Command Language is an interpreter (`src/ni/src/ncl`) on top of a plot
library, the High Level Utilities or HLU (`src/ni/src/lib/hlu`), on top of NCAR
Graphics (`src/ncarg2d`, `src/ngmath`, `src/ncarview`). The program runs in one
thread. What makes it hard is not parallelism but re-entrancy: destroying an
object calls back into the objects that watch it, which delete, destroy and
notify in turn while the lists and tables they are reached through are being
walked. These modules model the parts in which that happens.

## Inventory

**Callback lists** (`lib/hlu/Callbacks.c`; `lib/nio/nioCallbacks.c` is a copy).
State: a table of chains of nodes, the bits CALLING and LISTDESTROY of the list
and NODEDESTROY of a node. Operations: create, add, delete, destroy, call by
selector, iterate. Hard: the callbacks are client code, which adds to, deletes
from and destroys the very list that is calling it. Correct when no freed memory
is read, every matching registration is called exactly once, a registration
given up is never called again, and deferred work is done in the end.

**Object registry** (`ncl/NclData.c`). State: `objs`, a hash table from id to
object whose first entry per slot is inline, and the counter `current_id` with
its `recycled` flag. Operations: register, unregister, look up, count, free the
constants. Hard: everything else in NCL refers to objects by id, and ids are
recycled when the counter reaches MAX_ID. Correct when the table is a map: one
object per id, an id is never given twice, every registered object is found.

**Object life cycle** (`ncl/DataSupport.c`, `ncl/NclMultiDValData.c.sed`,
`ncl/NclVar.c`, `ncl/NclAtt.c`, `ncl/NclCoordVar.c`, `ncl/NclFileVar.c`,
`ncl/NclHLUVar.c`, `ncl/NclHLUObj.c`). State per object: `parents`, `ref_count`,
`status`, `cblist`. Operations: add and delete parent, set status, destroy, add
callback. Hard: destruction is recursive and re-entrant (callbacks, class
destructors, parents that lose their last child). Correct when an object with
a parent is not destroyed under it, an object nobody owns is destroyed once, and
everyone watching a destroyed object hears of it.

**Attribute lists** (`ncl/NclAtt.c`). State: a list of (name, value, callback).
Operations: add, replace, delete, read, the notification that a value is being
destroyed. Hard: replacing a value destroys the old one, whose callback edits the
list that is being edited.

**Lists** (`ncl/NclList.c`, `ncl/ListSupport.c`, and three instructions of
`ncl/Execute.c`). State: a doubly linked chain of cells, each with the id of a
variable and the callback through which its death is heard of; the type, which
says from which end to pop; and `current_item`, with which the machine sequences
the temporary copy it makes of a list in a list expression. Operations: create,
push, append, pop, set the type, select, copy, add and delete a parent, destroy,
and the notification that a variable is being destroyed. Hard: the same variable
may be on a list several times and on several lists; removing one reference can
destroy the variable, which calls back all the lists that still have it; the
functions an expression calls run while its copy is being sequenced.

**Symbol table** (`ncl/Symbol.c`, driven by the scanner `ncl/ncl.l` and the parser
`ncl/ncl.y`). State: a stack of scopes, each a hash table of doubly linked chains
with the number of frame cells given out, and the list of symbols the current
statement has introduced. Operations: new and pop scope, add (the scanner does it
for every name it has not seen), look up, change the type, delete, roll back the
statement. Hard: an error may come in the middle of definitions within
definitions, when symbols of several scopes are new, some of whose scopes have
been popped. Correct when a statement in error takes back its own names and no
other, chains and counts stay exact, and no two variables share a cell.

**Machine** (`ncl/Machine.c`, `ncl/Execute.c`, `ncl/OpsFuncs.c`). State: the value
stack with the frame pointer and the top relative to it, the frames that were
begun and not entered, the scopes of the calls in progress. Operations: push,
pop, begin, enter and leave a frame, call builtins, clear to the base of a frame,
abort. Hard: frames are begun before their arguments are evaluated, and the
arguments call; an error anywhere must unwind what was begun in this body and no
more. Correct when every cell of the stack is where the calls in progress put it
and every frame finds the variables of the definitions around it.

**Source translation** (`ncl/ncl.y`, `ncl/SrcTree.c`, `ncl/Translate.c`).
Recursive descent over the parse tree; emits jumps that are patched later.

**NetCDF driver** (`ncl/NclNetCdf.c`). State: file id, define mode, cached chunks.
Operations: open, define, write, read, close. Hard: the file is left open and in
define mode between operations.

**Other file formats** (`ncl/NclGRIB.c`, `NclHDF.c`, `NclHDF5.c`, `NclOGR.c`,
`NclNewHDF5.c`, `NclAdvancedFile.c`). Format decoding with little state.

**Workspace manager** (`lib/hlu/Workspace.c`; its clients are the plots and
`lib/hlu/MapV41DataHandler.c`). State: a record per workspace with its storage and
size, the total of the sizes, a threshold and a maximum, the list of idle
workspaces and the pool its nodes come from. Operations: new, use, enlarge, trim
and idle, free, give up idle storage, set the limits. Workspaces can be kept in
core or on disk when reclaimed, but every caller asks for `NhlwsNONE`, which keeps
nothing. Hard: using one workspace gives up others; a map draws again from what
it left in an idle one. Correct when the total is what is allocated, a workspace
in use keeps its storage, nothing is refused for the sake of idle storage, and a
map is drawn from a whole area map of what it shows.

**HLU objects** (`lib/hlu/hlu.c`, `Create.c`, `Destroy.c`, `Base.c`,
`SetValues.c`): a table of layers by id with children; `Error.c`: the error table.

**GKS** (`src/ncarg2d/src/libncarg_gks`): the GKS state machine in Fortran
(closed, open, workstation open, active, segment open) and its C drivers.

**CGM viewers** (`src/ncarview`): `idt` drives child processes `ictrans` through
pipes; `libcgm`, `med`, `libctrans` read and write metafiles.

**Numerical libraries** (`src/ngmath`, `ni/src/lib/nfp`, `ni/src/lib/nfpfort`,
`ncarg2d` utilities): pure numerical code, no state to check.

**Common, external, install** (`src/common`, `src/external`, `install`, `config`).

## Plan

Done, in this order:

1. `CallbackList` with `CallbackPromise`: every notification of the interpreter
   and of the HLU goes through these lists.
2. `ObjTable` with `IdMap`: every reference between objects goes through it.
3. `NclList` with `NclListPromise`: the first client of both, and the one whose
   re-entrancy is deepest.
4. `SymbolTable` with `NameScopes`: the one place where a failure must be undone.
5. `Machine`: calls and the unwinding of an error.
6. `Workspace`: what is lent, reclaimed and relied on.
7. Proofs of the invariants of `CallbackList`, `ObjTable`, `SymbolTable`,
   `Workspace`, `Machine` and `NclList`.
8. Proofs that `CallbackList`, `ObjTable`, `NclList` and `SymbolTable` implement
   their abstract specifications.

What it leaves, and why, is under "Not modelled".

## Modules

| module | models | role |
|---|---|---|
| `CallbackList` | `lib/hlu/Callbacks.c` | detailed specification |
| `CallbackPromise` | what its clients rely on | abstract specification |
| `CallbackList_proofs` | | theorems |
| `ObjTable` | `ncl/NclData.c`: `objs`, `_NclRegisterObj`, `_NclUnRegisterObj`, `_NclGetObj` | detailed specification |
| `IdMap` | a partial map from ids to objects | abstract specification |
| `ObjTable_proofs` | | theorems |
| `NclList` | `ncl/NclList.c`, the variables' side in `NclVar.c` and `DataSupport.c`, the list instructions of `Execute.c` | detailed specification |
| `NclListPromise` | lists as sequences of variables | abstract specification |
| `NclList_proofs` | | theorems |
| `SymbolTable` | `ncl/Symbol.c`, and the rules of `ncl.y` and `ncl.l` that add symbols, open and close scopes and end lines | detailed specification |
| `NameScopes` | nested scopes as sequences of names, and how many of them stay | abstract specification |
| `SymbolTable_proofs` | | theorems |
| `Machine` | the stack and frames of `ncl/Machine.c`, the call instructions of `ncl/Execute.c` and `ncl/OpsFuncs.c` | detailed specification |
| `Machine_proofs` | | theorems |
| `Workspace` | `lib/hlu/Workspace.c`, its use by plots and by `lib/hlu/MapV41DataHandler.c` | detailed specification |
| `Workspace_proofs` | the idle list, the pool, the map | theorems |
| `Workspace_space` | what is allocated, refused and given up | theorems |
| `Induction` | induction over sets of numbers | lemmas for the proofs |
| `MCCallbackList`, `MCObjTable`, `MCNclList`, `MCSymbolTable`, `MCMachine`, `MCWorkspace` | | instances for TLC |

Definitions whose comment begins with "Faulty:" are not part of a specification.
Each is a plausible mistake in the definition that follows it, and puts to the
test that some property would notice.

### CallbackList

`alive`, `calling`, `destroyPending` are the list record and its state bits,
`hash` its chains, `index` and `marked` the fields of the nodes, `data` the nodes
with a `cbnode_data`. `pc`, `op`, `sel`, `slot` and `cb` are the local variables
of the walk in progress. `Create`, `Add`, `Delete`, `Destroy`, `CallCallbacks`
and `Iterate` are the entry points; `Invoke`, `Skip`, `Return`, `NextSlot`,
`EndWalk`, `Sweep`, `EndSweep` and `ReturnToDestroyed` are the steps of the two
loops. A callback is client code: while `pc = "callback"` any entry point may be
called any number of times. A nested call of a list that is calling returns at
once (line 298), so it is no step of the model. A node deleted during the walk
keeps its memory until the sweep, so it cannot be added again before.

`CallbackPromise` has no chains, hashing, marks or sweep: a firing owes a call to
every matching registration and ends when nothing is due. The refinement mapping
computes what is due from what lies ahead of the walk.

### ObjTable

`objs` is the table, `currentId` and `recycled` the statics of the same name, `id`
the field `obj.id` of every object. `Register` is `_NclRegisterObj` as a whole:
pass over living ids, test for a duplicate (which overlooks the last entry of a
chain, as the code does), insert, count on and start again at MAX_ID.
`UnRegister` takes the id out, moving the first entry of the chain into the slot.
`stale` is history: the ids given back that the counter has already passed.
`Mapping` is the refinement mapping to `IdMap`.

### NclList

`heap` holds the cells, `lists` the `NclList` records, `vars` the variables with
their `parents` and `cblist`. The C call stack is the variable `todo`: a frame
`notify` for `ListItemDestroyNotify`, `destroy` for `_NclDestroyObj` of a variable
and `unmake` for the loop of `ListDestroy`. An operation of the language starts
when `todo` is empty; the frames it leaves there are then worked off step by step
by `ItemDestroyNotify`, `CallBack` and `ListDestroy`. `loops` is the stack of list
expressions under evaluation (`ListRead`, `SetNext`, `Term`), between whose steps
any other operation can run, because an expression calls functions. `fault`
records that a null or freed pointer was followed; nothing happens after that.
Ids and cells are used again as soon as the program could: a cell when it was
freed, an id when nobody remembers it, which the registry guarantees until its
counter wraps (`StaleIdsLeadNowhere`).

Left out: printing; lists as elements of lists; values shared with an attribute
list (`ListAttDestroyNotify`); the join and concatenate types, which differ in
what is done with the results; a stride of 0, for which `ListSelect` does not
come to an end. `ListPop` moves `current_item` on, but the interpreter sequences
only temporary copies, which cannot be popped.

### SymbolTable

`sym` is the memory symbols are allocated in, with their fields `type`, `name`,
`level`, `offset` and the two pointers of the chain; a freed one has type FREE.
`scopes` is `thetablelist`, `newSyms` is `new_sym_stack` up to `new_sym_i`, and
`isError`, `blockError` and `cmdLine` are the flags of the parser. `stmts` is the
parser's stack as far as statements nest: each entry is a statement, what it
defines, the branches it has read and the symbols its tree refers to; `doing` is
what the parser is in the middle of (parsing, loading a library, undoing a
definition, a line or a statement). `Lex` is the scanner, which adds an unknown
name; `Declare` and `RegisterFunc` add names too. Definitions and libraries open
scopes. `DeleteNewest` is one turn of the loop of `_NclDeleteNewSymStack`;
`FailDef`, `DropLine` and `DropStatement` are what the rule in error goes on with. Where
the code uses a freed symbol, deletes one through a scope that is not its own or
overruns the list, `fault` is set and the model stops, because what the program
does then is undefined. Left out: scripts loaded inside a block, file scopes and
the scope of the keywords.

`NameScopes` has no chains, levels or pointers: names are added to the innermost
scope, lines are accepted, and an error takes back exactly what came since. The
refinement mapping reads the names of a scope off the offsets of its symbols
(`AllNames`), and takes the names the list of new symbols can still take back
for the ones that are not firm (`Firm`).

### Machine

`thestack`, `framepntr`, `sbOff`, `stackSize`, `flist` and `scopeLevel` are the
statics of `Machine.c` (`sbOff` stands for `sb_off`, with pointers as indices), of
a cell only what it holds: nothing, a value, or a part of a frame. `scopes` is the
scope stack at run time, `defined` and `typed` are the functions whose
`u.procfunc` and type are set. `code` is the nesting of what is executed: bodies,
and calls whose arguments are being evaluated. It stands for the instruction
pointers and the C stack, decides which instruction may come next, and is what
the properties compare the stack with. `NewFrame`, `ConvertToLocal`, `Call`,
`CallIntrinsic`, `Return`, `EndBody` are the instructions of a call, in the order
the translator emits them; `Undef` and `Define` change the functions. Any
instruction can `Fail`; then `LeaveExecute`, `DropFrame`, `ClearBase` and
`CleanUpStack` are the turns of the loops that unwind, up to the program's next
statement. Where the code follows a NULL `u.procfunc` or writes past the end of
the stack, `fault` is set and the model stops.

### Workspace

`wsp` holds the records of the workspaces, the idle list (most recent first), the
pool of list nodes (`slots`, and `free`, the slots that have a node), the total
and the limits. `held` are the workspaces whose pointer a plot has, `map` is the
data handler of a map: `phase` is where `mpFill` or `mpGrid` stands between its
calls of the manager, `view` what the map shows, `new_amap_req` and `aws_id` the
fields of these names. `content` is a ghost: what an area map was built from.
Sizes count blocks of 256 bytes, the least a workspace is trimmed to. One drawing
is under way at a time, because there is one thread and plots do not draw from
within each other's low-level calls. `mpGrid` leaves the workspace in use after an
error and `mpFill` idles it, half built; the model does the same, and `failed`
remembers it.

## Runs

| run | shows | instance |
|---|---|---|
| `callbacks_call` | calling a hashed list by selector: types, no freed memory read, nothing left to sweep, hashing, the promise, every walk ends, a deferred destroy is carried out | 3 nodes, 2 chains, 3 selectors of which 2 collide |
| `callbacks_iterate` | iterating over a list with a task_proc: per-node data, the promise | same |
| `objtable` | look-up, uniqueness, stale ids, implements a map | 3 objects, 2 slots, MAX_ID 8, recycled to 2 |
| `list` | links, watching, leaks, sequencing | 2 lists, 2 variables, 4 cells, selections of at most 2 |
| `list_promise` | implements sequences; every cascade ends | 1 list, 2 variables, 3 cells, both types, 2 references |
| `list_gone` | violation: a notification of a list that is gone | as `list` |
| `list_cells` | violation: the cursor at a freed cell | as `list` |
| `symbols` | chains and counts, frame cells, scopes, the promise | 2 names on one chain, 4 symbols, a list of 3, depth 2, 2 branches |
| `symbols_foreign` | violation: a roll back through another scope | 3 symbols, 1 branch |
| `symbols_freed` | violation: a freed symbol is used | same |
| `machine` | the stack cell by cell, static links, scopes, errors come to their end | a function, a procedure inside it, a builtin of each kind; 4 contexts, 2 operands, a stack of 12 that grows |
| `workspace` | accounting, the idle list, the pool, refusals, the map, the order of giving up | 3 workspaces, 2 views, limits 3/2 and 3/4, a pool that grows by 2 |

Why the bounds are enough. Callback lists: two chains and three selectors give a
collision and a chain the walk does not visit; with three nodes a node can be
deleted, another be added and a third be called within one walk. What the bound
hides is a callback that adds a matching node each time it is called: the walk
then goes on as long as there is memory, so `WalkEnds` says that walks end for
any bounded supply of nodes. Registry: ids 2 to 7 are handed out again and again
over two slots, so that every chain has had entries inserted and removed at every
place, with old and new ids mixed. Lists: four cells make a chain with two inner
cells, two equal elements side by side and apart, and a copy of a list of two; two
variables are needed to tell orders apart; the promise is checked for one list,
whose interplay with others `list` covers. Symbols: one chain for all names makes
every deletion one in the middle of something; four symbols with depth two put
symbols of three scopes on the list at once; a list of three is overrun. Machine:
the inner procedure calls the outer function again, so that two activations of
one definition are on the stack and the static link has to choose; four contexts
are two calls begun inside two bodies; frames of five cells outgrow a stack of
twelve. Workspace: three workspaces are a map's and two others, enough for an
order of giving up; the limits can be met exactly, passed by one, and changed
while storage is out; three idle nodes refill a pool that grows by two. Symmetry
is used for lists, variables, cells, names and views, never where liveness is
checked. `CHECK_DEADLOCK` is off where the program may rest for good: when ids
run out, or after a fault.

Fairness. The program is one thread: an operation under way is run to its end
before the next one can begin. `WF` is therefore put on the steps of operations
under way (`Walking` of callback lists; `CallBack`, `ItemDestroyNotify`,
`ListDestroy` of lists; `Unwind` of the machine) and on nothing a client or the
user decides. For `Walking` it includes the return of a
callback, which is client code; the clients of this tree return.

## Findings

- `list_gone`: `ListPush` adds a parent per cell, `VarDelParent` removes all entries
  of that parent, so that a nameless variable that is on a list twice dies with
  its first cell; if the list is being destroyed, `ListItemDestroyNotify` follows
  the null pointer that `_NclGetObj` returns for it.
- `list_cells`: a function called in a list expression that deletes an element of
  the list leaves `current_item` at a freed cell.
- `symbols_foreign`: symbols stay on `new_sym_stack` after their scope was popped (a
  library's, or those of an earlier branch of a one-line conditional), and an
  error deletes them through whatever scope has their level by then.
- `symbols_freed`: the symbol of a function whose head is in error is freed by the
  roll back, and the rule that called for it writes to it afterwards.

Seen while modelling, without a run of their own: `_NhlCBCallCallbacks` frees a
node deleted in mid-call without the `_NhlcbDELETE` task that `_NhlCBIterate`
performs (latent: the one list with a task_proc is only iterated over);
`current_id == MAX_ID` is missed when the loop over living ids steps past it;
`TERM_LIST_OP` pops fewer values than were pushed when an element was deleted
meanwhile; `mpGrid` keeps its workspace in use after an error and `mpFill` leaves
an unfinished area map marked intact; a function that undefs itself leaves
through a NULL `u.procfunc`; `SetNextFramePtrNLevel` reserves cells past the end
of the stack; the end of a recursive call takes the types of the names of the
scope that outer activations still use. The hazards of PROJECT.json give the lines.

Not stated as properties, because no line of the repository says what should
happen: `CallLIST_READ_OP` refuses `l[1:]` and `l[3:2]`, for which its
`number_of_item` is 0, without a message; and a stride of 0 does not end.

## Proofs

`CallbackList_proofs`, for every set of nodes and selectors and every hash
multiplier. The inductive invariant `IInv` adds to the stated properties that the
state bits agree with who is running (`Bits`: without it the mark of a node could
be set while nobody walks, and the destroy bit be forgotten), and that marked
nodes are on a chain (without which the sweep would not find them). The lemmas
say what appending to a chain and cutting a node out of it do to the set of its
nodes, and that hashing finds the chain again. For the refinement of
`CallbackPromise`, `Course` adds that a call walks the chain its selector hashes
to; what is ahead of a walk is then the node it stands on, those behind it on the
chain, and the chains to come (`AheadByPlace`), and each step of a walk either
takes one node from this set or leaves what is due as it is. Theorems:
`TypeCorrect`, `NoWalkReadsFreedMemory`, `SweepIsComplete`, `NodesAreWellHashed`;
`DataLivesWithItsNode` for lists that are only iterated over (the assumption
`"call" \notin Walks`, without which it is false); and `CallbacksKeepPromise`
for lists that are not both called and given a task_proc: a task_proc would
decide by itself what a call is for, and no list of the library has both.

`ObjTable_proofs`, for every set of objects, table size and bounds with
RECYCLE_START_ID < MAX_ID <= INT_MAX. `IInv` says that the table and the objects
agree: every entry is in the slot of its id and names the object that has this
id, ids within a slot differ, every living object has an entry, and before the
first recycling the counter is ahead of every id. From the last part and from the
loop that passes over living ids follows that a new id is free, from which
everything else does. Theorems: `TypeCorrect`, `EveryObjectIsFound`, `DuplicateNeverReported`,
`StaleIdsLeadNowhere`, and `TableIsMap`, that the table implements `IdMap`: under
`IInv` the mapping is the inverse of `id`, registering binds one id and
unregistering unbinds one.

`NclList_proofs`, for every set of lists and of variables, every finite memory and
every bound. `IInv` says that there is a function `ch` that gives every list the
sequence of its cells, of a list that is being unmade those that are left
(`Consistent`). `Chained` says what the pointers have to do with it, `Shared` that
every cell in use is on just one list. `Watching` and `Exact` are the two halves
of `Watched` at every moment: a variable that is dying has lost callbacks it was
called by, of the list that is just being told and of no other. `Kept` is `NoLeak`
with the dying excepted, `Single` that no two callbacks of a variable are for the
same cell (without it `_NhlCBDelete` could delete the wrong one), and `UnderWay`
where the walks are: the step pointer of `ListItemDestroyNotify` is on the list,
and nothing up to it is the variable's. `Nesting` lists how operations nest: the
callback of a dying variable, because of the end of a list or of anything else;
never more, because the end of a variable unmakes no list. `Looped` says that the
list of a loop is temporary and that what it has not handed out is not behind
`current_item`, which is the part `AllHandedOut` needs. That `Chain`, which
follows pointers, finds `ch` again is `ChainFound`. An operation
is first described by what it does to memory, chain and variables (`CutChain`,
`AppendChain`, `PushChain`, `UnwatchFacts`, `SelectIs`); that such a change keeps
the invariant is then a statement about constants. The refinement of
`NclListPromise` says what each of these descriptions is in terms of variables: the
variables of a list are those of its cells in `ch` (`Seen`), so that a step that
gives one list other cells adds or takes the variables of these and touches no
other list (`ContentsChange`, `ItemsRemoved`, `ItemsAppended`, `ItemsPushed`). Two
things need more of the invariant. A variable is gone only when no list has it:
when its last callback has been called nobody is being told, so that by `Watching` a
cell that were left would have a callback. And unmaking a list is one step of the
promise, in which the list is unregistered: what is then done to its cells, one by
one, concerns no list that is left, although a variable may begin to die by it. Theorems: `TypesHold`,
`ListsStayLinked`, `CellsStayWatched`, `NothingLeaks`, `EverythingHandedOut`,
`ListsKeepPromise`.

`SymbolTable_proofs`, for every set of names, chains and depths and every finite
memory. `IInv` says that
the list of new symbols and the scopes agree (`TableInv`: offsets within a scope
differ and are below its count, and behind a symbol on the list come all of its
scope with a greater offset, so that a roll back, which sets the count to the
offset of the symbol it takes back, leaves only smaller ones), that
statements have the fields the rules rely on, and that scopes and definitions
open correspond in every phase of an error. `WellLinked` needs `ChainInv`: every
chain has the symbols of its scope and its bucket in the order of their offsets.
The newest symbol is therefore the head of its chain, which is why a roll back
never cuts one out of the middle, and a walk from the head, whose offsets fall,
cannot end before it has passed all of them (`ChainFound`, by counting: a walk as
long as memory that passes one by would come upon some other twice). A step adds
a symbol, takes the newest back, or leaves those of the scopes that stay alone
(`StepKinds`), so that each of these invariants is proved for three kinds of
steps. The refinement of `NameScopes` needs that the offsets of a scope have no
gap (`Dense`), that the list of new symbols has none twice and none that was freed
(`Once`; together `Sound`), and that the symbols of a scope being declared are
UNDEF and of one being loaded IFUNC (`OwnTypes`), without which the tests of the
scanner and of `_NclRegisterFunc` could add a name the innermost scope has.
Theorems: `TypesHold`, `SlotsStayDistinct`, `ScopesFollowStatements`,
`ScopesStayLinked`, `ScopesKeepPromise`.

`Workspace_proofs`, for every set of sizes, limits and views. `IInv` has three
parts: the manager is sound (`Sound`: records have their types, the idle list has
each idle workspace with storage once and no other, and the nodes of the pool are
in their slots); plots and the map hold what they were lent, and no plot holds the
map's workspace (`ClientsSound`); and what the area map of a map contains while
its data count as intact is what the map shows (`AreaMapKept`). `MapWhole` is not
inductive without the last part, because a draw may start from an area map that
was left idle draws ago. One lemma for each operation of the manager says what it
does to the workspace it is called for and that it leaves every other alone but
for giving its storage up when it is idle (`OthersKept`); the steps of plots and
maps rest on these lemmas. Nothing in them depends on how much is given up, so
sums of sizes do not occur. Theorems: `TypesHold`, `IdleListStaysExact`,
`PoolStaysSound`, `MapStaysWhole`.

`Workspace_space` is about how much is given up. Its first part proves that the
sum `Space` is one: there is a function that satisfies its equation, and the order
in which it takes the elements of a set is of no consequence. On these rest a
lemma for every operation that says what it does to the total and to the sum, and
another that says that what it takes the storage of is a tail of the idle list.
`ReduceCurrentAlloc` stops early, so that both need the same fact: what it goes
through is the idle list from its end to where enough has been given up.
Theorems: `TotalStaysAccounted`, `RefusalsAreJustified`, `OldestGivenUpFirst`.

`Machine_proofs`, for every nesting of definitions, every mix of builtins and
every size and growth of the stack. `Aligned`, `LexicalLinks` and
`ScopesFollowCalls` speak of the moments between instructions that succeed; `IInv`
says what is true all the time. `Linked`, `Placed`, `Listed` and `Pushed` are the
cells of every frame, the end of the stack, the frames begun and the scopes;
while an error is between dropping a scope and dropping its call, one scope is
missing (`Lost`). `Nested` says that the code calls only what it can see: without
it the activation a static link has to lead to need not exist. `Counted` says
that a call under whose arguments an error occurs was not complete, so that the
unwinding, which asks for the arguments that are missing, finds it.
`Levelled` ties the level of the static nesting to the innermost body. Where
a context begins is a sum over the contexts below it; the lemmas `BaseFacts` and
`BaseAgrees` say that this sum exists and depends on those below only. `HopIs`
follows the static links from frame to frame. Theorems: `TypesHold`,
`StackStaysAligned`, `LinksStayLexical`, `ScopesStayWithCalls`.

The induction theorems of the TLAPS library take an operator as a parameter, which
the provers cannot instantiate. `Induction` states what is needed over sets
instead (if 0 is in S, and n + 1 with every n, then all numbers are), so that a proof can
name the set `{n \in Nat : ...}` it is about; it rests on `WFMin`.

The assumptions are those named in the modules, and TLC evaluates them in every
run: null is no object, the table has a slot, the walks are calls or iterations,
addresses are numbers, the hash is one of the chains, sizes are positive, memory
is finite.

Only model-checked: liveness (`WalkEnds`, `DestroyHonoured`, `OperationsEnd`,
`ErrorsEnd`), which is out of reach of the provers. Of the other properties of the
passing runs each is stated by a theorem.

## Not modelled

The repository has some 880000 lines, of which the six components above are the
parts with state that outlives a call, with re-entrancy or with failures to
recover from. Most of the rest is out of a model checker's reach or has nothing
for it to find: numerical code in Fortran and C (`nfp`, `nfpfort`, `ngmath`,
`ncarg2d`), the wrappers that convert arguments for it (`BuiltInFuncs.c`,
`wrfW.c`, `sph2W.c`), the decoding of file formats through foreign libraries,
graphics (`ContourPlot.c`, `triangle.c`), generated and third-party code, fonts
and the build. A definition that stood for their lines would say nothing of them.

- Object life cycle, attribute lists: parents, counts and destruction are spread
  over a dozen classes whose methods call each other. `NclList` has the part lists
  rest on; one class without its callers would show nothing.
- Source translation: recursive descent over a parse tree without state of its own.
- NetCDF driver: its state is that of a file in the NetCDF library, which is not in
  the repository; every entry point sets define mode by itself.
- Other file formats, HLU objects: decoding, and conversion of resources by class.
- GKS: routines that test the operating state of the standard one by one.
- CGM viewers: X programs that send commands through a pipe and wait for a prompt,
  and decoders.
- Within the modelled components: `_NclFreeConstants`, which nothing calls; lists
  as elements of lists; scripts loaded inside a block; the parameters a call maps
  back to its caller's variables; the persistences of workspaces no client asks for.
