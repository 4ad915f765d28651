---------------------------- MODULE SymbolTable ----------------------------
(***************************************************************************)
(* The symbol table of the NCL interpreter, src/ni/src/ncl/Symbol.c, as    *)
(* its scanner (ncl.l) and its parser (ncl.y) drive it: a stack of scopes, *)
(* a hash table of doubly linked chains in each, and the list of the       *)
(* symbols the current statement has added, which takes them back when the *)
(* statement has a syntax error.                                           *)
(*                                                                         *)
(* Scope 1 is the one programs start in; scope 0 holds the keywords, which *)
(* are neither recorded nor removed, and is left out.  The syntax is kept  *)
(* as far as scopes and statements nest.  A step that would use a freed    *)
(* symbol, delete one out of a scope that is not its own or overrun the    *)
(* list sets fault instead, and the model stops there: what follows is     *)
(* undefined.                                                              *)
(***************************************************************************)
EXTENDS Integers, Sequences, FiniteSets

CONSTANTS Name,       \* the identifiers of the program
          SymId,      \* the addresses symbols are allocated at
          NoSym,      \* the null pointer
          Bucket,     \* the chains of a scope, NCL_SYM_TAB_SIZE of them
          Hash,       \* hash_pjw
          MaxSyms,    \* NCL_MAX_SYMS_PER_STMNT
          MaxDepth,   \* bound: statements open inside each other
          MaxBranches \* bound: branches of one conditional

ASSUME NoSymAssumption == NoSym \notin SymId
ASSUME SymIdAssumption == SymId \subseteq Nat /\ IsFiniteSet(SymId)
ASSUME HashAssumption == Hash \in [Name -> Bucket]
ASSUME MaxSymsAssumption == MaxSyms \in Nat

VARIABLES sym,        \* the symbols; a freed one has type FREE
          scopes,     \* thetablelist, the innermost scope last
          newSyms,    \* new_sym_stack up to new_sym_i
          stmts,      \* the statements being parsed, the innermost last
          isError,    \* is_error
          blockError, \* block_syntax_error
          cmdLine,    \* cmd_line: an interactive session
          doing,      \* what the parser is in the middle of
          fault       \* history: the first undefined step

table == <<sym, scopes, newSyms>>
vars == <<table, stmts, isError, blockError, cmdLine, doing, fault>>

Ref == SymId \cup {NoSym}

EmptyScope(l) ==
  [level |-> l, curOffset |-> 0, nelem |-> [b \in Bucket |-> 0],
   thelist |-> [b \in Bucket |-> NoSym]]

\* A statement: what has been read of it (plain: nothing yet, name: one
\* identifier, f), and the symbols its tree refers to that a roll back can still
\* free or has freed.  One with a body, of which f is the symbol it defines, has
\* read a number of its branches and possibly whole lines of the current one.
Statement(kind) ==
  [kind |-> kind, f |-> NoSym, refs |-> {}, lines |-> FALSE, branch |-> 1]

\* Memory no symbol occupies.
FreeCell ==
  [type |-> "FREE", name |-> NoSym, level |-> 0, offset |-> 0,
   next |-> NoSym, pre |-> NoSym, open |-> FALSE]

Init ==
  /\ sym = [s \in SymId |-> FreeCell]
  /\ scopes = <<EmptyScope(1)>>
  /\ newSyms = <<>>
  /\ stmts = <<Statement("plain")>>
  /\ isError = FALSE /\ blockError = FALSE
  /\ cmdLine \in BOOLEAN
  /\ doing = "parse" /\ fault = "none"

cur == stmts[Len(stmts)]
outer == stmts[Len(stmts) - 1]
top == Len(scopes)

Freed(s) == sym[s].type = "FREE"

\* malloc: the first free address no statement being parsed holds on to.
Free == {s \in SymId : Freed(s) /\ \A i \in DOMAIN stmts : s \notin stmts[i].refs}
Malloc == {s \in Free : \A t \in Free : s <= t}

\* The symbols on chain b of a scope.
Chain(scope, b) ==
  LET link[i \in 0 .. Cardinality(SymId)] ==
        IF i = 0 THEN scope.thelist[b]
        ELSE IF link[i - 1] = NoSym THEN NoSym ELSE sym[link[i - 1]].next
  IN  {link[i] : i \in DOMAIN link} \cap SymId

\* _NclLookUp: the symbol of that name in the innermost scope that has one.
Named(n, k) == {s \in Chain(scopes[k], Hash[n]) : sym[s].name = n}
LookUp(n) ==
  LET holders == {k \in DOMAIN scopes : Named(n, k) # {}}
      found == UNION {Named(n, k) : k \in {h \in holders : \A j \in holders : j <= h}}
  IN  IF found = {} THEN NoSym ELSE CHOOSE s \in found : TRUE

-----------------------------------------------------------------------------
(* Symbol.c *)

NewSymbol(n, type) ==
  [type |-> type, name |-> n, level |-> scopes[top].level,
   offset |-> scopes[top].curOffset, next |-> scopes[top].thelist[Hash[n]],
   pre |-> NoSym, open |-> TRUE]

\* The scope with s as the head of chain b.
WithSymbol(scope, s, b) ==
  [level |-> scope.level, curOffset |-> scope.curOffset + 1,
   nelem |-> [scope.nelem EXCEPT ![b] = @ + 1],
   thelist |-> [scope.thelist EXCEPT ![b] = s]]

\* _NclAddSym at address s: the symbol becomes the head of its chain, takes the
\* next offset of the scope and is recorded.
AddSym(s, n, type) ==
  /\ sym' = [t \in SymId |->
               IF t = s THEN NewSymbol(n, type)
               ELSE IF t = scopes[top].thelist[Hash[n]] THEN [sym[t] EXCEPT !.pre = s]
               ELSE sym[t]]
  /\ scopes' = [scopes EXCEPT ![top] = WithSymbol(@, s, Hash[n])]
  /\ newSyms' = Append(newSyms, s)

NewScope == scopes' = Append(scopes, EmptyScope(scopes[top].level + 1))

\* _NclPopScope: whoever keeps the scope keeps its symbols.
PopScope == scopes' = SubSeq(scopes, 1, top - 1)
Popped ==
  [s \in SymId |-> IF sym[s].open /\ sym[s].level = scopes[top].level
                   THEN [sym[s] EXCEPT !.open = FALSE] ELSE sym[s]]

\* The scope on the stack with this level, 0 if there is none.
ScopeAt(l) ==
  IF \E k \in DOMAIN scopes : scopes[k].level = l
  THEN CHOOSE k \in DOMAIN scopes : scopes[k].level = l /\ \A j \in k + 1 .. top : scopes[j].level # l
  ELSE 0

\* Faulty: the slot of s is lost.
OffsetBefore_Lost(scope, s) == scope.curOffset

\* Faulty: the scope starts again.
OffsetBefore_Zero(scope, s) == 0

\* Faulty: the offset is taken for a count.
OffsetBefore_OffByOne(scope, s) == sym[s].offset - 1

\* The offset a scope goes on with once s is gone.
OffsetBefore(scope, s) == sym[s].offset

\* Faulty: the neighbour behind keeps pointing at the freed symbol.
Unlink_OneWay(s, t) ==
  IF t = s THEN FreeCell
  ELSE IF t = sym[s].pre THEN [sym[t] EXCEPT !.next = sym[s].next]
  ELSE sym[t]

\* What becomes of symbol t when s is unlinked and freed.
Unlink(s, t) ==
  IF t = s THEN FreeCell
  ELSE IF t = sym[s].pre THEN [sym[t] EXCEPT !.next = sym[s].next]
  ELSE IF t = sym[s].next THEN [sym[t] EXCEPT !.pre = sym[s].pre]
  ELSE sym[t]

\* The scope without s on its chain b.
WithoutSymbol(scope, s, b) ==
  [level |-> scope.level, curOffset |-> OffsetBefore(scope, s),
   nelem |-> [scope.nelem EXCEPT ![b] = @ - 1],
   thelist |-> [scope.thelist EXCEPT ![b] = IF sym[s].pre = NoSym THEN sym[s].next ELSE @]]

\* _NclDeleteSym.
DeleteSym(s, k) ==
  /\ sym' = [t \in SymId |-> Unlink(s, t)]
  /\ scopes' = [scopes EXCEPT ![k] = WithoutSymbol(@, s, Hash[sym[s].name])]

\* One turn of the loop of _NclDeleteNewSymStack, which starts at the newest.
\* A symbol of a level that is no longer open is left where it is.
DeleteNewest ==
  LET s == newSyms[Len(newSyms)]
      k == ScopeAt(sym[s].level)
  IN  /\ fault = "none" /\ doing # "parse" /\ doing # "load" /\ newSyms # <<>>
      /\ IF k # 0 /\ ~sym[s].open
         THEN fault' = "foreign" /\ UNCHANGED table
         ELSE /\ newSyms' = SubSeq(newSyms, 1, Len(newSyms) - 1)
              /\ IF k = 0 THEN UNCHANGED <<sym, scopes>> ELSE DeleteSym(s, k)
              /\ UNCHANGED fault
      /\ UNCHANGED <<stmts, isError, blockError, cmdLine, doing>>

-----------------------------------------------------------------------------
(* ncl.l and ncl.y *)

Parsing == fault = "none" /\ doing = "parse"

\* A step that adds a symbol for n, if the list has room for it; Then(s) is
\* what the parser does with the symbol.
Adding(n, type, Then(_)) ==
  IF Len(newSyms) = MaxSyms
  THEN fault' = "full" /\ UNCHANGED <<table, stmts>>
  ELSE \E s \in Malloc : AddSym(s, n, type) /\ Then(s) /\ UNCHANGED fault

\* A statement that has come upon s.
Mention(stmt, s, new) ==
  [stmt EXCEPT
     !.kind = CASE @ = "plain" -> "name" [] @ = "name" -> "expr" [] OTHER -> @,
     !.f = IF stmt.kind = "plain" THEN s ELSE @,
     !.refs = IF new \/ \E i \in DOMAIN newSyms : newSyms[i] = s THEN @ \cup {s} ELSE @]

Refer(s, new) == stmts' = [stmts EXCEPT ![Len(stmts)] = Mention(@, s, new)]

ReferNew(s) == Refer(s, TRUE)

\* The scanner reads an identifier outside the head of a definition, in the
\* tokens it skips after a syntax error too.
Lex(n) ==
  /\ Parsing /\ cur.kind \in {"plain", "name", "expr", "failed"}
  /\ IF LookUp(n) = NoSym
     THEN Adding(n, "UNDEF", ReferNew)
     ELSE Refer(LookUp(n), FALSE) /\ UNCHANGED <<table, fault>>
  /\ UNCHANGED <<isError, blockError, cmdLine, doing>>

\* function f, procedure f: a name that has no meaning yet opens a scope.
OpenDef(f) ==
  /\ Parsing /\ cur.kind = "name" /\ cur.f = f
  /\ sym[f].type = "UNDEF"
  /\ NewScope
  /\ stmts' = [stmts EXCEPT ![Len(stmts)].kind = "head"]
  /\ UNCHANGED <<sym, newSyms, isError, blockError, cmdLine, doing, fault>>

\* An argument or local of the definition gets a symbol in the new scope.
Declare(n) ==
  LET s == LookUp(n)
  IN  /\ Parsing /\ cur.kind = "head"
      /\ IF s = NoSym \/ (s # NoSym /\ (sym[s].type # "UNDEF" \/ sym[s].level # scopes[top].level))
         THEN Adding(n, "UNDEF", ReferNew)
         ELSE Refer(s, FALSE) /\ UNCHANGED <<table, fault>>
      /\ UNCHANGED <<isError, blockError, cmdLine, doing>>

\* The head is complete: the name is a function from here on, for its own body
\* as well.
AcceptHead ==
  /\ Parsing /\ cur.kind = "head" /\ Len(stmts) < MaxDepth
  /\ sym' = [sym EXCEPT ![cur.f].type = "NFUNC"]
  /\ stmts' = Append([stmts EXCEPT ![Len(stmts)].kind = "def"], Statement("plain"))
  /\ UNCHANGED <<scopes, newSyms, isError, blockError, cmdLine, doing, fault>>

\* func_identifier error: once the symbols are deleted, FailDef goes on.
HeadError ==
  /\ Parsing /\ cur.kind = "head"
  /\ isError' = TRUE /\ doing' = "failDef"
  /\ UNCHANGED <<table, stmts, blockError, cmdLine, fault>>

\* begin, if and do open a block of statements.
OpenBlock ==
  /\ Parsing /\ cur.kind \in {"plain", "name", "expr"} /\ Len(stmts) < MaxDepth
  /\ stmts' = Append([stmts EXCEPT ![Len(stmts)].kind = "block", ![Len(stmts)].f = NoSym], Statement("plain"))
  /\ UNCHANGED <<table, isError, blockError, cmdLine, doing, fault>>

\* A syntax error that the innermost statement takes.
SyntaxError ==
  /\ Parsing /\ cur.kind \in {"plain", "name", "expr", "done"}
  /\ isError' = TRUE
  /\ stmts' = [stmts EXCEPT ![Len(stmts)] = Statement("failed")]
  /\ UNCHANGED <<table, blockError, cmdLine, doing, fault>>

Tree(s) == IF s.kind = "failed" THEN {} ELSE s.refs

\* The enclosing statement with the tree of the innermost one in its body, and
\* the statements around it.
Absorbed == [outer EXCEPT !.refs = @ \cup Tree(cur)]
Around == SubSeq(stmts, 1, Len(stmts) - 2)

Complete == cur.kind \in {"plain", "name", "expr", "done", "failed"}
Enclosed == Len(stmts) > 1 /\ Complete

\* What the list no longer holds cannot be rolled back.
Settled(stmt) == [stmt EXCEPT !.refs = {s \in @ : Freed(s)}]

\* block_statement_list: statement eoln.
EndLine ==
  /\ Parsing /\ Enclosed
  /\ IF isError
     THEN doing' = "dropLine" /\ UNCHANGED <<table, stmts>>
     ELSE /\ newSyms' = <<>>
          /\ stmts' = [i \in DOMAIN stmts |->
               IF i = Len(stmts) THEN Statement("plain")
               ELSE Settled(IF i = Len(stmts) - 1 THEN [Absorbed EXCEPT !.lines = TRUE]
                            ELSE stmts[i])]
          /\ UNCHANGED <<sym, scopes, doing>>
  /\ UNCHANGED <<isError, blockError, cmdLine, fault>>

\* The line in error is dropped; the block stays open.
DropLine ==
  /\ fault = "none" /\ doing = "dropLine" /\ newSyms = <<>>
  /\ isError' = FALSE /\ blockError' = (blockError \/ ~cmdLine)
  /\ stmts' = [stmts EXCEPT ![Len(stmts) - 1].lines = TRUE, ![Len(stmts)] = Statement("plain")]
  /\ doing' = "parse"
  /\ UNCHANGED <<table, cmdLine, fault>>

\* A branch ends after whole lines, or after a single statement without its
\* end of line.
BranchEnds == Enclosed /\ (outer.lines => cur = Statement("plain"))

NextBranch ==
  /\ Parsing /\ BranchEnds /\ outer.kind = "block" /\ outer.branch < MaxBranches
  /\ stmts' = Around \o <<[Absorbed EXCEPT !.branch = @ + 1, !.lines = FALSE], Statement("plain")>>
  /\ UNCHANGED <<table, isError, blockError, cmdLine, doing, fault>>

CloseBlock ==
  /\ Parsing /\ BranchEnds /\ outer.kind = "block"
  /\ stmts' = Append(Around, [Statement("done") EXCEPT !.refs = Absorbed.refs])
  /\ UNCHANGED <<table, isError, blockError, cmdLine, doing, fault>>

\* fp_block: the body of a definition ends.
CloseDef ==
  /\ Parsing /\ BranchEnds /\ outer.kind = "def"
  /\ IF isError \/ (~cmdLine /\ blockError)
     THEN /\ stmts' = SubSeq(stmts, 1, Len(stmts) - 1)
          /\ doing' = "failDef"
          /\ UNCHANGED <<sym, scopes>>
     ELSE /\ stmts' = Append(Around, [Statement("done") EXCEPT !.refs = Absorbed.refs])
          /\ PopScope /\ sym' = Popped
          /\ UNCHANGED doing
  /\ UNCHANGED <<newSyms, isError, blockError, cmdLine, fault>>

\* Faulty: the scope of a failed definition is left on the stack.
FailDef_NoPop ==
  /\ fault = "none" /\ doing = "failDef" /\ newSyms = <<>>
  /\ isError' = TRUE /\ doing' = "parse"
  /\ sym' = [Popped EXCEPT ![cur.f].type = "UNDEF"]
  /\ stmts' = [stmts EXCEPT ![Len(stmts)] = Statement("failed")]
  /\ UNCHANGED <<scopes, newSyms, blockError, cmdLine, fault>>

\* The scope of a definition in error goes, and its name loses its meaning.
FailDef ==
  /\ fault = "none" /\ doing = "failDef" /\ newSyms = <<>>
  /\ IF Freed(cur.f)
     THEN fault' = "freed" /\ UNCHANGED <<table, stmts, isError, doing>>
     ELSE /\ PopScope /\ sym' = [Popped EXCEPT ![cur.f].type = "UNDEF"]
          /\ stmts' = [stmts EXCEPT ![Len(stmts)] = Statement("failed")]
          /\ isError' = TRUE /\ doing' = "parse"
          /\ UNCHANGED <<newSyms, fault>>
  /\ UNCHANGED <<blockError, cmdLine>>

\* statement_list: a whole statement is executed, which follows its tree, or
\* given up.
EndStatement ==
  /\ Parsing /\ Len(stmts) = 1 /\ Complete
  /\ IF isError \/ blockError \/ cur.kind = "failed"
     THEN doing' = "dropAll" /\ UNCHANGED <<table, stmts, fault>>
     ELSE IF \E s \in cur.refs : Freed(s)
     THEN fault' = "freed" /\ UNCHANGED <<table, stmts, doing>>
     ELSE /\ newSyms' = <<>>
          /\ stmts' = <<Statement("plain")>>
          /\ UNCHANGED <<sym, scopes, doing, fault>>
  /\ UNCHANGED <<isError, blockError, cmdLine>>

DropStatement ==
  /\ fault = "none" /\ doing = "dropAll" /\ newSyms = <<>>
  /\ isError' = FALSE /\ blockError' = FALSE
  /\ stmts' = <<Statement("plain")>>
  /\ doing' = "parse"
  /\ UNCHANGED <<table, cmdLine, fault>>

\* external name "file": what the Init function of the library registers goes
\* to a scope of its own.
OpenLibrary(s) ==
  /\ Parsing /\ Len(stmts) = 1 /\ cur.kind = "name" /\ cur.f = s
  /\ sym[s].type = "UNDEF"
  /\ sym' = [sym EXCEPT ![s].type = "DLIB"]
  /\ NewScope
  /\ newSyms' = <<>>
  /\ doing' = "load"
  /\ UNCHANGED <<stmts, isError, blockError, cmdLine, fault>>

\* _NclRegisterFunc.
RegisterFunc(n) ==
  /\ fault = "none" /\ doing = "load"
  /\ LookUp(n) # NoSym => sym[LookUp(n)].type = "UNDEF" \/ sym[LookUp(n)].level < scopes[top].level
  /\ Adding(n, "IFUNC", LAMBDA s : UNCHANGED stmts)
  /\ UNCHANGED <<isError, blockError, cmdLine, doing>>

\* The library keeps its scope.  What it registered stays on the list.
CloseLibrary ==
  /\ fault = "none" /\ doing = "load"
  /\ PopScope /\ sym' = Popped
  /\ stmts' = <<Statement("plain")>>
  /\ doing' = "parse"
  /\ UNCHANGED <<newSyms, isError, blockError, cmdLine, fault>>

\* The library cannot be opened, or has no Init.
LibraryFails(s) ==
  /\ Parsing /\ Len(stmts) = 1 /\ cur.kind = "name" /\ cur.f = s
  /\ sym[s].type = "UNDEF"
  /\ stmts' = <<Statement("plain")>>
  /\ UNCHANGED <<table, isError, blockError, cmdLine, doing, fault>>

\* Nothing is said of what the program does after an undefined step.
Stopped == fault # "none" /\ UNCHANGED vars

Next ==
  \/ \E n \in Name : Lex(n) \/ Declare(n) \/ RegisterFunc(n)
  \/ \E s \in SymId : OpenDef(s) \/ OpenLibrary(s) \/ LibraryFails(s)
  \/ AcceptHead \/ HeadError \/ OpenBlock \/ SyntaxError
  \/ EndLine \/ NextBranch \/ CloseBlock \/ CloseDef \/ EndStatement
  \/ DeleteNewest \/ DropLine \/ FailDef \/ DropStatement \/ CloseLibrary
  \/ Stopped

Spec == Init /\ [][Next]_vars

-----------------------------------------------------------------------------
(* Properties *)

Symbol == [type : {"FREE", "UNDEF", "NFUNC", "DLIB", "IFUNC"}, name : Name \cup {NoSym},
           level : Nat, offset : Nat, next : Ref, pre : Ref, open : BOOLEAN]

Scope == [level : Nat, curOffset : Nat, nelem : [Bucket -> Int], thelist : [Bucket -> Ref]]

StatementRecord ==
  [kind : {"plain", "name", "expr", "head", "def", "block", "done", "failed"}, f : Ref,
   refs : SUBSET SymId, lines : BOOLEAN, branch : Nat]

TypeOK ==
  /\ sym \in [SymId -> Symbol]
  /\ scopes \in Seq(Scope)
  /\ newSyms \in Seq(SymId)
  /\ stmts \in Seq(StatementRecord) /\ stmts # <<>>
  /\ isError \in BOOLEAN /\ blockError \in BOOLEAN /\ cmdLine \in BOOLEAN
  /\ doing \in {"parse", "load", "failDef", "dropLine", "dropAll"}
  /\ fault \in {"none", "freed", "foreign", "full"}

\* The symbols of scope k.
In(k) == {s \in SymId : sym[s].open /\ sym[s].level = scopes[k].level}

\* However statements, definitions and their errors are nested, the chains of
\* an open scope hold exactly its symbols, each on the chain of its name, with
\* pointers that agree in both directions and the right count: what a roll back
\* takes out of a chain leaves no gap and no freed neighbour.
WellLinked ==
  \A k \in DOMAIN scopes, b \in Bucket :
    LET here == {s \in In(k) : Hash[sym[s].name] = b}
    IN  /\ Chain(scopes[k], b) = here
        /\ scopes[k].nelem[b] = Cardinality(here)
        /\ \A s \in here :
             /\ (sym[s].pre = NoSym) = (scopes[k].thelist[b] = s)
             /\ sym[s].next # NoSym => sym[s].next \in here /\ sym[sym[s].next].pre = s

\* No two symbols of an open scope have the same offset, and the next offset
\* is behind them all: an offset is a cell of the frame the scope gets when its
\* function is called, so two variables with one offset overwrite each other.
\* A roll back gives offsets out again, also in scopes further out.
SlotsDistinct ==
  \A k \in DOMAIN scopes : \A s \in In(k) :
    /\ sym[s].offset < scopes[k].curOffset
    /\ \A t \in In(k) : sym[t].offset = sym[s].offset => s = t

\* The open scopes are the first one and one for each definition and library
\* being read, on every way out of a definition: the level of a definition in
\* the middle of another is the one its own names get.
OpenDefs == {i \in DOMAIN stmts : stmts[i].kind \in {"head", "def"}}
ScopesMatchStatements ==
  /\ Len(scopes) = 1 + Cardinality(OpenDefs) + (IF doing = "load" THEN 1 ELSE 0)
  /\ \A k \in DOMAIN scopes : scopes[k].level = k

\* The symbol table keeps the promise of NameScopes: a scope is a sequence of
\* names, of which a name's place is its offset; names come in at the end of the
\* innermost scope, and a statement in error takes back exactly the names that
\* came in since the last line that was accepted, from the end of every scope.
NamesOf(k) ==
  [i \in 1 .. scopes[k].curOffset |->
     IF \E s \in In(k) : sym[s].offset = i - 1
     THEN sym[CHOOSE s \in In(k) : sym[s].offset = i - 1].name ELSE NoSym]
NewIn(k) == {i \in DOMAIN newSyms : newSyms[i] \in In(k)}

AllNames == [k \in DOMAIN scopes |-> NamesOf(k)]
Firm == [k \in DOMAIN scopes |-> scopes[k].curOffset - Cardinality(NewIn(k))]
Undoing == doing \notin {"parse", "load"}

Promise == INSTANCE NameScopes WITH names <- AllNames, firm <- Firm, undoing <- Undoing

KeepsPromise == Promise!Spec

\* A roll back finds every symbol it frees in the scope the symbol is in.
RollbackInOwnScope == fault # "foreign"

\* Neither the parser nor the execution of a tree follows a pointer to a symbol
\* that a roll back has freed.
NoFreedSymbolUsed == fault # "freed"
=============================================================================
