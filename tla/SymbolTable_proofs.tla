------------------------- MODULE SymbolTable_proofs -------------------------
(***************************************************************************)
(* Proofs about SymbolTable, for any number of names, symbols, chains and  *)
(* open statements: its types, ScopesMatchStatements, SlotsDistinct,       *)
(* WellLinked, and that it implements NameScopes.                          *)
(*                                                                         *)
(* SlotsDistinct is not inductive.  What a roll back leaves is distinct    *)
(* because the list of new symbols has, behind every symbol, all symbols   *)
(* of its scope with a greater offset (RollbackOrder): the newest is the   *)
(* last of its scope.  WellLinked is not inductive either: only because a  *)
(* chain is in the order of the offsets (ChainInv) is the newest symbol    *)
(* its head, and does a walk from the head pass every symbol.  That a      *)
(* scope is a sequence of names needs, besides, that no offset is skipped  *)
(* (Dense) and that the list has no symbol twice (Once).                   *)
(***************************************************************************)
EXTENDS SymbolTable, FiniteSetTheorems, SequenceTheorems, Induction, TLAPS

Levels == \A k \in DOMAIN scopes : scopes[k].level = k

\* An open symbol is a symbol, of an open scope.
OpenSymbols ==
  \A s \in SymId : sym[s].open => sym[s].type # "FREE" /\ sym[s].level \in DOMAIN scopes

\* Behind a symbol on the list come all those of its scope with a greater offset.
RollbackOrder ==
  \A i \in DOMAIN newSyms : \A t \in SymId :
    /\ sym[newSyms[i]].open /\ sym[t].open /\ sym[t].level = sym[newSyms[i]].level
    /\ sym[t].offset > sym[newSyms[i]].offset
    => \E j \in DOMAIN newSyms : j > i /\ newSyms[j] = t

TableTypes ==
  /\ sym \in [SymId -> Symbol] /\ scopes \in Seq(Scope) /\ newSyms \in Seq(SymId)
  /\ scopes # <<>>

TableInv ==
  TableTypes /\ Levels /\ OpenSymbols /\ SlotsDistinct /\ RollbackOrder

StatementTypes ==
  /\ stmts \in Seq(StatementRecord) /\ stmts # <<>>
  /\ isError \in BOOLEAN /\ blockError \in BOOLEAN /\ cmdLine \in BOOLEAN
  /\ doing \in {"parse", "load", "failDef", "dropLine", "dropAll"}
  /\ fault \in {"none", "freed", "foreign", "full"}

\* Where the innermost statement is when the parser is not reading tokens.
Phases ==
  /\ doing = "failDef" => cur.kind \in {"head", "def"}
  /\ doing = "dropLine" => Len(stmts) > 1 /\ Complete
  /\ doing = "dropAll" => Len(stmts) = 1 /\ Complete
  /\ doing = "load" => Len(stmts) = 1 /\ cur.kind = "name"

Count == Len(scopes) = 1 + Cardinality(OpenDefs) + (IF doing = "load" THEN 1 ELSE 0)

IInv == TableInv /\ StatementTypes /\ Phases /\ Count

-----------------------------------------------------------------------------
(* The operations of the table *)

LEMMA PrefixOf ==
  ASSUME NEW S, NEW seq \in Seq(S), NEW n \in 0 .. Len(seq)
  PROVE  /\ SubSeq(seq, 1, n) \in Seq(S) /\ Len(SubSeq(seq, 1, n)) = n
         /\ \A i \in 1 .. n : SubSeq(seq, 1, n)[i] = seq[i]
<1>1. n \in Nat /\ n \in Int /\ 1 \in Int /\ \A i \in 1 .. n : seq[i] \in S
  OBVIOUS
<1>2. /\ SubSeq(seq, 1, n) \in Seq(S)
      /\ Len(SubSeq(seq, 1, n)) = IF 1 <= n THEN n - 1 + 1 ELSE 0
      /\ \A i \in 1 .. n - 1 + 1 : SubSeq(seq, 1, n)[i] = seq[1 + i - 1]
  BY <1>1, SubSeqProperties
<1>3. Len(SubSeq(seq, 1, n)) = n
  BY <1>1, <1>2
<1>4. \A i \in 1 .. n : SubSeq(seq, 1, n)[i] = seq[i]
  <2> TAKE i \in 1 .. n
  <2>1. i \in 1 .. n - 1 + 1 /\ 1 + i - 1 = i
    BY <1>1
  <2> QED BY <1>2, <2>1
<1> QED BY <1>2, <1>3, <1>4

LEMMA FrontOf ==
  ASSUME NEW S, NEW seq \in Seq(S), seq # <<>>
  PROVE  /\ SubSeq(seq, 1, Len(seq) - 1) \in Seq(S)
         /\ Len(SubSeq(seq, 1, Len(seq) - 1)) = Len(seq) - 1
         /\ \A i \in DOMAIN SubSeq(seq, 1, Len(seq) - 1) :
              i \in DOMAIN seq /\ SubSeq(seq, 1, Len(seq) - 1)[i] = seq[i]
<1>1. Len(seq) \in Nat /\ Len(seq) > 0
  OBVIOUS
<1> DEFINE n == Len(seq) - 1
<1>2. n \in 0 .. Len(seq) /\ n \in Nat
  BY <1>1
<1> HIDE DEF n
<1>3. /\ SubSeq(seq, 1, n) \in Seq(S) /\ Len(SubSeq(seq, 1, n)) = n
      /\ \A i \in 1 .. n : SubSeq(seq, 1, n)[i] = seq[i]
  BY <1>2, PrefixOf
<1> QED
  BY <1>1, <1>2, <1>3 DEF n

LEMMA WithSymbolScope ==
  ASSUME NEW scope \in Scope, NEW s \in Ref, NEW b \in Bucket
  PROVE  /\ WithSymbol(scope, s, b) \in Scope
         /\ WithSymbol(scope, s, b).level = scope.level
         /\ WithSymbol(scope, s, b).curOffset = scope.curOffset + 1
<1>2. [scope.nelem EXCEPT ![b] = @ + 1] \in [Bucket -> Int]
  BY DEF Scope
<1>3. [scope.thelist EXCEPT ![b] = s] \in [Bucket -> Ref]
  BY DEF Scope
<1>4. scope.level \in Nat /\ scope.curOffset + 1 \in Nat
  BY DEF Scope
<1> QED
  BY <1>2, <1>3, <1>4 DEF WithSymbol, Scope

LEMMA AddSymKeeps ==
  ASSUME TableInv, NEW s \in SymId, Freed(s), NEW n \in Name,
         NEW type \in {"UNDEF", "IFUNC"}, AddSym(s, n, type)
  PROVE  TableInv' /\ Len(scopes') = Len(scopes)
<1> USE DEF TableInv, top
<1>1. top \in DOMAIN scopes /\ Hash[n] \in Bucket
  BY HashAssumption DEF TableTypes
<1>2. ~sym[s].open
  BY DEF OpenSymbols, Freed
<1> DEFINE k == Len(scopes)
           new == NewSymbol(n, type)
<1>0. scopes[k] \in Scope /\ scopes[k].level = k
  BY <1>1 DEF TableTypes, Levels
<1>00. /\ scopes[k].curOffset \in Nat /\ scopes[k].nelem \in [Bucket -> Int]
       /\ scopes[k].thelist \in [Bucket -> Ref] /\ k \in Nat
  BY <1>0, <1>1 DEF Scope, TableTypes
<1>3. /\ new.open /\ new.level = k /\ new.offset = scopes[k].curOffset
      /\ new.type = type /\ new \in Symbol
  <2>1. scopes[k].thelist[Hash[n]] \in Ref
    BY <1>1, <1>00
  <2> QED BY <2>1, <1>0, <1>00 DEF NewSymbol, Symbol, Ref
<1>4. \A t \in SymId : t # s =>
        /\ sym'[t].open = sym[t].open /\ sym'[t].level = sym[t].level
        /\ sym'[t].offset = sym[t].offset /\ sym'[t].type = sym[t].type
        /\ sym'[t] \in Symbol
  <2> SUFFICES ASSUME NEW t \in SymId, t # s
               PROVE  /\ sym'[t].open = sym[t].open /\ sym'[t].level = sym[t].level
                      /\ sym'[t].offset = sym[t].offset /\ sym'[t].type = sym[t].type
                      /\ sym'[t] \in Symbol
    OBVIOUS
  <2>1. sym[t] \in Symbol
    BY DEF TableTypes
  <2>2. sym'[t] = sym[t] \/ sym'[t] = [sym[t] EXCEPT !.pre = s]
    BY DEF AddSym
  <2>3. CASE sym'[t] = [sym[t] EXCEPT !.pre = s]
    BY <2>1, <2>3 DEF Symbol, Ref
  <2> QED BY <2>1, <2>2, <2>3
<1>5. sym'[s] = new
  BY DEF AddSym
<1>6. /\ scopes' \in Seq(Scope) /\ Len(scopes') = Len(scopes) /\ DOMAIN scopes' = DOMAIN scopes
      /\ \A j \in DOMAIN scopes : scopes'[j].level = scopes[j].level
      /\ \A j \in DOMAIN scopes : j # k => scopes'[j] = scopes[j]
      /\ scopes'[k].curOffset = scopes[k].curOffset + 1
  <2>1. scopes' = [scopes EXCEPT ![k] = WithSymbol(scopes[k], s, Hash[n])]
    BY DEF AddSym
  <2>2. /\ WithSymbol(scopes[k], s, Hash[n]) \in Scope
        /\ WithSymbol(scopes[k], s, Hash[n]).level = k
        /\ WithSymbol(scopes[k], s, Hash[n]).curOffset = scopes[k].curOffset + 1
    BY <1>0, <1>1, WithSymbolScope DEF Ref
  <2> QED
    BY <2>1, <2>2, <1>0, <1>1 DEF TableTypes
<1>7. /\ newSyms' \in Seq(SymId) /\ Len(newSyms') = Len(newSyms) + 1
      /\ newSyms'[Len(newSyms) + 1] = s
      /\ \A i \in DOMAIN newSyms : newSyms'[i] = newSyms[i]
  BY DEF AddSym, TableTypes
<1>8. TableTypes'
  <2>1. sym' \in [SymId -> Symbol]
    BY <1>3, <1>4, <1>5 DEF AddSym
  <2> QED
    BY <2>1, <1>6, <1>7 DEF TableTypes
<1>9. Levels' /\ OpenSymbols'
  BY <1>1, <1>3, <1>4, <1>5, <1>6 DEF Levels, OpenSymbols
<1>10. \A t \in SymId : sym[t].open /\ sym[t].level = k => sym[t].offset < scopes[k].curOffset
  BY <1>1 DEF SlotsDistinct, In, Levels
<1>11. SlotsDistinct'
  <2> SUFFICES ASSUME NEW j \in DOMAIN scopes, NEW t \in SymId, NEW u \in SymId,
                      sym'[t].open, sym'[t].level = j, sym'[u].open, sym'[u].level = j
               PROVE  /\ sym'[t].offset < scopes'[j].curOffset
                      /\ sym'[u].offset = sym'[t].offset => t = u
    BY <1>6, <1>9 DEF SlotsDistinct, In, Levels
  <2>1. scopes[k].curOffset \in Nat
    BY <1>00
  <2>2. t \in In(j) \/ t = s
    BY <1>4 DEF In, Levels
  <2>3. u \in In(j) \/ u = s
    BY <1>4 DEF In, Levels
  <2>4. t # s => sym'[t].offset < scopes[j].curOffset
    BY <2>2, <1>4 DEF SlotsDistinct
  <2>5. sym'[t].offset \in Nat /\ sym'[u].offset \in Nat
    BY <1>8 DEF TableTypes, Symbol
  <2>6. CASE t = s
    BY <2>6, <2>1, <2>3, <2>5, <1>3, <1>4, <1>5, <1>6, <1>10
  <2>7. CASE t # s
    <3>1. sym'[t].offset < scopes'[j].curOffset
      BY <2>7, <2>1, <2>4, <2>5, <1>6
    <3>2. CASE u = s
      BY <3>1, <3>2, <2>1, <2>4, <2>5, <2>7, <1>3, <1>5
    <3>3. CASE u # s
      BY <3>1, <3>3, <2>2, <2>3, <2>7, <1>4 DEF SlotsDistinct
    <3> QED BY <3>2, <3>3
  <2> QED BY <2>6, <2>7
<1>12. RollbackOrder'
  <2> SUFFICES ASSUME NEW i \in DOMAIN newSyms', NEW t \in SymId,
                      sym'[newSyms'[i]].open, sym'[t].open,
                      sym'[t].level = sym'[newSyms'[i]].level,
                      sym'[t].offset > sym'[newSyms'[i]].offset
               PROVE  \E j \in DOMAIN newSyms' : j > i /\ newSyms'[j] = t
    BY DEF RollbackOrder
  <2>1. newSyms'[i] # s
    <3> SUFFICES ASSUME newSyms'[i] = s PROVE FALSE
      OBVIOUS
    <3>1. sym'[t].level = k /\ sym'[t].offset > scopes[k].curOffset
      BY <1>3, <1>5
    <3>2. t # s
      BY <3>1, <1>3, <1>5, <1>00
    <3>3. sym[t].open /\ sym[t].level = k /\ sym[t].offset > scopes[k].curOffset
      BY <3>1, <3>2, <1>4
    <3>4. sym[t].offset \in Nat
      BY DEF TableTypes, Symbol
    <3> QED BY <3>3, <3>4, <1>00, <1>10
  <2>2. i \in DOMAIN newSyms /\ newSyms'[i] = newSyms[i] /\ newSyms[i] \in SymId
    BY <2>1, <1>7 DEF TableTypes
  <2>3. CASE t = s
    BY <2>2, <2>3, <1>7 DEF TableTypes
  <2>4. CASE t # s
    <3>1. PICK j \in DOMAIN newSyms : j > i /\ newSyms[j] = t
      BY <2>1, <2>2, <2>4, <1>4 DEF RollbackOrder
    <3> QED BY <3>1, <1>7 DEF TableTypes
  <2> QED BY <2>3, <2>4
<1> QED
  BY <1>6, <1>8, <1>9, <1>11, <1>12

LEMMA WithoutSymbolScope ==
  ASSUME NEW scope \in Scope, TableTypes, NEW s \in SymId, NEW b
  PROVE  /\ WithoutSymbol(scope, s, b) \in Scope
         /\ WithoutSymbol(scope, s, b).level = scope.level
         /\ WithoutSymbol(scope, s, b).curOffset = sym[s].offset
<1>1. sym[s].offset \in Nat /\ sym[s].next \in Ref
  BY DEF TableTypes, Symbol
<1>2. [scope.nelem EXCEPT ![b] = @ - 1] \in [Bucket -> Int]
  <2> DEFINE n == scope.nelem[b] - 1
  <2>1. scope.nelem \in [Bucket -> Int]
    BY DEF Scope
  <2>2. b \in Bucket => n \in Int
    BY <2>1
  <2> HIDE DEF n
  <2>3. [scope.nelem EXCEPT ![b] = n] \in [Bucket -> Int]
    BY <2>1, <2>2
  <2> QED BY <2>3 DEF n
<1>3. [scope.thelist EXCEPT ![b] = IF sym[s].pre = NoSym THEN sym[s].next ELSE @]
        \in [Bucket -> Ref]
  <2> DEFINE head == IF sym[s].pre = NoSym THEN sym[s].next ELSE scope.thelist[b]
  <2>1. scope.thelist \in [Bucket -> Ref]
    BY DEF Scope
  <2>2. b \in Bucket => head \in Ref
    BY <1>1, <2>1
  <2> HIDE DEF head
  <2>3. [scope.thelist EXCEPT ![b] = head] \in [Bucket -> Ref]
    BY <2>1, <2>2
  <2> QED BY <2>3 DEF head
<1>4. scope.level \in Nat
  BY DEF Scope
<1> QED
  BY <1>1, <1>2, <1>3, <1>4 DEF WithoutSymbol, OffsetBefore, Scope

LEMMA ScopeAtLevel ==
  ASSUME TableInv, NEW l \in Nat
  PROVE  ScopeAt(l) = IF l \in DOMAIN scopes THEN l ELSE 0
<1>1. DOMAIN scopes = 1 .. Len(scopes) /\ Len(scopes) \in Nat
  BY DEF TableInv, TableTypes
<1>2. CASE l \in DOMAIN scopes
  <2>1. /\ l \in DOMAIN scopes /\ scopes[l].level = l
        /\ \A j \in l + 1 .. top : scopes[j].level # l
    BY <1>1, <1>2 DEF TableInv, Levels, top
  <2>2. \A k \in DOMAIN scopes : scopes[k].level = l => k = l
    BY DEF TableInv, Levels
  <2> QED BY <1>2, <2>1, <2>2 DEF ScopeAt
<1>3. CASE l \notin DOMAIN scopes
  BY <1>3 DEF TableInv, Levels, ScopeAt
<1> QED BY <1>2, <1>3

\* One symbol is unlinked, the newest one.
LEMMA DeleteSymKeeps ==
  ASSUME TableInv, newSyms # <<>>, NEW s, s = newSyms[Len(newSyms)],
         sym[s].open, DeleteSym(s, sym[s].level),
         newSyms' = SubSeq(newSyms, 1, Len(newSyms) - 1)
  PROVE  TableInv' /\ Len(scopes') = Len(scopes)
<1> USE DEF TableInv
<1>1. s \in SymId
  BY DEF TableTypes
<1> DEFINE k == sym[s].level
<1>2. k \in DOMAIN scopes /\ scopes[k] \in Scope /\ scopes[k].level = k
  BY <1>1 DEF OpenSymbols, TableTypes, Levels
<1>3. /\ scopes' \in Seq(Scope) /\ Len(scopes') = Len(scopes) /\ DOMAIN scopes' = DOMAIN scopes
      /\ \A j \in DOMAIN scopes : scopes'[j].level = scopes[j].level
      /\ \A j \in DOMAIN scopes : j # k => scopes'[j] = scopes[j]
      /\ scopes'[k].curOffset = sym[s].offset
  <2>1. scopes' = [scopes EXCEPT ![k] = WithoutSymbol(scopes[k], s, Hash[sym[s].name])]
    BY DEF DeleteSym
  <2>2. /\ WithoutSymbol(scopes[k], s, Hash[sym[s].name]) \in Scope
        /\ WithoutSymbol(scopes[k], s, Hash[sym[s].name]).level = k
        /\ WithoutSymbol(scopes[k], s, Hash[sym[s].name]).curOffset = sym[s].offset
    BY <1>1, <1>2, WithoutSymbolScope
  <2> DEFINE less == WithoutSymbol(scopes[k], s, Hash[sym[s].name])
  <2>3. less \in Scope /\ less.level = k /\ less.curOffset = sym[s].offset
    BY <2>2
  <2>4. scopes' = [scopes EXCEPT ![k] = less]
    BY <2>1
  <2> HIDE DEF less
  <2>5. scopes \in Seq(Scope)
    BY DEF TableTypes
  <2>6. /\ scopes' \in Seq(Scope) /\ Len(scopes') = Len(scopes)
        /\ DOMAIN scopes' = DOMAIN scopes
    BY <2>3, <2>4, <2>5, <1>2
  <2>7. scopes'[k] = less /\ \A j \in DOMAIN scopes : j # k => scopes'[j] = scopes[j]
    BY <2>4, <2>5, <1>2
  <2> QED BY <2>3, <2>6, <2>7, <1>2
<1>4. \A t \in SymId : t # s =>
        /\ sym'[t].open = sym[t].open /\ sym'[t].level = sym[t].level
        /\ sym'[t].offset = sym[t].offset /\ sym'[t].type = sym[t].type
        /\ sym'[t] \in Symbol
  <2> SUFFICES ASSUME NEW t \in SymId, t # s
               PROVE  /\ sym'[t].open = sym[t].open /\ sym'[t].level = sym[t].level
                      /\ sym'[t].offset = sym[t].offset /\ sym'[t].type = sym[t].type
                      /\ sym'[t] \in Symbol
    OBVIOUS
  <2>1. /\ sym[t] \in Symbol /\ sym[s].next \in Ref /\ sym[s].pre \in Ref
        /\ sym'[t] = Unlink(s, t)
    BY <1>1 DEF DeleteSym, TableTypes, Symbol
  <2>2. \/ sym'[t] = [sym[t] EXCEPT !.next = sym[s].next]
        \/ sym'[t] = [sym[t] EXCEPT !.pre = sym[s].pre]
        \/ sym'[t] = sym[t]
    BY <2>1 DEF Unlink
  <2> QED BY <2>1, <2>2 DEF Symbol
<1>5. sym'[s] = FreeCell /\ ~sym'[s].open /\ sym'[s] \in Symbol
  BY <1>1 DEF DeleteSym, Unlink, FreeCell, Symbol, Ref
<1>6. /\ newSyms' \in Seq(SymId) /\ Len(newSyms') = Len(newSyms) - 1
      /\ \A i \in DOMAIN newSyms' : newSyms'[i] = newSyms[i] /\ i \in DOMAIN newSyms
  <2>1. newSyms \in Seq(SymId)
    BY DEF TableTypes
  <2> QED BY <2>1, FrontOf
<1>7. TableTypes'
  <2>1. sym' \in [SymId -> Symbol]
    BY <1>4, <1>5 DEF DeleteSym
  <2> QED
    BY <2>1, <1>2, <1>3, <1>6 DEF TableTypes
<1>8. Levels' /\ OpenSymbols'
  BY <1>3, <1>4, <1>5 DEF Levels, OpenSymbols
<1>9. \A t \in SymId : sym[t].open /\ sym[t].level = k /\ t # s => sym[t].offset < sym[s].offset
  <2> SUFFICES ASSUME NEW t \in SymId, sym[t].open, sym[t].level = k, t # s
               PROVE  sym[t].offset < sym[s].offset
    OBVIOUS
  <2>1. sym[t].offset \in Nat /\ sym[s].offset \in Nat
    BY <1>1 DEF TableTypes, Symbol
  <2>2. sym[t].offset # sym[s].offset
    BY <1>1, <1>2 DEF SlotsDistinct, In
  <2>3. ~(sym[t].offset > sym[s].offset)
    BY <1>1 DEF RollbackOrder, TableTypes
  <2> QED BY <2>1, <2>2, <2>3
<1>10. SlotsDistinct'
  <2> SUFFICES ASSUME NEW j \in DOMAIN scopes, NEW t \in SymId, NEW u \in SymId,
                      sym'[t].open, sym'[t].level = j, sym'[u].open, sym'[u].level = j
               PROVE  /\ sym'[t].offset < scopes'[j].curOffset
                      /\ sym'[u].offset = sym'[t].offset => t = u
    BY <1>3, <1>8 DEF SlotsDistinct, In, Levels
  <2>1. t # s /\ u # s /\ t \in In(j) /\ u \in In(j)
    BY <1>4, <1>5 DEF In, Levels
  <2>2. sym[t].offset < scopes'[j].curOffset
    BY <2>1, <1>3, <1>4, <1>9 DEF SlotsDistinct
  <2> QED
    BY <2>1, <2>2, <1>4 DEF SlotsDistinct
<1>11. RollbackOrder'
  <2> SUFFICES ASSUME NEW i \in DOMAIN newSyms', NEW t \in SymId,
                      sym'[newSyms'[i]].open, sym'[t].open,
                      sym'[t].level = sym'[newSyms'[i]].level,
                      sym'[t].offset > sym'[newSyms'[i]].offset
               PROVE  \E j \in DOMAIN newSyms' : j > i /\ newSyms'[j] = t
    BY DEF RollbackOrder
  <2>1. /\ i \in DOMAIN newSyms /\ newSyms'[i] = newSyms[i] /\ newSyms[i] \in SymId
        /\ newSyms[i] # s /\ t # s
    BY <1>5, <1>6 DEF TableTypes
  <2>2. PICK j \in DOMAIN newSyms : j > i /\ newSyms[j] = t
    BY <2>1, <1>4 DEF RollbackOrder
  <2>3. j # Len(newSyms)
    BY <2>1, <2>2
  <2> QED BY <2>2, <2>3, <1>6, SMTT(40) DEF TableTypes
<1> QED
  BY <1>3, <1>7, <1>8, <1>10, <1>11

\* A step that adds no symbol and moves none: scopes come and go at the end,
\* symbols are closed or get another type, the list is reset.
LEMMA QuietStepKeeps ==
  ASSUME TableInv, TableTypes', Levels', newSyms' = newSyms \/ newSyms' = <<>>,
         \A s \in SymId : sym'[s].open =>
           /\ sym[s].open /\ sym'[s].type # "FREE"
           /\ sym'[s].level = sym[s].level /\ sym'[s].offset = sym[s].offset
           /\ sym[s].level \in DOMAIN scopes'
           /\ scopes'[sym[s].level].curOffset = scopes[sym[s].level].curOffset
  PROVE  TableInv'
<1> USE DEF TableInv
<1>1. OpenSymbols'
  BY DEF OpenSymbols
<1>2. SlotsDistinct'
  <2> SUFFICES ASSUME NEW j \in DOMAIN scopes', NEW t \in SymId, NEW u \in SymId,
                      sym'[t].open, sym'[t].level = j, sym'[u].open, sym'[u].level = j
               PROVE  /\ sym'[t].offset < scopes'[j].curOffset
                      /\ sym'[u].offset = sym'[t].offset => t = u
    BY DEF SlotsDistinct, In, Levels
  <2>1. j \in DOMAIN scopes /\ scopes[j].level = j
    BY DEF OpenSymbols, Levels
  <2>2. t \in In(j) /\ u \in In(j)
    BY <2>1 DEF In
  <2> QED
    BY <2>1, <2>2 DEF SlotsDistinct
<1>3. RollbackOrder'
  <2> SUFFICES ASSUME NEW i \in DOMAIN newSyms', NEW t \in SymId,
                      sym'[newSyms'[i]].open, sym'[t].open,
                      sym'[t].level = sym'[newSyms'[i]].level,
                      sym'[t].offset > sym'[newSyms'[i]].offset
               PROVE  \E j \in DOMAIN newSyms' : j > i /\ newSyms'[j] = t
    BY DEF RollbackOrder
  <2>1. newSyms' = newSyms /\ newSyms[i] \in SymId
    BY DEF TableTypes
  <2> QED
    BY <2>1 DEF RollbackOrder
<1> QED
  BY <1>1, <1>2, <1>3

LEMMA NewScopeKeeps ==
  ASSUME TableInv, NewScope, newSyms' = newSyms \/ newSyms' = <<>>,
         \A s \in SymId : /\ sym'[s].open = sym[s].open /\ sym'[s].level = sym[s].level
                          /\ sym'[s].offset = sym[s].offset
                          /\ sym[s].type # "FREE" => sym'[s].type # "FREE",
         sym' \in [SymId -> Symbol]
  PROVE  TableInv' /\ Len(scopes') = Len(scopes) + 1
<1>1. scopes \in Seq(Scope) /\ Len(scopes) \in Nat /\ Len(scopes) > 0
  BY DEF TableInv, TableTypes
<1>2. scopes[top].level = Len(scopes)
  BY <1>1 DEF TableInv, Levels, top
<1>3. EmptyScope(Len(scopes) + 1) \in Scope /\ EmptyScope(Len(scopes) + 1).level = Len(scopes) + 1
  BY <1>1 DEF EmptyScope, Scope, Ref
<1>4. scopes' = Append(scopes, EmptyScope(Len(scopes) + 1))
  BY <1>2 DEF NewScope
<1>5. /\ scopes' \in Seq(Scope) /\ Len(scopes') = Len(scopes) + 1
      /\ \A k \in DOMAIN scopes : k \in DOMAIN scopes' /\ scopes'[k] = scopes[k]
      /\ scopes'[Len(scopes) + 1] = EmptyScope(Len(scopes) + 1)
  BY <1>1, <1>3, <1>4
<1>6. TableTypes'
  <2>1. newSyms' \in Seq(SymId)
    <3>1. newSyms \in Seq(SymId) /\ <<>> \in Seq(SymId)
      BY DEF TableInv, TableTypes
    <3> QED BY <3>1
  <2>2. scopes' # <<>>
    BY <1>1, <1>5
  <2> QED BY <2>1, <2>2, <1>5 DEF TableTypes
<1>7. Levels'
  <2> SUFFICES ASSUME NEW k \in DOMAIN scopes' PROVE scopes'[k].level = k
    BY DEF Levels
  <2>1. k \in DOMAIN scopes \/ k = Len(scopes) + 1
    BY <1>1, <1>5
  <2>2. k \in DOMAIN scopes => scopes[k].level = k
    BY DEF TableInv, Levels
  <2> HIDE DEF EmptyScope
  <2> QED BY <2>1, <2>2, <1>3, <1>5
<1> QED
  BY <1>5, <1>6, <1>7, QuietStepKeeps DEF TableInv, OpenSymbols

LEMMA PopScopeKeeps ==
  ASSUME TableInv, PopScope, Len(scopes) > 1, newSyms' = newSyms,
         NEW f \in Ref,
         sym' = Popped \/ sym' = [Popped EXCEPT ![f].type = "UNDEF"]
  PROVE  TableInv' /\ Len(scopes') = Len(scopes) - 1
<1>1. scopes \in Seq(Scope) /\ Len(scopes) \in Nat /\ scopes # <<>>
  BY DEF TableInv, TableTypes
<1>2. /\ scopes' \in Seq(Scope) /\ Len(scopes') = Len(scopes) - 1
      /\ \A k \in DOMAIN scopes' : k \in DOMAIN scopes /\ scopes'[k] = scopes[k]
  BY <1>1, FrontOf DEF PopScope, top
<1>3. \A s \in SymId :
        /\ Popped[s] \in Symbol
        /\ Popped[s].open => sym[s].open /\ sym[s].level # Len(scopes)
        /\ Popped[s].level = sym[s].level /\ Popped[s].offset = sym[s].offset
        /\ Popped[s].type = sym[s].type
  <2> TAKE s \in SymId
  <2>1. sym[s] \in Symbol
    BY DEF TableInv, TableTypes
  <2>2. scopes[top].level = Len(scopes)
    BY <1>1 DEF TableInv, Levels, top
  <2> QED BY <2>1, <2>2 DEF Popped, Symbol
<1>4. /\ sym' \in [SymId -> Symbol]
      /\ \A s \in SymId :
           /\ sym'[s].open => sym[s].open /\ sym[s].level # Len(scopes)
           /\ sym'[s].level = sym[s].level /\ sym'[s].offset = sym[s].offset
           /\ sym[s].type # "FREE" => sym'[s].type # "FREE"
  <2>1. Popped \in [SymId -> Symbol]
    BY <1>3 DEF Popped
  <2> HIDE DEF Popped
  <2>2. CASE sym' = Popped
    BY <1>3, <2>1, <2>2
  <2>3. CASE sym' = [Popped EXCEPT ![f].type = "UNDEF"]
    BY <1>3, <2>1, <2>3, ZenonT(60) DEF Symbol
  <2> QED BY <2>2, <2>3
<1>5. TableTypes' /\ Levels'
  BY <1>1, <1>2, <1>4 DEF TableInv, TableTypes, Levels
<1>6. \A s \in SymId : sym'[s].open => sym[s].level \in DOMAIN scopes' /\ sym[s].type # "FREE"
  BY <1>1, <1>2, <1>4 DEF TableInv, OpenSymbols
<1> QED
  BY <1>2, <1>4, <1>5, <1>6, QuietStepKeeps

LEMMA RetypeKeeps ==
  ASSUME TableInv, NEW f, NEW type \in {"UNDEF", "NFUNC", "DLIB"},
         sym' = [sym EXCEPT ![f].type = type]
  PROVE  /\ sym' \in [SymId -> Symbol]
         /\ \A s \in SymId : /\ sym'[s].open = sym[s].open /\ sym'[s].level = sym[s].level
                             /\ sym'[s].offset = sym[s].offset
                             /\ sym[s].type # "FREE" => sym'[s].type # "FREE"
BY ZenonT(60) DEF TableInv, TableTypes, Symbol

-----------------------------------------------------------------------------
(* The statements being parsed *)

LEMMA OpenDefsFinite ==
  ASSUME StatementTypes
  PROVE  IsFiniteSet(OpenDefs) /\ Cardinality(OpenDefs) \in Nat
<1>1. IsFiniteSet(DOMAIN stmts) 
  BY FS_Interval DEF StatementTypes
<1>2. OpenDefs \subseteq DOMAIN stmts
  BY DEF OpenDefs
<1> QED
  BY <1>1, <1>2, FS_Subset, FS_CardinalityType

LEMMA NewStatement ==
  /\ \A kind \in {"plain", "failed"} : Statement(kind) \in StatementRecord
  /\ \A kind : Statement(kind).kind = kind
BY DEF Statement, StatementRecord, Ref

LEMMA LookUpFinds ==
  ASSUME NEW n PROVE LookUp(n) \in Ref
<1>1. \A k : Named(n, k) \subseteq SymId
  BY DEF Named, Chain
<1> QED
  BY <1>1 DEF LookUp, Ref

LEMMA ReferKeeps ==
  ASSUME StatementTypes, newSyms \in Seq(SymId), NEW s \in Ref, NEW new \in BOOLEAN,
         new => s \in SymId, Refer(s, new)
  PROVE  /\ stmts' \in Seq(StatementRecord) /\ stmts' # <<>> /\ OpenDefs' = OpenDefs
<1>1. stmts \in Seq(StatementRecord) /\ Len(stmts) \in DOMAIN stmts /\ cur \in StatementRecord
  BY DEF StatementTypes, cur
<1> DEFINE kind == CASE cur.kind = "plain" -> "name" [] cur.kind = "name" -> "expr"
                     [] OTHER -> cur.kind
           f == IF cur.kind = "plain" THEN s ELSE cur.f
           refs == IF new \/ \E i \in DOMAIN newSyms : newSyms[i] = s
                   THEN cur.refs \cup {s} ELSE cur.refs
           rec == [cur EXCEPT !.kind = kind, !.f = f, !.refs = refs]
<1>2. stmts' = [stmts EXCEPT ![Len(stmts)] = rec]
  BY <1>1 DEF Refer, Mention, cur
<1>3. kind \in {"name", "expr", "head", "def", "block", "done", "failed"}
  BY <1>1 DEF StatementRecord
<1>4. f \in Ref
  BY <1>1 DEF StatementRecord
<1>5. refs \subseteq SymId
  BY <1>1 DEF StatementRecord
<1>6. (kind \in {"head", "def"}) = (cur.kind \in {"head", "def"})
  BY <1>1 DEF StatementRecord
<1> HIDE DEF kind, f, refs
<1>7. rec \in StatementRecord /\ rec.kind = kind
  BY <1>1, <1>3, <1>4, <1>5 DEF StatementRecord
<1> HIDE DEF rec
<1>8. /\ stmts' \in Seq(StatementRecord) /\ stmts' # <<>> /\ DOMAIN stmts' = DOMAIN stmts
      /\ stmts'[Len(stmts)] = rec
      /\ \A i \in DOMAIN stmts : i # Len(stmts) => stmts'[i] = stmts[i]
  BY <1>1, <1>2, <1>7
<1> QED
  BY <1>1, <1>6, <1>7, <1>8 DEF OpenDefs, cur

\* A step of the scanner: the table and the statement it is in, nothing else.
LEMMA AddingKeeps ==
  ASSUME IInv, NEW n \in Name, doing = "parse", Adding(n, "UNDEF", ReferNew),
         UNCHANGED <<isError, blockError, cmdLine, doing>>
  PROVE  IInv'
<1>1. CASE Len(newSyms) = MaxSyms
  <2>1. fault' = "full" /\ UNCHANGED <<table, stmts, isError, blockError, cmdLine, doing>>
    BY <1>1 DEF Adding
  <2> QED BY <2>1 DEF IInv, TableInv, TableTypes, Levels, OpenSymbols, SlotsDistinct, In,
                      RollbackOrder, StatementTypes, Phases, Count, OpenDefs, Complete, cur, table
<1>2. CASE Len(newSyms) # MaxSyms
  <2>1. PICK s \in Malloc : AddSym(s, n, "UNDEF") /\ ReferNew(s) /\ UNCHANGED fault
    BY <1>2 DEF Adding
  <2>2. s \in SymId /\ Freed(s)
    BY <2>1 DEF Malloc, Free
  <2>3. TableInv' /\ Len(scopes') = Len(scopes)
    BY <2>1, <2>2, AddSymKeeps DEF IInv
  <2>4. stmts' \in Seq(StatementRecord) /\ stmts' # <<>> /\ OpenDefs' = OpenDefs
    BY <2>1, <2>2, ReferKeeps DEF ReferNew, IInv, TableInv, TableTypes, Ref
  <2> QED BY <2>1, <2>3, <2>4 DEF IInv, StatementTypes, Phases, Count
<1> QED BY <1>1, <1>2

LEMMA ReferOldKeeps ==
  ASSUME IInv, NEW s \in Ref, doing = "parse", Refer(s, FALSE),
         UNCHANGED <<table, isError, blockError, cmdLine, doing, fault>>
  PROVE  IInv'
<1>1. stmts' \in Seq(StatementRecord) /\ stmts' # <<>> /\ OpenDefs' = OpenDefs
  BY ReferKeeps DEF IInv, TableInv, TableTypes
<1>2. TableInv'
  BY DEF IInv, TableInv, TableTypes, Levels, OpenSymbols, SlotsDistinct, In, RollbackOrder, table
<1> QED
  BY <1>1, <1>2 DEF IInv, StatementTypes, Phases, Count, table

LEMMA TableUnchanged ==
  ASSUME TableInv, UNCHANGED table PROVE TableInv' /\ Len(scopes') = Len(scopes)
BY DEF TableInv, TableTypes, Levels, OpenSymbols, SlotsDistinct, In, RollbackOrder, table

LEMMA TableReset ==
  ASSUME TableInv, newSyms' = <<>>, UNCHANGED <<sym, scopes>>
  PROVE  TableInv' /\ Len(scopes') = Len(scopes)
<1>1. TableTypes' /\ Levels'
  BY DEF TableInv, TableTypes, Levels
<1> QED
  BY <1>1, QuietStepKeeps DEF TableInv, OpenSymbols

LEMMA RegisterKeeps ==
  ASSUME IInv, NEW n \in Name, RegisterFunc(n) PROVE IInv'
<1>1. CASE Len(newSyms) = MaxSyms
  <2>1. fault' = "full" /\ UNCHANGED <<table, stmts, isError, blockError, cmdLine, doing>>
    BY <1>1 DEF RegisterFunc, Adding
  <2> QED BY <2>1, TableUnchanged DEF IInv, StatementTypes, Phases, Count, OpenDefs, Complete, cur
<1>2. CASE Len(newSyms) # MaxSyms
  <2>1. PICK s \in Malloc : AddSym(s, n, "IFUNC") /\ UNCHANGED <<stmts, fault>>
    BY <1>2 DEF RegisterFunc, Adding
  <2>2. s \in SymId /\ Freed(s)
    BY <2>1 DEF Malloc, Free
  <2>3. TableInv' /\ Len(scopes') = Len(scopes)
    BY <2>1, <2>2, AddSymKeeps DEF IInv
  <2> QED BY <2>1, <2>3 DEF RegisterFunc, IInv, StatementTypes, Phases, Count, OpenDefs, Complete, cur
<1> QED BY <1>1, <1>2

LEMMA OpenDefKeeps ==
  ASSUME IInv, NEW f \in SymId, OpenDef(f) PROVE IInv'
<1>1. TableInv' /\ Len(scopes') = Len(scopes) + 1
  BY NewScopeKeeps DEF OpenDef, IInv, TableInv, TableTypes
<1>2. stmts \in Seq(StatementRecord) /\ Len(stmts) \in DOMAIN stmts /\ cur \in StatementRecord
      /\ cur.kind = "name"
  BY DEF OpenDef, IInv, StatementTypes, cur
<1>3. stmts' = [stmts EXCEPT ![Len(stmts)] = [cur EXCEPT !.kind = "head"]]
  BY DEF OpenDef, cur
<1>4. [cur EXCEPT !.kind = "head"] \in StatementRecord /\ [cur EXCEPT !.kind = "head"].kind = "head"
  BY <1>2 DEF StatementRecord
<1>5. /\ stmts' \in Seq(StatementRecord) /\ stmts' # <<>> /\ DOMAIN stmts' = DOMAIN stmts
      /\ stmts'[Len(stmts)].kind = "head"
      /\ \A i \in DOMAIN stmts : i # Len(stmts) => stmts'[i] = stmts[i]
  <2> DEFINE rec == [cur EXCEPT !.kind = "head"]
  <2>1. rec \in StatementRecord /\ rec.kind = "head" /\ stmts' = [stmts EXCEPT ![Len(stmts)] = rec]
    BY <1>3, <1>4
  <2> HIDE DEF rec
  <2> QED BY <2>1, <1>2
<1>6. OpenDefs' = OpenDefs \cup {Len(stmts)} /\ Len(stmts) \notin OpenDefs
  BY <1>2, <1>5 DEF OpenDefs, cur
<1>7. Cardinality(OpenDefs') = Cardinality(OpenDefs) + 1
  BY <1>6, OpenDefsFinite, FS_AddElement DEF IInv
<1>8. Count'
  <2>1. Cardinality(OpenDefs) \in Nat /\ Len(scopes) \in Nat
    BY OpenDefsFinite DEF IInv, TableInv, TableTypes
  <2>2. doing = "parse" /\ doing' = "parse"
    BY DEF OpenDef, Parsing
  <2> QED BY <1>1, <1>7, <2>1, <2>2 DEF IInv, Count
<1> QED
  BY <1>1, <1>5, <1>8 DEF OpenDef, Parsing, IInv, StatementTypes, Phases

\* A new innermost statement under one of the same standing.
LEMMA PushKeeps ==
  ASSUME StatementTypes, NEW rec \in StatementRecord,
         (rec.kind \in {"head", "def"}) = (cur.kind \in {"head", "def"}),
         stmts' = Append([stmts EXCEPT ![Len(stmts)] = rec], Statement("plain"))
  PROVE  stmts' \in Seq(StatementRecord) /\ stmts' # <<>> /\ OpenDefs' = OpenDefs
<1>1. stmts \in Seq(StatementRecord) /\ Len(stmts) \in Nat /\ Len(stmts) > 0
  BY DEF StatementTypes
<1> DEFINE st == [stmts EXCEPT ![Len(stmts)] = rec]
<1>2. /\ st \in Seq(StatementRecord) /\ Len(st) = Len(stmts) /\ st[Len(stmts)] = rec
      /\ \A i \in 1 .. Len(stmts) : i # Len(stmts) => st[i] = stmts[i]
  BY <1>1
<1> HIDE DEF st
<1>3. Statement("plain") \in StatementRecord /\ Statement("plain").kind = "plain"
  BY NewStatement
<1>4. /\ stmts' \in Seq(StatementRecord) /\ Len(stmts') = Len(stmts) + 1
      /\ \A i \in 1 .. Len(stmts) : stmts'[i] = st[i]
      /\ stmts'[Len(stmts) + 1] = Statement("plain")
  <2> HIDE DEF Statement
  <2>1. stmts' = Append(st, Statement("plain"))
    BY DEF st
  <2> QED BY <1>1, <1>2, <1>3, <2>1
<1>5. \A i \in 1 .. Len(stmts) : (stmts'[i].kind \in {"head", "def"}) = (stmts[i].kind \in {"head", "def"})
  BY <1>1, <1>2, <1>4 DEF cur
<1> QED
  BY <1>1, <1>3, <1>4, <1>5 DEF OpenDefs

LEMMA AcceptHeadKeeps ==
  ASSUME IInv, AcceptHead PROVE IInv'
<1>1. cur \in StatementRecord /\ cur.kind = "head"
  BY DEF AcceptHead, IInv, StatementTypes, cur
<1> DEFINE rec == [cur EXCEPT !.kind = "def"]
<1>2. rec \in StatementRecord /\ rec.kind = "def"
  BY <1>1 DEF StatementRecord
<1>3. stmts' = Append([stmts EXCEPT ![Len(stmts)] = rec], Statement("plain"))
  BY DEF AcceptHead, cur
<1>4. stmts' \in Seq(StatementRecord) /\ stmts' # <<>> /\ OpenDefs' = OpenDefs
  <2> HIDE DEF rec
  <2> QED BY <1>1, <1>2, <1>3, PushKeeps DEF IInv
<1>5. /\ sym' \in [SymId -> Symbol]
      /\ \A s \in SymId : /\ sym'[s].open = sym[s].open /\ sym'[s].level = sym[s].level
                          /\ sym'[s].offset = sym[s].offset
                          /\ sym[s].type # "FREE" => sym'[s].type # "FREE"
  BY RetypeKeeps DEF AcceptHead, IInv
<1>6. UNCHANGED <<scopes, newSyms>>
  BY DEF AcceptHead
<1>7. TableTypes' /\ Levels'
  BY <1>5, <1>6 DEF IInv, TableInv, TableTypes, Levels
<1>8. TableInv'
  BY <1>5, <1>6, <1>7, QuietStepKeeps DEF IInv, TableInv, OpenSymbols
<1> QED
  BY <1>4, <1>6, <1>8 DEF AcceptHead, Parsing, IInv, StatementTypes, Phases, Count

\* The innermost statement turns into one that is no definition.
LEMMA ReplaceKeeps ==
  ASSUME StatementTypes, NEW rec \in StatementRecord, rec.kind \notin {"head", "def"},
         stmts' = [stmts EXCEPT ![Len(stmts)] = rec]
  PROVE  /\ stmts' \in Seq(StatementRecord) /\ stmts' # <<>> /\ Len(stmts') = Len(stmts)
         /\ OpenDefs' = OpenDefs \ {Len(stmts)}
<1>1. stmts \in Seq(StatementRecord) /\ Len(stmts) \in DOMAIN stmts
  BY DEF StatementTypes
<1>2. /\ stmts' \in Seq(StatementRecord) /\ stmts' # <<>> /\ DOMAIN stmts' = DOMAIN stmts
      /\ Len(stmts') = Len(stmts) /\ stmts'[Len(stmts)] = rec
      /\ \A i \in DOMAIN stmts : i # Len(stmts) => stmts'[i] = stmts[i]
  BY <1>1
<1> QED
  BY <1>1, <1>2 DEF OpenDefs

\* One statement is left, and it has not begun.
LEMMA FreshKeeps ==
  ASSUME stmts' = <<Statement("plain")>>
  PROVE  stmts' \in Seq(StatementRecord) /\ stmts' # <<>> /\ OpenDefs' = {}
<1>1. Statement("plain") \in StatementRecord /\ Statement("plain").kind = "plain"
  BY NewStatement
<1> QED
  BY <1>1 DEF OpenDefs

LEMMA NoOpenDef ==
  ASSUME StatementTypes, Len(stmts) = 1, cur.kind \notin {"head", "def"}
  PROVE  OpenDefs = {}
BY DEF OpenDefs, cur, StatementTypes

LEMMA AbsorbedKeeps ==
  ASSUME StatementTypes, Len(stmts) > 1
  PROVE  /\ Absorbed \in StatementRecord /\ Absorbed.kind = outer.kind
         /\ outer \in StatementRecord /\ cur \in StatementRecord
         /\ Around \in Seq(StatementRecord) /\ Len(Around) = Len(stmts) - 2
         /\ \A i \in 1 .. Len(stmts) - 2 : Around[i] = stmts[i]
<1>1. stmts \in Seq(StatementRecord) /\ Len(stmts) \in Nat
  BY DEF StatementTypes
<1>2. outer \in StatementRecord /\ cur \in StatementRecord
  BY <1>1 DEF outer, cur
<1>3. Tree(cur) \subseteq SymId
  BY <1>2 DEF Tree, StatementRecord
<1>4. Absorbed \in StatementRecord /\ Absorbed.kind = outer.kind
  <2> HIDE DEF Tree, outer
  <2> QED BY <1>2, <1>3 DEF Absorbed, StatementRecord
<1> DEFINE n == Len(stmts) - 2
<1>5. n \in 0 .. Len(stmts)
  BY <1>1
<1> HIDE DEF n
<1>6. /\ SubSeq(stmts, 1, n) \in Seq(StatementRecord) /\ Len(SubSeq(stmts, 1, n)) = n
      /\ \A i \in 1 .. n : SubSeq(stmts, 1, n)[i] = stmts[i]
  BY <1>1, <1>5, PrefixOf
<1> QED
  BY <1>2, <1>4, <1>6 DEF n, Around

\* The innermost statement, complete, ends the one around it.
LEMMA CloseKeeps ==
  ASSUME StatementTypes, Enclosed,
         stmts' = Append(Around, [Statement("done") EXCEPT !.refs = Absorbed.refs])
  PROVE  /\ stmts' \in Seq(StatementRecord) /\ stmts' # <<>>
         /\ OpenDefs' = OpenDefs \ {Len(stmts) - 1}
<1> DEFINE rec == [Statement("done") EXCEPT !.refs = Absorbed.refs]
<1>1. Len(stmts) \in Nat /\ Len(stmts) > 1 /\ cur.kind \notin {"head", "def"}
  BY DEF StatementTypes, Enclosed, Complete
<1>2. rec \in StatementRecord /\ rec.kind = "done"
  BY <1>1, AbsorbedKeeps DEF Statement, StatementRecord, Ref
<1> HIDE DEF rec
<1>3. /\ Around \in Seq(StatementRecord) /\ Len(Around) = Len(stmts) - 2
      /\ \A i \in 1 .. Len(stmts) - 2 : Around[i] = stmts[i]
  BY <1>1, AbsorbedKeeps
<1>4. stmts' = Append(Around, rec)
  BY DEF rec
<1>5. /\ stmts' \in Seq(StatementRecord) /\ Len(stmts') = Len(stmts) - 1
      /\ \A i \in 1 .. Len(stmts) - 2 : stmts'[i] = stmts[i]
      /\ stmts'[Len(stmts) - 1] = rec
  BY <1>1, <1>2, <1>3, <1>4
<1>6. OpenDefs' = OpenDefs \ {Len(stmts) - 1}
  <2>1. DOMAIN stmts' = 1 .. Len(stmts) - 1 /\ DOMAIN stmts = 1 .. Len(stmts)
    BY <1>1, <1>5 DEF StatementTypes
  <2>2. stmts[Len(stmts)].kind \notin {"head", "def"}
    BY <1>1 DEF cur
  <2>3. stmts'[Len(stmts) - 1].kind \notin {"head", "def"}
    BY <1>2, <1>5
  <2>4. \A i \in 1 .. Len(stmts) : i \in OpenDefs' <=> i \in OpenDefs /\ i # Len(stmts) - 1
    <3> TAKE i \in 1 .. Len(stmts)
    <3>1. CASE i \in 1 .. Len(stmts) - 2
      <4>0. \A n \in Nat : \A k \in 1 .. n - 2 : k \in 1 .. n - 1 /\ k \in 1 .. n /\ k # n - 1
        OBVIOUS
      <4>1. i \in DOMAIN stmts' /\ i \in DOMAIN stmts /\ i # Len(stmts) - 1
        BY <3>1, <1>1, <2>1, <4>0
      <4>2. stmts'[i] = stmts[i]
        BY <3>1, <1>5
      <4> QED BY <4>1, <4>2 DEF OpenDefs
    <3>2. CASE i = Len(stmts) - 1
      BY <3>2, <2>3 DEF OpenDefs
    <3>3. CASE i = Len(stmts)
      <4>1. i \notin DOMAIN stmts'
        BY <3>3, <1>1, <2>1
      <4> QED BY <3>3, <4>1, <2>2 DEF OpenDefs
    <3> QED BY <3>1, <3>2, <3>3, <1>1
  <2>5. DOMAIN stmts' \subseteq 1 .. Len(stmts)
    <3>1. \A n \in Nat : 1 .. n - 1 \subseteq 1 .. n
      OBVIOUS
    <3> QED BY <1>1, <2>1, <3>1
  <2>6. OpenDefs' \subseteq 1 .. Len(stmts) /\ OpenDefs \subseteq 1 .. Len(stmts)
    BY <2>1, <2>5 DEF OpenDefs
  <2> QED BY <2>4, <2>6
<1>7. stmts' # <<>>
  BY <1>1, <1>5, SMTT(40)
<1> QED
  BY <1>5, <1>6, <1>7

LEMMA NextBranchKeeps ==
  ASSUME IInv, NextBranch PROVE IInv'
<1>1. StatementTypes /\ Len(stmts) \in Nat /\ Len(stmts) > 1 /\ cur.kind \notin {"head", "def"}
  BY DEF NextBranch, BranchEnds, Enclosed, Complete, IInv, StatementTypes
<1> DEFINE rec == [Absorbed EXCEPT !.branch = @ + 1, !.lines = FALSE]
<1>2. rec \in StatementRecord /\ rec.kind = outer.kind
  <2>1. Absorbed \in StatementRecord /\ Absorbed.kind = outer.kind
    BY <1>1, AbsorbedKeeps
  <2>2. Absorbed.branch + 1 \in Nat
    BY <2>1 DEF StatementRecord
  <2>3. rec = [Absorbed EXCEPT !.branch = Absorbed.branch + 1, !.lines = FALSE]
    OBVIOUS
  <2> HIDE DEF rec
  <2> QED BY <2>1, <2>2, <2>3 DEF StatementRecord
<1> HIDE DEF rec
<1>3. /\ Around \in Seq(StatementRecord) /\ Len(Around) = Len(stmts) - 2
      /\ \A i \in 1 .. Len(stmts) - 2 : Around[i] = stmts[i]
  BY <1>1, AbsorbedKeeps
<1>4. Statement("plain") \in StatementRecord /\ Statement("plain").kind = "plain"
  BY NewStatement
<1>5. /\ stmts' \in Seq(StatementRecord) /\ Len(stmts') = Len(stmts)
      /\ \A i \in 1 .. Len(stmts) - 2 : stmts'[i] = stmts[i]
      /\ stmts'[Len(stmts) - 1] = rec /\ stmts'[Len(stmts)] = Statement("plain")
  <2> HIDE DEF Statement
  <2>1. stmts' = Around \o <<rec, Statement("plain")>>
    BY DEF NextBranch, rec
  <2> QED BY <1>1, <1>2, <1>3, <1>4, <2>1
<1>6. OpenDefs' = OpenDefs
  <2>1. DOMAIN stmts' = 1 .. Len(stmts) /\ DOMAIN stmts = 1 .. Len(stmts)
    BY <1>1, <1>5 DEF StatementTypes
  <2>2. \A i \in 1 .. Len(stmts) : (stmts'[i].kind \in {"head", "def"}) = (stmts[i].kind \in {"head", "def"})
    BY <1>1, <1>2, <1>4, <1>5 DEF cur, outer
  <2> QED BY <2>1, <2>2 DEF OpenDefs
<1>7. stmts' # <<>>
  BY <1>1, <1>5
<1> QED
  BY <1>5, <1>6, <1>7, TableUnchanged DEF NextBranch, Parsing, IInv, StatementTypes, Phases, Count

LEMMA CloseBlockKeeps ==
  ASSUME IInv, CloseBlock PROVE IInv'
<1>1. StatementTypes /\ Enclosed /\ Len(stmts) \in Nat /\ Len(stmts) > 1
  BY DEF CloseBlock, BranchEnds, Enclosed, IInv, StatementTypes
<1>2. stmts' \in Seq(StatementRecord) /\ stmts' # <<>> /\ OpenDefs' = OpenDefs \ {Len(stmts) - 1}
  BY <1>1, CloseKeeps DEF CloseBlock
<1>3. OpenDefs' = OpenDefs
  BY <1>2 DEF CloseBlock, OpenDefs, outer
<1> QED
  BY <1>2, <1>3, TableUnchanged DEF CloseBlock, Parsing, IInv, StatementTypes, Phases, Count

\* Scopes and definitions being read, while no library is.
LEMMA Counted ==
  ASSUME IInv, doing # "load"
  PROVE  /\ Len(scopes) = 1 + Cardinality(OpenDefs) /\ Len(scopes) \in Nat
         /\ \A i \in OpenDefs : /\ Len(scopes) > 1
                                /\ Cardinality(OpenDefs \ {i}) = Cardinality(OpenDefs) - 1
<1>1. IsFiniteSet(OpenDefs) /\ Cardinality(OpenDefs) \in Nat
  BY OpenDefsFinite DEF IInv
<1>2. Len(scopes) = 1 + Cardinality(OpenDefs)
  BY <1>1 DEF IInv, Count
<1>3. \A i \in OpenDefs : Cardinality(OpenDefs) # 0
  BY <1>1, FS_EmptySet
<1>4. \A i \in OpenDefs : Cardinality(OpenDefs \ {i}) = Cardinality(OpenDefs) - 1
  BY <1>1, FS_RemoveElement
<1> QED
  BY <1>1, <1>2, <1>3, <1>4

LEMMA CloseDefKeeps ==
  ASSUME IInv, CloseDef PROVE IInv'
<1>1. /\ StatementTypes /\ Enclosed /\ Len(stmts) \in Nat /\ Len(stmts) > 1
      /\ outer.kind = "def" /\ doing = "parse" /\ cur.kind \notin {"head", "def"}
  BY DEF CloseDef, BranchEnds, Enclosed, Complete, Parsing, IInv, StatementTypes
<1>2. CASE isError \/ (~cmdLine /\ blockError)
  <2>1. /\ stmts' = SubSeq(stmts, 1, Len(stmts) - 1) /\ doing' = "failDef"
        /\ UNCHANGED <<table, isError, blockError, cmdLine, fault>>
    BY <1>2 DEF CloseDef, table
  <2>2. /\ stmts' \in Seq(StatementRecord) /\ Len(stmts') = Len(stmts) - 1
        /\ \A i \in DOMAIN stmts' : i \in DOMAIN stmts /\ stmts'[i] = stmts[i]
    BY <2>1, <1>1, FrontOf DEF StatementTypes
  <2>3. stmts' # <<>> /\ cur'.kind = "def"
    BY <1>1, <2>2 DEF cur, outer
  <2>4. OpenDefs' = OpenDefs
    <3>1. DOMAIN stmts' = 1 .. Len(stmts) - 1 /\ DOMAIN stmts = 1 .. Len(stmts)
      BY <1>1, <2>2 DEF StatementTypes
    <3>2. stmts[Len(stmts)].kind \notin {"head", "def"}
      BY <1>1 DEF cur
    <3> QED BY <1>1, <2>2, <3>1, <3>2 DEF OpenDefs
  <2> QED
    BY <1>1, <2>1, <2>2, <2>3, <2>4, TableUnchanged DEF IInv, StatementTypes, Phases, Count
<1>3. CASE ~(isError \/ (~cmdLine /\ blockError))
  <2>1. /\ stmts' = Append(Around, [Statement("done") EXCEPT !.refs = Absorbed.refs])
        /\ PopScope /\ sym' = Popped
        /\ UNCHANGED <<doing, newSyms, isError, blockError, cmdLine, fault>>
    BY <1>3 DEF CloseDef
  <2>2. stmts' \in Seq(StatementRecord) /\ stmts' # <<>> /\ OpenDefs' = OpenDefs \ {Len(stmts) - 1}
    BY <1>1, <2>1, CloseKeeps
  <2>3. Len(stmts) - 1 \in OpenDefs
    BY <1>1 DEF OpenDefs, outer, StatementTypes
  <2>4. /\ Len(scopes) > 1 /\ Len(scopes) \in Nat
        /\ Cardinality(OpenDefs') = Cardinality(OpenDefs) - 1 /\ Len(scopes) = 1 + Cardinality(OpenDefs)
    BY <1>1, <2>2, <2>3, Counted
  <2>5. TableInv' /\ Len(scopes') = Len(scopes) - 1
    <3>1. NoSym \in Ref
      BY DEF Ref
    <3> QED BY <2>1, <2>4, <3>1, PopScopeKeeps DEF IInv
  <2>6. Count'
    BY <1>1, <2>1, <2>4, <2>5, OpenDefsFinite DEF Count
  <2> QED
    BY <1>1, <2>1, <2>2, <2>5, <2>6 DEF IInv, StatementTypes, Phases
<1> QED BY <1>2, <1>3

LEMMA FailDefKeeps ==
  ASSUME IInv, FailDef PROVE IInv'
<1>1. doing = "failDef" /\ cur.kind \in {"head", "def"} /\ StatementTypes
  BY DEF FailDef, IInv, Phases
<1>2. CASE Freed(cur.f)
  <2>1. fault' = "freed" /\ UNCHANGED <<table, stmts, isError, doing, blockError, cmdLine>>
    BY <1>2 DEF FailDef
  <2> QED BY <2>1, TableUnchanged DEF IInv, StatementTypes, Phases, Count, OpenDefs, Complete, cur
<1>3. CASE ~Freed(cur.f)
  <2>1. /\ PopScope /\ sym' = [Popped EXCEPT ![cur.f].type = "UNDEF"]
        /\ stmts' = [stmts EXCEPT ![Len(stmts)] = Statement("failed")]
        /\ isError' = TRUE /\ doing' = "parse"
        /\ UNCHANGED <<newSyms, fault, blockError, cmdLine>>
    BY <1>3 DEF FailDef
  <2>2. Statement("failed") \in StatementRecord /\ Statement("failed").kind = "failed"
    BY NewStatement
  <2>3. stmts' \in Seq(StatementRecord) /\ stmts' # <<>> /\ OpenDefs' = OpenDefs \ {Len(stmts)}
    <3> HIDE DEF Statement
    <3> QED BY <1>1, <2>1, <2>2, ReplaceKeeps
  <2>4. Len(stmts) \in OpenDefs /\ cur.f \in Ref
    <3>1. Len(stmts) \in DOMAIN stmts /\ cur \in StatementRecord
      BY <1>1 DEF cur, StatementTypes
    <3> QED BY <1>1, <3>1 DEF OpenDefs, cur, StatementRecord
  <2>5. /\ Len(scopes) > 1 /\ Len(scopes) \in Nat
        /\ Cardinality(OpenDefs') = Cardinality(OpenDefs) - 1 /\ Len(scopes) = 1 + Cardinality(OpenDefs)
    BY <1>1, <2>3, <2>4, Counted
  <2>6. TableInv' /\ Len(scopes') = Len(scopes) - 1
    BY <2>1, <2>4, <2>5, PopScopeKeeps DEF IInv
  <2>7. Count'
    BY <2>1, <2>5, <2>6, <1>1, OpenDefsFinite DEF Count
  <2> QED
    BY <1>1, <2>1, <2>3, <2>6, <2>7 DEF IInv, StatementTypes, Phases
<1> QED BY <1>2, <1>3

LEMMA SyntaxErrorKeeps ==
  ASSUME IInv, SyntaxError PROVE IInv'
<1>1. Statement("failed") \in StatementRecord /\ Statement("failed").kind = "failed"
  BY NewStatement
<1>2. stmts' \in Seq(StatementRecord) /\ stmts' # <<>> /\ OpenDefs' = OpenDefs \ {Len(stmts)}
  <2> HIDE DEF Statement
  <2> QED BY <1>1, ReplaceKeeps DEF SyntaxError, IInv
<1>3. OpenDefs' = OpenDefs
  BY <1>2 DEF SyntaxError, OpenDefs, cur
<1> QED
  BY <1>2, <1>3, TableUnchanged DEF SyntaxError, Parsing, IInv, StatementTypes, Phases, Count

LEMMA HeadErrorKeeps ==
  ASSUME IInv, HeadError PROVE IInv'
BY TableUnchanged DEF HeadError, Parsing, IInv, StatementTypes, Phases, Count, OpenDefs, cur

LEMMA OpenBlockKeeps ==
  ASSUME IInv, OpenBlock PROVE IInv'
<1>1. cur \in StatementRecord /\ cur.kind \notin {"head", "def"}
  BY DEF OpenBlock, IInv, StatementTypes, cur
<1> DEFINE rec == [cur EXCEPT !.kind = "block", !.f = NoSym]
<1>2. rec \in StatementRecord /\ rec.kind = "block"
  <2> HIDE DEF cur
  <2> QED BY <1>1 DEF StatementRecord, Ref
<1>3. stmts' = Append([stmts EXCEPT ![Len(stmts)] = rec], Statement("plain"))
  BY DEF OpenBlock, cur, IInv, StatementTypes
<1>4. stmts' \in Seq(StatementRecord) /\ stmts' # <<>> /\ OpenDefs' = OpenDefs
  <2> HIDE DEF rec
  <2> QED BY <1>1, <1>2, <1>3, PushKeeps DEF IInv
<1> QED
  BY <1>4, TableUnchanged DEF OpenBlock, Parsing, IInv, StatementTypes, Phases, Count

LEMMA EndLineKeeps ==
  ASSUME IInv, EndLine PROVE IInv'
<1>1. /\ StatementTypes /\ stmts \in Seq(StatementRecord) /\ Len(stmts) \in Nat /\ Len(stmts) > 1
      /\ cur.kind \notin {"head", "def"} /\ doing = "parse"
  BY DEF EndLine, Enclosed, Complete, Parsing, IInv, StatementTypes
<1>2. CASE isError
  <2>1. doing' = "dropLine" /\ UNCHANGED <<table, stmts, isError, blockError, cmdLine, fault>>
    BY <1>2 DEF EndLine
  <2> QED BY <1>1, <2>1, TableUnchanged
        DEF EndLine, Enclosed, IInv, StatementTypes, Phases, Count, OpenDefs, Complete, cur
<1>3. CASE ~isError
  <2> DEFINE rec(i) == IF i = Len(stmts) THEN Statement("plain")
                       ELSE Settled(IF i = Len(stmts) - 1 THEN [Absorbed EXCEPT !.lines = TRUE]
                                    ELSE stmts[i])
  <2>1. /\ newSyms' = <<>> /\ stmts' = [i \in DOMAIN stmts |-> rec(i)]
        /\ UNCHANGED <<sym, scopes, doing, isError, blockError, cmdLine, fault>>
    BY <1>3 DEF EndLine
  <2>2. ASSUME NEW stmt \in StatementRecord
        PROVE  Settled(stmt) \in StatementRecord /\ Settled(stmt).kind = stmt.kind
    BY DEF Settled, StatementRecord
  <2>3. /\ [Absorbed EXCEPT !.lines = TRUE] \in StatementRecord
        /\ [Absorbed EXCEPT !.lines = TRUE].kind = outer.kind
    <3>1. Absorbed \in StatementRecord /\ Absorbed.kind = outer.kind
      BY <1>1, AbsorbedKeeps
    <3> QED BY <3>1 DEF StatementRecord
  <2>4. Statement("plain") \in StatementRecord /\ Statement("plain").kind = "plain"
    BY NewStatement
  <2>5. \A i \in 1 .. Len(stmts) :
          /\ rec(i) \in StatementRecord
          /\ (rec(i).kind \in {"head", "def"}) = (stmts[i].kind \in {"head", "def"})
    <3> TAKE i \in 1 .. Len(stmts)
    <3>1. CASE i = Len(stmts)
      BY <3>1, <1>1, <2>4 DEF cur
    <3>2. CASE i = Len(stmts) - 1
      <4> DEFINE wider == [Absorbed EXCEPT !.lines = TRUE]
      <4>1. rec(i) = Settled(wider)
        BY <3>2, <1>1
      <4>2. wider \in StatementRecord /\ wider.kind = outer.kind
        BY <2>3
      <4>3. stmts[i] = outer
        BY <3>2 DEF outer
      <4> HIDE DEF wider, rec
      <4> QED BY <4>1, <4>2, <4>3, <2>2
    <3>3. CASE i \notin {Len(stmts) - 1, Len(stmts)}
      BY <3>3, <1>1, <2>2
    <3> QED BY <3>1, <3>2, <3>3
  <2> HIDE DEF rec
  <2>6. DOMAIN stmts = 1 .. Len(stmts)
    BY <1>1
  <2>7. stmts' \in Seq(StatementRecord) /\ Len(stmts') = Len(stmts) /\ stmts' # <<>>
    BY <1>1, <2>1, <2>5, <2>6
  <2>8. OpenDefs' = OpenDefs
    BY <2>1, <2>5, <2>6 DEF OpenDefs
  <2>9. TableInv' /\ Len(scopes') = Len(scopes)
    BY <2>1, TableReset DEF IInv
  <2> QED BY <1>1, <2>1, <2>7, <2>8, <2>9 DEF IInv, StatementTypes, Phases, Count
<1> QED BY <1>2, <1>3

LEMMA DropLineKeeps ==
  ASSUME IInv, DropLine PROVE IInv'
<1>1. /\ stmts \in Seq(StatementRecord) /\ Len(stmts) \in Nat /\ Len(stmts) > 1
      /\ cur.kind \notin {"head", "def"} /\ outer \in StatementRecord
  BY DEF DropLine, Complete, IInv, StatementTypes, Phases, outer
<1> DEFINE rec == [outer EXCEPT !.lines = TRUE]
<1>2. rec \in StatementRecord /\ rec.kind = outer.kind
  <2> HIDE DEF outer
  <2> QED BY <1>1 DEF StatementRecord
<1>3. Statement("plain") \in StatementRecord /\ Statement("plain").kind = "plain"
  BY NewStatement
<1>4. stmts' = [stmts EXCEPT ![Len(stmts) - 1] = rec, ![Len(stmts)] = Statement("plain")]
  BY <1>1 DEF DropLine, outer
<1>5. /\ stmts' \in Seq(StatementRecord) /\ DOMAIN stmts' = 1 .. Len(stmts) /\ stmts' # <<>>
      /\ DOMAIN stmts = 1 .. Len(stmts)
      /\ \A i \in 1 .. Len(stmts) :
           (stmts'[i].kind \in {"head", "def"}) = (stmts[i].kind \in {"head", "def"})
  <2> HIDE DEF rec, Statement
  <2>1. /\ stmts' \in Seq(StatementRecord) /\ DOMAIN stmts' = 1 .. Len(stmts) /\ stmts' # <<>>
        /\ stmts'[Len(stmts) - 1] = rec /\ stmts'[Len(stmts)] = Statement("plain")
        /\ \A i \in 1 .. Len(stmts) - 2 : stmts'[i] = stmts[i]
    BY <1>1, <1>2, <1>3, <1>4
  <2> QED BY <1>1, <1>2, <1>3, <2>1 DEF cur, outer
<1>6. OpenDefs' = OpenDefs
  BY <1>5 DEF OpenDefs
<1> QED
  BY <1>5, <1>6, TableUnchanged DEF DropLine, IInv, StatementTypes, Phases, Count

LEMMA EndStatementKeeps ==
  ASSUME IInv, EndStatement PROVE IInv'
<1>1. /\ StatementTypes /\ Len(stmts) = 1 /\ Complete /\ doing = "parse"
      /\ cur.kind \notin {"head", "def"}
  BY DEF EndStatement, Complete, Parsing, IInv
<1>2. CASE stmts' = <<Statement("plain")>> /\ newSyms' = <<>> /\ UNCHANGED <<sym, scopes, doing, fault>>
  <2>1. stmts' \in Seq(StatementRecord) /\ stmts' # <<>> /\ OpenDefs' = {}
    BY <1>2, FreshKeeps
  <2>2. OpenDefs = {}
    BY <1>1, NoOpenDef
  <2>3. TableInv' /\ Len(scopes') = Len(scopes)
    BY <1>2, TableReset DEF IInv
  <2> QED
    BY <1>1, <1>2, <2>1, <2>2, <2>3 DEF EndStatement, IInv, StatementTypes, Phases, Count
<1>3. CASE doing' = "dropAll" /\ UNCHANGED <<table, stmts, fault>>
  BY <1>1, <1>3, TableUnchanged
     DEF EndStatement, IInv, StatementTypes, Phases, Count, OpenDefs, Complete, cur
<1>4. CASE fault' = "freed" /\ UNCHANGED <<table, stmts, doing>>
  BY <1>1, <1>4, TableUnchanged
     DEF EndStatement, IInv, StatementTypes, Phases, Count, OpenDefs, Complete, cur
<1> QED
  BY <1>2, <1>3, <1>4 DEF EndStatement

LEMMA DropStatementKeeps ==
  ASSUME IInv, DropStatement PROVE IInv'
<1>1. StatementTypes /\ Len(stmts) = 1 /\ cur.kind \notin {"head", "def"} /\ doing = "dropAll"
  BY DEF DropStatement, Complete, IInv, Phases
<1>2. stmts' \in Seq(StatementRecord) /\ stmts' # <<>> /\ OpenDefs' = {}
  BY FreshKeeps DEF DropStatement
<1>3. OpenDefs = {}
  BY <1>1, NoOpenDef
<1>4. TableInv' /\ Len(scopes') = Len(scopes)
  BY TableUnchanged DEF DropStatement, IInv
<1> QED
  BY <1>1, <1>2, <1>3, <1>4 DEF DropStatement, IInv, StatementTypes, Phases, Count

LEMMA OpenLibraryKeeps ==
  ASSUME IInv, NEW s \in SymId, OpenLibrary(s) PROVE IInv'
<1>1. TableInv' /\ Len(scopes') = Len(scopes) + 1
  <2>1. /\ sym' \in [SymId -> Symbol]
        /\ \A t \in SymId : /\ sym'[t].open = sym[t].open /\ sym'[t].level = sym[t].level
                            /\ sym'[t].offset = sym[t].offset
                            /\ sym[t].type # "FREE" => sym'[t].type # "FREE"
    BY RetypeKeeps DEF OpenLibrary, IInv
  <2> QED BY <2>1, NewScopeKeeps DEF OpenLibrary, IInv
<1>2. OpenDefs' = OpenDefs /\ cur' = cur
  BY DEF OpenLibrary, OpenDefs, cur
<1>3. Cardinality(OpenDefs) \in Nat /\ Len(scopes) \in Nat
  BY OpenDefsFinite DEF IInv, TableInv, TableTypes
<1>4. Count'
  BY <1>1, <1>2, <1>3 DEF OpenLibrary, Parsing, IInv, Count
<1> QED
  BY <1>1, <1>2, <1>4 DEF OpenLibrary, Parsing, IInv, StatementTypes, Phases

LEMMA CloseLibraryKeeps ==
  ASSUME IInv, CloseLibrary PROVE IInv'
<1>1. StatementTypes /\ Len(stmts) = 1 /\ cur.kind \notin {"head", "def"} /\ doing = "load"
  BY DEF CloseLibrary, IInv, Phases
<1>2. stmts' \in Seq(StatementRecord) /\ stmts' # <<>> /\ OpenDefs' = {}
  BY FreshKeeps DEF CloseLibrary
<1>3. OpenDefs = {}
  BY <1>1, NoOpenDef
<1>4. Len(scopes) = 2
  BY <1>1, <1>3, FS_EmptySet DEF IInv, Count
<1>5. TableInv' /\ Len(scopes') = Len(scopes) - 1
  <2>1. NoSym \in Ref
    BY DEF Ref
  <2> QED BY <1>4, <2>1, PopScopeKeeps DEF CloseLibrary, IInv
<1>6. Count'
  BY <1>2, <1>4, <1>5, FS_EmptySet DEF CloseLibrary, Count
<1> QED
  BY <1>2, <1>5, <1>6 DEF CloseLibrary, IInv, StatementTypes, Phases

LEMMA LibraryFailsKeeps ==
  ASSUME IInv, NEW s \in SymId, LibraryFails(s) PROVE IInv'
<1>1. StatementTypes /\ Len(stmts) = 1 /\ cur.kind \notin {"head", "def"} /\ doing = "parse"
  BY DEF LibraryFails, Parsing, IInv
<1>2. stmts' \in Seq(StatementRecord) /\ stmts' # <<>> /\ OpenDefs' = {}
  BY FreshKeeps DEF LibraryFails
<1>3. OpenDefs = {}
  BY <1>1, NoOpenDef
<1>4. TableInv' /\ Len(scopes') = Len(scopes)
  BY TableUnchanged DEF LibraryFails, IInv
<1> QED
  BY <1>1, <1>2, <1>3, <1>4 DEF LibraryFails, IInv, StatementTypes, Phases, Count

LEMMA LexKeeps ==
  ASSUME IInv, NEW n \in Name, Lex(n) PROVE IInv'
<1>1. doing = "parse" /\ UNCHANGED <<isError, blockError, cmdLine, doing>>
  BY DEF Lex, Parsing
<1>2. CASE Adding(n, "UNDEF", ReferNew)
  BY <1>1, <1>2, AddingKeeps
<1>3. CASE Refer(LookUp(n), FALSE) /\ UNCHANGED <<table, fault>>
  BY <1>1, <1>3, LookUpFinds, ReferOldKeeps
<1> QED
  BY <1>2, <1>3 DEF Lex

LEMMA DeclareKeeps ==
  ASSUME IInv, NEW n \in Name, Declare(n) PROVE IInv'
<1>1. doing = "parse" /\ UNCHANGED <<isError, blockError, cmdLine, doing>>
  BY DEF Declare, Parsing
<1>2. CASE Adding(n, "UNDEF", ReferNew)
  BY <1>1, <1>2, AddingKeeps
<1>3. CASE Refer(LookUp(n), FALSE) /\ UNCHANGED <<table, fault>>
  BY <1>1, <1>3, LookUpFinds, ReferOldKeeps
<1> QED
  BY <1>2, <1>3 DEF Declare

LEMMA DeleteNewestKeeps ==
  ASSUME IInv, DeleteNewest PROVE IInv'
<1> DEFINE s == newSyms[Len(newSyms)]
<1>1. /\ TableInv /\ newSyms \in Seq(SymId) /\ newSyms # <<>> /\ Len(newSyms) \in DOMAIN newSyms
      /\ UNCHANGED <<stmts, isError, blockError, cmdLine, doing>>
  BY DEF DeleteNewest, IInv, TableInv, TableTypes
<1>2. s \in SymId /\ sym[s].level \in Nat
  BY <1>1 DEF TableInv, TableTypes, Symbol
<1>3. ScopeAt(sym[s].level) = IF sym[s].level \in DOMAIN scopes THEN sym[s].level ELSE 0
  BY <1>1, <1>2, ScopeAtLevel
<1>4. sym[s].open => sym[s].level \in DOMAIN scopes
  BY <1>1, <1>2 DEF TableInv, OpenSymbols
<1>5. 0 \notin DOMAIN scopes
  BY <1>1 DEF TableInv, TableTypes
<1>6. TableInv' /\ Len(scopes') = Len(scopes) /\ fault' \in {fault, "foreign"}
  <2>1. CASE fault' = "foreign" /\ UNCHANGED table
    BY <1>1, <2>1, TableUnchanged
  <2>2. CASE /\ newSyms' = SubSeq(newSyms, 1, Len(newSyms) - 1) /\ UNCHANGED <<sym, scopes, fault>>
             /\ ~sym[s].open
    <3>1. /\ newSyms' \in Seq(SymId)
          /\ \A i \in DOMAIN newSyms' : i \in DOMAIN newSyms /\ newSyms'[i] = newSyms[i]
          /\ Len(newSyms') = Len(newSyms) - 1
      BY <1>1, <2>2, FrontOf
    <3>2. TableTypes' /\ Levels' /\ OpenSymbols' /\ SlotsDistinct'
      BY <1>1, <2>2, <3>1 DEF TableInv, TableTypes, Levels, OpenSymbols, SlotsDistinct, In
    <3>3. RollbackOrder'
      <4> SUFFICES ASSUME NEW i \in DOMAIN newSyms', NEW t \in SymId,
                          sym'[newSyms'[i]].open, sym'[t].open,
                          sym'[t].level = sym'[newSyms'[i]].level,
                          sym'[t].offset > sym'[newSyms'[i]].offset
                   PROVE  \E j \in DOMAIN newSyms' : j > i /\ newSyms'[j] = t
        BY DEF RollbackOrder
      <4>1. i \in DOMAIN newSyms /\ newSyms'[i] = newSyms[i]
        BY <3>1
      <4>2. PICK j \in DOMAIN newSyms : j > i /\ newSyms[j] = t
        BY <1>1, <2>2, <4>1 DEF TableInv, RollbackOrder
      <4>3. j # Len(newSyms)
        BY <2>2, <4>2
      <4>4. j \in DOMAIN newSyms'
        BY <1>1, <3>1, <4>2, <4>3
      <4> QED BY <3>1, <4>2, <4>4
    <3> QED BY <2>2, <3>2, <3>3 DEF TableInv
  <2>3. CASE /\ newSyms' = SubSeq(newSyms, 1, Len(newSyms) - 1) /\ UNCHANGED fault
             /\ sym[s].open /\ DeleteSym(s, sym[s].level)
    BY <1>1, <2>3, DeleteSymKeeps
  <2> QED
    BY <1>3, <1>4, <1>5, <2>1, <2>2, <2>3 DEF DeleteNewest
<1>7. OpenDefs' = OpenDefs /\ cur' = cur /\ (Complete' <=> Complete)
  BY <1>1 DEF OpenDefs, cur, Complete
<1> QED
  BY <1>1, <1>6, <1>7 DEF IInv, StatementTypes, Phases, Count

-----------------------------------------------------------------------------
(* The chains *)

\* The symbols of scope k that hash to b.
On(k, b) == {s \in In(k) : Hash[sym[s].name] = b}

\* A chain has the symbols of its scope and its bucket in the order of their
\* offsets, the latest first.
Tallied(k, b) == scopes[k].nelem[b] = Cardinality(On(k, b))

Headed(k, b) ==
  /\ scopes[k].thelist[b] = NoSym => On(k, b) = {}
  /\ scopes[k].thelist[b] # NoSym =>
       /\ scopes[k].thelist[b] \in On(k, b)
       /\ \A t \in On(k, b) : sym[t].offset <= sym[scopes[k].thelist[b]].offset

Forth(k, b) ==
  \A s \in On(k, b) :
    /\ sym[s].next = NoSym => \A t \in On(k, b) : sym[s].offset <= sym[t].offset
    /\ sym[s].next # NoSym =>
         /\ sym[s].next \in On(k, b) /\ sym[sym[s].next].offset < sym[s].offset
         /\ \A t \in On(k, b) :
              sym[t].offset < sym[s].offset => sym[t].offset <= sym[sym[s].next].offset

Back(k, b) ==
  \A s \in On(k, b) :
    /\ sym[s].pre = NoSym => \A t \in On(k, b) : sym[t].offset <= sym[s].offset
    /\ sym[s].pre # NoSym =>
         /\ sym[s].pre \in On(k, b) /\ sym[s].offset < sym[sym[s].pre].offset
         /\ \A t \in On(k, b) :
              sym[s].offset < sym[t].offset => sym[sym[s].pre].offset <= sym[t].offset

Ordered(k, b) == Tallied(k, b) /\ Headed(k, b) /\ Forth(k, b) /\ Back(k, b)

Known == \A s \in SymId : sym[s].open => sym[s].name \in Name

ChainInv == Known /\ \A k \in DOMAIN scopes : \A b \in Bucket : Ordered(k, b)

\* A chain no symbol of which a step touches.
LEMMA SameChain ==
  ASSUME NEW k, NEW b, Ordered(k, b), On(k, b)' = On(k, b),
         scopes'[k].nelem[b] = scopes[k].nelem[b], scopes'[k].thelist[b] = scopes[k].thelist[b],
         \A t \in On(k, b) : /\ sym'[t].offset = sym[t].offset
                             /\ sym'[t].next = sym[t].next /\ sym'[t].pre = sym[t].pre
  PROVE  Ordered(k, b)'
<1>1. Tallied(k, b)'
  BY DEF Ordered, Tallied
<1>2. Headed(k, b)'
  BY DEF Ordered, Headed
<1>3. Forth(k, b)'
  BY DEF Ordered, Forth
<1>4. Back(k, b)'
  BY DEF Ordered, Back
<1> QED BY <1>1, <1>2, <1>3, <1>4 DEF Ordered

LEMMA OnFinite ==
  ASSUME NEW k, NEW b
  PROVE  /\ On(k, b) \subseteq SymId /\ IsFiniteSet(On(k, b)) /\ Cardinality(On(k, b)) \in Nat
<1>1. On(k, b) \subseteq SymId
  BY DEF On, In
<1> QED BY <1>1, SymIdAssumption, FS_Subset, FS_CardinalityType

\* What a symbol of an open scope is.
LEMMA InScope ==
  ASSUME TableInv, NEW k \in DOMAIN scopes
  PROVE  /\ \A s : s \in In(k) <=> s \in SymId /\ sym[s].open /\ sym[s].level = k
         /\ \A b : \A s : s \in On(k, b) <=>
              s \in SymId /\ sym[s].open /\ sym[s].level = k /\ Hash[sym[s].name] = b
         /\ \A s \in In(k) : sym[s].offset \in Nat
         /\ \A s \in In(k) : s # NoSym
BY NoSymAssumption DEF In, On, TableInv, TableTypes, Symbol, Levels

\* The new symbol becomes the head of its chain.
LEMMA AddSymChains ==
  ASSUME TableInv, ChainInv, NEW s \in SymId, Freed(s), NEW n \in Name,
         NEW type \in {"UNDEF", "IFUNC"}, AddSym(s, n, type)
  PROVE  ChainInv'
<1>0. PICK k, c, h : k = Len(scopes) /\ c = Hash[n] /\ h = scopes[k].thelist[c]
  OBVIOUS
<1>1. /\ TableInv' /\ DOMAIN scopes' = DOMAIN scopes /\ k \in DOMAIN scopes /\ c \in Bucket
      /\ scopes[k] \in Scope /\ scopes[k].level = k /\ h \in Ref /\ sym \in [SymId -> Symbol]
  <2>1. TableInv' /\ Len(scopes') = Len(scopes)
    BY AddSymKeeps
  <2>2. DOMAIN scopes' = DOMAIN scopes /\ k \in DOMAIN scopes
    BY <1>0, <2>1 DEF TableInv, TableTypes
  <2>3. c \in Bucket
    BY <1>0, HashAssumption
  <2>4. scopes[k] \in Scope /\ scopes[k].level = k /\ sym \in [SymId -> Symbol]
    BY <2>2 DEF TableInv, TableTypes, Levels
  <2>5. h \in Ref
    BY <1>0, <2>3, <2>4 DEF Scope
  <2> QED BY <2>1, <2>2, <2>3, <2>4, <2>5
<1>2. ~sym[s].open
  BY DEF TableInv, OpenSymbols, Freed
<1>3. /\ sym'[s].open /\ sym'[s].level = k /\ sym'[s].offset = scopes[k].curOffset
      /\ sym'[s].name = n /\ sym'[s].next = h /\ sym'[s].pre = NoSym
  BY <1>0, <1>1 DEF AddSym, NewSymbol, top
<1>4. \A t \in SymId : t # s =>
        /\ sym'[t].open = sym[t].open /\ sym'[t].level = sym[t].level
        /\ sym'[t].offset = sym[t].offset /\ sym'[t].name = sym[t].name
        /\ sym'[t].next = sym[t].next
        /\ sym'[t].pre = IF t = h THEN s ELSE sym[t].pre
  <2> SUFFICES ASSUME NEW t \in SymId, t # s
               PROVE  /\ sym'[t].open = sym[t].open /\ sym'[t].level = sym[t].level
                      /\ sym'[t].offset = sym[t].offset /\ sym'[t].name = sym[t].name
                      /\ sym'[t].next = sym[t].next
                      /\ sym'[t].pre = IF t = h THEN s ELSE sym[t].pre
    OBVIOUS
  <2>1. sym[t] \in Symbol
    BY <1>1
  <2>2. sym'[t] = IF t = h THEN [sym[t] EXCEPT !.pre = s] ELSE sym[t]
    BY <1>0 DEF AddSym, top
  <2> QED BY <2>1, <2>2 DEF Symbol
<1>5. /\ \A j \in DOMAIN scopes : j # k => scopes'[j] = scopes[j]
      /\ scopes'[k] = WithSymbol(scopes[k], s, c)
  <2>1. scopes' = [scopes EXCEPT ![k] = WithSymbol(scopes[k], s, c)]
    BY <1>0 DEF AddSym, top
  <2> QED BY <1>1, <2>1
<1>6. /\ scopes'[k].nelem[c] = scopes[k].nelem[c] + 1 /\ scopes'[k].thelist[c] = s
      /\ \A b \in Bucket : b # c => /\ scopes'[k].nelem[b] = scopes[k].nelem[b]
                                    /\ scopes'[k].thelist[b] = scopes[k].thelist[b]
  <2>1. scopes[k].nelem \in [Bucket -> Int] /\ scopes[k].thelist \in [Bucket -> Ref]
    BY <1>1 DEF Scope
  <2>2. /\ scopes'[k].nelem = [scopes[k].nelem EXCEPT ![c] = @ + 1]
        /\ scopes'[k].thelist = [scopes[k].thelist EXCEPT ![c] = s]
    BY <1>5 DEF WithSymbol
  <2> QED BY <1>1, <2>1, <2>2
<1>7. \A j \in DOMAIN scopes : \A b \in Bucket :
        /\ ~(j = k /\ b = c) => On(j, b)' = On(j, b) /\ s \notin On(j, b)
        /\ j = k /\ b = c => On(j, b)' = On(j, b) \cup {s} /\ s \notin On(j, b)
  <2>1. \A j \in DOMAIN scopes : \A b \in Bucket : \A t : t \in On(j, b) <=>
          t \in SymId /\ sym[t].open /\ sym[t].level = j /\ Hash[sym[t].name] = b
    BY InScope
  <2>2. \A j \in DOMAIN scopes : \A b \in Bucket : \A t : t \in On(j, b)' <=>
          t \in SymId /\ sym'[t].open /\ sym'[t].level = j /\ Hash[sym'[t].name] = b
    BY <1>1 DEF On, In, TableInv, Levels
  <2>3. \A j \in DOMAIN scopes : \A b \in Bucket : s \notin On(j, b)
    BY <1>2, <2>1
  <2>4. ASSUME NEW j \in DOMAIN scopes, NEW b \in Bucket, NEW t
        PROVE  t \in On(j, b)' <=> t \in On(j, b) \/ (t = s /\ j = k /\ b = c)
    <3>1. CASE t = s
      BY <1>0, <1>3, <2>2, <2>3, <3>1
    <3>2. CASE t # s
      BY <1>4, <2>1, <2>2, <3>2
    <3> QED BY <3>1, <3>2
  <2> QED BY <2>3, <2>4
<1>8. \A t \in On(k, c) : /\ sym[t].offset \in Nat /\ sym[t].offset < sym'[s].offset
                          /\ t \in SymId /\ t # s /\ t # NoSym
  BY <1>1, <1>2, <1>3, InScope, NoSymAssumption DEF On, TableInv, SlotsDistinct, In
<1>9. Ordered(k, c)
  BY <1>1 DEF ChainInv
<1>10. ASSUME NEW j \in DOMAIN scopes, NEW b \in Bucket, ~(j = k /\ b = c)
       PROVE  Ordered(j, b)'
  <2>1. Ordered(j, b) /\ On(j, b)' = On(j, b) /\ s \notin On(j, b)
    BY <1>7, <1>10 DEF ChainInv
  <2>2. h # NoSym => h \in On(k, c)
    BY <1>0, <1>9 DEF Ordered, Headed
  <2>3. h \notin On(j, b)
    <3>1. On(j, b) \subseteq SymId
      BY OnFinite
    <3>2. h \in On(k, c) => h \notin On(j, b)
      BY <1>1, <1>10, InScope
    <3> QED BY <2>2, <3>1, <3>2, NoSymAssumption
  <2>4. \A t \in On(j, b) : /\ sym'[t].offset = sym[t].offset
                            /\ sym'[t].next = sym[t].next /\ sym'[t].pre = sym[t].pre
    BY <1>4, <2>1, <2>3, OnFinite
  <2>5. scopes'[j].nelem[b] = scopes[j].nelem[b] /\ scopes'[j].thelist[b] = scopes[j].thelist[b]
    BY <1>5, <1>6, <1>10
  <2> QED BY <2>1, <2>4, <2>5, SameChain
<1>11. Ordered(k, c)'
  <2>1. On(k, c)' = On(k, c) \cup {s} /\ s \notin On(k, c)
    BY <1>1, <1>7
  <2>2. s # NoSym
    BY NoSymAssumption
  <2>3. h # NoSym => h \in On(k, c) /\ \A t \in On(k, c) : sym[t].offset <= sym[h].offset
    BY <1>0, <1>9 DEF Ordered, Headed
  <2>4. h = NoSym => On(k, c) = {}
    BY <1>0, <1>9 DEF Ordered, Headed
  <2>5. Tallied(k, c)'
    <3>1. scopes[k].nelem[c] = Cardinality(On(k, c))
      BY <1>9 DEF Ordered, Tallied
    <3>2. Cardinality(On(k, c) \cup {s}) = Cardinality(On(k, c)) + 1
      BY <2>1, OnFinite, FS_AddElement
    <3> QED BY <1>6, <2>1, <3>1, <3>2 DEF Tallied
  <2>6. Headed(k, c)'
    <3>1. \A t \in On(k, c) : sym'[t].offset = sym[t].offset
      BY <1>4, <1>8
    <3>2. sym'[s].offset \in Nat
      BY <1>1, <1>3 DEF Scope
    <3> QED BY <1>6, <1>8, <2>1, <2>2, <3>1, <3>2 DEF Headed
  <2>7. Forth(k, c)'
    <3>1. Forth(k, c)
      BY <1>9 DEF Ordered
    <3>2. \A t \in On(k, c) : sym'[t].offset = sym[t].offset /\ sym'[t].next = sym[t].next
      BY <1>4, <1>8
    <3> SUFFICES ASSUME NEW t \in On(k, c) \cup {s}
                 PROVE  /\ sym'[t].next = NoSym => \A u \in On(k, c) \cup {s} : sym'[t].offset <= sym'[u].offset
                        /\ sym'[t].next # NoSym =>
                             /\ sym'[t].next \in On(k, c) \cup {s}
                             /\ sym'[sym'[t].next].offset < sym'[t].offset
                             /\ \A u \in On(k, c) \cup {s} :
                                  sym'[u].offset < sym'[t].offset
                                    => sym'[u].offset <= sym'[sym'[t].next].offset
      BY <2>1 DEF Forth
    <3>0. sym'[s].offset \in Nat
      BY <1>1, <1>3 DEF Scope
    <3>3. CASE t = s
      BY <1>3, <1>8, <2>3, <2>4, <3>0, <3>2, <3>3
    <3>4. CASE t # s
      <4>1. t \in On(k, c)
        BY <3>4
      <4>2. CASE sym[t].next = NoSym
        BY <1>8, <3>0, <3>1, <3>2, <4>1, <4>2 DEF Forth
      <4>3. CASE sym[t].next # NoSym
        <5>1. /\ sym[t].next \in On(k, c) /\ sym[sym[t].next].offset < sym[t].offset
              /\ \A u \in On(k, c) :
                   sym[u].offset < sym[t].offset => sym[u].offset <= sym[sym[t].next].offset
          BY <3>1, <4>1, <4>3 DEF Forth
        <5> QED BY <1>8, <3>0, <3>2, <4>1, <4>3, <5>1
      <4> QED BY <4>2, <4>3
    <3> QED BY <3>3, <3>4
  <2>8. Back(k, c)'
    <3>1. Back(k, c)
      BY <1>9 DEF Ordered
    <3>2. \A t \in On(k, c) : /\ sym'[t].offset = sym[t].offset
                              /\ sym'[t].pre = IF t = h THEN s ELSE sym[t].pre
      BY <1>4, <1>8
    <3> SUFFICES ASSUME NEW t \in On(k, c) \cup {s}
                 PROVE  /\ sym'[t].pre = NoSym => \A u \in On(k, c) \cup {s} : sym'[u].offset <= sym'[t].offset
                        /\ sym'[t].pre # NoSym =>
                             /\ sym'[t].pre \in On(k, c) \cup {s}
                             /\ sym'[t].offset < sym'[sym'[t].pre].offset
                             /\ \A u \in On(k, c) \cup {s} :
                                  sym'[t].offset < sym'[u].offset
                                    => sym'[sym'[t].pre].offset <= sym'[u].offset
      BY <2>1 DEF Back
    <3>0. sym'[s].offset \in Nat
      BY <1>1, <1>3 DEF Scope
    <3>3. CASE t = s
      BY <1>3, <1>8, <3>0, <3>2, <3>3
    <3>4. CASE t = h /\ t # s
      BY <1>8, <2>2, <2>3, <3>0, <3>2, <3>4
    <3>5. CASE t # s /\ t # h
      <4>1. sym[t].pre # NoSym
        <5> SUFFICES ASSUME sym[t].pre = NoSym PROVE FALSE
          OBVIOUS
        <5>1. \A u \in On(k, c) : sym[u].offset <= sym[t].offset
          BY <3>1, <3>5 DEF Back
        <5>2. h \in On(k, c)
          BY <2>3, <2>4, <3>5
        <5>3. sym[h].offset = sym[t].offset
          BY <1>8, <2>3, <3>5, <5>1, <5>2
        <5>4. h \in In(k) /\ t \in In(k)
          BY <3>5, <5>2 DEF On
        <5> QED BY <1>1, <3>5, <5>3, <5>4 DEF TableInv, SlotsDistinct
      <4>2. /\ sym[t].pre \in On(k, c) /\ sym[t].offset < sym[sym[t].pre].offset
            /\ \A u \in On(k, c) : sym[t].offset < sym[u].offset
                                     => sym[sym[t].pre].offset <= sym[u].offset
        BY <3>1, <3>5, <4>1 DEF Back
      <4> QED BY <1>8, <3>0, <3>2, <3>5, <4>1, <4>2
    <3> QED BY <3>3, <3>4, <3>5
  <2> QED BY <2>5, <2>6, <2>7, <2>8 DEF Ordered
<1>12. Known'
  BY <1>3, <1>4 DEF ChainInv, Known
<1> QED BY <1>1, <1>10, <1>11, <1>12 DEF ChainInv

\* The newest symbol is the head of its chain, and what it stood before becomes
\* the head.
LEMMA DeleteSymChains ==
  ASSUME TableInv, ChainInv, newSyms # <<>>, NEW s, s = newSyms[Len(newSyms)],
         sym[s].open, DeleteSym(s, sym[s].level),
         newSyms' = SubSeq(newSyms, 1, Len(newSyms) - 1)
  PROVE  ChainInv'
<1>0. PICK k, c, h : k = sym[s].level /\ c = Hash[sym[s].name] /\ h = sym[s].next
  OBVIOUS
<1>1. /\ TableInv' /\ DOMAIN scopes' = DOMAIN scopes /\ s \in SymId
      /\ k \in DOMAIN scopes /\ c \in Bucket
      /\ scopes[k] \in Scope /\ scopes[k].level = k /\ h \in Ref /\ sym \in [SymId -> Symbol]
  <2>1. TableInv' /\ Len(scopes') = Len(scopes)
    BY DeleteSymKeeps
  <2>2. DOMAIN scopes' = DOMAIN scopes
    BY <2>1 DEF TableInv, TableTypes
  <2>3. s \in SymId /\ sym \in [SymId -> Symbol]
    BY DEF TableInv, TableTypes
  <2>4. k \in DOMAIN scopes
    BY <1>0, <2>3 DEF TableInv, OpenSymbols
  <2>5. c \in Bucket
    BY <1>0, <2>3, HashAssumption DEF ChainInv, Known
  <2>6. scopes[k] \in Scope /\ scopes[k].level = k
    BY <2>4 DEF TableInv, TableTypes, Levels
  <2>7. h \in Ref
    BY <1>0, <2>3 DEF Symbol
  <2> QED BY <2>1, <2>2, <2>3, <2>4, <2>5, <2>6, <2>7
<1>2. s \in In(k) /\ s \in On(k, c) /\ s # NoSym
  BY <1>0, <1>1, InScope
<1>3. \A t \in In(k) : /\ sym[t].offset \in Nat /\ t # NoSym /\ t \in SymId
                       /\ t # s => sym[t].offset < sym[s].offset
  <2> SUFFICES ASSUME NEW t \in In(k), t # s PROVE sym[t].offset < sym[s].offset
    BY <1>1, InScope
  <2>1. t \in SymId /\ sym[t].open /\ sym[t].level = k /\ sym[t].offset \in Nat
    BY <1>1, InScope
  <2>2. sym[s].offset \in Nat
    BY <1>1, <1>2, InScope
  <2>3. sym[t].offset # sym[s].offset
    BY <1>1, <1>2 DEF TableInv, SlotsDistinct
  <2>4. ~(sym[t].offset > sym[s].offset)
    <3>1. newSyms \in Seq(SymId) /\ Len(newSyms) \in DOMAIN newSyms
      BY DEF TableInv, TableTypes
    <3>2. \A j \in DOMAIN newSyms : ~(j > Len(newSyms))
      BY <3>1
    <3> QED BY <1>0, <1>1, <2>1, <3>1, <3>2 DEF TableInv, RollbackOrder
  <2> QED BY <2>1, <2>2, <2>3, <2>4
<1>4. \A t \in On(k, c) : t \in In(k)
  BY DEF On
<1>5. Ordered(k, c)
  BY <1>1 DEF ChainInv
<1>6. scopes[k].thelist[c] = s /\ sym[s].pre = NoSym
  <2>1. scopes[k].thelist[c] = s
    BY <1>2, <1>3, <1>4, <1>5 DEF Ordered, Headed
  <2>2. sym[s].pre = NoSym
    BY <1>2, <1>3, <1>4, <1>5 DEF Ordered, Back
  <2> QED BY <2>1, <2>2
<1>7. /\ h = NoSym => \A t \in On(k, c) : t = s
      /\ h # NoSym => /\ h \in On(k, c) /\ h # s
                      /\ \A t \in On(k, c) : t # s => sym[t].offset <= sym[h].offset
  <2>1. Forth(k, c)
    BY <1>5 DEF Ordered
  <2>2. \A t \in On(k, c) : t # s => /\ sym[t].offset < sym[s].offset
                                    /\ sym[t].offset \in Nat /\ sym[s].offset \in Nat
    BY <1>2, <1>3, <1>4
  <2>3. CASE h = NoSym
    <3>1. \A t \in On(k, c) : sym[s].offset <= sym[t].offset
      BY <1>0, <1>2, <2>1, <2>3 DEF Forth
    <3> QED BY <2>2, <2>3, <3>1
  <2>4. CASE h # NoSym
    <3>1. /\ h \in On(k, c) /\ sym[h].offset < sym[s].offset
          /\ \A t \in On(k, c) : sym[t].offset < sym[s].offset => sym[t].offset <= sym[h].offset
      BY <1>0, <1>2, <2>1, <2>4 DEF Forth
    <3>2. h # s
      BY <1>2, <1>3, <3>1
    <3> QED BY <2>2, <2>4, <3>1, <3>2
  <2> QED BY <2>3, <2>4
<1>8. ~sym'[s].open
  BY <1>1 DEF DeleteSym, Unlink, FreeCell
<1>9. \A t \in SymId : t # s =>
        /\ sym'[t].open = sym[t].open /\ sym'[t].level = sym[t].level
        /\ sym'[t].offset = sym[t].offset /\ sym'[t].name = sym[t].name
        /\ sym'[t].next = sym[t].next
        /\ sym'[t].pre = IF t = h THEN NoSym ELSE sym[t].pre
  <2> SUFFICES ASSUME NEW t \in SymId, t # s
               PROVE  /\ sym'[t].open = sym[t].open /\ sym'[t].level = sym[t].level
                      /\ sym'[t].offset = sym[t].offset /\ sym'[t].name = sym[t].name
                      /\ sym'[t].next = sym[t].next
                      /\ sym'[t].pre = IF t = h THEN NoSym ELSE sym[t].pre
    OBVIOUS
  <2>1. sym[t] \in Symbol /\ t # NoSym
    BY <1>1, NoSymAssumption
  <2>2. sym'[t] = IF t = h THEN [sym[t] EXCEPT !.pre = NoSym] ELSE sym[t]
    BY <1>0, <1>6, <2>1 DEF DeleteSym, Unlink
  <2> QED BY <2>1, <2>2 DEF Symbol
<1>10. /\ \A j \in DOMAIN scopes : j # k => scopes'[j] = scopes[j]
       /\ scopes'[k] = WithoutSymbol(scopes[k], s, c)
  <2>1. scopes' = [scopes EXCEPT ![k] = WithoutSymbol(scopes[k], s, c)]
    BY <1>0 DEF DeleteSym
  <2> QED BY <1>1, <2>1
<1>11. /\ scopes'[k].nelem[c] = scopes[k].nelem[c] - 1 /\ scopes'[k].thelist[c] = h
       /\ \A b \in Bucket : b # c => /\ scopes'[k].nelem[b] = scopes[k].nelem[b]
                                     /\ scopes'[k].thelist[b] = scopes[k].thelist[b]
  <2>1. scopes[k].nelem \in [Bucket -> Int] /\ scopes[k].thelist \in [Bucket -> Ref]
    BY <1>1 DEF Scope
  <2>2. /\ scopes'[k].nelem = [scopes[k].nelem EXCEPT ![c] = @ - 1]
        /\ scopes'[k].thelist = [scopes[k].thelist EXCEPT ![c] = h]
    <3>1. /\ scopes'[k].nelem = [scopes[k].nelem EXCEPT ![c] = @ - 1]
          /\ scopes'[k].thelist
               = [scopes[k].thelist EXCEPT ![c] = IF sym[s].pre = NoSym THEN sym[s].next ELSE @]
      <4> DEFINE nelem == [scopes[k].nelem EXCEPT ![c] = @ - 1]
                 heads == [scopes[k].thelist
                             EXCEPT ![c] = IF sym[s].pre = NoSym THEN sym[s].next ELSE @]
      <4>1. scopes'[k] = [level |-> scopes[k].level, curOffset |-> OffsetBefore(scopes[k], s),
                          nelem |-> nelem, thelist |-> heads]
        BY <1>10 DEF WithoutSymbol
      <4> HIDE DEF nelem, heads
      <4>2. scopes'[k].nelem = nelem /\ scopes'[k].thelist = heads
        BY <4>1
      <4> QED BY <4>2 DEF nelem, heads
    <3> QED BY <1>0, <1>6, <3>1, Zenon
  <2> QED BY <1>1, <2>1, <2>2
<1>12. \A j \in DOMAIN scopes : \A b \in Bucket :
         /\ ~(j = k /\ b = c) => On(j, b)' = On(j, b) /\ s \notin On(j, b)
         /\ j = k /\ b = c => On(j, b)' = On(j, b) \ {s}
  <2>1. \A j \in DOMAIN scopes : \A b \in Bucket : \A t : t \in On(j, b) <=>
          t \in SymId /\ sym[t].open /\ sym[t].level = j /\ Hash[sym[t].name] = b
    BY InScope
  <2>2. \A j \in DOMAIN scopes : \A b \in Bucket : \A t : t \in On(j, b)' <=>
          t \in SymId /\ sym'[t].open /\ sym'[t].level = j /\ Hash[sym'[t].name] = b
    BY <1>1 DEF On, In, TableInv, Levels
  <2>3. \A j \in DOMAIN scopes : \A b \in Bucket : s \in On(j, b) <=> j = k /\ b = c
    BY <1>0, <1>1, <2>1
  <2>4. ASSUME NEW j \in DOMAIN scopes, NEW b \in Bucket, NEW t
        PROVE  t \in On(j, b)' <=> t \in On(j, b) /\ t # s
    <3>1. CASE t = s
      BY <1>8, <2>2, <3>1
    <3>2. CASE t # s
      BY <1>9, <2>1, <2>2, <3>2
    <3> QED BY <3>1, <3>2
  <2> QED BY <2>3, <2>4
<1>13. ASSUME NEW j \in DOMAIN scopes, NEW b \in Bucket, ~(j = k /\ b = c)
       PROVE  Ordered(j, b)'
  <2>1. Ordered(j, b) /\ On(j, b)' = On(j, b) /\ s \notin On(j, b)
    BY <1>12, <1>13 DEF ChainInv
  <2>2. h \notin On(j, b)
    <3>1. On(j, b) \subseteq SymId
      BY OnFinite
    <3>2. h \in On(k, c) => h \notin On(j, b)
      BY <1>1, <1>13, InScope
    <3> QED BY <1>7, <3>1, <3>2, NoSymAssumption
  <2>3. \A t \in On(j, b) : /\ sym'[t].offset = sym[t].offset
                            /\ sym'[t].next = sym[t].next /\ sym'[t].pre = sym[t].pre
    BY <1>9, <2>1, <2>2, OnFinite
  <2>4. scopes'[j].nelem[b] = scopes[j].nelem[b] /\ scopes'[j].thelist[b] = scopes[j].thelist[b]
    BY <1>10, <1>11, <1>13
  <2> QED BY <2>1, <2>3, <2>4, SameChain
<1>14. Ordered(k, c)'
  <2>1. On(k, c)' = On(k, c) \ {s}
    BY <1>1, <1>12
  <2>2. \A t \in On(k, c) : t # s =>
          /\ sym'[t].offset = sym[t].offset /\ sym'[t].next = sym[t].next
          /\ sym'[t].pre = IF t = h THEN NoSym ELSE sym[t].pre
          /\ sym[t].offset < sym[s].offset /\ t # NoSym
    BY <1>3, <1>4, <1>9
  <2>3. \A t \in On(k, c) : sym[t].offset \in Nat
    BY <1>3, <1>4
  <2>4. Tallied(k, c)'
    <3>1. scopes[k].nelem[c] = Cardinality(On(k, c))
      BY <1>5 DEF Ordered, Tallied
    <3>2. Cardinality(On(k, c) \ {s}) = Cardinality(On(k, c)) - 1
      BY <1>2, OnFinite, FS_RemoveElement
    <3> QED BY <1>11, <2>1, <3>1, <3>2 DEF Tallied
  <2>5. Headed(k, c)'
    BY <1>7, <1>11, <2>1, <2>2 DEF Headed
  <2>6. Forth(k, c)'
    <3>1. Forth(k, c)
      BY <1>5 DEF Ordered
    <3> SUFFICES ASSUME NEW t \in On(k, c), t # s
                 PROVE  /\ sym'[t].next = NoSym => \A u \in On(k, c) \ {s} : sym'[t].offset <= sym'[u].offset
                        /\ sym'[t].next # NoSym =>
                             /\ sym'[t].next \in On(k, c) \ {s}
                             /\ sym'[sym'[t].next].offset < sym'[t].offset
                             /\ \A u \in On(k, c) \ {s} :
                                  sym'[u].offset < sym'[t].offset
                                    => sym'[u].offset <= sym'[sym'[t].next].offset
      BY <2>1 DEF Forth
    <3>2. CASE sym[t].next = NoSym
      BY <2>2, <3>1, <3>2 DEF Forth
    <3>3. CASE sym[t].next # NoSym
      <4>1. /\ sym[t].next \in On(k, c) /\ sym[sym[t].next].offset < sym[t].offset
            /\ \A u \in On(k, c) :
                 sym[u].offset < sym[t].offset => sym[u].offset <= sym[sym[t].next].offset
        BY <3>1, <3>3 DEF Forth
      <4>2. sym[t].next # s
        BY <1>2, <2>2, <2>3, <4>1
      <4> QED BY <2>2, <3>3, <4>1, <4>2
    <3> QED BY <3>2, <3>3
  <2>7. Back(k, c)'
    <3>1. Back(k, c)
      BY <1>5 DEF Ordered
    <3> SUFFICES ASSUME NEW t \in On(k, c), t # s
                 PROVE  /\ sym'[t].pre = NoSym => \A u \in On(k, c) \ {s} : sym'[u].offset <= sym'[t].offset
                        /\ sym'[t].pre # NoSym =>
                             /\ sym'[t].pre \in On(k, c) \ {s}
                             /\ sym'[t].offset < sym'[sym'[t].pre].offset
                             /\ \A u \in On(k, c) \ {s} :
                                  sym'[t].offset < sym'[u].offset
                                    => sym'[sym'[t].pre].offset <= sym'[u].offset
      BY <2>1 DEF Back
    <3>2. CASE t = h
      BY <1>7, <2>2, <3>2
    <3>3. CASE t # h
      <4>1. h # NoSym /\ h \in On(k, c) /\ h # s /\ sym[t].offset <= sym[h].offset
        BY <1>7
      <4>2. sym[t].offset < sym[h].offset
        <5>1. t \in In(k) /\ h \in In(k)
          BY <1>4, <4>1
        <5>2. sym[t].offset # sym[h].offset
          BY <1>1, <3>3, <5>1 DEF TableInv, SlotsDistinct
        <5> QED BY <2>3, <4>1, <5>2
      <4>3. sym[t].pre # NoSym
        BY <2>3, <3>1, <4>1, <4>2 DEF Back
      <4>4. /\ sym[t].pre \in On(k, c) /\ sym[t].offset < sym[sym[t].pre].offset
            /\ \A u \in On(k, c) : sym[t].offset < sym[u].offset
                                     => sym[sym[t].pre].offset <= sym[u].offset
        BY <3>1, <4>3 DEF Back
      <4>5. sym[t].pre # s
        BY <1>2, <2>2, <2>3, <4>1, <4>2, <4>4
      <4> QED BY <2>2, <3>3, <4>3, <4>4, <4>5
    <3> QED BY <3>2, <3>3
  <2> QED BY <2>4, <2>5, <2>6, <2>7 DEF Ordered
<1>15. Known'
  BY <1>8, <1>9 DEF ChainInv, Known
<1> QED BY <1>1, <1>13, <1>14, <1>15 DEF ChainInv

\* A step that leaves the symbols of the scopes that stay where they are: other
\* scopes come or go.
Quiet ==
  /\ \A s \in SymId :
       /\ sym'[s].level = sym[s].level /\ sym'[s].offset = sym[s].offset
       /\ sym'[s].name = sym[s].name
       /\ sym'[s].next = sym[s].next /\ sym'[s].pre = sym[s].pre
       /\ sym'[s].open => sym[s].open
       /\ sym[s].open /\ sym[s].level \in DOMAIN scopes' => sym'[s].open
       /\ sym[s].type # "FREE" => sym'[s].type # "FREE"
  /\ \A k \in DOMAIN scopes' :
       IF k \in DOMAIN scopes THEN scopes'[k] = scopes[k] ELSE scopes'[k] = EmptyScope(k)

LEMMA QuietChains ==
  ASSUME TableInv, ChainInv, TableInv', Quiet
  PROVE  ChainInv'
<1> USE DEF Quiet
<1>1. Known'
  BY DEF ChainInv, Known
<1>2. \A k \in DOMAIN scopes' : \A b \in Bucket : \A t : t \in On(k, b)' <=>
        t \in SymId /\ sym'[t].open /\ sym'[t].level = k /\ Hash[sym'[t].name] = b
  BY DEF On, In, TableInv, Levels
<1>3. ASSUME NEW k \in DOMAIN scopes', NEW b \in Bucket, k \in DOMAIN scopes
      PROVE  Ordered(k, b)'
  <2>1. \A t : t \in On(k, b) <=>
          t \in SymId /\ sym[t].open /\ sym[t].level = k /\ Hash[sym[t].name] = b
    BY <1>3, InScope
  <2>2. On(k, b)' = On(k, b)
    <3>1. \A t : t \in On(k, b)' <=> t \in On(k, b)
      BY <1>2, <1>3, <2>1
    <3> QED BY <3>1
  <2>3. \A t \in On(k, b) : /\ sym'[t].offset = sym[t].offset
                            /\ sym'[t].next = sym[t].next /\ sym'[t].pre = sym[t].pre
    BY <2>1
  <2>4. Ordered(k, b) /\ scopes'[k] = scopes[k]
    BY <1>3 DEF ChainInv
  <2> QED BY <2>2, <2>3, <2>4, SameChain
<1>4. ASSUME NEW k \in DOMAIN scopes', NEW b \in Bucket, k \notin DOMAIN scopes
      PROVE  Ordered(k, b)'
  <2>1. On(k, b)' = {}
    BY <1>2, <1>4 DEF TableInv, OpenSymbols
  <2>2. scopes'[k].nelem[b] = 0 /\ scopes'[k].thelist[b] = NoSym
    BY <1>4 DEF EmptyScope
  <2> QED BY <2>1, <2>2, FS_EmptySet DEF Ordered, Tallied, Headed, Forth, Back
<1> QED BY <1>1, <1>3, <1>4 DEF ChainInv

\* Nothing but the type of a symbol changes.
LEMMA RetypeQuiet ==
  ASSUME TableTypes, NEW f, NEW type, sym' = [sym EXCEPT ![f].type = type]
  PROVE  \A s \in SymId :
           /\ sym'[s].level = sym[s].level /\ sym'[s].offset = sym[s].offset
           /\ sym'[s].name = sym[s].name /\ sym'[s].open = sym[s].open
           /\ sym'[s].next = sym[s].next /\ sym'[s].pre = sym[s].pre
BY ZenonT(60) DEF TableTypes, Symbol

LEMMA StillQuiet ==
  ASSUME UNCHANGED <<sym, scopes>>
  PROVE  Quiet
BY DEF Quiet

LEMMA NewScopeQuiet ==
  ASSUME TableInv, NewScope,
         \A s \in SymId :
           /\ sym'[s].level = sym[s].level /\ sym'[s].offset = sym[s].offset
           /\ sym'[s].name = sym[s].name /\ sym'[s].open = sym[s].open
           /\ sym'[s].next = sym[s].next /\ sym'[s].pre = sym[s].pre
           /\ sym[s].type # "FREE" => sym'[s].type # "FREE"
  PROVE  Quiet
<1>1. scopes \in Seq(Scope) /\ scopes[top].level = Len(scopes) /\ Len(scopes) \in Nat
  BY DEF TableInv, TableTypes, Levels, top
<1>2. scopes' = Append(scopes, EmptyScope(Len(scopes) + 1))
  BY <1>1 DEF NewScope
<1>3. \A k \in DOMAIN scopes' :
        IF k \in DOMAIN scopes THEN scopes'[k] = scopes[k] ELSE scopes'[k] = EmptyScope(k)
  <2> SUFFICES ASSUME NEW k \in DOMAIN scopes'
               PROVE  IF k \in DOMAIN scopes THEN scopes'[k] = scopes[k] ELSE scopes'[k] = EmptyScope(k)
    OBVIOUS
  <2>1. PICK e : e = EmptyScope(Len(scopes) + 1)
    OBVIOUS
  <2>2. scopes' = Append(scopes, e)
    BY <1>2, <2>1
  <2>3. DOMAIN scopes = 1 .. Len(scopes) /\ DOMAIN scopes' = 1 .. Len(scopes) + 1
    BY <1>1, <2>2
  <2>4. k \in DOMAIN scopes => scopes'[k] = scopes[k]
    BY <1>1, <2>2
  <2>5. k \notin DOMAIN scopes => k = Len(scopes) + 1 /\ scopes'[k] = e
    BY <1>1, <2>2, <2>3
  <2> QED BY <2>1, <2>4, <2>5
<1> QED BY <1>3 DEF Quiet

LEMMA PopScopeQuiet ==
  ASSUME TableInv, PopScope, NEW f,
         sym' = Popped \/ sym' = [Popped EXCEPT ![f].type = "UNDEF"]
  PROVE  Quiet
<1>1. scopes \in Seq(Scope) /\ Len(scopes) \in Nat /\ scopes # <<>> /\ scopes[top].level = Len(scopes)
  BY DEF TableInv, TableTypes, Levels, top
<1>2. Len(scopes') = Len(scopes) - 1 /\ scopes' \in Seq(Scope)
      /\ \A k \in DOMAIN scopes' : k \in DOMAIN scopes /\ scopes'[k] = scopes[k]
  BY <1>1, FrontOf DEF PopScope, top
<1>3. Len(scopes) \notin DOMAIN scopes'
  BY <1>1, <1>2
<1>4. \A s \in SymId :
        /\ Popped[s].level = sym[s].level /\ Popped[s].offset = sym[s].offset
        /\ Popped[s].name = sym[s].name
        /\ Popped[s].next = sym[s].next /\ Popped[s].pre = sym[s].pre
        /\ Popped[s].open = (sym[s].open /\ sym[s].level # Len(scopes))
        /\ Popped[s].type = sym[s].type
        /\ Popped[s] \in Symbol
  <2> TAKE s \in SymId
  <2>1. sym[s] \in Symbol
    BY DEF TableInv, TableTypes
  <2>2. Popped[s] = IF sym[s].open /\ sym[s].level = Len(scopes)
                    THEN [sym[s] EXCEPT !.open = FALSE] ELSE sym[s]
    BY <1>1 DEF Popped
  <2>3. CASE sym[s].open /\ sym[s].level = Len(scopes)
    BY <2>1, <2>2, <2>3 DEF Symbol
  <2>4. CASE ~(sym[s].open /\ sym[s].level = Len(scopes))
    BY <2>1, <2>2, <2>4, Zenon DEF Symbol
  <2> QED BY <2>3, <2>4
<1>5. \A s \in SymId :
        /\ sym'[s].level = sym[s].level /\ sym'[s].offset = sym[s].offset
        /\ sym'[s].name = sym[s].name
        /\ sym'[s].next = sym[s].next /\ sym'[s].pre = sym[s].pre
        /\ sym'[s].open = (sym[s].open /\ sym[s].level # Len(scopes))
        /\ sym[s].type # "FREE" => sym'[s].type # "FREE"
  <2>1. CASE sym' = Popped
    BY <1>4, <2>1
  <2>2. CASE sym' = [Popped EXCEPT ![f].type = "UNDEF"]
    <3>1. Popped \in [SymId -> Symbol]
      BY <1>4 DEF Popped
    <3>2. \A s \in SymId :
            /\ sym'[s].level = Popped[s].level /\ sym'[s].offset = Popped[s].offset
            /\ sym'[s].name = Popped[s].name /\ sym'[s].open = Popped[s].open
            /\ sym'[s].next = Popped[s].next /\ sym'[s].pre = Popped[s].pre
            /\ Popped[s].type # "FREE" => sym'[s].type # "FREE"
      <4>1. PICK p : p = Popped
        OBVIOUS
      <4> QED BY <2>2, <3>1, <4>1, ZenonT(60) DEF Symbol
    <3> QED BY <1>4, <3>2
  <2> QED BY <2>1, <2>2
<1>6. \A s \in SymId : sym[s].open => sym[s].level \in DOMAIN scopes
  BY DEF TableInv, OpenSymbols
<1>7. \A k \in DOMAIN scopes : k # Len(scopes) => k \in DOMAIN scopes'
  BY <1>1, <1>2
<1> QED BY <1>2, <1>3, <1>5 DEF Quiet

\* The ways a step treats the table: it adds a symbol, takes the newest one back
\* or lets the symbols be, while the list stays, loses its end or is reset.
Adds == \E s \in SymId, n \in Name, type \in {"UNDEF", "IFUNC"} : Freed(s) /\ AddSym(s, n, type)
Deletes ==
  /\ newSyms # <<>> /\ newSyms' = SubSeq(newSyms, 1, Len(newSyms) - 1)
  /\ \E s : s = newSyms[Len(newSyms)] /\ sym[s].open /\ DeleteSym(s, sym[s].level)
Shortens == newSyms # <<>> /\ newSyms' = SubSeq(newSyms, 1, Len(newSyms) - 1)
Rests == Quiet /\ (newSyms' = newSyms \/ newSyms' = <<>> \/ Shortens)

\* There are no other ways.
LEMMA StepKinds ==
  ASSUME IInv, [Next]_vars
  PROVE  Adds \/ Deletes \/ Rests
<1>1. TableInv /\ TableTypes
  BY DEF IInv, TableInv
<1>2. ASSUME NEW n \in Name, NEW type \in {"UNDEF", "IFUNC"}, NEW Then(_), Adding(n, type, Then)
      PROVE  Adds \/ Rests
  <2>1. CASE fault' = "full" /\ UNCHANGED <<table, stmts>>
    BY <1>1, <2>1, StillQuiet DEF table, Rests
  <2>2. CASE \E s \in Malloc : AddSym(s, n, type)
    BY <2>2 DEF Adds, Malloc, Free
  <2> QED BY <1>2, <2>1, <2>2 DEF Adding
<1>3. ASSUME UNCHANGED <<sym, scopes>> /\ (newSyms' = newSyms \/ newSyms' = <<>>) PROVE Rests
  BY <1>3, StillQuiet DEF Rests
<1>4. ASSUME NEW n \in Name, Lex(n) \/ Declare(n) \/ RegisterFunc(n) PROVE Adds \/ Rests
  <2>0. UNCHANGED table => Rests
    BY <1>3 DEF table
  <2>1. CASE Lex(n)
    <3>1. Adding(n, "UNDEF", ReferNew) \/ UNCHANGED table
      BY <2>1 DEF Lex
    <3> QED BY <1>2, <2>0, <3>1
  <2>2. CASE Declare(n)
    <3>1. Adding(n, "UNDEF", ReferNew) \/ UNCHANGED table
      BY <2>2 DEF Declare
    <3> QED BY <1>2, <2>0, <3>1
  <2>3. CASE RegisterFunc(n)
    BY <1>2, <2>3 DEF RegisterFunc
  <2> QED BY <1>4, <2>1, <2>2, <2>3
<1>5. ASSUME NEW s \in SymId, OpenDef(s) \/ OpenLibrary(s) \/ LibraryFails(s) PROVE Rests
  <2>1. CASE OpenDef(s)
    BY <1>1, <2>1, NewScopeQuiet DEF OpenDef, Rests
  <2>2. CASE OpenLibrary(s)
    <3>1. sym' = [sym EXCEPT ![s].type = "DLIB"] /\ NewScope /\ newSyms' = <<>>
      BY <2>2 DEF OpenLibrary
    <3>2. \A t \in SymId : sym[t].type # "FREE" => sym'[t].type # "FREE"
      BY <1>1, <3>1, RetypeKeeps
    <3> QED BY <1>1, <3>1, <3>2, RetypeQuiet, NewScopeQuiet DEF Rests
  <2>3. CASE LibraryFails(s)
    <3>1. UNCHANGED table
      BY <2>3 DEF LibraryFails
    <3> QED BY <1>3, <3>1 DEF table
  <2> QED BY <1>5, <2>1, <2>2, <2>3
<1>6. CASE AcceptHead
  <2>1. sym' = [sym EXCEPT ![cur.f].type = "NFUNC"] /\ scopes' = scopes /\ newSyms' = newSyms
    BY <1>6 DEF AcceptHead
  <2>2. PICK f : f = cur.f
    OBVIOUS
  <2>3. \A s \in SymId :
           /\ sym'[s].level = sym[s].level /\ sym'[s].offset = sym[s].offset
           /\ sym'[s].name = sym[s].name /\ sym'[s].open = sym[s].open
           /\ sym'[s].next = sym[s].next /\ sym'[s].pre = sym[s].pre
    BY <1>1, <2>1, <2>2, RetypeQuiet
  <2>4. \A t \in SymId : sym[t].type # "FREE" => sym'[t].type # "FREE"
    BY <1>1, <2>1, <2>2, RetypeKeeps
  <2> QED BY <2>1, <2>3, <2>4 DEF Rests, Quiet
<1>7. CASE HeadError \/ OpenBlock \/ SyntaxError \/ NextBranch \/ CloseBlock \/ DropLine \/ DropStatement
  BY <1>3, <1>7 DEF HeadError, OpenBlock, SyntaxError, NextBranch, CloseBlock, DropLine, DropStatement, table
<1>8. CASE EndLine \/ EndStatement
  BY <1>3, <1>8 DEF EndLine, EndStatement, table
<1>9. CASE CloseDef
  <2>1. CASE PopScope /\ sym' = Popped
    BY <1>1, <1>9, <2>1, PopScopeQuiet DEF CloseDef, Rests
  <2> QED BY <1>3, <1>9, <2>1 DEF CloseDef
<1>10. CASE FailDef
  <2>1. CASE PopScope /\ sym' = [Popped EXCEPT ![cur.f].type = "UNDEF"]
    <3>1. PICK f : f = cur.f
      OBVIOUS
    <3>2. newSyms' = newSyms
      BY <1>10 DEF FailDef, table
    <3> QED BY <1>1, <2>1, <3>1, <3>2, PopScopeQuiet DEF Rests
  <2> QED BY <1>3, <1>10, <2>1 DEF FailDef, table
<1>11. CASE CloseLibrary
  BY <1>1, <1>11, PopScopeQuiet DEF CloseLibrary, Rests
<1>12. CASE DeleteNewest
  <2>1. PICK s, k : s = newSyms[Len(newSyms)] /\ k = ScopeAt(sym[s].level)
    OBVIOUS
  <2>2. newSyms \in Seq(SymId) /\ newSyms # <<>> /\ s \in SymId /\ sym[s].level \in Nat
    BY <1>1, <1>12, <2>1 DEF DeleteNewest, TableTypes, Symbol
  <2>3. k = IF sym[s].level \in DOMAIN scopes THEN sym[s].level ELSE 0
    BY <1>1, <2>1, <2>2, ScopeAtLevel
  <2>4. CASE k # 0 /\ sym[s].open
    <3>1. DeleteSym(s, sym[s].level) /\ newSyms' = SubSeq(newSyms, 1, Len(newSyms) - 1)
      BY <1>12, <2>1, <2>3, <2>4 DEF DeleteNewest
    <3> QED BY <2>1, <2>2, <2>4, <3>1 DEF Deletes
  <2>5. CASE ~(k # 0 /\ sym[s].open)
    <3>1. CASE UNCHANGED table
      BY <1>3, <3>1 DEF table
    <3>2. CASE newSyms' = SubSeq(newSyms, 1, Len(newSyms) - 1) /\ UNCHANGED <<sym, scopes>>
      BY <2>2, <3>2, StillQuiet DEF Rests, Shortens
    <3> QED BY <1>12, <2>1, <2>5, <3>1, <3>2 DEF DeleteNewest
  <2> QED BY <2>4, <2>5
<1>13. CASE UNCHANGED vars
  BY <1>3, <1>13 DEF vars, table
<1> QED
  BY <1>4, <1>5, <1>6, <1>7, <1>8, <1>9, <1>10, <1>11, <1>12, <1>13 DEF Next, Stopped

LEMMA NextChains == IInv /\ ChainInv /\ IInv' /\ [Next]_vars => ChainInv'
<1> SUFFICES ASSUME IInv, ChainInv, IInv', [Next]_vars PROVE ChainInv'
  OBVIOUS
<1>1. TableInv /\ TableInv'
  BY DEF IInv
<1>2. CASE Adds
  BY <1>1, <1>2, AddSymChains DEF Adds
<1>3. CASE Deletes
  BY <1>1, <1>3, DeleteSymChains DEF Deletes
<1>4. CASE Rests
  BY <1>1, <1>4, QuietChains DEF Rests
<1> QED BY <1>2, <1>3, <1>4, StepKinds

-----------------------------------------------------------------------------
(* What following the pointers finds *)

\* link is the first n steps from h along the pointers.
Walk(link, n, h) ==
  link = [i \in 0 .. n |-> IF i = 0 THEN h
                           ELSE IF link[i - 1] = NoSym THEN NoSym ELSE sym[link[i - 1]].next]

\* From any address there is a walk of any length.
LEMMA WalkExists ==
  ASSUME NEW h, NEW m \in Nat
  PROVE  \E link : Walk(link, m, h)
<1> DEFINE S == {n \in Nat : \E link : Walk(link, n, h)}
<1>1. 0 \in S
  <2> DEFINE link == [i \in 0 .. 0 |-> h]
  <2>1. \A i \in 0 .. 0 : i = 0
    OBVIOUS
  <2>2. Walk(link, 0, h)
    BY <2>1 DEF Walk
  <2> HIDE DEF link
  <2> QED BY <2>2
<1>2. ASSUME NEW n \in Nat, n \in S PROVE n + 1 \in S
  <2>1. PICK old : Walk(old, n, h)
    BY <1>2
  <2>2. PICK last : last = IF old[n] = NoSym THEN NoSym ELSE sym[old[n]].next
    OBVIOUS
  <2> DEFINE link == [i \in 0 .. n + 1 |-> IF i = n + 1 THEN last ELSE old[i]]
  <2>3. ASSUME NEW i \in 0 .. n + 1
        PROVE  link[i] = IF i = 0 THEN h
                         ELSE IF link[i - 1] = NoSym THEN NoSym ELSE sym[link[i - 1]].next
    <3>1. CASE i = n + 1
      <4>1. i # 0 /\ i - 1 = n /\ i - 1 \in 0 .. n + 1 /\ i - 1 # n + 1
        BY <3>1
      <4>2. link[i] = last /\ link[i - 1] = old[n]
        BY <3>1, <4>1
      <4> HIDE DEF link
      <4> QED BY <2>2, <4>1, <4>2
    <3>2. CASE i = 0
      <4>1. i \in 0 .. n /\ i # n + 1
        BY <3>2
      <4>2. link[i] = old[i]
        BY <4>1
      <4>3. old[i] = h
        BY <2>1, <3>2, <4>1 DEF Walk
      <4> HIDE DEF link
      <4> QED BY <3>2, <4>2, <4>3
    <3>3. CASE i # 0 /\ i # n + 1
      <4>1. i \in 0 .. n /\ i - 1 \in 0 .. n + 1 /\ i - 1 # n + 1
        BY <3>3
      <4>2. link[i] = old[i] /\ link[i - 1] = old[i - 1]
        BY <3>3, <4>1
      <4>3. old[i] = IF old[i - 1] = NoSym THEN NoSym ELSE sym[old[i - 1]].next
        BY <2>1, <3>3, <4>1 DEF Walk
      <4> HIDE DEF link
      <4> QED BY <3>3, <4>2, <4>3
    <3> QED BY <3>1, <3>2, <3>3
  <2>4. link = [i \in 0 .. n + 1 |-> link[i]]
    OBVIOUS
  <2> HIDE DEF link
  <2>5. Walk(link, n + 1, h)
    BY <2>3, <2>4 DEF Walk
  <2> QED BY <2>5
<1>3. Nat \subseteq S
  <2> HIDE DEF S
  <2> QED BY <1>1, <1>2, EveryNumber
<1> QED BY <1>3

\* Following the pointers from the head of a chain finds its symbols: every
\* step is to a symbol with a smaller offset, so that the walk cannot pass one
\* by and comes to an end.
LEMMA ChainFound ==
  ASSUME TableInv, ChainInv, NEW k \in DOMAIN scopes, NEW b \in Bucket
  PROVE  Chain(scopes[k], b) = On(k, b)
<1>0. PICK N, C, h : N = Cardinality(SymId) /\ C = On(k, b) /\ h = scopes[k].thelist[b]
  OBVIOUS
<1>1. N \in Nat
  BY <1>0, SymIdAssumption, FS_CardinalityType
<1>2. C \subseteq SymId /\ NoSym \notin C /\ \A s \in C : sym[s].offset \in Nat
  <2>1. C \subseteq SymId
    BY <1>0, OnFinite
  <2> QED BY <2>1, NoSymAssumption DEF TableInv, TableTypes, Symbol
<1>3. PICK link : Walk(link, N, h) /\ Chain(scopes[k], b) = {link[i] : i \in DOMAIN link} \cap SymId
  <2> DEFINE F == CHOOSE link : Walk(link, N, h)
  <2>1. \E link : Walk(link, N, h)
    BY <1>1, WalkExists
  <2>2. Walk(F, N, h)
    BY <2>1
  <2>3. Chain(scopes[k], b) = {F[i] : i \in DOMAIN F} \cap SymId
    BY <1>0 DEF Chain, Walk
  <2> HIDE DEF F
  <2> QED BY <2>2, <2>3
<1>4. /\ DOMAIN link = 0 .. N /\ link[0] = h
      /\ \A i \in 0 .. N - 1 : link[i + 1] = IF link[i] = NoSym THEN NoSym ELSE sym[link[i]].next
  <2>1. \A i \in 0 .. N : link[i] = IF i = 0 THEN h
                                   ELSE IF link[i - 1] = NoSym THEN NoSym ELSE sym[link[i - 1]].next
    BY <1>3 DEF Walk
  <2>2. DOMAIN link = 0 .. N
    BY <1>3 DEF Walk
  <2>3. ASSUME NEW i \in 0 .. N - 1
        PROVE  link[i + 1] = IF link[i] = NoSym THEN NoSym ELSE sym[link[i]].next
    <3>1. i + 1 \in 0 .. N /\ i + 1 # 0 /\ (i + 1) - 1 = i
      BY <1>1
    <3> QED BY <2>1, <3>1
  <2> QED BY <1>1, <2>1, <2>2, <2>3
<1>5. /\ h = NoSym => C = {}
      /\ h # NoSym => h \in C /\ \A t \in C : sym[t].offset <= sym[h].offset
  BY <1>0 DEF ChainInv, Ordered, Headed
<1>6. \A s \in C :
        /\ sym[s].next = NoSym => \A t \in C : sym[s].offset <= sym[t].offset
        /\ sym[s].next # NoSym =>
             /\ sym[s].next \in C /\ sym[sym[s].next].offset < sym[s].offset
             /\ \A t \in C : sym[t].offset < sym[s].offset => sym[t].offset <= sym[sym[s].next].offset
  BY <1>0, Zenon DEF ChainInv, Ordered, Forth
<1>7. \A i \in 0 .. N : link[i] \in C \cup {NoSym}
  <2> DEFINE T == {i \in Nat : link[i] \in C \cup {NoSym}}
  <2>1. 0 \in T
    BY <1>4, <1>5
  <2>2. ASSUME NEW i \in 0 .. N - 1, i \in T PROVE i + 1 \in T
    BY <1>1, <1>4, <1>6, <2>2
  <2>3. 0 .. N \subseteq T
    <3> HIDE DEF T
    <3> QED BY <1>1, <2>1, <2>2, EveryNumberTo
  <2> QED BY <2>3
<1>8. ASSUME NEW t \in C, \A i \in 0 .. N : link[i] # t PROVE FALSE
  <2> DEFINE Above(i) == link[i] \in C /\ sym[t].offset < sym[link[i]].offset
             Falling(i) == \A j \in 0 .. N : j < i => /\ link[j] \in C
                                                 /\ sym[link[i]].offset < sym[link[j]].offset
             T == {i \in Nat : Above(i) /\ Falling(i)}
  <2>0. \A u \in C : sym[u].offset = sym[t].offset => u = t
    BY <1>0 DEF TableInv, SlotsDistinct, On
  <2>1. 0 \in T
    <3>1. h \in C /\ sym[t].offset <= sym[h].offset
      BY <1>5, <1>8
    <3>2. h # t
      BY <1>1, <1>4, <1>8
    <3>3. Above(0)
      BY <1>2, <1>4, <2>0, <3>1, <3>2
    <3>4. Falling(0)
      BY <1>1
    <3> QED BY <3>3, <3>4
  <2>2. ASSUME NEW i \in 0 .. N - 1, i \in T PROVE i + 1 \in T
    <3>1. Above(i) /\ Falling(i)
      BY <2>2
    <3>2. PICK s, u : s = link[i] /\ u = link[i + 1]
      OBVIOUS
    <3>3. s \in C /\ sym[t].offset < sym[s].offset /\ s # NoSym
      BY <1>2, <3>1, <3>2
    <3>4. u = sym[s].next
      BY <1>4, <3>2, <3>3
    <3>5. u # NoSym
      <4> SUFFICES ASSUME u = NoSym PROVE FALSE
        OBVIOUS
      <4>1. sym[s].offset <= sym[t].offset
        BY <1>6, <3>3, <3>4
      <4> QED BY <1>2, <3>3, <4>1
    <3>6. u \in C /\ sym[u].offset < sym[s].offset /\ sym[t].offset <= sym[u].offset
      BY <1>6, <3>3, <3>4, <3>5
    <3>7. u # t
      BY <1>1, <1>8, <3>2
    <3>8. Above(i + 1)
      BY <1>2, <2>0, <3>2, <3>6, <3>7
    <3>9. Falling(i + 1)
      <4> SUFFICES ASSUME NEW j \in 0 .. N, j < i + 1
                   PROVE  link[j] \in C /\ sym[u].offset < sym[link[j]].offset
        BY <3>2
      <4>1. CASE j = i
        BY <3>2, <3>3, <3>6, <4>1
      <4>2. CASE j < i
        <5>1. link[j] \in C /\ sym[s].offset < sym[link[j]].offset
          BY <3>1, <3>2, <4>2
        <5> QED BY <1>2, <3>3, <3>6, <5>1
      <4> QED BY <1>1, <4>1, <4>2
    <3> QED BY <1>1, <3>8, <3>9
  <2>3. 0 .. N \subseteq T
    <3> HIDE DEF T
    <3> QED BY <1>1, <2>1, <2>2, EveryNumberTo
  <2>4. \A i \in 0 .. N : Above(i) /\ Falling(i)
    BY <2>3
  <2>5. PICK i \in 0 .. N, j \in 0 .. N : i # j /\ link[i] = link[j]
    <3>1. link \in [0 .. N -> SymId]
      <4>1. \A i \in 0 .. N : link[i] \in SymId
        BY <1>2, <2>4
      <4>2. link = [i \in 0 .. N |-> link[i]]
        BY <1>3 DEF Walk
      <4> QED BY <4>1, <4>2
    <3>2. IsFiniteSet(0 .. N) /\ Cardinality(0 .. N) = N + 1
      BY <1>1, FS_Interval
    <3>3. Cardinality(SymId) < Cardinality(0 .. N)
      BY <1>0, <1>1, <3>2
    <3> QED BY <3>1, <3>2, <3>3, SymIdAssumption, FS_PigeonHole
  <2>6. CASE i < j
    BY <1>2, <2>4, <2>5, <2>6
  <2>7. CASE j < i
    BY <1>2, <2>4, <2>5, <2>7
  <2> QED BY <2>5, <2>6, <2>7
<1>9. {link[i] : i \in DOMAIN link} \cap SymId = C
  <2>1. \A t \in C : \E i \in 0 .. N : link[i] = t
    BY <1>8
  <2> QED BY <1>2, <1>4, <1>7, <2>1, NoSymAssumption
<1> QED BY <1>0, <1>3, <1>9

\* Chains in the order of offsets are linked in both directions.
LEMMA LinksHold ==
  ASSUME TableInv, ChainInv
  PROVE  WellLinked
<1> SUFFICES ASSUME NEW k \in DOMAIN scopes, NEW b \in Bucket
             PROVE  /\ Chain(scopes[k], b) = On(k, b)
                    /\ scopes[k].nelem[b] = Cardinality(On(k, b))
                    /\ \A s \in On(k, b) :
                         /\ (sym[s].pre = NoSym) = (scopes[k].thelist[b] = s)
                         /\ sym[s].next # NoSym => sym[s].next \in On(k, b) /\ sym[sym[s].next].pre = s
  BY DEF WellLinked, On
<1>1. Chain(scopes[k], b) = On(k, b)
  BY ChainFound
<1>2. Tallied(k, b) /\ Headed(k, b) /\ Forth(k, b) /\ Back(k, b)
  BY DEF ChainInv, Ordered
<1>3. \A s \in On(k, b) : sym[s].offset \in Nat /\ s # NoSym
  BY InScope DEF On
<1>4. \A s, t \in On(k, b) : sym[s].offset = sym[t].offset => s = t
  BY DEF TableInv, SlotsDistinct, On
<1>5. ASSUME NEW s \in On(k, b)
      PROVE  /\ (sym[s].pre = NoSym) = (scopes[k].thelist[b] = s)
             /\ sym[s].next # NoSym => sym[s].next \in On(k, b) /\ sym[sym[s].next].pre = s
  <2>1. PICK h : h = scopes[k].thelist[b]
    OBVIOUS
  <2>2. h \in On(k, b) /\ \A t \in On(k, b) : sym[t].offset <= sym[h].offset
    BY <1>2, <2>1 DEF Headed
  <2>3. ASSUME sym[s].pre = NoSym PROVE h = s
    <3>1. sym[h].offset <= sym[s].offset
      BY <1>2, <2>2, <2>3 DEF Back
    <3> QED BY <1>3, <1>4, <2>2, <3>1
  <2>4. ASSUME sym[s].pre # NoSym PROVE h # s
    <3>1. sym[s].pre \in On(k, b) /\ sym[s].offset < sym[sym[s].pre].offset
      BY <1>2, <2>4 DEF Back
    <3> QED BY <1>3, <2>2, <3>1
  <2>5. ASSUME sym[s].next # NoSym PROVE sym[s].next \in On(k, b) /\ sym[sym[s].next].pre = s
    <3>1. PICK u : u = sym[s].next
      OBVIOUS
    <3>2. /\ u \in On(k, b) /\ sym[u].offset < sym[s].offset
          /\ \A t \in On(k, b) : sym[t].offset < sym[s].offset => sym[t].offset <= sym[u].offset
      BY <1>2, <2>5, <3>1 DEF Forth
    <3>3. PICK v : v = sym[u].pre
      OBVIOUS
    <3>4. v # NoSym
      BY <1>2, <1>3, <3>2, <3>3 DEF Back
    <3>5. v \in On(k, b) /\ sym[u].offset < sym[v].offset /\ sym[v].offset <= sym[s].offset
      BY <1>2, <3>2, <3>3, <3>4 DEF Back
    <3>6. ~(sym[v].offset < sym[s].offset)
      BY <1>3, <3>2, <3>5
    <3>7. v = s
      BY <1>3, <1>4, <3>5, <3>6
    <3> QED BY <3>1, <3>2, <3>3, <3>7
  <2> QED BY <2>1, <2>3, <2>4, <2>5
<1> QED BY <1>1, <1>2, <1>5 DEF Tallied

-----------------------------------------------------------------------------
(* The names of the scopes *)

\* Every offset of a scope below the next one is a symbol's.
Dense ==
  \A k \in DOMAIN scopes : \A o \in 0 .. scopes[k].curOffset - 1 :
    \E s \in In(k) : sym[s].offset = o

\* The list has a symbol once, and no freed one.
Once ==
  \A i \in DOMAIN newSyms :
    /\ ~Freed(newSyms[i])
    /\ \A j \in DOMAIN newSyms : newSyms[j] = newSyms[i] => i = j

Sound == TableInv /\ ChainInv /\ Dense /\ Once

\* What NamesOf is: the names of the symbols of the scope, each at its offset.
NamesRight ==
  \A k \in DOMAIN scopes :
    /\ scopes[k].curOffset \in Nat
    /\ NamesOf(k) \in Seq(Name) /\ Len(NamesOf(k)) = scopes[k].curOffset
    /\ \A s \in In(k) : /\ sym[s].offset + 1 \in 1 .. scopes[k].curOffset
                        /\ NamesOf(k)[sym[s].offset + 1] = sym[s].name
    /\ \A i \in 1 .. scopes[k].curOffset : \E s \in In(k) : sym[s].offset + 1 = i

\* Offsets that are distinct and without a gap make a sequence of names.
LEMMA SoundNames == Sound => NamesRight
<1> SUFFICES ASSUME Sound, NEW k \in DOMAIN scopes
             PROVE  /\ scopes[k].curOffset \in Nat
                    /\ NamesOf(k) \in Seq(Name) /\ Len(NamesOf(k)) = scopes[k].curOffset
                    /\ \A s \in In(k) : /\ sym[s].offset + 1 \in 1 .. scopes[k].curOffset
                                        /\ NamesOf(k)[sym[s].offset + 1] = sym[s].name
                    /\ \A i \in 1 .. scopes[k].curOffset : \E s \in In(k) : sym[s].offset + 1 = i
  BY DEF NamesRight
<1>0. PICK c : c = scopes[k].curOffset
  OBVIOUS
<1>1. c \in Nat
  <2>1. scopes[k] \in Scope
    BY DEF Sound, TableInv, TableTypes
  <2> QED BY <1>0, <2>1 DEF Scope
<1>2. \A s \in In(k) : /\ sym[s].offset \in Nat /\ sym[s].offset < c /\ sym[s].name \in Name
                       /\ \A t \in In(k) : sym[t].offset = sym[s].offset => s = t
  <2>1. \A s \in In(k) : sym[s].offset \in Nat /\ s \in SymId /\ sym[s].open
    BY InScope DEF Sound
  <2> QED BY <1>0, <2>1 DEF Sound, TableInv, SlotsDistinct, ChainInv, Known
<1>3. \A o \in 0 .. c - 1 : \E s \in In(k) : sym[s].offset = o
  BY <1>0 DEF Sound, Dense
<1>4. ASSUME NEW i \in 1 .. c PROVE \E s \in In(k) : sym[s].offset = i - 1
  BY <1>1, <1>3
<1>5. ASSUME NEW i \in 1 .. c, NEW s \in In(k), sym[s].offset = i - 1
      PROVE  NamesOf(k)[i] = sym[s].name
  <2>1. PICK t : t = CHOOSE u \in In(k) : sym[u].offset = i - 1
    OBVIOUS
  <2>2. t \in In(k) /\ sym[t].offset = i - 1
    BY <1>5, <2>1
  <2>3. t = s
    BY <1>2, <1>5, <2>2
  <2>4. NamesOf(k)[i] = sym[t].name
    BY <1>0, <1>5, <2>1 DEF NamesOf
  <2> QED BY <2>3, <2>4
<1>6. NamesOf(k) = [i \in 1 .. c |-> NamesOf(k)[i]]
  BY <1>0 DEF NamesOf
<1>7. \A i \in 1 .. c : NamesOf(k)[i] \in Name
  BY <1>2, <1>4, <1>5
<1>8. NamesOf(k) \in Seq(Name) /\ Len(NamesOf(k)) = c
  <2>1. PICK f : f = NamesOf(k)
    OBVIOUS
  <2>2. f = [i \in 1 .. c |-> f[i]] /\ \A i \in 1 .. c : f[i] \in Name
    BY <1>6, <1>7, <2>1
  <2>3. f \in Seq(Name) /\ Len(f) = c
    BY <1>1, <2>2
  <2> QED BY <2>1, <2>3
<1>9. \A s \in In(k) : sym[s].offset + 1 \in 1 .. c /\ sym[s].offset = (sym[s].offset + 1) - 1
  BY <1>1, <1>2
<1>10. \A s \in In(k) : NamesOf(k)[sym[s].offset + 1] = sym[s].name
  BY <1>5, <1>9
<1>11. \A i \in 1 .. c : \E s \in In(k) : sym[s].offset + 1 = i
  <2> SUFFICES ASSUME NEW i \in 1 .. c PROVE \E s \in In(k) : sym[s].offset + 1 = i
    OBVIOUS
  <2>1. PICK s \in In(k) : sym[s].offset = i - 1
    BY <1>4
  <2> QED BY <1>1, <2>1
<1> QED BY <1>0, <1>1, <1>8, <1>9, <1>10, <1>11

LEMMA SoundNamesNext == Sound' => NamesRight'
BY SoundNames, PTL

\* A scope no symbol of which a step touches has the names it had.
LEMMA SameScope ==
  ASSUME NamesRight, NamesRight', NEW k \in DOMAIN scopes, k \in DOMAIN scopes',
         In(k)' = In(k), scopes'[k].curOffset = scopes[k].curOffset,
         \A s \in In(k) : sym'[s].offset = sym[s].offset /\ sym'[s].name = sym[s].name
  PROVE  NamesOf(k)' = NamesOf(k)
<1>1. PICK f, g, c : f = NamesOf(k) /\ g = NamesOf(k)' /\ c = scopes[k].curOffset
  OBVIOUS
<1>2. /\ c \in Nat /\ f \in Seq(Name) /\ Len(f) = c
      /\ \A s \in In(k) : f[sym[s].offset + 1] = sym[s].name
      /\ \A i \in 1 .. c : \E s \in In(k) : sym[s].offset + 1 = i
  BY <1>1 DEF NamesRight
<1>3. /\ g \in Seq(Name) /\ Len(g) = c
      /\ \A s \in In(k)' : g[sym'[s].offset + 1] = sym'[s].name
  BY <1>1 DEF NamesRight
<1>4. \A s \in In(k) : g[sym[s].offset + 1] = sym[s].name
  BY <1>3
<1>5. \A i \in 1 .. c : f[i] = g[i]
  <2> SUFFICES ASSUME NEW i \in 1 .. c PROVE f[i] = g[i]
    OBVIOUS
  <2>1. PICK s \in In(k) : sym[s].offset + 1 = i
    BY <1>2
  <2> QED BY <1>2, <1>4, <2>1
<1>6. f = g
  BY <1>2, <1>3, <1>5, SeqEqual
<1> QED BY <1>1, <1>6

\* What a step leaves of the scopes it does not touch.
LEMMA QuietSets ==
  ASSUME TableInv, TableInv', Quiet, NEW k \in DOMAIN scopes'
  PROVE  In(k)' = IF k \in DOMAIN scopes THEN In(k) ELSE {}
<1>1. \A t : t \in In(k)' <=> t \in SymId /\ sym'[t].open /\ sym'[t].level = k
  BY DEF In, TableInv, Levels
<1>2. CASE k \in DOMAIN scopes
  <2>1. \A t : t \in In(k) <=> t \in SymId /\ sym[t].open /\ sym[t].level = k
    BY <1>2, InScope
  <2>2. \A t : t \in In(k)' <=> t \in In(k)
    BY <1>1, <2>1 DEF Quiet
  <2>3. In(k)' = In(k)
    BY <2>2
  <2> QED BY <1>2, <2>3
<1>3. CASE k \notin DOMAIN scopes
  <2>1. \A t : t \notin In(k)'
    BY <1>1, <1>3 DEF Quiet, TableInv, OpenSymbols
  <2> QED BY <1>3, <2>1
<1> QED BY <1>2, <1>3

\* A step that touches no symbol leaves neither a gap nor a freed symbol listed.
LEMMA QuietSound ==
  ASSUME Sound, TableInv', ChainInv', Rests
  PROVE  Sound'
<1>1. TableInv /\ TableInv' /\ Quiet
  BY DEF Sound, Rests
<1>2. Dense'
  <2> SUFFICES ASSUME NEW k \in DOMAIN scopes', NEW o \in 0 .. scopes'[k].curOffset - 1
               PROVE  \E s \in In(k)' : sym'[s].offset = o
    BY DEF Dense
  <2>1. CASE k \in DOMAIN scopes
    <3>1. In(k)' = In(k)
      BY <1>1, <2>1, QuietSets
    <3>2. scopes'[k].curOffset = scopes[k].curOffset
      BY <1>1, <2>1 DEF Quiet
    <3>3. PICK s \in In(k) : sym[s].offset = o
      BY <2>1, <3>2 DEF Sound, Dense
    <3>4. sym'[s].offset = sym[s].offset
      BY <1>1, <3>3 DEF Quiet, In
    <3> QED BY <3>1, <3>3, <3>4
  <2>2. CASE k \notin DOMAIN scopes
    <3>1. scopes'[k].curOffset = 0
      BY <1>1, <2>2 DEF Quiet, EmptyScope
    <3> QED BY <3>1
  <2> QED BY <2>1, <2>2
<1>3. Once'
  <2>1. newSyms \in Seq(SymId)
    BY <1>1 DEF TableInv, TableTypes
  <2>2. \A i \in DOMAIN newSyms' : i \in DOMAIN newSyms /\ newSyms'[i] = newSyms[i]
    <3>1. CASE newSyms' = newSyms
      BY <3>1
    <3>2. CASE newSyms' = <<>>
      BY <3>2
    <3>3. CASE Shortens
      BY <2>1, <3>3, FrontOf DEF Shortens
    <3> QED BY <3>1, <3>2, <3>3 DEF Rests
  <2>3. \A i \in DOMAIN newSyms :
          newSyms[i] \in SymId /\ (sym[newSyms[i]].type # "FREE" => sym'[newSyms[i]].type # "FREE")
    BY <1>1, <2>1 DEF Quiet
  <2>4. \A i \in DOMAIN newSyms' : sym'[newSyms[i]].type # "FREE"
    BY <2>2, <2>3 DEF Sound, Once, Freed
  <2>5. \A i \in DOMAIN newSyms' : sym'[newSyms'[i]].type # "FREE"
    BY <2>2, <2>4
  <2> QED BY <2>2, <2>5 DEF Sound, Once, Freed
<1> QED BY <1>1, <1>2, <1>3 DEF Sound

LEMMA QuietNames ==
  ASSUME Sound, Sound', Quiet, NEW k \in DOMAIN scopes'
  PROVE  /\ k \in DOMAIN scopes => NamesOf(k)' = NamesOf(k)
         /\ k \notin DOMAIN scopes => NamesOf(k)' = <<>>
<1>1. TableInv /\ TableInv'
  BY DEF Sound
<1>2. NamesRight /\ NamesRight'
  BY SoundNames, SoundNamesNext
<1>3. CASE k \in DOMAIN scopes
  <2>1. In(k)' = In(k)
    BY <1>1, <1>3, QuietSets
  <2>2. scopes'[k].curOffset = scopes[k].curOffset
    BY <1>3 DEF Quiet
  <2>3. \A s \in In(k) : sym'[s].offset = sym[s].offset /\ sym'[s].name = sym[s].name
    BY DEF Quiet, In
  <2> QED BY <1>2, <1>3, <2>1, <2>2, <2>3, SameScope
<1>4. CASE k \notin DOMAIN scopes
  <2>1. scopes'[k].curOffset = 0
    BY <1>4 DEF Quiet, EmptyScope
  <2>2. PICK f : f = NamesOf(k)'
    OBVIOUS
  <2>3. f \in Seq(Name) /\ Len(f) = 0
    BY <1>2, <2>1, <2>2 DEF NamesRight
  <2>4. f = <<>>
    BY <2>3
  <2> QED BY <1>4, <2>2, <2>4
<1> QED BY <1>3, <1>4

\* The names and the firm names as sequences.
Shaped ==
  /\ AllNames \in Seq(Seq(Name)) /\ Len(AllNames) = Len(scopes)
  /\ Firm \in Seq(Int) /\ Len(Firm) = Len(scopes)
  /\ Len(scopes) \in Nat /\ DOMAIN scopes = 1 .. Len(scopes)
  /\ \A k \in DOMAIN scopes :
       /\ AllNames[k] = NamesOf(k) /\ Len(NamesOf(k)) = scopes[k].curOffset
       /\ scopes[k].curOffset \in Nat
       /\ Firm[k] = scopes[k].curOffset - Cardinality(NewIn(k))
       /\ IsFiniteSet(NewIn(k)) /\ Cardinality(NewIn(k)) \in Nat

LEMMA Shape == Sound => Shaped
<1> SUFFICES ASSUME Sound PROVE Shaped
  OBVIOUS
<1>1. NamesRight
  BY SoundNames
<1>2. Len(scopes) \in Nat /\ DOMAIN scopes = 1 .. Len(scopes) /\ newSyms \in Seq(SymId)
  BY DEF Sound, TableInv, TableTypes
<1>3. \A k \in DOMAIN scopes : IsFiniteSet(NewIn(k)) /\ Cardinality(NewIn(k)) \in Nat
  <2> TAKE k \in DOMAIN scopes
  <2>1. NewIn(k) \subseteq DOMAIN newSyms
    BY DEF NewIn
  <2>2. IsFiniteSet(DOMAIN newSyms)
    BY <1>2, FS_Interval
  <2> QED BY <2>1, <2>2, FS_Subset, FS_CardinalityType
<1>4. \A k \in DOMAIN scopes : /\ NamesOf(k) \in Seq(Name) /\ Len(NamesOf(k)) = scopes[k].curOffset
                               /\ scopes[k].curOffset \in Nat
  BY <1>1 DEF NamesRight
<1>5. AllNames \in Seq(Seq(Name)) /\ Len(AllNames) = Len(scopes)
  BY <1>2, <1>4 DEF AllNames
<1>6. Firm \in Seq(Int) /\ Len(Firm) = Len(scopes)
  BY <1>2, <1>3, <1>4 DEF Firm
<1> QED BY <1>2, <1>3, <1>4, <1>5, <1>6 DEF Shaped, AllNames, Firm

LEMMA ShapeNext == Sound' => Shaped'
BY Shape, PTL

LEMMA GrownBy ==
  ASSUME NEW S, NEW f \in Seq(S), NEW g \in Seq(S), NEW e \in S, Len(g) = Len(f) + 1,
         \A i \in 1 .. Len(f) : g[i] = f[i], g[Len(f) + 1] = e
  PROVE  g = Append(f, e)
<1> DEFINE h == Append(f, e)
<1>1. h \in Seq(S) /\ Len(h) = Len(f) + 1 /\ h[Len(f) + 1] = e /\ \A i \in 1 .. Len(f) : h[i] = f[i]
  OBVIOUS
<1> HIDE DEF h
<1>2. \A i \in 1 .. Len(g) : g[i] = h[i]
  BY <1>1
<1>3. g = h
  BY <1>1, <1>2, SeqEqual
<1> QED BY <1>3 DEF h

LEMMA ShortenedBy ==
  ASSUME NEW S, NEW f \in Seq(S), NEW g \in Seq(S), f # <<>>, Len(g) = Len(f) - 1,
         \A i \in 1 .. Len(g) : g[i] = f[i]
  PROVE  g = SubSeq(f, 1, Len(f) - 1)
<1>1. PICK h : h = SubSeq(f, 1, Len(f) - 1)
  OBVIOUS
<1>2. h \in Seq(S) /\ Len(h) = Len(f) - 1 /\ \A i \in DOMAIN h : h[i] = f[i]
  BY <1>1, FrontOf
<1>3. \A i \in 1 .. Len(g) : g[i] = h[i]
  BY <1>2
<1>4. g = h
  BY <1>2, <1>3, SeqEqual
<1> QED BY <1>1, <1>4

\* The scopes stay as they are: so do their names.
LEMMA QuietStays ==
  ASSUME Sound, Sound', Quiet, Len(scopes') = Len(scopes)
  PROVE  AllNames' = AllNames
<1>1. PICK f, g : f = AllNames /\ g = AllNames'
  OBVIOUS
<1>2. /\ f \in Seq(Seq(Name)) /\ g \in Seq(Seq(Name)) /\ Len(f) = Len(g)
      /\ DOMAIN scopes = 1 .. Len(f) /\ DOMAIN scopes' = 1 .. Len(f)
      /\ \A k \in 1 .. Len(f) : f[k] = NamesOf(k) /\ g[k] = NamesOf(k)'
  BY <1>1, Shape, ShapeNext DEF Shaped
<1>3. \A k \in 1 .. Len(f) : f[k] = g[k]
  BY <1>2, QuietNames
<1>4. f = g
  BY <1>2, <1>3, SeqEqual
<1> QED BY <1>1, <1>4

LEMMA QuietOpens ==
  ASSUME Sound, Sound', Quiet, Len(scopes') = Len(scopes) + 1
  PROVE  AllNames' = Append(AllNames, <<>>)
<1>1. PICK f, g : f = AllNames /\ g = AllNames'
  OBVIOUS
<1>2. /\ f \in Seq(Seq(Name)) /\ g \in Seq(Seq(Name)) /\ Len(g) = Len(f) + 1
      /\ DOMAIN scopes = 1 .. Len(f) /\ DOMAIN scopes' = 1 .. Len(g)
      /\ \A k \in 1 .. Len(f) : f[k] = NamesOf(k)
      /\ \A k \in 1 .. Len(g) : g[k] = NamesOf(k)'
  BY <1>1, Shape, ShapeNext DEF Shaped
<1>3. \A k \in 1 .. Len(f) : g[k] = f[k]
  BY <1>2, QuietNames
<1>4. g[Len(f) + 1] = <<>>
  <2>1. Len(f) + 1 \in 1 .. Len(g) /\ Len(f) + 1 \notin 1 .. Len(f)
    BY <1>2
  <2> QED BY <1>2, <2>1, QuietNames
<1>5. <<>> \in Seq(Name)
  OBVIOUS
<1>6. g = Append(f, <<>>)
  BY <1>2, <1>3, <1>4, <1>5, GrownBy
<1> QED BY <1>1, <1>6

LEMMA QuietCloses ==
  ASSUME Sound, Sound', Quiet, Len(scopes') = Len(scopes) - 1
  PROVE  AllNames' = SubSeq(AllNames, 1, Len(AllNames) - 1)
<1>1. PICK f, g : f = AllNames /\ g = AllNames'
  OBVIOUS
<1>2. /\ f \in Seq(Seq(Name)) /\ g \in Seq(Seq(Name)) /\ Len(g) = Len(f) - 1
      /\ DOMAIN scopes = 1 .. Len(f) /\ DOMAIN scopes' = 1 .. Len(g)
      /\ \A k \in 1 .. Len(f) : f[k] = NamesOf(k)
      /\ \A k \in 1 .. Len(g) : g[k] = NamesOf(k)'
  BY <1>1, Shape, ShapeNext DEF Shaped
<1>3. \A k \in 1 .. Len(g) : g[k] = f[k]
  <2>1. \A k \in 1 .. Len(g) : k \in 1 .. Len(f) /\ k \in DOMAIN scopes /\ k \in DOMAIN scopes'
    BY <1>2
  <2>2. \A k \in 1 .. Len(g) : NamesOf(k)' = NamesOf(k)
    BY <2>1, QuietNames
  <2> QED BY <1>2, <2>1, <2>2
<1>4. f # <<>>
  BY <1>2
<1>5. g = SubSeq(f, 1, Len(f) - 1)
  BY <1>2, <1>3, <1>4, ShortenedBy
<1> QED BY <1>1, <1>5

\* The list stays as far as the open scopes are concerned.
Retained ==
  \/ newSyms' = newSyms
  \/ newSyms # <<>> /\ newSyms' = SubSeq(newSyms, 1, Len(newSyms) - 1) /\ ~sym[newSyms[Len(newSyms)]].open

LEMMA QuietFirm ==
  ASSUME Sound, Sound', Quiet, Retained, NEW k \in DOMAIN scopes'
  PROVE  Firm'[k] = IF k \in DOMAIN scopes THEN Firm[k] ELSE 0
<1>1. Shaped /\ Shaped' /\ TableInv /\ TableInv' /\ newSyms \in Seq(SymId)
  BY Shape, ShapeNext DEF Sound, TableInv, TableTypes
<1>2. In(k)' = IF k \in DOMAIN scopes THEN In(k) ELSE {}
  BY <1>1, QuietSets
<1>3. CASE k \in DOMAIN scopes
  <2>1. \A i : i \in NewIn(k)' <=> i \in NewIn(k)
    <3>1. \A i : i \in NewIn(k)' <=> i \in DOMAIN newSyms' /\ newSyms'[i] \in In(k)
      BY <1>2, <1>3 DEF NewIn
    <3>2. \A i : i \in NewIn(k) <=> i \in DOMAIN newSyms /\ newSyms[i] \in In(k)
      BY DEF NewIn
    <3>3. CASE newSyms' = newSyms
      BY <3>1, <3>2, <3>3
    <3>4. CASE newSyms # <<>> /\ newSyms' = SubSeq(newSyms, 1, Len(newSyms) - 1)
               /\ ~sym[newSyms[Len(newSyms)]].open
      <4>1. /\ Len(newSyms') = Len(newSyms) - 1 /\ newSyms' \in Seq(SymId)
            /\ \A i \in DOMAIN newSyms' : i \in DOMAIN newSyms /\ newSyms'[i] = newSyms[i]
        BY <1>1, <3>4, FrontOf
      <4>2. newSyms[Len(newSyms)] \notin In(k)
        BY <3>4 DEF In
      <4>3. \A i \in DOMAIN newSyms : i # Len(newSyms) => i \in DOMAIN newSyms'
        BY <1>1, <4>1
      <4> QED BY <3>1, <3>2, <4>1, <4>2, <4>3
    <3> QED BY <3>3, <3>4 DEF Retained
  <2>2. NewIn(k)' = NewIn(k)
    <3>1. \A i \in NewIn(k)' : i \in NewIn(k)
      BY <2>1
    <3>2. \A i \in NewIn(k) : i \in NewIn(k)'
      BY <2>1
    <3> QED BY <3>1, <3>2
  <2>3. scopes'[k].curOffset = scopes[k].curOffset
    BY <1>3 DEF Quiet
  <2>4. Firm[k] = scopes[k].curOffset - Cardinality(NewIn(k))
    BY <1>1, <1>3 DEF Shaped
  <2>5. Firm'[k] = scopes'[k].curOffset - Cardinality(NewIn(k)')
    BY <1>1 DEF Shaped
  <2> QED BY <1>3, <2>2, <2>3, <2>4, <2>5
<1>4. CASE k \notin DOMAIN scopes
  <2>1. NewIn(k)' = {}
    BY <1>2, <1>4 DEF NewIn
  <2>2. scopes'[k].curOffset = 0
    BY <1>4 DEF Quiet, EmptyScope
  <2>3. Firm'[k] = scopes'[k].curOffset - Cardinality(NewIn(k)')
    BY <1>1 DEF Shaped
  <2> QED BY <1>4, <2>1, <2>2, <2>3, FS_EmptySet
<1> QED BY <1>3, <1>4

\* The list is reset: every name of a scope is firm.
LEMMA ResetFirm ==
  ASSUME Sound, Sound', Quiet, newSyms' = <<>>, NEW k \in DOMAIN scopes'
  PROVE  Firm'[k] = IF k \in DOMAIN scopes THEN Len(AllNames[k]) ELSE 0
<1>1. Shaped /\ Shaped'
  BY Shape, ShapeNext
<1>2. NewIn(k)' = {}
  BY DEF NewIn
<1>3. Firm'[k] = scopes'[k].curOffset - Cardinality(NewIn(k)') /\ scopes'[k].curOffset \in Nat
  BY <1>1 DEF Shaped
<1>4. Firm'[k] = scopes'[k].curOffset
  BY <1>2, <1>3, FS_EmptySet
<1>5. CASE k \in DOMAIN scopes
  <2>1. Len(AllNames[k]) = scopes[k].curOffset
    BY <1>1, <1>5 DEF Shaped
  <2>2. scopes'[k] = scopes[k]
    BY <1>5 DEF Quiet
  <2> QED BY <1>4, <1>5, <2>1, <2>2
<1>6. CASE k \notin DOMAIN scopes
  BY <1>4, <1>6 DEF Quiet, EmptyScope
<1> QED BY <1>5, <1>6

LEMMA FirmStays ==
  ASSUME Sound, Sound', Quiet, Retained, Len(scopes') = Len(scopes)
  PROVE  Firm' = Firm
<1>1. PICK f, g : f = Firm /\ g = Firm'
  OBVIOUS
<1>2. /\ f \in Seq(Int) /\ g \in Seq(Int) /\ Len(f) = Len(g)
      /\ DOMAIN scopes = 1 .. Len(f) /\ DOMAIN scopes' = 1 .. Len(f)
  BY <1>1, Shape, ShapeNext DEF Shaped
<1>3. \A k \in 1 .. Len(f) : f[k] = g[k]
  BY <1>1, <1>2, QuietFirm
<1>4. f = g
  BY <1>2, <1>3, SeqEqual
<1> QED BY <1>1, <1>4

LEMMA FirmOpens ==
  ASSUME Sound, Sound', Quiet, Retained, Len(scopes') = Len(scopes) + 1
  PROVE  Firm' = Append(Firm, 0)
<1>1. PICK f, g : f = Firm /\ g = Firm'
  OBVIOUS
<1>2. /\ f \in Seq(Int) /\ g \in Seq(Int) /\ Len(g) = Len(f) + 1
      /\ DOMAIN scopes = 1 .. Len(f) /\ DOMAIN scopes' = 1 .. Len(g)
  BY <1>1, Shape, ShapeNext DEF Shaped
<1>3. \A k \in 1 .. Len(f) : g[k] = f[k]
  <2>1. \A k \in 1 .. Len(f) : k \in DOMAIN scopes /\ k \in DOMAIN scopes'
    BY <1>2
  <2> QED BY <1>1, <2>1, QuietFirm
<1>4. g[Len(f) + 1] = 0
  <2>1. Len(f) + 1 \in DOMAIN scopes' /\ Len(f) + 1 \notin DOMAIN scopes
    BY <1>2
  <2> QED BY <1>1, <2>1, QuietFirm
<1>5. g = Append(f, 0)
  BY <1>2, <1>3, <1>4, GrownBy
<1> QED BY <1>1, <1>5

LEMMA FirmCloses ==
  ASSUME Sound, Sound', Quiet, Retained, Len(scopes') = Len(scopes) - 1
  PROVE  Firm' = SubSeq(Firm, 1, Len(AllNames) - 1)
<1>1. PICK f, g : f = Firm /\ g = Firm'
  OBVIOUS
<1>2. /\ f \in Seq(Int) /\ g \in Seq(Int) /\ Len(g) = Len(f) - 1 /\ Len(AllNames) = Len(f)
      /\ DOMAIN scopes = 1 .. Len(f) /\ DOMAIN scopes' = 1 .. Len(g)
  BY <1>1, Shape, ShapeNext DEF Shaped
<1>3. \A k \in 1 .. Len(g) : g[k] = f[k]
  <2>1. \A k \in 1 .. Len(g) : k \in DOMAIN scopes /\ k \in DOMAIN scopes'
    BY <1>2
  <2> QED BY <1>1, <2>1, QuietFirm
<1>4. f # <<>>
  BY <1>2
<1>5. g = SubSeq(f, 1, Len(f) - 1)
  BY <1>2, <1>3, <1>4, ShortenedBy
<1> QED BY <1>1, <1>2, <1>5

LEMMA FirmResets ==
  ASSUME Sound, Sound', Quiet, newSyms' = <<>>
  PROVE  /\ Len(scopes') = Len(scopes) => Firm' = Promise!Sizes
         /\ Len(scopes') = Len(scopes) + 1 => Firm' = Append(Promise!Sizes, 0)
<1>1. PICK f, g : f = Promise!Sizes /\ g = Firm'
  OBVIOUS
<1>2. Shaped /\ Shaped'
  BY Shape, ShapeNext
<1>3. /\ f \in Seq(Int) /\ Len(f) = Len(scopes) /\ Len(scopes) \in Nat
      /\ \A k \in 1 .. Len(scopes) : f[k] = Len(AllNames[k])
  <2>1. PICK a : a = AllNames
    OBVIOUS
  <2>2. a \in Seq(Seq(Name)) /\ Len(a) = Len(scopes) /\ Len(scopes) \in Nat
    BY <1>2, <2>1 DEF Shaped
  <2>3. f = [k \in DOMAIN a |-> Len(a[k])]
    BY <1>1, <2>1 DEF Promise!Sizes
  <2>4. \A k \in DOMAIN a : Len(a[k]) \in Int
    BY <2>2
  <2> QED BY <2>1, <2>2, <2>3, <2>4
<1>4. /\ g \in Seq(Int) /\ Len(g) = Len(scopes') /\ DOMAIN scopes = 1 .. Len(scopes)
      /\ DOMAIN scopes' = 1 .. Len(g)
  BY <1>1, <1>2 DEF Shaped
<1>5. \A k \in 1 .. Len(g) : g[k] = IF k \in 1 .. Len(f) THEN f[k] ELSE 0
  BY <1>1, <1>3, <1>4, ResetFirm
<1>6. ASSUME Len(scopes') = Len(scopes) PROVE g = f
  BY <1>3, <1>4, <1>5, <1>6, SeqEqual
<1>7. ASSUME Len(scopes') = Len(scopes) + 1 PROVE g = Append(f, 0)
  <2>1. Len(g) = Len(f) + 1
    BY <1>3, <1>4, <1>7
  <2>2. (\A k \in 1 .. Len(f) : g[k] = f[k]) /\ g[Len(f) + 1] = 0
    BY <1>3, <1>5, <2>1
  <2> QED BY <1>3, <1>4, <2>1, <2>2, GrownBy
<1> QED BY <1>1, <1>6, <1>7

\* What becomes of the symbols of the scopes when s comes in.
AddedTo(s, n) ==
  /\ DOMAIN scopes' = DOMAIN scopes /\ Len(scopes') = Len(scopes) /\ Len(scopes) \in DOMAIN scopes
  /\ \A j \in DOMAIN scopes :
       /\ s \notin In(j) /\ In(j)' = IF j = Len(scopes) THEN In(j) \cup {s} ELSE In(j)
       /\ scopes'[j].curOffset = scopes[j].curOffset + IF j = Len(scopes) THEN 1 ELSE 0
  /\ sym'[s].offset = scopes[Len(scopes)].curOffset /\ sym'[s].name = n
  /\ \A t \in SymId : t # s => /\ sym'[t].offset = sym[t].offset /\ sym'[t].name = sym[t].name
                               /\ sym'[t].type = sym[t].type

\* _NclAddSym does just that.
LEMMA AddSymAdded ==
  ASSUME TableInv, NEW s \in SymId, Freed(s), NEW n \in Name,
         NEW type \in {"UNDEF", "IFUNC"}, AddSym(s, n, type)
  PROVE  AddedTo(s, n) /\ sym'[s].type = type
<1>0. PICK k, h : k = Len(scopes) /\ h = scopes[k].thelist[Hash[n]]
  OBVIOUS
<1>1. /\ TableInv' /\ Len(scopes') = Len(scopes) /\ DOMAIN scopes' = DOMAIN scopes
      /\ k \in DOMAIN scopes /\ scopes[k] \in Scope /\ scopes[k].level = k
      /\ sym \in [SymId -> Symbol]
  <2>1. TableInv' /\ Len(scopes') = Len(scopes)
    BY AddSymKeeps
  <2>2. DOMAIN scopes' = DOMAIN scopes /\ k \in DOMAIN scopes
    BY <1>0, <2>1 DEF TableInv, TableTypes
  <2> QED BY <2>1, <2>2 DEF TableInv, TableTypes, Levels
<1>2. ~sym[s].open
  BY DEF TableInv, OpenSymbols, Freed
<1>3. /\ sym'[s].open /\ sym'[s].level = k /\ sym'[s].offset = scopes[k].curOffset
      /\ sym'[s].name = n /\ sym'[s].type = type
  BY <1>0, <1>1 DEF AddSym, NewSymbol, top
<1>4. \A t \in SymId : t # s =>
        /\ sym'[t].open = sym[t].open /\ sym'[t].level = sym[t].level
        /\ sym'[t].offset = sym[t].offset /\ sym'[t].name = sym[t].name
        /\ sym'[t].type = sym[t].type
  <2> SUFFICES ASSUME NEW t \in SymId, t # s
               PROVE  /\ sym'[t].open = sym[t].open /\ sym'[t].level = sym[t].level
                      /\ sym'[t].offset = sym[t].offset /\ sym'[t].name = sym[t].name
                      /\ sym'[t].type = sym[t].type
    OBVIOUS
  <2>1. sym[t] \in Symbol
    BY <1>1
  <2>2. sym'[t] = IF t = h THEN [sym[t] EXCEPT !.pre = s] ELSE sym[t]
    BY <1>0 DEF AddSym, top
  <2> QED BY <2>1, <2>2 DEF Symbol
<1>5. \A j \in DOMAIN scopes : scopes'[j].curOffset = scopes[j].curOffset + IF j = k THEN 1 ELSE 0
  <2>1. scopes' = [scopes EXCEPT ![k] = WithSymbol(scopes[k], s, Hash[n])]
    BY <1>0 DEF AddSym, top
  <2>2. WithSymbol(scopes[k], s, Hash[n]).curOffset = scopes[k].curOffset + 1
    BY DEF WithSymbol
  <2>3. \A j \in DOMAIN scopes : scopes[j].curOffset \in Nat
    <3>1. \A j \in DOMAIN scopes : scopes[j] \in Scope
      BY DEF TableInv, TableTypes
    <3> QED BY <3>1 DEF Scope
  <2>4. ASSUME NEW w, scopes' = [scopes EXCEPT ![k] = w], w.curOffset = scopes[k].curOffset + 1,
               NEW j \in DOMAIN scopes
        PROVE  scopes'[j].curOffset = scopes[j].curOffset + IF j = k THEN 1 ELSE 0
    BY <1>1, <2>3, <2>4
  <2> QED BY <2>1, <2>2, <2>4
<1>6. \A j \in DOMAIN scopes : \A t : t \in In(j) <=> t \in SymId /\ sym[t].open /\ sym[t].level = j
  BY InScope
<1>7. \A j \in DOMAIN scopes : \A t : t \in In(j)' <=> t \in SymId /\ sym'[t].open /\ sym'[t].level = j
  BY <1>1 DEF In, TableInv, Levels
<1>8. \A j \in DOMAIN scopes : s \notin In(j)
  BY <1>2, <1>6
<1>9. ASSUME NEW j \in DOMAIN scopes
      PROVE  In(j)' = IF j = k THEN In(j) \cup {s} ELSE In(j)
  <2>1. \A t : t \in In(j)' <=> t \in In(j) \/ (t = s /\ j = k)
    <3> TAKE t
    <3>1. CASE t = s
      BY <1>3, <1>7, <1>8, <3>1
    <3>2. CASE t # s
      BY <1>4, <1>6, <1>7, <3>2
    <3> QED BY <3>1, <3>2
  <2>2. CASE j = k
    <3>1. In(j)' = In(j) \cup {s}
      BY <2>1, <2>2
    <3> QED BY <2>2, <3>1
  <2>3. CASE j # k
    <3>1. In(j)' = In(j)
      BY <2>1, <2>3
    <3> QED BY <2>3, <3>1
  <2> QED BY <2>2, <2>3
<1> QED BY <1>0, <1>1, <1>3, <1>4, <1>5, <1>8, <1>9 DEF AddedTo

LEMMA AddedSound ==
  ASSUME Sound, NEW s \in SymId, Freed(s), NEW n \in Name, AddedTo(s, n), TableInv', ChainInv',
         newSyms' = Append(newSyms, s), sym'[s].type # "FREE"
  PROVE  Sound'
<1>1. TableInv /\ newSyms \in Seq(SymId)
  BY DEF Sound, TableInv, TableTypes
<1>2. Dense'
  <2> SUFFICES ASSUME NEW j \in DOMAIN scopes', NEW o \in 0 .. scopes'[j].curOffset - 1
               PROVE  \E t \in In(j)' : sym'[t].offset = o
    BY DEF Dense
  <2>1. /\ j \in DOMAIN scopes /\ scopes[j] \in Scope
        /\ scopes'[j].curOffset = scopes[j].curOffset + IF j = Len(scopes) THEN 1 ELSE 0
    BY <1>1 DEF AddedTo, TableInv, TableTypes
  <2>2. scopes[j].curOffset \in Nat
    BY <2>1 DEF Scope
  <2>3. CASE o \in 0 .. scopes[j].curOffset - 1
    <3>1. PICK t \in In(j) : sym[t].offset = o
      BY <2>1, <2>3 DEF Sound, Dense
    <3>2. t \in SymId /\ t # s /\ t \in In(j)'
      BY <2>1, <3>1 DEF AddedTo, In
    <3> QED BY <3>1, <3>2 DEF AddedTo
  <2>4. CASE o \notin 0 .. scopes[j].curOffset - 1
    <3>1. j = Len(scopes) /\ o = scopes[j].curOffset
      BY <2>1, <2>2, <2>4
    <3>2. s \in In(j)' /\ sym'[s].offset = o
      BY <2>1, <3>1 DEF AddedTo
    <3> QED BY <3>2
  <2> QED BY <2>3, <2>4
<1>3. Once'
  <2>1. \A i \in DOMAIN newSyms : newSyms[i] \in SymId /\ newSyms[i] # s
    BY <1>1 DEF Sound, Once
  <2>2. \A i \in DOMAIN newSyms' : newSyms'[i] = IF i \in DOMAIN newSyms THEN newSyms[i] ELSE s
    BY <1>1
  <2>3. \A i \in DOMAIN newSyms' : i \notin DOMAIN newSyms => i = Len(newSyms) + 1
    BY <1>1
  <2>4. \A i \in DOMAIN newSyms' : sym'[newSyms'[i]].type # "FREE"
    <3> TAKE i \in DOMAIN newSyms'
    <3>1. CASE i \in DOMAIN newSyms
      <4>1. sym[newSyms[i]].type # "FREE"
        BY <3>1 DEF Sound, Once, Freed
      <4> QED BY <2>1, <2>2, <3>1, <4>1 DEF AddedTo
    <3>2. CASE i \notin DOMAIN newSyms
      BY <2>2, <3>2
    <3> QED BY <3>1, <3>2
  <2>5. \A i, j \in DOMAIN newSyms' : newSyms'[i] = newSyms'[j] => i = j
    <3> TAKE i, j \in DOMAIN newSyms'
    <3>1. CASE i \in DOMAIN newSyms /\ j \in DOMAIN newSyms
      BY <2>2, <3>1 DEF Sound, Once
    <3>2. CASE i \notin DOMAIN newSyms \/ j \notin DOMAIN newSyms
      BY <2>1, <2>2, <2>3, <3>2
    <3> QED BY <3>1, <3>2
  <2> QED BY <2>4, <2>5 DEF Once, Freed
<1> QED BY <1>2, <1>3 DEF Sound

\* A new name comes in at the end of the innermost scope and is not firm.
LEMMA AddedNames ==
  ASSUME Sound, Sound', NEW s \in SymId, NEW n \in Name, AddedTo(s, n),
         newSyms' = Append(newSyms, s)
  PROVE  /\ AllNames' = [AllNames EXCEPT ![Len(AllNames)] = Append(@, n)]
         /\ Firm' = Firm
<1>0. PICK k, f, g, p, q : k = Len(scopes) /\ f = AllNames /\ g = AllNames' /\ p = Firm /\ q = Firm'
  OBVIOUS
<1>1. NamesRight /\ NamesRight' /\ Shaped /\ Shaped' /\ newSyms \in Seq(SymId)
  BY SoundNames, SoundNamesNext, Shape, ShapeNext DEF Sound, TableInv, TableTypes
<1>2. /\ f \in Seq(Seq(Name)) /\ g \in Seq(Seq(Name)) /\ Len(f) = k /\ Len(g) = k
      /\ p \in Seq(Int) /\ q \in Seq(Int) /\ Len(p) = k /\ Len(q) = k
      /\ k \in Nat /\ DOMAIN scopes = 1 .. k /\ k \in 1 .. k
      /\ \A j \in 1 .. k : f[j] = NamesOf(j) /\ g[j] = NamesOf(j)'
  BY <1>0, <1>1 DEF Shaped, AddedTo
<1>3. \A j \in 1 .. k : j # k => g[j] = f[j]
  <2> SUFFICES ASSUME NEW j \in 1 .. k, j # k PROVE g[j] = f[j]
    OBVIOUS
  <2>1. /\ j \in DOMAIN scopes /\ j \in DOMAIN scopes' /\ In(j)' = In(j)
        /\ scopes[j].curOffset \in Nat
        /\ scopes'[j].curOffset = scopes[j].curOffset
    <3>1. j \in DOMAIN scopes /\ j # Len(scopes)
      BY <1>0, <1>2
    <3>2. scopes[j].curOffset \in Nat
      BY <1>1, <3>1 DEF NamesRight
    <3>3. /\ j \in DOMAIN scopes' /\ In(j)' = In(j)
          /\ scopes'[j].curOffset = scopes[j].curOffset + 0
      BY <3>1, Zenon DEF AddedTo
    <3> QED BY <3>1, <3>2, <3>3
  <2>2. \A t \in In(j) : sym'[t].offset = sym[t].offset /\ sym'[t].name = sym[t].name
    BY <2>1 DEF AddedTo, In
  <2>3. NamesOf(j)' = NamesOf(j)
    BY <1>1, <2>1, <2>2, SameScope
  <2> QED BY <1>2, <2>3
<1>4. g[k] = Append(f[k], n)
  <2>1. PICK a, b, c : a = f[k] /\ b = g[k] /\ c = scopes[k].curOffset
    OBVIOUS
  <2>2. /\ c \in Nat /\ a \in Seq(Name) /\ Len(a) = c
        /\ \A t \in In(k) : a[sym[t].offset + 1] = sym[t].name
        /\ \A i \in 1 .. c : \E t \in In(k) : sym[t].offset + 1 = i
    <3>1. k \in DOMAIN scopes /\ a = NamesOf(k)
      BY <1>2, <2>1
    <3>2. NamesRight
      BY <1>1
    <3> QED BY <2>1, <3>1, <3>2 DEF NamesRight
  <2>3. k \in DOMAIN scopes' /\ scopes'[k].curOffset = c + 1 /\ In(k)' = In(k) \cup {s} /\ s \notin In(k)
    BY <1>0, <1>2, <2>1 DEF AddedTo
  <2>4. /\ b \in Seq(Name) /\ Len(b) = c + 1
        /\ \A t \in In(k)' : b[sym'[t].offset + 1] = sym'[t].name
    <3>1. k \in DOMAIN scopes' /\ b = NamesOf(k)'
      BY <1>2, <2>1, <2>3
    <3>2. NamesRight'
      BY <1>1
    <3> QED BY <2>3, <3>1, <3>2 DEF NamesRight
  <2>5. b[c + 1] = n
    BY <1>0, <2>1, <2>3, <2>4 DEF AddedTo
  <2>6. \A t \in In(k) : b[sym[t].offset + 1] = sym[t].name
    <3> TAKE t \in In(k)
    <3>1. t \in SymId /\ t # s /\ t \in In(k)'
      BY <2>3 DEF In
    <3> QED BY <2>4, <3>1 DEF AddedTo
  <2>7. \A i \in 1 .. Len(a) : b[i] = a[i]
    <3> TAKE i \in 1 .. Len(a)
    <3>1. PICK t \in In(k) : sym[t].offset + 1 = i
      BY <2>2
    <3> QED BY <2>2, <2>6, <3>1
  <2>8. b = Append(a, n)
    BY <2>2, <2>4, <2>5, <2>7, GrownBy
  <2> QED BY <2>1, <2>8
<1>5. g = [f EXCEPT ![k] = Append(@, n)]
  <2> DEFINE e == Append(f[k], n)
  <2>1. e \in Seq(Name) /\ g[k] = e
    BY <1>2, <1>4
  <2> HIDE DEF e
  <2>2. PICK h : h = [f EXCEPT ![k] = e]
    OBVIOUS
  <2>3. h \in Seq(Seq(Name)) /\ Len(h) = k /\ \A j \in 1 .. k : h[j] = IF j = k THEN e ELSE f[j]
    BY <1>2, <2>1, <2>2
  <2>4. \A j \in 1 .. Len(g) : g[j] = h[j]
    BY <1>2, <1>3, <2>1, <2>3
  <2>5. g = h
    BY <1>2, <2>3, <2>4, SeqEqual
  <2> QED BY <2>2, <2>5 DEF e
<1>6. \A j \in 1 .. k : q[j] = p[j]
  <2> SUFFICES ASSUME NEW j \in 1 .. k PROVE q[j] = p[j]
    OBVIOUS
  <2>1. PICK m : m = Len(newSyms) + 1
    OBVIOUS
  <2>2. /\ DOMAIN newSyms' = DOMAIN newSyms \cup {m} /\ m \notin DOMAIN newSyms /\ newSyms'[m] = s
        /\ \A i \in DOMAIN newSyms : newSyms'[i] = newSyms[i] /\ newSyms[i] \in SymId
    BY <1>1, <2>1
  <2>3. \A i : i \in NewIn(j)' <=> i \in DOMAIN newSyms' /\ newSyms'[i] \in In(j)'
    BY DEF NewIn
  <2>4. \A i : i \in NewIn(j) <=> i \in DOMAIN newSyms /\ newSyms[i] \in In(j)
    BY DEF NewIn
  <2>5. /\ j \in DOMAIN scopes /\ s \notin In(j) /\ In(j)' = IF j = k THEN In(j) \cup {s} ELSE In(j)
        /\ scopes'[j].curOffset = scopes[j].curOffset + IF j = k THEN 1 ELSE 0
    BY <1>0, <1>2 DEF AddedTo
  <2>6. \A i \in DOMAIN newSyms : newSyms[i] = s => s \notin In(j)
    BY <2>5
  <2>7. /\ IsFiniteSet(NewIn(j)) /\ Cardinality(NewIn(j)) \in Nat /\ scopes[j].curOffset \in Nat
        /\ p[j] = scopes[j].curOffset - Cardinality(NewIn(j))
        /\ q[j] = scopes'[j].curOffset - Cardinality(NewIn(j)')
    BY <1>0, <1>1, <2>5 DEF Shaped, AddedTo
  <2>8. CASE j = k
    <3>1. ASSUME NEW i \in DOMAIN newSyms PROVE newSyms[i] # s \/ s \notin In(j)
      BY <2>5
    <3>2. ASSUME NEW i \in DOMAIN newSyms, newSyms[i] = s PROVE FALSE
      <4>1. newSyms'[i] = s /\ i \in DOMAIN newSyms' /\ m \in DOMAIN newSyms' /\ newSyms'[m] = s
        BY <2>2, <3>2
      <4>2. i = m
        BY <4>1 DEF Sound, Once
      <4> QED BY <2>2, <4>2
    <3>3. \A i : i \in NewIn(j)' <=> i \in NewIn(j) \/ i = m
      BY <2>2, <2>3, <2>4, <2>5, <2>8, <3>2
    <3>4. NewIn(j)' = NewIn(j) \cup {m} /\ m \notin NewIn(j)
      <4>1. m \notin NewIn(j)
        BY <2>2, <2>4
      <4> QED BY <3>3, <4>1
    <3>5. Cardinality(NewIn(j)') = Cardinality(NewIn(j)) + 1
      BY <2>7, <3>4, FS_AddElement
    <3>6. scopes'[j].curOffset = scopes[j].curOffset + 1
      BY <2>5, <2>8
    <3>7. PICK C, D, o : /\ C = Cardinality(NewIn(j)) /\ D = Cardinality(NewIn(j)')
                         /\ o = scopes[j].curOffset
      OBVIOUS
    <3>8. C \in Nat /\ D = C + 1 /\ p[j] = o - C /\ q[j] = scopes'[j].curOffset - D /\ o \in Nat
      BY <2>7, <3>5, <3>7, Zenon
    <3>9. q[j] = (o + 1) - D
      BY <3>6, <3>7, <3>8, Zenon
    <3>10. (o + 1) - D = o - C
      BY <3>8
    <3> QED BY <3>8, <3>9, <3>10, Zenon
  <2>9. CASE j # k
    <3>1. \A i : i \in NewIn(j)' <=> i \in NewIn(j)
      BY <2>2, <2>3, <2>4, <2>5, <2>9
    <3>2. NewIn(j)' = NewIn(j)
      BY <3>1
    <3> QED BY <2>5, <2>7, <2>9, <3>2
  <2> QED BY <2>8, <2>9
<1>7. q = p
  BY <1>2, <1>6, SeqEqual
<1> QED BY <1>0, <1>2, <1>5, <1>7

\* What becomes of the symbols of the scopes when the newest is taken back.
TakenFrom(s, k) ==
  /\ DOMAIN scopes' = DOMAIN scopes /\ Len(scopes') = Len(scopes) /\ k \in DOMAIN scopes /\ s \in In(k)
  /\ \A j \in DOMAIN scopes :
       /\ In(j)' = In(j) \ {s}
       /\ j # k => s \notin In(j)
       /\ scopes'[j].curOffset = IF j = k THEN sym[s].offset ELSE scopes[j].curOffset
  /\ \A t \in SymId : t # s => /\ sym'[t].offset = sym[t].offset /\ sym'[t].name = sym[t].name
                               /\ sym'[t].type = sym[t].type
  /\ \A t \in In(k) : t # s => sym[t].offset < sym[s].offset

\* _NclDeleteSym does just that: the newest symbol of a scope is its last.
LEMMA DeleteSymTakes ==
  ASSUME TableInv, newSyms # <<>>, NEW s, s = newSyms[Len(newSyms)],
         sym[s].open, DeleteSym(s, sym[s].level),
         newSyms' = SubSeq(newSyms, 1, Len(newSyms) - 1)
  PROVE  TakenFrom(s, sym[s].level)
<1>0. PICK k, c : k = sym[s].level /\ c = Hash[sym[s].name]
  OBVIOUS
<1>1. /\ TableInv' /\ Len(scopes') = Len(scopes) /\ DOMAIN scopes' = DOMAIN scopes
      /\ s \in SymId /\ k \in DOMAIN scopes /\ scopes[k] \in Scope /\ scopes[k].level = k
      /\ sym \in [SymId -> Symbol]
  <2>1. TableInv' /\ Len(scopes') = Len(scopes)
    BY DeleteSymKeeps
  <2>2. DOMAIN scopes' = DOMAIN scopes
    BY <2>1 DEF TableInv, TableTypes
  <2>3. s \in SymId /\ sym \in [SymId -> Symbol]
    BY DEF TableInv, TableTypes
  <2>4. k \in DOMAIN scopes
    BY <1>0, <2>3 DEF TableInv, OpenSymbols
  <2>5. scopes[k] \in Scope /\ scopes[k].level = k
    BY <2>4 DEF TableInv, TableTypes, Levels
  <2> QED BY <2>1, <2>2, <2>3, <2>4, <2>5
<1>2. s \in In(k)
  BY <1>0, <1>1, InScope
<1>3. \A t \in In(k) : t # s => sym[t].offset < sym[s].offset
  <2> SUFFICES ASSUME NEW t \in In(k), t # s PROVE sym[t].offset < sym[s].offset
    OBVIOUS
  <2>1. t \in SymId /\ sym[t].open /\ sym[t].level = k /\ sym[t].offset \in Nat
    BY <1>1, InScope
  <2>2. sym[s].offset \in Nat
    BY <1>1, <1>2, InScope
  <2>3. sym[t].offset # sym[s].offset
    BY <1>1, <1>2 DEF TableInv, SlotsDistinct
  <2>4. ~(sym[t].offset > sym[s].offset)
    <3>1. newSyms \in Seq(SymId) /\ Len(newSyms) \in DOMAIN newSyms
      BY DEF TableInv, TableTypes
    <3>2. \A j \in DOMAIN newSyms : ~(j > Len(newSyms))
      BY <3>1
    <3> QED BY <1>0, <1>1, <2>1, <3>1, <3>2 DEF TableInv, RollbackOrder
  <2> QED BY <2>1, <2>2, <2>3, <2>4
<1>4. ~sym'[s].open
  BY <1>1 DEF DeleteSym, Unlink, FreeCell
<1>5. \A t \in SymId : t # s =>
        /\ sym'[t].open = sym[t].open /\ sym'[t].level = sym[t].level
        /\ sym'[t].offset = sym[t].offset /\ sym'[t].name = sym[t].name
        /\ sym'[t].type = sym[t].type
  <2> SUFFICES ASSUME NEW t \in SymId, t # s
               PROVE  /\ sym'[t].open = sym[t].open /\ sym'[t].level = sym[t].level
                      /\ sym'[t].offset = sym[t].offset /\ sym'[t].name = sym[t].name
                      /\ sym'[t].type = sym[t].type
    OBVIOUS
  <2>1. sym[t] \in Symbol
    BY <1>1
  <2>2. \/ sym'[t] = [sym[t] EXCEPT !.next = sym[s].next]
        \/ sym'[t] = [sym[t] EXCEPT !.pre = sym[s].pre]
        \/ sym'[t] = sym[t]
    BY DEF DeleteSym, Unlink
  <2> QED BY <2>1, <2>2 DEF Symbol
<1>6. \A j \in DOMAIN scopes :
        scopes'[j].curOffset = IF j = k THEN sym[s].offset ELSE scopes[j].curOffset
  <2>1. scopes' = [scopes EXCEPT ![k] = WithoutSymbol(scopes[k], s, c)]
    BY <1>0 DEF DeleteSym
  <2>2. WithoutSymbol(scopes[k], s, c).curOffset = sym[s].offset
    BY DEF WithoutSymbol, OffsetBefore
  <2>3. ASSUME NEW w, scopes' = [scopes EXCEPT ![k] = w], w.curOffset = sym[s].offset,
               NEW j \in DOMAIN scopes
        PROVE  scopes'[j].curOffset = IF j = k THEN sym[s].offset ELSE scopes[j].curOffset
    BY <1>1, <2>3
  <2> QED BY <2>1, <2>2, <2>3
<1>7. \A j \in DOMAIN scopes : \A t : t \in In(j) <=> t \in SymId /\ sym[t].open /\ sym[t].level = j
  BY InScope
<1>8. \A j \in DOMAIN scopes : \A t : t \in In(j)' <=> t \in SymId /\ sym'[t].open /\ sym'[t].level = j
  BY <1>1 DEF In, TableInv, Levels
<1>9. \A j \in DOMAIN scopes : j # k => s \notin In(j)
  BY <1>0, <1>7
<1>10. ASSUME NEW j \in DOMAIN scopes PROVE In(j)' = In(j) \ {s}
  <2>1. \A t : t \in In(j)' <=> t \in In(j) /\ t # s
    BY <1>4, <1>5, <1>7, <1>8
  <2> QED BY <2>1
<1> QED BY <1>0, <1>1, <1>2, <1>3, <1>5, <1>6, <1>9, <1>10 DEF TakenFrom

\* The newest symbol of a scope has the last offset.
LEMMA LastOffset ==
  ASSUME Sound, NEW s, NEW k, TakenFrom(s, k)
  PROVE  /\ sym[s].offset \in Nat /\ scopes[k].curOffset = sym[s].offset + 1
         /\ s \in SymId /\ k \in DOMAIN scopes /\ k \in DOMAIN scopes'
         /\ scopes'[k].curOffset = sym[s].offset
<1>1. s \in In(k) /\ k \in DOMAIN scopes /\ k \in DOMAIN scopes' /\ scopes'[k].curOffset = sym[s].offset
  BY DEF TakenFrom
<1>2. PICK o, c : o = sym[s].offset /\ c = scopes[k].curOffset
  OBVIOUS
<1>3. o \in Nat /\ o < c
  BY <1>1, <1>2, InScope DEF Sound, TableInv, SlotsDistinct
<1>4. c \in Nat
  <2>1. scopes[k] \in Scope
    BY <1>1 DEF Sound, TableInv, TableTypes
  <2> QED BY <1>2, <2>1 DEF Scope
<1>5. PICK t \in In(k) : sym[t].offset = c - 1
  <2>1. c - 1 \in 0 .. c - 1
    BY <1>3, <1>4
  <2> QED BY <1>1, <1>2, <2>1 DEF Sound, Dense
<1>6. t # s => c - 1 < o
  BY <1>2, <1>5 DEF TakenFrom
<1>7. o = c - 1
  BY <1>2, <1>3, <1>4, <1>5, <1>6
<1> QED BY <1>1, <1>2, <1>3, <1>4, <1>7 DEF In

LEMMA TakenSound ==
  ASSUME Sound, newSyms # <<>>, NEW s, s = newSyms[Len(newSyms)], NEW k, TakenFrom(s, k),
         TableInv', ChainInv', newSyms' = SubSeq(newSyms, 1, Len(newSyms) - 1)
  PROVE  Sound'
<1>1. TableInv /\ newSyms \in Seq(SymId)
  BY DEF Sound, TableInv, TableTypes
<1>2. Dense'
  <2> SUFFICES ASSUME NEW j \in DOMAIN scopes', NEW o \in 0 .. scopes'[j].curOffset - 1
               PROVE  \E t \in In(j)' : sym'[t].offset = o
    BY DEF Dense
  <2>1. /\ j \in DOMAIN scopes /\ In(j)' = In(j) \ {s}
        /\ scopes'[j].curOffset = IF j = k THEN sym[s].offset ELSE scopes[j].curOffset
        /\ j # k => s \notin In(j)
    BY DEF TakenFrom
  <2>2. sym[s].offset \in Nat /\ scopes[k].curOffset = sym[s].offset + 1
    BY LastOffset
  <2>3. o \in 0 .. scopes[j].curOffset - 1 /\ (j = k => o # sym[s].offset)
    BY <2>1, <2>2
  <2>4. PICK t \in In(j) : sym[t].offset = o
    BY <2>1, <2>3 DEF Sound, Dense
  <2>5. t # s /\ t \in SymId
    BY <2>1, <2>3, <2>4 DEF In
  <2>6. t \in In(j)' /\ sym'[t].offset = o
    BY <2>1, <2>4, <2>5 DEF TakenFrom
  <2> QED BY <2>6
<1>3. Once'
  <2>1. /\ Len(newSyms') = Len(newSyms) - 1 /\ newSyms' \in Seq(SymId)
        /\ \A i \in DOMAIN newSyms' : i \in DOMAIN newSyms /\ newSyms'[i] = newSyms[i]
    BY <1>1, FrontOf
  <2>2. \A i \in DOMAIN newSyms' : i # Len(newSyms) /\ newSyms[i] \in SymId
    BY <1>1, <2>1
  <2>3. Len(newSyms) \in DOMAIN newSyms
    BY <1>1
  <2>4. \A i \in DOMAIN newSyms' : newSyms[i] # s
    BY <2>1, <2>2, <2>3 DEF Sound, Once
  <2>5. \A i \in DOMAIN newSyms' : sym[newSyms[i]].type # "FREE"
    BY <2>1 DEF Sound, Once, Freed
  <2>6. \A i \in DOMAIN newSyms' : sym'[newSyms'[i]].type # "FREE"
    <3> TAKE i \in DOMAIN newSyms'
    <3>1. PICK t : t = newSyms[i]
      OBVIOUS
    <3>2. t \in SymId /\ t # s /\ sym[t].type # "FREE" /\ newSyms'[i] = t
      BY <2>1, <2>2, <2>4, <2>5, <3>1
    <3> QED BY <3>2 DEF TakenFrom
  <2> QED BY <2>1, <2>6 DEF Sound, Once, Freed
<1> QED BY <1>2, <1>3 DEF Sound

\* The newest name leaves the end of its scope, where it was not firm.
LEMMA TakenNames ==
  ASSUME Sound, Sound', newSyms # <<>>, NEW s, s = newSyms[Len(newSyms)], NEW k, TakenFrom(s, k),
         newSyms' = SubSeq(newSyms, 1, Len(newSyms) - 1)
  PROVE  /\ k \in DOMAIN AllNames /\ Len(AllNames[k]) > Firm[k]
         /\ AllNames' = [AllNames EXCEPT ![k] = SubSeq(@, 1, Len(@) - 1)]
         /\ Firm' = Firm
<1>0. PICK l, f, g, p, q : l = Len(scopes) /\ f = AllNames /\ g = AllNames' /\ p = Firm /\ q = Firm'
  OBVIOUS
<1>1. NamesRight /\ NamesRight' /\ Shaped /\ Shaped' /\ newSyms \in Seq(SymId)
  BY SoundNames, SoundNamesNext, Shape, ShapeNext DEF Sound, TableInv, TableTypes
<1>2. /\ f \in Seq(Seq(Name)) /\ g \in Seq(Seq(Name)) /\ Len(f) = l /\ Len(g) = l
      /\ p \in Seq(Int) /\ q \in Seq(Int) /\ Len(p) = l /\ Len(q) = l
      /\ l \in Nat /\ DOMAIN scopes = 1 .. l /\ k \in 1 .. l
      /\ \A j \in 1 .. l : f[j] = NamesOf(j) /\ g[j] = NamesOf(j)'
  BY <1>0, <1>1 DEF Shaped, TakenFrom
<1>20. /\ sym[s].offset \in Nat /\ scopes[k].curOffset = sym[s].offset + 1
       /\ s \in SymId /\ k \in DOMAIN scopes /\ k \in DOMAIN scopes'
       /\ scopes'[k].curOffset = sym[s].offset
  BY LastOffset
<1>3. \A j \in 1 .. l : j # k => g[j] = f[j]
  <2> SUFFICES ASSUME NEW j \in 1 .. l, j # k PROVE g[j] = f[j]
    OBVIOUS
  <2>1. j \in DOMAIN scopes /\ j \in DOMAIN scopes' /\ s \notin In(j) /\ In(j)' = In(j) \ {s}
        /\ scopes'[j].curOffset = scopes[j].curOffset
    BY <1>2 DEF TakenFrom
  <2>2. In(j)' = In(j)
    BY <2>1
  <2>3. \A t \in In(j) : sym'[t].offset = sym[t].offset /\ sym'[t].name = sym[t].name
    BY <2>1 DEF TakenFrom, In
  <2>4. NamesOf(j)' = NamesOf(j)
    BY <1>1, <2>1, <2>2, <2>3, SameScope
  <2> QED BY <1>2, <2>4
<1>4. g[k] = SubSeq(f[k], 1, Len(f[k]) - 1) /\ Len(f[k]) = scopes[k].curOffset
  <2>1. PICK a, b, c : a = f[k] /\ b = g[k] /\ c = scopes[k].curOffset
    OBVIOUS
  <2>2. /\ c \in Nat /\ a \in Seq(Name) /\ Len(a) = c
        /\ \A t \in In(k) : a[sym[t].offset + 1] = sym[t].name
    <3>1. k \in DOMAIN scopes /\ a = NamesOf(k)
      BY <1>2, <2>1
    <3>2. NamesRight
      BY <1>1
    <3> QED BY <2>1, <3>1, <3>2 DEF NamesRight
  <2>3. In(k)' = In(k) \ {s} /\ scopes'[k].curOffset = c - 1
    BY <1>20, <2>1 DEF TakenFrom
  <2>4. /\ b \in Seq(Name) /\ Len(b) = c - 1
        /\ \A t \in In(k)' : b[sym'[t].offset + 1] = sym'[t].name
        /\ \A i \in 1 .. c - 1 : \E t \in In(k)' : sym'[t].offset + 1 = i
    <3>1. k \in DOMAIN scopes' /\ b = NamesOf(k)'
      BY <1>2, <1>20, <2>1
    <3>2. NamesRight'
      BY <1>1
    <3> QED BY <2>3, <3>1, <3>2 DEF NamesRight
  <2>5. \A i \in 1 .. Len(b) : b[i] = a[i]
    <3> TAKE i \in 1 .. Len(b)
    <3>1. PICK t \in In(k)' : sym'[t].offset + 1 = i
      BY <2>4
    <3>2. t \in In(k) /\ t # s /\ t \in SymId
      BY <2>3 DEF In
    <3>3. sym'[t].offset = sym[t].offset /\ sym'[t].name = sym[t].name
      BY <3>2 DEF TakenFrom
    <3> QED BY <2>2, <2>4, <3>1, <3>2, <3>3
  <2>6. a # <<>>
    BY <1>20, <2>1, <2>2
  <2>7. b = SubSeq(a, 1, Len(a) - 1)
    BY <2>2, <2>4, <2>5, <2>6, ShortenedBy
  <2> QED BY <2>1, <2>2, <2>7
<1>5. g = [f EXCEPT ![k] = SubSeq(@, 1, Len(@) - 1)]
  <2> DEFINE e == SubSeq(f[k], 1, Len(f[k]) - 1)
  <2>0. g[k] \in Seq(Name)
    BY <1>2
  <2>1. g[k] \in Seq(Name) /\ g[k] = e
    BY <1>4, <2>0
  <2> HIDE DEF e
  <2>2. PICK h : h = [f EXCEPT ![k] = e]
    OBVIOUS
  <2>3. h \in Seq(Seq(Name)) /\ Len(h) = l /\ \A j \in 1 .. l : h[j] = IF j = k THEN e ELSE f[j]
    BY <1>2, <2>1, <2>2
  <2>4. \A j \in 1 .. Len(g) : g[j] = h[j]
    BY <1>2, <1>3, <2>1, <2>3
  <2>5. g = h
    BY <1>2, <2>3, <2>4, SeqEqual
  <2> QED BY <2>2, <2>5 DEF e
<1>6. PICK m : m = Len(newSyms)
  OBVIOUS
<1>7. /\ m \in DOMAIN newSyms /\ newSyms[m] = s
      /\ \A i : i \in DOMAIN newSyms' <=> i \in DOMAIN newSyms /\ i # m
      /\ \A i \in DOMAIN newSyms' : newSyms'[i] = newSyms[i]
  <2>1. /\ Len(newSyms') = Len(newSyms) - 1 /\ newSyms' \in Seq(SymId)
        /\ \A i \in DOMAIN newSyms' : i \in DOMAIN newSyms /\ newSyms'[i] = newSyms[i]
    BY <1>1, FrontOf
  <2> QED BY <1>1, <1>6, <2>1
<1>8. \A i \in DOMAIN newSyms' : newSyms[i] # s
  BY <1>7 DEF Sound, Once
<1>9. \A j \in DOMAIN scopes : \A i : i \in NewIn(j)' <=> i \in NewIn(j) /\ i # m
  <2> TAKE j \in DOMAIN scopes
  <2>1. In(j)' = In(j) \ {s}
    BY DEF TakenFrom
  <2> QED BY <1>7, <1>8, <2>1 DEF NewIn
<1>10. \A j \in DOMAIN scopes :
         /\ IsFiniteSet(NewIn(j)) /\ Cardinality(NewIn(j)) \in Nat /\ scopes[j].curOffset \in Nat
         /\ p[j] = scopes[j].curOffset - Cardinality(NewIn(j))
         /\ q[j] = scopes'[j].curOffset - Cardinality(NewIn(j)')
  BY <1>0, <1>1 DEF Shaped, TakenFrom
<1>11. m \in NewIn(k) /\ Cardinality(NewIn(k)) # 0
  <2>1. m \in NewIn(k)
    BY <1>7 DEF NewIn, TakenFrom
  <2> QED BY <1>10, <1>20, <2>1, FS_EmptySet
<1>12. \A j \in 1 .. l : q[j] = p[j]
  <2> SUFFICES ASSUME NEW j \in 1 .. l PROVE q[j] = p[j]
    OBVIOUS
  <2>0. PICK C, D, o : /\ C = Cardinality(NewIn(j)) /\ D = Cardinality(NewIn(j)')
                       /\ o = scopes[j].curOffset
    OBVIOUS
  <2>1. j \in DOMAIN scopes
    BY <1>2
  <2>2. IsFiniteSet(NewIn(j)) /\ C \in Nat /\ o \in Nat /\ p[j] = o - C /\ q[j] = scopes'[j].curOffset - D
    BY <1>10, <2>0, <2>1, Zenon
  <2>3. CASE j = k
    <3>1. NewIn(j)' = NewIn(j) \ {m}
      <4>1. \A i : i \in NewIn(j)' <=> i \in NewIn(j) \ {m}
        BY <1>9, <2>1
      <4> QED BY <4>1
    <3>2. D = C - 1
      BY <1>11, <2>0, <2>2, <2>3, <3>1, FS_RemoveElement
    <3>3. scopes'[j].curOffset = o - 1
      BY <1>20, <2>0, <2>3
    <3> QED BY <2>2, <3>2, <3>3
  <2>4. CASE j # k
    <3>1. NewIn(j)' = NewIn(j)
      <4>1. m \notin NewIn(j)
        BY <1>7, <2>1, <2>4 DEF NewIn, TakenFrom
      <4>2. \A i : i \in NewIn(j)' <=> i \in NewIn(j)
        BY <1>9, <2>1, <4>1
      <4> QED BY <4>2
    <3>2. scopes'[j].curOffset = o
      BY <2>0, <2>1, <2>4 DEF TakenFrom
    <3> QED BY <2>0, <2>2, <3>1, <3>2
  <2> QED BY <2>3, <2>4
<1>13. q = p
  BY <1>2, <1>12, SeqEqual
<1>14. k \in DOMAIN f /\ Len(f[k]) > p[k]
  <2>1. PICK C : C = Cardinality(NewIn(k))
    OBVIOUS
  <2>2. C \in Nat /\ C # 0 /\ scopes[k].curOffset \in Nat /\ p[k] = scopes[k].curOffset - C
    BY <1>10, <1>11, <1>20, <2>1, Zenon
  <2>3. Len(f[k]) = scopes[k].curOffset /\ k \in DOMAIN f
    BY <1>2, <1>4
  <2> QED BY <2>2, <2>3
<1> QED BY <1>0, <1>5, <1>13, <1>14

-----------------------------------------------------------------------------
(* Names a scope does not have yet *)

\* A definition's scope has its arguments and locals, that of a library what it
\* has registered.
OwnTypes ==
  /\ cur.kind = "head" => \A s \in In(top) : sym[s].type = "UNDEF"
  /\ doing = "load" => \A s \in In(top) : sym[s].type = "IFUNC"

\* _NclLookUp finds the names of the innermost scope first.
LEMMA InnermostFound ==
  ASSUME TableInv, ChainInv, NEW n \in Name, NEW t \in In(top), sym[t].name = n
  PROVE  LookUp(n) \in In(top) /\ LookUp(n) # NoSym
<1>1. top \in DOMAIN scopes /\ DOMAIN scopes = 1 .. top /\ top \in Nat /\ Hash[n] \in Bucket
  BY HashAssumption DEF TableInv, TableTypes, top
<1>2. Named(n, top) \subseteq In(top) /\ t \in Named(n, top)
  <2>1. Chain(scopes[top], Hash[n]) = On(top, Hash[n])
    BY <1>1, ChainFound
  <2>2. On(top, Hash[n]) \subseteq In(top) /\ t \in On(top, Hash[n])
    BY DEF On
  <2> QED BY <2>1, <2>2 DEF Named
<1> DEFINE holders == {k \in DOMAIN scopes : Named(n, k) # {}}
           found == UNION {Named(n, k) : k \in {h \in holders : \A j \in holders : j <= h}}
<1>3. \A k : k \in {h \in holders : \A j \in holders : j <= h} <=> k = top
  BY <1>1, <1>2
<1>4. \A s : s \in found <=> s \in Named(n, top)
  <2>1. {h \in holders : \A j \in holders : j <= h} = {top}
    BY <1>3
  <2> HIDE DEF holders
  <2> QED BY <2>1
<1>5. LookUp(n) = IF found = {} THEN NoSym ELSE CHOOSE s \in found : TRUE
  BY DEF LookUp
<1> HIDE DEF holders, found
<1>6. LookUp(n) \in found
  BY <1>2, <1>4, <1>5
<1>7. LookUp(n) \in In(top)
  BY <1>2, <1>4, <1>6
<1> QED BY <1>1, <1>7, InScope

\* The innermost statement after a step that opens no scope and adds no symbol.
LEMMA AppendedLast ==
  ASSUME NEW S, NEW q \in Seq(S), NEW e \in S, stmts' = Append(q, e)
  PROVE  cur' = e
<1>1. Len(stmts') = Len(q) + 1 /\ stmts'[Len(q) + 1] = e
  OBVIOUS
<1> QED BY <1>1 DEF cur

LEMMA ReplacedLast ==
  ASSUME StatementTypes, NEW e, stmts' = [stmts EXCEPT ![Len(stmts)] = e]
  PROVE  cur' = e
<1>1. Len(stmts) \in DOMAIN stmts /\ Len(stmts') = Len(stmts)
  BY DEF StatementTypes
<1> QED BY <1>1 DEF cur

LEMMA ReferLast ==
  ASSUME StatementTypes, NEW s, NEW new, Refer(s, new)
  PROVE  cur'.kind = "head" => cur.kind = "head"
<1>1. cur \in StatementRecord
  BY DEF StatementTypes, cur
<1>2. PICK e : e = Mention(cur, s, new)
  OBVIOUS
<1>3. e.kind = "head" => cur.kind = "head"
  BY <1>1, <1>2 DEF Mention, StatementRecord
<1>4. stmts' = [stmts EXCEPT ![Len(stmts)] = e]
  BY <1>2 DEF Refer, cur
<1>5. cur' = e
  BY <1>4, ReplacedLast
<1> QED BY <1>3, <1>5

Elsewhere == cur'.kind # "head" /\ doing' # "load"

LEMMA LexElsewhere ==
  ASSUME IInv, NEW n \in Name, Lex(n)
  PROVE  Elsewhere
<1>1. StatementTypes /\ doing' = "parse" /\ cur.kind # "head"
  BY DEF Lex, Parsing, IInv
<1>2. CASE UNCHANGED stmts
  BY <1>1, <1>2 DEF cur, Elsewhere
<1>3. ASSUME NEW s, NEW new, Refer(s, new) PROVE cur'.kind # "head"
  BY <1>1, <1>3, ReferLast
<1>4. UNCHANGED stmts \/ (\E s : Refer(s, TRUE)) \/ \E s : Refer(s, FALSE)
  BY DEF Lex, Adding, ReferNew
<1> QED BY <1>1, <1>2, <1>3, <1>4 DEF Elsewhere

LEMMA ParsedElsewhere ==
  ASSUME IInv, AcceptHead \/ OpenBlock \/ SyntaxError \/ EndLine \/ NextBranch \/ CloseBlock
               \/ CloseDef \/ EndStatement \/ DropLine \/ DropStatement \/ CloseLibrary
               \/ \E s \in SymId : LibraryFails(s)
  PROVE  Elsewhere
<1>1. /\ StatementTypes /\ stmts \in Seq(StatementRecord) /\ Len(stmts) \in Nat /\ Len(stmts) > 0
      /\ cur \in StatementRecord
  BY DEF IInv, StatementTypes, cur
<1>2. PICK plain, failed : /\ plain = Statement("plain") /\ failed = Statement("failed")
                           /\ plain \in StatementRecord /\ plain.kind = "plain"
                           /\ failed \in StatementRecord /\ failed.kind = "failed"
  BY NewStatement
<1>3. CASE AcceptHead
  <2> DEFINE rec == [cur EXCEPT !.kind = "def"]
  <2>1. rec \in StatementRecord
    BY <1>1 DEF StatementRecord
  <2>2. stmts' = Append([stmts EXCEPT ![Len(stmts)] = rec], plain)
    BY <1>2, <1>3 DEF AcceptHead, cur
  <2> HIDE DEF rec
  <2>3. [stmts EXCEPT ![Len(stmts)] = rec] \in Seq(StatementRecord)
    BY <1>1, <2>1
  <2> QED BY <1>2, <1>3, <2>2, <2>3, AppendedLast DEF AcceptHead, Parsing, Elsewhere
<1>4. CASE OpenBlock
  <2> DEFINE rec == [cur EXCEPT !.kind = "block", !.f = NoSym]
  <2>1. rec \in StatementRecord
    BY <1>1 DEF StatementRecord, Ref
  <2>2. stmts' = Append([stmts EXCEPT ![Len(stmts)] = rec], plain)
    BY <1>1, <1>2, <1>4 DEF OpenBlock, cur
  <2> HIDE DEF rec
  <2>3. [stmts EXCEPT ![Len(stmts)] = rec] \in Seq(StatementRecord)
    BY <1>1, <2>1
  <2> QED BY <1>2, <1>4, <2>2, <2>3, AppendedLast DEF OpenBlock, Parsing, Elsewhere
<1>5. CASE SyntaxError
  <2>1. stmts' = [stmts EXCEPT ![Len(stmts)] = failed] /\ doing' = "parse"
    BY <1>2, <1>5 DEF SyntaxError, Parsing
  <2> QED BY <1>1, <1>2, <2>1, ReplacedLast DEF Elsewhere
<1>6. CASE EndLine
  <2>1. cur.kind # "head" /\ doing = "parse"
    BY <1>6 DEF EndLine, Parsing, Enclosed, Complete
  <2>2. CASE isError
    BY <1>6, <2>1, <2>2 DEF EndLine, cur, Elsewhere
  <2>3. CASE ~isError
    <3>1. DOMAIN stmts' = DOMAIN stmts /\ stmts'[Len(stmts)] = plain /\ doing' = doing
      <4>1. Len(stmts) \in DOMAIN stmts
        BY <1>1
      <4> QED BY <1>2, <1>6, <2>3, <4>1 DEF EndLine
    <3>2. Len(stmts') = Len(stmts)
      <4>1. stmts' = [i \in 1 .. Len(stmts) |-> stmts'[i]]
        BY <1>1, <1>6, <2>3 DEF EndLine
      <4> QED BY <1>1, <4>1
    <3> QED BY <1>2, <2>1, <3>1, <3>2 DEF cur, Elsewhere
  <2> QED BY <2>2, <2>3
<1>7. CASE NextBranch
  <2>1. Len(stmts) > 1
    BY <1>7 DEF NextBranch, BranchEnds, Enclosed
  <2>2. Around \in Seq(StatementRecord)
    BY <1>1, <2>1, AbsorbedKeeps
  <2>3. PICK rec : stmts' = Around \o <<rec, plain>>
    BY <1>2, <1>7 DEF NextBranch
  <2>4. PICK q, x : q = Around /\ x = <<rec, plain>>
    OBVIOUS
  <2>5. cur' = plain
    BY <2>2, <2>3, <2>4 DEF cur
  <2> QED BY <1>2, <1>7, <2>5 DEF NextBranch, Parsing, Elsewhere
<1>8. ASSUME Enclosed, stmts' = Append(Around, [Statement("done") EXCEPT !.refs = Absorbed.refs])
      PROVE  cur'.kind = "done"
  <2>1. Around \in Seq(StatementRecord) /\ Absorbed \in StatementRecord
    BY <1>1, <1>8, AbsorbedKeeps DEF Enclosed
  <2> DEFINE rec == [Statement("done") EXCEPT !.refs = Absorbed.refs]
  <2>2. rec \in StatementRecord /\ rec.kind = "done"
    BY <2>1 DEF Statement, StatementRecord, Ref
  <2>3. stmts' = Append(Around, rec)
    BY <1>8
  <2> HIDE DEF rec
  <2> QED BY <2>1, <2>2, <2>3, AppendedLast
<1>9. CASE CloseBlock
  <2>1. Enclosed /\ doing' = "parse"
    BY <1>9 DEF CloseBlock, BranchEnds, Parsing
  <2> QED BY <1>8, <1>9, <2>1 DEF CloseBlock, Elsewhere
<1>10. CASE CloseDef
  <2>1. Enclosed /\ doing = "parse" /\ Len(stmts) > 1 /\ outer.kind = "def"
    BY <1>10 DEF CloseDef, BranchEnds, Parsing, Enclosed
  <2>2. CASE isError \/ (~cmdLine /\ blockError)
    <3>1. stmts' = SubSeq(stmts, 1, Len(stmts) - 1) /\ doing' = "failDef"
      BY <1>10, <2>2 DEF CloseDef
    <3>2. Len(stmts') = Len(stmts) - 1 /\ \A i \in DOMAIN stmts' : stmts'[i] = stmts[i]
      BY <1>1, <3>1, FrontOf
    <3>3. Len(stmts) - 1 \in DOMAIN stmts'
      BY <1>1, <2>1, <3>1, <3>2
    <3> QED BY <2>1, <3>1, <3>2, <3>3 DEF cur, outer, Elsewhere
  <2>3. CASE ~(isError \/ (~cmdLine /\ blockError))
    BY <1>8, <1>10, <2>1, <2>3 DEF CloseDef, Elsewhere
  <2> QED BY <2>2, <2>3
<1>11. CASE EndStatement
  <2>1. cur.kind # "head" /\ doing = "parse"
    BY <1>11 DEF EndStatement, Parsing, Complete
  <2>2. CASE UNCHANGED stmts
    BY <1>11, <2>1, <2>2 DEF EndStatement, cur, Elsewhere
  <2>3. CASE stmts' = <<plain>> /\ doing' = doing
    BY <1>2, <2>1, <2>3 DEF cur, Elsewhere
  <2> QED BY <1>2, <1>11, <2>2, <2>3 DEF EndStatement
<1>12. CASE DropLine
  <2>1. Len(stmts) > 1 /\ doing' = "parse"
    BY <1>12 DEF DropLine, IInv, Phases
  <2>2. stmts' = [stmts EXCEPT ![Len(stmts) - 1].lines = TRUE, ![Len(stmts)] = plain]
    BY <1>2, <1>12 DEF DropLine
  <2>3. cur' = plain
    BY <1>1, <2>1, <2>2 DEF cur
  <2> QED BY <1>2, <2>1, <2>3 DEF Elsewhere
<1>13. CASE DropStatement \/ CloseLibrary \/ \E s \in SymId : LibraryFails(s)
  <2>1. stmts' = <<plain>> /\ doing' = "parse"
    BY <1>2, <1>13 DEF DropStatement, CloseLibrary, LibraryFails, Parsing
  <2> QED BY <1>2, <2>1 DEF cur, Elsewhere
<1> QED BY <1>3, <1>4, <1>5, <1>6, <1>7, <1>9, <1>10, <1>11, <1>12, <1>13

LEMMA OpensEmpty ==
  ASSUME TableInv, TableInv', Quiet, Len(scopes') = Len(scopes) + 1
  PROVE  In(top)' = {}
<1>1. PICK k : k = Len(scopes')
  OBVIOUS
<1>2. k \in DOMAIN scopes' /\ k \notin DOMAIN scopes
  BY <1>1 DEF TableInv, TableTypes
<1>3. In(k)' = {}
  BY <1>2, QuietSets
<1> QED BY <1>1, <1>3 DEF top, In

LEMMA AddedTypes ==
  ASSUME NEW s \in SymId, NEW n, AddedTo(s, n), NEW type, sym'[s].type = type,
         \A t \in In(top) : sym[t].type = type
  PROVE  \A t \in In(top)' : sym'[t].type = type
<1>1. PICK k : k = Len(scopes)
  OBVIOUS
<1>2. k \in DOMAIN scopes /\ Len(scopes') = k /\ In(k)' = In(k) \cup {s}
  BY <1>1 DEF AddedTo
<1>3. In(top)' = In(k)' /\ In(top) = In(k)
  BY <1>1, <1>2 DEF top, In
<1>4. \A t \in In(k) : t \in SymId
  BY DEF In
<1> QED BY <1>2, <1>3, <1>4 DEF AddedTo

\* How DeleteNewest leaves the table.
LEMMA DeleteNewestCases ==
  ASSUME IInv, DeleteNewest
  PROVE  /\ newSyms # <<>>
         /\ \/ UNCHANGED table
            \/ UNCHANGED <<sym, scopes>> /\ Retained
            \/ /\ newSyms' = SubSeq(newSyms, 1, Len(newSyms) - 1)
               /\ sym[newSyms[Len(newSyms)]].open
               /\ DeleteSym(newSyms[Len(newSyms)], sym[newSyms[Len(newSyms)]].level)
<1>0. PICK s, k : s = newSyms[Len(newSyms)] /\ k = ScopeAt(sym[s].level)
  OBVIOUS
<1>1. /\ TableInv /\ newSyms # <<>> /\ newSyms \in Seq(SymId) /\ s \in SymId /\ sym[s].level \in Nat
      /\ 0 \notin DOMAIN scopes
  BY <1>0 DEF DeleteNewest, IInv, TableInv, TableTypes, Symbol
<1>2. k = IF sym[s].level \in DOMAIN scopes THEN sym[s].level ELSE 0
  BY <1>0, <1>1, ScopeAtLevel
<1>3. sym[s].open => sym[s].level \in DOMAIN scopes
  BY <1>1 DEF TableInv, OpenSymbols
<1>4. CASE k # 0 /\ ~sym[s].open
  <2>1. UNCHANGED table
    BY <1>0, <1>4 DEF DeleteNewest
  <2> QED BY <1>1, <2>1
<1>5. CASE k = 0
  <2>1. newSyms' = SubSeq(newSyms, 1, Len(newSyms) - 1) /\ UNCHANGED <<sym, scopes>>
    BY <1>0, <1>5 DEF DeleteNewest
  <2>2. ~sym[s].open
    BY <1>1, <1>2, <1>3, <1>5
  <2> QED BY <1>0, <1>1, <2>1, <2>2 DEF Retained
<1>6. CASE k # 0 /\ sym[s].open
  <2>1. newSyms' = SubSeq(newSyms, 1, Len(newSyms) - 1) /\ DeleteSym(s, k)
    BY <1>0, <1>6 DEF DeleteNewest
  <2> QED BY <1>0, <1>1, <1>2, <1>6, <2>1
<1> QED BY <1>4, <1>5, <1>6

LEMMA TakenTypes ==
  ASSUME NEW s, NEW k, TakenFrom(s, k), NEW type, \A t \in In(top) : sym[t].type = type,
         top \in DOMAIN scopes
  PROVE  \A t \in In(top)' : sym'[t].type = type
<1>1. PICK l : l = Len(scopes)
  OBVIOUS
<1>2. l \in DOMAIN scopes /\ Len(scopes') = l /\ In(l)' = In(l) \ {s}
  BY <1>1 DEF TakenFrom, top
<1>3. In(top)' = In(l)' /\ In(top) = In(l)
  BY <1>1, <1>2 DEF top, In
<1>4. \A t \in In(l) : t \in SymId
  BY DEF In
<1> QED BY <1>2, <1>3, <1>4 DEF TakenFrom

\* Only these steps give the innermost scope symbols.
LEMMA NextOwnTypes ==
  ASSUME IInv, IInv', OwnTypes, [Next]_vars
  PROVE  OwnTypes'
<1>1. TableInv /\ TableInv' /\ TableTypes /\ StatementTypes /\ top \in DOMAIN scopes
  BY DEF IInv, TableInv, TableTypes, top
<1>2. ASSUME UNCHANGED <<sym, scopes>>, cur'.kind = "head" => cur.kind = "head",
             doing' = "load" => doing = "load"
      PROVE  OwnTypes'
  BY <1>2 DEF OwnTypes, In, top
<1>3. ASSUME UNCHANGED <<sym, scopes, stmts>>, doing' = "load" => doing = "load" PROVE OwnTypes'
  BY <1>2, <1>3 DEF cur
<1>4. ASSUME Elsewhere PROVE OwnTypes'
  BY <1>4 DEF OwnTypes, Elsewhere
<1>5. ASSUME NEW n \in Name, Declare(n) PROVE OwnTypes'
  <2>1. doing' = "parse" /\ cur.kind = "head"
    BY <1>5 DEF Declare, Parsing
  <2>2. CASE UNCHANGED <<table, stmts>>
    BY <1>3, <2>1, <2>2 DEF table
  <2>3. ASSUME UNCHANGED table, NEW s, Refer(s, FALSE) PROVE OwnTypes'
    BY <1>2, <2>1, <2>3 DEF table
  <2>4. ASSUME NEW s \in Malloc, AddSym(s, n, "UNDEF") PROVE OwnTypes'
    <3>1. s \in SymId /\ Freed(s)
      BY DEF Malloc, Free
    <3>2. AddedTo(s, n) /\ sym'[s].type = "UNDEF"
      BY <1>1, <2>4, <3>1, AddSymAdded
    <3>3. \A t \in In(top)' : sym'[t].type = "UNDEF"
      BY <2>1, <3>1, <3>2, AddedTypes DEF OwnTypes
    <3> QED BY <2>1, <3>3 DEF OwnTypes
  <2> QED BY <1>5, <2>2, <2>3, <2>4 DEF Declare, Adding
<1>6. ASSUME NEW n \in Name, RegisterFunc(n) PROVE OwnTypes'
  <2>1. doing = "load" /\ doing' = "load" /\ cur.kind = "name" /\ UNCHANGED stmts
    BY <1>6 DEF RegisterFunc, Adding, IInv, Phases
  <2>2. CASE UNCHANGED table
    BY <1>3, <2>1, <2>2 DEF table
  <2>3. ASSUME NEW s \in Malloc, AddSym(s, n, "IFUNC") PROVE OwnTypes'
    <3>1. s \in SymId /\ Freed(s)
      BY DEF Malloc, Free
    <3>2. AddedTo(s, n) /\ sym'[s].type = "IFUNC"
      BY <1>1, <2>3, <3>1, AddSymAdded
    <3>3. \A t \in In(top)' : sym'[t].type = "IFUNC"
      BY <2>1, <3>1, <3>2, AddedTypes DEF OwnTypes
    <3> QED BY <2>1, <3>3 DEF OwnTypes, cur
  <2> QED BY <1>6, <2>2, <2>3 DEF RegisterFunc, Adding
<1>7. ASSUME Quiet, Len(scopes') = Len(scopes) + 1 PROVE OwnTypes'
  BY <1>1, <1>7, OpensEmpty DEF OwnTypes
<1>8. ASSUME NEW s \in SymId, OpenDef(s) \/ OpenLibrary(s) PROVE OwnTypes'
  <2>1. NewScope /\ (sym' = sym \/ sym' = [sym EXCEPT ![s].type = "DLIB"])
    BY <1>8 DEF OpenDef, OpenLibrary
  <2>2. Len(scopes') = Len(scopes) + 1
    BY <1>1, <2>1 DEF NewScope, TableTypes
  <2>3. \A t \in SymId : sym[t].type # "FREE" => sym'[t].type # "FREE"
    BY <1>1, <2>1, RetypeKeeps
  <2>4. Quiet
    BY <1>1, <2>1, <2>3, RetypeQuiet, NewScopeQuiet
  <2> QED BY <1>7, <2>2, <2>4
<1>9. CASE DeleteNewest
  <2>1. UNCHANGED stmts /\ doing' = doing /\ doing # "load"
    BY <1>9 DEF DeleteNewest
  <2>2. CASE UNCHANGED <<sym, scopes>>
    BY <1>3, <2>1, <2>2
  <2>3. PICK s : s = newSyms[Len(newSyms)]
    OBVIOUS
  <2>4. CASE /\ newSyms' = SubSeq(newSyms, 1, Len(newSyms) - 1) /\ newSyms # <<>>
             /\ sym[s].open /\ DeleteSym(s, sym[s].level)
    <3>1. TakenFrom(s, sym[s].level)
      BY <1>1, <2>3, <2>4, DeleteSymTakes
    <3>2. ASSUME \A t \in In(top) : sym[t].type = "UNDEF" PROVE \A t \in In(top)' : sym'[t].type = "UNDEF"
      BY <1>1, <3>1, <3>2, TakenTypes
    <3> QED BY <2>1, <3>2 DEF OwnTypes, cur
  <2> QED BY <1>9, <2>2, <2>3, <2>4, DeleteNewestCases DEF table
<1>10. CASE FailDef
  <2>1. CASE Freed(cur.f)
    BY <1>3, <1>10, <2>1 DEF FailDef, table
  <2>2. CASE ~Freed(cur.f)
    <3>1. PICK failed : failed = Statement("failed") /\ failed.kind = "failed"
      BY NewStatement
    <3>2. stmts' = [stmts EXCEPT ![Len(stmts)] = failed] /\ doing' = "parse"
      BY <1>10, <2>2, <3>1 DEF FailDef
    <3> QED BY <1>1, <1>4, <3>1, <3>2, ReplacedLast DEF Elsewhere
  <2> QED BY <2>1, <2>2
<1>11. CASE HeadError
  BY <1>3, <1>11 DEF HeadError, table
<1>12. CASE UNCHANGED vars
  BY <1>3, <1>12 DEF vars, table
<1>13. ASSUME NEW n \in Name, Lex(n) PROVE OwnTypes'
  BY <1>4, <1>13, LexElsewhere
<1>14. ASSUME NEW s \in SymId, LibraryFails(s) PROVE OwnTypes'
  BY <1>4, <1>14, ParsedElsewhere
<1>15. CASE AcceptHead \/ OpenBlock \/ SyntaxError \/ EndLine \/ NextBranch \/ CloseBlock
            \/ CloseDef \/ EndStatement \/ DropLine \/ DropStatement \/ CloseLibrary
  BY <1>4, <1>15, ParsedElsewhere
<1> QED
  BY <1>5, <1>6, <1>8, <1>9, <1>10, <1>11, <1>12, <1>13, <1>14, <1>15 DEF Next, Stopped

LEMMA InitOwnTypes == Init => OwnTypes /\ Dense /\ Once
<1> SUFFICES ASSUME Init PROVE OwnTypes /\ Dense /\ Once
  OBVIOUS
<1>1. \A k : In(k) = {}
  BY DEF Init, FreeCell, In
<1>2. PICK e : e = EmptyScope(1)
  OBVIOUS
<1>20. e.curOffset = 0
  BY <1>2 DEF EmptyScope
<1>3. scopes = <<e>>
  BY <1>2 DEF Init
<1>4. \A k \in DOMAIN scopes : scopes[k].curOffset = 0
  BY <1>3, <1>20
<1>5. Dense
  BY <1>4 DEF Dense
<1>6. Once
  BY DEF Init, Once
<1> QED BY <1>1, <1>5, <1>6 DEF OwnTypes

LEMMA NextSound ==
  ASSUME IInv, IInv', ChainInv', Sound, [Next]_vars
  PROVE  Sound'
<1>1. TableInv /\ TableInv'
  BY DEF IInv
<1>2. CASE Adds
  <2>1. PICK s \in SymId, n \in Name, type \in {"UNDEF", "IFUNC"} : Freed(s) /\ AddSym(s, n, type)
    BY <1>2 DEF Adds
  <2>2. AddedTo(s, n) /\ sym'[s].type = type
    BY <1>1, <2>1, AddSymAdded
  <2>3. newSyms' = Append(newSyms, s)
    BY <2>1 DEF AddSym
  <2> QED BY <1>1, <2>1, <2>2, <2>3, AddedSound
<1>3. CASE Deletes
  <2>1. PICK s : s = newSyms[Len(newSyms)] /\ sym[s].open /\ DeleteSym(s, sym[s].level)
    BY <1>3 DEF Deletes
  <2>2. newSyms # <<>> /\ newSyms' = SubSeq(newSyms, 1, Len(newSyms) - 1)
    BY <1>3 DEF Deletes
  <2>3. TakenFrom(s, sym[s].level)
    BY <1>1, <2>1, <2>2, DeleteSymTakes
  <2> QED BY <1>1, <2>1, <2>2, <2>3, TakenSound
<1>4. CASE Rests
  BY <1>1, <1>4, QuietSound
<1> QED BY <1>2, <1>3, <1>4, StepKinds

-----------------------------------------------------------------------------
(* The promise *)

\* The mapping depends on the table alone.
LEMMA TableStays ==
  ASSUME UNCHANGED table PROVE AllNames' = AllNames /\ Firm' = Firm
BY DEF AllNames, NamesOf, In, Firm, NewIn, table

\* With an empty list every name is firm.
LEMMA FirmAll ==
  ASSUME Sound, newSyms = <<>>
  PROVE  Firm = Promise!Sizes
<1>1. PICK a, f, g : a = AllNames /\ f = Firm /\ g = Promise!Sizes
  OBVIOUS
<1>2. Shaped
  BY Shape
<1>3. /\ a \in Seq(Seq(Name)) /\ f \in Seq(Int) /\ Len(f) = Len(a) /\ DOMAIN scopes = 1 .. Len(a)
      /\ g = [k \in DOMAIN a |-> Len(a[k])]
  BY <1>1, <1>2 DEF Shaped, Promise!Sizes
<1>4. g \in Seq(Int) /\ Len(g) = Len(a) /\ \A k \in 1 .. Len(a) : g[k] = Len(a[k])
  <2>1. \A k \in DOMAIN a : Len(a[k]) \in Int
    BY <1>3
  <2> QED BY <1>3, <2>1
<1>5. \A k \in 1 .. Len(f) : f[k] = g[k]
  <2> SUFFICES ASSUME NEW k \in 1 .. Len(f) PROVE f[k] = g[k]
    OBVIOUS
  <2>1. k \in DOMAIN scopes
    BY <1>3
  <2>2. NewIn(k) = {}
    BY DEF NewIn
  <2>3. /\ f[k] = scopes[k].curOffset - Cardinality(NewIn(k)) /\ scopes[k].curOffset \in Nat
        /\ Len(a[k]) = scopes[k].curOffset
    BY <1>1, <1>2, <2>1 DEF Shaped
  <2>4. f[k] = scopes[k].curOffset
    BY <2>2, <2>3, FS_EmptySet
  <2> QED BY <1>3, <1>4, <2>3, <2>4
<1>6. f = g
  BY <1>3, <1>4, <1>5, SeqEqual
<1> QED BY <1>1, <1>6

LEMMA AddedPromise ==
  ASSUME Sound, Sound', NEW n \in Name, NEW s \in Malloc, NEW type \in {"UNDEF", "IFUNC"},
         AddSym(s, n, type), ~Undoing, Undoing' = Undoing,
         \A t \in In(top) : sym[t].name # n
  PROVE  Promise!Next
<1>1. s \in SymId /\ Freed(s)
  BY DEF Malloc, Free
<1>2. AddedTo(s, n) /\ newSyms' = Append(newSyms, s)
  BY <1>1, AddSymAdded DEF Sound, AddSym
<1>3. AllNames' = [AllNames EXCEPT ![Len(AllNames)] = Append(@, n)] /\ Firm' = Firm
  BY <1>1, <1>2, AddedNames
<1>4. \A i \in DOMAIN AllNames[Len(AllNames)] : AllNames[Len(AllNames)][i] # n
  <2>1. PICK k, f : k = Len(AllNames) /\ f = NamesOf(k)
    OBVIOUS
  <2>2. k = Len(scopes) /\ k \in DOMAIN scopes /\ AllNames[k] = f
    BY <1>2, <2>1, Shape DEF Shaped, AddedTo
  <2>3. NamesRight
    BY SoundNames
  <2>4. /\ f \in Seq(Name) /\ Len(f) = scopes[k].curOffset
        /\ \A t \in In(k) : f[sym[t].offset + 1] = sym[t].name
        /\ \A i \in 1 .. scopes[k].curOffset : \E t \in In(k) : sym[t].offset + 1 = i
    BY <2>1, <2>2, <2>3 DEF NamesRight
  <2>5. \A i \in DOMAIN f : f[i] # n
    <3> TAKE i \in DOMAIN f
    <3>1. PICK t \in In(k) : sym[t].offset + 1 = i
      BY <2>4
    <3>2. t \in In(top)
      BY <2>2, <3>1 DEF top
    <3> QED BY <2>4, <3>1, <3>2
  <2> QED BY <2>1, <2>2, <2>5
<1>5. Promise!Add(n)
  BY <1>3, <1>4 DEF Promise!Add, Promise!last
<1> QED BY <1>5 DEF Promise!Next

\* Whether a name is new in the innermost scope, for each of the steps that ask.
LEMMA NewInScope ==
  ASSUME TableInv, ChainInv, OwnTypes, NEW n \in Name,
         \/ LookUp(n) = NoSym
         \/ /\ Declare(n)
            /\ sym[LookUp(n)].type # "UNDEF" \/ sym[LookUp(n)].level # scopes[top].level
         \/ /\ RegisterFunc(n)
            /\ sym[LookUp(n)].type = "UNDEF" \/ sym[LookUp(n)].level < scopes[top].level
  PROVE  \A t \in In(top) : sym[t].name # n
<1> SUFFICES ASSUME NEW t \in In(top), sym[t].name = n PROVE FALSE
  OBVIOUS
<1>1. LookUp(n) \in In(top) /\ LookUp(n) # NoSym
  BY InnermostFound
<1>2. top \in DOMAIN scopes /\ scopes[top].level \in Nat
  <2>1. top \in DOMAIN scopes /\ scopes[top] \in Scope
    BY DEF TableInv, TableTypes, top
  <2> QED BY <2>1 DEF Scope
<1>3. sym[LookUp(n)].level = scopes[top].level
  BY <1>1 DEF In
<1>4. CASE Declare(n)
  <2>1. sym[LookUp(n)].type = "UNDEF"
    BY <1>1, <1>4 DEF OwnTypes, Declare
  <2> QED BY <1>1, <1>2, <1>3, <1>4, <2>1 DEF Declare, RegisterFunc, Parsing
<1>5. CASE RegisterFunc(n)
  <2>1. sym[LookUp(n)].type = "IFUNC"
    BY <1>1, <1>5 DEF OwnTypes, RegisterFunc
  <2> QED BY <1>1, <1>2, <1>3, <1>5, <2>1 DEF Declare, RegisterFunc, Parsing
<1> QED BY <1>1, <1>4, <1>5

Stutters == UNCHANGED <<AllNames, Firm, Undoing>>

\* The steps of SymbolTable as steps of NameScopes: a name comes in,
LEMMA NamingPromise ==
  ASSUME IInv, Sound, Sound', OwnTypes, NEW n \in Name, Lex(n) \/ Declare(n) \/ RegisterFunc(n)
  PROVE  Promise!Next \/ Stutters
<1>1. ~Undoing /\ Undoing' = Undoing /\ TableInv /\ ChainInv
  BY DEF Lex, Declare, RegisterFunc, Parsing, Undoing, Sound
<1>2. ASSUME UNCHANGED table PROVE Stutters
  BY <1>1, <1>2, TableStays DEF Stutters
<1>3. ASSUME NEW type \in {"UNDEF", "IFUNC"}, NEW Then(_), Adding(n, type, Then),
             \A t \in In(top) : sym[t].name # n
      PROVE  Promise!Next \/ Stutters
  <2>1. UNCHANGED table \/ \E s \in Malloc : AddSym(s, n, type)
    BY <1>3 DEF Adding
  <2> QED BY <1>1, <1>2, <1>3, <2>1, AddedPromise
<1>4. CASE Lex(n)
  <2>1. (LookUp(n) = NoSym /\ Adding(n, "UNDEF", ReferNew)) \/ UNCHANGED table
    BY <1>4 DEF Lex
  <2>2. LookUp(n) = NoSym => \A t \in In(top) : sym[t].name # n
    BY <1>1, NewInScope
  <2> QED BY <1>2, <1>3, <2>1, <2>2
<1>5. CASE Declare(n)
  <2>1. \/ UNCHANGED table
        \/ /\ Adding(n, "UNDEF", ReferNew)
           /\ \/ LookUp(n) = NoSym
              \/ sym[LookUp(n)].type # "UNDEF" \/ sym[LookUp(n)].level # scopes[top].level
    BY <1>5 DEF Declare
  <2>2. Adding(n, "UNDEF", ReferNew) /\ ~UNCHANGED table => \A t \in In(top) : sym[t].name # n
    BY <1>1, <1>5, <2>1, NewInScope
  <2> QED BY <1>2, <1>3, <2>1, <2>2
<1>6. CASE RegisterFunc(n)
  <2>1. \A t \in In(top) : sym[t].name # n
    <3>1. \/ LookUp(n) = NoSym
          \/ sym[LookUp(n)].type = "UNDEF" \/ sym[LookUp(n)].level < scopes[top].level
      BY <1>6 DEF RegisterFunc
    <3> QED BY <1>1, <1>6, <3>1, NewInScope
  <2> QED BY <1>3, <1>6, <2>1 DEF RegisterFunc
<1> QED BY <1>4, <1>5, <1>6

\* a scope opens,
LEMMA OpeningPromise ==
  ASSUME IInv, Sound, Sound', NEW s \in SymId, OpenDef(s) \/ OpenLibrary(s)
  PROVE  Promise!Next
<1>1. TableInv /\ TableTypes
  BY DEF IInv, TableInv
<1>2. NewScope /\ (sym' = sym \/ sym' = [sym EXCEPT ![s].type = "DLIB"])
  BY DEF OpenDef, OpenLibrary
<1>3. Len(scopes') = Len(scopes) + 1
  BY <1>1, <1>2 DEF NewScope, TableTypes
<1>4. \A t \in SymId : sym[t].type # "FREE" => sym'[t].type # "FREE"
  BY <1>1, <1>2, RetypeKeeps
<1>5. Quiet
  BY <1>1, <1>2, <1>4, RetypeQuiet, NewScopeQuiet
<1>6. AllNames' = Append(AllNames, <<>>)
  BY <1>3, <1>5, QuietOpens
<1>7. CASE OpenDef(s)
  <2>1. Firm' = Append(Firm, 0)
    BY <1>3, <1>5, <1>7, FirmOpens DEF OpenDef, Retained
  <2>2. ~Undoing /\ Undoing' = Undoing
    BY <1>7 DEF OpenDef, Parsing, Undoing
  <2>3. Promise!Open
    BY <1>6, <2>1, <2>2 DEF Promise!Open
  <2> QED BY <2>3 DEF Promise!Next
<1>8. CASE OpenLibrary(s)
  <2>1. Firm' = Append(Promise!Sizes, 0)
    BY <1>3, <1>5, <1>8, FirmResets DEF OpenLibrary
  <2>2. ~Undoing /\ Undoing' = Undoing
    BY <1>8 DEF OpenLibrary, Parsing, Undoing
  <2>3. Promise!Import
    BY <1>6, <2>1, <2>2 DEF Promise!Import
  <2> QED BY <2>3 DEF Promise!Next
<1> QED BY <1>7, <1>8

\* a scope closes, or a definition is found in error or given up,
LEMMA ClosingPromise ==
  ASSUME IInv, IInv', Sound, Sound', CloseDef \/ CloseLibrary \/ FailDef
  PROVE  Promise!Next \/ Stutters
<1>1. TableInv /\ scopes \in Seq(Scope) /\ scopes # <<>> /\ scopes' \in Seq(Scope) /\ scopes' # <<>>
  BY DEF IInv, TableInv, TableTypes
<1>2. ASSUME PopScope, UNCHANGED newSyms, NEW f,
             sym' = Popped \/ sym' = [Popped EXCEPT ![f].type = "UNDEF"]
      PROVE  /\ Len(AllNames) > 1 /\ AllNames' = SubSeq(AllNames, 1, Len(AllNames) - 1)
             /\ Firm' = SubSeq(Firm, 1, Len(AllNames) - 1)
  <2>1. Quiet
    BY <1>1, <1>2, PopScopeQuiet
  <2>2. Len(scopes') = Len(scopes) - 1
    BY <1>1, <1>2, FrontOf DEF PopScope, top
  <2>3. Len(scopes) > 1
    BY <1>1, <2>2
  <2>4. Len(AllNames) = Len(scopes)
    BY Shape DEF Shaped
  <2> QED BY <1>2, <2>1, <2>2, <2>3, <2>4, QuietCloses, FirmCloses DEF Retained
<1>3. ASSUME PopScope, UNCHANGED newSyms, sym' = Popped, ~Undoing, Undoing' = Undoing
      PROVE  Promise!Next
  <2>1. Promise!Close
    BY <1>2, <1>3 DEF Promise!Close, Promise!last
  <2> QED BY <2>1 DEF Promise!Next
<1>4. CASE CloseDef
  <2>1. ~Undoing
    BY <1>4 DEF CloseDef, Parsing, Undoing
  <2>2. CASE UNCHANGED table /\ doing' = "failDef"
    <3>1. Promise!StartUndo
      BY <2>1, <2>2, TableStays DEF Promise!StartUndo, Undoing
    <3> QED BY <3>1 DEF Promise!Next
  <2>3. CASE PopScope /\ sym' = Popped /\ UNCHANGED <<doing, newSyms>>
    BY <1>3, <2>1, <2>3 DEF Undoing
  <2> QED BY <1>4, <2>2, <2>3 DEF CloseDef, table
<1>5. CASE CloseLibrary
  <2>1. ~Undoing /\ Undoing' = Undoing
    BY <1>5 DEF CloseLibrary, Undoing
  <2> QED BY <1>3, <1>5, <2>1 DEF CloseLibrary
<1>6. CASE FailDef
  <2>1. CASE Freed(cur.f)
    <3>1. UNCHANGED table /\ doing' = doing
      BY <1>6, <2>1 DEF FailDef
    <3> QED BY <3>1, TableStays DEF Stutters, Undoing
  <2>2. CASE ~Freed(cur.f)
    <3>1. PICK f : f = cur.f
      OBVIOUS
    <3>2. PopScope /\ UNCHANGED newSyms /\ sym' = [Popped EXCEPT ![f].type = "UNDEF"]
      BY <1>6, <2>2, <3>1 DEF FailDef
    <3>3. Undoing /\ Undoing' = FALSE /\ newSyms = <<>>
      BY <1>6, <2>2 DEF FailDef, Undoing
    <3>4. Firm = Promise!Sizes
      BY <3>3, FirmAll
    <3>5. Promise!EndUndo
      BY <1>2, <3>2, <3>3, <3>4 DEF Promise!EndUndo, Promise!last
    <3> QED BY <3>5 DEF Promise!Next
  <2> QED BY <2>1, <2>2
<1> QED BY <1>4, <1>5, <1>6

\* a line is accepted or given up,
LEMMA AcceptingPromise ==
  ASSUME IInv, Sound, Sound', EndLine \/ EndStatement
  PROVE  Promise!Next \/ Stutters
<1>1. ~Undoing
  BY DEF EndLine, EndStatement, Parsing, Undoing
<1>2. CASE newSyms' = <<>> /\ UNCHANGED <<sym, scopes, doing>>
  <2>1. Quiet
    BY <1>2, StillQuiet
  <2>2. AllNames' = AllNames
    BY <1>2, <2>1, QuietStays
  <2>3. Firm' = Promise!Sizes
    BY <1>2, <2>1, FirmResets
  <2>4. Promise!Accept
    BY <1>1, <1>2, <2>2, <2>3 DEF Promise!Accept, Undoing
  <2> QED BY <2>4 DEF Promise!Next
<1>3. CASE UNCHANGED table /\ doing' \in {"dropLine", "dropAll"}
  <2>1. Promise!StartUndo
    BY <1>1, <1>3, TableStays DEF Promise!StartUndo, Undoing
  <2> QED BY <2>1 DEF Promise!Next
<1>4. CASE UNCHANGED <<table, doing>>
  BY <1>4, TableStays DEF Stutters, Undoing
<1> QED BY <1>2, <1>3, <1>4 DEF EndLine, EndStatement

\* the newest name is taken back,
LEMMA UndoingPromise ==
  ASSUME IInv, Sound, Sound', DeleteNewest
  PROVE  Promise!Next \/ Stutters
<1>1. Undoing /\ Undoing' = Undoing /\ TableInv
  BY DEF DeleteNewest, Undoing, IInv
<1>2. PICK s, k : s = newSyms[Len(newSyms)] /\ k = sym[s].level
  OBVIOUS
<1>3. CASE UNCHANGED table
  BY <1>1, <1>3, TableStays DEF Stutters
<1>4. CASE UNCHANGED <<sym, scopes>> /\ Retained
  <2>1. Quiet
    BY <1>4, StillQuiet
  <2> QED BY <1>1, <1>4, <2>1, QuietStays, FirmStays DEF Stutters
<1>5. CASE /\ newSyms # <<>> /\ newSyms' = SubSeq(newSyms, 1, Len(newSyms) - 1)
           /\ sym[s].open /\ DeleteSym(s, k)
  <2>1. TakenFrom(s, k)
    BY <1>1, <1>2, <1>5, DeleteSymTakes
  <2>2. /\ k \in DOMAIN AllNames /\ Len(AllNames[k]) > Firm[k]
        /\ AllNames' = [AllNames EXCEPT ![k] = SubSeq(@, 1, Len(@) - 1)]
        /\ Firm' = Firm
    BY <1>2, <1>5, <2>1, TakenNames
  <2>3. Promise!TakeBack(k)
    BY <1>1, <2>2 DEF Promise!TakeBack
  <2> QED BY <2>2, <2>3 DEF Promise!Next
<1> QED BY <1>2, <1>3, <1>4, <1>5, DeleteNewestCases

\* and the rest, most of which NameScopes does not see.
LEMMA RestPromise ==
  ASSUME IInv, Sound, Sound',
         \/ AcceptHead \/ HeadError \/ OpenBlock \/ SyntaxError \/ NextBranch \/ CloseBlock
         \/ DropLine \/ DropStatement
         \/ \E s \in SymId : LibraryFails(s)
         \/ UNCHANGED vars
  PROVE  Promise!Next \/ Stutters
<1>1. TableTypes
  BY DEF IInv, TableInv
<1>2. CASE AcceptHead
  <2>1. PICK f : f = cur.f
    OBVIOUS
  <2>2. sym' = [sym EXCEPT ![f].type = "NFUNC"] /\ UNCHANGED <<scopes, newSyms, doing>>
    BY <1>2, <2>1 DEF AcceptHead
  <2>3. \A s \in SymId :
           /\ sym'[s].level = sym[s].level /\ sym'[s].offset = sym[s].offset
           /\ sym'[s].name = sym[s].name /\ sym'[s].open = sym[s].open
           /\ sym'[s].next = sym[s].next /\ sym'[s].pre = sym[s].pre
    BY <1>1, <2>2, RetypeQuiet
  <2>4. \A t \in SymId : sym[t].type # "FREE" => sym'[t].type # "FREE"
    BY <1>1, <2>2, RetypeKeeps
  <2>5. Quiet
    BY <2>2, <2>3, <2>4 DEF Quiet
  <2> QED BY <2>2, <2>5, QuietStays, FirmStays DEF Stutters, Undoing, Retained
<1>3. CASE HeadError
  <2>1. Promise!StartUndo
    BY <1>3, TableStays DEF HeadError, Parsing, Promise!StartUndo, Undoing
  <2> QED BY <2>1 DEF Promise!Next
<1>4. CASE DropLine \/ DropStatement
  <2>1. Firm = Promise!Sizes
    BY <1>4, FirmAll DEF DropLine, DropStatement
  <2>2. Promise!EndUndo
    BY <1>4, <2>1, TableStays DEF DropLine, DropStatement, Promise!EndUndo, Undoing
  <2> QED BY <2>2 DEF Promise!Next
<1>5. CASE OpenBlock \/ SyntaxError \/ NextBranch \/ CloseBlock \/ (\E s \in SymId : LibraryFails(s))
           \/ UNCHANGED vars
  <2>1. UNCHANGED table /\ doing' = doing
    BY <1>5 DEF OpenBlock, SyntaxError, NextBranch, CloseBlock, LibraryFails, vars
  <2> QED BY <2>1, TableStays DEF Stutters, Undoing
<1> QED BY <1>2, <1>3, <1>4, <1>5

LEMMA NextPromise ==
  ASSUME IInv, IInv', Sound, Sound', OwnTypes, [Next]_vars
  PROVE  Promise!Next \/ Stutters
<1>1. ASSUME NEW n \in Name, Lex(n) \/ Declare(n) \/ RegisterFunc(n) PROVE Promise!Next \/ Stutters
  BY <1>1, NamingPromise
<1>2. ASSUME NEW s \in SymId, OpenDef(s) \/ OpenLibrary(s) PROVE Promise!Next \/ Stutters
  BY <1>2, OpeningPromise
<1>3. ASSUME NEW s \in SymId, LibraryFails(s) PROVE Promise!Next \/ Stutters
  BY <1>3, RestPromise
<1>4. CASE AcceptHead \/ HeadError \/ OpenBlock \/ SyntaxError \/ NextBranch \/ CloseBlock
           \/ DropLine \/ DropStatement \/ UNCHANGED vars
  BY <1>4, RestPromise
<1>5. CASE EndLine \/ EndStatement
  BY <1>5, AcceptingPromise
<1>6. CASE CloseDef \/ CloseLibrary \/ FailDef
  BY <1>6, ClosingPromise
<1>7. CASE DeleteNewest
  BY <1>7, UndoingPromise
<1> QED BY <1>1, <1>2, <1>3, <1>4, <1>5, <1>6, <1>7 DEF Next, Stopped

LEMMA InitPromise == Init => Promise!Init
<1> SUFFICES ASSUME Init PROVE Promise!Init
  OBVIOUS
<1>1. PICK e : e = EmptyScope(1)
  OBVIOUS
<1>2. e.curOffset = 0
  BY <1>1 DEF EmptyScope
<1>3. scopes = <<e>> /\ newSyms = <<>> /\ doing = "parse"
  BY <1>1 DEF Init
<1>4. DOMAIN scopes = {1} /\ scopes[1].curOffset = 0
  BY <1>2, <1>3
<1>5. NamesOf(1) = <<>>
  <2>1. 1 .. scopes[1].curOffset = {}
    BY <1>4
  <2> QED BY <2>1 DEF NamesOf
<1>6. NewIn(1) = {}
  BY <1>3 DEF NewIn
<1>7. AllNames = << <<>> >>
  <2>1. AllNames = [k \in {1} |-> <<>>]
    BY <1>4, <1>5 DEF AllNames
  <2> QED BY <2>1
<1>8. Firm = <<0>>
  <2>1. scopes[1].curOffset - Cardinality(NewIn(1)) = 0
    BY <1>4, <1>6, FS_EmptySet
  <2>2. Firm = [k \in {1} |-> 0]
    BY <1>4, <2>1 DEF Firm
  <2> QED BY <2>2
<1> QED BY <1>3, <1>7, <1>8 DEF Promise!Init, Undoing

-----------------------------------------------------------------------------
(* The specification *)

LEMMA InitIInv == Init => IInv
<1> SUFFICES ASSUME Init PROVE IInv
  OBVIOUS
<1>1. Statement("plain") \in StatementRecord /\ Statement("plain").kind = "plain"
  BY NewStatement
<1>2. /\ stmts \in Seq(StatementRecord) /\ stmts # <<>> /\ Len(stmts) = 1
      /\ cur.kind = "plain" /\ OpenDefs = {}
  <2> HIDE DEF Statement
  <2>1. stmts = <<Statement("plain")>>
    BY DEF Init
  <2> QED BY <1>1, <2>1 DEF cur, OpenDefs
<1>3. EmptyScope(1) \in Scope /\ EmptyScope(1).level = 1
  BY DEF EmptyScope, Scope, Ref
<1>4. scopes \in Seq(Scope) /\ Len(scopes) = 1 /\ scopes # <<>> /\ Levels
  <2> HIDE DEF EmptyScope
  <2>1. scopes = <<EmptyScope(1)>>
    BY DEF Init
  <2> QED BY <1>3, <2>1 DEF Levels
<1>5. sym \in [SymId -> Symbol] /\ \A s \in SymId : ~sym[s].open
  BY DEF Init, FreeCell, Symbol, Ref
<1>6. newSyms = <<>>
  BY DEF Init
<1>7. TableInv
  BY <1>4, <1>5, <1>6 DEF TableInv, TableTypes, OpenSymbols, SlotsDistinct, In, RollbackOrder
<1>8. Cardinality(OpenDefs) = 0
  BY <1>2, FS_EmptySet
<1>9. /\ isError = FALSE /\ blockError = FALSE /\ cmdLine \in BOOLEAN
      /\ doing = "parse" /\ fault = "none"
  BY DEF Init
<1>10. StatementTypes
  BY <1>2, <1>9 DEF StatementTypes
<1>11. Phases /\ Count
  BY <1>4, <1>8, <1>9 DEF Phases, Count
<1> QED
  BY <1>7, <1>10, <1>11 DEF IInv

LEMMA NextIInv == IInv /\ [Next]_vars => IInv'
<1> SUFFICES ASSUME IInv, [Next]_vars PROVE IInv'
  OBVIOUS
<1>1. CASE UNCHANGED vars
  BY <1>1, TableUnchanged DEF vars, IInv, StatementTypes, Phases, Count, OpenDefs, Complete, cur
<1>2. ASSUME NEW n \in Name, Lex(n) \/ Declare(n) \/ RegisterFunc(n) PROVE IInv'
  BY <1>2, LexKeeps, DeclareKeeps, RegisterKeeps
<1>3. ASSUME NEW s \in SymId, OpenDef(s) \/ OpenLibrary(s) \/ LibraryFails(s) PROVE IInv'
  BY <1>3, OpenDefKeeps, OpenLibraryKeeps, LibraryFailsKeeps
<1>4. CASE AcceptHead \/ HeadError \/ OpenBlock \/ SyntaxError
  BY <1>4, AcceptHeadKeeps, HeadErrorKeeps, OpenBlockKeeps, SyntaxErrorKeeps
<1>5. CASE EndLine \/ NextBranch \/ CloseBlock \/ CloseDef \/ EndStatement
  BY <1>5, EndLineKeeps, NextBranchKeeps, CloseBlockKeeps, CloseDefKeeps, EndStatementKeeps
<1>6. CASE DeleteNewest \/ DropLine \/ FailDef \/ DropStatement \/ CloseLibrary
  BY <1>6, DeleteNewestKeeps, DropLineKeeps, FailDefKeeps, DropStatementKeeps, CloseLibraryKeeps
<1> QED
  BY <1>1, <1>2, <1>3, <1>4, <1>5, <1>6 DEF Next, Stopped

LEMMA Invariance == Spec => []IInv
BY InitIInv, NextIInv, PTL DEF Spec

LEMMA InitChains == Init => ChainInv
<1> SUFFICES ASSUME Init PROVE ChainInv
  OBVIOUS
<1>1. \A s \in SymId : ~sym[s].open
  BY DEF Init, FreeCell
<1>2. PICK e : e = EmptyScope(1)
  OBVIOUS
<1>3. \A b \in Bucket : e.nelem[b] = 0 /\ e.thelist[b] = NoSym
  BY <1>2 DEF EmptyScope
<1>4. scopes = <<e>>
  BY <1>2 DEF Init
<1>5. \A k \in DOMAIN scopes : scopes[k] = e
  BY <1>4
<1>6. \A k, b : On(k, b) = {}
  BY <1>1 DEF On, In
<1>7. \A k \in DOMAIN scopes : \A b \in Bucket : Ordered(k, b)
  BY <1>3, <1>5, <1>6, FS_EmptySet DEF Ordered, Tallied, Headed, Forth, Back
<1> QED BY <1>1, <1>7 DEF ChainInv, Known

LEMMA ChainInvariance == Spec => []ChainInv
BY InitIInv, NextIInv, InitChains, NextChains, PTL DEF Spec

\* The table, the scopes and the statements being parsed keep their types
\* through every step of the scanner, the parser and the roll back.
THEOREM TypesHold == Spec => []TypeOK
<1>1. IInv => TypeOK
  BY DEF IInv, TableInv, TableTypes, StatementTypes, TypeOK
<1> QED BY <1>1, Invariance, PTL

\* Whatever is nested in what and wherever an error is found, no two symbols of
\* an open scope share a cell of its frame.
THEOREM SlotsStayDistinct == Spec => []SlotsDistinct
<1>1. IInv => SlotsDistinct
  BY DEF IInv, TableInv
<1> QED BY <1>1, Invariance, PTL

\* Every definition that is begun opens one scope, and every way out of it
\* closes that one.
THEOREM ScopesFollowStatements == Spec => []ScopesMatchStatements
<1>1. IInv => ScopesMatchStatements
  BY DEF IInv, TableInv, Levels, Count, ScopesMatchStatements
<1> QED BY <1>1, Invariance, PTL

\* However statements, definitions and their errors are nested, the chains of
\* an open scope hold exactly its symbols, linked in both directions: a roll back
\* leaves no gap and no freed neighbour.
THEOREM ScopesStayLinked == Spec => []WellLinked
<1>1. TableInv /\ ChainInv => WellLinked
  BY LinksHold
<1>2. IInv => TableInv
  BY DEF IInv
<1> QED BY <1>1, <1>2, Invariance, ChainInvariance, PTL

LEMMA SoundInvariance == Spec => [](Sound /\ OwnTypes)
<1>1. Init => Sound /\ OwnTypes
  BY InitIInv, InitChains, InitOwnTypes DEF Sound, IInv
<1>2. IInv /\ IInv' /\ ChainInv' /\ Sound /\ OwnTypes /\ [Next]_vars => Sound' /\ OwnTypes'
  BY NextSound, NextOwnTypes
<1> QED BY <1>1, <1>2, Invariance, ChainInvariance, PTL DEF Spec

\* The symbol table implements NameScopes: with its chains, its offsets and its
\* list of new symbols it gives every scope the names NameScopes gives it, and a
\* statement in error takes back those that came in since the last accepted line.
THEOREM ScopesKeepPromise == Spec => KeepsPromise
<1>1. IInv /\ IInv' /\ Sound /\ Sound' /\ OwnTypes /\ [Next]_vars
        => [Promise!Next]_<<AllNames, Firm, Undoing>>
  BY NextPromise DEF Stutters
<1>2. QED
  BY <1>1, InitPromise, Invariance, SoundInvariance, PTL
     DEF Spec, KeepsPromise, Promise!Spec, Promise!vars
=============================================================================
