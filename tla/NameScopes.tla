----------------------------- MODULE NameScopes -----------------------------
(***************************************************************************)
(* What the symbol table promises its users, without hash chains, pointers *)
(* and levels: nested scopes, each a sequence of names, and the number of  *)
(* names in each that are there to stay.                                   *)
(***************************************************************************)
EXTENDS Naturals, Sequences

CONSTANT Name

VARIABLES names,   \* the names of every open scope, the innermost scope last
          firm,    \* how many of them, from the front, belong to accepted lines
          undoing  \* a line or statement in error is being undone

vars == <<names, firm, undoing>>

Init == names = << <<>> >> /\ firm = <<0>> /\ undoing = FALSE

last == Len(names)
Sizes == [k \in DOMAIN names |-> Len(names[k])]

\* A name the innermost scope does not have yet.
Add(n) ==
  /\ ~undoing
  /\ \A i \in DOMAIN names[last] : names[last][i] # n
  /\ names' = [names EXCEPT ![last] = Append(@, n)]
  /\ UNCHANGED <<firm, undoing>>

\* A line is accepted, and with it all that came before.
Accept == ~undoing /\ firm' = Sizes /\ UNCHANGED <<names, undoing>>

Open ==
  /\ ~undoing
  /\ names' = Append(names, <<>>)
  /\ firm' = Append(firm, 0)
  /\ UNCHANGED undoing

\* A library gets a scope of its own between two statements.
Import ==
  /\ ~undoing
  /\ names' = Append(names, <<>>)
  /\ firm' = Append(Sizes, 0)
  /\ UNCHANGED undoing

Close ==
  /\ ~undoing /\ last > 1
  /\ names' = SubSeq(names, 1, last - 1)
  /\ firm' = SubSeq(firm, 1, last - 1)
  /\ UNCHANGED undoing

StartUndo == ~undoing /\ undoing' = TRUE /\ UNCHANGED <<names, firm>>

TakeBack(k) ==
  /\ undoing /\ Len(names[k]) > firm[k]
  /\ names' = [names EXCEPT ![k] = SubSeq(@, 1, Len(@) - 1)]
  /\ UNCHANGED <<firm, undoing>>

\* Undoing ends when nothing but firm names is left; a definition in error
\* closes its scope.
EndUndo ==
  /\ undoing /\ firm = Sizes /\ undoing' = FALSE
  /\ \/ UNCHANGED <<names, firm>>
     \/ /\ last > 1
        /\ names' = SubSeq(names, 1, last - 1)
        /\ firm' = SubSeq(firm, 1, last - 1)

Next ==
  \/ \E n \in Name : Add(n)
  \/ \E k \in DOMAIN names : TakeBack(k)
  \/ Accept \/ Open \/ Import \/ Close \/ StartUndo \/ EndUndo

Spec == Init /\ [][Next]_vars
=============================================================================
