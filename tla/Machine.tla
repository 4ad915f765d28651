------------------------------ MODULE Machine ------------------------------
(***************************************************************************)
(* Calls in the NCL virtual machine: the value stack and its frames        *)
(* (src/ni/src/ncl/Machine.c), the instructions that build, enter and      *)
(* leave a frame (Execute.c, OpsFuncs.c), and the unwinding of an error.   *)
(*                                                                         *)
(* Values are abstracted to whether a cell holds one.  Of the code that is *)
(* executed the model keeps what the translator guarantees: an expression  *)
(* nests in the arguments of a call whose frame has been begun, and a      *)
(* definition can be called from where its name is visible.  code is that  *)
(* nesting, the innermost context last: the body of a function, or a call  *)
(* whose arguments are being evaluated.  It stands for the instruction     *)
(* pointers and the C stack of Execute, and is what the properties compare *)
(* the stack with.                                                         *)
(***************************************************************************)
EXTENDS Integers, Sequences, FiniteSets

CONSTANTS Fn,          \* the functions and procedures
          Intrinsic,   \* those that are written in C and have no scope
          Function,    \* those that return a value
          Main,        \* the program outside of all of them
          Encl,        \* the definition around each one
          Depth,       \* the level of its scope
          Nargs,       \* the number of its arguments
          Offsets,     \* cur_offset of its scope: arguments and locals
          StackSize,   \* NCL_STACK_SIZE
          MaxCells,    \* bound: cells of the stack
          MaxContexts, \* bound: contexts inside each other
          MaxTemps     \* bound: operands of one expression

ASSUME NestingAssumption ==
  /\ Intrinsic \subseteq Fn /\ Function \subseteq Fn /\ Main \notin Fn
  /\ Encl \in [Fn -> (Fn \ Intrinsic) \cup {Main}]
  /\ Depth \in [Fn \cup {Main} -> Nat \ {0}] /\ Depth[Main] = 1
  /\ \A f \in Fn : Depth[f] = Depth[Encl[f]] + 1
  /\ Nargs \in [Fn -> Nat] /\ Offsets \in [Fn -> Nat]
  /\ \A f \in Fn : Nargs[f] <= Offsets[f] /\ (f \in Intrinsic => Offsets[f] = Nargs[f] /\ Encl[f] = Main)
ASSUME SizeAssumption ==
  StackSize \in Nat /\ StackSize > 5 /\ MaxCells \in Nat \ {0} /\ MaxContexts \in Nat /\ MaxTemps \in Nat

VARIABLES thestack,     \* the cells of the stack
          framepntr,    \* the frame of the running body
          sbOff,        \* sb_off, the top relative to it
          stackSize,    \* cur_stacksize
          flist,        \* the frames begun and not entered, the latest first
          scopeLevel,   \* current_scope_level
          scopes,       \* the scopes pushed for calls, the innermost last
          code,         \* the contexts being executed
          unwinding,    \* what an error has come to
          defined,      \* the definitions whose u.procfunc is not NULL
          typed,        \* those whose type is not UNDEF
          fault         \* history: the first undefined step

stack == <<thestack, framepntr, sbOff, stackSize>>
names == <<defined, typed>>
vars == <<stack, flist, scopeLevel, scopes, code, unwinding, names, fault>>

Cell == 0 .. MaxCells - 1
FrameSize == 5
NoVal == [kind |-> "noval", v |-> 0]
Val == [kind |-> "val", v |-> 0]
Entry(kind, v) == [kind |-> kind, v |-> v]

Context(kind, f) == [kind |-> kind, fn |-> f, done |-> 0, temps |-> 0, callerLevel |-> 1]

Init ==
  /\ thestack = [c \in Cell |-> NoVal]
  /\ framepntr = 0 /\ sbOff = 0 /\ stackSize = StackSize
  /\ flist = <<>> /\ scopeLevel = 1 /\ scopes = <<>>
  /\ code = <<Context("body", Main)>>
  /\ unwinding = "no"
  /\ defined = Fn \ Intrinsic /\ typed = Fn \ Intrinsic
  /\ fault = "none"

top == framepntr + sbOff
cur == code[Len(code)]
Inner(c) == [code EXCEPT ![Len(code)] = c]
Front(s) == SubSeq(s, 1, Len(s) - 1)
Running == fault = "none" /\ unwinding = "no"

\* The innermost body, whose frame framepntr points to.
Bodies == {i \in DOMAIN code : code[i].kind = "body"}
running == CHOOSE i \in Bodies : \A j \in Bodies : j <= i

-----------------------------------------------------------------------------
(* The stack *)

\* n times _NclPop.
Popped(n) == [c \in Cell |-> IF top - n <= c /\ c < top THEN NoVal ELSE thestack[c]]

\* What IncreaseStackSize makes of a size that index i does not fit.
Grown(i) == IF i >= stackSize THEN stackSize * 2 ELSE stackSize

\* _NclPush tests for the end after it has written.
Push ==
  /\ thestack' = [thestack EXCEPT ![top] = Val]
  /\ sbOff' = sbOff + 1
  /\ stackSize' = Grown(top + 1)
  /\ UNCHANGED framepntr

\* The frame n static links away.
Hop(n) ==
  LET hop[k \in 0 .. n] == IF k = 0 THEN framepntr ELSE thestack[hop[k - 1] + 1].v
  IN  hop[n]

\* Faulty: a link too few where the definition is further out.
StaticLink_Short(new) ==
  IF new = scopeLevel + 1 THEN framepntr ELSE Hop(scopeLevel - new)

\* The frame a new one of that level is to find its variables through.
StaticLink(new) == Hop(scopeLevel + 1 - new)

NewLevel(f) == IF f \in Intrinsic THEN scopeLevel + 1 ELSE Depth[f]

\* _NclPushFrame and SaveFramePtrNLevel.
PushFrame(f) ==
  /\ thestack' = [thestack EXCEPT
       ![top] = Entry("ret", f), ![top + 1] = Entry("static", StaticLink(NewLevel(f))),
       ![top + 2] = Entry("dynamic", framepntr), ![top + 3] = Entry("pc", 0),
       ![top + 4] = Entry("params", f)]
  /\ stackSize' = Grown(top + FrameSize)
  /\ sbOff' = sbOff + FrameSize
  /\ flist' = <<[level |-> NewLevel(f), fp |-> top, sb |-> Offsets[f]]>> \o flist
  /\ UNCHANGED framepntr

\* SetNextFramePtrNLevel: where the top is once the locals have their cells.
Reserved(frame) == frame.sb + FrameSize

\* Faulty: the top is not made relative to the caller's frame.
LeaveFrame_SameOffset(n) == framepntr' = thestack[framepntr + 2].v /\ sbOff' = sbOff - n

\* _NclLeaveFrame, after which n entries are popped.
LeaveFrame(n) ==
  /\ framepntr' = thestack[framepntr + 2].v
  /\ sbOff' = top - thestack[framepntr + 2].v - n

-----------------------------------------------------------------------------
(* Instructions *)

\* Whether an expression may begin or go on in the innermost context.
Evaluating == Running /\ (cur.kind = "call" => cur.done < Nargs[cur.fn])

Statement == Running /\ cur.kind = "body" /\ cur.temps = 0

PushValue ==
  /\ Evaluating /\ cur.temps < MaxTemps /\ top < MaxCells
  /\ IF top >= stackSize
     THEN fault' = "overrun" /\ UNCHANGED <<stack, code>>
     ELSE Push /\ code' = Inner([cur EXCEPT !.temps = @ + 1]) /\ UNCHANGED fault
  /\ UNCHANGED <<flist, scopeLevel, scopes, unwinding, names>>

\* An operator of two operands.
Combine ==
  /\ Evaluating /\ cur.temps > 1
  /\ thestack' = Popped(1) /\ sbOff' = sbOff - 1
  /\ code' = Inner([cur EXCEPT !.temps = @ - 1])
  /\ UNCHANGED <<framepntr, stackSize, flist, scopeLevel, scopes, unwinding, names, fault>>

\* CONVERT_TO_LOCAL: the operand on top is the next argument.
ConvertToLocal ==
  /\ Evaluating /\ cur.kind = "call" /\ cur.temps = 1
  /\ IF cur.fn \in Intrinsic \cup (defined \cap typed)
     THEN code' = Inner([cur EXCEPT !.temps = 0, !.done = @ + 1]) /\ UNCHANGED unwinding
     ELSE unwinding' = "failed" /\ UNCHANGED code
  /\ UNCHANGED <<stack, flist, scopeLevel, scopes, names, fault>>

\* _NclRetrieveRec: the cell of the variable at offset o of the scope of level l.
Address(l, o) == Hop(scopeLevel - l) + FrameSize + o

\* f and the definitions around it.
Around(f) ==
  LET around[n \in 0 .. Depth[f] - 1] == IF n = 0 THEN f ELSE Encl[around[n - 1]]
  IN  {around[n] : n \in DOMAIN around}

\* An assignment to a variable of the running body or of one around it.  Those
\* of the program itself are not on the stack.
Assign(f, o) ==
  /\ Running /\ cur.kind = "body" /\ cur.temps = 1
  /\ f \in Around(cur.fn) /\ (f # Main => o < Offsets[f])
  /\ thestack' = IF f = Main THEN Popped(1) ELSE [Popped(1) EXCEPT ![Address(Depth[f], o)] = Val]
  /\ sbOff' = sbOff - 1
  /\ code' = Inner([cur EXCEPT !.temps = 0])
  /\ UNCHANGED <<framepntr, stackSize, flist, scopeLevel, scopes, unwinding, names, fault>>

\* NEW_FRAME_OP.  A procedure is called as a statement, a function anywhere.
NewFrame(f) ==
  /\ IF f \in Function THEN Evaluating /\ cur.temps < MaxTemps ELSE Statement
  /\ f \in Intrinsic \/ Encl[f] \in Around(code[running].fn)
  /\ Len(code) < MaxContexts /\ top + FrameSize <= MaxCells
  /\ IF f \in Intrinsic \cup defined
     THEN /\ PushFrame(f)
          /\ scopes' = IF f \in Intrinsic THEN scopes ELSE Append(scopes, f)
          /\ code' = Append(code, Context("call", f))
          /\ UNCHANGED unwinding
     ELSE unwinding' = "failed" /\ UNCHANGED <<stack, flist, scopes, code>>
  /\ UNCHANGED <<scopeLevel, names, fault>>

\* FUNC_CALL_OP, PROC_CALL_OP: the frame is entered.  CONVERT_TO_LOCAL has seen
\* to it that the function is still defined.
Call ==
  LET frame == flist[1]
  IN  /\ Running /\ cur.kind = "call" /\ cur.done = Nargs[cur.fn] /\ cur.temps = 0
      /\ cur.fn \in defined /\ frame.fp + Reserved(frame) <= MaxCells
      /\ IF frame.fp + Reserved(frame) > stackSize
         THEN fault' = "overrun" /\ UNCHANGED <<stack, flist, scopeLevel, code>>
         ELSE /\ framepntr' = frame.fp /\ sbOff' = Reserved(frame)
              /\ scopeLevel' = frame.level /\ flist' = Tail(flist)
              /\ code' = Inner([cur EXCEPT !.kind = "body", !.callerLevel = scopeLevel])
              /\ UNCHANGED <<thestack, stackSize, fault>>
      /\ UNCHANGED <<scopes, unwinding, names>>

\* The context around the one that is left, with what it has left behind.
Outer(n) == [Front(code) EXCEPT ![Len(code) - 1].temps = @ + n]

\* A function leaves the first entry of its frame, which holds its value.
Left(f) == IF f \in Function THEN 1 ELSE 0

\* INTRINSIC_FUNC_CALL, INTRINSIC_PROC_CALL: the frame is entered and left.
CallIntrinsic(ok) ==
  LET frame == flist[1]
      end == frame.fp + Reserved(frame)
      left == Left(cur.fn)
  IN  /\ Running /\ cur.kind = "call" /\ cur.fn \in Intrinsic
      /\ cur.done = Nargs[cur.fn] /\ cur.temps = 0
      /\ thestack' = [c \in Cell |->
           IF frame.fp + left <= c /\ c < end THEN NoVal
           ELSE IF c = frame.fp /\ ok THEN Val ELSE thestack[c]]
      /\ framepntr' = thestack[frame.fp + 2].v
      /\ sbOff' = end - thestack[frame.fp + 2].v - Nargs[cur.fn] - FrameSize + left
      /\ flist' = Tail(flist)
      /\ code' = Outer(left)
      /\ unwinding' = IF ok THEN "no" ELSE "failed"
      /\ UNCHANGED <<stackSize, scopeLevel, scopes, names, fault>>

\* Faulty: the scope stays when a call returns.
Leave_ScopeKept(cells) ==
  IF cur.fn \notin defined
  THEN fault' = "undefined" /\ UNCHANGED <<stack, scopeLevel, scopes, code, typed>>
  ELSE /\ thestack' = cells
       /\ LeaveFrame(cur.temps + Offsets[cur.fn] + FrameSize - Left(cur.fn))
       /\ scopeLevel' = cur.callerLevel
       /\ code' = Outer(Left(cur.fn))
       /\ typed' = {g \in typed : Encl[g] # cur.fn}
       /\ UNCHANGED <<stackSize, scopes, fault>>

\* What _NclFuncCallOp and _NclProcCallOp do when the body has come to its end:
\* the frame is left and popped with its arguments and locals, the scope too,
\* and the names of that scope get the type UNDEF.
Leave(cells) ==
  IF cur.fn \notin defined
  THEN fault' = "undefined" /\ UNCHANGED <<stack, scopeLevel, scopes, code, typed>>
  ELSE /\ thestack' = cells
       /\ LeaveFrame(cur.temps + Offsets[cur.fn] + FrameSize - Left(cur.fn))
       /\ scopeLevel' = cur.callerLevel
       /\ scopes' = Front(scopes)
       /\ code' = Outer(Left(cur.fn))
       /\ typed' = {g \in typed : Encl[g] # cur.fn}
       /\ UNCHANGED <<stackSize, fault>>

\* RETURN_OP, which puts the operand into the frame.
Return ==
  /\ Running /\ cur.kind = "body" /\ cur.fn \in Function /\ cur.temps = 1
  /\ Leave([Popped(1 + Offsets[cur.fn] + FrameSize - 1) EXCEPT ![framepntr] = Val])
  /\ UNCHANGED <<flist, unwinding, defined>>

\* The end of a body, STOPSEQ or CRETURN_OP.
EndBody ==
  /\ Statement /\ cur.fn # Main
  /\ Leave(Popped(Offsets[cur.fn] + FrameSize - Left(cur.fn)))
  /\ UNCHANGED <<flist, unwinding, defined>>

\* undef("f"), of a name that a scope in use has.
Undef(f) ==
  /\ Statement /\ f \in typed
  /\ Encl[f] = Main \/ \E i \in DOMAIN scopes : scopes[i] = Encl[f]
  /\ defined' = defined \ {f} /\ typed' = typed \ {f}
  /\ UNCHANGED <<stack, flist, scopeLevel, scopes, code, unwinding, fault>>

\* FPDEF: control comes past the definition.
Define(f) ==
  /\ Statement /\ f \notin Intrinsic /\ cur.fn = Encl[f]
  /\ defined' = defined \cup {f} /\ typed' = typed \cup {f}
  /\ UNCHANGED <<stack, flist, scopeLevel, scopes, code, unwinding, fault>>

-----------------------------------------------------------------------------
(* Errors *)

\* An instruction fails, with n of its operands popped.
Fail(n) ==
  /\ Evaluating /\ n <= cur.temps
  /\ thestack' = Popped(n) /\ sbOff' = sbOff - n
  /\ code' = Inner([cur EXCEPT !.temps = @ - n])
  /\ unwinding' = "failed"
  /\ UNCHANGED <<framepntr, stackSize, flist, scopeLevel, scopes, names, fault>>

Unwinding(phase) == fault = "none" /\ unwinding = phase

\* _NclExecute returns: out of the program, or to _NclFuncCallOp, which begins
\* with _NclClearToStackBase.
LeaveExecute ==
  /\ Unwinding("failed")
  /\ IF running = 1
     THEN unwinding' = "abort" /\ UNCHANGED scopes
     ELSE unwinding' = "clear" /\ scopes' = Front(scopes)
  /\ UNCHANGED <<stack, flist, scopeLevel, code, names, fault>>

\* Faulty: frames of callers go as well.
Unfinished_All == flist # <<>>

\* A frame was begun for a call in the body that is being left.
Unfinished == flist # <<>> /\ (unwinding = "clear" => flist[1].fp > framepntr)

\* Faulty: the frame is left on the list.
DropFrame_Kept ==
  /\ (Unwinding("clear") \/ Unwinding("abort")) /\ Unfinished
  /\ UNCHANGED vars

\* One turn of the loops of _NclClearToStackBase and _NclAbortFrame.
DropFrame ==
  LET frame == flist[1]
      f == thestack[frame.fp + 4].v
      n == (IF unwinding = "abort" THEN sbOff ELSE top) - (frame.fp + FrameSize)
  IN  /\ (Unwinding("clear") \/ Unwinding("abort")) /\ Unfinished
      /\ IF f \notin Intrinsic \cup defined /\ Nargs[f] > 0
         THEN fault' = "undefined" /\ UNCHANGED <<stack, scopes, flist, code>>
         ELSE /\ thestack' = Popped(n + FrameSize) /\ sbOff' = sbOff - n - FrameSize
              /\ scopes' = IF f \in Intrinsic \/ Nargs[f] = 0 THEN scopes ELSE Front(scopes)
              /\ flist' = Tail(flist)
              /\ code' = Front(code)
              /\ UNCHANGED <<framepntr, stackSize, fault>>
      /\ UNCHANGED <<scopeLevel, unwinding, names>>

\* The rest of _NclClearToStackBase; the caller's instruction has failed.
ClearBase ==
  /\ Unwinding("clear") /\ ~Unfinished
  /\ thestack' = Popped(sbOff)
  /\ LeaveFrame(sbOff)
  /\ scopeLevel' = cur.callerLevel
  /\ code' = Front(code)
  /\ unwinding' = "failed"
  /\ UNCHANGED <<stackSize, flist, scopes, names, fault>>

\* The rest of _NclCleanUpStack(-1); the program goes on with its next statement.
CleanUpStack ==
  /\ Unwinding("abort") /\ ~Unfinished
  /\ thestack' = Popped(sbOff) /\ sbOff' = 0
  /\ code' = Inner([cur EXCEPT !.temps = 0])
  /\ unwinding' = "no"
  /\ UNCHANGED <<framepntr, stackSize, flist, scopeLevel, scopes, names, fault>>

\* Nothing is said of what the program does after an undefined step.
Stopped == fault # "none" /\ UNCHANGED vars

Unwind == LeaveExecute \/ DropFrame \/ ClearBase \/ CleanUpStack

Next ==
  \/ PushValue \/ Combine \/ ConvertToLocal \/ Call \/ Return \/ EndBody
  \/ \E f \in Fn : NewFrame(f) \/ Undef(f) \/ Define(f)
  \/ \E f \in Fn \cup {Main}, o \in 0 .. MaxTemps : Assign(f, o)
  \/ \E ok \in BOOLEAN : CallIntrinsic(ok)
  \/ \E n \in 0 .. MaxTemps : Fail(n)
  \/ Unwind \/ Stopped

Spec == Init /\ [][Next]_vars /\ WF_vars(Unwind)

-----------------------------------------------------------------------------
(* Properties *)

TypeOK ==
  /\ thestack \in [Cell -> [kind : {"noval", "val", "ret", "static", "dynamic", "pc", "params"},
                            v : Cell \cup Fn]]
  /\ framepntr \in Cell /\ sbOff \in 0 .. MaxCells /\ stackSize \in Nat
  /\ flist \in Seq([level : Nat, fp : Cell, sb : Nat])
  /\ scopeLevel \in Nat /\ scopes \in Seq(Fn \ Intrinsic)
  /\ code \in Seq([kind : {"body", "call"}, fn : Fn \cup {Main}, done : Nat,
                   temps : 0 .. MaxTemps, callerLevel : Nat])
  /\ unwinding \in {"no", "failed", "clear", "abort"}
  /\ defined \subseteq Fn \ Intrinsic /\ typed \subseteq Fn \ Intrinsic
  /\ fault \in {"none", "undefined", "overrun"}

\* Where a context begins on the stack, if every context inside another takes
\* its frame, its arguments or locals, and its operands.
Size(c) ==
  IF c.fn = Main THEN c.temps
  ELSE FrameSize + (IF c.kind = "body" THEN Offsets[c.fn] ELSE c.done) + c.temps
Base[i \in 1 .. Len(code) + 1] == IF i = 1 THEN 0 ELSE Base[i - 1] + Size(code[i - 1])

Frames == {i \in DOMAIN code : code[i].fn # Main}

Pending == DOMAIN code \ Bodies

\* The nearest body around context i.
Caller(i) == CHOOSE b \in Bodies : b < i /\ \A j \in Bodies : j < i => j <= b

\* The stack is what the calls in progress have put there, cell by cell: every
\* frame begins where its call began and leads back to its caller, framepntr is
\* the frame of the running body, the frames begun are on the list in the order
\* of their beginning, and above the top there is nothing.  So a call that returns
\* or is unwound leaves its value or nothing, and the locals of the next one
\* begin without a value (_NclLeaveFrame, _NclPopFrame, _NclClearToStackBase,
\* _NclAbortFrame).
Aligned ==
  /\ top = Base[Len(code) + 1] /\ framepntr = Base[running]
  /\ \A c \in Cell : c >= top => thestack[c] = NoVal
  /\ \A i \in Frames : /\ thestack[Base[i] + 2] = Entry("dynamic", Base[Caller(i)])
                       /\ thestack[Base[i] + 4] = Entry("params", code[i].fn)
  /\ Len(flist) = Cardinality(Pending)
  /\ \A i \in Pending : flist[Cardinality({j \in Pending : j >= i})].fp = Base[i]

\* The body whose variables a definition may use: the latest one of the
\* definition around it, however often that has been called since.
Home(i) ==
  IF code[i].fn \in Intrinsic THEN Caller(i)
  ELSE CHOOSE b \in Bodies : /\ b < i /\ code[b].fn = Encl[code[i].fn]
                             /\ \A j \in Bodies : j < i /\ code[j].fn = Encl[code[i].fn] => j <= b

\* Every frame is linked to the frame its variables are to be looked up in
\* (_NclPushFrame, _NclRetrieveRec).
LexicalLinks ==
  \A i \in Frames : thestack[Base[i] + 1] = Entry("static", Base[Home(i)])

\* The contexts that have pushed a scope.
Scoped == {i \in DOMAIN code : code[i].fn \notin Intrinsic \cup {Main}}

\* While instructions are executed, the scopes are those of the calls in progress
\* and the level is that of the running body, errors that were unwound included
\* (NEW_FRAME_OP pushes a scope, and four functions pop one).
ScopesFollowCalls ==
  unwinding = "no" /\ fault = "none" =>
    /\ scopeLevel = Depth[code[running].fn]
    /\ Len(scopes) = Cardinality(Scoped)
    /\ \A i \in Scoped : scopes[Cardinality({j \in Scoped : j <= i})] = code[i].fn

\* An error ends with the program at its next statement, however many calls and
\* unfinished frames it comes out of.
ErrorsEnd == unwinding # "no" ~> (unwinding = "no" /\ Len(code) = 1) \/ fault # "none"
=============================================================================
