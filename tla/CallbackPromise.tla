-------------------------- MODULE CallbackPromise --------------------------
(***************************************************************************)
(* What a callback list (src/ni/src/lib/hlu/Callbacks.c) promises to its   *)
(* clients, with no chains, no hashing and no deferred deletion: a firing  *)
(* owes a call to every matching registration, pays each debt at most      *)
(* once, takes on the matching registrations made meanwhile, drops those   *)
(* that are given up, and ends when nothing is due.                        *)
(***************************************************************************)
EXTENDS Integers

CONSTANTS Node,     \* names of registrations
          NULL,
          Key,      \* what registrations and calls are matched by
          HasTask   \* a task_proc may decline calls

VARIABLES open,     \* the list exists and nobody destroyed it
          regs,     \* the registrations clients hold
          key,      \* what each registration asked for
          running,  \* the kind of firing in progress
          looking,  \* the key of the call in progress
          due,      \* the registrations the firing still has to call
          inside    \* the registration whose callback is running

vars == <<open, regs, key, running, looking, due, inside>>

Init ==
  /\ ~open /\ regs = {} /\ key = [n \in Node |-> 0]
  /\ running = "none" /\ looking = 0 /\ due = {} /\ inside = NULL

\* Clients act between firings or from within a callback.
ClientRuns == running = "none" \/ inside # NULL

Open ==
  /\ running = "none" /\ ~open
  /\ open' = TRUE
  /\ UNCHANGED <<regs, key, running, looking, due, inside>>

\* A registration made during a call becomes due if it matches; one made
\* during an iteration may come too late.
Register(n, k) ==
  /\ ClientRuns /\ open /\ n \notin regs
  /\ regs' = regs \cup {n}
  /\ key' = [key EXCEPT ![n] = k]
  /\ \/ /\ running = "call" => k # looking
        /\ due' = due
     \/ /\ running = "call" => k = looking
        /\ running # "none"
        /\ due' = due \cup {n}
  /\ UNCHANGED <<open, running, looking, inside>>

\* A registration given up is never called again.
Unregister(n) ==
  /\ ClientRuns /\ n \in regs
  /\ regs' = regs \ {n}
  /\ due' = due \ {n}
  /\ UNCHANGED <<open, key, running, looking, inside>>

\* After the list is closed nothing is called any more.
Close ==
  /\ ClientRuns /\ open
  /\ open' = FALSE /\ regs' = {} /\ due' = {}
  /\ UNCHANGED <<key, running, looking, inside>>

FireCall(k) ==
  /\ running = "none" /\ open
  /\ running' = "call" /\ looking' = k
  /\ due' = {n \in regs : key[n] = k}
  /\ UNCHANGED <<open, regs, key, inside>>

FireAll ==
  /\ running = "none" /\ open
  /\ running' = "iterate" /\ looking' = 0
  /\ due' = regs
  /\ UNCHANGED <<open, regs, key, inside>>

Call(n) ==
  /\ inside = NULL /\ n \in due
  /\ due' = due \ {n}
  /\ inside' = n
  /\ UNCHANGED <<open, regs, key, running, looking>>

\* Only a task_proc declines a call that is due.
Decline(n) ==
  /\ HasTask
  /\ inside = NULL /\ n \in due
  /\ due' = due \ {n}
  /\ UNCHANGED <<open, regs, key, running, looking, inside>>

CallReturns ==
  /\ inside # NULL /\ open
  /\ inside' = NULL
  /\ UNCHANGED <<open, regs, key, running, looking, due>>

\* A firing ends when every registration it owes a call has had it.
EndFiring ==
  /\ running # "none" /\ inside = NULL /\ due = {}
  /\ running' = "none" /\ looking' = 0
  /\ UNCHANGED <<open, regs, key, due, inside>>

\* Or when the callback that closed the list returns.
Abandon ==
  /\ running # "none" /\ ~open
  /\ running' = "none" /\ looking' = 0 /\ inside' = NULL
  /\ UNCHANGED <<open, regs, key, due>>

Next ==
  \/ Open \/ Close
  \/ \E n \in Node :
       \/ \E k \in Key : Register(n, k)
       \/ Unregister(n)
       \/ Call(n)
       \/ Decline(n)
  \/ \E k \in Key : FireCall(k)
  \/ FireAll
  \/ CallReturns \/ EndFiring \/ Abandon

Spec == Init /\ [][Next]_vars
=============================================================================
