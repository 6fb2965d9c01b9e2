---------------------------- MODULE DesktopCalls ----------------------------
(***************************************************************************)
(* The IPC calls of the renderer to the main process (registerIpcHandlers) *)
(* as the stores see them.  A handler runs until it awaits a file or a     *)
(* connection; what other handlers do falls between its steps.             *)
(***************************************************************************)
EXTENDS Integers, Sequences, SequencesExt, Functions, TLC

CONSTANTS
  Scenarios,    \* bound: the calls made, in the order they arrive, and the files found
  None,         \* null, or no file
  Invalid,      \* a settings file that is no valid JSON, or not of the schema
  MaxMishaps    \* bound: crashes, each followed by a restart, and failing file operations

ASSUME BoundsAssumption == MaxMishaps \in Nat

VARIABLES
  call,       \* the handlers, by the order of their calls
  mishaps     \* crashes and failures so far, for the bound

Calls == DOMAIN call

\* A handler: its request, where it is, and its locals.
NewCall(request) ==
  [req |-> request, pc |-> "new",
   snap |-> None, no |-> 0,                     \* settings, and the number of the save
   entry |-> None, behind |-> {}, out |-> <<>>, \* activity log
   list |-> <<>>, id |-> None, cred |-> None,   \* projects
   served |-> None, disturbed |-> FALSE]

Over == {"done", "failed", "lost"}
UnderWay(c) == call[c].pc \notin Over \cup {"new"}
Now(c, pcs) == call[c].pc \in pcs
Does(c, requests) == call[c].req.do \in requests

Arrives(c, requests) ==
  /\ Now(c, {"new"}) /\ Does(c, requests)
  /\ \A d \in Calls : d < c => ~Now(d, {"new"})

Becomes(c, s) == call' = [call EXCEPT ![c] = s]
To(c, s, pc) == Becomes(c, [s EXCEPT !.pc = pc])
Ends(c, s) == To(c, s, "done")
Fails(c) == To(c, call[c], "failed")

\* A file operation fails: the promise is rejected, and the handler with it.
Mishap == mishaps < MaxMishaps /\ mishaps' = mishaps + 1

\* The process ends: nothing of the handlers under way is left.
LoseCalls ==
  /\ Mishap
  /\ call' = [c \in Calls |-> IF UnderWay(c) THEN [NewCall(call[c].req) EXCEPT !.pc = "lost"]
                              ELSE call[c]]
=============================================================================
