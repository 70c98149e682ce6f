-------------------------------- MODULE Relay --------------------------------
(***************************************************************************)
(* What a tunnel promises to the proxy server that holds it: between its   *)
(* opening and its end it carries two streams of chunks, each in order and *)
(* one chunk at a time; it ends once, says so once, and moves nothing any  *)
(* more.  Chunks on their way when a close is asked for may be lost.       *)
(* Module Tunnel is shown to implement this specification.                 *)
(***************************************************************************)
EXTENDS Naturals

VARIABLES
  phase,               \* "new", "open", "closing" or "closed"
  upTaken, upGiven,    \* chunks taken from the client, given to the remote
  downTaken, downGiven, \* chunks meant for the client, given to the client
  told                 \* how often the server was told of the end

vars == <<phase, upTaken, upGiven, downTaken, downGiven, told>>

Init ==
  /\ phase = "new"
  /\ upTaken = 0 /\ upGiven = 0
  /\ downTaken = 0 /\ downGiven = 0
  /\ told = 0

Open ==
  /\ phase = "new"
  /\ phase' = "open"
  /\ UNCHANGED <<upTaken, upGiven, downTaken, downGiven, told>>

\* The next chunk is taken only after the last one was given.
TakeUp ==
  /\ phase \in {"open", "closing"}
  /\ upTaken = upGiven
  /\ upTaken' = upTaken + 1
  /\ UNCHANGED <<phase, upGiven, downTaken, downGiven, told>>

GiveUp ==
  /\ phase \in {"open", "closing"}
  /\ upGiven < upTaken
  /\ upGiven' = upGiven + 1
  /\ UNCHANGED <<phase, upTaken, downTaken, downGiven, told>>

TakeDown ==
  /\ phase \in {"open", "closing"}
  /\ downTaken = downGiven
  /\ downTaken' = downTaken + 1
  /\ UNCHANGED <<phase, upTaken, upGiven, downGiven, told>>

GiveDown ==
  /\ phase \in {"open", "closing"}
  /\ downGiven < downTaken
  /\ downGiven' = downGiven + 1
  /\ UNCHANGED <<phase, upTaken, upGiven, downTaken, told>>

\* One side ended, or the server wants the tunnel closed.
BeginClose ==
  /\ phase = "open"
  /\ phase' = "closing"
  /\ UNCHANGED <<upTaken, upGiven, downTaken, downGiven, told>>

\* Both sides ended.
End ==
  /\ phase \in {"open", "closing"}
  /\ phase' = "closed"
  /\ told' = told + 1
  /\ UNCHANGED <<upTaken, upGiven, downTaken, downGiven>>

Next ==
  \/ Open
  \/ TakeUp \/ GiveUp
  \/ TakeDown \/ GiveDown
  \/ BeginClose
  \/ End

Spec == Init /\ [][Next]_vars

\* A tunnel asked to close does close.
FairSpec == Spec /\ WF_vars(phase = "closing" /\ End)

=============================================================================
