----------------------------- MODULE NWTCPSocket -----------------------------
(***************************************************************************)
(* The remote side of a proxied connection: NEKit's NWTCPSocket wrapping   *)
(* an NWTCPConnection.  The connection completes reads and writes and      *)
(* reports state changes (KVO) on threads of its own; NWTCPSocket moves    *)
(* them to NEKit's serial queue as blocks ("Cb"), except that the KVO      *)
(* handler sets `cancelled' and calls cancel() at once, off the queue.     *)
(*                                                                         *)
(* The operations named Remote... are fragments composed by module Tunnel.           *)
(***************************************************************************)
EXTENDS Naturals, Sequences

CONSTANTS MaxDown  \* bound: how many chunks the remote sends

ASSUME MaxDownAssumption == MaxDown \in Nat

VARIABLES
  conn,               \* "nil" or the state of the NWTCPConnection
  nCancelled,         \* cancelled
  nCancelRequested,   \* NWTCPConnection.cancel() was called
  nWritePending,      \* writePending
  nCloseAfterWriting, \* closeAfterWriting
  nDelegate,          \* delegate # nil
  nReads,             \* reads the connection has not completed
  nWrites,            \* writes the connection has not completed
  nConnectedCb,       \* didConnect block is waiting
  nReadCb,            \* read blocks waiting, with their chunk
  nReadErrCb,         \* blocks of failed reads waiting
  nWroteCb,           \* blocks of completed writes waiting
  nWriteErrCb,        \* blocks of failed writes waiting
  nClosedCb,          \* didDisconnect block is waiting
  remoteSent,         \* chunks read from the remote so far
  remoteGot           \* chunks the remote received, in order

nVars == <<conn, nCancelled, nCancelRequested, nWritePending,
           nCloseAfterWriting, nDelegate, nReads, nWrites, nConnectedCb,
           nReadCb, nReadErrCb, nWroteCb, nWriteErrCb, nClosedCb,
           remoteSent, remoteGot>>

\* A read that returned nothing but (part of) the Shadowsocks IV.
IVOnly == 0

TypeOKRemote ==
  /\ conn \in {"nil", "connecting", "connected", "disconnected", "cancelled"}
  /\ nCancelled \in BOOLEAN
  /\ nCancelRequested \in BOOLEAN
  /\ nWritePending \in BOOLEAN
  /\ nCloseAfterWriting \in BOOLEAN
  /\ nDelegate \in BOOLEAN
  /\ nReads \in Nat
  /\ nWrites \in Seq(Nat)
  /\ nConnectedCb \in BOOLEAN
  /\ nReadCb \in Seq(Nat)
  /\ nReadErrCb \in Nat
  /\ nWroteCb \in Nat
  /\ nWriteErrCb \in Nat
  /\ nClosedCb \in BOOLEAN
  /\ remoteSent \in Nat
  /\ remoteGot \in Seq(Nat)

InitRemote ==
  /\ conn = "nil"
  /\ nCancelled = FALSE
  /\ nCancelRequested = FALSE
  /\ nWritePending = FALSE
  /\ nCloseAfterWriting = FALSE
  /\ nDelegate = TRUE
  /\ nReads = 0
  /\ nWrites = <<>>
  /\ nConnectedCb = FALSE
  /\ nReadCb = <<>>
  /\ nReadErrCb = 0
  /\ nWroteCb = 0
  /\ nWriteErrCb = 0
  /\ nClosedCb = FALSE
  /\ remoteSent = 0
  /\ remoteGot = <<>>

-----------------------------------------------------------------------------
(* Operations called by the adapter socket, on the queue.                  *)

\* connectTo: no connection is made once the tunnel provider is gone.
RemoteConnect == conn' \in {"connecting", "nil"}

\* Mutant of RemoteRead: a cancelled socket is read.
RemoteReadAlways == nReads' = nReads + 1

\* readData
RemoteRead == nReads' = IF nCancelled THEN nReads ELSE nReads + 1

\* write(data:) of one non-empty chunk, through send(data:)
RemoteWrite(d) ==
  /\ nWrites' = IF nCancelled THEN nWrites ELSE Append(nWrites, d)
  /\ nWritePending' = (nWritePending \/ ~nCancelled)

\* disconnect and forceDisconnect answer at once (inside the call) when there
\* is no connection or it is already cancelled.
AnswersAtOnce == conn \in {"nil", "cancelled"}

\* Mutant of RemoteDisconnect: the pending write is not waited for.
RemoteDisconnectAtOnce ==
  /\ nCancelled' = TRUE
  /\ nCloseAfterWriting' = (nCloseAfterWriting \/ ~AnswersAtOnce)
  /\ nCancelRequested' = (nCancelRequested \/ ~AnswersAtOnce)

\* disconnect: cancels the connection when no write is pending.
RemoteDisconnect ==
  /\ nCancelled' = TRUE
  /\ nCloseAfterWriting' = (nCloseAfterWriting \/ ~AnswersAtOnce)
  /\ nCancelRequested' = (nCancelRequested \/ (~AnswersAtOnce /\ ~nWritePending))

\* Mutant of RemoteCheckStatus: no check after a completed write.
RemoteNoCheck == UNCHANGED nCancelRequested

\* checkStatus after a completed write: the elegant close goes on.
RemoteCheckStatus ==
  nCancelRequested' = (nCancelRequested \/ nCloseAfterWriting)

\* forceDisconnect: cancels the connection whatever is pending.
RemoteForceDisconnect ==
  /\ nCancelled' = TRUE
  /\ nCancelRequested' = (nCancelRequested \/ ~AnswersAtOnce)
  /\ UNCHANGED nCloseAfterWriting

-----------------------------------------------------------------------------
(* What the connection, the remote host and the network do.                *)

ConnUp ==
  /\ conn = "connecting"
  /\ conn' = "connected"
  /\ nConnectedCb' = TRUE
  /\ UNCHANGED <<nCancelled, nCancelRequested, nWritePending,
                 nCloseAfterWriting, nDelegate, nReads, nWrites, nReadCb,
                 nReadErrCb, nWroteCb, nWriteErrCb, nClosedCb, remoteSent,
                 remoteGot>>

\* The connection failed or the remote reset it: KVO state .disconnected.
ConnLost ==
  /\ conn \in {"connecting", "connected"}
  /\ conn' = "disconnected"
  /\ nCancelled' = TRUE
  /\ nCancelRequested' = TRUE
  /\ UNCHANGED <<nWritePending, nCloseAfterWriting, nDelegate, nReads,
                 nWrites, nConnectedCb, nReadCb, nReadErrCb, nWroteCb,
                 nWriteErrCb, nClosedCb, remoteSent, remoteGot>>

\* cancel() took effect: KVO state .cancelled.
ConnCancelled ==
  /\ nCancelRequested
  /\ conn \in {"connecting", "connected", "disconnected"}
  /\ conn' = "cancelled"
  /\ nCancelled' = TRUE
  /\ nClosedCb' = TRUE
  /\ UNCHANGED <<nCancelRequested, nWritePending, nCloseAfterWriting,
                 nDelegate, nReads, nWrites, nConnectedCb, nReadCb,
                 nReadErrCb, nWroteCb, nWriteErrCb, remoteSent, remoteGot>>

\* A read returned bytes: a chunk of the response, or only IV bytes.  The
\* completion drops them when `cancelled' is set by now (readCallback).
RemoteSends(d) ==
  /\ conn = "connected"
  /\ nReads > 0
  /\ d = IVOnly \/ (d = remoteSent + 1 /\ d <= MaxDown)
  /\ nReads' = nReads - 1
  /\ remoteSent' = IF d = IVOnly THEN remoteSent ELSE d
  /\ nReadCb' = IF nCancelled THEN nReadCb ELSE Append(nReadCb, d)
  /\ UNCHANGED <<conn, nCancelled, nCancelRequested, nWritePending,
                 nCloseAfterWriting, nDelegate, nWrites, nConnectedCb,
                 nReadErrCb, nWroteCb, nWriteErrCb, nClosedCb, remoteGot>>

\* A read returned nil: the remote closed its sending side.  Nobody is told.
RemoteEnds ==
  /\ conn = "connected"
  /\ nReads > 0
  /\ nReads' = nReads - 1
  /\ UNCHANGED <<conn, nCancelled, nCancelRequested, nWritePending,
                 nCloseAfterWriting, nDelegate, nWrites, nConnectedCb,
                 nReadCb, nReadErrCb, nWroteCb, nWriteErrCb, nClosedCb,
                 remoteSent, remoteGot>>

\* A read failed, for instance because the connection went away.
RemoteReadFails ==
  /\ conn \in {"connected", "disconnected", "cancelled"}
  /\ nReads > 0
  /\ nReads' = nReads - 1
  /\ nReadErrCb' = nReadErrCb + 1
  /\ UNCHANGED <<conn, nCancelled, nCancelRequested, nWritePending,
                 nCloseAfterWriting, nDelegate, nWrites, nConnectedCb,
                 nReadCb, nWroteCb, nWriteErrCb, nClosedCb, remoteSent,
                 remoteGot>>

\* The oldest write was accepted.
RemoteReceives ==
  /\ conn = "connected"
  /\ nWrites # <<>>
  /\ remoteGot' = Append(remoteGot, Head(nWrites))
  /\ nWrites' = Tail(nWrites)
  /\ nWroteCb' = nWroteCb + 1
  /\ UNCHANGED <<conn, nCancelled, nCancelRequested, nWritePending,
                 nCloseAfterWriting, nDelegate, nReads, nConnectedCb, nReadCb,
                 nReadErrCb, nWriteErrCb, nClosedCb, remoteSent>>

\* The oldest write failed.
RemoteWriteFails ==
  /\ conn \in {"connected", "disconnected", "cancelled"}
  /\ nWrites # <<>>
  /\ nWrites' = Tail(nWrites)
  /\ nWriteErrCb' = nWriteErrCb + 1
  /\ UNCHANGED <<conn, nCancelled, nCancelRequested, nWritePending,
                 nCloseAfterWriting, nDelegate, nReads, nConnectedCb, nReadCb,
                 nReadErrCb, nWroteCb, nClosedCb, remoteSent, remoteGot>>

=============================================================================
