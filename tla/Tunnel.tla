------------------------------- MODULE Tunnel -------------------------------
(***************************************************************************)
(* One tunnel of NEKit: the Tunnel object that joins the proxy socket of   *)
(* a local client and the adapter socket to the remote, from the moment    *)
(* the proxy server accepts the client until it is told tunnelDidClose.    *)
(*                                                                         *)
(* Everything of NEKit runs on one serial queue, so a handler - a block    *)
(* taken from that queue with every call made inside it - is one action.   *)
(* Blocks of one GCDAsyncSocket run in the order they were queued; blocks  *)
(* queued by different threads run in any order.                           *)
(***************************************************************************)
EXTENDS HTTPProxySocket, AdapterSocket

VARIABLES
  tStatus,      \* Tunnel.status
  tCancelled,   \* Tunnel.isCancelled
  readySignal,  \* Tunnel.readySignal
  resolving,    \* Resolver.resolve has not called back
  pumpTimers,   \* asyncAfter blocks that will call adapterSocket.readData
  delegate,     \* Tunnel.delegate # nil; the server holds the tunnel till then
  closedCalls,  \* calls of tunnelDidClose
  pEnds, aEnds, \* calls of didDisconnectWith for the proxy, adapter socket
  forced        \* forceClose was called (ProxyServer.stop)

tVars == <<tStatus, tCancelled, readySignal, resolving, pumpTimers, delegate,
           closedCalls, pEnds, aEnds, forced>>

vars == <<cVars, pVars, nVars, aVars, tVars>>

TypeOK ==
  /\ TypeOKClient
  /\ TypeOKProxy
  /\ TypeOKRemote
  /\ TypeOKAdapter
  /\ tStatus \in {"invalid", "readingRequest", "waitingToBeReady",
                  "forwarding", "closing", "closed"}
  /\ tCancelled \in BOOLEAN
  /\ readySignal \in Nat
  /\ resolving \in BOOLEAN
  /\ pumpTimers \in Nat
  /\ delegate \in BOOLEAN
  /\ closedCalls \in Nat
  /\ pEnds \in Nat
  /\ aEnds \in Nat
  /\ forced \in BOOLEAN

Init ==
  /\ InitClient
  /\ InitProxy
  /\ InitRemote
  /\ InitAdapter
  /\ tStatus = "invalid"
  /\ tCancelled = FALSE
  /\ readySignal = 0
  /\ resolving = FALSE
  /\ pumpTimers = 0
  /\ delegate = TRUE
  /\ closedCalls = 0
  /\ pEnds = 0
  /\ aEnds = 0
  /\ forced = FALSE

-----------------------------------------------------------------------------
(* Parts of handlers.                                                      *)

\* close() and forceClose() without a socket that disconnects inside the call.
NotYetClosed == tStatus' = "closing" /\ UNCHANGED <<delegate, closedCalls>>

\* Mutant of CheckStatus: the delegate is kept, and told again.
CheckStatusKeepingDelegate ==
  LET isClosed == /\ pStatus' = "closed"
                  /\ hasAdapter => aStatus' \in {"closed", "invalid"}
  IN /\ tStatus' = IF isClosed THEN "closed" ELSE "closing"
     /\ UNCHANGED delegate
     /\ closedCalls' = IF isClosed THEN closedCalls + 1 ELSE closedCalls

\* Mutant of CheckStatus: the adapter socket is not waited for.
CheckStatusOfProxyOnly ==
  LET isClosed == pStatus' = "closed"
  IN /\ tStatus' = IF isClosed THEN "closed" ELSE "closing"
     /\ delegate' = (delegate /\ ~isClosed)
     /\ closedCalls' = IF isClosed /\ delegate THEN closedCalls + 1 ELSE closedCalls

\* checkStatus, after the sockets got their new status: the delegate is told
\* once, then the server drops the tunnel.
CheckStatus ==
  LET isClosed == /\ pStatus' = "closed"
                  /\ hasAdapter => aStatus' \in {"closed", "invalid"}
  IN /\ tStatus' = IF isClosed THEN "closed" ELSE "closing"
     /\ delegate' = (delegate /\ ~isClosed)
     /\ closedCalls' = IF isClosed /\ delegate THEN closedCalls + 1 ELSE closedCalls

\* openAdapter(for:), with the factory of the matching rule.
OpenAdapter ==
  IF tCancelled
    THEN UNCHANGED <<conn, aVars>>
    ELSE \E kind \in {"direct", "shadowsocks"} : AdapterOpen(kind)

\* didReceive(session:from:): a host name is resolved before the adapter opens.
DidReceive ==
  \/ /\ tCancelled
     /\ UNCHANGED <<tStatus, resolving, conn, aVars>>
  \/ /\ ~tCancelled
     /\ tStatus' = "waitingToBeReady"
     /\ \/ /\ resolving' = TRUE           \* a host name
           /\ UNCHANGED <<conn, aVars>>
        \/ /\ OpenAdapter                 \* an IP address
           /\ UNCHANGED resolving

\* Mutant of Forwarded: currentHeader is not replaced by a later header.
ForwardedFirstHeader ==
  IF readStatus = "readingHeader" THEN FirstHeader ELSE Head(cReadCb)

\* The item passed on to the adapter is the one just scanned.
Forwarded == Head(cReadCb)

\* Mutant of Plaintext: what follows the IV in the same read is dropped.
PlaintextWithoutRest(d) == IF aKind = "shadowsocks" /\ ~readIV THEN IVOnly ELSE d

\* What decrypting a read of the adapter yields; IVOnly stands for empty data.
Plaintext(d) == d

\* Mutant of AnswersFirst: the answer to a CONNECT is forgotten.
AnswersNobody == FALSE

\* respondTo: a CONNECT is answered before the proxy socket is ready.
AnswersFirst == isConnect

\* Mutant of StartForwarding: the held back header is not handed over.
StartForwardingWithoutHeader ==
  /\ tStatus' = "forwarding"
  /\ ProxyReadData
  /\ UNCHANGED <<nWrites, nWritePending>>
  /\ AdapterRead

\* The second ready signal starts both reads; a held back header goes to the
\* adapter at once.
StartForwarding ==
  /\ tStatus' = "forwarding"
  /\ ProxyReadData
  /\ IF HandsOverHeader THEN AdapterWrite(FirstHeader)
                        ELSE UNCHANGED <<nWrites, nWritePending>>
  /\ AdapterRead

\* close(), called by didDisconnectWith of the proxy socket: what is left is
\* to disconnect the adapter.
CloseAdapterSide ==
  IF ~tCancelled /\ hasAdapter /\ ~AdapterDisconnected
    THEN /\ AdapterDisconnect
         /\ aEnds' = IF AnswersAtOnce THEN aEnds + 1 ELSE aEnds
    ELSE UNCHANGED <<aStatus, aCancelled, aEnds, nCancelled,
                     nCloseAfterWriting, nCancelRequested>>

\* Mutant of CloseProxySide: close() leaves the proxy socket alone.
CloseNothing ==
  UNCHANGED <<pStatus, pCancelled, cState, cReads, cWrites, cClosedCb>>

\* close(), called by didDisconnectWith of the adapter socket.
CloseProxySide ==
  IF ~tCancelled /\ pStatus # "closed"
    THEN ProxyDisconnect
    ELSE UNCHANGED <<pStatus, pCancelled, cState, cReads, cWrites, cClosedCb>>

\* AdapterSocket.didDisconnectWith and Tunnel.didDisconnectWith.
AdapterEnds ==
  /\ aStatus' = "closed"
  /\ aEnds' = aEnds + 1
  /\ CloseProxySide
  /\ tCancelled' = TRUE
  /\ CheckStatus

-----------------------------------------------------------------------------
(* Handlers of the proxy socket's blocks.                                  *)

\* ProxyServer.didAcceptNewSocket and openTunnel.
Accept ==
  /\ delegate
  /\ cState = "fresh"
  /\ cState' = "open"
  /\ ProxyOpen
  /\ tStatus' = "readingRequest"
  /\ UNCHANGED <<cWrites, cReadCb, cWroteCb, cEmptyCb, cClosedCb, clientSent,
                 clientGot, pStatus, pCancelled, isConnect, writeStatus,
                 nextAction, nVars, aVars, tCancelled, readySignal, resolving,
                 pumpTimers, delegate, closedCalls, pEnds, aEnds, forced>>

TakeReadCb == cReadCb # <<>> /\ cReadCb' = Tail(cReadCb)

\* HTTPProxySocket.didRead: the scanner rejects the item, which it never does
\* with what follows a CONNECT.
ProxyReadInvalid ==
  /\ delegate
  /\ TakeReadCb
  /\ readStatus = "readingFirstHeader" \/ ~isConnect
  /\ ScanFails
  /\ ProxyDisconnect
  /\ UNCHANGED <<cWroteCb, cEmptyCb, clientSent, clientGot, isConnect,
                 readStatus, writeStatus, nVars, aVars, tVars>>

\* HTTPProxySocket.didRead of the first header: the request.
ProxyReadRequest ==
  /\ delegate
  /\ TakeReadCb
  /\ readStatus = "readingFirstHeader"
  /\ \E connect \in BOOLEAN :
       /\ isConnect' = connect
       /\ readStatus' = IF connect THEN "readingContent" ELSE "pendingFirstHeader"
       /\ ScanFirst(connect)
  /\ DidReceive
  /\ UNCHANGED <<cState, cReads, cWrites, cWroteCb, cEmptyCb, cClosedCb,
                 clientSent, clientGot, pStatus, pCancelled, writeStatus,
                 nCancelled, nCancelRequested, nWritePending,
                 nCloseAfterWriting, nDelegate, nReads, nWrites, nConnectedCb,
                 nReadCb, nReadErrCb, nWroteCb, nWriteErrCb, nClosedCb,
                 remoteSent, remoteGot, tCancelled, readySignal, pumpTimers,
                 delegate, closedCalls, pEnds, aEnds, forced>>

\* HTTPProxySocket.didRead of a later item and Tunnel.didRead: forward it.
ProxyReadForward ==
  /\ delegate
  /\ TakeReadCb
  /\ readStatus \in {"readingHeader", "readingContent"}
  /\ ScanNext
  /\ IF tCancelled THEN UNCHANGED <<nWrites, nWritePending>>
                   ELSE AdapterWrite(Forwarded)
  /\ UNCHANGED <<cState, cReads, cWrites, cWroteCb, cEmptyCb, cClosedCb,
                 clientSent, clientGot, pStatus, pCancelled, isConnect,
                 readStatus, writeStatus, conn, nCancelled, nCancelRequested,
                 nCloseAfterWriting, nDelegate, nReads, nConnectedCb, nReadCb,
                 nReadErrCb, nWroteCb, nWriteErrCb, nClosedCb, remoteSent,
                 remoteGot, aVars, tVars>>

\* The Resolver answered, with an address or an error.
Resolved ==
  /\ delegate
  /\ resolving
  /\ resolving' = FALSE
  /\ OpenAdapter
  /\ UNCHANGED <<cVars, pVars, nCancelled, nCancelRequested, nWritePending,
                 nCloseAfterWriting, nDelegate, nReads, nWrites, nConnectedCb,
                 nReadCb, nReadErrCb, nWroteCb, nWriteErrCb, nClosedCb,
                 remoteSent, remoteGot, tStatus, tCancelled, readySignal,
                 pumpTimers, delegate, closedCalls, pEnds, aEnds, forced>>

\* A didWrite block of the client's socket, which is dropped when the raw
\* socket lost its delegate (an empty write's block outliving the close).
TakeWroteCb ==
  \/ /\ cWroteCb > 0
     /\ cWroteCb' = cWroteCb - 1
     /\ UNCHANGED cEmptyCb
  \/ /\ cEmptyCb > 0
     /\ cEmptyCb' = cEmptyCb - 1
     /\ UNCHANGED cWroteCb

\* HTTPProxySocket.didWrite of the answer to CONNECT: the proxy is ready.
ProxyWroteResponse ==
  /\ delegate
  /\ TakeWroteCb
  /\ pStatus # "closed"
  /\ writeStatus = "sendingConnectResponse"
  /\ writeStatus' = "forwarding"
  /\ \/ /\ tCancelled
        /\ UNCHANGED <<cReads, readStatus, nReads, nWrites, nWritePending,
                       tStatus, readySignal>>
     \/ /\ ~tCancelled
        /\ readySignal' = readySignal + 1
        /\ IF readySignal = 1
             THEN StartForwarding
             ELSE UNCHANGED <<cReads, readStatus, nReads, nWrites,
                              nWritePending, tStatus>>
  /\ UNCHANGED <<cState, cWrites, cReadCb, cClosedCb, clientSent, clientGot,
                 pStatus, pCancelled, isConnect, nextAction, conn, nCancelled,
                 nCancelRequested, nCloseAfterWriting, nDelegate,
                 nConnectedCb, nReadCb, nReadErrCb, nWroteCb, nWriteErrCb,
                 nClosedCb, remoteSent, remoteGot, aVars, tCancelled,
                 resolving, pumpTimers, delegate, closedCalls, pEnds, aEnds,
                 forced>>

\* HTTPProxySocket.didWrite while forwarding and Tunnel.didWrite: the adapter
\* is read again after Opt.forwardReadInterval.
ProxyWrote ==
  /\ delegate
  /\ TakeWroteCb
  /\ pStatus = "closed" \/ writeStatus # "sendingConnectResponse"
  /\ pumpTimers' = IF tCancelled \/ pStatus = "closed" THEN pumpTimers
                                                       ELSE pumpTimers + 1
  /\ UNCHANGED <<cState, cReads, cWrites, cReadCb, cClosedCb, clientSent,
                 clientGot, pVars, nVars, aVars, tStatus, tCancelled,
                 readySignal, resolving, delegate, closedCalls, pEnds, aEnds,
                 forced>>

\* Mutant of PumpAdapter: a timer that fires without having been set.
PumpAdapterAnyTime ==
  /\ delegate
  /\ pumpTimers' = pumpTimers - 1
  /\ AdapterRead
  /\ UNCHANGED <<cVars, pVars, conn, nCancelled, nCancelRequested,
                 nWritePending, nCloseAfterWriting, nDelegate, nWrites,
                 nConnectedCb, nReadCb, nReadErrCb, nWroteCb, nWriteErrCb,
                 nClosedCb, remoteSent, remoteGot, aVars, tStatus, tCancelled,
                 readySignal, resolving, delegate, closedCalls, pEnds, aEnds,
                 forced>>

\* The asyncAfter block of Tunnel.didWrite.
PumpAdapter ==
  /\ delegate
  /\ pumpTimers > 0
  /\ pumpTimers' = pumpTimers - 1
  /\ AdapterRead
  /\ UNCHANGED <<cVars, pVars, conn, nCancelled, nCancelRequested,
                 nWritePending, nCloseAfterWriting, nDelegate, nWrites,
                 nConnectedCb, nReadCb, nReadErrCb, nWroteCb, nWriteErrCb,
                 nClosedCb, remoteSent, remoteGot, aVars, tStatus, tCancelled,
                 readySignal, resolving, delegate, closedCalls, pEnds, aEnds,
                 forced>>

\* socketDidDisconnect, the last block of a GCDAsyncSocket.
ProxyDidDisconnect ==
  /\ delegate
  /\ cClosedCb
  /\ cReadCb = <<>>
  /\ cWroteCb = 0
  /\ cClosedCb' = FALSE
  /\ pStatus' = "closed"
  /\ pEnds' = pEnds + 1
  /\ CloseAdapterSide
  /\ tCancelled' = TRUE
  /\ CheckStatus
  /\ UNCHANGED <<cState, cReads, cWrites, cReadCb, cWroteCb, cEmptyCb,
                 clientSent, clientGot, pCancelled, isConnect, readStatus,
                 writeStatus, nextAction, conn, nWritePending, nDelegate,
                 nReads, nWrites, nConnectedCb, nReadCb, nReadErrCb, nWroteCb,
                 nWriteErrCb, nClosedCb, remoteSent, remoteGot, hasAdapter,
                 aKind, readIV, readySignal, resolving, pumpTimers, forced>>

-----------------------------------------------------------------------------
(* Handlers of the adapter socket's blocks.                                *)

\* didConnectWith of the adapter: the status is set whatever it was; the first
\* ready signal asks the proxy socket to respond.
AdapterConnected ==
  /\ delegate
  /\ nConnectedCb
  /\ nConnectedCb' = FALSE
  /\ aStatus' = IF nDelegate THEN "established" ELSE aStatus
  /\ \/ /\ tCancelled \/ ~nDelegate
        /\ UNCHANGED <<readySignal, tStatus, writeStatus, readStatus, cReads,
                       cWrites, nReads, nWrites, nWritePending>>
     \/ /\ ~tCancelled /\ nDelegate
        /\ pCancelled                        \* respondTo returns early
        /\ readySignal' = readySignal + 1
        /\ UNCHANGED <<tStatus, writeStatus, readStatus, cReads, cWrites,
                       nReads, nWrites, nWritePending>>
     \/ /\ ~tCancelled /\ nDelegate
        /\ ~pCancelled /\ AnswersFirst
        /\ readySignal' = readySignal + 1
        /\ writeStatus' = "sendingConnectResponse"
        /\ ProxyWrite(ConnectResponse)
        /\ UNCHANGED <<tStatus, readStatus, cReads, nReads, nWrites, nWritePending>>
     \/ /\ ~tCancelled /\ nDelegate
        /\ ~pCancelled /\ ~AnswersFirst      \* the proxy is ready at once
        /\ readySignal' = readySignal + 2
        /\ writeStatus' = "forwarding"
        /\ StartForwarding
        /\ UNCHANGED cWrites
  /\ UNCHANGED <<cState, cReadCb, cWroteCb, cEmptyCb, cClosedCb, clientSent,
                 clientGot, pStatus, pCancelled, isConnect, nextAction, conn,
                 nCancelled, nCancelRequested, nCloseAfterWriting, nDelegate,
                 nReadCb, nReadErrCb, nWroteCb, nWriteErrCb, nClosedCb,
                 remoteSent, remoteGot, hasAdapter, aKind, aCancelled, readIV,
                 tCancelled, resolving, pumpTimers, delegate, closedCalls,
                 pEnds, aEnds, forced>>

\* didRead of the adapter and Tunnel.didRead: write to the client.  An empty
\* write completes by a block of its own.
AdapterReadForward ==
  /\ delegate
  /\ nReadCb # <<>>
  /\ nReadCb' = Tail(nReadCb)
  /\ IF nDelegate THEN Decrypts(Head(nReadCb)) ELSE UNCHANGED readIV
  /\ LET d == Plaintext(Head(nReadCb))
         forwards == nDelegate /\ ~tCancelled /\ ~pCancelled
     IN /\ IF forwards /\ d # IVOnly THEN ClientWrite(d) ELSE UNCHANGED cWrites
        /\ IF forwards /\ d = IVOnly THEN ClientWriteEmpty ELSE UNCHANGED cEmptyCb
  /\ UNCHANGED <<cState, cReads, cReadCb, cWroteCb, cClosedCb, clientSent,
                 clientGot, pVars, conn, nCancelled, nCancelRequested,
                 nWritePending, nCloseAfterWriting, nDelegate, nReads, nWrites,
                 nConnectedCb, nReadErrCb, nWroteCb, nWriteErrCb, nClosedCb,
                 remoteSent, remoteGot, hasAdapter, aKind, aStatus,
                 aCancelled, tVars>>

\* The block of a completed write (NWTCPSocket.send), AdapterSocket.didWrite
\* and Tunnel.didWrite: read the client again, then checkStatus.
AdapterWrote ==
  /\ delegate
  /\ nWroteCb > 0
  /\ nWroteCb' = nWroteCb - 1
  /\ nWritePending' = FALSE
  /\ IF nDelegate /\ ~tCancelled THEN ProxyReadData
                                 ELSE UNCHANGED <<readStatus, cReads>>
  /\ RemoteCheckStatus
  /\ UNCHANGED <<cState, cWrites, cReadCb, cWroteCb, cEmptyCb, cClosedCb,
                 clientSent, clientGot, pStatus, pCancelled, isConnect,
                 writeStatus, nextAction, conn, nCancelled,
                 nCloseAfterWriting, nDelegate, nReads, nWrites, nConnectedCb,
                 nReadCb, nReadErrCb, nWriteErrCb, nClosedCb, remoteSent,
                 remoteGot, aVars, tVars>>

\* The block of a failed read or write: NWTCPSocket.disconnect, which tells
\* its delegate at once when the connection is already cancelled.
TakeErrorCb ==
  \/ /\ nReadErrCb > 0
     /\ nReadErrCb' = nReadErrCb - 1
     /\ nCancelRequested' = (nCancelRequested \/ (~AnswersAtOnce /\ ~nWritePending))
     /\ UNCHANGED <<nWriteErrCb, nWritePending>>
  \/ /\ nWriteErrCb > 0
     /\ nWriteErrCb' = nWriteErrCb - 1
     /\ nWritePending' = FALSE
     /\ nCancelRequested' = (nCancelRequested \/ ~AnswersAtOnce)
     /\ UNCHANGED nReadErrCb

AdapterFailed ==
  /\ delegate
  /\ TakeErrorCb
  /\ nCancelled' = TRUE
  /\ nCloseAfterWriting' = (nCloseAfterWriting \/ ~AnswersAtOnce)
  /\ IF AnswersAtOnce /\ nDelegate
       THEN AdapterEnds
       ELSE UNCHANGED <<aStatus, aEnds, pStatus, pCancelled, cState, cReads,
                        cWrites, cClosedCb, tStatus, tCancelled, delegate,
                        closedCalls>>
  /\ UNCHANGED <<cReadCb, cWroteCb, cEmptyCb, clientSent, clientGot,
                 isConnect, readStatus, writeStatus, nextAction, conn,
                 nDelegate, nReads, nWrites, nConnectedCb, nReadCb, nWroteCb,
                 nClosedCb, remoteSent, remoteGot, hasAdapter, aKind,
                 aCancelled, readIV, readySignal, resolving, pumpTimers,
                 pEnds, forced>>

\* The block queued when the connection reported .cancelled.
AdapterDidDisconnect ==
  /\ delegate
  /\ nClosedCb
  /\ nClosedCb' = FALSE
  /\ nDelegate' = FALSE
  /\ AdapterEnds
  /\ UNCHANGED <<cReadCb, cWroteCb, cEmptyCb, clientSent, clientGot,
                 isConnect, readStatus, writeStatus, nextAction, conn,
                 nCancelled, nCancelRequested, nWritePending,
                 nCloseAfterWriting, nReads, nWrites, nConnectedCb, nReadCb,
                 nReadErrCb, nWroteCb, nWriteErrCb, remoteSent, remoteGot,
                 hasAdapter, aKind, aCancelled, readIV, readySignal,
                 resolving, pumpTimers, pEnds, forced>>

-----------------------------------------------------------------------------

\* forceClose(), called by ProxyServer.stop.
ForceClose ==
  /\ delegate
  /\ cState # "fresh"
  /\ forced' = TRUE
  /\ \/ /\ tCancelled
        /\ UNCHANGED <<pStatus, pCancelled, cState, cReads, cWrites,
                       cClosedCb, aStatus, aCancelled, aEnds, nCancelled,
                       nCloseAfterWriting, nCancelRequested, tStatus,
                       tCancelled, delegate, closedCalls>>
     \/ /\ ~tCancelled
        /\ tCancelled' = TRUE
        /\ IF pStatus # "closed"
             THEN ProxyForceDisconnect
             ELSE UNCHANGED <<pStatus, pCancelled, cState, cReads, cWrites,
                              cClosedCb>>
        /\ IF hasAdapter /\ ~AdapterDisconnected
             THEN /\ AdapterForceDisconnect
                  /\ IF AnswersAtOnce
                       THEN aEnds' = aEnds + 1 /\ CheckStatus
                       ELSE UNCHANGED aEnds /\ NotYetClosed
             ELSE /\ UNCHANGED <<aStatus, aCancelled, aEnds, nCancelled,
                                 nCloseAfterWriting, nCancelRequested>>
                  /\ NotYetClosed
  /\ UNCHANGED <<cReadCb, cWroteCb, cEmptyCb, clientSent, clientGot,
                 isConnect, readStatus, writeStatus, nextAction, conn,
                 nWritePending, nDelegate, nReads, nWrites, nConnectedCb,
                 nReadCb, nReadErrCb, nWroteCb, nWriteErrCb, nClosedCb,
                 remoteSent, remoteGot, hasAdapter, aKind, readIV,
                 readySignal, resolving, pumpTimers, pEnds>>

\* What the client, the connection and the remote host do.
ClientStep(A) == delegate /\ A /\ UNCHANGED <<pVars, nVars, aVars, tVars>>

RemoteStep(A) == delegate /\ A /\ UNCHANGED <<cVars, pVars, aVars, tVars>>

\* IV bytes come first, and only through a Shadowsocks server.
RemoteMaySend(d) ==
  /\ d = IVOnly => aKind = "shadowsocks" /\ ~readIV
  /\ RemoteSends(d)

\* After tunnelDidClose the server drops the tunnel and with it both sockets:
\* blocks still queued find nobody to call.
Released == ~delegate /\ UNCHANGED vars

Next ==
  \/ Accept
  \/ ProxyReadInvalid
  \/ ProxyReadRequest
  \/ ProxyReadForward
  \/ Resolved
  \/ ProxyWroteResponse
  \/ ProxyWrote
  \/ PumpAdapter
  \/ ProxyDidDisconnect
  \/ AdapterConnected
  \/ AdapterReadForward
  \/ AdapterWrote
  \/ AdapterFailed
  \/ AdapterDidDisconnect
  \/ ForceClose
  \/ ClientStep(ClientSends)
  \/ ClientStep(ClientReceives)
  \/ ClientStep(ClientGone)
  \/ RemoteStep(ConnUp)
  \/ RemoteStep(ConnLost)
  \/ RemoteStep(ConnCancelled)
  \/ \E d \in 0..MaxDown : RemoteStep(RemoteMaySend(d))
  \/ RemoteStep(RemoteEnds)
  \/ RemoteStep(RemoteReadFails)
  \/ RemoteStep(RemoteReceives)
  \/ RemoteStep(RemoteWriteFails)
  \/ Released

Spec == Init /\ [][Next]_vars

-----------------------------------------------------------------------------
(* Fairness.  The serial queue keeps running the blocks queued on it, timers
   fire, and a cancelled connection reports it.  The client and the network
   are not fair, except that a write handed to the system is eventually
   accepted or fails.  A client to which nothing is written may stay and do
   nothing for ever.                                                        *)

QueueFairness ==
  /\ WF_vars(Resolved)
  /\ WF_vars(ProxyReadInvalid \/ ProxyReadRequest \/ ProxyReadForward)
  /\ WF_vars(ProxyWroteResponse \/ ProxyWrote)
  /\ WF_vars(PumpAdapter)
  /\ WF_vars(ProxyDidDisconnect)
  /\ WF_vars(AdapterConnected)
  /\ WF_vars(AdapterReadForward)
  /\ WF_vars(AdapterWrote)
  /\ WF_vars(AdapterFailed)
  /\ WF_vars(AdapterDidDisconnect)

SystemFairness ==
  /\ WF_vars(RemoteStep(ConnCancelled))
  /\ WF_vars(RemoteStep(RemoteReceives) \/ RemoteStep(RemoteWriteFails))
  /\ WF_vars(ClientStep(ClientReceives) \/ (cWrites # <<>> /\ ClientStep(ClientGone)))

FairSpec == Spec /\ QueueFairness /\ SystemFairness

-----------------------------------------------------------------------------
(* Safety.                                                                 *)

\* The request line of a CONNECT is not forwarded and its answer comes before
\* the first chunk of the remote.
Skipped == IF isConnect THEN 1 ELSE 0

\* What is under way at each socket in each direction: reads asked for, chunks
\* read and not yet handled, writes not completed, and completions not yet
\* handled.
FromClient == cReads + Len(cReadCb)

ToRemote == Len(nWrites) + nWroteCb + nWriteErrCb

FromRemote == nReads + Len(nReadCb) + nReadErrCb

ToClient == Len(cWrites) + cWroteCb + cEmptyCb

UpTokens == FromClient + ToRemote

DownTokens == FromRemote + ToClient + pumpTimers

\* A socket is read or written again only after the last read or write is
\* finished: the condition under which every readData and write of the raw
\* sockets may be called, and the reason one writePending flag is enough.  At
\* most one chunk per direction is in memory.
OneChunkInFlight == UpTokens <= 1 /\ DownTokens <= 1

\* Chunk i that the remote received is the i-th the client sent (after the
\* CONNECT request, which is not forwarded); the client received the answer to
\* its CONNECT, then the response chunks in order: nothing is lost in the
\* middle, duplicated or reordered, whatever fails and closes.
StreamsInOrder ==
  /\ \A i \in DOMAIN remoteGot : remoteGot[i] = i + Skipped
  /\ \A i \in DOMAIN clientGot : clientGot[i] + Skipped = i

\* Both raw sockets work and nobody asked for a close.
Open ==
  /\ tStatus = "forwarding"
  /\ cState = "open" /\ ~pCancelled
  /\ conn = "connected" /\ ~nCancelled /\ nWriteErrCb = 0

\* The chunks of the response that were read and not yet handled: a read of IV
\* bytes only holds none.
ReadChunks == IF nReadCb = <<IVOnly>> THEN <<>> ELSE nReadCb

\* While both sides work, each chunk read is delivered or in exactly one of
\* the queues on its way.
NothingLostWhileOpen ==
  Open =>
    LET up   == remoteGot \o nWrites \o cReadCb
        down == clientGot \o cWrites \o ReadChunks
    IN /\ up = [i \in 1 .. clientSent - Skipped |-> i + Skipped]
       /\ down = [i \in 1 .. remoteSent + Skipped |-> i - Skipped]

\* The remote is not read, and no tunnelled bytes are taken from the client,
\* before the client received the answer to its CONNECT.
ConnectAnsweredFirst ==
  isConnect /\ (DownTokens - Len(cWrites) - cWroteCb > 0 \/ clientSent > 1)
    => clientGot # <<>>

\* The values forced by `!' on the forwarding path are there: the tunnel has
\* an adapter when a chunk arrives for it, and the adapter's raw socket has a
\* connection when it is read or written.
NoNilUnwrapped ==
  /\ ~tCancelled /\ cReadCb # <<>> /\ readStatus # "readingFirstHeader" => hasAdapter
  /\ nReads > 0 \/ nWrites # <<>> => conn # "nil"

\* The server is told tunnelDidClose exactly when the tunnel becomes closed,
\* once, and by then the client's socket is closed and the connection to the
\* remote does not exist or is cancelled: no closed tunnel leaks a socket, and
\* no tunnel with a live socket is forgotten by the server.
ClosedReleasesBoth ==
  /\ closedCalls = IF tStatus = "closed" THEN 1 ELSE 0
  /\ delegate <=> tStatus # "closed"
  /\ tStatus = "closed" =>
       /\ cState = "closed" /\ ~cClosedCb /\ pEnds = 1
       /\ conn \in {"nil", "cancelled"}

\* Once a close was asked for no read or write is started on either side.
NoIOAfterCancel ==
  [][tCancelled =>
       /\ cReads' <= cReads /\ Len(cWrites') <= Len(cWrites)
       /\ nReads' <= nReads /\ Len(nWrites') <= Len(nWrites)
       /\ cEmptyCb' <= cEmptyCb /\ pumpTimers' <= pumpTimers]_vars

\* Closing elegantly flushes: no elegant close of the proxy socket drops what
\* was written to the client, and the connection to the remote is not cancelled
\* while a write to it is pending.  Only forceClose on an open tunnel, and the
\* loss of the peer itself, drop data.
CloseFlushes ==
  [][/\ ~pCancelled /\ pCancelled' /\ ~forced' => cWrites' = cWrites
     /\ nWrites # <<>> /\ ~nCancelRequested /\ nCancelRequested' =>
          conn' = "disconnected" \/ (forced' /\ ~tCancelled)]_vars

-----------------------------------------------------------------------------
(* The tunnel implements Relay.                                            *)

Answered == isConnect /\ writeStatus # "invalid"

\* A chunk counts as taken for the remote when it is read, the request once it
\* is known not to be a CONNECT.
UpTaken == IF readStatus = "readingFirstHeader" THEN 0 ELSE clientSent - Skipped

DownTaken == remoteSent + (IF Answered THEN 1 ELSE 0)

Phase ==
  CASE tStatus = "invalid" -> "new"
    [] tStatus \in {"readingRequest", "waitingToBeReady", "forwarding"} -> "open"
    [] OTHER -> tStatus

Abstract == INSTANCE Relay WITH
  phase <- Phase, told <- closedCalls,
  upTaken <- UpTaken, upGiven <- Len(remoteGot),
  downTaken <- DownTaken, downGiven <- Len(clientGot)

\* What the server may rely on, whatever the order of blocks, closes and
\* failures: streams of one chunk at a time, nothing moves after the end, the
\* end is told once - and, with the fairness of the queue and of the system,
\* every tunnel that starts to close is reported closed.
ImplementsRelay == Abstract!FairSpec

-----------------------------------------------------------------------------
(* Liveness.                                                               *)

\* When the client is gone the tunnel closes, whatever the remote does.
ClientGoneCloses == cState = "closed" ~> tStatus = "closed"

\* When the connection to the remote is gone the tunnel closes.
RemoteGoneCloses == conn \in {"disconnected", "cancelled"} ~> tStatus = "closed"

\* Neither pump stalls: a forwarding tunnel waits for the client again and again
\* until one of the sides ends, and the remote is read again until it ends, by
\* closing its sending side or otherwise.
PumpsKeepReading ==
  /\ tStatus = "forwarding" ~> (cReads > 0 \/ pCancelled \/ tCancelled)
  /\ nReadCb # <<>> ~> (nReads > 0 \/ nCancelled \/ tCancelled \/ pCancelled)

-----------------------------------------------------------------------------
(* What the documentation says and the code does not keep.                 *)

\* Tunnel.forceClose: "Close the tunnel immediately."  No socket is left open.
ForceCloseIsImmediate ==
  forced => /\ cState = "closed"
            /\ hasAdapter => nCancelRequested \/ conn \in {"nil", "cancelled"}

\* SocketDelegate.didDisconnectWith: "This should only be called once in the
\* entire lifetime of a socket."
DisconnectsOnce == pEnds <= 1 /\ aEnds <= 1

=============================================================================
