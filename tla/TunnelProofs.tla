----------------------------- MODULE TunnelProofs -----------------------------
(***************************************************************************)
(* Proofs about module Tunnel, for any number of chunks.  First what each  *)
(* part of a handler does to the types of the variables it changes, then   *)
(* the type invariant; then that a tunnel never has more than one chunk in *)
(* flight in each direction; then how a tunnel ends: it is reported closed *)
(* once, with both sockets gone; no read or write is started once a close  *)
(* was asked for; an elegant close flushes.                                *)
(*                                                                         *)
(* Last what a tunnel carries: both streams arrive in order and without    *)
(* gaps, nothing is lost while both sides work, and a CONNECT is answered  *)
(* before any tunnelled byte.  With that, that a tunnel implements Relay.  *)
(***************************************************************************)
EXTENDS Tunnel, SequenceTheorems, TLAPS

\* The SMT encoding keeps truth values apart from other values; this fact joins
\* them.
LEMMA BooleanCases == \A x : x \in BOOLEAN <=> (x = TRUE \/ x = FALSE)
  OBVIOUS

-----------------------------------------------------------------------------
(* Types of what the parts of handlers assign.                             *)

ReadStatuses == {"invalid", "readingFirstHeader", "pendingFirstHeader",
                 "readingHeader", "readingContent"}

AdapterStatuses ==
  {"invalid", "connecting", "established", "disconnecting", "closed"}

TunnelStatuses == {"invalid", "readingRequest", "waitingToBeReady",
                   "forwarding", "closing", "closed"}

LEMMA ProxyReadDataType ==
  ASSUME TypeOK, ProxyReadData
  PROVE  cReads' \in Nat /\ readStatus' \in ReadStatuses
  BY DEF TypeOK, TypeOKClient, TypeOKProxy, ProxyReadData, HandsOverHeader,
         ClientRead, ReadStatuses

LEMMA AdapterReadType ==
  ASSUME TypeOK, AdapterRead
  PROVE  nReads' \in Nat
  BY DEF TypeOK, TypeOKRemote, AdapterRead, RemoteRead

LEMMA ClientWriteType ==
  ASSUME cWrites \in Seq(Nat), NEW d \in Nat, ClientWrite(d)
  PROVE  cWrites' \in Seq(Nat)
  BY DEF ClientWrite

LEMMA RemoteWriteType ==
  ASSUME nWrites \in Seq(Nat), nWritePending \in BOOLEAN, nCancelled \in BOOLEAN,
         NEW d \in Nat, RemoteWrite(d)
  PROVE  nWrites' \in Seq(Nat) /\ nWritePending' \in BOOLEAN
<1>1. nWrites' \in Seq(Nat)
  BY DEF RemoteWrite
<1>2. nWritePending' \in BOOLEAN
  BY BooleanCases DEF RemoteWrite
<1> QED
  BY <1>1, <1>2

LEMMA AdapterWriteType ==
  ASSUME TypeOK, NEW d \in Nat, AdapterWrite(d)
  PROVE  nWrites' \in Seq(Nat) /\ nWritePending' \in BOOLEAN
<1>1. CASE aCancelled
  BY <1>1 DEF AdapterWrite, TypeOK, TypeOKRemote
<1>2. CASE ~aCancelled
  BY <1>2, RemoteWriteType DEF AdapterWrite, TypeOK, TypeOKRemote
<1> QED
  BY <1>1, <1>2

\* The variables that the second ready signal changes.
ForwardingTypes ==
  /\ tStatus \in TunnelStatuses
  /\ readySignal \in Nat
  /\ cReads \in Nat /\ readStatus \in ReadStatuses
  /\ nReads \in Nat
  /\ nWrites \in Seq(Nat) /\ nWritePending \in BOOLEAN

LEMMA StartForwardingType ==
  ASSUME TypeOK, StartForwarding, readySignal' \in Nat
  PROVE  ForwardingTypes'
  BY ProxyReadDataType, AdapterReadType, AdapterWriteType
     DEF StartForwarding, FirstHeader, ForwardingTypes, TunnelStatuses, TypeOK,
         TypeOKRemote

\* The variables of the proxy socket that a close of it changes.
ProxySideTypes ==
  /\ cState \in {"fresh", "open", "flushing", "closed"}
  /\ cReads \in Nat
  /\ cWrites \in Seq(Nat)
  /\ cClosedCb \in BOOLEAN
  /\ pStatus \in {"established", "disconnecting", "closed"}
  /\ pCancelled \in BOOLEAN

LEMMA ClientCloseType ==
  ASSUME TypeOK, ClientClose
  PROVE  /\ cState' \in {"fresh", "open", "flushing", "closed"}
         /\ cReads' \in Nat
         /\ cWrites' \in Seq(Nat)
         /\ cClosedCb' \in BOOLEAN
  BY DEF ClientClose

LEMMA ProxyDisconnectType ==
  ASSUME TypeOK, ProxyDisconnect
  PROVE  ProxySideTypes'
  BY ClientCloseType
     DEF ProxyDisconnect, ClientDisconnect, ProxySideTypes, TypeOK,
         TypeOKClient, TypeOKProxy

LEMMA ProxyForceDisconnectType ==
  ASSUME TypeOK, ProxyForceDisconnect
  PROVE  ProxySideTypes'
  BY ClientCloseType
     DEF ProxyForceDisconnect, ClientForceDisconnect, ProxySideTypes, TypeOK,
         TypeOKClient, TypeOKProxy

LEMMA CloseProxySideType ==
  ASSUME TypeOK, CloseProxySide
  PROVE  ProxySideTypes'
  BY ProxyDisconnectType
     DEF CloseProxySide, ProxySideTypes, TypeOK, TypeOKClient, TypeOKProxy

LEMMA CheckStatusType ==
  ASSUME TypeOK, CheckStatus
  PROVE  /\ tStatus' \in {"closing", "closed"}
         /\ delegate' \in BOOLEAN
         /\ closedCalls' \in Nat
  BY BooleanCases DEF TypeOK, CheckStatus

\* The variables of the adapter side that a close of it changes.
AdapterSideTypes ==
  /\ aStatus \in AdapterStatuses
  /\ aEnds \in Nat
  /\ aCancelled \in BOOLEAN
  /\ nCancelled \in BOOLEAN
  /\ nCloseAfterWriting \in BOOLEAN
  /\ nCancelRequested \in BOOLEAN

LEMMA CloseAdapterSideType ==
  ASSUME TypeOK, CloseAdapterSide
  PROVE  AdapterSideTypes'
  BY BooleanCases
     DEF TypeOK, TypeOKAdapter, TypeOKRemote, CloseAdapterSide,
         AdapterDisconnect, RemoteDisconnect, AnswersAtOnce, AdapterSideTypes,
         AdapterStatuses

LEMMA AdapterForceDisconnectType ==
  ASSUME TypeOK, AdapterForceDisconnect
  PROVE  /\ aStatus' \in AdapterStatuses
         /\ aCancelled' \in BOOLEAN
         /\ nCancelled' \in BOOLEAN
         /\ nCloseAfterWriting' \in BOOLEAN
         /\ nCancelRequested' \in BOOLEAN
  BY BooleanCases
     DEF TypeOK, TypeOKRemote, AdapterForceDisconnect, RemoteForceDisconnect,
         AnswersAtOnce, AdapterStatuses

LEMMA AdapterEndsType ==
  ASSUME TypeOK, AdapterEnds
  PROVE  /\ ProxySideTypes'
         /\ aStatus' = "closed"
         /\ aEnds' \in Nat
         /\ tStatus' \in {"closing", "closed"}
         /\ tCancelled' \in BOOLEAN
         /\ delegate' \in BOOLEAN
         /\ closedCalls' \in Nat
  BY CloseProxySideType, CheckStatusType DEF AdapterEnds, TypeOK

-----------------------------------------------------------------------------
(* Every variable keeps its type.                                          *)

LEMMA TypeStep ==
  ASSUME TypeOK, [Next]_vars
  PROVE  TypeOK'
<1> USE DEF TypeOK, TypeOKClient, TypeOKProxy, TypeOKRemote, TypeOKAdapter,
            cVars, pVars, nVars, aVars, tVars
<1>1. CASE Accept
  BY <1>1 DEF Accept, ProxyOpen
<1>2. CASE ProxyReadInvalid
  BY <1>2, ProxyDisconnectType
     DEF ProxyReadInvalid, TakeReadCb, ScanFails, ProxySideTypes
<1>3. CASE ProxyReadRequest
  BY <1>3, BooleanCases
     DEF ProxyReadRequest, TakeReadCb, ScanFirst, DidReceive, OpenAdapter,
         AdapterOpen, RemoteConnect
<1>4. CASE ProxyReadForward
  BY <1>4, AdapterWriteType
     DEF ProxyReadForward, TakeReadCb, ScanNext, Forwarded
<1>5. CASE Resolved
  BY <1>5, BooleanCases DEF Resolved, OpenAdapter, AdapterOpen, RemoteConnect
<1>6. CASE ProxyWroteResponse
  <2>1. cWroteCb' \in Nat /\ cEmptyCb' \in Nat
    BY <1>6 DEF ProxyWroteResponse, TakeWroteCb
  <2>2. ForwardingTypes'
    <3>1. CASE ~tCancelled /\ readySignal = 1
      <4>1. StartForwarding /\ readySignal' \in Nat
        BY <1>6, <3>1 DEF ProxyWroteResponse
      <4> QED
        BY <4>1, StartForwardingType
    <3>2. CASE tCancelled \/ readySignal # 1
      BY <1>6, <3>2, BooleanCases
         DEF ProxyWroteResponse, ForwardingTypes, TunnelStatuses, ReadStatuses
    <3> QED
      BY <3>1, <3>2
  <2>3. /\ UNCHANGED <<cState, cWrites, cReadCb, cClosedCb, clientSent, clientGot,
                      pStatus, pCancelled, isConnect, nextAction>>
        /\ writeStatus' = "forwarding"
    BY <1>6 DEF ProxyWroteResponse
  <2>4. UNCHANGED <<conn, nCancelled, nCancelRequested, nCloseAfterWriting,
                    nDelegate, nConnectedCb, nReadCb, nReadErrCb, nWroteCb,
                    nWriteErrCb, nClosedCb, remoteSent, remoteGot, aVars>>
    BY <1>6 DEF ProxyWroteResponse
  <2>5. UNCHANGED <<tCancelled, resolving, pumpTimers, delegate, closedCalls,
                    pEnds, aEnds, forced>>
    BY <1>6 DEF ProxyWroteResponse
  <2> QED
    BY <2>1, <2>2, <2>3, <2>4, <2>5
       DEF ForwardingTypes, ReadStatuses, TunnelStatuses
<1>7. CASE ProxyWrote
  BY <1>7 DEF ProxyWrote, TakeWroteCb
<1>8. CASE PumpAdapter
  BY <1>8, AdapterReadType DEF PumpAdapter
<1>9. CASE ProxyDidDisconnect
  BY <1>9, BooleanCases, CloseAdapterSideType, CheckStatusType
     DEF ProxyDidDisconnect, AdapterSideTypes, AdapterStatuses
<1>10. CASE AdapterConnected
  <2>1. aStatus' \in AdapterStatuses /\ nConnectedCb' \in BOOLEAN
    BY <1>10, BooleanCases DEF AdapterConnected, AdapterStatuses
  <2>2. ForwardingTypes'
    <3>1. CASE StartForwarding /\ readySignal' = readySignal + 2
      <4>1. readySignal' \in Nat
        BY <3>1
      <4> QED
        BY <3>1, <4>1, StartForwardingType
    <3>2. CASE /\ readySignal' \in {readySignal, readySignal + 1}
               /\ UNCHANGED <<tStatus, readStatus, cReads, nReads, nWrites,
                              nWritePending>>
      BY <3>2 DEF ForwardingTypes, TunnelStatuses, ReadStatuses
    <3> QED
      BY <1>10, <3>1, <3>2 DEF AdapterConnected
  <2>3. cWrites' = cWrites \/ ClientWrite(ConnectResponse)
    BY <1>10 DEF AdapterConnected, ProxyWrite
  <2>4. cWrites' \in Seq(Nat)
    BY <2>3, ClientWriteType DEF ConnectResponse
  <2>5. writeStatus' \in {"invalid", "sendingConnectResponse", "forwarding"}
    BY <1>10 DEF AdapterConnected
  <2>6. UNCHANGED <<cState, cReadCb, cWroteCb, cEmptyCb, cClosedCb, clientSent,
                    clientGot, pStatus, pCancelled, isConnect, nextAction>>
    BY <1>10 DEF AdapterConnected
  <2>7. UNCHANGED <<conn, nCancelled, nCancelRequested, nCloseAfterWriting,
                    nDelegate, nReadCb, nReadErrCb, nWroteCb, nWriteErrCb,
                    nClosedCb, remoteSent, remoteGot, hasAdapter, aKind,
                    aCancelled, readIV>>
    BY <1>10 DEF AdapterConnected
  <2>8. UNCHANGED <<tCancelled, resolving, pumpTimers, delegate, closedCalls,
                    pEnds, aEnds, forced>>
    BY <1>10 DEF AdapterConnected
  <2> QED
    BY <2>1, <2>2, <2>4, <2>5, <2>6, <2>7, <2>8
       DEF ForwardingTypes, AdapterStatuses, ReadStatuses, TunnelStatuses
<1>11. CASE AdapterReadForward
  <2>1. nReadCb' \in Seq(Nat) /\ Head(nReadCb) \in Nat
    BY <1>11 DEF AdapterReadForward
  <2>2. cWrites' \in Seq(Nat)
    <3>1. cWrites' = cWrites \/ ClientWrite(Head(nReadCb))
      BY <1>11 DEF AdapterReadForward, Plaintext
    <3> QED
      BY <2>1, <3>1, ClientWriteType
  <2>3. cEmptyCb' \in Nat
    BY <1>11 DEF AdapterReadForward, ClientWriteEmpty
  <2>4. readIV' \in BOOLEAN
    BY <1>11, BooleanCases DEF AdapterReadForward, Decrypts
  <2> QED
    BY <1>11, <2>1, <2>2, <2>3, <2>4 DEF AdapterReadForward
<1>12. CASE AdapterWrote
  BY <1>12, BooleanCases, ProxyReadDataType
     DEF AdapterWrote, RemoteCheckStatus, ReadStatuses
<1>13. CASE AdapterFailed
  <2>1. /\ nReadErrCb' \in Nat /\ nWriteErrCb' \in Nat
        /\ nCancelRequested' \in BOOLEAN /\ nWritePending' \in BOOLEAN
    BY <1>13, BooleanCases DEF AdapterFailed, TakeErrorCb, AnswersAtOnce
  <2>2. nCancelled' \in BOOLEAN /\ nCloseAfterWriting' \in BOOLEAN
    BY <1>13, BooleanCases DEF AdapterFailed, AnswersAtOnce
  <2>3. /\ ProxySideTypes'
        /\ aStatus' \in AdapterStatuses /\ aEnds' \in Nat
        /\ tStatus' \in TunnelStatuses /\ tCancelled' \in BOOLEAN
        /\ delegate' \in BOOLEAN /\ closedCalls' \in Nat
    <3>1. CASE AnswersAtOnce /\ nDelegate
      BY <1>13, <3>1, AdapterEndsType
         DEF AdapterFailed, AdapterStatuses, TunnelStatuses
    <3>2. CASE ~(AnswersAtOnce /\ nDelegate)
      BY <1>13, <3>2
         DEF AdapterFailed, ProxySideTypes, AdapterStatuses, TunnelStatuses
    <3> QED
      BY <3>1, <3>2
  <2> QED
    BY <1>13, <2>1, <2>2, <2>3
       DEF AdapterFailed, ProxySideTypes, AdapterStatuses, TunnelStatuses
<1>14. CASE AdapterDidDisconnect
  BY <1>14, BooleanCases, AdapterEndsType DEF AdapterDidDisconnect, ProxySideTypes
<1>15. CASE ForceClose
  <2>1. CASE tCancelled
    BY <1>15, <2>1 DEF ForceClose
  <2>2. CASE ~tCancelled
    <3>1. ProxySideTypes'
      BY <1>15, <2>2, ProxyForceDisconnectType DEF ForceClose, ProxySideTypes
    <3>2. AdapterSideTypes'
      <4>1. \/ AdapterForceDisconnect /\ aEnds' \in {aEnds, aEnds + 1}
            \/ UNCHANGED <<aStatus, aCancelled, aEnds, nCancelled,
                           nCloseAfterWriting, nCancelRequested>>
        BY <1>15, <2>2 DEF ForceClose
      <4> QED
        BY <4>1, AdapterForceDisconnectType DEF AdapterSideTypes, AdapterStatuses
    <3>3. /\ tStatus' \in TunnelStatuses
          /\ delegate' \in BOOLEAN /\ closedCalls' \in Nat
      BY <1>15, <2>2, CheckStatusType DEF ForceClose, NotYetClosed, TunnelStatuses
    <3>4. UNCHANGED <<cReadCb, cWroteCb, cEmptyCb, clientSent, clientGot,
                      isConnect, readStatus, writeStatus, nextAction>>
      BY <1>15 DEF ForceClose
    <3>5. UNCHANGED <<conn, nWritePending, nDelegate, nReads, nWrites,
                      nConnectedCb, nReadCb, nReadErrCb, nWroteCb, nWriteErrCb,
                      nClosedCb, remoteSent, remoteGot, hasAdapter, aKind,
                      readIV, readySignal, resolving, pumpTimers, pEnds>>
      BY <1>15 DEF ForceClose
    <3>6. tCancelled' = TRUE /\ forced' = TRUE
      BY <1>15, <2>2 DEF ForceClose
    <3> QED
      BY <3>1, <3>2, <3>3, <3>4, <3>5, <3>6
         DEF ProxySideTypes, AdapterSideTypes, AdapterStatuses, TunnelStatuses
  <2> QED
    BY <2>1, <2>2
<1>16. CASE ClientStep(ClientSends)
  BY <1>16 DEF ClientStep, ClientSends
<1>17. CASE ClientStep(ClientReceives)
  <2>1. /\ cState' \in {"fresh", "open", "flushing", "closed"}
        /\ cReads' \in Nat /\ cWrites' \in Seq(Nat) /\ cClosedCb' \in BOOLEAN
    <3>1. \/ ClientClose
          \/ cWrites' = Tail(cWrites) /\ UNCHANGED <<cState, cReads, cClosedCb>>
      BY <1>17 DEF ClientStep, ClientReceives
    <3>2. Tail(cWrites) \in Seq(Nat)
      BY <1>17 DEF ClientStep, ClientReceives
    <3> QED
      BY <3>1, <3>2, ClientCloseType
  <2>2. clientGot' \in Seq(Nat) /\ cWroteCb' \in Nat
    BY <1>17 DEF ClientStep, ClientReceives
  <2> QED
    BY <1>17, <2>1, <2>2 DEF ClientStep, ClientReceives
<1>18. CASE ClientStep(ClientGone)
  BY <1>18, ClientCloseType DEF ClientStep, ClientGone
<1>19. CASE RemoteStep(ConnUp)
  BY <1>19 DEF RemoteStep, ConnUp
<1>20. CASE RemoteStep(ConnLost)
  BY <1>20 DEF RemoteStep, ConnLost
<1>21. CASE RemoteStep(ConnCancelled)
  BY <1>21 DEF RemoteStep, ConnCancelled
<1>22. CASE \E d \in 0..MaxDown : RemoteStep(RemoteMaySend(d))
  BY <1>22, MaxDownAssumption DEF RemoteStep, RemoteMaySend, RemoteSends, IVOnly
<1>23. CASE RemoteStep(RemoteEnds)
  BY <1>23 DEF RemoteStep, RemoteEnds
<1>24. CASE RemoteStep(RemoteReadFails)
  BY <1>24 DEF RemoteStep, RemoteReadFails
<1>25. CASE RemoteStep(RemoteReceives)
  BY <1>25 DEF RemoteStep, RemoteReceives
<1>26. CASE RemoteStep(RemoteWriteFails)
  BY <1>26 DEF RemoteStep, RemoteWriteFails
<1>27. CASE Released
  BY <1>27 DEF Released, vars
<1>28. CASE UNCHANGED vars
  BY <1>28 DEF vars
<1> QED
  BY <1>1, <1>2, <1>3, <1>4, <1>5, <1>6, <1>7, <1>8, <1>9, <1>10, <1>11,
     <1>12, <1>13, <1>14, <1>15, <1>16, <1>17, <1>18, <1>19, <1>20, <1>21,
     <1>22, <1>23, <1>24, <1>25, <1>26, <1>27, <1>28 DEF Next

\* Every variable keeps its type, for any number of chunks: in particular no
\* counter of outstanding work ever becomes negative.
THEOREM TypeCorrect == Spec => []TypeOK
<1>1. Init => TypeOK
  BY BooleanCases
     DEF Init, InitClient, InitProxy, InitRemote, InitAdapter, TypeOK,
         TypeOKClient, TypeOKProxy, TypeOKRemote, TypeOKAdapter
<1>2. TypeOK /\ [Next]_vars => TypeOK'
  BY TypeStep
<1> QED
  BY <1>1, <1>2, PTL DEF Spec

-----------------------------------------------------------------------------
(* Flow.  Chunks, and the reads, writes, blocks and timers that move them, *)
(* are counted as tokens: a handler takes one token and makes at most one, *)
(* so what has to be shown is that the handlers which make a token out of  *)
(* nothing - the opening, the answer to CONNECT and the second ready       *)
(* signal - run while there is none.                                       *)

\* The inductive invariant.  Before the second ready signal there is nothing
\* under way but the first header; the connection is made once, after the first
\* header; the first ready signal is the connection's.
TokenInv ==
  /\ OneChunkInFlight
  /\ cState = "fresh" => readStatus = "invalid"
  /\ readStatus \in {"invalid", "readingFirstHeader"} => conn = "nil" /\ ~resolving
  /\ resolving => conn = "nil"
  /\ conn \in {"nil", "connecting"} => readySignal = 0 /\ ~nConnectedCb
  /\ nConnectedCb => readySignal = 0
  /\ readySignal = 0 => DownTokens = 0
  /\ readySignal <= 1 /\ readStatus # "readingFirstHeader" => UpTokens = 0
  /\ readStatus = "readingFirstHeader" =>
       nWrites = <<>> /\ nWroteCb = 0 /\ nWriteErrCb = 0

-----------------------------------------------------------------------------
(* Tokens made by the parts of handlers.                                   *)

LEMMA LenFacts ==
  ASSUME NEW s \in Seq(Nat), NEW e \in Nat
  PROVE  /\ Len(s) \in Nat
         /\ s # <<>> => Tail(s) \in Seq(Nat) /\ Len(Tail(s)) = Len(s) - 1
         /\ Append(s, e) \in Seq(Nat) /\ Len(Append(s, e)) = Len(s) + 1
  OBVIOUS

LEMMA HeadTypes == \A s \in Seq(Nat) : s # <<>> => Head(s) \in Nat
  OBVIOUS

LEMMA LenEmpty == \A s \in Seq(Nat) : Len(s) = 0 <=> s = <<>>
  OBVIOUS

LEMMA TokenTypes ==
  ASSUME TypeOK
  PROVE  /\ cReads \in Nat /\ Len(cReadCb) \in Nat /\ Len(nWrites) \in Nat
         /\ nWroteCb \in Nat /\ nWriteErrCb \in Nat
         /\ nReads \in Nat /\ Len(nReadCb) \in Nat /\ nReadErrCb \in Nat
         /\ Len(cWrites) \in Nat /\ cWroteCb \in Nat /\ cEmptyCb \in Nat
         /\ pumpTimers \in Nat /\ readySignal \in Nat
  BY DEF TypeOK, TypeOKClient, TypeOKRemote

LEMMA TokenTypesAfter ==
  ASSUME TypeOK'
  PROVE  /\ cReads' \in Nat /\ Len(cReadCb') \in Nat /\ Len(nWrites') \in Nat
         /\ nWroteCb' \in Nat /\ nWriteErrCb' \in Nat
         /\ nReads' \in Nat /\ Len(nReadCb') \in Nat /\ nReadErrCb' \in Nat
         /\ Len(cWrites') \in Nat /\ cWroteCb' \in Nat /\ cEmptyCb' \in Nat
         /\ pumpTimers' \in Nat /\ readySignal' \in Nat
<1>1. TypeOKClient' /\ TypeOKRemote' /\ pumpTimers' \in Nat /\ readySignal' \in Nat
  BY DEF TypeOK
<1>2. /\ cReads' \in Nat /\ Len(cReadCb') \in Nat /\ Len(cWrites') \in Nat
      /\ cWroteCb' \in Nat /\ cEmptyCb' \in Nat
  BY <1>1 DEF TypeOKClient
<1>3. /\ nReads' \in Nat /\ Len(nReadCb') \in Nat /\ Len(nWrites') \in Nat
      /\ nReadErrCb' \in Nat /\ nWroteCb' \in Nat /\ nWriteErrCb' \in Nat
  BY <1>1 DEF TypeOKRemote
<1> QED
  BY <1>1, <1>2, <1>3

LEMMA SumTypes ==
  ASSUME TypeOK
  PROVE  /\ FromClient \in Nat /\ ToRemote \in Nat
         /\ FromRemote \in Nat /\ ToClient \in Nat
<1>1. FromClient \in Nat
  BY TokenTypes DEF FromClient
<1>2. ToRemote \in Nat
  BY TokenTypes DEF ToRemote
<1>3. FromRemote \in Nat
  BY TokenTypes DEF FromRemote
<1>4. ToClient \in Nat
  BY TokenTypes DEF ToClient
<1> QED
  BY <1>1, <1>2, <1>3, <1>4

LEMMA SumTypesAfter ==
  ASSUME TypeOK'
  PROVE  /\ FromClient' \in Nat /\ ToRemote' \in Nat
         /\ FromRemote' \in Nat /\ ToClient' \in Nat
<1>1. FromClient' \in Nat
  BY TokenTypesAfter DEF FromClient
<1>2. ToRemote' \in Nat
  BY TokenTypesAfter DEF ToRemote
<1>3. FromRemote' \in Nat
  BY TokenTypesAfter DEF FromRemote
<1>4. ToClient' \in Nat
  BY TokenTypesAfter DEF ToClient
<1> QED
  BY <1>1, <1>2, <1>3, <1>4

\* The types of all terms before and after a step.  They are stated as a set, and
\* bounds on primed terms as inequalities, because the arithmetic of primed and
\* unprimed terms is in the provers' reach in that form only.
LEMMA FromClientNat ==
  ASSUME TypeOK, TypeOK'
  PROVE  {cReads, Len(cReadCb), cReads', Len(cReadCb')} \subseteq Nat
  BY TokenTypes, TokenTypesAfter

LEMMA ToRemoteNat ==
  ASSUME TypeOK, TypeOK'
  PROVE  {Len(nWrites), nWroteCb, nWriteErrCb, Len(nWrites'), nWroteCb',
          nWriteErrCb'} \subseteq Nat
  BY TokenTypes, TokenTypesAfter

LEMMA FromRemoteNat ==
  ASSUME TypeOK, TypeOK'
  PROVE  {nReads, Len(nReadCb), nReadErrCb, nReads', Len(nReadCb'),
          nReadErrCb'} \subseteq Nat
  BY TokenTypes, TokenTypesAfter

LEMMA ToClientNat ==
  ASSUME TypeOK, TypeOK'
  PROVE  {Len(cWrites), cWroteCb, cEmptyCb, Len(cWrites'), cWroteCb',
          cEmptyCb'} \subseteq Nat
  BY TokenTypes, TokenTypesAfter

LEMMA SumsAreNat ==
  ASSUME TypeOK, TypeOK'
  PROVE  {FromClient, ToRemote, FromRemote, ToClient, pumpTimers, FromClient',
          ToRemote', FromRemote', ToClient', pumpTimers'} \subseteq Nat
  BY SumTypes, SumTypesAfter, TokenTypes, TokenTypesAfter

LEMMA UpTokensType == ASSUME TypeOK PROVE UpTokens \in Nat
  BY SumTypes DEF UpTokens

LEMMA SumOfThree ==
  \A i, j, k \in Nat : i + j + k \in Nat /\ (i + j + k = 0 => i = 0 /\ j = 0 /\ k = 0)
  OBVIOUS

LEMMA DownParts ==
  ASSUME TypeOK
  PROVE  FromRemote \in Nat /\ ToClient \in Nat /\ pumpTimers \in Nat
  BY SumTypes DEF TypeOK

LEMMA DownTokensType == ASSUME TypeOK PROVE DownTokens \in Nat
  BY DownParts, SumOfThree DEF DownTokens

LEMMA UpTokensTypeAfter == ASSUME TypeOK' PROVE UpTokens' \in Nat
  BY SumTypesAfter DEF UpTokens

LEMMA DownTokensTypeAfter == ASSUME TypeOK' PROVE DownTokens' \in Nat
<1>1. FromRemote' \in Nat /\ ToClient' \in Nat /\ pumpTimers' \in Nat
  BY SumTypesAfter, TokenTypesAfter
<1> QED
  BY <1>1, SumOfThree DEF DownTokens

\* Without a token nothing is under way.
LEMMA NoUpTokens ==
  ASSUME TypeOK, UpTokens = 0
  PROVE  /\ cReads = 0 /\ cReadCb = <<>>
         /\ nWrites = <<>> /\ nWroteCb = 0 /\ nWriteErrCb = 0
<1>1. FromClient = 0 /\ ToRemote = 0
  BY SumTypes DEF UpTokens
<1>2. cReads = 0 /\ Len(cReadCb) = 0
  <2>1. cReads \in Nat /\ Len(cReadCb) \in Nat
    BY TokenTypes
  <2> QED
    BY <1>1, <2>1 DEF FromClient
<1>3. Len(nWrites) = 0 /\ nWroteCb = 0 /\ nWriteErrCb = 0
  <2>1. Len(nWrites) \in Nat /\ nWroteCb \in Nat /\ nWriteErrCb \in Nat
    BY TokenTypes
  <2> QED
    BY <1>1, <2>1, SumOfThree DEF ToRemote
<1>4. nWrites \in Seq(Nat) /\ cReadCb \in Seq(Nat)
  BY DEF TypeOK, TypeOKClient, TypeOKRemote
<1> QED
  BY <1>2, <1>3, <1>4, LenEmpty

LEMMA NoDownTokens ==
  ASSUME TypeOK, DownTokens = 0
  PROVE  /\ nReads = 0 /\ nReadErrCb = 0 /\ nReadCb = <<>>
         /\ cWrites = <<>> /\ cWroteCb = 0 /\ cEmptyCb = 0 /\ pumpTimers = 0
<1>1. FromRemote = 0 /\ ToClient = 0 /\ pumpTimers = 0
  BY DownParts, SumOfThree DEF DownTokens
<1>2. nReads = 0 /\ Len(nReadCb) = 0 /\ nReadErrCb = 0
  <2>1. nReads \in Nat /\ Len(nReadCb) \in Nat /\ nReadErrCb \in Nat
    BY TokenTypes
  <2> QED
    BY <1>1, <2>1, SumOfThree DEF FromRemote
<1>3. Len(cWrites) = 0 /\ cWroteCb = 0 /\ cEmptyCb = 0
  <2>1. Len(cWrites) \in Nat /\ cWroteCb \in Nat /\ cEmptyCb \in Nat
    BY TokenTypes
  <2> QED
    BY <1>1, <2>1, SumOfThree DEF ToClient
<1>4. nReadCb \in Seq(Nat) /\ cWrites \in Seq(Nat)
  BY DEF TypeOK, TypeOKClient, TypeOKRemote
<1> QED
  BY <1>1, <1>2, <1>3, <1>4, LenEmpty

LEMMA ProxyReadDataTokens ==
  ASSUME TypeOK, ProxyReadData
  PROVE  /\ cReads' \in Nat /\ cReads' <= cReads + 1
         /\ HandsOverHeader => cReads' = cReads
         /\ readStatus' \in {readStatus, "readingHeader", "readingContent"}
  BY DEF TypeOK, TypeOKClient, ProxyReadData, HandsOverHeader, ClientRead

LEMMA AdapterReadTokens ==
  ASSUME TypeOK, AdapterRead
  PROVE  nReads' <= nReads + 1
  BY DEF TypeOK, TypeOKRemote, AdapterRead, RemoteRead

LEMMA AdapterWriteTokens ==
  ASSUME TypeOK, NEW d \in Nat, AdapterWrite(d)
  PROVE  Len(nWrites') \in Nat /\ Len(nWrites') <= Len(nWrites) + 1
<1>1. nWrites \in Seq(Nat)
  BY DEF TypeOK, TypeOKRemote
<1>2. nWrites' = nWrites \/ nWrites' = Append(nWrites, d)
  BY DEF AdapterWrite, RemoteWrite
<1> QED
  BY <1>1, <1>2, LenFacts

LEMMA StartForwardingTokens ==
  ASSUME TypeOK, StartForwarding
  PROVE  /\ cReads' + Len(nWrites') <= cReads + Len(nWrites) + 1
         /\ nReads' <= nReads + 1
         /\ readStatus' \in {readStatus, "readingHeader", "readingContent"}
<1>1. CASE HandsOverHeader
  <2>1. ProxyReadData /\ AdapterWrite(FirstHeader) /\ AdapterRead
    BY <1>1 DEF StartForwarding
  <2>2. cReads' = cReads /\ Len(nWrites') <= Len(nWrites) + 1 /\ Len(nWrites') \in Nat
    BY <1>1, <2>1, ProxyReadDataTokens, AdapterWriteTokens DEF FirstHeader
  <2>3. cReads \in Nat /\ Len(nWrites) \in Nat
    BY TokenTypes
  <2>4. cReads' + Len(nWrites') <= cReads + Len(nWrites) + 1
    BY <2>2, <2>3
  <2> QED
    BY <2>1, <2>4, ProxyReadDataTokens, AdapterReadTokens
<1>2. CASE ~HandsOverHeader
  <2>1. ProxyReadData /\ AdapterRead /\ nWrites' = nWrites
    BY <1>2 DEF StartForwarding
  <2>2. cReads' \in Nat /\ cReads' <= cReads + 1
    BY <2>1, ProxyReadDataTokens
  <2>3. cReads \in Nat /\ Len(nWrites) \in Nat
    BY TokenTypes
  <2>4. cReads' + Len(nWrites') <= cReads + Len(nWrites) + 1
    BY <2>1, <2>2, <2>3
  <2> QED
    BY <2>1, <2>4, ProxyReadDataTokens, AdapterReadTokens
<1> QED
  BY <1>1, <1>2

\* A close of the proxy socket only drops tokens.
DropsProxyTokens ==
  /\ cReads' <= cReads
  /\ Len(cWrites') <= Len(cWrites)
  /\ cState' = "fresh" => cState = "fresh"

LEMMA ClientCloseTokens ==
  ASSUME TypeOK, ClientClose
  PROVE  DropsProxyTokens
  BY TokenTypes DEF ClientClose, DropsProxyTokens

LEMMA ProxyDisconnectTokens ==
  ASSUME TypeOK, ProxyDisconnect
  PROVE  DropsProxyTokens
  BY ClientCloseTokens, TokenTypes
     DEF ProxyDisconnect, ClientDisconnect, DropsProxyTokens

LEMMA ProxyForceDisconnectTokens ==
  ASSUME TypeOK, ProxyForceDisconnect
  PROVE  DropsProxyTokens
  BY ClientCloseTokens, TokenTypes
     DEF ProxyForceDisconnect, ClientForceDisconnect, DropsProxyTokens

LEMMA AdapterEndsTokens ==
  ASSUME TypeOK, AdapterEnds
  PROVE  DropsProxyTokens
  BY ProxyDisconnectTokens, TokenTypes
     DEF AdapterEnds, CloseProxySide, DropsProxyTokens

\* A step that makes no token out of nothing.
Quiet ==
  /\ UpTokens' <= UpTokens
  /\ DownTokens' <= DownTokens
  /\ UNCHANGED <<readStatus, readySignal, resolving>>
  /\ cState' = "fresh" => cState = "fresh"
  /\ nConnectedCb' => nConnectedCb
  /\ conn' = conn \/ (conn # "nil" /\ conn' \notin {"nil", "connecting"})
  /\ readStatus = "readingFirstHeader" =>
       nWrites' = <<>> /\ nWroteCb' = 0 /\ nWriteErrCb' = 0

LEMMA QuietStep ==
  ASSUME TypeOK, TypeOK', TokenInv, Quiet
  PROVE  TokenInv'
<1>1. UpTokens \in Nat /\ UpTokens' \in Nat
  BY UpTokensType, UpTokensTypeAfter
<1>2. DownTokens \in Nat /\ DownTokens' \in Nat
  BY DownTokensType, DownTokensTypeAfter
<1> QED
  BY <1>1, <1>2 DEF TokenInv, Quiet, OneChunkInFlight

\* What a step must not do to a sum for it not to grow.
LEMMA FromClientSum ==
  ASSUME TypeOK, TypeOK', cReads' <= cReads, Len(cReadCb') <= Len(cReadCb)
  PROVE  FromClient' <= FromClient
  BY FromClientNat DEF FromClient

LEMMA ToRemoteSum ==
  ASSUME TypeOK, TypeOK', Len(nWrites') <= Len(nWrites), nWroteCb' <= nWroteCb,
         nWriteErrCb' <= nWriteErrCb
  PROVE  ToRemote' <= ToRemote
  BY ToRemoteNat DEF ToRemote

LEMMA FromRemoteSum ==
  ASSUME TypeOK, TypeOK', nReads' <= nReads, Len(nReadCb') <= Len(nReadCb),
         nReadErrCb' <= nReadErrCb
  PROVE  FromRemote' <= FromRemote
  BY FromRemoteNat DEF FromRemote

LEMMA ToClientSum ==
  ASSUME TypeOK, TypeOK', Len(cWrites') <= Len(cWrites), cWroteCb' <= cWroteCb,
         cEmptyCb' <= cEmptyCb
  PROVE  ToClient' <= ToClient
  BY ToClientNat DEF ToClient

LEMMA UpSum ==
  ASSUME TypeOK, TypeOK', FromClient' <= FromClient, ToRemote' <= ToRemote
  PROVE  UpTokens' <= UpTokens
  BY SumsAreNat DEF UpTokens

LEMMA DownSum ==
  ASSUME TypeOK, TypeOK', FromRemote' <= FromRemote, ToClient' <= ToClient,
         pumpTimers' <= pumpTimers
  PROVE  DownTokens' <= DownTokens
  BY SumsAreNat DEF DownTokens

\* The sums of what a step leaves alone.
LEMMA FromClientSame ==
  ASSUME TypeOK, TypeOK', UNCHANGED <<cReads, cReadCb>>
  PROVE  FromClient' <= FromClient
  BY SumTypes DEF FromClient

LEMMA ToRemoteSame ==
  ASSUME TypeOK, TypeOK', UNCHANGED <<nWrites, nWroteCb, nWriteErrCb>>
  PROVE  ToRemote' <= ToRemote
  BY SumTypes DEF ToRemote

LEMMA FromRemoteSame ==
  ASSUME TypeOK, TypeOK', UNCHANGED <<nReads, nReadCb, nReadErrCb>>
  PROVE  FromRemote' <= FromRemote
  BY SumTypes DEF FromRemote

LEMMA ToClientSame ==
  ASSUME TypeOK, TypeOK', UNCHANGED <<cWrites, cWroteCb, cEmptyCb>>
  PROVE  ToClient' <= ToClient
  BY SumTypes DEF ToClient

-----------------------------------------------------------------------------
(* The handlers and events that make no token out of nothing.              *)

\* What the three queues of chunks lose when their oldest chunk is taken.
LEMMA TailTokens ==
  ASSUME TypeOK
  PROVE  /\ cReadCb # <<>> => Len(Tail(cReadCb)) = Len(cReadCb) - 1
         /\ nReadCb # <<>> => Len(Tail(nReadCb)) = Len(nReadCb) - 1
         /\ cWrites # <<>> => Len(Tail(cWrites)) = Len(cWrites) - 1
         /\ nWrites # <<>> => Len(Tail(nWrites)) = Len(nWrites) - 1
<1>1. /\ cReadCb \in Seq(Nat) /\ nReadCb \in Seq(Nat)
      /\ cWrites \in Seq(Nat) /\ nWrites \in Seq(Nat)
  BY DEF TypeOK, TypeOKClient, TypeOKRemote
<1> QED
  BY <1>1

\* What the three queues of chunks gain when a chunk is added.
LEMMA AppendTokens ==
  ASSUME TypeOK, NEW d
  PROVE  /\ Len(Append(cReadCb, d)) = Len(cReadCb) + 1
         /\ Len(Append(nReadCb, d)) = Len(nReadCb) + 1
         /\ Len(Append(cWrites, d)) = Len(cWrites) + 1
<1>1. cReadCb \in Seq(Nat) /\ nReadCb \in Seq(Nat) /\ cWrites \in Seq(Nat)
  BY DEF TypeOK, TypeOKClient, TypeOKRemote
<1> QED
  BY <1>1

\* A close of the proxy socket and of nothing else makes no token.
LEMMA DropsProxySums ==
  ASSUME TypeOK, TypeOK', DropsProxyTokens,
         UNCHANGED <<cWroteCb, cEmptyCb>>, Len(cReadCb') <= Len(cReadCb)
  PROVE  FromClient' <= FromClient /\ ToClient' <= ToClient
<1>1. cReads' <= cReads /\ Len(cWrites') <= Len(cWrites)
  BY DEF DropsProxyTokens
<1>2. cWroteCb' <= cWroteCb /\ cEmptyCb' <= cEmptyCb
  BY TokenTypes
<1> QED
  BY <1>1, <1>2, FromClientSum, ToClientSum

LEMMA ProxyReadInvalidQuiet ==
  ASSUME TypeOK, TypeOK', TokenInv, ProxyReadInvalid
  PROVE  Quiet
<1>1. UNCHANGED <<cWroteCb, cEmptyCb, readStatus, conn, nReads, nWrites,
                  nConnectedCb, nReadCb, nReadErrCb, nWroteCb, nWriteErrCb,
                  readySignal, resolving, pumpTimers>>
  BY DEF ProxyReadInvalid, nVars, tVars
<1>2. Len(cReadCb') <= Len(cReadCb)
  BY TailTokens, TokenTypes DEF ProxyReadInvalid, TakeReadCb
<1>3. DropsProxyTokens
  BY ProxyDisconnectTokens DEF ProxyReadInvalid
<1>4. UpTokens' <= UpTokens
  BY <1>1, <1>2, <1>3, DropsProxySums, ToRemoteSame, UpSum
<1>5. DownTokens' <= DownTokens
  <2>1. pumpTimers' <= pumpTimers
    BY <1>1, TokenTypes
  <2> QED
    BY <1>1, <1>2, <1>3, <2>1, DropsProxySums, FromRemoteSame, DownSum
<1> QED
  BY <1>1, <1>3, <1>4, <1>5 DEF Quiet, TokenInv, DropsProxyTokens

LEMMA ProxyReadForwardQuiet ==
  ASSUME TypeOK, TypeOK', TokenInv, ProxyReadForward
  PROVE  Quiet
<1>1. UNCHANGED <<cState, cReads, cWrites, cWroteCb, cEmptyCb, readStatus, conn,
                  nReads, nConnectedCb, nReadCb, nReadErrCb, nWroteCb,
                  nWriteErrCb, readySignal, resolving, pumpTimers>>
  BY DEF ProxyReadForward, tVars
<1>2. Len(cReadCb') <= Len(cReadCb) - 1
  BY TailTokens, TokenTypes DEF ProxyReadForward, TakeReadCb
<1>3. Len(nWrites') <= Len(nWrites) + 1
  <2>1. Head(cReadCb) \in Nat
    <3>1. cReadCb \in Seq(Nat) /\ cReadCb # <<>>
      BY DEF ProxyReadForward, TakeReadCb, TypeOK, TypeOKClient
    <3> QED
      BY <3>1, HeadTypes
  <2>2. nWrites' = nWrites \/ AdapterWrite(Head(cReadCb))
    BY DEF ProxyReadForward, Forwarded
  <2> QED
    BY <2>1, <2>2, AdapterWriteTokens, TokenTypes
<1>4. readStatus # "readingFirstHeader"
  BY DEF ProxyReadForward
<1>5. UpTokens' <= UpTokens
  <2>1. cReads' <= cReads /\ nWroteCb' <= nWroteCb /\ nWriteErrCb' <= nWriteErrCb
    BY <1>1, TokenTypes
  <2>2. FromClient' <= FromClient - 1
    BY <1>2, <2>1, FromClientNat DEF FromClient
  <2>3. ToRemote' <= ToRemote + 1
    BY <1>3, <2>1, ToRemoteNat DEF ToRemote
  <2> QED
    BY <2>2, <2>3, SumsAreNat DEF UpTokens
<1>6. DownTokens' <= DownTokens
  BY <1>1, FromRemoteSame, ToClientSame, DownSum, TokenTypes
<1> QED
  BY <1>1, <1>4, <1>5, <1>6 DEF Quiet, TokenInv

LEMMA ProxyWroteQuiet ==
  ASSUME TypeOK, TypeOK', TokenInv, ProxyWrote
  PROVE  Quiet
<1>1. UNCHANGED <<cState, cReads, cWrites, cReadCb, readStatus, conn, nReads,
                  nWrites, nConnectedCb, nReadCb, nReadErrCb, nWroteCb,
                  nWriteErrCb, readySignal, resolving>>
  BY DEF ProxyWrote, pVars, nVars
<1>2. cWroteCb' + cEmptyCb' <= cWroteCb + cEmptyCb - 1
  BY TokenTypes DEF ProxyWrote, TakeWroteCb
<1>3. pumpTimers' <= pumpTimers + 1
  BY TokenTypes DEF ProxyWrote
<1>4. ToClient' <= ToClient - 1
  <2>1. Len(cWrites') <= Len(cWrites)
    BY <1>1, TokenTypes
  <2> QED
    BY <1>2, <2>1, ToClientNat DEF ToClient
<1>5. FromClient' <= FromClient /\ ToRemote' <= ToRemote /\ FromRemote' <= FromRemote
  BY <1>1, FromClientSame, ToRemoteSame, FromRemoteSame
<1>6. DownTokens' <= DownTokens
  BY <1>3, <1>4, <1>5, SumsAreNat DEF DownTokens
<1> QED
  BY <1>1, <1>5, <1>6, UpSum DEF Quiet, TokenInv

LEMMA PumpAdapterQuiet ==
  ASSUME TypeOK, TypeOK', TokenInv, PumpAdapter
  PROVE  Quiet
<1>1. UNCHANGED <<cState, cReads, cWrites, cReadCb, cWroteCb, cEmptyCb,
                  readStatus, conn, nWrites, nConnectedCb, nReadCb, nReadErrCb,
                  nWroteCb, nWriteErrCb, readySignal, resolving>>
  BY DEF PumpAdapter, cVars, pVars
<1>2. pumpTimers' <= pumpTimers - 1 /\ nReads' <= nReads + 1
  BY AdapterReadTokens, TokenTypes DEF PumpAdapter
<1>3. FromRemote' <= FromRemote + 1
  <2>1. Len(nReadCb') <= Len(nReadCb) /\ nReadErrCb' <= nReadErrCb
    BY <1>1, TokenTypes
  <2> QED
    BY <1>2, <2>1, FromRemoteNat DEF FromRemote
<1>4. FromClient' <= FromClient /\ ToRemote' <= ToRemote /\ ToClient' <= ToClient
  BY <1>1, FromClientSame, ToRemoteSame, ToClientSame
<1>5. DownTokens' <= DownTokens
  BY <1>2, <1>3, <1>4, SumsAreNat DEF DownTokens
<1> QED
  BY <1>1, <1>4, <1>5, UpSum DEF Quiet, TokenInv

LEMMA ProxyDidDisconnectQuiet ==
  ASSUME TypeOK, TypeOK', TokenInv, ProxyDidDisconnect
  PROVE  Quiet
<1>1. UNCHANGED <<cState, cReads, cWrites, cReadCb, cWroteCb, cEmptyCb,
                  readStatus, conn, nReads, nWrites, nConnectedCb, nReadCb,
                  nReadErrCb, nWroteCb, nWriteErrCb, readySignal, resolving,
                  pumpTimers>>
  BY DEF ProxyDidDisconnect
<1>2. UpTokens' <= UpTokens
  BY <1>1, FromClientSame, ToRemoteSame, UpSum
<1>3. DownTokens' <= DownTokens
  BY <1>1, FromRemoteSame, ToClientSame, DownSum, TokenTypes
<1> QED
  BY <1>1, <1>2, <1>3 DEF Quiet, TokenInv

LEMMA AdapterReadForwardQuiet ==
  ASSUME TypeOK, TypeOK', TokenInv, AdapterReadForward
  PROVE  Quiet
<1>1. UNCHANGED <<cState, cReads, cReadCb, cWroteCb, readStatus, conn, nReads,
                  nWrites, nConnectedCb, nReadErrCb, nWroteCb, nWriteErrCb,
                  readySignal, resolving, pumpTimers>>
  BY DEF AdapterReadForward, pVars, tVars
<1>2. Len(nReadCb') <= Len(nReadCb) - 1
  BY TailTokens, TokenTypes DEF AdapterReadForward
<1>3. Len(cWrites') + cEmptyCb' <= Len(cWrites) + cEmptyCb + 1
  <2>1. CASE Plaintext(Head(nReadCb)) # IVOnly
    <3>1. cEmptyCb' = cEmptyCb
      BY <2>1 DEF AdapterReadForward
    <3>2. cWrites' = cWrites \/ cWrites' = Append(cWrites, Plaintext(Head(nReadCb)))
      BY <2>1 DEF AdapterReadForward, ClientWrite
    <3>3. Len(cWrites') = Len(cWrites) \/ Len(cWrites') = Len(cWrites) + 1
      BY <3>2, AppendTokens
    <3>4. Len(cWrites) \in Nat /\ cEmptyCb \in Nat
      BY TokenTypes
    <3> QED
      BY <3>1, <3>3, <3>4
  <2>2. CASE Plaintext(Head(nReadCb)) = IVOnly
    <3>1. cWrites' = cWrites /\ cEmptyCb' \in {cEmptyCb, cEmptyCb + 1}
      BY <2>2 DEF AdapterReadForward, ClientWriteEmpty
    <3> QED
      BY <3>1, TokenTypes
  <2> QED
    BY <2>1, <2>2
<1>4. FromRemote' <= FromRemote - 1
  <2>1. nReads' <= nReads /\ nReadErrCb' <= nReadErrCb
    BY <1>1, TokenTypes
  <2> QED
    BY <1>2, <2>1, FromRemoteNat DEF FromRemote
<1>5. ToClient' <= ToClient + 1
  <2>1. cWroteCb' <= cWroteCb
    BY <1>1, TokenTypes
  <2> QED
    BY <1>3, <2>1, ToClientNat DEF ToClient
<1>6. DownTokens' <= DownTokens
  <2>1. pumpTimers' <= pumpTimers
    BY <1>1, TokenTypes
  <2> QED
    BY <1>4, <1>5, <2>1, SumsAreNat DEF DownTokens
<1> QED
  BY <1>1, <1>6, FromClientSame, ToRemoteSame, UpSum DEF Quiet, TokenInv

LEMMA AdapterFailedQuiet ==
  ASSUME TypeOK, TypeOK', TokenInv, AdapterFailed
  PROVE  Quiet
<1>1. UNCHANGED <<cReadCb, cWroteCb, cEmptyCb, readStatus, conn, nReads, nWrites,
                  nConnectedCb, nReadCb, nWroteCb, readySignal, resolving,
                  pumpTimers>>
  BY DEF AdapterFailed
<1>2. nReadErrCb' <= nReadErrCb /\ nWriteErrCb' <= nWriteErrCb
  BY TokenTypes DEF AdapterFailed, TakeErrorCb
<1>3. DropsProxyTokens
  <2>1. AdapterEnds \/ UNCHANGED <<cState, cReads, cWrites>>
    BY DEF AdapterFailed
  <2> QED
    BY <2>1, AdapterEndsTokens, TokenTypes DEF DropsProxyTokens
<1>4. FromClient' <= FromClient /\ ToClient' <= ToClient
  BY <1>1, <1>3, DropsProxySums, TokenTypes
<1>5. UpTokens' <= UpTokens
  <2>1. Len(nWrites') <= Len(nWrites) /\ nWroteCb' <= nWroteCb
    BY <1>1, TokenTypes
  <2> QED
    BY <1>2, <1>4, <2>1, ToRemoteSum, UpSum
<1>6. DownTokens' <= DownTokens
  <2>1. /\ nReads' <= nReads /\ Len(nReadCb') <= Len(nReadCb)
        /\ pumpTimers' <= pumpTimers
    BY <1>1, TokenTypes
  <2> QED
    BY <1>2, <1>4, <2>1, FromRemoteSum, DownSum
<1>7. readStatus = "readingFirstHeader" =>
        nWrites' = <<>> /\ nWroteCb' = 0 /\ nWriteErrCb' = 0
  <2>1. nWriteErrCb' \in Nat
    BY TokenTypesAfter
  <2> QED
    BY <1>1, <1>2, <2>1 DEF TokenInv
<1> QED
  BY <1>1, <1>3, <1>5, <1>6, <1>7 DEF Quiet, DropsProxyTokens

LEMMA AdapterDidDisconnectQuiet ==
  ASSUME TypeOK, TypeOK', TokenInv, AdapterDidDisconnect
  PROVE  Quiet
<1>1. UNCHANGED <<cReadCb, cWroteCb, cEmptyCb, readStatus, conn, nReads, nWrites,
                  nConnectedCb, nReadCb, nReadErrCb, nWroteCb, nWriteErrCb,
                  readySignal, resolving, pumpTimers>>
  BY DEF AdapterDidDisconnect
<1>2. DropsProxyTokens
  BY AdapterEndsTokens DEF AdapterDidDisconnect
<1>3. FromClient' <= FromClient /\ ToClient' <= ToClient
  BY <1>1, <1>2, DropsProxySums, TokenTypes
<1>4. UpTokens' <= UpTokens
  BY <1>1, <1>3, ToRemoteSame, UpSum
<1>5. DownTokens' <= DownTokens
  BY <1>1, <1>3, FromRemoteSame, DownSum, TokenTypes
<1> QED
  BY <1>1, <1>2, <1>4, <1>5 DEF Quiet, TokenInv, DropsProxyTokens

LEMMA ForceCloseQuiet ==
  ASSUME TypeOK, TypeOK', TokenInv, ForceClose
  PROVE  Quiet
<1>1. UNCHANGED <<cReadCb, cWroteCb, cEmptyCb, readStatus, conn, nReads, nWrites,
                  nConnectedCb, nReadCb, nReadErrCb, nWroteCb, nWriteErrCb,
                  readySignal, resolving, pumpTimers>>
  BY DEF ForceClose
<1>2. ProxyForceDisconnect \/ UNCHANGED <<cState, cReads, cWrites>>
  BY DEF ForceClose
<1>3. DropsProxyTokens
  BY <1>2, ProxyForceDisconnectTokens, TokenTypes DEF DropsProxyTokens
<1>4. FromClient' <= FromClient /\ ToClient' <= ToClient
  BY <1>1, <1>3, DropsProxySums, TokenTypes
<1>5. UpTokens' <= UpTokens
  BY <1>1, <1>4, ToRemoteSame, UpSum
<1>6. DownTokens' <= DownTokens
  BY <1>1, <1>4, FromRemoteSame, DownSum, TokenTypes
<1> QED
  BY <1>1, <1>3, <1>5, <1>6 DEF Quiet, TokenInv, DropsProxyTokens

\* What the client does leaves the connection to the remote alone.
LEMMA ClientStepFrame ==
  ASSUME TypeOK, TypeOK', NEW A, ClientStep(A)
  PROVE  /\ UNCHANGED <<readStatus, readySignal, resolving, conn, nConnectedCb,
                        nWrites, nWroteCb, nWriteErrCb>>
         /\ ToRemote' <= ToRemote /\ FromRemote' <= FromRemote
         /\ pumpTimers' <= pumpTimers
<1>1. UNCHANGED <<readStatus, readySignal, resolving, conn, nConnectedCb, nReads,
                  nReadCb, nReadErrCb, nWrites, nWroteCb, nWriteErrCb, pumpTimers>>
  BY DEF ClientStep, pVars, nVars, tVars
<1> QED
  BY <1>1, ToRemoteSame, FromRemoteSame, TokenTypes

LEMMA ClientSendsQuiet ==
  ASSUME TypeOK, TypeOK', TokenInv, ClientStep(ClientSends)
  PROVE  Quiet
<1>1. UNCHANGED <<cState, cWrites, cWroteCb, cEmptyCb>>
  BY DEF ClientStep, ClientSends
<1>2. cReads' <= cReads - 1 /\ Len(cReadCb') <= Len(cReadCb) + 1
  BY AppendTokens, TokenTypes DEF ClientStep, ClientSends
<1>3. FromClient' <= FromClient
  BY <1>2, FromClientNat DEF FromClient
<1>4. ToClient' <= ToClient
  BY <1>1, ToClientSame
<1> QED
  BY <1>1, <1>3, <1>4, ClientStepFrame, UpSum, DownSum DEF Quiet, TokenInv

LEMMA ClientReceivesQuiet ==
  ASSUME TypeOK, TypeOK', TokenInv, ClientStep(ClientReceives)
  PROVE  Quiet
<1>1. UNCHANGED <<cReadCb, cEmptyCb>> /\ cWrites # <<>> /\ cWroteCb' <= cWroteCb + 1
  BY TokenTypes DEF ClientStep, ClientReceives
<1>2. cReads' <= cReads /\ Len(cWrites') <= Len(cWrites) - 1
      /\ (cState' = "fresh" => cState = "fresh")
  <2>1. ClientClose \/ (cWrites' = Tail(cWrites) /\ UNCHANGED <<cState, cReads>>)
    BY DEF ClientStep, ClientReceives
  <2>2. CASE ClientClose
    <3>1. cReads' = 0 /\ cWrites' = <<>> /\ cState' = "closed"
      BY <2>2 DEF ClientClose
    <3>2. Len(cWrites) > 0
      BY <1>1 DEF TypeOK, TypeOKClient
    <3> QED
      BY <3>1, <3>2, TokenTypes
  <2>3. CASE cWrites' = Tail(cWrites) /\ UNCHANGED <<cState, cReads>>
    BY <1>1, <2>3, TailTokens, TokenTypes
  <2> QED
    BY <2>1, <2>2, <2>3
<1>3. FromClient' <= FromClient
  BY <1>1, <1>2, FromClientSum, TokenTypes
<1>4. ToClient' <= ToClient
  <2>1. cEmptyCb' <= cEmptyCb /\ cWroteCb' <= cWroteCb + 1
    BY <1>1, TokenTypes
  <2> QED
    BY <1>2, <2>1, ToClientNat DEF ToClient
<1> QED
  BY <1>2, <1>3, <1>4, ClientStepFrame, UpSum, DownSum DEF Quiet, TokenInv

LEMMA ClientGoneQuiet ==
  ASSUME TypeOK, TypeOK', TokenInv, ClientStep(ClientGone)
  PROVE  Quiet
<1>1. UNCHANGED <<cReadCb, cWroteCb, cEmptyCb>>
  BY DEF ClientStep, ClientGone
<1>2. DropsProxyTokens
  BY ClientCloseTokens DEF ClientStep, ClientGone
<1>3. FromClient' <= FromClient /\ ToClient' <= ToClient
  BY <1>1, <1>2, DropsProxySums, TokenTypes
<1> QED
  BY <1>2, <1>3, ClientStepFrame, UpSum, DownSum
     DEF Quiet, TokenInv, DropsProxyTokens

\* What the connection and the remote do leaves the client's socket alone.
LEMMA RemoteStepFrame ==
  ASSUME TypeOK, TypeOK', NEW A, RemoteStep(A)
  PROVE  /\ UNCHANGED <<cState, readStatus, readySignal, resolving>>
         /\ FromClient' <= FromClient /\ ToClient' <= ToClient
         /\ pumpTimers' <= pumpTimers
<1>1. UNCHANGED <<cState, cReads, cReadCb, cWrites, cWroteCb, cEmptyCb, readStatus,
                  readySignal, resolving, pumpTimers>>
  BY DEF RemoteStep, cVars, pVars, tVars
<1> QED
  BY <1>1, FromClientSame, ToClientSame, TokenTypes

LEMMA ConnEndsQuiet ==
  ASSUME TypeOK, TypeOK', TokenInv, RemoteStep(ConnLost) \/ RemoteStep(ConnCancelled)
  PROVE  Quiet
<1>1. /\ UNCHANGED <<nReads, nWrites, nConnectedCb, nReadCb, nReadErrCb, nWroteCb,
                     nWriteErrCb>>
      /\ conn # "nil" /\ conn' \in {"disconnected", "cancelled"}
  BY DEF RemoteStep, ConnLost, ConnCancelled
<1>2. ToRemote' <= ToRemote /\ FromRemote' <= FromRemote
  BY <1>1, ToRemoteSame, FromRemoteSame
<1> QED
  BY <1>1, <1>2, RemoteStepFrame, UpSum, DownSum DEF Quiet, TokenInv

LEMMA RemoteReadDoneQuiet ==
  ASSUME TypeOK, TypeOK', TokenInv,
         \/ \E d \in 0..MaxDown : RemoteStep(RemoteMaySend(d))
         \/ RemoteStep(RemoteEnds)
         \/ RemoteStep(RemoteReadFails)
  PROVE  Quiet
<1>1. UNCHANGED <<conn, nWrites, nConnectedCb, nWroteCb, nWriteErrCb>>
  BY DEF RemoteStep, RemoteMaySend, RemoteSends, RemoteEnds, RemoteReadFails
<1>2. nReads' <= nReads - 1
  BY TokenTypes DEF RemoteStep, RemoteMaySend, RemoteSends, RemoteEnds, RemoteReadFails
<1>3. \/ Len(nReadCb') <= Len(nReadCb) + 1 /\ nReadErrCb' <= nReadErrCb
      \/ Len(nReadCb') <= Len(nReadCb) /\ nReadErrCb' <= nReadErrCb + 1
  <2>1. CASE \E d \in 0..MaxDown : RemoteStep(RemoteMaySend(d))
    <3>1. PICK d \in 0..MaxDown : RemoteStep(RemoteMaySend(d))
      BY <2>1
    <3>2. /\ nReadCb' = nReadCb \/ nReadCb' = Append(nReadCb, d)
          /\ nReadErrCb' = nReadErrCb
      BY <3>1 DEF RemoteStep, RemoteMaySend, RemoteSends
    <3>3. Len(nReadCb') = Len(nReadCb) \/ Len(nReadCb') = Len(nReadCb) + 1
      BY <3>2, AppendTokens
    <3>4. Len(nReadCb) \in Nat /\ nReadErrCb \in Nat
      BY TokenTypes
    <3> QED
      BY <3>2, <3>3, <3>4
  <2>2. CASE RemoteStep(RemoteEnds) \/ RemoteStep(RemoteReadFails)
    BY <2>2, TokenTypes DEF RemoteStep, RemoteEnds, RemoteReadFails
  <2> QED
    BY <2>1, <2>2
<1>4. FromRemote' <= FromRemote
  BY <1>2, <1>3, FromRemoteNat DEF FromRemote
<1>5. RemoteStep(TRUE)
  BY DEF RemoteStep
<1>6. ToRemote' <= ToRemote
  BY <1>1, ToRemoteSame
<1> QED
  BY <1>1, <1>4, <1>5, <1>6, RemoteStepFrame, UpSum, DownSum DEF Quiet, TokenInv

LEMMA RemoteWriteDoneQuiet ==
  ASSUME TypeOK, TypeOK', TokenInv,
         RemoteStep(RemoteReceives) \/ RemoteStep(RemoteWriteFails)
  PROVE  Quiet
<1>1. UNCHANGED <<conn, nConnectedCb, nReads, nReadCb, nReadErrCb>> /\ nWrites # <<>>
  BY DEF RemoteStep, RemoteReceives, RemoteWriteFails
<1>2. Len(nWrites') <= Len(nWrites) - 1
  BY TailTokens, TokenTypes DEF RemoteStep, RemoteReceives, RemoteWriteFails
<1>3. \/ nWroteCb' <= nWroteCb + 1 /\ nWriteErrCb' <= nWriteErrCb
      \/ nWroteCb' <= nWroteCb /\ nWriteErrCb' <= nWriteErrCb + 1
  <2>1. CASE nWroteCb' = nWroteCb + 1 /\ nWriteErrCb' = nWriteErrCb
    BY <2>1, ToRemoteNat
  <2>2. CASE nWroteCb' = nWroteCb /\ nWriteErrCb' = nWriteErrCb + 1
    BY <2>2, ToRemoteNat
  <2> QED
    BY <2>1, <2>2, Zenon DEF RemoteStep, RemoteReceives, RemoteWriteFails
<1>4. ToRemote' <= ToRemote
  BY <1>2, <1>3, ToRemoteNat DEF ToRemote
<1>5. RemoteStep(TRUE)
  BY DEF RemoteStep
<1>6. FromRemote' <= FromRemote
  BY <1>1, FromRemoteSame
<1> QED
  BY <1>1, <1>4, <1>5, <1>6, RemoteStepFrame, UpSum, DownSum DEF Quiet, TokenInv

LEMMA StutterQuiet ==
  ASSUME TypeOK, TypeOK', TokenInv, UNCHANGED vars
  PROVE  Quiet
<1>1. UNCHANGED <<cState, cReads, cReadCb, cWrites, cWroteCb, cEmptyCb, readStatus>>
  BY DEF vars, cVars, pVars
<1>2. UNCHANGED <<nReads, nReadCb, nReadErrCb, nWrites, nWroteCb, nWriteErrCb, conn,
                  nConnectedCb, readySignal, resolving, pumpTimers>>
  BY DEF vars, nVars, tVars
<1>3. UpTokens' <= UpTokens /\ DownTokens' <= DownTokens
  BY <1>1, <1>2, FromClientSame, ToRemoteSame, FromRemoteSame, ToClientSame,
     UpSum, DownSum, TokenTypes
<1> QED
  BY <1>1, <1>2, <1>3 DEF Quiet, TokenInv

-----------------------------------------------------------------------------
(* The handlers that make a token out of nothing.                          *)

\* The parts of the invariant a handler's own progress is about.
PhaseInv ==
  /\ cState = "fresh" => readStatus = "invalid"
  /\ readStatus \in {"invalid", "readingFirstHeader"} => conn = "nil" /\ ~resolving
  /\ resolving => conn = "nil"
  /\ conn \in {"nil", "connecting"} => readySignal = 0 /\ ~nConnectedCb
  /\ nConnectedCb => readySignal = 0

\* No token at all: nothing to send, and nothing to be called back for.
LEMMA AcceptTokens ==
  ASSUME TypeOK, TypeOK', TokenInv, Accept
  PROVE  TokenInv'
<1>1. /\ UNCHANGED <<cReadCb, cWrites, cWroteCb, cEmptyCb, pumpTimers, conn, nReads,
                     nWrites, nConnectedCb, nReadCb, nReadErrCb, nWroteCb,
                     nWriteErrCb, readySignal, resolving>>
      /\ cState = "fresh" /\ cState' = "open" /\ readStatus' = "readingFirstHeader"
  BY DEF Accept, ProxyOpen, nVars
<1>2. /\ readStatus = "invalid" /\ conn = "nil" /\ ~resolving /\ readySignal = 0
      /\ ~nConnectedCb /\ UpTokens = 0 /\ DownTokens = 0
  BY <1>1 DEF TokenInv
<1>3. PhaseInv'
  BY <1>1, <1>2 DEF PhaseInv
<1>4. nWrites' = <<>> /\ nWroteCb' = 0 /\ nWriteErrCb' = 0
  BY <1>1, <1>2, NoUpTokens
<1>5. UpTokens' <= 1
  <2>1. cReads' <= cReads + 1 /\ Len(cReadCb') <= Len(cReadCb)
    BY TokenTypes DEF Accept, ProxyOpen
  <2>2. FromClient' <= FromClient + 1
    BY <2>1, FromClientNat DEF FromClient
  <2>3. UpTokens' <= UpTokens + 1
    BY <1>1, <2>2, ToRemoteSame, SumsAreNat DEF UpTokens
  <2> QED
    BY <1>2, <2>3, UpTokensTypeAfter
<1>6. DownTokens' = 0
  BY <1>1, <1>2, FromRemoteSame, ToClientSame, DownSum, DownTokensTypeAfter, TokenTypes
<1> QED
  BY <1>1, <1>3, <1>4, <1>5, <1>6 DEF TokenInv, PhaseInv, OneChunkInFlight

\* Opening the adapter makes a connection or none.
LEMMA DidReceiveConn ==
  ASSUME conn = "nil", ~resolving, DidReceive
  PROVE  conn' \in {"nil", "connecting"} /\ (resolving' => conn' = "nil")
  BY DEF DidReceive, OpenAdapter, AdapterOpen, RemoteConnect

LEMMA ProxyReadRequestTokens ==
  ASSUME TypeOK, TypeOK', TokenInv, ProxyReadRequest
  PROVE  TokenInv'
<1>1. /\ UNCHANGED <<cState, cReads, cWrites, cWroteCb, cEmptyCb, pumpTimers, nReads,
                     nWrites, nConnectedCb, nReadCb, nReadErrCb, nWroteCb,
                     nWriteErrCb, readySignal>>
      /\ readStatus = "readingFirstHeader"
      /\ readStatus' \in {"readingContent", "pendingFirstHeader"}
      /\ DidReceive
  BY DEF ProxyReadRequest
<1>2. /\ conn = "nil" /\ ~resolving /\ readySignal = 0 /\ ~nConnectedCb
      /\ cState # "fresh" /\ UpTokens <= 1 /\ DownTokens = 0
  BY <1>1 DEF TokenInv, OneChunkInFlight
<1>3. conn' \in {"nil", "connecting"} /\ (resolving' => conn' = "nil")
  BY <1>1, <1>2, DidReceiveConn
<1>4. PhaseInv'
  BY <1>1, <1>2, <1>3 DEF PhaseInv
<1>5. UpTokens' = 0
  <2>1. Len(cReadCb') <= Len(cReadCb) - 1
    BY TailTokens, TokenTypes DEF ProxyReadRequest, TakeReadCb
  <2>2. cReads' <= cReads
    BY <1>1, TokenTypes
  <2>3. FromClient' <= FromClient - 1
    BY <2>1, <2>2, FromClientNat DEF FromClient
  <2>4. ToRemote' <= ToRemote
    BY <1>1, ToRemoteSame
  <2>5. UpTokens' <= UpTokens - 1
    BY <2>3, <2>4, SumsAreNat DEF UpTokens
  <2> QED
    BY <1>2, <2>5, UpTokensType, UpTokensTypeAfter
<1>6. DownTokens' = 0
  BY <1>1, <1>2, FromRemoteSame, ToClientSame, DownSum, DownTokensTypeAfter, TokenTypes
<1> QED
  BY <1>1, <1>4, <1>5, <1>6 DEF TokenInv, PhaseInv, OneChunkInFlight

LEMMA ResolvedTokens ==
  ASSUME TypeOK, TypeOK', TokenInv, Resolved
  PROVE  TokenInv'
<1>1. /\ UNCHANGED <<cState, cReads, cReadCb, cWrites, cWroteCb, cEmptyCb, readStatus>>
      /\ UNCHANGED <<nReads, nWrites, nConnectedCb, nReadCb, nReadErrCb, nWroteCb,
                     nWriteErrCb, readySignal, pumpTimers>>
      /\ ~resolving'
  BY DEF Resolved, cVars, pVars
<1>2. resolving /\ conn = "nil" /\ readySignal = 0 /\ ~nConnectedCb
  BY DEF Resolved, TokenInv
<1>3. conn' \in {"nil", "connecting"}
  BY <1>2 DEF Resolved, OpenAdapter, AdapterOpen, RemoteConnect
<1>4. PhaseInv'
  BY <1>1, <1>2, <1>3 DEF PhaseInv, TokenInv
<1>5. UpTokens' <= UpTokens /\ DownTokens' <= DownTokens
  BY <1>1, FromClientSame, ToRemoteSame, FromRemoteSame, ToClientSame, UpSum, DownSum,
     TokenTypes
<1>6. UpTokens' = 0 /\ DownTokens' = 0
  BY <1>2, <1>5, UpTokensTypeAfter, DownTokensTypeAfter DEF TokenInv
<1> QED
  BY <1>1, <1>2, <1>4, <1>6 DEF TokenInv, PhaseInv, OneChunkInFlight

LEMMA ConnUpTokens ==
  ASSUME TypeOK, TypeOK', TokenInv, RemoteStep(ConnUp)
  PROVE  TokenInv'
<1>1. /\ UNCHANGED <<nReads, nWrites, nReadCb, nReadErrCb, nWroteCb, nWriteErrCb>>
      /\ conn = "connecting" /\ conn' = "connected"
  BY DEF RemoteStep, ConnUp
<1>2. /\ readySignal = 0 /\ ~resolving /\ cState # "fresh"
      /\ readStatus \notin {"invalid", "readingFirstHeader"}
      /\ UpTokens = 0 /\ DownTokens = 0
  BY <1>1 DEF TokenInv
<1>3. PhaseInv'
  BY <1>1, <1>2, RemoteStepFrame DEF PhaseInv
<1>4. UpTokens' <= UpTokens /\ DownTokens' <= DownTokens
  BY <1>1, RemoteStepFrame, ToRemoteSame, FromRemoteSame, UpSum, DownSum
<1>5. UpTokens' = 0 /\ DownTokens' = 0
  BY <1>2, <1>4, UpTokensTypeAfter, DownTokensTypeAfter
<1> QED
  BY <1>2, <1>3, <1>5, RemoteStepFrame DEF TokenInv, PhaseInv, OneChunkInFlight

\* What starting to forward does to the sums: at most one token more each way.
LEMMA StartForwardingSums ==
  ASSUME TypeOK, TypeOK', StartForwarding,
         UNCHANGED <<cReadCb, nWroteCb, nWriteErrCb, nReadCb, nReadErrCb>>
  PROVE  /\ UpTokens' <= UpTokens + 1
         /\ FromRemote' <= FromRemote + 1
<1>1. /\ Len(cReadCb') <= Len(cReadCb) /\ nWroteCb' <= nWroteCb
      /\ nWriteErrCb' <= nWriteErrCb /\ Len(nReadCb') <= Len(nReadCb)
      /\ nReadErrCb' <= nReadErrCb
  BY TokenTypes
<1>2. UpTokens' <= UpTokens + 1
  <2>1. cReads' + Len(nWrites') <= cReads + Len(nWrites) + 1
    BY StartForwardingTokens
  <2> DEFINE reads == cReads + Len(nWrites)
             rest  == Len(cReadCb) + nWroteCb + nWriteErrCb
  <2>2. rest' <= rest
    <3>1. {Len(cReadCb), nWroteCb, nWriteErrCb, Len(cReadCb'), nWroteCb',
           nWriteErrCb'} \subseteq Nat
      BY TokenTypes, TokenTypesAfter
    <3> QED
      BY <1>1, <3>1
  <2>3. UpTokens = reads + rest
    BY TokenTypes DEF UpTokens, FromClient, ToRemote
  <2>4. UpTokens' = reads' + rest'
    BY TokenTypesAfter DEF UpTokens, FromClient, ToRemote
  <2>5. {reads, rest, reads', rest'} \subseteq Nat
    <3>1. reads \in Nat /\ rest \in Nat
      BY TokenTypes
    <3>2. reads' \in Nat
      BY TokenTypesAfter
    <3>3. rest' \in Nat
      BY TokenTypesAfter
    <3> QED
      BY <3>1, <3>2, <3>3
  <2>6. reads' <= reads + 1
    BY <2>1
  <2> HIDE DEF reads, rest
  <2>7. reads' + rest' <= reads + rest + 1
    BY <2>2, <2>5, <2>6
  <2> QED
    BY <2>3, <2>4, <2>7
<1>3. FromRemote' <= FromRemote + 1
  <2>1. nReads' <= nReads + 1
    BY StartForwardingTokens
  <2> QED
    BY <1>1, <2>1, FromRemoteNat DEF FromRemote
<1> QED
  BY <1>2, <1>3

LEMMA ProxyWroteResponseTokens ==
  ASSUME TypeOK, TypeOK', TokenInv, ProxyWroteResponse
  PROVE  TokenInv'
<1>1. UNCHANGED <<cState, cWrites, cReadCb, conn, nConnectedCb, nReadCb, nReadErrCb,
                  nWroteCb, nWriteErrCb, resolving, pumpTimers>>
  BY DEF ProxyWroteResponse
<1>2. ToClient' <= ToClient - 1
  <2>1. cWroteCb' + cEmptyCb' <= cWroteCb + cEmptyCb - 1
    BY TokenTypes DEF ProxyWroteResponse, TakeWroteCb
  <2>2. Len(cWrites') <= Len(cWrites)
    BY <1>1, TokenTypes
  <2> QED
    BY <2>1, <2>2, ToClientNat DEF ToClient
<1>3. pumpTimers' <= pumpTimers
  BY <1>1, TokenTypes
<1>4. DownTokens # 0
  <2>1. ToClient - 1 >= 0
    BY <1>2, SumsAreNat
  <2>2. {FromRemote, ToClient, pumpTimers} \subseteq Nat
    BY SumTypes, TokenTypes
  <2> QED
    BY <2>1, <2>2 DEF DownTokens
<1>5. /\ readySignal # 0 /\ ~resolving /\ ~nConnectedCb /\ cState # "fresh"
      /\ conn \notin {"nil", "connecting"}
      /\ readStatus \notin {"invalid", "readingFirstHeader"}
  BY <1>4 DEF TokenInv
<1>6. CASE StartForwarding /\ readySignal = 1 /\ readySignal' = readySignal + 1
  <2>1. UpTokens' <= 1
    BY <1>1, <1>5, <1>6, StartForwardingSums, UpTokensTypeAfter DEF TokenInv
  <2>2. DownTokens' <= DownTokens
    BY <1>1, <1>2, <1>3, <1>6, StartForwardingSums, SumsAreNat DEF DownTokens
  <2>3. DownTokens' <= 1
    BY <2>2, DownTokensType, DownTokensTypeAfter DEF TokenInv, OneChunkInFlight
  <2>4. readStatus' \notin {"invalid", "readingFirstHeader"} /\ readySignal' = 2
    BY <1>5, <1>6, StartForwardingTokens
  <2> QED
    BY <1>1, <1>5, <2>1, <2>3, <2>4 DEF TokenInv, OneChunkInFlight
<1>7. CASE /\ UNCHANGED <<cReads, readStatus, nReads, nWrites>>
           /\ \/ readySignal' = readySignal
              \/ readySignal' = readySignal + 1 /\ readySignal # 1
  <2>1. UpTokens' <= UpTokens
    BY <1>1, <1>7, FromClientSame, ToRemoteSame, UpSum
  <2>2. DownTokens' <= DownTokens
    <3>1. FromRemote' <= FromRemote
      BY <1>1, <1>7, FromRemoteSame
    <3> QED
      BY <1>2, <1>3, <3>1, SumsAreNat DEF DownTokens
  <2>3. UpTokens' \in Nat /\ UpTokens \in Nat /\ DownTokens' \in Nat /\ DownTokens \in Nat
    BY UpTokensType, UpTokensTypeAfter, DownTokensType, DownTokensTypeAfter
  <2>4. /\ readySignal' # 0
        /\ readySignal' <= 1 => readySignal <= 1
    BY <1>5, <1>7, TokenTypes
  <2> QED
    BY <1>1, <1>5, <1>7, <2>1, <2>2, <2>3, <2>4 DEF TokenInv, OneChunkInFlight
<1>8. \/ /\ tCancelled
         /\ UNCHANGED <<cReads, readStatus, nReads, nWrites, readySignal>>
      \/ /\ readySignal' = readySignal + 1
         /\ \/ readySignal = 1 /\ StartForwarding
            \/ readySignal # 1 /\ UNCHANGED <<cReads, readStatus, nReads, nWrites>>
  BY DEF ProxyWroteResponse
<1>9. CASE readySignal' = readySignal + 1 /\ readySignal = 1 /\ StartForwarding
  BY <1>6, <1>9
<1>10. CASE /\ readySignal' = readySignal + 1 /\ readySignal # 1
            /\ UNCHANGED <<cReads, readStatus, nReads, nWrites>>
  BY <1>7, <1>10
<1>11. CASE UNCHANGED <<cReads, readStatus, nReads, nWrites, readySignal>>
  BY <1>7, <1>11
<1> QED
  BY <1>8, <1>9, <1>10, <1>11

LEMMA AdapterConnectedTokens ==
  ASSUME TypeOK, TypeOK', TokenInv, AdapterConnected
  PROVE  TokenInv'
<1>1. /\ UNCHANGED <<cState, cReadCb, cWroteCb, cEmptyCb, conn, nReadCb, nReadErrCb,
                     nWroteCb, nWriteErrCb, resolving, pumpTimers>>
      /\ ~nConnectedCb'
  BY DEF AdapterConnected
<1>2. /\ readySignal = 0 /\ ~resolving /\ cState # "fresh"
      /\ conn \notin {"nil", "connecting"}
      /\ readStatus \notin {"invalid", "readingFirstHeader"}
      /\ UpTokens = 0 /\ DownTokens = 0
  BY DEF TokenInv, AdapterConnected
<1>3. \/ UNCHANGED <<cReads, readStatus, nReads, nWrites, cWrites, readySignal>>
      \/ /\ UNCHANGED <<cReads, readStatus, nReads, nWrites>>
         /\ cWrites' = cWrites \/ ClientWrite(ConnectResponse)
         /\ readySignal' = readySignal + 1
      \/ StartForwarding /\ readySignal' = readySignal + 2 /\ UNCHANGED cWrites
  BY DEF AdapterConnected, ProxyWrite
<1>4. CASE StartForwarding /\ readySignal' = readySignal + 2 /\ UNCHANGED cWrites
  <2>1. UpTokens' <= 1
    BY <1>1, <1>2, <1>4, StartForwardingSums, UpTokensTypeAfter
  <2>2. DownTokens' <= 1
    <3>1. ToClient' <= ToClient
      BY <1>1, <1>4, ToClientSame
    <3>2. pumpTimers' <= pumpTimers
      BY <1>1, TokenTypes
    <3>3. DownTokens' <= DownTokens + 1
      BY <1>1, <1>4, <3>1, <3>2, StartForwardingSums, SumsAreNat DEF DownTokens
    <3> QED
      BY <1>2, <3>3, DownTokensTypeAfter
  <2>3. readStatus' \notin {"invalid", "readingFirstHeader"} /\ readySignal' = 2
    BY <1>2, <1>4, StartForwardingTokens
  <2> QED
    BY <1>1, <1>2, <2>1, <2>2, <2>3 DEF TokenInv, OneChunkInFlight
<1>5. CASE UNCHANGED <<cReads, readStatus, nReads, nWrites>>
  <2>1. UpTokens' = 0
    BY <1>1, <1>2, <1>5, FromClientSame, ToRemoteSame, UpSum, UpTokensTypeAfter
  <2>2. FromRemote' <= FromRemote /\ pumpTimers' <= pumpTimers
    BY <1>1, <1>5, FromRemoteSame, TokenTypes
  <2>3. CASE UNCHANGED <<cWrites, readySignal>>
    <3>1. DownTokens' = 0
      BY <1>1, <1>2, <2>2, <2>3, ToClientSame, DownSum, DownTokensTypeAfter
    <3> QED
      BY <1>1, <1>2, <1>5, <2>1, <2>3, <3>1 DEF TokenInv, OneChunkInFlight
  <2>4. CASE /\ cWrites' = cWrites \/ ClientWrite(ConnectResponse)
             /\ readySignal' = readySignal + 1
    <3>1. Len(cWrites') <= Len(cWrites) + 1
      <4>1. cWrites' = cWrites \/ cWrites' = Append(cWrites, ConnectResponse)
        BY <2>4 DEF ClientWrite
      <4>2. Len(cWrites') = Len(cWrites) \/ Len(cWrites') = Len(cWrites) + 1
        BY <4>1, AppendTokens
      <4>3. Len(cWrites) \in Nat
        BY TokenTypes
      <4> QED
        BY <4>2, <4>3
    <3>2. cWroteCb' <= cWroteCb /\ cEmptyCb' <= cEmptyCb
      BY <1>1, TokenTypes
    <3>3. ToClient' <= ToClient + 1
      BY <3>1, <3>2, ToClientNat DEF ToClient
    <3>4. DownTokens' <= DownTokens + 1
      BY <2>2, <3>3, SumsAreNat DEF DownTokens
    <3>5. DownTokens' <= 1
      BY <1>2, <3>4, DownTokensTypeAfter
    <3>6. readySignal' = 1
      BY <1>2, <2>4
    <3> QED
      BY <1>1, <1>2, <1>5, <2>1, <3>5, <3>6 DEF TokenInv, OneChunkInFlight
  <2>5. \/ UNCHANGED <<cWrites, readySignal>>
        \/ /\ cWrites' = cWrites \/ ClientWrite(ConnectResponse)
           /\ readySignal' = readySignal + 1
        \/ StartForwarding /\ readySignal' = readySignal + 2 /\ UNCHANGED cWrites
    BY <1>3
  <2> QED
    BY <1>4, <2>3, <2>4, <2>5
<1> QED
  BY <1>3, <1>4, <1>5

LEMMA AdapterWroteTokens ==
  ASSUME TypeOK, TypeOK', TokenInv, AdapterWrote
  PROVE  TokenInv'
<1>1. /\ UNCHANGED <<cState, cWrites, cReadCb, cWroteCb, cEmptyCb, conn, nReads,
                     nWrites, nConnectedCb, nReadCb, nReadErrCb, nWriteErrCb,
                     resolving, readySignal, pumpTimers>>
      /\ nWroteCb # 0 /\ nWroteCb' <= nWroteCb - 1
  BY TokenTypes DEF AdapterWrote, tVars
<1>2. UpTokens # 0
  BY <1>1, NoUpTokens
<1>3. readStatus # "readingFirstHeader" /\ ~(readySignal <= 1)
  BY <1>1, <1>2 DEF TokenInv
<1>4. /\ ~resolving /\ ~nConnectedCb /\ cState # "fresh" /\ readySignal # 0
      /\ conn \notin {"nil", "connecting"} /\ readStatus # "invalid"
  BY <1>3 DEF TokenInv
<1>5. /\ cReads' <= cReads + 1
      /\ readStatus' \in {readStatus, "readingHeader", "readingContent"}
  BY ProxyReadDataTokens, TokenTypes DEF AdapterWrote
<1>6. UpTokens' <= 1
  <2>1. /\ Len(cReadCb') <= Len(cReadCb) /\ Len(nWrites') <= Len(nWrites)
        /\ nWriteErrCb' <= nWriteErrCb
    BY <1>1, TokenTypes
  <2>2. FromClient' <= FromClient + 1
    BY <1>5, <2>1, FromClientNat DEF FromClient
  <2>3. ToRemote' <= ToRemote - 1
    BY <1>1, <2>1, ToRemoteNat DEF ToRemote
  <2>4. UpTokens' <= UpTokens
    BY <2>2, <2>3, SumsAreNat DEF UpTokens
  <2> QED
    BY <2>4, UpTokensType, UpTokensTypeAfter DEF TokenInv, OneChunkInFlight
<1>7. DownTokens' <= 1
  <2>1. DownTokens' <= DownTokens
    BY <1>1, FromRemoteSame, ToClientSame, DownSum, TokenTypes
  <2> QED
    BY <2>1, DownTokensType, DownTokensTypeAfter DEF TokenInv, OneChunkInFlight
<1> QED
  BY <1>1, <1>3, <1>4, <1>5, <1>6, <1>7 DEF TokenInv, OneChunkInFlight

-----------------------------------------------------------------------------

LEMMA TokenStep ==
  ASSUME TypeOK, TypeOK', TokenInv, [Next]_vars
  PROVE  TokenInv'
<1>1. CASE Accept \/ ProxyReadRequest \/ Resolved \/ ProxyWroteResponse
           \/ AdapterConnected \/ AdapterWrote \/ RemoteStep(ConnUp)
  BY <1>1, AcceptTokens, ProxyReadRequestTokens, ResolvedTokens,
     ProxyWroteResponseTokens, AdapterConnectedTokens, AdapterWroteTokens, ConnUpTokens
<1>2. CASE ProxyReadInvalid \/ ProxyReadForward \/ ProxyWrote \/ PumpAdapter
           \/ ProxyDidDisconnect \/ AdapterReadForward \/ AdapterFailed
           \/ AdapterDidDisconnect \/ ForceClose
  BY <1>2, QuietStep, ProxyReadInvalidQuiet, ProxyReadForwardQuiet, ProxyWroteQuiet,
     PumpAdapterQuiet, ProxyDidDisconnectQuiet, AdapterReadForwardQuiet,
     AdapterFailedQuiet, AdapterDidDisconnectQuiet, ForceCloseQuiet
<1>3. CASE ClientStep(ClientSends) \/ ClientStep(ClientReceives) \/ ClientStep(ClientGone)
  BY <1>3, QuietStep, ClientSendsQuiet, ClientReceivesQuiet, ClientGoneQuiet
<1>4. CASE RemoteStep(ConnLost) \/ RemoteStep(ConnCancelled)
  BY <1>4, QuietStep, ConnEndsQuiet
<1>5. CASE \/ \E d \in 0..MaxDown : RemoteStep(RemoteMaySend(d))
           \/ RemoteStep(RemoteEnds)
           \/ RemoteStep(RemoteReadFails)
  BY <1>5, QuietStep, RemoteReadDoneQuiet
<1>6. CASE RemoteStep(RemoteReceives) \/ RemoteStep(RemoteWriteFails)
  BY <1>6, QuietStep, RemoteWriteDoneQuiet
<1>7. CASE Released \/ UNCHANGED vars
  BY <1>7, QuietStep, StutterQuiet DEF Released
<1> QED
  BY <1>1, <1>2, <1>3, <1>4, <1>5, <1>6, <1>7 DEF Next

\* Before the second ready signal nothing is under way but the first header, and
\* never more than one chunk each way.
THEOREM TokensCorrect == Spec => []TokenInv
<1>1. Init => TokenInv
  <2>1. SUFFICES ASSUME Init PROVE TokenInv
    OBVIOUS
  <2>2. /\ cReads = 0 /\ cReadCb = <<>> /\ cWrites = <<>> /\ cWroteCb = 0
        /\ cEmptyCb = 0 /\ nReads = 0 /\ nReadCb = <<>> /\ nReadErrCb = 0
        /\ nWrites = <<>> /\ nWroteCb = 0 /\ nWriteErrCb = 0 /\ pumpTimers = 0
        /\ readySignal = 0 /\ readStatus = "invalid" /\ conn = "nil"
    BY <2>1 DEF Init, InitClient, InitProxy, InitRemote
  <2>3. UpTokens = 0 /\ DownTokens = 0
    BY <2>2 DEF UpTokens, DownTokens, FromClient, ToRemote, FromRemote, ToClient
  <2>4. ~resolving /\ ~nConnectedCb
    BY <2>1, Zenon DEF Init, InitRemote
  <2> QED
    BY <2>2, <2>3, <2>4 DEF TokenInv, OneChunkInFlight
<1>2. TypeOK /\ TypeOK' /\ TokenInv /\ [Next]_vars => TokenInv'
  BY TokenStep
<1> QED
  BY <1>1, <1>2, TypeCorrect, PTL DEF Spec

\* At most one chunk per direction is on its way through a tunnel, and so at most
\* one read and one write of each raw socket is outstanding, whatever the number
\* of chunks and whatever closes or fails when.
THEOREM OneChunk == Spec => []OneChunkInFlight
<1>1. TokenInv => OneChunkInFlight
  BY DEF TokenInv
<1> QED
  BY <1>1, TokensCorrect, PTL

-----------------------------------------------------------------------------
(* How a tunnel ends.                                                      *)

\* The tunnel and the server.
EndInv ==
  /\ delegate <=> tStatus # "closed"
  /\ closedCalls = IF tStatus = "closed" THEN 1 ELSE 0
  /\ tStatus = "closed" => pStatus = "closed" /\ (hasAdapter => AdapterDisconnected)

\* The proxy socket: its last block comes once and after its other blocks.
ProxyEndInv ==
  /\ cClosedCb => cState = "closed"
  /\ cClosedCb \/ pStatus # "closed" => pEnds = 0
  /\ pStatus = "closed" => /\ cState = "closed" /\ ~cClosedCb /\ pEnds = 1
                           /\ tCancelled /\ cReadCb = <<>>

\* The adapter socket: its status says closed only when there is no connection
\* or a cancelled one.
AdapterEndInv ==
  /\ ~hasAdapter => conn = "nil"
  /\ hasAdapter /\ AdapterDisconnected => AnswersAtOnce
  /\ nClosedCb => conn = "cancelled" /\ hasAdapter

LifeInv == EndInv /\ ProxyEndInv /\ AdapterEndInv

-----------------------------------------------------------------------------
(* What closing does.                                                      *)

\* checkStatus tells the server exactly when both sockets are disconnected.
LEMMA CheckStatusTells ==
  ASSUME TypeOK, delegate, closedCalls = 0, CheckStatus
  PROVE  \/ /\ pStatus' = "closed" /\ (hasAdapter => aStatus' \in {"closed", "invalid"})
            /\ tStatus' = "closed" /\ ~delegate' /\ closedCalls' = 1
         \/ tStatus' = "closing" /\ delegate' /\ closedCalls' = 0
<1> DEFINE isClosed == /\ pStatus' = "closed"
                       /\ hasAdapter => aStatus' \in {"closed", "invalid"}
<1>1. /\ tStatus' = IF isClosed THEN "closed" ELSE "closing"
      /\ delegate' = (delegate /\ ~isClosed)
      /\ closedCalls' = IF isClosed /\ delegate THEN closedCalls + 1 ELSE closedCalls
  BY Zenon DEF CheckStatus
<1>2. CASE isClosed
  <2>1. tStatus' = "closed" /\ closedCalls' = 1
    BY <1>1, <1>2
  <2>2. ~delegate'
    BY <1>1, <1>2, Zenon
  <2> QED
    BY <1>2, <2>1, <2>2
<1>3. CASE ~isClosed
  <2>1. tStatus' = "closing" /\ closedCalls' = 0
    BY <1>1, <1>3
  <2>2. delegate'
    BY <1>1, <1>3, Zenon
  <2> QED
    BY <2>1, <2>2
<1> QED
  BY <1>2, <1>3

\* Closing the raw socket of the client queues its last block.
LEMMA ProxyDisconnectEnds ==
  ASSUME TypeOK, ProxyEndInv, pStatus # "closed",
         ProxyDisconnect \/ ProxyForceDisconnect
  PROVE  /\ pStatus' # "closed"
         /\ cClosedCb' => cState' = "closed"
         /\ cState' = "fresh" => cState = "fresh"
  BY DEF ProxyDisconnect, ProxyForceDisconnect, ClientDisconnect,
         ClientForceDisconnect, ClientClose, ProxyEndInv, TypeOK, TypeOKProxy

LEMMA CloseProxySideEnds ==
  ASSUME TypeOK, ProxyEndInv, CloseProxySide
  PROVE  /\ pStatus' = "closed" <=> pStatus = "closed"
         /\ pStatus = "closed" => UNCHANGED <<cState, cClosedCb>>
         /\ cClosedCb' => cState' = "closed"
         /\ cState' = "fresh" => cState = "fresh"
<1>1. CASE ProxyDisconnect /\ pStatus # "closed"
  BY <1>1, ProxyDisconnectEnds
<1>2. CASE UNCHANGED <<pStatus, cState, cClosedCb>>
  BY <1>2 DEF ProxyEndInv
<1> QED
  BY <1>1, <1>2 DEF CloseProxySide

\* A handler of the adapter socket that ends it keeps the invariant.
LEMMA AdapterEndsLife ==
  ASSUME TypeOK, LifeInv, delegate, AdapterEnds, AnswersAtOnce, hasAdapter,
         UNCHANGED <<cReadCb, conn, hasAdapter, pEnds>>,
         nClosedCb' => nClosedCb
  PROVE  LifeInv'
<1>1. closedCalls = 0 /\ aStatus' = "closed" /\ tCancelled' /\ CheckStatus /\ CloseProxySide
  BY DEF LifeInv, EndInv, AdapterEnds
<1>2. EndInv'
  BY <1>1, CheckStatusTells DEF EndInv, AdapterDisconnected
<1>3. ProxyEndInv'
  BY <1>1, CloseProxySideEnds DEF LifeInv, ProxyEndInv
<1>4. AdapterEndInv'
  BY DEF LifeInv, AdapterEndInv, AnswersAtOnce
<1> QED
  BY <1>2, <1>3, <1>4 DEF LifeInv

-----------------------------------------------------------------------------
(* Handlers and events that end nothing.                                   *)

\* What most steps leave alone.
EndsNothing ==
  /\ UNCHANGED <<delegate, closedCalls, pEnds, pStatus>>
  /\ tStatus' = tStatus \/ (tStatus # "closed" /\ tStatus' # "closed")
  /\ tCancelled => tCancelled'

LEMMA EndsNothingEnd ==
  ASSUME EndInv, delegate, EndsNothing
  PROVE  EndInv'
  BY DEF EndInv, EndsNothing

LEMMA EndsNothingProxy ==
  ASSUME ProxyEndInv, EndsNothing, UNCHANGED <<cState, cClosedCb>>,
         cReadCb = <<>> => cReadCb' = <<>>
  PROVE  ProxyEndInv'
  BY DEF ProxyEndInv, EndsNothing

LEMMA SameAdapterEnd ==
  ASSUME AdapterEndInv, UNCHANGED <<hasAdapter, conn, nClosedCb>>,
         aStatus' = aStatus \/ aStatus' \in {"established", "disconnecting"}
         \/ (aStatus' = "closed" /\ AnswersAtOnce)
  PROVE  AdapterEndInv'
  BY DEF AdapterEndInv, AdapterDisconnected, AnswersAtOnce

LEMMA ProxyHandlersLife ==
  ASSUME TypeOK, TokenInv, LifeInv,
         Accept \/ ProxyReadForward \/ ProxyWroteResponse \/ ProxyWrote \/ PumpAdapter
  PROVE  LifeInv'
<1>1. delegate /\ tStatus # "closed"
  BY DEF LifeInv, EndInv, Accept, ProxyReadForward, ProxyWroteResponse, ProxyWrote,
         PumpAdapter
<1>2. /\ UNCHANGED <<delegate, closedCalls, pEnds, pStatus, tCancelled>>
      /\ tStatus' = tStatus \/ tStatus' \in {"readingRequest", "forwarding"}
  BY DEF Accept, ProxyReadForward, ProxyWroteResponse, ProxyWrote, PumpAdapter,
         StartForwarding, pVars, tVars
<1>3. UNCHANGED <<hasAdapter, conn, nClosedCb, aStatus>>
  BY DEF Accept, ProxyReadForward, ProxyWroteResponse, ProxyWrote, PumpAdapter,
         nVars, aVars
<1>4. /\ cClosedCb' = cClosedCb
      /\ cState' = cState \/ (cState = "fresh" /\ pStatus # "closed")
  BY DEF Accept, ProxyReadForward, ProxyWroteResponse, ProxyWrote, PumpAdapter,
         cVars, LifeInv, ProxyEndInv
<1>5. cReadCb = <<>> => cReadCb' = <<>>
  <2>1. CASE ProxyReadForward
    BY <2>1 DEF ProxyReadForward, TakeReadCb
  <2>2. CASE Accept \/ ProxyWroteResponse \/ ProxyWrote \/ PumpAdapter
    BY <2>2 DEF Accept, ProxyWroteResponse, ProxyWrote, PumpAdapter, cVars
  <2> QED
    BY <2>1, <2>2
<1>6. EndInv'
  BY <1>1, <1>2, EndsNothingEnd DEF EndsNothing, LifeInv
<1>7. ProxyEndInv'
  <2>1. cClosedCb' => cState' = "closed"
    BY <1>4 DEF LifeInv, ProxyEndInv
  <2> QED
    BY <1>2, <1>4, <1>5, <2>1 DEF LifeInv, ProxyEndInv
<1>8. AdapterEndInv'
  BY <1>3, SameAdapterEnd DEF LifeInv
<1> QED
  BY <1>6, <1>7, <1>8 DEF LifeInv

\* Only a tunnel without a connection opens its adapter.
LEMMA OpeningLife ==
  ASSUME TypeOK, TokenInv, LifeInv, ProxyReadRequest \/ Resolved
  PROVE  LifeInv'
<1>1. delegate /\ tStatus # "closed" /\ conn = "nil"
  BY DEF LifeInv, EndInv, TokenInv, ProxyReadRequest, Resolved
<1>2. /\ UNCHANGED <<delegate, closedCalls, pEnds, pStatus, tCancelled>>
      /\ tStatus' = tStatus \/ tStatus' = "waitingToBeReady"
      /\ UNCHANGED <<cState, cClosedCb, nClosedCb>>
  BY DEF ProxyReadRequest, Resolved, DidReceive, pVars, cVars
<1>3. cReadCb = <<>> => cReadCb' = <<>>
  BY DEF ProxyReadRequest, Resolved, TakeReadCb, cVars
<1>4. \/ UNCHANGED <<hasAdapter, aStatus, conn>>
      \/ hasAdapter' = TRUE /\ aStatus' = "connecting"
  BY DEF ProxyReadRequest, Resolved, DidReceive, OpenAdapter, AdapterOpen, aVars
<1>5. EndInv'
  BY <1>1, <1>2, EndsNothingEnd DEF EndsNothing, LifeInv
<1>6. ProxyEndInv'
  BY <1>1, <1>2, <1>3, EndsNothingProxy DEF EndsNothing, LifeInv
<1>7. AdapterEndInv'
  <2>1. CASE UNCHANGED <<hasAdapter, aStatus, conn>>
    BY <1>2, <2>1, SameAdapterEnd DEF LifeInv
  <2>2. CASE hasAdapter' = TRUE /\ aStatus' = "connecting"
    BY <1>1, <1>2, <2>2 DEF LifeInv, AdapterEndInv, AdapterDisconnected
  <2> QED
    BY <1>4, <2>1, <2>2
<1> QED
  BY <1>5, <1>6, <1>7 DEF LifeInv

LEMMA ProxyReadInvalidLife ==
  ASSUME TypeOK, LifeInv, ProxyReadInvalid
  PROVE  LifeInv'
<1>1. delegate /\ pStatus # "closed" /\ tStatus # "closed"
  BY DEF ProxyReadInvalid, TakeReadCb, LifeInv, ProxyEndInv, EndInv
<1>2. UNCHANGED <<delegate, closedCalls, pEnds, tCancelled, tStatus, hasAdapter,
                  conn, nClosedCb, aStatus>>
  BY DEF ProxyReadInvalid, nVars, aVars, tVars
<1>3. pStatus' # "closed" /\ (cClosedCb' => cState' = "closed")
  BY <1>1, ProxyDisconnectEnds DEF ProxyReadInvalid, LifeInv
<1>4. EndInv'
  BY <1>1, <1>2 DEF LifeInv, EndInv
<1>5. ProxyEndInv'
  BY <1>1, <1>2, <1>3 DEF LifeInv, ProxyEndInv
<1>6. AdapterEndInv'
  BY <1>2, SameAdapterEnd DEF LifeInv
<1> QED
  BY <1>4, <1>5, <1>6 DEF LifeInv

LEMMA AdapterHandlersLife ==
  ASSUME TypeOK, LifeInv, AdapterConnected \/ AdapterReadForward \/ AdapterWrote
  PROVE  LifeInv'
<1>1. delegate /\ tStatus # "closed"
  BY DEF LifeInv, EndInv, AdapterConnected, AdapterReadForward, AdapterWrote
<1>2. /\ UNCHANGED <<delegate, closedCalls, pEnds, pStatus, tCancelled>>
      /\ tStatus' = tStatus \/ tStatus' = "forwarding"
  BY DEF AdapterConnected, AdapterReadForward, AdapterWrote, StartForwarding, pVars,
         tVars
<1>3. UNCHANGED <<cState, cClosedCb, cReadCb>>
  BY DEF AdapterConnected, AdapterReadForward, AdapterWrote
<1>4. /\ UNCHANGED <<hasAdapter, conn, nClosedCb>>
      /\ aStatus' = aStatus \/ aStatus' = "established"
  BY DEF AdapterConnected, AdapterReadForward, AdapterWrote, aVars
<1>5. EndInv'
  BY <1>1, <1>2, EndsNothingEnd DEF EndsNothing, LifeInv
<1>6. ProxyEndInv'
  BY <1>1, <1>2, <1>3, EndsNothingProxy DEF EndsNothing, LifeInv
<1>7. AdapterEndInv'
  BY <1>4, SameAdapterEnd DEF LifeInv
<1> QED
  BY <1>5, <1>6, <1>7 DEF LifeInv

\* The client only acts on a socket that is open or flushing.
LEMMA ClientLife ==
  ASSUME TypeOK, LifeInv, NEW A,
         A => \/ ClientSends \/ ClientReceives \/ ClientGone,
         ClientStep(A)
  PROVE  LifeInv'
<1>1. UNCHANGED <<delegate, closedCalls, pEnds, pStatus, tCancelled, tStatus,
                  hasAdapter, aStatus, conn, nClosedCb>>
  BY DEF ClientStep, pVars, nVars, aVars, tVars
<1>2. /\ cState \in {"open", "flushing"}
      /\ UNCHANGED <<cState, cClosedCb>> \/ ClientClose
  BY DEF ClientStep, ClientSends, ClientReceives, ClientGone
<1>3. pStatus # "closed" /\ (cClosedCb' => cState' = "closed")
  BY <1>2 DEF LifeInv, ProxyEndInv, ClientClose
<1>4. EndInv'
  BY <1>1 DEF LifeInv, EndInv, AdapterDisconnected
<1>5. ProxyEndInv'
  BY <1>1, <1>3 DEF LifeInv, ProxyEndInv
<1>6. AdapterEndInv'
  BY <1>1, SameAdapterEnd DEF LifeInv
<1> QED
  BY <1>4, <1>5, <1>6 DEF LifeInv

LEMMA RemoteLife ==
  ASSUME TypeOK, TokenInv, LifeInv, NEW A,
         A => \/ UNCHANGED <<conn, nClosedCb>>
              \/ ConnUp \/ ConnLost \/ ConnCancelled,
         RemoteStep(A)
  PROVE  LifeInv'
<1>1. UNCHANGED <<delegate, closedCalls, pEnds, pStatus, tCancelled, tStatus,
                  hasAdapter, aStatus, cState, cClosedCb, cReadCb>>
  BY DEF RemoteStep, pVars, cVars, aVars, tVars
<1>2. \/ UNCHANGED <<conn, nClosedCb>>
      \/ conn \notin {"nil", "cancelled"} /\ nClosedCb' = nClosedCb
      \/ conn \notin {"nil", "cancelled"} /\ nClosedCb' /\ conn' = "cancelled"
  BY DEF RemoteStep, ConnUp, ConnLost, ConnCancelled
<1>3. EndInv'
  BY <1>1 DEF LifeInv, EndInv, AdapterDisconnected
<1>4. ProxyEndInv'
  BY <1>1 DEF LifeInv, ProxyEndInv
<1>5. AdapterEndInv'
  <2>1. CASE UNCHANGED <<conn, nClosedCb>>
    BY <1>1, <2>1, SameAdapterEnd DEF LifeInv
  <2>2. CASE conn \notin {"nil", "cancelled"} /\ nClosedCb' = nClosedCb
    BY <1>1, <2>2 DEF LifeInv, AdapterEndInv, AnswersAtOnce, AdapterDisconnected
  <2>3. CASE conn \notin {"nil", "cancelled"} /\ nClosedCb' /\ conn' = "cancelled"
    BY <1>1, <2>3 DEF LifeInv, AdapterEndInv, AnswersAtOnce, AdapterDisconnected
  <2> QED
    BY <1>2, <2>1, <2>2, <2>3
<1> QED
  BY <1>3, <1>4, <1>5 DEF LifeInv

-----------------------------------------------------------------------------
(* Handlers that end a side.                                               *)

LEMMA ProxyDidDisconnectLife ==
  ASSUME TypeOK, LifeInv, ProxyDidDisconnect
  PROVE  LifeInv'
<1>1. /\ delegate /\ closedCalls = 0 /\ pEnds = 0 /\ cState = "closed"
      /\ cReadCb = <<>>
  BY DEF ProxyDidDisconnect, LifeInv, EndInv, ProxyEndInv
<1>2. /\ pStatus' = "closed" /\ pEnds' = pEnds + 1 /\ tCancelled' /\ ~cClosedCb'
      /\ UNCHANGED <<cState, cReadCb, conn, nClosedCb, hasAdapter>>
      /\ CloseAdapterSide /\ CheckStatus
  BY DEF ProxyDidDisconnect
<1>3. aStatus' = aStatus \/ aStatus' = "disconnecting"
      \/ (aStatus' = "closed" /\ AnswersAtOnce)
  BY <1>2 DEF CloseAdapterSide, AdapterDisconnect
<1>4. EndInv'
  BY <1>1, <1>2, CheckStatusTells DEF EndInv, AdapterDisconnected
<1>5. ProxyEndInv'
  BY <1>1, <1>2 DEF ProxyEndInv
<1>6. AdapterEndInv'
  BY <1>2, <1>3, SameAdapterEnd DEF LifeInv
<1> QED
  BY <1>4, <1>5, <1>6 DEF LifeInv

\* A read or a write that fails belongs to an adapter.
LEMMA AdapterFailedLife ==
  ASSUME TypeOK, TokenInv, LifeInv, AdapterFailed
  PROVE  LifeInv'
<1>1. UNCHANGED <<cReadCb, conn, hasAdapter, pEnds, nClosedCb>> /\ delegate
  BY DEF AdapterFailed
<1>2. hasAdapter
  <2>1. nReadErrCb > 0 \/ nWriteErrCb > 0
    BY DEF AdapterFailed, TakeErrorCb
  <2>2. nWriteErrCb > 0 => UpTokens # 0 /\ readStatus # "readingFirstHeader"
    BY NoUpTokens DEF TokenInv
  <2>3. nReadErrCb > 0 => DownTokens # 0
    BY NoDownTokens
  <2>4. readySignal # 0
    BY <2>1, <2>2, <2>3 DEF TokenInv
  <2> QED
    BY <2>4 DEF TokenInv, LifeInv, AdapterEndInv
<1>3. CASE AnswersAtOnce /\ nDelegate
  BY <1>1, <1>2, <1>3, AdapterEndsLife DEF AdapterFailed
<1>4. CASE ~(AnswersAtOnce /\ nDelegate)
  <2>1. UNCHANGED <<aStatus, pStatus, cState, cClosedCb, tStatus, tCancelled,
                    delegate, closedCalls>>
    BY <1>4 DEF AdapterFailed
  <2> QED
    BY <1>1, <2>1 DEF LifeInv, EndInv, ProxyEndInv, AdapterEndInv, AnswersAtOnce,
                      AdapterDisconnected
<1> QED
  BY <1>3, <1>4

LEMMA AdapterDidDisconnectLife ==
  ASSUME TypeOK, LifeInv, AdapterDidDisconnect
  PROVE  LifeInv'
<1>1. /\ UNCHANGED <<cReadCb, conn, hasAdapter, pEnds>> /\ delegate
      /\ AdapterEnds /\ nClosedCb /\ ~nClosedCb'
  BY DEF AdapterDidDisconnect
<1>2. hasAdapter /\ AnswersAtOnce
  BY <1>1 DEF LifeInv, AdapterEndInv, AnswersAtOnce
<1> QED
  BY <1>1, <1>2, AdapterEndsLife

LEMMA ForceCloseLife ==
  ASSUME TypeOK, LifeInv, ForceClose
  PROVE  LifeInv'
<1>1. UNCHANGED <<cReadCb, conn, nClosedCb, hasAdapter, pEnds>> /\ delegate
  BY DEF ForceClose
<1>2. closedCalls = 0 /\ tStatus # "closed"
  BY <1>1 DEF LifeInv, EndInv
<1>3. CASE tCancelled
  <2>1. UNCHANGED <<pStatus, cState, cClosedCb, aStatus, tStatus, tCancelled,
                    delegate, closedCalls>>
    BY <1>3 DEF ForceClose
  <2> QED
    BY <1>1, <2>1 DEF LifeInv, EndInv, ProxyEndInv, AdapterEndInv, AnswersAtOnce,
                      AdapterDisconnected
<1>4. CASE ~tCancelled
  <2>1. pStatus # "closed"
    BY <1>4 DEF LifeInv, ProxyEndInv
  <2>2. tCancelled' /\ ProxyForceDisconnect
    BY <1>4, <2>1 DEF ForceClose
  <2>3. pStatus' # "closed" /\ (cClosedCb' => cState' = "closed")
    BY <2>1, <2>2, ProxyDisconnectEnds DEF LifeInv
  <2>4. \/ AdapterForceDisconnect /\ (CheckStatus \/ NotYetClosed)
        \/ UNCHANGED aStatus /\ NotYetClosed
    BY <1>4 DEF ForceClose
  <2>5. tStatus' = "closing" /\ UNCHANGED <<delegate, closedCalls>>
    <3>1. CASE CheckStatus
      BY <1>1, <1>2, <2>3, <3>1, CheckStatusTells
    <3>2. CASE NotYetClosed
      BY <3>2 DEF NotYetClosed
    <3> QED
      BY <2>4, <3>1, <3>2
  <2>6. EndInv'
    BY <1>2, <2>5, <1>1 DEF LifeInv, EndInv
  <2>7. ProxyEndInv'
    BY <1>1, <2>1, <2>3 DEF LifeInv, ProxyEndInv
  <2>8. AdapterEndInv'
    BY <1>1, <2>4, SameAdapterEnd DEF LifeInv, AdapterForceDisconnect
  <2> QED
    BY <2>6, <2>7, <2>8 DEF LifeInv
<1> QED
  BY <1>3, <1>4

LEMMA LifeStep ==
  ASSUME TypeOK, TokenInv, LifeInv, [Next]_vars
  PROVE  LifeInv'
<1>1. CASE Accept \/ ProxyReadForward \/ ProxyWroteResponse \/ ProxyWrote \/ PumpAdapter
  BY <1>1, ProxyHandlersLife
<1>2. CASE ProxyReadRequest \/ Resolved
  BY <1>2, OpeningLife
<1>3. CASE AdapterConnected \/ AdapterReadForward \/ AdapterWrote
  BY <1>3, AdapterHandlersLife
<1>4. CASE ProxyReadInvalid \/ ProxyDidDisconnect \/ AdapterFailed
           \/ AdapterDidDisconnect \/ ForceClose
  BY <1>4, ProxyReadInvalidLife, ProxyDidDisconnectLife, AdapterFailedLife,
     AdapterDidDisconnectLife, ForceCloseLife
<1>5. CASE ClientStep(ClientSends) \/ ClientStep(ClientReceives) \/ ClientStep(ClientGone)
  BY <1>5, ClientLife
<1>6. CASE RemoteStep(ConnUp) \/ RemoteStep(ConnLost) \/ RemoteStep(ConnCancelled)
  BY <1>6, RemoteLife
<1>7. CASE \E d \in 0..MaxDown : RemoteStep(RemoteMaySend(d))
  <2>1. PICK d \in 0..MaxDown : RemoteStep(RemoteMaySend(d))
    BY <1>7
  <2>2. RemoteMaySend(d) => UNCHANGED <<conn, nClosedCb>>
    BY DEF RemoteMaySend, RemoteSends
  <2> QED
    BY <2>1, <2>2, RemoteLife
<1>8. CASE RemoteStep(RemoteEnds) \/ RemoteStep(RemoteReadFails)
           \/ RemoteStep(RemoteReceives) \/ RemoteStep(RemoteWriteFails)
  <2>1. /\ RemoteEnds => UNCHANGED <<conn, nClosedCb>>
        /\ RemoteReadFails => UNCHANGED <<conn, nClosedCb>>
        /\ RemoteReceives => UNCHANGED <<conn, nClosedCb>>
        /\ RemoteWriteFails => UNCHANGED <<conn, nClosedCb>>
    BY DEF RemoteEnds, RemoteReadFails, RemoteReceives, RemoteWriteFails
  <2> QED
    BY <1>8, <2>1, RemoteLife
<1>9. CASE Released \/ UNCHANGED vars
  <2>1. UNCHANGED <<cState, cReadCb, cClosedCb, pStatus, conn, nClosedCb, hasAdapter,
                    aStatus, tStatus, tCancelled, delegate, closedCalls, pEnds>>
    BY <1>9 DEF Released, vars, cVars, pVars, nVars, aVars, tVars
  <2> QED
    BY <2>1 DEF LifeInv, EndInv, ProxyEndInv, AdapterEndInv, AnswersAtOnce,
                AdapterDisconnected
<1> QED
  BY <1>1, <1>2, <1>3, <1>4, <1>5, <1>6, <1>7, <1>8, <1>9 DEF Next

-----------------------------------------------------------------------------
(* What a closed tunnel leaves behind.                                     *)

LEMMA LifeInit ==
  ASSUME Init
  PROVE  LifeInv
<1>1. /\ tStatus = "invalid" /\ closedCalls = 0 /\ pEnds = 0 /\ cState = "fresh"
      /\ pStatus = "established" /\ conn = "nil"
  BY DEF Init, InitClient, InitProxy, InitRemote
<1>2. delegate /\ ~cClosedCb /\ ~hasAdapter /\ ~nClosedCb
  BY Zenon DEF Init, InitClient, InitRemote, InitAdapter
<1> QED
  BY <1>1, <1>2 DEF LifeInv, EndInv, ProxyEndInv, AdapterEndInv

THEOREM LifeCorrect == Spec => []LifeInv
<1>1. Init => LifeInv
  BY LifeInit
<1>2. TypeOK /\ TokenInv /\ LifeInv /\ [Next]_vars => LifeInv'
  BY LifeStep
<1> QED
  BY <1>1, <1>2, TypeCorrect, TokensCorrect, PTL DEF Spec

\* The server is told of the end of a tunnel exactly once, and then neither the
\* client's socket nor a live connection to the remote is left: no closed tunnel
\* leaks a socket and no tunnel with a live one is forgotten.
THEOREM ClosedIsReleased == Spec => []ClosedReleasesBoth
<1>1. LifeInv => ClosedReleasesBoth
  BY DEF LifeInv, EndInv, ProxyEndInv, AdapterEndInv, AnswersAtOnce,
         ClosedReleasesBoth
<1> QED
  BY <1>1, LifeCorrect, PTL

\* The tunnel has an adapter when a chunk arrives for it, and the adapter's socket
\* a connection when it is read or written: no forced unwrapping fails.
THEOREM NeverUnwrapsNil == Spec => []NoNilUnwrapped
<1>1. TypeOK /\ TokenInv /\ LifeInv => NoNilUnwrapped
  <2> SUFFICES ASSUME TypeOK, TokenInv, LifeInv
               PROVE  NoNilUnwrapped
    OBVIOUS
  <2>1. cReadCb # <<>> \/ nWrites # <<>> => UpTokens # 0
    BY NoUpTokens
  <2>2. nReads > 0 => DownTokens # 0
    BY NoDownTokens
  <2>3. cReadCb # <<>> /\ readStatus # "readingFirstHeader" => conn # "nil"
    BY <2>1 DEF TokenInv
  <2>4. nReads > 0 \/ nWrites # <<>> => conn # "nil"
    BY <2>1, <2>2 DEF TokenInv
  <2> QED
    BY <2>3, <2>4 DEF NoNilUnwrapped, LifeInv, AdapterEndInv
<1> QED
  BY <1>1, TypeCorrect, TokensCorrect, LifeCorrect, PTL

-----------------------------------------------------------------------------
(* Once a close was asked for.                                             *)

\* The status of the tunnel says whether it was accepted and whether it closes.
StatusInv ==
  /\ tCancelled <=> tStatus \in {"closing", "closed"}
  /\ cState = "fresh" <=> tStatus = "invalid"

\* After a close the adapter or its raw socket refuses reads and writes, or there
\* is no connection; only a cancelled connection loses its delegate.
RefuseInv ==
  /\ aCancelled => tCancelled
  /\ tCancelled => aCancelled \/ nCancelled \/ conn = "nil"
  /\ conn \in {"disconnected", "cancelled"} => nCancelled
  /\ conn # "cancelled" => nDelegate

\* The flag an elegant close waits for covers every outstanding write.
PendingInv == nWrites # <<>> => nWritePending

CancelInv == StatusInv /\ RefuseInv /\ PendingInv

\* A tunnel that was not accepted yet has nothing under way.
LEMMA FreshIsIdle ==
  ASSUME TypeOK, TokenInv, cState = "fresh"
  PROVE  /\ readStatus = "invalid" /\ conn = "nil" /\ ~resolving /\ ~nConnectedCb
         /\ UpTokens = 0 /\ DownTokens = 0
  BY DEF TokenInv

\* A completed or failed write was the only one.
LEMMA WriteDoneAlone ==
  ASSUME TypeOK, TokenInv, nWroteCb > 0 \/ nWriteErrCb > 0
  PROVE  nWrites = <<>>
<1>1. UpTokens <= 1
  BY DEF TokenInv, OneChunkInFlight
<1>2. ToRemote <= 1
  BY <1>1, SumTypes DEF UpTokens
<1>3. Len(nWrites) = 0
  BY <1>2, TokenTypes DEF ToRemote
<1> QED
  BY <1>3, LenEmpty DEF TypeOK, TypeOKRemote

LEMMA AdapterWritePends ==
  ASSUME TypeOK, PendingInv, NEW d \in Nat, AdapterWrite(d)
  PROVE  PendingInv'
<1>1. CASE UNCHANGED <<nWrites, nWritePending>>
  BY <1>1 DEF PendingInv
<1>2. CASE RemoteWrite(d)
  <2>1. nWritePending' = (nWritePending \/ ~nCancelled)
    BY <1>2 DEF RemoteWrite
  <2>2. CASE nCancelled
    <3>1. nWrites' = nWrites
      BY <1>2, <2>2 DEF RemoteWrite
    <3>2. nWritePending => nWritePending'
      BY <2>1, Zenon
    <3> QED
      BY <3>1, <3>2 DEF PendingInv
  <2>3. CASE ~nCancelled
    BY <2>1, <2>3, Zenon DEF PendingInv
  <2> QED
    BY <2>2, <2>3
<1> QED
  BY <1>1, <1>2 DEF AdapterWrite

LEMMA StartForwardingPends ==
  ASSUME TypeOK, PendingInv, StartForwarding
  PROVE  PendingInv'
  BY AdapterWritePends DEF StartForwarding, FirstHeader, PendingInv

\* Steps that cancel nothing.
CancelsNothing ==
  UNCHANGED <<tCancelled, aCancelled, nCancelled, nDelegate, conn>>

LEMMA CancelsNothingRefuse ==
  ASSUME RefuseInv, CancelsNothing
  PROVE  RefuseInv'
  BY DEF RefuseInv, CancelsNothing

LEMMA ProxyHandlersCancel ==
  ASSUME TypeOK, TokenInv, CancelInv,
         \/ Accept \/ ProxyReadInvalid \/ ProxyReadForward \/ ProxyWroteResponse
         \/ ProxyWrote \/ PumpAdapter
  PROVE  CancelInv'
<1>1. CancelsNothing
  BY DEF Accept, ProxyReadInvalid, ProxyReadForward, ProxyWroteResponse, ProxyWrote,
         PumpAdapter, CancelsNothing, nVars, aVars, tVars
<1>2. StatusInv'
  <2>1. CASE Accept
    BY <2>1 DEF Accept, CancelInv, StatusInv
  <2>2. CASE ProxyReadInvalid
    <3>1. cState # "fresh"
      BY <2>2, FreshIsIdle, NoUpTokens DEF ProxyReadInvalid, TakeReadCb
    <3>2. cState' # "fresh"
      BY <2>2, <3>1, ProxyDisconnectTokens DEF ProxyReadInvalid, DropsProxyTokens
    <3>3. UNCHANGED <<tStatus, tCancelled>>
      BY <2>2 DEF ProxyReadInvalid, tVars
    <3> QED
      BY <3>1, <3>2, <3>3 DEF CancelInv, StatusInv
  <2>3. CASE ProxyReadForward \/ ProxyWrote \/ PumpAdapter
    <3>1. UNCHANGED <<tStatus, tCancelled, cState>>
      BY <2>3 DEF ProxyReadForward, ProxyWrote, PumpAdapter, cVars, tVars
    <3> QED
      BY <3>1 DEF CancelInv, StatusInv
  <2>4. CASE ProxyWroteResponse
    <3>1. cState # "fresh"
      <4>1. cWroteCb > 0 \/ cEmptyCb > 0
        BY <2>4 DEF ProxyWroteResponse, TakeWroteCb
      <4>2. DownTokens # 0
        BY <4>1, NoDownTokens
      <4> QED
        BY <4>2, FreshIsIdle
    <3>2. /\ UNCHANGED <<tCancelled, cState>>
          /\ tStatus' = tStatus \/ (tStatus' = "forwarding" /\ ~tCancelled)
      BY <2>4 DEF ProxyWroteResponse, StartForwarding
    <3> QED
      BY <3>1, <3>2 DEF CancelInv, StatusInv
  <2> QED
    BY <2>1, <2>2, <2>3, <2>4
<1>3. PendingInv'
  <2>1. CASE ProxyReadForward /\ ~tCancelled
    <3>1. Head(cReadCb) \in Nat
      BY <2>1 DEF ProxyReadForward, TakeReadCb, TypeOK, TypeOKClient
    <3> QED
      BY <2>1, <3>1, AdapterWritePends DEF ProxyReadForward, Forwarded, CancelInv
  <2>2. CASE ProxyWroteResponse /\ StartForwarding
    BY <2>2, StartForwardingPends DEF CancelInv
  <2>3. CASE UNCHANGED <<nWrites, nWritePending>>
    BY <2>3 DEF CancelInv, PendingInv
  <2>4. CASE ProxyWroteResponse /\ ~StartForwarding
    BY <2>3, <2>4 DEF ProxyWroteResponse
  <2>5. CASE Accept \/ ProxyReadInvalid \/ ProxyWrote \/ PumpAdapter
             \/ (ProxyReadForward /\ tCancelled)
    BY <2>3, <2>5
       DEF Accept, ProxyReadInvalid, ProxyReadForward, ProxyWrote, PumpAdapter, nVars
  <2> QED
    BY <2>1, <2>2, <2>4, <2>5
<1> QED
  BY <1>1, <1>2, <1>3, CancelsNothingRefuse DEF CancelInv

LEMMA OpeningCancel ==
  ASSUME TypeOK, TokenInv, CancelInv, ProxyReadRequest \/ Resolved
  PROVE  CancelInv'
<1>1. conn = "nil" /\ cState # "fresh"
  BY DEF ProxyReadRequest, Resolved, TokenInv
<1>2. UNCHANGED <<tCancelled, cState, nCancelled, nDelegate, nWrites, nWritePending>>
  BY DEF ProxyReadRequest, Resolved, cVars
<1>3. /\ tStatus' = tStatus \/ (tStatus' = "waitingToBeReady" /\ ~tCancelled)
      /\ aCancelled' = aCancelled
      /\ conn' = conn \/ (conn' = "connecting" /\ ~tCancelled)
  BY <1>1 DEF ProxyReadRequest, Resolved, DidReceive, OpenAdapter, AdapterOpen,
              RemoteConnect, aVars
<1>4. StatusInv'
  BY <1>1, <1>2, <1>3 DEF CancelInv, StatusInv
<1>5. RefuseInv'
  BY <1>1, <1>2, <1>3 DEF CancelInv, RefuseInv
<1> QED
  BY <1>2, <1>4, <1>5 DEF CancelInv, PendingInv

LEMMA AdapterHandlersCancel ==
  ASSUME TypeOK, TokenInv, CancelInv,
         AdapterConnected \/ AdapterReadForward \/ AdapterWrote
  PROVE  CancelInv'
<1>1. CancelsNothing
  BY DEF AdapterConnected, AdapterReadForward, AdapterWrote, CancelsNothing, aVars,
         tVars
<1>2. StatusInv'
  <2>1. CASE AdapterReadForward \/ AdapterWrote
    <3>1. UNCHANGED <<tStatus, tCancelled, cState>>
      BY <2>1 DEF AdapterReadForward, AdapterWrote, tVars
    <3> QED
      BY <3>1 DEF CancelInv, StatusInv
  <2>2. CASE AdapterConnected
    <3>1. cState # "fresh"
      BY <2>2, FreshIsIdle DEF AdapterConnected
    <3>2. /\ UNCHANGED <<tCancelled, cState>>
          /\ tStatus' = tStatus \/ (tStatus' = "forwarding" /\ ~tCancelled)
      BY <2>2 DEF AdapterConnected, StartForwarding
    <3> QED
      BY <3>1, <3>2 DEF CancelInv, StatusInv
  <2> QED
    BY <2>1, <2>2
<1>3. PendingInv'
  <2>1. CASE UNCHANGED <<nWrites, nWritePending>>
    BY <2>1 DEF CancelInv, PendingInv
  <2>2. CASE StartForwarding
    BY <2>2, StartForwardingPends DEF CancelInv
  <2>3. CASE AdapterWrote
    <3>1. nWrites' = <<>>
      BY <2>3, WriteDoneAlone DEF AdapterWrote
    <3> QED
      BY <3>1 DEF PendingInv
  <2>4. CASE AdapterConnected /\ ~StartForwarding
    BY <2>1, <2>4 DEF AdapterConnected
  <2>5. CASE AdapterReadForward
    BY <2>1, <2>5 DEF AdapterReadForward
  <2> QED
    BY <2>2, <2>3, <2>4, <2>5
<1> QED
  BY <1>1, <1>2, <1>3, CancelsNothingRefuse DEF CancelInv

LEMMA ClientCancel ==
  ASSUME TypeOK, CancelInv, NEW A,
         A => \/ ClientSends \/ ClientReceives \/ ClientGone,
         ClientStep(A)
  PROVE  CancelInv'
<1>1. UNCHANGED <<tStatus, nWrites, nWritePending>> /\ CancelsNothing
  BY DEF ClientStep, CancelsNothing, nVars, aVars, tVars
<1>2. cState # "fresh" /\ cState' # "fresh"
  BY DEF ClientStep, ClientSends, ClientReceives, ClientGone, ClientClose
<1>3. StatusInv'
  BY <1>1, <1>2 DEF CancelInv, StatusInv, CancelsNothing
<1> QED
  BY <1>1, <1>3, CancelsNothingRefuse DEF CancelInv, PendingInv

LEMMA RemoteCancel ==
  ASSUME TypeOK, CancelInv, NEW A,
         A => \/ UNCHANGED <<conn, nCancelled, nDelegate>>
              \/ ConnUp \/ ConnLost \/ ConnCancelled,
         A => /\ UNCHANGED nWritePending
              /\ nWrites = <<>> => nWrites' = <<>>,
         RemoteStep(A)
  PROVE  CancelInv'
<1>1. UNCHANGED <<tStatus, tCancelled, cState, aCancelled>>
  BY DEF RemoteStep, cVars, aVars, tVars
<1>2. \/ UNCHANGED <<conn, nCancelled, nDelegate>>
      \/ conn = "connecting" /\ conn' = "connected" /\ UNCHANGED <<nCancelled, nDelegate>>
      \/ nCancelled' /\ nDelegate' = nDelegate /\ conn \in {"connecting", "connected"}
      \/ nCancelled' /\ nDelegate' = nDelegate /\ conn' = "cancelled"
  BY DEF RemoteStep, ConnUp, ConnLost, ConnCancelled
<1>3. RefuseInv'
  BY <1>1, <1>2 DEF CancelInv, RefuseInv
<1>4. PendingInv'
  BY DEF RemoteStep, CancelInv, PendingInv
<1> QED
  BY <1>1, <1>3, <1>4 DEF CancelInv, StatusInv

LEMMA AdapterFailedCancel ==
  ASSUME TypeOK, TokenInv, LifeInv, CancelInv, AdapterFailed
  PROVE  CancelInv'
<1>1. /\ nCancelled' /\ UNCHANGED <<conn, nDelegate, aCancelled, nWrites>>
      /\ delegate /\ TakeErrorCb
  BY DEF AdapterFailed
<1>2. nReadErrCb > 0 \/ nWriteErrCb > 0
  BY <1>1 DEF TakeErrorCb
<1>3. cState # "fresh"
  <2>1. nWriteErrCb > 0 => UpTokens # 0
    BY NoUpTokens
  <2>2. nReadErrCb > 0 => DownTokens # 0
    BY NoDownTokens
  <2> QED
    BY <1>2, <2>1, <2>2, FreshIsIdle
<1>4. PendingInv'
  <2>1. CASE nWriteErrCb > 0
    BY <1>1, <2>1, WriteDoneAlone DEF PendingInv
  <2>2. CASE UNCHANGED nWritePending
    BY <1>1, <2>2 DEF CancelInv, PendingInv
  <2> QED
    BY <1>1, <2>1, <2>2 DEF TakeErrorCb
<1>5. CASE AnswersAtOnce /\ nDelegate
  <2>1. CloseProxySide /\ tCancelled' /\ CheckStatus
    BY <1>5 DEF AdapterFailed, AdapterEnds
  <2>2. tStatus' \in {"closing", "closed"}
    BY <2>1 DEF CheckStatus
  <2>3. cState' # "fresh"
    BY <1>3, <2>1, CloseProxySideEnds DEF LifeInv
  <2> QED
    BY <1>1, <1>4, <2>1, <2>2, <2>3 DEF CancelInv, StatusInv, RefuseInv
<1>6. CASE ~(AnswersAtOnce /\ nDelegate)
  <2>1. UNCHANGED <<tStatus, tCancelled, cState>>
    BY <1>6 DEF AdapterFailed
  <2> QED
    BY <1>1, <1>4, <2>1 DEF CancelInv, StatusInv, RefuseInv
<1> QED
  BY <1>5, <1>6

LEMMA AdapterDidDisconnectCancel ==
  ASSUME TypeOK, TokenInv, LifeInv, CancelInv, AdapterDidDisconnect
  PROVE  CancelInv'
<1>1. /\ UNCHANGED <<conn, nCancelled, aCancelled, nWrites, nWritePending>>
      /\ nClosedCb /\ AdapterEnds
  BY DEF AdapterDidDisconnect
<1>2. conn = "cancelled" /\ nCancelled
  BY <1>1 DEF LifeInv, AdapterEndInv, CancelInv, RefuseInv
<1>3. CloseProxySide /\ tCancelled' /\ CheckStatus
  BY <1>1 DEF AdapterEnds
<1>4. tStatus' \in {"closing", "closed"}
  BY <1>3 DEF CheckStatus
<1>5. cState' # "fresh"
  BY <1>2, <1>3, FreshIsIdle, CloseProxySideEnds DEF LifeInv
<1> QED
  BY <1>1, <1>2, <1>3, <1>4, <1>5 DEF CancelInv, StatusInv, RefuseInv, PendingInv

\* A side that is not closed by close() has nothing left to close.
LEMMA NoAdapterRefuses ==
  ASSUME LifeInv, CancelInv, tCancelled \/ ~hasAdapter \/ AdapterDisconnected
  PROVE  aCancelled \/ nCancelled \/ conn = "nil"
<1>1. CASE tCancelled
  BY <1>1 DEF CancelInv, RefuseInv
<1>2. CASE ~hasAdapter
  BY <1>2 DEF LifeInv, AdapterEndInv
<1>3. CASE hasAdapter /\ AdapterDisconnected
  BY <1>3 DEF LifeInv, AdapterEndInv, AnswersAtOnce, CancelInv, RefuseInv
<1> QED
  BY <1>1, <1>2, <1>3

LEMMA ProxyDidDisconnectCancel ==
  ASSUME TypeOK, LifeInv, CancelInv, ProxyDidDisconnect
  PROVE  CancelInv'
<1>1. /\ UNCHANGED <<cState, conn, nDelegate, nWrites, nWritePending, hasAdapter>>
      /\ cClosedCb /\ CloseAdapterSide /\ tCancelled' /\ CheckStatus
  BY DEF ProxyDidDisconnect
<1>2. tStatus' \in {"closing", "closed"} /\ cState = "closed"
  BY <1>1 DEF CheckStatus, LifeInv, ProxyEndInv
<1>3. CASE ~tCancelled /\ hasAdapter /\ ~AdapterDisconnected
  <2>1. aCancelled' /\ nCancelled'
    BY <1>1, <1>3 DEF CloseAdapterSide, AdapterDisconnect, RemoteDisconnect
  <2> QED
    BY <1>1, <1>2, <2>1 DEF CancelInv, StatusInv, RefuseInv, PendingInv
<1>4. CASE tCancelled \/ ~hasAdapter \/ AdapterDisconnected
  <2>1. UNCHANGED <<aCancelled, nCancelled>>
    BY <1>1, <1>4 DEF CloseAdapterSide
  <2>2. aCancelled \/ nCancelled \/ conn = "nil"
    BY <1>4, NoAdapterRefuses
  <2> QED
    BY <1>1, <1>2, <2>1, <2>2 DEF CancelInv, StatusInv, RefuseInv, PendingInv
<1> QED
  BY <1>3, <1>4

LEMMA ForceCloseCancel ==
  ASSUME TypeOK, LifeInv, CancelInv, ForceClose
  PROVE  CancelInv'
<1>1. UNCHANGED <<conn, nDelegate, nWrites, nWritePending>> /\ cState # "fresh"
  BY DEF ForceClose
<1>2. CASE tCancelled
  <2>1. UNCHANGED <<cState, aCancelled, nCancelled, tStatus, tCancelled>>
    BY <1>2 DEF ForceClose
  <2> QED
    BY <1>1, <2>1 DEF CancelInv, StatusInv, RefuseInv, PendingInv
<1>3. CASE ~tCancelled
  <2>1. tCancelled' /\ tStatus' \in {"closing", "closed"}
    BY <1>3 DEF ForceClose, NotYetClosed, CheckStatus
  <2>2. cState' # "fresh"
    BY <1>1, <1>3, ProxyForceDisconnectTokens DEF ForceClose, DropsProxyTokens
  <2>3. CASE hasAdapter /\ ~AdapterDisconnected
    <3>1. aCancelled' /\ nCancelled'
      BY <1>3, <2>3 DEF ForceClose, AdapterForceDisconnect, RemoteForceDisconnect
    <3> QED
      BY <1>1, <2>1, <2>2, <3>1 DEF CancelInv, StatusInv, RefuseInv, PendingInv
  <2>4. CASE ~hasAdapter \/ AdapterDisconnected
    <3>1. UNCHANGED <<aCancelled, nCancelled>>
      BY <1>3, <2>4 DEF ForceClose
    <3>2. aCancelled \/ nCancelled \/ conn = "nil"
      BY <2>4, NoAdapterRefuses
    <3> QED
      BY <1>1, <2>1, <2>2, <3>1, <3>2 DEF CancelInv, StatusInv, RefuseInv, PendingInv
  <2> QED
    BY <2>3, <2>4
<1> QED
  BY <1>2, <1>3

LEMMA CancelStep ==
  ASSUME TypeOK, TokenInv, LifeInv, CancelInv, [Next]_vars
  PROVE  CancelInv'
<1>1. CASE \/ Accept \/ ProxyReadInvalid \/ ProxyReadForward \/ ProxyWroteResponse
           \/ ProxyWrote \/ PumpAdapter
  BY <1>1, ProxyHandlersCancel
<1>2. CASE ProxyReadRequest \/ Resolved
  BY <1>2, OpeningCancel
<1>3. CASE AdapterConnected \/ AdapterReadForward \/ AdapterWrote
  BY <1>3, AdapterHandlersCancel
<1>4. CASE ProxyDidDisconnect \/ AdapterFailed \/ AdapterDidDisconnect \/ ForceClose
  BY <1>4, ProxyDidDisconnectCancel, AdapterFailedCancel, AdapterDidDisconnectCancel,
     ForceCloseCancel
<1>5. CASE ClientStep(ClientSends) \/ ClientStep(ClientReceives) \/ ClientStep(ClientGone)
  BY <1>5, ClientCancel
<1>6. CASE RemoteStep(ConnUp) \/ RemoteStep(ConnLost) \/ RemoteStep(ConnCancelled)
  <2>1. /\ ConnUp => UNCHANGED <<nWritePending, nWrites>>
        /\ ConnLost => UNCHANGED <<nWritePending, nWrites>>
        /\ ConnCancelled => UNCHANGED <<nWritePending, nWrites>>
    BY DEF ConnUp, ConnLost, ConnCancelled
  <2> QED
    BY <1>6, <2>1, RemoteCancel
<1>7. CASE \E d \in 0..MaxDown : RemoteStep(RemoteMaySend(d))
  <2>1. PICK d \in 0..MaxDown : RemoteStep(RemoteMaySend(d))
    BY <1>7
  <2>2. RemoteMaySend(d) => UNCHANGED <<conn, nCancelled, nDelegate, nWritePending, nWrites>>
    BY DEF RemoteMaySend, RemoteSends
  <2> QED
    BY <2>1, <2>2, RemoteCancel
<1>8. CASE RemoteStep(RemoteEnds) \/ RemoteStep(RemoteReadFails)
  <2>1. /\ RemoteEnds => UNCHANGED <<conn, nCancelled, nDelegate, nWritePending, nWrites>>
        /\ RemoteReadFails => UNCHANGED <<conn, nCancelled, nDelegate, nWritePending, nWrites>>
    BY DEF RemoteEnds, RemoteReadFails
  <2> QED
    BY <1>8, <2>1, RemoteCancel
<1>9. CASE RemoteStep(RemoteReceives) \/ RemoteStep(RemoteWriteFails)
  <2>1. /\ RemoteReceives => /\ UNCHANGED <<conn, nCancelled, nDelegate, nWritePending>>
                             /\ nWrites # <<>>
        /\ RemoteWriteFails => /\ UNCHANGED <<conn, nCancelled, nDelegate, nWritePending>>
                               /\ nWrites # <<>>
    BY DEF RemoteReceives, RemoteWriteFails
  <2> QED
    BY <1>9, <2>1, RemoteCancel
<1>10. CASE Released \/ UNCHANGED vars
  <2>1. UNCHANGED <<cState, tStatus, tCancelled, aCancelled, conn, nCancelled, nDelegate,
                    nWrites, nWritePending>>
    BY <1>10 DEF Released, vars, cVars, nVars, aVars, tVars
  <2> QED
    BY <2>1 DEF CancelInv, StatusInv, RefuseInv, PendingInv
<1> QED
  BY <1>1, <1>2, <1>3, <1>4, <1>5, <1>6, <1>7, <1>8, <1>9, <1>10 DEF Next

THEOREM CancelCorrect == Spec => []CancelInv
<1>1. Init => CancelInv
  <2> SUFFICES ASSUME Init PROVE CancelInv
    OBVIOUS
  <2>1. tStatus = "invalid" /\ cState = "fresh" /\ conn = "nil" /\ nWrites = <<>>
    BY DEF Init, InitClient, InitRemote
  <2>2. ~tCancelled /\ ~aCancelled /\ nDelegate
    BY Zenon DEF Init, InitRemote, InitAdapter
  <2> QED
    BY <2>1, <2>2 DEF CancelInv, StatusInv, RefuseInv, PendingInv
<1>2. TypeOK /\ TokenInv /\ LifeInv /\ CancelInv /\ [Next]_vars => CancelInv'
  BY CancelStep
<1> QED
  BY <1>1, <1>2, TypeCorrect, TokensCorrect, LifeCorrect, PTL DEF Spec

-----------------------------------------------------------------------------
(* No read or write is started after a close was asked for.                *)

\* What NoIOAfterCancel says of a step.
StartsNothing ==
  /\ cReads' <= cReads /\ Len(cWrites') <= Len(cWrites)
  /\ nReads' <= nReads /\ Len(nWrites') <= Len(nWrites)
  /\ cEmptyCb' <= cEmptyCb /\ pumpTimers' <= pumpTimers

LEMMA ProxyHandlersStartNothing ==
  ASSUME TypeOK, TypeOK', TokenInv, CancelInv, tCancelled,
         \/ Accept \/ ProxyReadInvalid \/ ProxyReadRequest \/ ProxyReadForward
         \/ Resolved \/ ProxyWroteResponse \/ ProxyWrote
  PROVE  StartsNothing
<1>1. ~Accept
  BY DEF Accept, CancelInv, StatusInv
<1>2. UNCHANGED <<nReads, nWrites>> /\ pumpTimers' = pumpTimers
  BY <1>1 DEF ProxyReadInvalid, ProxyReadRequest, ProxyReadForward, Resolved,
              ProxyWroteResponse, ProxyWrote, nVars, tVars
<1>3. cReads' <= cReads /\ Len(cWrites') <= Len(cWrites)
  <2>1. CASE ProxyReadInvalid
    BY <2>1, ProxyDisconnectTokens DEF ProxyReadInvalid, DropsProxyTokens
  <2>2. CASE UNCHANGED <<cReads, cWrites>>
    BY <2>2, TokenTypes
  <2> QED
    BY <1>1, <2>1, <2>2
       DEF ProxyReadRequest, ProxyReadForward, Resolved, ProxyWroteResponse,
           ProxyWrote, cVars
<1>4. cEmptyCb' <= cEmptyCb
  <2>1. CASE ProxyWroteResponse \/ ProxyWrote
    <3>1. TakeWroteCb
      BY <2>1 DEF ProxyWroteResponse, ProxyWrote
    <3>2. cEmptyCb' \in {cEmptyCb, cEmptyCb - 1}
      BY <3>1 DEF TakeWroteCb
    <3> QED
      BY <3>2, TokenTypes
  <2>2. CASE UNCHANGED cEmptyCb
    BY <2>2, TokenTypes
  <2> QED
    BY <1>1, <2>1, <2>2
       DEF ProxyReadInvalid, ProxyReadRequest, ProxyReadForward, Resolved, cVars
<1> QED
  BY <1>2, <1>3, <1>4, TokenTypes DEF StartsNothing

\* The block of a timer set before the close finds the adapter cancelled.
LEMMA PumpStartsNothing ==
  ASSUME TypeOK, TypeOK', TokenInv, CancelInv, tCancelled, PumpAdapter
  PROVE  StartsNothing
<1>1. DownTokens # 0
  <2>1. pumpTimers > 0
    BY DEF PumpAdapter
  <2> QED
    BY <2>1, NoDownTokens
<1>2. conn # "nil"
  BY <1>1 DEF TokenInv
<1>3. nReads' = nReads
  BY <1>2 DEF PumpAdapter, AdapterRead, RemoteRead, CancelInv, RefuseInv
<1>4. UNCHANGED <<cReads, cWrites, cEmptyCb, nWrites>> /\ pumpTimers' <= pumpTimers
  BY TokenTypes DEF PumpAdapter, cVars
<1> QED
  BY <1>3, <1>4, TokenTypes DEF StartsNothing

LEMMA AdapterHandlersStartNothing ==
  ASSUME TypeOK, TypeOK', tCancelled,
         AdapterConnected \/ AdapterReadForward \/ AdapterWrote
  PROVE  StartsNothing
<1>1. UNCHANGED <<cReads, cWrites, nReads, nWrites, cEmptyCb, pumpTimers>>
  BY DEF AdapterConnected, AdapterReadForward, AdapterWrote, tVars
<1> QED
  BY <1>1, TokenTypes DEF StartsNothing

LEMMA ClosingStartsNothing ==
  ASSUME TypeOK, TypeOK', tCancelled,
         ProxyDidDisconnect \/ AdapterFailed \/ AdapterDidDisconnect \/ ForceClose
  PROVE  StartsNothing
<1>1. UNCHANGED <<nReads, nWrites, cEmptyCb, pumpTimers>>
  BY DEF ProxyDidDisconnect, AdapterFailed, AdapterDidDisconnect, ForceClose
<1>2. UNCHANGED <<cReads, cWrites>>
  BY DEF ProxyDidDisconnect, AdapterFailed, AdapterDidDisconnect, ForceClose,
         AdapterEnds, CloseProxySide
<1> QED
  BY <1>1, <1>2, TokenTypes DEF StartsNothing

LEMMA ClientStartsNothing ==
  ASSUME TypeOK, TypeOK',
         \/ ClientStep(ClientSends) \/ ClientStep(ClientReceives)
         \/ ClientStep(ClientGone)
  PROVE  StartsNothing
<1>1. UNCHANGED <<nReads, nWrites, cEmptyCb, pumpTimers>>
  BY DEF ClientStep, ClientSends, ClientReceives, ClientGone, nVars, tVars
<1>2. cReads' <= cReads /\ Len(cWrites') <= Len(cWrites)
  <2>1. CASE ClientStep(ClientSends)
    BY <2>1, TokenTypes DEF ClientStep, ClientSends
  <2>2. CASE ClientStep(ClientReceives)
    <3>1. CASE ClientClose
      BY <3>1, ClientCloseTokens, TokenTypes DEF DropsProxyTokens
    <3>2. CASE UNCHANGED cReads /\ cWrites # <<>> /\ cWrites' = Tail(cWrites)
      BY <3>2, TailTokens, TokenTypes
    <3> QED
      BY <2>2, <3>1, <3>2 DEF ClientStep, ClientReceives
  <2>3. CASE ClientStep(ClientGone)
    BY <2>3, ClientCloseTokens, TokenTypes DEF ClientStep, ClientGone, DropsProxyTokens
  <2> QED
    BY <2>1, <2>2, <2>3
<1> QED
  BY <1>1, <1>2, TokenTypes DEF StartsNothing

LEMMA RemoteStartsNothing ==
  ASSUME TypeOK, TypeOK', NEW A, RemoteStep(A),
         A => /\ nReads' \in {nReads, nReads - 1}
              /\ nWrites' = nWrites \/ (nWrites # <<>> /\ nWrites' = Tail(nWrites))
  PROVE  StartsNothing
<1>1. UNCHANGED <<cReads, cWrites, cEmptyCb, pumpTimers>>
  BY DEF RemoteStep, cVars, tVars
<1>2. nReads' <= nReads /\ Len(nWrites') <= Len(nWrites)
  BY TailTokens, TokenTypes DEF RemoteStep
<1> QED
  BY <1>1, <1>2, TokenTypes DEF StartsNothing

\* Once a close was asked for no read or write is started on either side, also by
\* the blocks that were queued before.
THEOREM NothingStartsAfterCancel == Spec => NoIOAfterCancel
<1>1. ASSUME TypeOK, TypeOK', TokenInv, LifeInv, CancelInv, Next, tCancelled
      PROVE  StartsNothing
  <2>1. CASE \/ Accept \/ ProxyReadInvalid \/ ProxyReadRequest \/ ProxyReadForward
             \/ Resolved \/ ProxyWroteResponse \/ ProxyWrote
    BY <1>1, <2>1, ProxyHandlersStartNothing
  <2>2. CASE PumpAdapter
    BY <1>1, <2>2, PumpStartsNothing
  <2>3. CASE AdapterConnected \/ AdapterReadForward \/ AdapterWrote
    BY <1>1, <2>3, AdapterHandlersStartNothing
  <2>4. CASE ProxyDidDisconnect \/ AdapterFailed \/ AdapterDidDisconnect \/ ForceClose
    BY <1>1, <2>4, ClosingStartsNothing
  <2>5. CASE \/ ClientStep(ClientSends) \/ ClientStep(ClientReceives)
             \/ ClientStep(ClientGone)
    BY <1>1, <2>5, ClientStartsNothing
  <2>6. CASE RemoteStep(ConnUp) \/ RemoteStep(ConnLost) \/ RemoteStep(ConnCancelled)
    BY <1>1, <2>6, RemoteStartsNothing DEF ConnUp, ConnLost, ConnCancelled
  <2>7. CASE \E d \in 0..MaxDown : RemoteStep(RemoteMaySend(d))
    BY <1>1, <2>7, RemoteStartsNothing DEF RemoteMaySend, RemoteSends
  <2>8. CASE \/ RemoteStep(RemoteEnds) \/ RemoteStep(RemoteReadFails)
             \/ RemoteStep(RemoteReceives) \/ RemoteStep(RemoteWriteFails)
    BY <1>1, <2>8, RemoteStartsNothing
       DEF RemoteEnds, RemoteReadFails, RemoteReceives, RemoteWriteFails
  <2>9. CASE Released
    <3>1. UNCHANGED <<cReads, cWrites, nReads, nWrites, cEmptyCb, pumpTimers>>
      BY <2>9 DEF Released, vars, cVars, nVars, tVars
    <3> QED
      BY <1>1, <3>1, TokenTypes DEF StartsNothing
  <2> QED
    BY <1>1, <2>1, <2>2, <2>3, <2>4, <2>5, <2>6, <2>7, <2>8, <2>9 DEF Next
<1>2. TypeOK /\ TypeOK' /\ TokenInv /\ LifeInv /\ CancelInv /\ [Next]_vars
        => [tCancelled => StartsNothing]_vars
  BY <1>1
<1> QED
  BY <1>2, TypeCorrect, TokensCorrect, LifeCorrect, CancelCorrect, PTL
     DEF Spec, NoIOAfterCancel, StartsNothing

-----------------------------------------------------------------------------
(* An elegant close flushes.                                               *)

\* What CloseFlushes says of a step.
KeepsClientData ==
  ~pCancelled /\ pCancelled' /\ ~forced' => cWrites' = cWrites

KeepsRemoteData ==
  nWrites # <<>> /\ ~nCancelRequested /\ nCancelRequested' =>
    conn' = "disconnected" \/ (forced' /\ ~tCancelled)

LEMMA ElegantCloseKeeps ==
  ASSUME ProxyDisconnect
  PROVE  ~pCancelled => cWrites' = cWrites
  BY DEF ProxyDisconnect, ClientDisconnect, ClientClose

LEMMA ClientDataKept ==
  ASSUME TypeOK, Next
  PROVE  KeepsClientData
<1>1. CASE \/ ProxyReadInvalid \/ AdapterFailed \/ AdapterDidDisconnect
  BY <1>1, ElegantCloseKeeps
     DEF ProxyReadInvalid, AdapterFailed, AdapterDidDisconnect, AdapterEnds,
         CloseProxySide, KeepsClientData
<1>2. CASE ForceClose
  BY <1>2 DEF ForceClose, KeepsClientData
<1>3. CASE UNCHANGED pCancelled
  BY <1>3 DEF KeepsClientData
<1>4. CASE \/ Accept \/ ProxyReadRequest \/ ProxyReadForward \/ Resolved
           \/ ProxyWroteResponse \/ ProxyWrote \/ PumpAdapter
           \/ ProxyDidDisconnect \/ AdapterConnected \/ AdapterReadForward
           \/ AdapterWrote
  BY <1>3, <1>4
     DEF Accept, ProxyReadRequest, ProxyReadForward, Resolved, ProxyWroteResponse,
         ProxyWrote, PumpAdapter, ProxyDidDisconnect, AdapterConnected,
         AdapterReadForward, AdapterWrote, pVars
<1>5. CASE \/ ClientStep(ClientSends) \/ ClientStep(ClientReceives)
           \/ ClientStep(ClientGone)
  BY <1>3, <1>5 DEF ClientStep, pVars
<1>6. CASE \/ RemoteStep(ConnUp) \/ RemoteStep(ConnLost) \/ RemoteStep(ConnCancelled)
           \/ \E d \in 0..MaxDown : RemoteStep(RemoteMaySend(d))
           \/ RemoteStep(RemoteEnds) \/ RemoteStep(RemoteReadFails)
           \/ RemoteStep(RemoteReceives) \/ RemoteStep(RemoteWriteFails)
  BY <1>3, <1>6 DEF RemoteStep, pVars
<1>7. CASE Released
  BY <1>3, <1>7 DEF Released, vars, pVars
<1> QED
  BY <1>1, <1>2, <1>4, <1>5, <1>6, <1>7 DEF Next

\* A write under way keeps the flag up, which disconnect and the block of a failed
\* read wait for; the blocks of completed and failed writes find no other write.
LEMMA RemoteDataKept ==
  ASSUME TypeOK, TokenInv, CancelInv, Next
  PROVE  KeepsRemoteData
<1>1. CASE UNCHANGED nCancelRequested
  BY <1>1 DEF KeepsRemoteData
<1>2. CASE nWrites = <<>>
  BY <1>2 DEF KeepsRemoteData
<1>3. ASSUME nWrites # <<>> PROVE nWritePending
  BY <1>3 DEF CancelInv, PendingInv
<1>4. CASE ProxyDidDisconnect
  <2>1. CASE AdapterDisconnect /\ nWrites # <<>>
    <3>1. nCancelRequested' = (nCancelRequested \/ (~AnswersAtOnce /\ ~nWritePending))
      BY <2>1 DEF AdapterDisconnect, RemoteDisconnect
    <3>2. nCancelRequested' => nCancelRequested
      BY <1>3, <2>1, <3>1, Zenon
    <3> QED
      BY <3>2 DEF KeepsRemoteData
  <2>2. CASE ~AdapterDisconnect
    BY <1>1, <1>4, <2>2 DEF ProxyDidDisconnect, CloseAdapterSide
  <2> QED
    BY <1>2, <2>1, <2>2
<1>5. CASE AdapterFailed
  <2>1. TakeErrorCb
    BY <1>5 DEF AdapterFailed
  <2>2. CASE nWriteErrCb > 0
    BY <1>2, <2>2, WriteDoneAlone
  <2>3. CASE /\ nCancelRequested' = (nCancelRequested \/ (~AnswersAtOnce /\ ~nWritePending))
             /\ nWrites # <<>>
    <3>1. nCancelRequested' => nCancelRequested
      BY <1>3, <2>3, Zenon
    <3> QED
      BY <3>1 DEF KeepsRemoteData
  <2> QED
    BY <1>2, <2>1, <2>2, <2>3 DEF TakeErrorCb
<1>6. CASE AdapterWrote
  BY <1>2, <1>6, WriteDoneAlone DEF AdapterWrote
<1>7. CASE ForceClose
  BY <1>1, <1>7 DEF ForceClose, KeepsRemoteData
<1>8. CASE RemoteStep(ConnLost)
  BY <1>8 DEF RemoteStep, ConnLost, KeepsRemoteData
<1>9. CASE \/ Accept \/ ProxyReadInvalid \/ ProxyReadRequest \/ ProxyReadForward
           \/ Resolved \/ ProxyWroteResponse \/ ProxyWrote \/ PumpAdapter
           \/ AdapterConnected \/ AdapterReadForward \/ AdapterDidDisconnect
  BY <1>1, <1>9
     DEF Accept, ProxyReadInvalid, ProxyReadRequest, ProxyReadForward, Resolved,
         ProxyWroteResponse, ProxyWrote, PumpAdapter, AdapterConnected,
         AdapterReadForward, AdapterDidDisconnect, nVars
<1>10. CASE \/ ClientStep(ClientSends) \/ ClientStep(ClientReceives)
            \/ ClientStep(ClientGone)
  BY <1>1, <1>10 DEF ClientStep, nVars
<1>11. CASE RemoteStep(ConnUp) \/ RemoteStep(ConnCancelled)
            \/ RemoteStep(RemoteEnds) \/ RemoteStep(RemoteReadFails)
            \/ RemoteStep(RemoteReceives) \/ RemoteStep(RemoteWriteFails)
  BY <1>1, <1>11
     DEF RemoteStep, ConnUp, ConnCancelled, RemoteEnds, RemoteReadFails,
         RemoteReceives, RemoteWriteFails
<1>12. CASE \E d \in 0..MaxDown : RemoteStep(RemoteMaySend(d))
  BY <1>1, <1>12 DEF RemoteStep, RemoteMaySend, RemoteSends
<1>13. CASE Released
  BY <1>1, <1>13 DEF Released, vars, nVars
<1> QED
  BY <1>4, <1>5, <1>6, <1>7, <1>8, <1>9, <1>10, <1>11, <1>12, <1>13 DEF Next

\* Closing elegantly loses nothing that was handed to a raw socket: what was
\* written to the client stays queued, and the connection to the remote is not
\* cancelled while a write to it is under way.
THEOREM ElegantCloseFlushes == Spec => CloseFlushes
<1>1. TypeOK /\ TokenInv /\ CancelInv /\ [Next]_vars
        => [KeepsClientData /\ KeepsRemoteData]_vars
  BY ClientDataKept, RemoteDataKept
<1> QED
  BY <1>1, TypeCorrect, TokensCorrect, CancelCorrect, PTL
     DEF Spec, CloseFlushes, KeepsClientData, KeepsRemoteData

-----------------------------------------------------------------------------
(* What a tunnel carries.                                                  *)

\* The first header was read and found to be a request.
Requested == readStatus \notin {"invalid", "readingFirstHeader"}

\* The next chunk for the remote, and the next for the client.
UpNext == Len(remoteGot) + 1 + Skipped

DownNext == Len(clientGot) + 1 - Skipped

\* The chunk under way to the remote is the next one it is to receive; the client
\* is read when everything read before was delivered.
UpPositions ==
  /\ cReadCb # <<>> => Head(cReadCb) = UpNext /\ clientSent = UpNext
  /\ nWrites # <<>> => Head(nWrites) = UpNext /\ clientSent = UpNext
  /\ cReads > 0 \/ nWroteCb > 0 => clientSent = UpNext - 1

UpOrder ==
  /\ \A i \in DOMAIN remoteGot : remoteGot[i] = i + Skipped
  /\ ~Requested => remoteGot = <<>> /\ ~isConnect
  /\ readStatus = "invalid" => clientSent = 0
  /\ readStatus = "readingFirstHeader" => /\ cReads > 0 => clientSent = 0
                                          /\ cReadCb # <<>> => clientSent = 1
  /\ Requested => UpPositions
  /\ Requested /\ readySignal <= 1 => clientSent = 1 /\ remoteGot = <<>>

\* A plain request is held back until the tunnel is ready; a CONNECT is not.
HeaderInv ==
  /\ readStatus = "pendingFirstHeader" => ~isConnect /\ readySignal <= 1
  /\ readStatus \in {"readingHeader", "readingContent"} /\ readySignal <= 1 => isConnect
  /\ writeStatus = "sendingConnectResponse" => isConnect

\* The remote is read, or will be, and nothing of it is under way.
Between ==
  nReads > 0 \/ nReadErrCb > 0 \/ cWroteCb > 0 \/ cEmptyCb > 0 \/ pumpTimers > 0

DownPositions ==
  /\ cWrites # <<>> => Head(cWrites) = DownNext /\ remoteSent = DownNext
  /\ nReadCb # <<>> /\ Head(nReadCb) # IVOnly =>
       Head(nReadCb) = DownNext /\ remoteSent = DownNext
  /\ nReadCb # <<>> /\ Head(nReadCb) = IVOnly => remoteSent = DownNext - 1
  /\ Between => remoteSent = DownNext - 1

DownOrder ==
  /\ \A i \in DOMAIN clientGot : clientGot[i] + Skipped = i
  /\ DownPositions
  /\ readySignal = 0 => remoteSent = 0 /\ clientGot = <<>>
  /\ isConnect /\ readySignal > 1 => clientGot # <<>>

OrderInv == UpOrder /\ HeaderInv /\ DownOrder

-----------------------------------------------------------------------------
(* Sequences and single chunks.                                            *)

LEMMA LenOne ==
  ASSUME NEW s \in Seq(Nat), Len(s) <= 1, s # <<>>
  PROVE  Len(s) = 1 /\ Tail(s) = <<>> /\ Head(s) = s[1] /\ Head(s) \in Nat
<1>1. Len(s) = 1
  <2>1. Len(s) \in Nat /\ Len(s) # 0
    BY LenEmpty
  <2>2. \A n \in Nat : n <= 1 /\ n # 0 => n = 1
    OBVIOUS
  <2> QED
    BY <2>1, <2>2
<1>2. Tail(s) \in Seq(Nat) /\ Len(Tail(s)) = 0 /\ Head(s) \in Nat
  BY <1>1, HeadTailProperties
<1>3. Tail(s) = <<>>
  BY <1>2, LenEmpty
<1>4. Head(s) = s[1]
  BY <1>1
<1> QED
  BY <1>1, <1>2, <1>3, <1>4

LEMMA TailEmptyIsOne ==
  ASSUME NEW s \in Seq(Nat), s # <<>>, Tail(s) = <<>>
  PROVE  Len(s) = 1 /\ s = <<Head(s)>>
<1>1. Len(s) \in Nat /\ Len(s) # 0
  BY LenEmpty
<1>2. Len(Tail(s)) = Len(s) - 1
  BY HeadTailProperties
<1>3. Len(Tail(s)) = 0
  BY HeadTailProperties, LenEmpty
<1>4. Len(s) = 1
  <2>1. \A n \in Nat : n - 1 = 0 => n = 1
    OBVIOUS
  <2> QED
    BY <1>1, <1>2, <1>3, <2>1
<1> QED
  BY <1>4

LEMMA AppendCounts ==
  ASSUME NEW s \in Seq(Nat), NEW e \in Nat, NEW k \in Int,
         \A i \in DOMAIN s : s[i] = i + k, e = Len(s) + 1 + k
  PROVE  \A i \in DOMAIN Append(s, e) : Append(s, e)[i] = i + k
<1>1. /\ Append(s, e) \in Seq(Nat) /\ Len(Append(s, e)) = Len(s) + 1
      /\ \A i \in 1 .. Len(s) : Append(s, e)[i] = s[i]
      /\ Append(s, e)[Len(s) + 1] = e
  BY AppendProperties
<1>2. DOMAIN s = 1 .. Len(s) /\ Len(s) \in Nat
  BY LenProperties
<1>3. DOMAIN Append(s, e) = 1 .. Len(s) + 1
  BY <1>1, LenProperties
<1> QED
  BY <1>1, <1>2, <1>3

LEMMA AppendToEmpty ==
  ASSUME NEW e \in Nat
  PROVE  /\ Append(<<>>, e) # <<>> /\ Head(Append(<<>>, e)) = e
         /\ Append(<<>>, e) = <<e>>
  OBVIOUS

\* A token in one place is the only one of its direction.
LEMMA UpAlone ==
  ASSUME TypeOK, TokenInv
  PROVE  /\ cReadCb # <<>> => /\ Tail(cReadCb) = <<>> /\ Head(cReadCb) \in Nat
                              /\ cReads = 0 /\ nWrites = <<>> /\ nWroteCb = 0
                              /\ nWriteErrCb = 0
         /\ nWrites # <<>> => /\ Tail(nWrites) = <<>> /\ Head(nWrites) \in Nat
                              /\ cReads = 0 /\ cReadCb = <<>> /\ nWroteCb = 0
                              /\ nWriteErrCb = 0
         /\ cReads > 0 => /\ cReads = 1 /\ cReadCb = <<>> /\ nWrites = <<>>
                          /\ nWroteCb = 0
         /\ nWroteCb > 0 => /\ nWroteCb = 1 /\ cReads = 0 /\ cReadCb = <<>>
                            /\ nWrites = <<>>
<1>1. /\ cReads \in Nat /\ Len(cReadCb) \in Nat /\ Len(nWrites) \in Nat
      /\ nWroteCb \in Nat /\ nWriteErrCb \in Nat
      /\ cReads + Len(cReadCb) + (Len(nWrites) + nWroteCb + nWriteErrCb) <= 1
  BY TokenTypes DEF TokenInv, OneChunkInFlight, UpTokens, FromClient, ToRemote
<1>2. cReadCb \in Seq(Nat) /\ nWrites \in Seq(Nat)
  BY DEF TypeOK, TypeOKClient, TypeOKRemote
<1>3. /\ Len(cReadCb) <= 1 /\ Len(nWrites) <= 1
      /\ cReadCb # <<>> => Len(cReadCb) # 0
      /\ nWrites # <<>> => Len(nWrites) # 0
  BY <1>1, <1>2, LenEmpty
<1>4. /\ cReadCb # <<>> => cReads = 0 /\ Len(nWrites) = 0 /\ nWroteCb = 0 /\ nWriteErrCb = 0
      /\ nWrites # <<>> => cReads = 0 /\ Len(cReadCb) = 0 /\ nWroteCb = 0 /\ nWriteErrCb = 0
      /\ cReads > 0 => cReads = 1 /\ Len(cReadCb) = 0 /\ Len(nWrites) = 0 /\ nWroteCb = 0
      /\ nWroteCb > 0 => nWroteCb = 1 /\ cReads = 0 /\ Len(cReadCb) = 0 /\ Len(nWrites) = 0
  BY <1>1, <1>3
<1> QED
  BY <1>2, <1>3, <1>4, LenEmpty, LenOne

LEMMA DownAlone ==
  ASSUME TypeOK, TokenInv
  PROVE  /\ cWrites # <<>> => /\ Tail(cWrites) = <<>> /\ Head(cWrites) \in Nat
                              /\ nReadCb = <<>> /\ ~Between
         /\ nReadCb # <<>> => /\ Tail(nReadCb) = <<>> /\ Head(nReadCb) \in Nat
                              /\ cWrites = <<>> /\ ~Between
         /\ Between => cWrites = <<>> /\ nReadCb = <<>>
         /\ nReads > 0 => /\ nReads = 1 /\ nReadErrCb = 0 /\ cWroteCb = 0
                          /\ cEmptyCb = 0 /\ pumpTimers = 0
<1>1. /\ nReads \in Nat /\ Len(nReadCb) \in Nat /\ nReadErrCb \in Nat
      /\ Len(cWrites) \in Nat /\ cWroteCb \in Nat /\ cEmptyCb \in Nat
      /\ pumpTimers \in Nat
      /\ nReads + Len(nReadCb) + nReadErrCb + (Len(cWrites) + cWroteCb + cEmptyCb)
           + pumpTimers <= 1
  BY TokenTypes DEF TokenInv, OneChunkInFlight, DownTokens, FromRemote, ToClient
<1>2. cWrites \in Seq(Nat) /\ nReadCb \in Seq(Nat)
  BY DEF TypeOK, TypeOKClient, TypeOKRemote
<1>3. /\ Len(cWrites) <= 1 /\ Len(nReadCb) <= 1
      /\ cWrites # <<>> => Len(cWrites) # 0
      /\ nReadCb # <<>> => Len(nReadCb) # 0
  BY <1>1, <1>2, LenEmpty
<1>4. /\ cWrites # <<>> => Len(nReadCb) = 0 /\ ~Between
      /\ nReadCb # <<>> => Len(cWrites) = 0 /\ ~Between
      /\ Between => Len(cWrites) = 0 /\ Len(nReadCb) = 0
      /\ nReads > 0 => /\ nReads = 1 /\ nReadErrCb = 0 /\ cWroteCb = 0
                       /\ cEmptyCb = 0 /\ pumpTimers = 0
  BY <1>1, <1>3 DEF Between
<1> QED
  BY <1>2, <1>3, <1>4, LenEmpty, LenOne

-----------------------------------------------------------------------------
(* Steps that move nothing to the remote, and steps that move nothing to   *)
(* the client.                                                             *)

UpQuiet ==
  /\ UNCHANGED <<remoteGot, isConnect, readStatus, clientSent, readySignal>>
  /\ cReadCb' = cReadCb \/ cReadCb' = <<>>
  /\ nWrites' = nWrites \/ nWrites' = <<>>
  /\ cReads' > 0 => cReads > 0
  /\ nWroteCb' > 0 => nWroteCb > 0

LEMMA UpQuietOrder ==
  ASSUME UpOrder, UpQuiet
  PROVE  UpOrder'
<1>1. UNCHANGED <<Skipped, UpNext, Requested>>
  BY DEF UpQuiet, Skipped, UpNext, Requested
<1>2. UpPositions => UpPositions'
  BY <1>1 DEF UpPositions, UpQuiet
<1> QED
  BY <1>1, <1>2 DEF UpOrder, UpQuiet

DownQuiet ==
  /\ UNCHANGED <<clientGot, isConnect, remoteSent, readySignal>>
  /\ cWrites' = cWrites \/ cWrites' = <<>>
  /\ nReadCb' = nReadCb \/ nReadCb' = <<>>
  /\ Between' => Between

LEMMA DownQuietOrder ==
  ASSUME DownOrder, DownQuiet
  PROVE  DownOrder'
<1>1. UNCHANGED <<Skipped, DownNext>>
  BY DEF DownQuiet, Skipped, DownNext
<1>2. DownPositions'
  BY <1>1 DEF DownOrder, DownPositions, DownQuiet
<1> QED
  BY <1>1, <1>2 DEF DownOrder, DownQuiet

\* The parts of the proxy socket that a close leaves.
LEMMA ProxyDisconnectQuiet ==
  ASSUME TypeOK, ProxyDisconnect \/ ProxyForceDisconnect \/ CloseProxySide
  PROVE  /\ cReads' > 0 => cReads > 0
         /\ cWrites' = cWrites \/ cWrites' = <<>>
  BY DEF ProxyDisconnect, ProxyForceDisconnect, CloseProxySide, ClientDisconnect,
         ClientForceDisconnect, ClientClose

LEMMA HeaderSame ==
  ASSUME HeaderInv, UNCHANGED <<readStatus, isConnect, readySignal, writeStatus>>
  PROVE  HeaderInv'
  BY DEF HeaderInv

\* The handlers and events that are quiet in both directions.
LEMMA QuietHandlers ==
  ASSUME TypeOK, TypeOK', TokenInv,
         \/ ProxyReadInvalid \/ Resolved \/ ProxyWrote \/ PumpAdapter
         \/ ProxyDidDisconnect \/ AdapterFailed \/ AdapterDidDisconnect
         \/ ForceClose
  PROVE  UpQuiet /\ DownQuiet /\ UNCHANGED writeStatus
<1>1. /\ UNCHANGED <<remoteGot, isConnect, readStatus, clientSent, readySignal>>
      /\ UNCHANGED <<clientGot, remoteSent, writeStatus, nWrites, nWroteCb>>
  BY DEF ProxyReadInvalid, Resolved, ProxyWrote, PumpAdapter, ProxyDidDisconnect,
         AdapterFailed, AdapterDidDisconnect, ForceClose, cVars, pVars, nVars, tVars
<1>2. cReadCb' = cReadCb \/ cReadCb' = <<>>
  <2>1. CASE ProxyReadInvalid
    BY <2>1, UpAlone DEF ProxyReadInvalid, TakeReadCb
  <2> QED
    BY <2>1 DEF Resolved, ProxyWrote, PumpAdapter, ProxyDidDisconnect, AdapterFailed,
                AdapterDidDisconnect, ForceClose, cVars
<1>3. /\ cReads' > 0 => cReads > 0
      /\ cWrites' = cWrites \/ cWrites' = <<>>
  <2>1. CASE \/ UNCHANGED <<cReads, cWrites>>
             \/ ProxyDisconnect \/ ProxyForceDisconnect \/ CloseProxySide
    BY <2>1, ProxyDisconnectQuiet
  <2> QED
    BY <2>1 DEF ProxyReadInvalid, Resolved, ProxyWrote, PumpAdapter,
                ProxyDidDisconnect, AdapterFailed, AdapterDidDisconnect, ForceClose,
                AdapterEnds, cVars
<1>4. nReadCb' = nReadCb
  BY DEF ProxyReadInvalid, Resolved, ProxyWrote, PumpAdapter, ProxyDidDisconnect,
         AdapterFailed, AdapterDidDisconnect, ForceClose, nVars
<1>5. Between' => Between
  <2>1. CASE ProxyWrote
    <3>1. UNCHANGED <<nReads, nReadErrCb>> /\ TakeWroteCb
      BY <2>1 DEF ProxyWrote, nVars
    <3>2. cWroteCb > 0 \/ cEmptyCb > 0
      BY <3>1 DEF TakeWroteCb
    <3> QED
      BY <3>2 DEF Between
  <2>2. CASE PumpAdapter
    BY <2>2 DEF PumpAdapter, Between
  <2>3. CASE AdapterFailed
    <3>1. UNCHANGED <<nReads, cWroteCb, cEmptyCb, pumpTimers>> /\ TakeErrorCb
      BY <2>3 DEF AdapterFailed
    <3>2. nReadErrCb' > 0 => nReadErrCb > 0
      BY <3>1, TokenTypes DEF TakeErrorCb
    <3> QED
      BY <3>1, <3>2 DEF Between
  <2>4. CASE ProxyReadInvalid \/ Resolved \/ ProxyDidDisconnect
             \/ AdapterDidDisconnect \/ ForceClose
    <3>1. UNCHANGED <<nReads, nReadErrCb, cWroteCb, cEmptyCb, pumpTimers>>
      BY <2>4 DEF ProxyReadInvalid, Resolved, ProxyDidDisconnect, AdapterDidDisconnect,
                  ForceClose, cVars, nVars, tVars
    <3> QED
      BY <3>1 DEF Between
  <2> QED
    BY <2>1, <2>2, <2>3, <2>4
<1> QED
  BY <1>1, <1>2, <1>3, <1>4, <1>5 DEF UpQuiet, DownQuiet

LEMMA QuietEvents ==
  ASSUME TypeOK, TypeOK', TokenInv,
         \/ ClientStep(ClientGone)
         \/ RemoteStep(ConnUp) \/ RemoteStep(ConnLost) \/ RemoteStep(ConnCancelled)
         \/ RemoteStep(RemoteEnds) \/ RemoteStep(RemoteReadFails)
         \/ RemoteStep(RemoteWriteFails)
         \/ Released \/ UNCHANGED vars
  PROVE  UpQuiet /\ DownQuiet /\ UNCHANGED writeStatus
<1>1. /\ UNCHANGED <<remoteGot, isConnect, readStatus, clientSent, readySignal>>
      /\ UNCHANGED <<clientGot, remoteSent, writeStatus, nWroteCb, cReadCb, nReadCb>>
  BY DEF ClientStep, ClientGone, RemoteStep, ConnUp, ConnLost, ConnCancelled,
         RemoteEnds, RemoteReadFails, RemoteWriteFails, Released, vars, cVars, pVars,
         nVars, tVars
<1>2. nWrites' = nWrites \/ nWrites' = <<>>
  <2>1. CASE RemoteStep(RemoteWriteFails)
    BY <2>1, UpAlone DEF RemoteStep, RemoteWriteFails
  <2> QED
    BY <2>1 DEF ClientStep, ClientGone, RemoteStep, ConnUp, ConnLost, ConnCancelled,
                RemoteEnds, RemoteReadFails, Released, vars, nVars
<1>3. /\ cReads' > 0 => cReads > 0
      /\ cWrites' = cWrites \/ cWrites' = <<>>
  BY DEF ClientStep, ClientGone, ClientClose, RemoteStep, Released, vars, cVars
<1>4. Between' => Between
  <2>1. CASE RemoteStep(RemoteEnds) \/ RemoteStep(RemoteReadFails)
    BY <2>1 DEF RemoteStep, RemoteEnds, RemoteReadFails, Between
  <2>2. CASE \/ ClientStep(ClientGone)
             \/ RemoteStep(ConnUp) \/ RemoteStep(ConnLost) \/ RemoteStep(ConnCancelled)
             \/ RemoteStep(RemoteWriteFails) \/ Released \/ UNCHANGED vars
    <3>1. UNCHANGED <<nReads, nReadErrCb, cWroteCb, cEmptyCb, pumpTimers>>
      BY <2>2 DEF ClientStep, ClientGone, RemoteStep, ConnUp, ConnLost, ConnCancelled,
                  RemoteWriteFails, Released, vars, cVars, nVars, tVars
    <3> QED
      BY <3>1 DEF Between
  <2> QED
    BY <2>1, <2>2
<1> QED
  BY <1>1, <1>2, <1>3, <1>4 DEF UpQuiet, DownQuiet

LEMMA QuietOrder ==
  ASSUME OrderInv, UpQuiet, DownQuiet, UNCHANGED writeStatus
  PROVE  OrderInv'
<1>1. UNCHANGED <<readStatus, isConnect, readySignal>>
  BY DEF UpQuiet
<1> QED
  BY <1>1, UpQuietOrder, DownQuietOrder, HeaderSame DEF OrderInv

-----------------------------------------------------------------------------
(* What is known while something is under way.                             *)

LEMMA OrderTypes ==
  ASSUME TypeOK
  PROVE  /\ Skipped \in {0, 1} /\ clientSent \in Nat /\ remoteSent \in Nat
         /\ remoteGot \in Seq(Nat) /\ clientGot \in Seq(Nat)
         /\ Len(remoteGot) \in Nat /\ Len(clientGot) \in Nat
         /\ UpNext \in Nat /\ DownNext \in Int /\ readySignal \in Nat
<1>1. /\ clientSent \in Nat /\ remoteSent \in Nat /\ readySignal \in Nat
      /\ remoteGot \in Seq(Nat) /\ clientGot \in Seq(Nat) /\ Skipped \in {0, 1}
  BY DEF TypeOK, TypeOKClient, TypeOKRemote, Skipped
<1>2. Len(remoteGot) \in Nat /\ Len(clientGot) \in Nat
  BY <1>1, LenProperties
<1> QED
  BY <1>1, <1>2 DEF UpNext, DownNext

LEMMA UpUnderWay ==
  ASSUME TypeOK, TokenInv,
         cReads > 0 \/ cReadCb # <<>> \/ nWrites # <<>> \/ nWroteCb > 0
  PROVE  \/ readStatus = "readingFirstHeader" /\ nWrites = <<>> /\ nWroteCb = 0
         \/ Requested /\ ~(readySignal <= 1)
<1>1. UpTokens # 0
  BY NoUpTokens
<1>2. CASE readStatus = "readingFirstHeader"
  BY <1>2 DEF TokenInv
<1>3. CASE readStatus # "readingFirstHeader"
  <2>1. ~(readySignal <= 1)
    BY <1>1, <1>3 DEF TokenInv
  <2>2. readStatus # "invalid"
    BY <2>1 DEF TokenInv
  <2> QED
    BY <1>3, <2>1, <2>2 DEF Requested
<1> QED
  BY <1>2, <1>3

LEMMA DownUnderWay ==
  ASSUME TypeOK, TokenInv, cWrites # <<>> \/ nReadCb # <<>> \/ Between
  PROVE  readySignal # 0 /\ Requested
<1>1. DownTokens # 0
  BY NoDownTokens DEF Between
<1>2. readySignal # 0
  BY <1>1 DEF TokenInv
<1>3. readStatus \notin {"invalid", "readingFirstHeader"}
  BY <1>2 DEF TokenInv
<1> QED
  BY <1>2, <1>3 DEF Requested

\* Before the first ready signal nothing came from the remote.
LEMMA NothingDown ==
  ASSUME TypeOK, TokenInv, DownOrder, readySignal = 0
  PROVE  /\ cWrites = <<>> /\ nReadCb = <<>> /\ ~Between
         /\ remoteSent = 0 /\ clientGot = <<>>
  BY DownUnderWay DEF DownOrder

\* Before the second ready signal the first header is all that came from the client.
LEMMA NothingUp ==
  ASSUME TypeOK, TokenInv, UpOrder, Requested, readySignal <= 1
  PROVE  /\ cReads = 0 /\ cReadCb = <<>> /\ nWrites = <<>> /\ nWroteCb = 0
         /\ clientSent = 1 /\ remoteGot = <<>>
<1>1. ~(cReads > 0 \/ cReadCb # <<>> \/ nWrites # <<>> \/ nWroteCb > 0)
  BY UpUnderWay DEF Requested
<1>2. cReads \in Nat /\ nWroteCb \in Nat
  BY TokenTypes
<1> QED
  BY <1>1, <1>2 DEF UpOrder

-----------------------------------------------------------------------------
(* The opening and the request.                                            *)

LEMMA AcceptOrder ==
  ASSUME TypeOK, TypeOK', TokenInv, OrderInv, Accept
  PROVE  OrderInv'
<1>1. /\ UNCHANGED <<remoteGot, isConnect, clientSent, readySignal, cReadCb, writeStatus>>
      /\ UNCHANGED <<clientGot, remoteSent, cWrites, nReadCb>>
      /\ readStatus' = "readingFirstHeader" /\ cState = "fresh"
  BY DEF Accept, ProxyOpen, nVars
<1>2. readStatus = "invalid" /\ cReadCb = <<>>
  <2>1. readStatus = "invalid"
    BY <1>1 DEF TokenInv
  <2>2. cReadCb = <<>>
    BY <2>1, UpUnderWay DEF Requested
  <2> QED
    BY <2>1, <2>2
<1>3. UpOrder'
  <2>1. remoteGot = <<>> /\ ~isConnect /\ clientSent = 0
    BY <1>2 DEF OrderInv, UpOrder, Requested
  <2> QED
    BY <1>1, <1>2, <2>1 DEF UpOrder, Requested
<1>4. HeaderInv'
  BY <1>1 DEF OrderInv, HeaderInv
<1>5. DownQuiet
  BY <1>1 DEF DownQuiet, Between, Accept, nVars
<1> QED
  BY <1>3, <1>4, <1>5, DownQuietOrder DEF OrderInv

LEMMA ProxyReadRequestOrder ==
  ASSUME TypeOK, TypeOK', TokenInv, OrderInv, ProxyReadRequest
  PROVE  OrderInv'
<1>1. /\ UNCHANGED <<remoteGot, clientSent, readySignal, cReads, nWrites, nWroteCb>>
      /\ UNCHANGED <<clientGot, remoteSent, cWrites, nReadCb, writeStatus>>
      /\ UNCHANGED <<nReads, nReadErrCb, cWroteCb, cEmptyCb, pumpTimers>>
      /\ readStatus = "readingFirstHeader" /\ cReadCb # <<>> /\ cReadCb' = Tail(cReadCb)
      /\ \/ isConnect' /\ readStatus' = "readingContent"
         \/ ~isConnect' /\ readStatus' = "pendingFirstHeader"
  BY DEF ProxyReadRequest, TakeReadCb
<1>2. /\ cReads = 0 /\ nWrites = <<>> /\ nWroteCb = 0 /\ cReadCb' = <<>>
      /\ clientSent = 1 /\ remoteGot = <<>> /\ ~isConnect /\ readySignal = 0
  BY <1>1, UpAlone DEF OrderInv, UpOrder, Requested, TokenInv
<1>3. UpOrder'
  <2>1. UpPositions'
    BY <1>1, <1>2 DEF UpPositions
  <2> QED
    BY <1>1, <1>2, <2>1 DEF UpOrder, Requested
<1>4. HeaderInv'
  BY <1>1, <1>2 DEF OrderInv, HeaderInv
<1>5. DownOrder'
  <2>1. /\ cWrites = <<>> /\ nReadCb = <<>> /\ ~Between
        /\ remoteSent = 0 /\ clientGot = <<>>
    BY <1>2, NothingDown DEF OrderInv
  <2>2. DownPositions'
    BY <1>1, <2>1 DEF DownPositions, Between
  <2> QED
    BY <1>1, <1>2, <2>1, <2>2 DEF DownOrder
<1> QED
  BY <1>3, <1>4, <1>5 DEF OrderInv

\* A step that leaves the way to the client alone.
LEMMA DownSame ==
  ASSUME DownOrder, UNCHANGED <<clientGot, isConnect, remoteSent, readySignal,
                                cWrites, nReadCb>>,
         UNCHANGED <<nReads, nReadErrCb, cWroteCb, cEmptyCb, pumpTimers>>
  PROVE  DownOrder'
  BY DownQuietOrder DEF DownQuiet, Between

\* A step that leaves the way to the remote alone.
LEMMA UpSame ==
  ASSUME UpOrder, UNCHANGED <<remoteGot, isConnect, readStatus, clientSent, readySignal>>,
         UNCHANGED <<cReadCb, nWrites, cReads, nWroteCb>>
  PROVE  UpOrder'
  BY UpQuietOrder DEF UpQuiet

-----------------------------------------------------------------------------
(* The way to the remote.                                                  *)

LEMMA AdapterWriteOrder ==
  ASSUME NEW d \in Nat, AdapterWrite(d), nWrites = <<>>
  PROVE  nWrites' = <<>> \/ (nWrites' # <<>> /\ Head(nWrites') = d)
<1>1. nWrites' = <<>> \/ nWrites' = Append(<<>>, d)
  BY DEF AdapterWrite, RemoteWrite
<1> QED
  BY <1>1, AppendToEmpty

LEMMA ClientSendsOrder ==
  ASSUME TypeOK, TypeOK', TokenInv, OrderInv, ClientStep(ClientSends)
  PROVE  OrderInv'
<1>1. /\ UNCHANGED <<remoteGot, isConnect, readStatus, readySignal, nWrites, nWroteCb>>
      /\ UNCHANGED <<clientGot, remoteSent, cWrites, nReadCb, writeStatus>>
      /\ UNCHANGED <<nReads, nReadErrCb, cWroteCb, cEmptyCb, pumpTimers>>
      /\ cReads > 0 /\ cReads' = cReads - 1 /\ clientSent' = clientSent + 1
      /\ cReadCb' = Append(cReadCb, clientSent + 1)
  BY DEF ClientStep, ClientSends, pVars, nVars, tVars
<1>2. cReads = 1 /\ cReadCb = <<>> /\ nWrites = <<>> /\ nWroteCb = 0
  BY <1>1, UpAlone
<1>3. clientSent + 1 \in Nat /\ clientSent \in Nat
  BY OrderTypes
<1>4. cReads' = 0 /\ cReadCb' # <<>> /\ Head(cReadCb') = clientSent + 1
  BY <1>1, <1>2, <1>3, AppendToEmpty
<1>5. UNCHANGED <<Skipped, UpNext, Requested>>
  BY <1>1 DEF Skipped, UpNext, Requested
<1>6. CASE readStatus = "readingFirstHeader"
  <2>1. clientSent' = 1
    BY <1>1, <1>3, <1>6 DEF OrderInv, UpOrder
  <2> QED
    BY <1>1, <1>4, <1>5, <1>6, <2>1, DownSame, HeaderSame
       DEF OrderInv, UpOrder, Requested
<1>7. CASE Requested /\ ~(readySignal <= 1)
  <2>1. clientSent = UpNext - 1
    BY <1>1, <1>7 DEF OrderInv, UpOrder, UpPositions
  <2>2. clientSent + 1 = UpNext
    BY <1>3, <2>1, OrderTypes
  <2>3. UpPositions'
    BY <1>1, <1>2, <1>4, <1>5, <2>2 DEF UpPositions
  <2>4. UpOrder'
    BY <1>1, <1>5, <1>7, <2>3 DEF OrderInv, UpOrder, Requested
  <2> QED
    BY <1>1, <2>4, DownSame, HeaderSame DEF OrderInv
<1> QED
  BY <1>1, <1>6, <1>7, UpUnderWay

LEMMA ProxyReadForwardOrder ==
  ASSUME TypeOK, TypeOK', TokenInv, OrderInv, ProxyReadForward
  PROVE  OrderInv'
<1>1. /\ UNCHANGED <<remoteGot, isConnect, readStatus, clientSent, readySignal>>
      /\ UNCHANGED <<cReads, nWroteCb, writeStatus, clientGot, remoteSent, cWrites, nReadCb>>
      /\ UNCHANGED <<nReads, nReadErrCb, cWroteCb, cEmptyCb, pumpTimers>>
      /\ Requested /\ cReadCb # <<>> /\ cReadCb' = Tail(cReadCb)
      /\ nWrites' = nWrites \/ AdapterWrite(Head(cReadCb))
  BY DEF ProxyReadForward, TakeReadCb, Forwarded, tVars, Requested
<1>2. /\ cReads = 0 /\ nWrites = <<>> /\ nWroteCb = 0 /\ cReadCb' = <<>>
      /\ Head(cReadCb) \in Nat
  BY <1>1, UpAlone
<1>3. Head(cReadCb) = UpNext /\ clientSent = UpNext
  BY <1>1 DEF OrderInv, UpOrder, UpPositions
<1>4. nWrites' = <<>> \/ (nWrites' # <<>> /\ Head(nWrites') = UpNext)
  BY <1>1, <1>2, <1>3, AdapterWriteOrder
<1>5. UNCHANGED <<Skipped, UpNext, Requested>>
  BY <1>1 DEF Skipped, UpNext, Requested
<1>6. UpPositions'
  BY <1>1, <1>2, <1>3, <1>4, <1>5 DEF UpPositions
<1>7. UpOrder'
  BY <1>1, <1>2, <1>5, <1>6 DEF OrderInv, UpOrder
<1> QED
  BY <1>1, <1>7, DownSame, HeaderSame DEF OrderInv

LEMMA RemoteReceivesOrder ==
  ASSUME TypeOK, TypeOK', TokenInv, OrderInv, RemoteStep(RemoteReceives)
  PROVE  OrderInv'
<1>1. /\ UNCHANGED <<isConnect, readStatus, clientSent, readySignal, cReads, cReadCb>>
      /\ UNCHANGED <<writeStatus, clientGot, remoteSent, cWrites, nReadCb>>
      /\ UNCHANGED <<nReads, nReadErrCb, cWroteCb, cEmptyCb, pumpTimers>>
      /\ nWrites # <<>> /\ nWrites' = Tail(nWrites)
      /\ remoteGot' = Append(remoteGot, Head(nWrites))
  BY DEF RemoteStep, RemoteReceives, cVars, pVars, tVars
<1>2. cReads = 0 /\ cReadCb = <<>> /\ nWrites' = <<>> /\ Head(nWrites) \in Nat
  BY <1>1, UpAlone
<1>3. Requested /\ ~(readySignal <= 1)
  BY <1>1, UpUnderWay
<1>4. Head(nWrites) = UpNext /\ clientSent = UpNext
  BY <1>1, <1>3 DEF OrderInv, UpOrder, UpPositions
<1>5. UNCHANGED <<Skipped, Requested>>
  BY <1>1 DEF Skipped, Requested
<1>6. Len(remoteGot') = Len(remoteGot) + 1
  BY <1>1, <1>2, OrderTypes, AppendProperties
<1>7. UpNext = UpNext' - 1
  BY <1>5, <1>6, OrderTypes DEF UpNext
<1>8. \A i \in DOMAIN remoteGot' : remoteGot'[i] = i + Skipped
  <2>1. \A i \in DOMAIN remoteGot : remoteGot[i] = i + Skipped
    BY DEF OrderInv, UpOrder
  <2>2. Skipped \in Int /\ remoteGot \in Seq(Nat) /\ UpNext = Len(remoteGot) + 1 + Skipped
    BY OrderTypes DEF UpNext
  <2> QED
    BY <1>1, <1>2, <1>4, <2>1, <2>2, AppendCounts
<1>9. UpPositions'
  BY <1>1, <1>2, <1>4, <1>7 DEF UpPositions
<1>10. UpOrder'
  BY <1>1, <1>3, <1>5, <1>8, <1>9 DEF UpOrder, Requested
<1> QED
  BY <1>1, <1>10, DownSame, HeaderSame DEF OrderInv

LEMMA ProxyReadDataOrder ==
  ASSUME ProxyReadData, Requested
  PROVE  /\ Requested'
         /\ readStatus' \in {readStatus, "readingHeader", "readingContent"}
  BY DEF ProxyReadData, Requested

LEMMA AdapterWroteOrder ==
  ASSUME TypeOK, TypeOK', TokenInv, OrderInv, AdapterWrote
  PROVE  OrderInv'
<1>1. /\ UNCHANGED <<remoteGot, isConnect, clientSent, readySignal, cReadCb, nWrites>>
      /\ UNCHANGED <<writeStatus, clientGot, remoteSent, cWrites, nReadCb>>
      /\ UNCHANGED <<nReads, nReadErrCb, cWroteCb, cEmptyCb, pumpTimers>>
      /\ nWroteCb > 0
      /\ ProxyReadData \/ UNCHANGED readStatus
  BY DEF AdapterWrote, tVars
<1>2. cReadCb = <<>> /\ nWrites = <<>>
  BY <1>1, UpAlone
<1>3. Requested /\ ~(readySignal <= 1)
  BY <1>1, UpUnderWay, TokenTypes
<1>4. clientSent = UpNext - 1
  BY <1>1, <1>3 DEF OrderInv, UpOrder, UpPositions
<1>5. Requested' /\ readStatus' \in {readStatus, "readingHeader", "readingContent"}
  BY <1>1, <1>3, ProxyReadDataOrder DEF Requested
<1>6. UNCHANGED <<Skipped, UpNext>>
  BY <1>1 DEF Skipped, UpNext
<1>7. UpPositions'
  BY <1>1, <1>2, <1>4, <1>6 DEF UpPositions
<1>8. UpOrder'
  BY <1>1, <1>3, <1>5, <1>6, <1>7 DEF OrderInv, UpOrder, Requested
<1>9. HeaderInv'
  BY <1>1, <1>3, <1>5 DEF OrderInv, HeaderInv
<1> QED
  BY <1>1, <1>8, <1>9, DownSame DEF OrderInv

-----------------------------------------------------------------------------
(* The way to the client.                                                  *)

LEMMA AdapterReadForwardOrder ==
  ASSUME TypeOK, TypeOK', TokenInv, OrderInv, AdapterReadForward
  PROVE  OrderInv'
<1>1. /\ UNCHANGED <<remoteGot, isConnect, readStatus, clientSent, readySignal>>
      /\ UNCHANGED <<cReadCb, nWrites, cReads, nWroteCb, writeStatus>>
      /\ UNCHANGED <<clientGot, remoteSent, nReads, nReadErrCb, cWroteCb, pumpTimers>>
      /\ nReadCb # <<>> /\ nReadCb' = Tail(nReadCb)
  BY DEF AdapterReadForward, pVars, tVars
<1>2. /\ nReadCb' = <<>> /\ Head(nReadCb) \in Nat /\ cWrites = <<>> /\ ~Between
  BY <1>1, DownAlone
<1>3. UNCHANGED <<Skipped, DownNext>>
  BY <1>1 DEF Skipped, DownNext
<1>4. CASE Head(nReadCb) # IVOnly
  <2>1. Head(nReadCb) = DownNext /\ remoteSent = DownNext
    BY <1>1, <1>4 DEF OrderInv, DownOrder, DownPositions
  <2>2. cWrites' = cWrites \/ cWrites' = Append(cWrites, Head(nReadCb))
    BY <1>4 DEF AdapterReadForward, Plaintext, ClientWrite
  <2>3. cWrites' = <<>> \/ (cWrites' # <<>> /\ Head(cWrites') = DownNext)
    BY <1>2, <2>1, <2>2, AppendToEmpty
  <2>4. cEmptyCb' = cEmptyCb
    BY <1>4 DEF AdapterReadForward, Plaintext
  <2>5. ~Between'
    BY <1>1, <1>2, <2>4 DEF Between
  <2>6. DownPositions'
    BY <1>1, <1>2, <1>3, <2>1, <2>3, <2>5 DEF DownPositions
  <2>7. DownOrder'
    BY <1>1, <1>3, <2>6 DEF OrderInv, DownOrder
  <2> QED
    BY <1>1, <2>7, UpSame, HeaderSame DEF OrderInv
<1>5. CASE Head(nReadCb) = IVOnly
  <2>1. remoteSent = DownNext - 1
    BY <1>1, <1>5 DEF OrderInv, DownOrder, DownPositions
  <2>2. cWrites' = cWrites
    BY <1>5 DEF AdapterReadForward, Plaintext
  <2>3. DownPositions'
    BY <1>1, <1>2, <1>3, <2>1, <2>2 DEF DownPositions
  <2>4. DownOrder'
    BY <1>1, <1>3, <2>3 DEF OrderInv, DownOrder
  <2> QED
    BY <1>1, <2>4, UpSame, HeaderSame DEF OrderInv
<1> QED
  BY <1>4, <1>5

LEMMA ClientReceivesOrder ==
  ASSUME TypeOK, TypeOK', TokenInv, OrderInv, ClientStep(ClientReceives)
  PROVE  OrderInv'
<1>1. /\ UNCHANGED <<remoteGot, isConnect, readStatus, clientSent, readySignal>>
      /\ UNCHANGED <<cReadCb, nWrites, nWroteCb, writeStatus, remoteSent, nReadCb>>
      /\ cWrites # <<>> /\ clientGot' = Append(clientGot, Head(cWrites))
  BY DEF ClientStep, ClientReceives, pVars, nVars, tVars
<1>2. nReadCb = <<>> /\ Tail(cWrites) = <<>> /\ Head(cWrites) \in Nat
  BY <1>1, DownAlone
<1>3. cWrites' = <<>> /\ (cReads' > 0 => cReads > 0)
  BY <1>2 DEF ClientStep, ClientReceives, ClientClose
<1>4. Head(cWrites) = DownNext /\ remoteSent = DownNext
  BY <1>1 DEF OrderInv, DownOrder, DownPositions
<1>5. UNCHANGED Skipped
  BY <1>1 DEF Skipped
<1>6. Len(clientGot') = Len(clientGot) + 1 /\ clientGot' # <<>>
  BY <1>1, <1>2, OrderTypes, AppendProperties
<1>7. DownNext = DownNext' - 1
  BY <1>5, <1>6, OrderTypes DEF DownNext
<1>8. \A i \in DOMAIN clientGot' : clientGot'[i] + Skipped = i
  <2>1. Skipped \in Int /\ 0 - Skipped \in Int /\ clientGot \in Seq(Nat)
    BY OrderTypes
  <2>2. \A i \in DOMAIN clientGot : clientGot[i] = i + (0 - Skipped)
    <3>1. \A i \in DOMAIN clientGot : i \in Nat /\ clientGot[i] \in Nat
      BY <2>1
    <3> QED
      BY <2>1, <3>1 DEF OrderInv, DownOrder
  <2>3. DownNext = Len(clientGot) + 1 + (0 - Skipped)
    BY OrderTypes DEF DownNext
  <2>4. \A i \in DOMAIN clientGot' : clientGot'[i] = i + (0 - Skipped)
    BY <1>1, <1>2, <1>4, <2>1, <2>2, <2>3, AppendCounts
  <2>5. clientGot' \in Seq(Nat)
    BY DEF TypeOK, TypeOKClient
  <2>6. \A i \in DOMAIN clientGot' : i \in Nat /\ clientGot'[i] \in Nat
    BY <2>5
  <2> QED
    BY <2>1, <2>4, <2>6
<1>9. DownPositions'
  BY <1>1, <1>2, <1>3, <1>4, <1>7 DEF DownPositions
<1>10. readySignal # 0
  BY <1>1, DownUnderWay
<1>11. DownOrder'
  BY <1>1, <1>5, <1>6, <1>8, <1>9, <1>10 DEF DownOrder
<1>12. UpOrder'
  BY <1>1, <1>3, UpQuietOrder DEF UpQuiet, OrderInv
<1> QED
  BY <1>1, <1>11, <1>12, HeaderSame DEF OrderInv

LEMMA RemoteMaySendOrder ==
  ASSUME TypeOK, TypeOK', TokenInv, OrderInv, NEW d \in 0 .. MaxDown,
         RemoteStep(RemoteMaySend(d))
  PROVE  OrderInv'
<1>1. /\ UNCHANGED <<remoteGot, isConnect, readStatus, clientSent, readySignal>>
      /\ UNCHANGED <<cReadCb, nWrites, cReads, nWroteCb, writeStatus>>
      /\ UNCHANGED <<clientGot, cWrites, nReadErrCb, cWroteCb, cEmptyCb, pumpTimers>>
      /\ nReads > 0 /\ nReads' = nReads - 1
      /\ d = IVOnly \/ d = remoteSent + 1
      /\ remoteSent' = IF d = IVOnly THEN remoteSent ELSE d
      /\ nReadCb' = nReadCb \/ nReadCb' = Append(nReadCb, d)
  BY DEF RemoteStep, RemoteMaySend, RemoteSends, cVars, pVars, tVars
<1>2. nReadCb = <<>> /\ cWrites = <<>> /\ ~Between'
  BY <1>1, DownAlone DEF Between
<1>3. UNCHANGED <<Skipped, DownNext>>
  BY <1>1 DEF Skipped, DownNext
<1>4. remoteSent = DownNext - 1 /\ readySignal # 0
  BY <1>1, DownUnderWay DEF OrderInv, DownOrder, DownPositions, Between
<1>5. /\ d # IVOnly => d = DownNext /\ remoteSent' = DownNext
      /\ d = IVOnly => remoteSent' = DownNext - 1
  BY <1>1, <1>4, OrderTypes
<1>6. nReadCb' = <<>> \/ (nReadCb' # <<>> /\ Head(nReadCb') = d)
  <2>1. d \in Nat
    OBVIOUS
  <2> QED
    BY <1>1, <1>2, <2>1, AppendToEmpty
<1>7. DownPositions'
  BY <1>1, <1>2, <1>3, <1>5, <1>6 DEF DownPositions
<1>8. DownOrder'
  BY <1>1, <1>3, <1>4, <1>7 DEF OrderInv, DownOrder
<1> QED
  BY <1>1, <1>8, UpSame, HeaderSame DEF OrderInv

-----------------------------------------------------------------------------
(* The ready signals.                                                      *)

\* The tunnel starts to forward when nothing is under way to the remote: either the
\* request goes to it, or the client is read on.
LEMMA StartForwardingUp ==
  ASSUME TypeOK, TokenInv, UpOrder, HeaderInv, Requested, readySignal <= 1,
         StartForwarding, UNCHANGED <<remoteGot, isConnect, clientSent, cReadCb, nWroteCb>>,
         readySignal' \in Nat, readySignal' > 1,
         isConnect \/ ~pCancelled
  PROVE  UpOrder' /\ readStatus' # "pendingFirstHeader"
<1>1. /\ cReads = 0 /\ cReadCb = <<>> /\ nWrites = <<>> /\ nWroteCb = 0
      /\ clientSent = 1 /\ remoteGot = <<>>
  BY NothingUp
<1>2. ProxyReadData /\ UNCHANGED <<Skipped, UpNext>>
  BY DEF StartForwarding, Skipped, UpNext
<1>3. Requested' /\ readStatus' \in {readStatus, "readingHeader", "readingContent"}
  BY <1>2, ProxyReadDataOrder
<1>4. UpNext = 1 + Skipped
  BY <1>1 DEF UpNext
<1>5. CASE isConnect
  <2>1. ~HandsOverHeader /\ readStatus # "pendingFirstHeader"
    BY <1>5 DEF HeaderInv, HandsOverHeader
  <2>2. nWrites' = nWrites
    BY <2>1 DEF StartForwarding
  <2>3. UpNext - 1 = clientSent
    BY <1>1, <1>4, <1>5 DEF Skipped
  <2>4. UpPositions'
    BY <1>1, <1>2, <2>2, <2>3 DEF UpPositions
  <2> QED
    BY <1>2, <1>3, <2>1, <2>4 DEF UpOrder, Requested
<1>6. CASE ~isConnect
  <2>1. readStatus = "pendingFirstHeader" /\ HandsOverHeader
    <3>1. readStatus \in {"pendingFirstHeader", "readingHeader", "readingContent"}
      BY DEF Requested, TypeOK, TypeOKProxy
    <3> QED
      BY <1>6, <3>1 DEF HeaderInv, HandsOverHeader
  <2>2. UNCHANGED cReads /\ readStatus' = "readingContent" /\ AdapterWrite(FirstHeader)
    BY <1>2, <2>1 DEF StartForwarding, ProxyReadData, HandsOverHeader
  <2>3. nWrites' = <<>> \/ (nWrites' # <<>> /\ Head(nWrites') = 1)
    BY <1>1, <2>2, AdapterWriteOrder DEF FirstHeader
  <2>4. UpNext = 1
    BY <1>4, <1>6 DEF Skipped
  <2>5. UpPositions'
    BY <1>1, <1>2, <2>2, <2>3, <2>4 DEF UpPositions
  <2> QED
    BY <1>2, <1>3, <2>2, <2>5 DEF UpOrder, Requested
<1> QED
  BY <1>5, <1>6

LEMMA AdapterConnectedOrder ==
  ASSUME TypeOK, TypeOK', TokenInv, OrderInv, AdapterConnected
  PROVE  OrderInv'
<1>1. /\ UNCHANGED <<remoteGot, isConnect, clientSent, cReadCb, nWroteCb>>
      /\ UNCHANGED <<clientGot, remoteSent, nReadCb, nReadErrCb, cWroteCb, cEmptyCb,
                     pumpTimers>>
  BY DEF AdapterConnected
<1>2. readySignal = 0 /\ Requested
  BY DEF AdapterConnected, TokenInv, Requested
<1>3. /\ cWrites = <<>> /\ nReadCb = <<>> /\ ~Between
      /\ remoteSent = 0 /\ clientGot = <<>>
  BY <1>2, NothingDown DEF OrderInv
<1>4. /\ nWrites = <<>> /\ clientSent = 1 /\ remoteGot = <<>>
  BY <1>2, NothingUp DEF OrderInv
<1>5. UNCHANGED <<Skipped, DownNext>> /\ DownNext = 1 - Skipped
  BY <1>1, <1>3 DEF Skipped, DownNext
<1>6. CASE /\ UNCHANGED <<readySignal, writeStatus, readStatus, cReads, cWrites, nReads,
                          nWrites>>
  BY <1>1, <1>6, UpSame, DownSame, HeaderSame DEF OrderInv
<1>7. CASE /\ readySignal' = readySignal + 1
           /\ UNCHANGED <<readStatus, cReads, nReads, nWrites>>
           /\ \/ UNCHANGED <<cWrites, writeStatus>>
              \/ isConnect /\ ProxyWrite(ConnectResponse)
  <2>1. readySignal' = 1
    BY <1>2, <1>7
  <2>2. UNCHANGED <<UpNext, Requested>>
    BY <1>1, <1>5, <1>7 DEF UpNext, Requested
  <2>3. UpPositions'
    BY <1>1, <1>2, <1>7, <2>2 DEF OrderInv, UpOrder, UpPositions
  <2>4. UpOrder'
    BY <1>1, <1>2, <1>5, <1>7, <2>1, <2>2, <2>3 DEF OrderInv, UpOrder, Requested
  <2>5. HeaderInv'
    BY <1>1, <1>2, <1>7, <2>1 DEF OrderInv, HeaderInv
  <2>6. ~Between'
    BY <1>1, <1>3, <1>7 DEF Between
  <2>7. cWrites' = <<>> \/ (cWrites' # <<>> /\ Head(cWrites') = 0 /\ isConnect)
    <3>1. cWrites' = <<>> \/ (isConnect /\ cWrites' = Append(<<>>, 0))
      BY <1>3, <1>7 DEF ProxyWrite, ClientWrite, ConnectResponse
    <3> QED
      BY <3>1, AppendToEmpty
  <2>8. isConnect => DownNext = 0
    BY <1>5 DEF Skipped
  <2>9. DownPositions'
    BY <1>1, <1>3, <1>5, <2>6, <2>7, <2>8 DEF DownPositions
  <2>10. DownOrder'
    BY <1>1, <1>3, <1>5, <2>1, <2>9 DEF OrderInv, DownOrder
  <2> QED
    BY <2>4, <2>5, <2>10 DEF OrderInv
<1>8. CASE /\ ~pCancelled /\ ~isConnect /\ readySignal' = readySignal + 2
           /\ writeStatus' = "forwarding" /\ StartForwarding /\ UNCHANGED cWrites
  <2>1. readySignal' = 2
    BY <1>2, <1>8
  <2>2. UpOrder' /\ readStatus' # "pendingFirstHeader"
    BY <1>1, <1>2, <1>8, <2>1, StartForwardingUp DEF OrderInv
  <2>3. HeaderInv'
    BY <1>8, <2>1, <2>2 DEF HeaderInv
  <2>4. DownNext - 1 = 0
    <3>1. Skipped = 0
      BY <1>8 DEF Skipped
    <3> QED
      BY <1>5, <3>1
  <2>5. DownPositions'
    BY <1>1, <1>3, <1>5, <1>8, <2>4 DEF DownPositions
  <2>6. DownOrder'
    BY <1>1, <1>3, <1>5, <1>8, <2>1, <2>5 DEF OrderInv, DownOrder
  <2> QED
    BY <2>2, <2>3, <2>6 DEF OrderInv
<1> QED
  <2>1. \/ /\ UNCHANGED <<readySignal, writeStatus, readStatus, cReads, cWrites, nReads,
                          nWrites>>
        \/ /\ readySignal' = readySignal + 1
           /\ UNCHANGED <<readStatus, cReads, nReads, nWrites>>
           /\ \/ UNCHANGED <<cWrites, writeStatus>>
              \/ isConnect /\ ProxyWrite(ConnectResponse)
        \/ /\ ~pCancelled /\ ~isConnect /\ readySignal' = readySignal + 2
           /\ writeStatus' = "forwarding" /\ StartForwarding /\ UNCHANGED cWrites
    BY DEF AdapterConnected, AnswersFirst
  <2> QED
    BY <1>6, <1>7, <1>8, <2>1

\* A CONNECT whose answer is no longer under way was answered.
LEMMA AnsweredBetween ==
  ASSUME TypeOK, DownOrder, Between, isConnect
  PROVE  clientGot # <<>>
<1>1. remoteSent = Len(clientGot) + 1 - 1 - 1
  BY DEF DownOrder, DownPositions, DownNext, Skipped
<1>2. Len(clientGot) # 0
  BY <1>1, OrderTypes
<1> QED
  BY <1>2, OrderTypes, LenEmpty

LEMMA ProxyWroteResponseOrder ==
  ASSUME TypeOK, TypeOK', TokenInv, OrderInv, ProxyWroteResponse
  PROVE  OrderInv'
<1>1. /\ UNCHANGED <<remoteGot, isConnect, clientSent, cReadCb, nWroteCb>>
      /\ UNCHANGED <<clientGot, remoteSent, nReadCb, nReadErrCb, cWrites, pumpTimers>>
      /\ writeStatus = "sendingConnectResponse" /\ writeStatus' = "forwarding"
      /\ TakeWroteCb
  BY DEF ProxyWroteResponse
<1>2. Between
  BY <1>1 DEF TakeWroteCb, Between
<1>3. isConnect /\ clientGot # <<>>
  BY <1>1, <1>2, AnsweredBetween DEF OrderInv, HeaderInv
<1>4. readySignal # 0 /\ Requested
  BY <1>2, DownUnderWay
<1>5. cWrites = <<>> /\ nReadCb = <<>> /\ remoteSent = DownNext - 1
  BY <1>2, DownAlone DEF OrderInv, DownOrder, DownPositions
<1>6. UNCHANGED <<Skipped, DownNext>>
  BY <1>1 DEF Skipped, DownNext
<1>7. DownOrder'
  <2>1. DownPositions'
    BY <1>1, <1>5, <1>6 DEF DownPositions
  <2>2. readySignal' # 0
    BY <1>4, OrderTypes DEF ProxyWroteResponse
  <2> QED
    BY <1>1, <1>3, <1>6, <2>1, <2>2 DEF OrderInv, DownOrder
<1>8. CASE /\ UNCHANGED <<cReads, readStatus, nWrites>>
           /\ \/ readySignal' = readySignal
              \/ readySignal' = readySignal + 1 /\ readySignal # 1
  <2>1. readySignal' <= 1 => readySignal <= 1
    BY <1>8, OrderTypes
  <2>2. readySignal # 1 => ~(readySignal <= 1)
    BY <1>4, OrderTypes
  <2>3. UpOrder'
    <3>1. UNCHANGED <<Skipped, UpNext, Requested>>
      BY <1>1, <1>6, <1>8 DEF UpNext, Requested
    <3>2. UpPositions'
      BY <1>1, <1>4, <1>8, <3>1 DEF OrderInv, UpOrder, UpPositions
    <3> QED
      BY <1>1, <1>4, <1>8, <2>1, <3>1, <3>2 DEF OrderInv, UpOrder, Requested
  <2>4. HeaderInv'
    BY <1>1, <1>3, <1>8, <2>1, <2>2 DEF OrderInv, HeaderInv
  <2> QED
    BY <1>7, <2>3, <2>4 DEF OrderInv
<1>9. CASE /\ readySignal' = readySignal + 1 /\ readySignal = 1 /\ StartForwarding
  <2>1. readySignal' = 2
    BY <1>9
  <2>2. UpOrder' /\ readStatus' # "pendingFirstHeader"
    BY <1>1, <1>3, <1>4, <1>9, <2>1, StartForwardingUp DEF OrderInv
  <2>3. HeaderInv'
    BY <1>1, <2>1, <2>2 DEF HeaderInv
  <2> QED
    BY <1>7, <2>2, <2>3 DEF OrderInv
<1> QED
  <2>1. \/ /\ UNCHANGED <<cReads, readStatus, nWrites>>
           /\ \/ readySignal' = readySignal
              \/ readySignal' = readySignal + 1 /\ readySignal # 1
        \/ readySignal' = readySignal + 1 /\ readySignal = 1 /\ StartForwarding
    BY DEF ProxyWroteResponse
  <2> QED
    BY <1>8, <1>9, <2>1

-----------------------------------------------------------------------------

LEMMA OrderStep ==
  ASSUME TypeOK, TypeOK', TokenInv, OrderInv, [Next]_vars
  PROVE  OrderInv'
<1>1. CASE Accept \/ ProxyReadRequest \/ ProxyReadForward \/ ProxyWroteResponse
  BY <1>1, AcceptOrder, ProxyReadRequestOrder, ProxyReadForwardOrder,
     ProxyWroteResponseOrder
<1>2. CASE AdapterConnected \/ AdapterReadForward \/ AdapterWrote
  BY <1>2, AdapterConnectedOrder, AdapterReadForwardOrder, AdapterWroteOrder
<1>3. CASE \/ ProxyReadInvalid \/ Resolved \/ ProxyWrote \/ PumpAdapter
           \/ ProxyDidDisconnect \/ AdapterFailed \/ AdapterDidDisconnect
           \/ ForceClose
  BY <1>3, QuietHandlers, QuietOrder
<1>4. CASE ClientStep(ClientSends) \/ ClientStep(ClientReceives)
  BY <1>4, ClientSendsOrder, ClientReceivesOrder
<1>5. CASE \/ RemoteStep(RemoteReceives)
           \/ \E d \in 0..MaxDown : RemoteStep(RemoteMaySend(d))
  BY <1>5, RemoteReceivesOrder, RemoteMaySendOrder
<1>6. CASE \/ ClientStep(ClientGone)
           \/ RemoteStep(ConnUp) \/ RemoteStep(ConnLost) \/ RemoteStep(ConnCancelled)
           \/ RemoteStep(RemoteEnds) \/ RemoteStep(RemoteReadFails)
           \/ RemoteStep(RemoteWriteFails)
           \/ Released \/ UNCHANGED vars
  BY <1>6, QuietEvents, QuietOrder
<1> QED
  BY <1>1, <1>2, <1>3, <1>4, <1>5, <1>6 DEF Next

LEMMA OrderInit == Init => OrderInv
<1>1. SUFFICES ASSUME Init PROVE OrderInv
  OBVIOUS
<1>2. /\ remoteGot = <<>> /\ clientGot = <<>> /\ clientSent = 0 /\ remoteSent = 0
      /\ cWrites = <<>> /\ nReadCb = <<>> /\ cReads = 0 /\ cReadCb = <<>>
      /\ readStatus = "invalid" /\ writeStatus = "invalid" /\ readySignal = 0
      /\ nReads = 0 /\ nReadErrCb = 0 /\ cWroteCb = 0 /\ cEmptyCb = 0 /\ pumpTimers = 0
  BY <1>1 DEF Init, InitClient, InitProxy, InitRemote
<1>3. ~isConnect
  BY <1>1, Zenon DEF Init, InitProxy
<1>4. UpOrder /\ HeaderInv
  BY <1>2, <1>3 DEF UpOrder, HeaderInv, Requested
<1>5. DownOrder
  BY <1>2, <1>3 DEF DownOrder, DownPositions, Between
<1> QED
  BY <1>4, <1>5 DEF OrderInv

\* Where the next chunk of each stream is, whatever opens, fails or closes when.
THEOREM OrderCorrect == Spec => []OrderInv
<1>1. TypeOK /\ TypeOK' /\ TokenInv /\ OrderInv /\ [Next]_vars => OrderInv'
  BY OrderStep
<1> QED
  BY <1>1, OrderInit, TypeCorrect, TokensCorrect, PTL DEF Spec

\* What the remote received is what the client sent, and what the client received is
\* what the remote sent, in order and without gaps, for any number of chunks.
THEOREM StreamsKeepOrder == Spec => []StreamsInOrder
<1>1. OrderInv => StreamsInOrder
  BY DEF OrderInv, UpOrder, DownOrder, StreamsInOrder
<1> QED
  BY <1>1, OrderCorrect, PTL

LEMMA AnswerComesFirst ==
  ASSUME TypeOK, TokenInv, OrderInv, isConnect, clientGot = <<>>
  PROVE  DownTokens - Len(cWrites) - cWroteCb = 0 /\ clientSent = 1
<1>1. Requested /\ readySignal <= 1
  <2>1. Requested
    BY DEF OrderInv, UpOrder
  <2>2. ~(readySignal > 1)
    BY DEF OrderInv, DownOrder
  <2> QED
    BY <2>1, <2>2, OrderTypes
<1>2. clientSent = 1
  BY <1>1 DEF OrderInv, UpOrder
<1>3. ~Between
  BY AnsweredBetween DEF OrderInv
<1>4. nReadCb = <<>>
  <2>1. Len(clientGot) = 0 /\ Skipped = 1
    BY DEF Skipped
  <2>2. DownNext = 0
    BY <2>1 DEF DownNext
  <2>3. DownNext - 1 # remoteSent
    BY <2>2, OrderTypes
  <2> QED
    BY <2>2, <2>3 DEF OrderInv, DownOrder, DownPositions, IVOnly
<1>5. nReads = 0 /\ nReadErrCb = 0 /\ cEmptyCb = 0 /\ pumpTimers = 0 /\ Len(nReadCb) = 0
  BY <1>3, <1>4, TokenTypes DEF Between
<1>6. DownTokens = Len(cWrites) + cWroteCb
  BY <1>5, TokenTypes DEF DownTokens, FromRemote, ToClient
<1> QED
  BY <1>2, <1>6, TokenTypes

\* A CONNECT is answered before anything else is moved through the tunnel.
THEOREM ConnectIsAnsweredFirst == Spec => []ConnectAnsweredFirst
<1>1. ASSUME TypeOK, TokenInv, OrderInv
      PROVE  ConnectAnsweredFirst
  BY <1>1, AnswerComesFirst DEF ConnectAnsweredFirst
<1> QED
  BY <1>1, OrderCorrect, TypeCorrect, TokensCorrect, PTL

-----------------------------------------------------------------------------
(* Nothing is lost while both sides work.                                  *)

\* Everything read from the client was delivered, or the last chunk is under way.
UpWhole ==
  \/ clientSent = UpNext - 1
  \/ clientSent = UpNext /\ (cReadCb # <<>> \/ nWrites # <<>>)

DownWhole ==
  \/ remoteSent = DownNext - 1
  \/ remoteSent = DownNext /\ (cWrites # <<>> \/ ReadChunks # <<>>)

WholeInv ==
  /\ tStatus = "forwarding" => readySignal > 1
  /\ Open => UpWhole /\ DownWhole

\* What is under way after a step accounts for the chunk it carries.
LEMMA UpWholeAfter ==
  ASSUME OrderInv', Requested',
         cReads' > 0 \/ cReadCb' # <<>> \/ nWrites' # <<>> \/ nWroteCb' > 0
  PROVE  UpWhole'
  BY DEF OrderInv, UpOrder, UpPositions, UpWhole

LEMMA DownWholeAfter ==
  ASSUME OrderInv', TypeOK', cWrites' # <<>> \/ nReadCb' # <<>> \/ Between'
  PROVE  DownWhole'
<1>1. nReadCb' \in Seq(Nat)
  BY DEF TypeOK, TypeOKRemote
<1>2. nReadCb' # <<>> /\ Head(nReadCb') # IVOnly => nReadCb' # <<IVOnly>>
  BY <1>1
<1> QED
  BY <1>2 DEF OrderInv, DownOrder, DownPositions, DownWhole, ReadChunks

LEMMA UpWholeSame ==
  ASSUME UpWhole, UNCHANGED <<remoteGot, isConnect, clientSent, cReadCb, nWrites>>
  PROVE  UpWhole'
  BY DEF UpWhole, UpNext, Skipped

LEMMA DownWholeSame ==
  ASSUME DownWhole, UNCHANGED <<clientGot, isConnect, remoteSent, cWrites, nReadCb>>
  PROVE  DownWhole'
  BY DEF DownWhole, DownNext, Skipped, ReadChunks

\* What is known of an open tunnel.
LEMMA OpenFacts ==
  ASSUME TypeOK, TokenInv, CancelInv, WholeInv, Open
  PROVE  /\ ~tCancelled /\ ~aCancelled /\ ~nCancelled /\ ~pCancelled /\ nDelegate
         /\ Requested /\ readySignal > 1 /\ ~nConnectedCb /\ ~resolving
         /\ UpWhole /\ DownWhole
<1>1. tStatus = "forwarding" /\ conn = "connected" /\ ~nCancelled /\ ~pCancelled
  BY DEF Open
<1>2. ~tCancelled /\ ~aCancelled /\ nDelegate
  BY <1>1 DEF CancelInv, StatusInv, RefuseInv
<1>3. readySignal > 1 /\ UpWhole /\ DownWhole
  BY <1>1 DEF WholeInv
<1>4. Requested /\ ~resolving /\ (nConnectedCb => readySignal = 0)
  BY <1>1 DEF TokenInv, Requested
<1> QED
  BY <1>1, <1>2, <1>3, <1>4

\* Steps that leave the chunks alone, and steps after which the tunnel is not open.
LEMMA WholeSame ==
  ASSUME TypeOK, WholeInv, tStatus' # "forwarding" \/ UNCHANGED <<tStatus, readySignal>>,
         \/ ~Open'
         \/ /\ Open
            /\ UNCHANGED <<remoteGot, isConnect, clientSent, cReadCb, nWrites>>
            /\ UNCHANGED <<clientGot, remoteSent, cWrites, nReadCb>>
  PROVE  WholeInv'
  BY UpWholeSame, DownWholeSame DEF WholeInv

LEMMA ProxyHandlersWhole ==
  ASSUME TypeOK, TypeOK', TokenInv, CancelInv, WholeInv,
         \/ Accept \/ ProxyReadInvalid \/ ProxyReadRequest \/ Resolved \/ ProxyWrote
         \/ PumpAdapter \/ ProxyDidDisconnect
  PROVE  WholeInv'
<1>1. CASE Accept
  <2>1. tStatus' = "readingRequest"
    BY <1>1 DEF Accept
  <2> QED
    BY <2>1, WholeSame DEF Open
<1>2. CASE ProxyReadInvalid
  <2>1. UNCHANGED <<tStatus, readySignal>> /\ pCancelled'
    BY <1>2 DEF ProxyReadInvalid, ProxyDisconnect, tVars
  <2> QED
    BY <2>1, WholeSame DEF Open
<1>3. CASE ProxyReadRequest
  <2>1. tStatus' # "forwarding"
    <3>1. tStatus' \in {tStatus, "waitingToBeReady"} /\ readStatus = "readingFirstHeader"
      BY <1>3 DEF ProxyReadRequest, DidReceive
    <3>2. readySignal = 0
      BY <3>1 DEF TokenInv
    <3> QED
      BY <3>1, <3>2 DEF WholeInv
  <2> QED
    BY <2>1, WholeSame DEF Open
<1>4. CASE Resolved
  <2>1. UNCHANGED <<tStatus, readySignal>> /\ resolving
    BY <1>4 DEF Resolved
  <2>2. conn' # "connected"
    BY <1>4, <2>1 DEF TokenInv, Resolved, OpenAdapter, AdapterOpen, RemoteConnect
  <2> QED
    BY <2>1, <2>2, WholeSame DEF Open
<1>5. CASE ProxyWrote \/ PumpAdapter
  <2>1. /\ UNCHANGED <<tStatus, readySignal, cState, pCancelled, conn, nCancelled, nWriteErrCb>>
        /\ UNCHANGED <<remoteGot, isConnect, clientSent, cReadCb, nWrites>>
        /\ UNCHANGED <<clientGot, remoteSent, cWrites, nReadCb>>
    BY <1>5 DEF ProxyWrote, PumpAdapter, cVars, pVars, nVars
  <2> QED
    BY <2>1, WholeSame DEF Open
<1>6. CASE ProxyDidDisconnect
  <2>1. tStatus' # "forwarding"
    BY <1>6 DEF ProxyDidDisconnect, CheckStatus
  <2> QED
    BY <2>1, WholeSame DEF Open
<1> QED
  BY <1>1, <1>2, <1>3, <1>4, <1>5, <1>6

LEMMA AdapterHandlersWhole ==
  ASSUME TypeOK, TypeOK', CancelInv, WholeInv,
         AdapterWrote \/ AdapterFailed \/ AdapterDidDisconnect \/ ForceClose
  PROVE  WholeInv'
<1>1. CASE AdapterWrote
  <2>1. /\ UNCHANGED <<tStatus, readySignal, cState, pCancelled, conn, nCancelled, nWriteErrCb>>
        /\ UNCHANGED <<remoteGot, isConnect, clientSent, cReadCb, nWrites>>
        /\ UNCHANGED <<clientGot, remoteSent, cWrites, nReadCb>>
    BY <1>1 DEF AdapterWrote, tVars
  <2> QED
    BY <2>1, WholeSame DEF Open
<1>2. CASE AdapterFailed \/ AdapterDidDisconnect
  <2>1. tStatus' # "forwarding" \/ UNCHANGED <<tStatus, readySignal>>
    BY <1>2 DEF AdapterFailed, AdapterDidDisconnect, AdapterEnds, CheckStatus
  <2>2. ~Open'
    BY <1>2 DEF Open, AdapterFailed, AdapterDidDisconnect, AdapterEnds, CheckStatus
  <2> QED
    BY <2>1, <2>2, WholeSame
<1>3. CASE ForceClose
  <2>1. tStatus' # "forwarding"
    BY <1>3 DEF ForceClose, CheckStatus, NotYetClosed, CancelInv, StatusInv
  <2> QED
    BY <2>1, WholeSame DEF Open
<1> QED
  BY <1>1, <1>2, <1>3

LEMMA EventsWhole ==
  ASSUME TypeOK, TypeOK', TokenInv, WholeInv,
         \/ ClientStep(ClientGone)
         \/ RemoteStep(ConnUp) \/ RemoteStep(ConnLost) \/ RemoteStep(ConnCancelled)
         \/ RemoteStep(RemoteEnds) \/ RemoteStep(RemoteReadFails)
         \/ RemoteStep(RemoteWriteFails)
         \/ Released \/ UNCHANGED vars
  PROVE  WholeInv'
<1>1. UNCHANGED <<tStatus, readySignal>>
  BY DEF ClientStep, RemoteStep, Released, vars, tVars
<1>2. CASE \/ RemoteStep(RemoteEnds) \/ RemoteStep(RemoteReadFails) \/ Released
           \/ UNCHANGED vars
  <2>1. /\ UNCHANGED <<cState, pCancelled, conn, nCancelled, nWriteErrCb>>
        /\ UNCHANGED <<remoteGot, isConnect, clientSent, cReadCb, nWrites>>
        /\ UNCHANGED <<clientGot, remoteSent, cWrites, nReadCb>>
    BY <1>2 DEF RemoteStep, RemoteEnds, RemoteReadFails, Released, vars, cVars, pVars,
                nVars
  <2> QED
    BY <1>1, <2>1, WholeSame DEF Open
<1>3. CASE ClientStep(ClientGone) \/ RemoteStep(ConnLost) \/ RemoteStep(ConnCancelled)
  <2>1. cState' = "closed" \/ conn' # "connected"
    BY <1>3 DEF ClientStep, ClientGone, ClientClose, RemoteStep, ConnLost, ConnCancelled
  <2> QED
    BY <1>1, <2>1, WholeSame DEF Open
<1>4. CASE RemoteStep(ConnUp)
  <2>1. conn = "connecting"
    BY <1>4 DEF RemoteStep, ConnUp
  <2>2. tStatus # "forwarding"
    BY <2>1 DEF TokenInv, WholeInv
  <2> QED
    BY <1>1, <2>2, WholeSame DEF Open
<1>5. CASE RemoteStep(RemoteWriteFails)
  <2>1. nWriteErrCb' = nWriteErrCb + 1
    BY <1>5 DEF RemoteStep, RemoteWriteFails
  <2>2. nWriteErrCb' # 0
    BY <2>1, TokenTypes
  <2> QED
    BY <1>1, <2>2, WholeSame DEF Open
<1> QED
  BY <1>2, <1>3, <1>4, <1>5

\* Steps that move a chunk.
LEMMA UpMovesWhole ==
  ASSUME TypeOK, TypeOK', TokenInv, CancelInv, WholeInv, OrderInv',
         ProxyReadForward \/ ClientStep(ClientSends) \/ RemoteStep(RemoteReceives)
  PROVE  WholeInv'
<1>1. /\ UNCHANGED <<tStatus, readySignal, cState, pCancelled, conn, nCancelled, nWriteErrCb>>
      /\ UNCHANGED <<isConnect, readStatus, clientGot, remoteSent, cWrites, nReadCb>>
  BY DEF ProxyReadForward, ClientStep, ClientSends, RemoteStep, RemoteReceives, cVars,
         pVars, nVars, tVars
<1>2. CASE ~Open
  <2>1. ~Open'
    BY <1>1, <1>2 DEF Open
  <2> QED
    BY <1>1, <2>1, WholeSame
<1>3. CASE Open
  <2>1. /\ ~tCancelled /\ ~aCancelled /\ ~nCancelled /\ Requested /\ DownWhole
    BY <1>3, OpenFacts
  <2>2. DownWhole' /\ Requested'
    BY <1>1, <2>1, DownWholeSame DEF Requested
  <2>3. cReadCb' # <<>> \/ nWrites' # <<>> \/ nWroteCb' > 0
    <3>1. CASE ProxyReadForward
      <4>1. nWrites' = Append(nWrites, Head(cReadCb))
        BY <2>1, <3>1 DEF ProxyReadForward, AdapterWrite, RemoteWrite, Forwarded
      <4>2. nWrites \in Seq(Nat) /\ cReadCb \in Seq(Nat) /\ cReadCb # <<>>
        BY <3>1 DEF TypeOK, TypeOKClient, TypeOKRemote, ProxyReadForward, TakeReadCb
      <4> QED
        BY <4>1, <4>2, HeadTypes, AppendProperties
    <3>2. CASE ClientStep(ClientSends)
      <4>1. cReadCb' = Append(cReadCb, clientSent + 1)
        BY <3>2 DEF ClientStep, ClientSends
      <4>2. cReadCb \in Seq(Nat) /\ clientSent + 1 \in Nat
        BY DEF TypeOK, TypeOKClient
      <4> QED
        BY <4>1, <4>2, AppendProperties
    <3>3. CASE RemoteStep(RemoteReceives)
      BY <3>3, TokenTypes DEF RemoteStep, RemoteReceives
    <3> QED
      BY <3>1, <3>2, <3>3
  <2>4. UpWhole'
    BY <2>2, <2>3, UpWholeAfter
  <2>5. tStatus' = "forwarding" => readySignal' > 1
    BY <1>1 DEF WholeInv
  <2> QED
    BY <2>2, <2>4, <2>5 DEF WholeInv
<1> QED
  BY <1>2, <1>3

LEMMA DownMovesWhole ==
  ASSUME TypeOK, TypeOK', TokenInv, CancelInv, WholeInv, OrderInv',
         \/ AdapterReadForward \/ ClientStep(ClientReceives)
         \/ \E d \in 0..MaxDown : RemoteStep(RemoteMaySend(d))
  PROVE  WholeInv'
<1>1. /\ UNCHANGED <<tStatus, readySignal, pCancelled, conn, nCancelled, nWriteErrCb>>
      /\ UNCHANGED <<isConnect, remoteGot, clientSent, cReadCb, nWrites>>
      /\ cState' = "open" => cState = "open"
  BY DEF AdapterReadForward, ClientStep, ClientReceives, ClientClose, RemoteStep,
         RemoteMaySend, RemoteSends, cVars, pVars, nVars, tVars
<1>2. CASE ~Open \/ cState' # "open"
  <2>1. ~Open'
    BY <1>1, <1>2 DEF Open
  <2> QED
    BY <1>1, <2>1, WholeSame
<1>3. CASE Open /\ cState' = "open"
  <2>1. /\ ~tCancelled /\ ~pCancelled /\ ~nCancelled /\ nDelegate /\ UpWhole
        /\ cState = "open"
    BY <1>3, OpenFacts DEF Open
  <2>2. UpWhole'
    BY <1>1, <2>1, UpWholeSame
  <2>3. cWrites' # <<>> \/ nReadCb' # <<>> \/ Between'
    <3>1. CASE AdapterReadForward
      <4>1. CASE Head(nReadCb) = IVOnly
        <5>1. cEmptyCb' = cEmptyCb + 1
          BY <2>1, <3>1, <4>1 DEF AdapterReadForward, ClientWriteEmpty, Plaintext
        <5> QED
          BY <5>1, TokenTypes DEF Between
      <4>2. CASE Head(nReadCb) # IVOnly
        <5>1. cWrites' = Append(cWrites, Head(nReadCb))
          BY <2>1, <3>1, <4>2 DEF AdapterReadForward, ClientWrite, Plaintext
        <5>2. cWrites \in Seq(Nat) /\ nReadCb \in Seq(Nat) /\ nReadCb # <<>>
          BY <3>1 DEF TypeOK, TypeOKClient, TypeOKRemote, AdapterReadForward
        <5> QED
          BY <5>1, <5>2, HeadTailProperties, AppendProperties
      <4> QED
        BY <4>1, <4>2
    <3>2. CASE ClientStep(ClientReceives)
      BY <3>2, TokenTypes DEF ClientStep, ClientReceives, Between
    <3>3. ASSUME NEW d \in 0..MaxDown, RemoteStep(RemoteMaySend(d))
          PROVE  nReadCb' # <<>>
      <4>1. nReadCb' = Append(nReadCb, d)
        BY <2>1, <3>3 DEF RemoteStep, RemoteMaySend, RemoteSends
      <4>2. nReadCb \in Seq(Nat) /\ d \in Nat
        BY DEF TypeOK, TypeOKRemote
      <4> QED
        BY <4>1, <4>2, AppendProperties
    <3> QED
      BY <3>1, <3>2, <3>3
  <2>4. DownWhole'
    BY <2>3, DownWholeAfter
  <2>5. tStatus' = "forwarding" => readySignal' > 1
    BY <1>1 DEF WholeInv
  <2> QED
    BY <2>2, <2>4, <2>5 DEF WholeInv
<1> QED
  BY <1>2, <1>3

\* When forwarding starts the first header goes to the remote or the client is read,
\* and the remote is read.
LEMMA StartForwardingWhole ==
  ASSUME TypeOK, TypeOK', TokenInv, CancelInv, OrderInv', StartForwarding, ~tCancelled,
         UNCHANGED <<pCancelled, cState, nCancelled>>, Open'
  PROVE  UpWhole' /\ DownWhole'
<1>1. ~pCancelled /\ ~nCancelled /\ cState = "open" /\ ~aCancelled
  BY DEF Open, CancelInv, RefuseInv
<1>2. nReads' = nReads + 1
  BY <1>1 DEF StartForwarding, AdapterRead, RemoteRead
<1>3. DownWhole'
  BY <1>2, TokenTypes, DownWholeAfter DEF Between
<1>4. cReads' > 0 \/ nWrites' # <<>>
  <2>1. CASE readStatus = "pendingFirstHeader"
    <3>1. nWrites' = Append(nWrites, FirstHeader)
      BY <1>1, <2>1 DEF StartForwarding, HandsOverHeader, AdapterWrite, RemoteWrite
    <3>2. nWrites \in Seq(Nat) /\ FirstHeader \in Nat
      BY DEF TypeOK, TypeOKRemote, FirstHeader
    <3> QED
      BY <3>1, <3>2, AppendProperties
  <2>2. CASE readStatus # "pendingFirstHeader"
    <3>1. cReads' = cReads + 1
      BY <1>1, <2>2 DEF StartForwarding, ProxyReadData, HandsOverHeader, ClientRead
    <3> QED
      BY <3>1, TokenTypes
  <2> QED
    BY <2>1, <2>2
<1>5. Requested'
  <2>1. readStatus' \in {"readingHeader", "readingContent"}
    BY <1>1 DEF StartForwarding, ProxyReadData
  <2> QED
    BY <2>1 DEF Requested
<1> QED
  BY <1>3, <1>4, <1>5, UpWholeAfter

LEMMA ReadyWhole ==
  ASSUME TypeOK, TypeOK', TokenInv, CancelInv, WholeInv, OrderInv',
         ProxyWroteResponse \/ AdapterConnected
  PROVE  WholeInv'
<1>1. /\ UNCHANGED <<isConnect, remoteGot, clientSent, clientGot, remoteSent, cReadCb,
                     nReadCb, pCancelled, cState, conn, nCancelled, nWriteErrCb>>
  BY DEF ProxyWroteResponse, AdapterConnected
<1>2. CASE StartForwarding /\ ~tCancelled /\ readySignal' > 1
  BY <1>1, <1>2, StartForwardingWhole DEF WholeInv
<1>3. CASE /\ ProxyWroteResponse /\ UNCHANGED <<tStatus, nWrites>>
           /\ readySignal' = readySignal \/ readySignal' = readySignal + 1
  <2>1. tStatus' = "forwarding" => readySignal' > 1
    BY <1>3, TokenTypes DEF WholeInv
  <2>2. UNCHANGED cWrites
    BY <1>3 DEF ProxyWroteResponse
  <2>3. Open' => UpWhole' /\ DownWhole'
    <3>1. Open' => Open
      BY <1>1, <1>3 DEF Open
    <3> QED
      BY <1>1, <1>3, <2>2, <3>1, UpWholeSame, DownWholeSame DEF WholeInv
  <2> QED
    BY <2>1, <2>3 DEF WholeInv
<1>4. CASE AdapterConnected /\ UNCHANGED tStatus
  <2>1. tStatus' # "forwarding"
    BY <1>4 DEF AdapterConnected, TokenInv, WholeInv
  <2> QED
    BY <2>1 DEF WholeInv, Open
<1>5. \/ StartForwarding /\ ~tCancelled /\ readySignal' > 1
      \/ /\ ProxyWroteResponse /\ UNCHANGED <<tStatus, nWrites>>
         /\ readySignal' = readySignal \/ readySignal' = readySignal + 1
      \/ AdapterConnected /\ UNCHANGED tStatus
  <2>1. CASE ProxyWroteResponse
    <3>1. \/ StartForwarding /\ ~tCancelled /\ readySignal = 1 /\ readySignal' = readySignal + 1
          \/ /\ UNCHANGED <<tStatus, nWrites>>
             /\ readySignal' = readySignal \/ readySignal' = readySignal + 1
      BY <2>1 DEF ProxyWroteResponse
    <3>2. readySignal = 1 /\ readySignal' = readySignal + 1 => readySignal' > 1
      OBVIOUS
    <3> QED
      BY <2>1, <3>1, <3>2
  <2>2. CASE AdapterConnected
    <3>1. \/ StartForwarding /\ ~tCancelled /\ readySignal' = readySignal + 2
          \/ UNCHANGED tStatus
      BY <2>2 DEF AdapterConnected
    <3>2. readySignal' = readySignal + 2 => readySignal' > 1
      BY TokenTypes
    <3> QED
      BY <2>2, <3>1, <3>2
  <2> QED
    BY <2>1, <2>2
<1> QED
  BY <1>2, <1>3, <1>4, <1>5

LEMMA WholeStep ==
  ASSUME TypeOK, TypeOK', TokenInv, CancelInv, OrderInv', WholeInv, [Next]_vars
  PROVE  WholeInv'
<1>1. CASE \/ Accept \/ ProxyReadInvalid \/ ProxyReadRequest \/ Resolved \/ ProxyWrote
           \/ PumpAdapter \/ ProxyDidDisconnect
  BY <1>1, ProxyHandlersWhole
<1>2. CASE AdapterWrote \/ AdapterFailed \/ AdapterDidDisconnect \/ ForceClose
  BY <1>2, AdapterHandlersWhole
<1>3. CASE ProxyWroteResponse \/ AdapterConnected
  BY <1>3, ReadyWhole
<1>4. CASE ProxyReadForward \/ ClientStep(ClientSends) \/ RemoteStep(RemoteReceives)
  BY <1>4, UpMovesWhole
<1>5. CASE \/ AdapterReadForward \/ ClientStep(ClientReceives)
           \/ \E d \in 0..MaxDown : RemoteStep(RemoteMaySend(d))
  BY <1>5, DownMovesWhole
<1>6. CASE \/ ClientStep(ClientGone)
           \/ RemoteStep(ConnUp) \/ RemoteStep(ConnLost) \/ RemoteStep(ConnCancelled)
           \/ RemoteStep(RemoteEnds) \/ RemoteStep(RemoteReadFails)
           \/ RemoteStep(RemoteWriteFails)
           \/ Released \/ UNCHANGED vars
  BY <1>6, EventsWhole
<1> QED
  BY <1>1, <1>2, <1>3, <1>4, <1>5, <1>6 DEF Next

\* An open tunnel accounts for every chunk read.
THEOREM WholeCorrect == Spec => []WholeInv
<1>1. Init => WholeInv
  BY DEF Init, WholeInv, Open
<1>2. TypeOK /\ TypeOK' /\ TokenInv /\ CancelInv /\ OrderInv' /\ WholeInv /\ [Next]_vars
        => WholeInv'
  BY WholeStep
<1> QED
  BY <1>1, <1>2, TypeCorrect, TokensCorrect, CancelCorrect, OrderCorrect, PTL DEF Spec

-----------------------------------------------------------------------------
(* The whole streams.                                                      *)

\* A stream numbered through to its end, which is in the way or empty.
LEMMA StreamOfWay ==
  ASSUME NEW s \in Seq(Nat), NEW w \in Seq(Nat), NEW k \in Int,
         \A i \in DOMAIN s : s[i] = i + k,
         Len(w) <= 1, w # <<>> => Head(w) = Len(s) + 1 + k
  PROVE  s \o w = [i \in 1 .. Len(s) + Len(w) |-> i + k]
<1>1. Len(s) \in Nat /\ DOMAIN s = 1 .. Len(s)
  BY LenProperties
<1>2. CASE w = <<>>
  <2>1. s \o w = s /\ Len(w) = 0
    BY <1>2, ConcatEmptySeq
  <2>2. s = [i \in 1 .. Len(s) |-> s[i]]
    BY <1>1
  <2> QED
    BY <1>1, <2>1, <2>2
<1>3. CASE w # <<>>
  <2>1. Len(w) = 1 /\ w[1] = Len(s) + 1 + k
    BY <1>3, LenOne
  <2>2. /\ s \o w \in Seq(Nat) /\ Len(s \o w) = Len(s) + Len(w)
        /\ \A i \in 1 .. Len(s) + Len(w) :
             (s \o w)[i] = IF i <= Len(s) THEN s[i] ELSE w[i - Len(s)]
    BY ConcatProperties
  <2>3. ASSUME NEW i \in 1 .. Len(s) + Len(w)
        PROVE  (s \o w)[i] = i + k
    <3>1. (s \o w)[i] = IF i <= Len(s) THEN s[i] ELSE w[i - Len(s)]
      BY <2>2
    <3>2. i \in Int /\ i <= Len(s) + 1 /\ 1 <= i
      BY <1>1, <2>1
    <3>3. CASE i <= Len(s)
      <4>1. i \in DOMAIN s
        BY <1>1, <3>2, <3>3
      <4>2. s[i] = i + k
        BY <4>1
      <4> QED
        BY <3>1, <3>3, <4>2
    <3>4. CASE ~(i <= Len(s))
      <4>1. i = Len(s) + 1 /\ i - Len(s) = 1
        BY <1>1, <3>2, <3>4
      <4> QED
        BY <2>1, <3>1, <3>4, <4>1
    <3> QED
      BY <3>3, <3>4
  <2>4. s \o w \in [1 .. Len(s) + Len(w) -> Nat]
    BY <2>2, LenProperties
  <2>5. s \o w = [i \in 1 .. Len(s) + Len(w) |-> (s \o w)[i]]
    BY <2>4
  <2> QED
    BY <2>3, <2>5
<1> QED
  BY <1>2, <1>3

LEMMA WholeStreams ==
  ASSUME TypeOK, TokenInv, CancelInv, OrderInv, WholeInv, Open
  PROVE  /\ remoteGot \o nWrites \o cReadCb
              = [i \in 1 .. clientSent - Skipped |-> i + Skipped]
         /\ clientGot \o cWrites \o ReadChunks
              = [i \in 1 .. remoteSent + Skipped |-> i - Skipped]
<1>1. Requested /\ UpPositions /\ DownPositions /\ UpWhole /\ DownWhole
  BY OpenFacts DEF OrderInv, UpOrder, DownOrder
<1>2. /\ nWrites \in Seq(Nat) /\ cReadCb \in Seq(Nat) /\ cWrites \in Seq(Nat)
      /\ nReadCb \in Seq(Nat)
  BY DEF TypeOK, TypeOKClient, TypeOKRemote
<1>3. remoteGot \o nWrites \o cReadCb
        = [i \in 1 .. clientSent - Skipped |-> i + Skipped]
  <2> DEFINE w == IF cReadCb # <<>> THEN cReadCb ELSE nWrites
  <2>1. w \in Seq(Nat)
    BY <1>2
  <2>2. remoteGot \o nWrites \o cReadCb = remoteGot \o w
    <3>1. CASE cReadCb # <<>>
      BY <3>1, UpAlone, OrderTypes, ConcatEmptySeq
    <3>2. CASE cReadCb = <<>>
      <4>1. remoteGot \o nWrites \in Seq(Nat)
        BY <1>2, OrderTypes, ConcatProperties
      <4> QED
        BY <3>2, <4>1, ConcatEmptySeq
    <3> QED
      BY <3>1, <3>2
  <2>0. /\ cReadCb # <<>> => w = cReadCb
        /\ cReadCb = <<>> => w = nWrites
    OBVIOUS
  <2> HIDE DEF w
  <2>3. /\ w # <<>> => Head(w) = UpNext
        /\ \/ Len(w) = 1 /\ clientSent = UpNext
           \/ Len(w) = 0 /\ clientSent = UpNext - 1
    <3>1. CASE cReadCb # <<>>
      <4>1. Len(cReadCb) = 1 /\ Head(cReadCb) = UpNext /\ clientSent = UpNext
        BY <1>1, <1>2, <3>1, UpAlone, TailEmptyIsOne DEF UpPositions
      <4>2. w = cReadCb
        BY <2>0, <3>1
      <4> QED
        BY <4>1, <4>2
    <3>2. CASE cReadCb = <<>> /\ nWrites # <<>>
      <4>1. Len(nWrites) = 1 /\ Head(nWrites) = UpNext /\ clientSent = UpNext
        BY <1>1, <1>2, <3>2, UpAlone, TailEmptyIsOne DEF UpPositions
      <4>2. w = nWrites
        BY <2>0, <3>2
      <4> QED
        BY <4>1, <4>2
    <3>3. CASE cReadCb = <<>> /\ nWrites = <<>>
      <4>1. clientSent = UpNext - 1 /\ w = <<>> /\ Len(w) = 0
        BY <1>1, <2>0, <3>3 DEF UpWhole
      <4> QED
        BY <4>1
    <3> QED
      BY <3>1, <3>2, <3>3
  <2>4. Len(w) <= 1 /\ clientSent - Skipped = Len(remoteGot) + Len(w)
    <3>1. CASE Len(w) = 1 /\ clientSent = UpNext
      <4>1. clientSent - Skipped = Len(remoteGot) + 1
        BY <3>1, OrderTypes DEF UpNext
      <4>2. clientSent - Skipped = Len(remoteGot) + Len(w)
        BY <3>1, <4>1, Zenon
      <4> QED
        BY <3>1, <4>2
    <3>2. CASE Len(w) = 0 /\ clientSent = UpNext - 1
      <4>1. clientSent - Skipped = Len(remoteGot) + 0
        BY <3>2, OrderTypes DEF UpNext
      <4>2. clientSent - Skipped = Len(remoteGot) + Len(w)
        BY <3>2, <4>1, Zenon
      <4> QED
        BY <3>2, <4>2
    <3> QED
      BY <2>3, <3>1, <3>2
  <2>5. remoteGot \o w = [i \in 1 .. Len(remoteGot) + Len(w) |-> i + Skipped]
    <3>1. \A i \in DOMAIN remoteGot : remoteGot[i] = i + Skipped
      BY DEF OrderInv, UpOrder
    <3>2. UpNext = Len(remoteGot) + 1 + Skipped /\ Skipped \in Int
      BY OrderTypes DEF UpNext
    <3> QED
      BY <2>1, <2>3, <2>4, <3>1, <3>2, OrderTypes, StreamOfWay
  <2> QED
    BY <2>2, <2>4, <2>5
<1>4. clientGot \o cWrites \o ReadChunks
        = [i \in 1 .. remoteSent + Skipped |-> i - Skipped]
  <2> DEFINE w == IF ReadChunks # <<>> THEN ReadChunks ELSE cWrites
  <2>1. w \in Seq(Nat) /\ ReadChunks \in Seq(Nat)
    BY <1>2 DEF ReadChunks
  <2>2. ReadChunks # <<>> =>
          /\ ReadChunks = nReadCb /\ nReadCb # <<>> /\ Len(nReadCb) = 1 /\ cWrites = <<>>
          /\ Head(nReadCb) # IVOnly
    <3>1. SUFFICES ASSUME ReadChunks # <<>>
                   PROVE  /\ ReadChunks = nReadCb /\ nReadCb # <<>> /\ Len(nReadCb) = 1
                          /\ cWrites = <<>> /\ Head(nReadCb) # IVOnly
      OBVIOUS
    <3>2. ReadChunks = nReadCb /\ nReadCb # <<>> /\ nReadCb # <<IVOnly>>
      BY <3>1 DEF ReadChunks
    <3>3. Tail(nReadCb) = <<>> /\ cWrites = <<>>
      BY <3>2, DownAlone
    <3>4. Len(nReadCb) = 1 /\ nReadCb = <<Head(nReadCb)>>
      BY <1>2, <3>2, <3>3, TailEmptyIsOne
    <3>5. Head(nReadCb) # IVOnly
      BY <3>2, <3>4
    <3> QED
      BY <3>2, <3>3, <3>4, <3>5
  <2>3. clientGot \o cWrites \o ReadChunks = clientGot \o w
    <3>1. CASE ReadChunks # <<>>
      BY <2>2, <3>1, OrderTypes, ConcatEmptySeq
    <3>2. CASE ReadChunks = <<>>
      <4>1. clientGot \o cWrites \in Seq(Nat)
        BY <1>2, OrderTypes, ConcatProperties
      <4> QED
        BY <3>2, <4>1, ConcatEmptySeq
    <3> QED
      BY <3>1, <3>2
  <2>0. /\ ReadChunks # <<>> => w = ReadChunks
        /\ ReadChunks = <<>> => w = cWrites
    OBVIOUS
  <2> HIDE DEF w
  <2>4. /\ w # <<>> => Head(w) = DownNext
        /\ \/ Len(w) = 1 /\ remoteSent = DownNext
           \/ Len(w) = 0 /\ remoteSent = DownNext - 1
    <3>1. CASE ReadChunks # <<>>
      <4>1. Len(nReadCb) = 1 /\ Head(nReadCb) = DownNext /\ remoteSent = DownNext
        BY <1>1, <2>2, <3>1 DEF DownPositions
      <4>2. w = nReadCb
        BY <2>2, <2>0, <3>1
      <4> QED
        BY <4>1, <4>2
    <3>2. CASE ReadChunks = <<>> /\ cWrites # <<>>
      <4>1. Len(cWrites) = 1 /\ Head(cWrites) = DownNext /\ remoteSent = DownNext
        BY <1>1, <1>2, <3>2, DownAlone, TailEmptyIsOne DEF DownPositions
      <4>2. w = cWrites
        BY <2>0, <3>2
      <4> QED
        BY <4>1, <4>2
    <3>3. CASE ReadChunks = <<>> /\ cWrites = <<>>
      <4>1. remoteSent = DownNext - 1 /\ w = <<>> /\ Len(w) = 0
        BY <1>1, <2>0, <3>3 DEF DownWhole
      <4> QED
        BY <4>1
    <3> QED
      BY <3>1, <3>2, <3>3
  <2>5. Len(w) <= 1 /\ remoteSent - (0 - Skipped) = Len(clientGot) + Len(w)
    <3>1. CASE Len(w) = 1 /\ remoteSent = DownNext
      <4>1. remoteSent - (0 - Skipped) = Len(clientGot) + 1
        BY <3>1, OrderTypes DEF DownNext
      <4>2. remoteSent - (0 - Skipped) = Len(clientGot) + Len(w)
        BY <3>1, <4>1, Zenon
      <4> QED
        BY <3>1, <4>2
    <3>2. CASE Len(w) = 0 /\ remoteSent = DownNext - 1
      <4>1. remoteSent - (0 - Skipped) = Len(clientGot) + 0
        BY <3>2, OrderTypes DEF DownNext
      <4>2. remoteSent - (0 - Skipped) = Len(clientGot) + Len(w)
        BY <3>2, <4>1, Zenon
      <4> QED
        BY <3>2, <4>2
    <3> QED
      BY <2>4, <3>1, <3>2
  <2>6. clientGot \o w = [i \in 1 .. Len(clientGot) + Len(w) |-> i + (0 - Skipped)]
    <3>1. \A i \in DOMAIN clientGot : clientGot[i] = i + (0 - Skipped)
      <4>1. \A i \in DOMAIN clientGot : i \in Nat /\ clientGot[i] \in Nat
        BY OrderTypes
      <4>2. \A i \in DOMAIN clientGot : clientGot[i] + Skipped = i
        BY DEF OrderInv, DownOrder
      <4> QED
        BY <4>1, <4>2, OrderTypes
    <3>2. DownNext = Len(clientGot) + 1 + (0 - Skipped) /\ 0 - Skipped \in Int
      BY OrderTypes DEF DownNext
    <3> QED
      BY <2>1, <2>4, <2>5, <3>1, <3>2, OrderTypes, StreamOfWay
  <2>7. \A i \in 1 .. remoteSent + Skipped : i + (0 - Skipped) = i - Skipped
    BY OrderTypes
  <2>8. remoteSent - (0 - Skipped) = remoteSent + Skipped
    BY OrderTypes
  <2> QED
    BY <2>3, <2>5, <2>6, <2>7, <2>8
<1> QED
  BY <1>3, <1>4

\* While both raw sockets of a tunnel work and nobody asked for a close, no chunk is
\* lost, whatever the number of chunks and the order of blocks.
THEOREM NothingIsLost == Spec => []NothingLostWhileOpen
<1>1. ASSUME TypeOK, TokenInv, CancelInv, OrderInv, WholeInv
      PROVE  NothingLostWhileOpen
  BY <1>1, WholeStreams DEF NothingLostWhileOpen
<1> QED
  BY <1>1, TypeCorrect, TokensCorrect, CancelCorrect, OrderCorrect, WholeCorrect, PTL

-----------------------------------------------------------------------------
(* Relay.  Every step of a tunnel is, seen by the server, a step of Relay  *)
(* or no step at all.  That a closing tunnel is closed in the end, Relay's *)
(* fairness, is left to model checking.                                    *)

\* Nothing is moved to the client, or asked of the remote, before the proxy socket
\* responded to the first ready signal.
AnswerInv ==
  /\ readySignal = 0 => writeStatus = "invalid"
  /\ writeStatus = "invalid" => /\ remoteSent = 0 /\ clientGot = <<>>
                                /\ cWrites = <<>> /\ nReadCb = <<>> /\ ~Between

-----------------------------------------------------------------------------
(* The invariant.                                                          *)

LEMMA AnswerQuiet ==
  ASSUME AnswerInv, DownQuiet, UNCHANGED writeStatus
  PROVE  AnswerInv'
  BY DEF AnswerInv, DownQuiet

LEMMA AnswerSame ==
  ASSUME AnswerInv, UNCHANGED <<readySignal, writeStatus, clientGot, remoteSent>>,
         UNCHANGED <<cWrites, nReadCb, nReads, nReadErrCb, cWroteCb, cEmptyCb, pumpTimers>>
  PROVE  AnswerInv'
  BY DEF AnswerInv, Between

\* The handlers that move something to the remote.
LEMMA UpHandlersFrame ==
  ASSUME \/ Accept \/ ProxyReadRequest \/ ProxyReadForward \/ AdapterWrote
         \/ ClientStep(ClientSends) \/ RemoteStep(RemoteReceives)
  PROVE  /\ UNCHANGED <<readySignal, writeStatus, clientGot, remoteSent>>
         /\ UNCHANGED <<cWrites, nReadCb, nReads, nReadErrCb, cWroteCb, cEmptyCb, pumpTimers>>
<1>1. CASE Accept
  BY <1>1 DEF Accept, nVars
<1>2. CASE ProxyReadRequest
  BY <1>2 DEF ProxyReadRequest
<1>3. CASE ProxyReadForward
  BY <1>3 DEF ProxyReadForward, tVars
<1>4. CASE AdapterWrote
  BY <1>4 DEF AdapterWrote, tVars
<1>5. CASE ClientStep(ClientSends)
  BY <1>5 DEF ClientStep, ClientSends, pVars, nVars, tVars
<1>6. CASE RemoteStep(RemoteReceives)
  BY <1>6 DEF RemoteStep, RemoteReceives, cVars, pVars, tVars
<1> QED
  BY <1>1, <1>2, <1>3, <1>4, <1>5, <1>6

LEMMA AnswerStep ==
  ASSUME TypeOK, TypeOK', TokenInv, AnswerInv, [Next]_vars
  PROVE  AnswerInv'
<1>1. CASE \/ Accept \/ ProxyReadRequest \/ ProxyReadForward \/ AdapterWrote
           \/ ClientStep(ClientSends) \/ RemoteStep(RemoteReceives)
  BY <1>1, UpHandlersFrame, AnswerSame
<1>2. CASE \/ ProxyReadInvalid \/ Resolved \/ ProxyWrote \/ PumpAdapter
           \/ ProxyDidDisconnect \/ AdapterFailed \/ AdapterDidDisconnect
           \/ ForceClose
  BY <1>2, QuietHandlers, AnswerQuiet
<1>3. CASE \/ ClientStep(ClientGone)
           \/ RemoteStep(ConnUp) \/ RemoteStep(ConnLost) \/ RemoteStep(ConnCancelled)
           \/ RemoteStep(RemoteEnds) \/ RemoteStep(RemoteReadFails)
           \/ RemoteStep(RemoteWriteFails)
           \/ Released \/ UNCHANGED vars
  BY <1>3, QuietEvents, AnswerQuiet
<1>4. CASE ProxyWroteResponse
  <2>1. writeStatus = "sendingConnectResponse" /\ writeStatus' = "forwarding"
    BY <1>4 DEF ProxyWroteResponse
  <2>2. readySignal # 0
    BY <2>1 DEF AnswerInv
  <2>3. readySignal' # 0
    BY <1>4, <2>2, TokenTypes DEF ProxyWroteResponse
  <2> QED
    BY <2>1, <2>3 DEF AnswerInv
<1>5. CASE AdapterConnected
  <2>1. readySignal = 0 /\ writeStatus = "invalid"
    BY <1>5 DEF AdapterConnected, TokenInv, AnswerInv
  <2>2. \/ /\ writeStatus' \in {"sendingConnectResponse", "forwarding"}
           /\ readySignal' = readySignal + 1 \/ readySignal' = readySignal + 2
        \/ UNCHANGED <<writeStatus, cWrites, nReads>>
    BY <1>5 DEF AdapterConnected
  <2>3. CASE /\ writeStatus' \in {"sendingConnectResponse", "forwarding"}
             /\ readySignal' = readySignal + 1 \/ readySignal' = readySignal + 2
    BY <2>1, <2>3 DEF AnswerInv
  <2>4. CASE UNCHANGED <<writeStatus, cWrites, nReads>>
    BY <1>5, <2>1, <2>4 DEF AdapterConnected, AnswerInv, Between
  <2> QED
    BY <2>2, <2>3, <2>4
<1>6. CASE \/ AdapterReadForward \/ ClientStep(ClientReceives)
           \/ \E d \in 0..MaxDown : RemoteStep(RemoteMaySend(d))
  <2>1. UNCHANGED <<writeStatus, readySignal>>
    BY <1>6 DEF AdapterReadForward, ClientStep, RemoteStep, pVars, tVars
  <2>2. cWrites # <<>> \/ nReadCb # <<>> \/ Between
    BY <1>6 DEF AdapterReadForward, ClientStep, ClientReceives, RemoteStep,
                RemoteMaySend, RemoteSends, Between
  <2> QED
    BY <2>1, <2>2 DEF AnswerInv
<1> QED
  BY <1>1, <1>2, <1>3, <1>4, <1>5, <1>6 DEF Next

\* The answer to a CONNECT is written before anything else goes to the client.
THEOREM AnswerCorrect == Spec => []AnswerInv
<1>1. Init => AnswerInv
  BY DEF Init, InitClient, InitProxy, InitRemote, AnswerInv, Between
<1>2. TypeOK /\ TypeOK' /\ TokenInv /\ AnswerInv /\ [Next]_vars => AnswerInv'
  BY AnswerStep
<1> QED
  BY <1>1, <1>2, TypeCorrect, TokensCorrect, PTL DEF Spec

-----------------------------------------------------------------------------
(* Steps that the server sees nothing of, or sees as a begin or an end.    *)

SeesNothing == UNCHANGED <<UpTaken, Len(remoteGot), DownTaken, Len(clientGot)>>

\* The status of the tunnel stays, or the tunnel closes.
PhaseStays == Phase' = Phase /\ closedCalls' = closedCalls

PhaseEnds ==
  /\ Phase \in {"open", "closing"}
  /\ \/ Phase' = "closing" /\ closedCalls' = closedCalls
     \/ Phase' = "closed" /\ closedCalls' = closedCalls + 1

LEMMA RelayEnds ==
  ASSUME SeesNothing, PhaseStays \/ PhaseEnds
  PROVE  [Abstract!Next]_(Abstract!vars)
  BY DEF SeesNothing, PhaseStays, PhaseEnds, Abstract!Next, Abstract!vars,
         Abstract!BeginClose, Abstract!End

\* An accepted tunnel is open, closing or closed for the server.
LEMMA PhaseValues ==
  ASSUME TypeOK
  PROVE  /\ tStatus = "invalid" <=> Phase = "new"
         /\ tStatus \in {"readingRequest", "waitingToBeReady", "forwarding"} <=> Phase = "open"
         /\ tStatus = "closing" <=> Phase = "closing"
         /\ tStatus = "closed" <=> Phase = "closed"
  BY DEF TypeOK, Phase

LEMMA PhaseValuesAfter ==
  ASSUME TypeOK'
  PROVE  /\ tStatus' = "invalid" <=> Phase' = "new"
         /\ tStatus' \in {"readingRequest", "waitingToBeReady", "forwarding"} <=> Phase' = "open"
         /\ tStatus' = "closing" <=> Phase' = "closing"
         /\ tStatus' = "closed" <=> Phase' = "closed"
  BY DEF TypeOK, Phase

\* A tunnel that is held by the server, and accepted, is open or closing.
LEMMA LivePhase ==
  ASSUME TypeOK, LifeInv, CancelInv, delegate, cState # "fresh"
  PROVE  /\ Phase \in {"open", "closing"} /\ closedCalls = 0
         /\ ~tCancelled => Phase = "open"
<1>1. tStatus # "closed" /\ tStatus # "invalid" /\ closedCalls = 0
  BY DEF LifeInv, EndInv, CancelInv, StatusInv
<1>2. ~tCancelled => tStatus # "closing"
  BY DEF CancelInv, StatusInv
<1>3. Phase \in {"new", "open", "closing", "closed"}
  BY DEF TypeOK, Phase
<1> QED
  BY <1>1, <1>2, <1>3, PhaseValues

LEMMA CheckStatusEnds ==
  ASSUME TypeOK, TypeOK', LifeInv, CancelInv, delegate, cState # "fresh", CheckStatus
  PROVE  PhaseEnds
<1>1. Phase \in {"open", "closing"} /\ closedCalls = 0
  BY LivePhase
<1>2. \/ tStatus' = "closed" /\ closedCalls' = 1
      \/ tStatus' = "closing" /\ closedCalls' = 0
  BY <1>1, CheckStatusTells
<1> QED
  BY <1>1, <1>2, PhaseValuesAfter DEF PhaseEnds

\* A tunnel that was not accepted has no connection and no block waiting.
LEMMA NotFresh ==
  ASSUME TypeOK, TokenInv, LifeInv, (hasAdapter /\ conn # "nil") \/ cClosedCb
  PROVE  cState # "fresh"
  BY DEF TokenInv, LifeInv, ProxyEndInv

LEMMA QuietSeesNothing ==
  ASSUME UpQuiet, DownQuiet, UNCHANGED writeStatus
  PROVE  SeesNothing
  BY DEF UpQuiet, DownQuiet, SeesNothing, UpTaken, DownTaken, Answered, Skipped

-----------------------------------------------------------------------------
(* Closing steps.                                                          *)

LEMMA PhaseSame ==
  ASSUME UNCHANGED <<tStatus, closedCalls>>
  PROVE  PhaseStays
  BY DEF PhaseStays, Phase

\* A tunnel that had a connection or a closed client was accepted.
LEMMA ClosingIsAccepted ==
  ASSUME TypeOK, TokenInv, LifeInv,
         ProxyDidDisconnect \/ AdapterFailed \/ AdapterDidDisconnect \/ ForceClose
  PROVE  delegate /\ cState # "fresh"
<1>1. CASE ProxyDidDisconnect
  BY <1>1 DEF ProxyDidDisconnect, LifeInv, ProxyEndInv
<1>2. CASE AdapterFailed
  <2>1. delegate /\ (nReadErrCb > 0 \/ nWriteErrCb > 0)
    BY <1>2 DEF AdapterFailed, TakeErrorCb
  <2>2. nWriteErrCb > 0 => UpTokens # 0
    BY NoUpTokens
  <2>3. nReadErrCb > 0 => DownTokens # 0
    BY NoDownTokens
  <2> QED
    BY <2>1, <2>2, <2>3, FreshIsIdle
<1>3. CASE AdapterDidDisconnect
  <2>1. delegate /\ conn = "cancelled"
    BY <1>3 DEF AdapterDidDisconnect, LifeInv, AdapterEndInv
  <2> QED
    BY <2>1, FreshIsIdle
<1>4. CASE ForceClose
  BY <1>4 DEF ForceClose
<1> QED
  BY <1>1, <1>2, <1>3, <1>4

LEMMA ClosingEnds ==
  ASSUME TypeOK, TypeOK', TokenInv, LifeInv, CancelInv,
         ProxyDidDisconnect \/ AdapterFailed \/ AdapterDidDisconnect \/ ForceClose
  PROVE  PhaseStays \/ PhaseEnds
<1>1. delegate /\ cState # "fresh"
  BY ClosingIsAccepted
<1>2. CASE CheckStatus
  BY <1>1, <1>2, CheckStatusEnds
<1>3. CASE UNCHANGED <<tStatus, closedCalls>>
  BY <1>3, PhaseSame
<1>4. CASE NotYetClosed
  <2>1. tStatus' = "closing" /\ closedCalls' = closedCalls
    BY <1>4 DEF NotYetClosed
  <2> QED
    BY <1>1, <2>1, LivePhase, PhaseValuesAfter DEF PhaseEnds
<1> QED
  BY <1>2, <1>3, <1>4
     DEF ProxyDidDisconnect, AdapterFailed, AdapterDidDisconnect, ForceClose, AdapterEnds

\* The quiet handlers and events move nothing, and at most end the tunnel.
LEMMA QuietRelays ==
  ASSUME TypeOK, TypeOK', TokenInv, LifeInv, CancelInv,
         \/ ProxyReadInvalid \/ Resolved \/ ProxyWrote \/ PumpAdapter
         \/ ProxyDidDisconnect \/ AdapterFailed \/ AdapterDidDisconnect
         \/ ForceClose
         \/ ClientStep(ClientGone)
         \/ RemoteStep(ConnUp) \/ RemoteStep(ConnLost) \/ RemoteStep(ConnCancelled)
         \/ RemoteStep(RemoteEnds) \/ RemoteStep(RemoteReadFails)
         \/ RemoteStep(RemoteWriteFails)
         \/ Released \/ UNCHANGED vars
  PROVE  [Abstract!Next]_(Abstract!vars)
<1>1. SeesNothing
  <2>1. UpQuiet /\ DownQuiet /\ UNCHANGED writeStatus
    BY QuietHandlers, QuietEvents
  <2> QED
    BY <2>1, QuietSeesNothing
<1>2. CASE ProxyDidDisconnect \/ AdapterFailed \/ AdapterDidDisconnect \/ ForceClose
  BY <1>1, <1>2, ClosingEnds, RelayEnds
<1>3. CASE UNCHANGED <<tStatus, closedCalls>>
  BY <1>1, <1>3, PhaseSame, RelayEnds
<1> QED
  BY <1>2, <1>3 DEF ProxyReadInvalid, Resolved, ProxyWrote, PumpAdapter, ClientStep,
                    RemoteStep, Released, vars, tVars

-----------------------------------------------------------------------------
(* Steps that move a chunk.                                                *)

LEMMA DownStill ==
  ASSUME UNCHANGED <<isConnect, remoteSent, clientGot>>,
         UNCHANGED writeStatus \/ (writeStatus # "invalid" /\ writeStatus' # "invalid")
  PROVE  UNCHANGED <<DownTaken, Len(clientGot)>>
  BY DEF DownTaken, Answered

LEMMA UpStill ==
  ASSUME UNCHANGED <<isConnect, clientSent, remoteGot>>,
         UNCHANGED readStatus \/ (Requested /\ Requested')
  PROVE  UNCHANGED <<UpTaken, Len(remoteGot)>>
  BY DEF UpTaken, Skipped, Requested

LEMMA RelayTakesUp ==
  ASSUME Phase \in {"open", "closing"}, PhaseStays,
         UpTaken = Len(remoteGot), UpTaken' = UpTaken + 1,
         UNCHANGED <<Len(remoteGot), DownTaken, Len(clientGot)>>
  PROVE  Abstract!Next
  BY DEF Abstract!Next, Abstract!TakeUp, PhaseStays

LEMMA RelayGivesUp ==
  ASSUME Phase \in {"open", "closing"}, PhaseStays,
         Len(remoteGot) < UpTaken, Len(remoteGot)' = Len(remoteGot) + 1,
         UNCHANGED <<UpTaken, DownTaken, Len(clientGot)>>
  PROVE  Abstract!Next
  BY DEF Abstract!Next, Abstract!GiveUp, PhaseStays

LEMMA RelayTakesDown ==
  ASSUME Phase \in {"open", "closing"}, PhaseStays,
         DownTaken = Len(clientGot), DownTaken' = DownTaken + 1,
         UNCHANGED <<UpTaken, Len(remoteGot), Len(clientGot)>>
  PROVE  Abstract!Next
  BY DEF Abstract!Next, Abstract!TakeDown, PhaseStays

LEMMA RelayGivesDown ==
  ASSUME Phase \in {"open", "closing"}, PhaseStays,
         Len(clientGot) < DownTaken, Len(clientGot)' = Len(clientGot) + 1,
         UNCHANGED <<UpTaken, Len(remoteGot), DownTaken>>
  PROVE  Abstract!Next
  BY DEF Abstract!Next, Abstract!GiveDown, PhaseStays

\* The status a tunnel gets while it opens and becomes ready.
LEMMA OpenStays ==
  ASSUME TypeOK, TypeOK', LifeInv, CancelInv, delegate, cState # "fresh", ~tCancelled,
         tStatus' \in {"waitingToBeReady", "forwarding"}, UNCHANGED closedCalls
  PROVE  PhaseStays
  BY LivePhase, PhaseValuesAfter DEF PhaseStays

LEMMA AcceptRelays ==
  ASSUME TypeOK, TypeOK', TokenInv, LifeInv, CancelInv, OrderInv, Accept
  PROVE  Abstract!Next
<1>1. /\ UNCHANGED <<isConnect, remoteSent, clientGot, writeStatus>>
      /\ UNCHANGED <<remoteGot, clientSent, closedCalls>>
      /\ cState = "fresh" /\ tStatus' = "readingRequest"
      /\ readStatus' = "readingFirstHeader"
  BY DEF Accept, ProxyOpen, nVars
<1>2. Phase = "new" /\ Phase' = "open"
  BY <1>1, PhaseValues, PhaseValuesAfter DEF CancelInv, StatusInv
<1>3. readStatus = "invalid" /\ clientSent = 0 /\ Skipped = 0
  BY <1>1, FreshIsIdle DEF OrderInv, UpOrder, Requested, Skipped
<1>4. UpTaken = 0 /\ UpTaken' = 0
  BY <1>1, <1>3 DEF UpTaken
<1> QED
  BY <1>1, <1>2, <1>4, DownStill DEF Abstract!Next, Abstract!Open

LEMMA ProxyReadRequestRelays ==
  ASSUME TypeOK, TypeOK', TokenInv, LifeInv, CancelInv, OrderInv, AnswerInv,
         ProxyReadRequest
  PROVE  [Abstract!Next]_(Abstract!vars)
<1>1. /\ UNCHANGED <<remoteSent, clientGot, writeStatus, remoteGot, clientSent>>
      /\ UNCHANGED closedCalls
      /\ readStatus = "readingFirstHeader" /\ cReadCb # <<>> /\ delegate
      /\ readStatus' \in {"readingContent", "pendingFirstHeader"}
      /\ DidReceive
  BY DEF ProxyReadRequest, TakeReadCb
<1>2. cState # "fresh"
  BY <1>1, FreshIsIdle
<1>3. clientSent = 1 /\ remoteGot = <<>> /\ Len(remoteGot) = 0
  BY <1>1 DEF OrderInv, UpOrder, Requested
<1>4. writeStatus = "invalid"
  BY <1>1 DEF TokenInv, AnswerInv
<1>5. UNCHANGED <<DownTaken, Len(clientGot), Len(remoteGot)>>
  BY <1>1, <1>4 DEF DownTaken, Answered
<1>6. Phase \in {"open", "closing"}
  BY <1>1, <1>2, LivePhase
<1>7. PhaseStays
  BY <1>1, <1>2, PhaseSame, OpenStays DEF DidReceive
<1>8. UpTaken = 0
  BY <1>1 DEF UpTaken
<1>9. UpTaken' = 1 - Skipped'
  BY <1>1, <1>3 DEF UpTaken
<1>10. CASE isConnect'
  <2>1. UpTaken' = 0
    BY <1>9, <1>10 DEF Skipped
  <2> QED
    BY <1>5, <1>7, <1>8, <2>1, RelayEnds DEF SeesNothing
<1>11. CASE ~isConnect'
  <2>1. UpTaken' = 1
    BY <1>9, <1>11 DEF Skipped
  <2> QED
    BY <1>3, <1>5, <1>6, <1>7, <1>8, <2>1, RelayTakesUp
<1> QED
  BY <1>10, <1>11

\* The steps within the tunnel.
LEMMA InnerRelays ==
  ASSUME TypeOK, TypeOK', TokenInv, OrderInv,
         ProxyReadForward \/ AdapterReadForward \/ AdapterWrote
  PROVE  [Abstract!Next]_(Abstract!vars)
<1>1. /\ UNCHANGED <<isConnect, remoteSent, clientGot, writeStatus>>
      /\ UNCHANGED <<clientSent, remoteGot, tStatus, closedCalls>>
  BY DEF ProxyReadForward, AdapterReadForward, AdapterWrote, pVars, tVars
<1>2. UNCHANGED readStatus \/ (Requested /\ Requested')
  <2>1. CASE ProxyReadForward \/ AdapterReadForward
    BY <2>1 DEF ProxyReadForward, AdapterReadForward, pVars
  <2>2. CASE AdapterWrote
    <3>1. nWroteCb > 0 /\ (ProxyReadData \/ UNCHANGED readStatus)
      BY <2>2 DEF AdapterWrote
    <3>2. Requested
      BY <3>1, UpUnderWay, TokenTypes
    <3> QED
      BY <3>1, <3>2, ProxyReadDataOrder
  <2> QED
    BY <2>1, <2>2
<1> QED
  BY <1>1, <1>2, PhaseSame, UpStill, DownStill, RelayEnds DEF SeesNothing

LEMMA ProxyWroteResponseRelays ==
  ASSUME TypeOK, TypeOK', TokenInv, LifeInv, CancelInv, AnswerInv, ProxyWroteResponse
  PROVE  [Abstract!Next]_(Abstract!vars)
<1>1. /\ UNCHANGED <<isConnect, remoteSent, clientGot, clientSent, remoteGot, closedCalls>>
      /\ writeStatus = "sendingConnectResponse" /\ writeStatus' = "forwarding"
      /\ ProxyReadData \/ UNCHANGED readStatus
      /\ UNCHANGED tStatus \/ (tStatus' = "forwarding" /\ ~tCancelled)
      /\ delegate
  BY DEF ProxyWroteResponse, StartForwarding
<1>2. Requested
  BY <1>1 DEF AnswerInv, TokenInv, Requested
<1>3. Requested'
  BY <1>1, <1>2, ProxyReadDataOrder DEF Requested
<1>4. cState # "fresh"
  BY <1>2, FreshIsIdle DEF Requested
<1>5. PhaseStays
  BY <1>1, <1>4, PhaseSame, OpenStays
<1> QED
  BY <1>1, <1>2, <1>3, <1>5, UpStill, DownStill, RelayEnds DEF SeesNothing

\* The answer to a CONNECT is taken for the client when the adapter is connected.
LEMMA AdapterConnectedRelays ==
  ASSUME TypeOK, TypeOK', TokenInv, LifeInv, CancelInv, AnswerInv, AdapterConnected
  PROVE  [Abstract!Next]_(Abstract!vars)
<1>1. /\ UNCHANGED <<isConnect, remoteSent, clientGot, clientSent, remoteGot, closedCalls>>
      /\ nConnectedCb /\ delegate
  BY DEF AdapterConnected
<1>2. readySignal = 0 /\ conn # "nil" /\ Requested
  BY <1>1 DEF TokenInv, Requested
<1>3. writeStatus = "invalid" /\ remoteSent = 0 /\ Len(clientGot) = 0
  BY <1>2 DEF AnswerInv
<1>4. cState # "fresh"
  BY <1>2, FreshIsIdle
<1>5. CASE UNCHANGED <<tStatus, writeStatus, readStatus>>
  BY <1>1, <1>5, PhaseSame, UpStill, DownStill, RelayEnds DEF SeesNothing
<1>6. CASE /\ AnswersFirst /\ writeStatus' = "sendingConnectResponse"
           /\ UNCHANGED <<tStatus, readStatus>>
  <2>1. DownTaken = 0 /\ DownTaken' = 1
    BY <1>1, <1>3, <1>6 DEF DownTaken, Answered, AnswersFirst
  <2>2. PhaseStays /\ UNCHANGED <<UpTaken, Len(remoteGot)>>
    BY <1>1, <1>6, PhaseSame, UpStill
  <2>3. Phase \in {"open", "closing"}
    BY <1>1, <1>4, LivePhase
  <2> QED
    BY <1>1, <1>3, <2>1, <2>2, <2>3, RelayTakesDown
<1>7. CASE /\ ~AnswersFirst /\ ~tCancelled /\ ProxyReadData
           /\ tStatus' = "forwarding"
  <2>1. UNCHANGED <<DownTaken, Len(clientGot)>>
    BY <1>1, <1>7 DEF DownTaken, Answered, AnswersFirst
  <2>2. UNCHANGED <<UpTaken, Len(remoteGot)>>
    BY <1>1, <1>2, <1>7, ProxyReadDataOrder, UpStill
  <2>3. PhaseStays
    BY <1>1, <1>4, <1>7, OpenStays
  <2> QED
    BY <2>1, <2>2, <2>3, RelayEnds DEF SeesNothing
<1> QED
  BY <1>5, <1>6, <1>7 DEF AdapterConnected, StartForwarding

LEMMA ClientSendsRelays ==
  ASSUME TypeOK, TypeOK', TokenInv, LifeInv, CancelInv, OrderInv, ClientStep(ClientSends)
  PROVE  [Abstract!Next]_(Abstract!vars)
<1>1. /\ UNCHANGED <<isConnect, readStatus, writeStatus, remoteSent, remoteGot>>
      /\ UNCHANGED <<clientGot, tStatus, closedCalls>>
      /\ delegate /\ cState # "fresh" /\ cReads > 0 /\ clientSent' = clientSent + 1
  BY DEF ClientStep, ClientSends, pVars, nVars, tVars
<1>2. PhaseStays /\ UNCHANGED <<DownTaken, Len(clientGot), Len(remoteGot)>>
  BY <1>1, PhaseSame, DownStill
<1>3. CASE readStatus = "readingFirstHeader"
  <2>1. UpTaken' = UpTaken
    BY <1>1, <1>3 DEF UpTaken
  <2> QED
    BY <1>2, <2>1, RelayEnds DEF SeesNothing
<1>4. CASE Requested
  <2>1. clientSent = UpNext - 1
    BY <1>1, <1>4 DEF OrderInv, UpOrder, UpPositions
  <2>2. UpTaken = clientSent - Skipped /\ UpTaken' = (clientSent + 1) - Skipped
    BY <1>1, <1>4 DEF UpTaken, Skipped, Requested
  <2>3. UpTaken = Len(remoteGot) /\ UpTaken' = UpTaken + 1
    BY <2>1, <2>2, OrderTypes DEF UpNext
  <2>4. Phase \in {"open", "closing"}
    BY <1>1, LivePhase
  <2> QED
    BY <1>2, <2>3, <2>4, RelayTakesUp
<1> QED
  BY <1>1, <1>3, <1>4, UpUnderWay

LEMMA RemoteReceivesRelays ==
  ASSUME TypeOK, TypeOK', TokenInv, LifeInv, CancelInv, OrderInv,
         RemoteStep(RemoteReceives)
  PROVE  [Abstract!Next]_(Abstract!vars)
<1>1. /\ UNCHANGED <<isConnect, readStatus, writeStatus, remoteSent, clientSent>>
      /\ UNCHANGED <<clientGot, tStatus, closedCalls>>
      /\ delegate /\ conn = "connected" /\ nWrites # <<>>
      /\ remoteGot' = Append(remoteGot, Head(nWrites))
  BY DEF RemoteStep, RemoteReceives, cVars, pVars, tVars
<1>2. PhaseStays /\ UNCHANGED <<DownTaken, Len(clientGot)>>
  BY <1>1, PhaseSame, DownStill
<1>3. Requested
  BY <1>1, UpUnderWay
<1>4. clientSent = UpNext
  BY <1>1, <1>3 DEF OrderInv, UpOrder, UpPositions
<1>5. UpTaken = clientSent - Skipped /\ UpTaken' = clientSent - Skipped
  BY <1>1, <1>3 DEF UpTaken, Skipped, Requested
<1>6. UpTaken = Len(remoteGot) + 1 /\ UNCHANGED UpTaken
  BY <1>4, <1>5, OrderTypes DEF UpNext
<1>7. Len(remoteGot)' = Len(remoteGot) + 1
  BY <1>1, UpAlone, OrderTypes, AppendProperties
<1>8. Len(remoteGot) < UpTaken
  BY <1>6, OrderTypes
<1>9. Phase \in {"open", "closing"}
  BY <1>1, FreshIsIdle, LivePhase
<1> QED
  BY <1>2, <1>6, <1>7, <1>8, <1>9, RelayGivesUp

LEMMA RemoteMaySendRelays ==
  ASSUME TypeOK, TypeOK', TokenInv, LifeInv, CancelInv, OrderInv, AnswerInv,
         NEW d \in 0 .. MaxDown, RemoteStep(RemoteMaySend(d))
  PROVE  [Abstract!Next]_(Abstract!vars)
<1>1. /\ UNCHANGED <<isConnect, readStatus, writeStatus, clientSent, remoteGot>>
      /\ UNCHANGED <<clientGot, tStatus, closedCalls>>
      /\ delegate /\ conn = "connected" /\ nReads > 0
      /\ d = IVOnly => remoteSent' = remoteSent
      /\ d # IVOnly => remoteSent' = remoteSent + 1
  BY DEF RemoteStep, RemoteMaySend, RemoteSends, cVars, pVars, tVars
<1>2. PhaseStays /\ UNCHANGED <<UpTaken, Len(remoteGot), Len(clientGot)>>
  BY <1>1, PhaseSame, UpStill
<1>3. CASE d = IVOnly
  BY <1>1, <1>2, <1>3, DownStill, RelayEnds DEF SeesNothing
<1>4. CASE d # IVOnly
  <2>1. writeStatus # "invalid" /\ remoteSent = DownNext - 1
    BY <1>1 DEF AnswerInv, OrderInv, DownOrder, DownPositions, Between
  <2>2. DownTaken = remoteSent + Skipped /\ DownTaken' = (remoteSent + 1) + Skipped
    BY <1>1, <1>4, <2>1 DEF DownTaken, Answered, Skipped
  <2>3. DownTaken = Len(clientGot) /\ DownTaken' = DownTaken + 1
    BY <2>1, <2>2, OrderTypes DEF DownNext
  <2>4. Phase \in {"open", "closing"}
    BY <1>1, FreshIsIdle, LivePhase
  <2> QED
    BY <1>2, <2>3, <2>4, RelayTakesDown
<1> QED
  BY <1>3, <1>4

LEMMA ClientReceivesRelays ==
  ASSUME TypeOK, TypeOK', TokenInv, LifeInv, CancelInv, OrderInv, AnswerInv,
         ClientStep(ClientReceives)
  PROVE  [Abstract!Next]_(Abstract!vars)
<1>1. /\ UNCHANGED <<isConnect, readStatus, writeStatus, clientSent, remoteGot>>
      /\ UNCHANGED <<remoteSent, tStatus, closedCalls>>
      /\ delegate /\ cState # "fresh" /\ cWrites # <<>>
      /\ clientGot' = Append(clientGot, Head(cWrites))
  BY DEF ClientStep, ClientReceives, pVars, nVars, tVars
<1>2. PhaseStays /\ UNCHANGED <<UpTaken, Len(remoteGot)>>
  BY <1>1, PhaseSame, UpStill
<1>3. writeStatus # "invalid" /\ remoteSent = DownNext
  BY <1>1 DEF AnswerInv, OrderInv, DownOrder, DownPositions
<1>4. DownTaken = remoteSent + Skipped /\ UNCHANGED DownTaken
  BY <1>1, <1>3 DEF DownTaken, Answered, Skipped
<1>5. DownTaken = Len(clientGot) + 1
  BY <1>3, <1>4, OrderTypes DEF DownNext
<1>6. Len(clientGot)' = Len(clientGot) + 1
  BY <1>1, DownAlone, OrderTypes, AppendProperties
<1>7. Len(clientGot) < DownTaken
  BY <1>5, OrderTypes
<1>8. Phase \in {"open", "closing"}
  BY <1>1, LivePhase
<1> QED
  BY <1>2, <1>4, <1>6, <1>7, <1>8, RelayGivesDown

-----------------------------------------------------------------------------
(* The refinement.                                                         *)

LEMMA RelayInit == Init => Abstract!Init
<1> SUFFICES ASSUME Init PROVE Abstract!Init
  OBVIOUS
<1>1. /\ tStatus = "invalid" /\ closedCalls = 0 /\ readStatus = "invalid"
      /\ clientSent = 0 /\ ~isConnect /\ remoteSent = 0
      /\ remoteGot = <<>> /\ clientGot = <<>>
  BY DEF Init, InitClient, InitProxy, InitRemote
<1>2. Phase = "new"
  BY <1>1 DEF Phase
<1>3. UpTaken = 0 /\ DownTaken = 0
  <2>1. Skipped = 0 /\ ~Answered
    BY <1>1 DEF Skipped, Answered
  <2> QED
    BY <1>1, <2>1 DEF UpTaken, DownTaken
<1>4. Len(remoteGot) = 0 /\ Len(clientGot) = 0
  BY <1>1
<1> QED
  BY <1>1, <1>2, <1>3, <1>4, Zenon DEF Abstract!Init

LEMMA RelayStep ==
  ASSUME TypeOK, TypeOK', TokenInv, LifeInv, CancelInv, OrderInv, AnswerInv, [Next]_vars
  PROVE  [Abstract!Next]_(Abstract!vars)
<1>1. CASE Accept
  BY <1>1, AcceptRelays
<1>2. CASE ProxyReadRequest
  BY <1>2, ProxyReadRequestRelays
<1>3. CASE ProxyReadForward \/ AdapterReadForward \/ AdapterWrote
  BY <1>3, InnerRelays
<1>4. CASE ProxyWroteResponse
  BY <1>4, ProxyWroteResponseRelays
<1>5. CASE AdapterConnected
  BY <1>5, AdapterConnectedRelays
<1>6. CASE ClientStep(ClientSends)
  BY <1>6, ClientSendsRelays
<1>7. CASE ClientStep(ClientReceives)
  BY <1>7, ClientReceivesRelays
<1>8. CASE \E d \in 0 .. MaxDown : RemoteStep(RemoteMaySend(d))
  BY <1>8, RemoteMaySendRelays
<1>9. CASE RemoteStep(RemoteReceives)
  BY <1>9, RemoteReceivesRelays
<1>10. CASE \/ ProxyReadInvalid \/ Resolved \/ ProxyWrote \/ PumpAdapter
            \/ ProxyDidDisconnect \/ AdapterFailed \/ AdapterDidDisconnect
            \/ ForceClose
            \/ ClientStep(ClientGone)
            \/ RemoteStep(ConnUp) \/ RemoteStep(ConnLost) \/ RemoteStep(ConnCancelled)
            \/ RemoteStep(RemoteEnds) \/ RemoteStep(RemoteReadFails)
            \/ RemoteStep(RemoteWriteFails)
            \/ Released \/ UNCHANGED vars
  BY <1>10, QuietRelays
<1> QED
  BY <1>1, <1>2, <1>3, <1>4, <1>5, <1>6, <1>7, <1>8, <1>9, <1>10 DEF Next

\* What the server may rely on, without its fairness: whatever the order of blocks,
\* closes and failures, the handlers of a tunnel are steps of Relay - one chunk at a
\* time in each direction, nothing after the end, the end told once.
THEOREM TunnelImplementsRelay == Spec => Abstract!Spec
<1>1. Init => Abstract!Init
  BY RelayInit
<1>2. TypeOK /\ TypeOK' /\ TokenInv /\ LifeInv /\ CancelInv /\ OrderInv /\ AnswerInv
        /\ [Next]_vars => [Abstract!Next]_(Abstract!vars)
  BY RelayStep
<1> QED
  BY <1>1, <1>2, TypeCorrect, TokensCorrect, LifeCorrect, CancelCorrect, OrderCorrect,
     AnswerCorrect, PTL DEF Spec, Abstract!Spec

=============================================================================
