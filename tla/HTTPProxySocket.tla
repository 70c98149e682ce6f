--------------------------- MODULE HTTPProxySocket ---------------------------
(***************************************************************************)
(* The proxy socket of an HTTP proxy connection: ProxySocket and its       *)
(* subclass HTTPProxySocket on top of GCDTCPSocket.  The parsing of        *)
(* headers and bodies (HTTPStreamScanner) is abstracted to what decides    *)
(* the next step: which kind of item comes next, and whether it is valid.  *)
(***************************************************************************)
EXTENDS GCDTCPSocket

VARIABLES
  pStatus,      \* ProxySocket.status
  pCancelled,   \* ProxySocket.isCancelled
  isConnect,    \* isConnectCommand
  readStatus,   \* HTTPProxySocket.readStatus
  writeStatus,  \* HTTPProxySocket.writeStatus
  nextAction    \* HTTPStreamScanner.nextAction

pVars == <<pStatus, pCancelled, isConnect, readStatus, writeStatus, nextAction>>

\* The chunk that holds the first header of the connection.
FirstHeader == 1

TypeOKProxy ==
  /\ pStatus \in {"established", "disconnecting", "closed"}
  /\ pCancelled \in BOOLEAN
  /\ isConnect \in BOOLEAN
  /\ readStatus \in {"invalid", "readingFirstHeader", "pendingFirstHeader",
                     "readingHeader", "readingContent"}
  /\ writeStatus \in {"invalid", "sendingConnectResponse", "forwarding"}
  /\ nextAction \in {"readHeader", "readContent", "stop"}

InitProxy ==
  /\ pStatus = "established"
  /\ pCancelled = FALSE
  /\ isConnect = FALSE
  /\ readStatus = "invalid"
  /\ writeStatus = "invalid"
  /\ nextAction = "readHeader"

-----------------------------------------------------------------------------

\* Mutant of ProxyOpen: a second read is queued at once.
ProxyOpenReadingTwice ==
  /\ readStatus' = "readingFirstHeader"
  /\ cReads' = cReads + 2

\* openSocket: start reading the first header.
ProxyOpen ==
  /\ readStatus' = "readingFirstHeader"
  /\ cReads' = cReads + 1

\* The held back first header of a plain request is handed over by the next
\* readData.
HandsOverHeader == ~pCancelled /\ readStatus = "pendingFirstHeader"

\* Mutant of ProxyReadData: no return after the header is handed over.
ProxyReadDataFallingThrough ==
  \/ /\ pCancelled
     /\ UNCHANGED <<readStatus, cReads>>
  \/ /\ ~pCancelled
     /\ readStatus' = IF nextAction = "readHeader" THEN "readingHeader"
                                                   ELSE "readingContent"
     /\ ClientRead

\* readData
ProxyReadData ==
  \/ /\ pCancelled
     /\ UNCHANGED <<readStatus, cReads>>
  \/ /\ HandsOverHeader
     /\ readStatus' = "readingContent"
     /\ UNCHANGED cReads
  \/ /\ ~pCancelled
     /\ readStatus # "pendingFirstHeader"
     /\ readStatus' = IF nextAction = "readHeader" THEN "readingHeader"
                                                   ELSE "readingContent"
     /\ ClientRead

\* write(data:)
ProxyWrite(d) == IF pCancelled THEN UNCHANGED cWrites ELSE ClientWrite(d)

\* disconnect(becauseOf:)
ProxyDisconnect ==
  \/ /\ pCancelled
     /\ UNCHANGED <<pStatus, pCancelled, cState, cReads, cWrites, cClosedCb>>
  \/ /\ ~pCancelled
     /\ pStatus' = "disconnecting"
     /\ pCancelled' = TRUE
     /\ ClientDisconnect

\* forceDisconnect(becauseOf:)
ProxyForceDisconnect ==
  \/ /\ pCancelled
     /\ UNCHANGED <<pStatus, pCancelled, cState, cReads, cWrites, cClosedCb>>
  \/ /\ ~pCancelled
     /\ pStatus' = "disconnecting"
     /\ pCancelled' = TRUE
     /\ ClientForceDisconnect

\* HTTPStreamScanner.input: the item is invalid (bad header, another host,
\* too much content).
ScanFails == nextAction' = "stop"

\* HTTPStreamScanner.input of the first header: CONNECT is followed by opaque
\* content, a plain request by content or by another header.
ScanFirst(connect) ==
  IF connect THEN nextAction' = "readContent"
             ELSE nextAction' \in {"readHeader", "readContent"}

\* HTTPStreamScanner.input of any later item.
ScanNext ==
  IF isConnect THEN nextAction' = "readContent"
               ELSE nextAction' \in {"readHeader", "readContent"}

=============================================================================
