---------------------------- MODULE GCDTCPSocket ----------------------------
(***************************************************************************)
(* The local side of a proxied connection: NEKit's GCDTCPSocket wrapping   *)
(* the GCDAsyncSocket of an accepted client.  GCDAsyncSocket runs on the   *)
(* same serial dispatch queue as the rest of NEKit, so its reads, writes   *)
(* and its close are ordered; their completions are blocks ("Cb") waiting  *)
(* on that queue.                                                          *)
(*                                                                         *)
(* The operations named Client... are fragments: they constrain only the variables   *)
(* named in them and are composed into whole handlers by module Tunnel.    *)
(***************************************************************************)
EXTENDS Naturals, Sequences

CONSTANTS MaxUp   \* bound: how many chunks the client sends

ASSUME MaxUpAssumption == MaxUp \in Nat

VARIABLES
  cState,      \* "fresh", "open", "flushing" (disconnectAfterWriting) or "closed"
  cReads,      \* reads queued on the GCDAsyncSocket and not completed
  cWrites,     \* writes queued on it and not completed, oldest first
  cReadCb,     \* didRead blocks waiting on the queue, with their chunk
  cWroteCb,    \* didWrite blocks waiting (non-empty writes)
  cEmptyCb,    \* didWrite blocks waiting for empty writes (GCDTCPSocket.write)
  cClosedCb,   \* the socketDidDisconnect block is waiting
  clientSent,  \* chunks the client's bytes were read into so far
  clientGot    \* chunks that were written to the client, in order

cVars == <<cState, cReads, cWrites, cReadCb, cWroteCb, cEmptyCb, cClosedCb,
           clientSent, clientGot>>

\* What is written to the client: chunk n of the response, or the answer to a
\* CONNECT request.
ConnectResponse == 0

TypeOKClient ==
  /\ cState \in {"fresh", "open", "flushing", "closed"}
  /\ cReads \in Nat
  /\ cWrites \in Seq(Nat)
  /\ cReadCb \in Seq(Nat)
  /\ cWroteCb \in Nat
  /\ cEmptyCb \in Nat
  /\ cClosedCb \in BOOLEAN
  /\ clientSent \in Nat
  /\ clientGot \in Seq(Nat)

InitClient ==
  /\ cState = "fresh"
  /\ cReads = 0
  /\ cWrites = <<>>
  /\ cReadCb = <<>>
  /\ cWroteCb = 0
  /\ cEmptyCb = 0
  /\ cClosedCb = FALSE
  /\ clientSent = 0
  /\ clientGot = <<>>

-----------------------------------------------------------------------------
(* Operations called by HTTPProxySocket.                                   *)

\* readData / readDataTo: queued unless the socket forbids reads and writes.
ClientRead ==
  cReads' = IF cState = "open" THEN cReads + 1 ELSE cReads

\* write(data:) of one non-empty chunk.
ClientWrite(d) ==
  cWrites' = IF cState = "open" THEN Append(cWrites, d) ELSE cWrites

\* Mutant of ClientWriteEmpty: didWrite is not called.
ClientWriteNothing == UNCHANGED cEmptyCb

\* write(data:) of empty data: nothing is sent, didWrite is queued.
ClientWriteEmpty == cEmptyCb' = cEmptyCb + 1

\* closeWithError: both queues are emptied and the delegate is told later.
ClientClose ==
  /\ cState' = "closed"
  /\ cReads' = 0
  /\ cWrites' = <<>>
  /\ cClosedCb' = TRUE

\* disconnect: disconnectAfterWriting, closed at once when nothing is queued.
ClientDisconnect ==
  \/ /\ cState = "open"
     /\ cWrites = <<>>
     /\ ClientClose
  \/ /\ cState = "open"
     /\ cWrites # <<>>
     /\ cState' = "flushing"
     /\ UNCHANGED <<cReads, cWrites, cClosedCb>>
  \/ /\ cState # "open"
     /\ UNCHANGED <<cState, cReads, cWrites, cClosedCb>>

\* forceDisconnect: GCDAsyncSocket.disconnect, synchronous, drops the queues.
ClientForceDisconnect ==
  \/ /\ cState \in {"open", "flushing"}
     /\ ClientClose
  \/ /\ cState \notin {"open", "flushing"}
     /\ UNCHANGED <<cState, cReads, cWrites, cClosedCb>>

-----------------------------------------------------------------------------
(* What the client and the kernel do.                                      *)

\* Enough bytes arrived to complete the oldest read.
ClientSends ==
  /\ cState \in {"open", "flushing"}
  /\ cReads > 0
  /\ clientSent < MaxUp
  /\ cReads' = cReads - 1
  /\ clientSent' = clientSent + 1
  /\ cReadCb' = Append(cReadCb, clientSent + 1)
  /\ UNCHANGED <<cState, cWrites, cWroteCb, cEmptyCb, cClosedCb, clientGot>>

\* The oldest write completed; a flushing socket closes after the last one.
ClientReceives ==
  /\ cState \in {"open", "flushing"}
  /\ cWrites # <<>>
  /\ clientGot' = Append(clientGot, Head(cWrites))
  /\ cWroteCb' = cWroteCb + 1
  /\ IF cState = "flushing" /\ Tail(cWrites) = <<>>
       THEN ClientClose
       ELSE /\ cWrites' = Tail(cWrites)
            /\ UNCHANGED <<cState, cReads, cClosedCb>>
  /\ UNCHANGED <<cReadCb, cEmptyCb, clientSent>>

\* The client closed or reset the connection: doReadEOF or a socket error.
ClientGone ==
  /\ cState \in {"open", "flushing"}
  /\ ClientClose
  /\ UNCHANGED <<cReadCb, cWroteCb, cEmptyCb, clientSent, clientGot>>

=============================================================================
