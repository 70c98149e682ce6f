------------------------------- MODULE LwipTcp -------------------------------
(***************************************************************************)
(* lwIP's tcp.c: opening, closing, aborting and the slow timer of one      *)
(* connection, as functions of its pcb.  Beside the fields of struct       *)
(* tcp_pcb the record holds what the application sees of the connection:   *)
(* `held' (it may still use the pcb), `got' (the bytes passed to its recv  *)
(* callback), `unread' (those it has not returned with tcp_recved), `told' *)
(* (bytes its sent callback was told of), `eof' (its recv callback was     *)
(* told of the FIN) and `err' (what its err callback was told).  State     *)
(* "FREE" is a pcb given back with memp_free.                              *)
(***************************************************************************)
EXTENDS LwipTcpOut

Active == {"SYN_SENT", "SYN_RCVD", "ESTABLISHED", "FIN_WAIT_1", "FIN_WAIT_2",
           "CLOSE_WAIT", "CLOSING", "LAST_ACK"}

\* tcp_alloc
Alloc(id, iss) ==
  [id |-> id, state |-> "CLOSED", flags |-> {}, rc |-> "ERR_OK", failed |-> {},
   rcvNxt |-> 0, rcvWnd |-> Wnd, annWnd |-> Wnd, annEdge |-> 0,
   sndNxt |-> iss, lastack |-> iss, lbb |-> iss, wl1 |-> 0, wl2 |-> iss,
   sndWnd |-> 0, wndMax |-> 0, sndBuf |-> SndBuf, mss |-> Mss,
   unsent |-> <<>>, unacked |-> <<>>, ooseq |-> <<>>, refused |-> <<>>, refusedFin |-> FALSE,
   cwnd |-> 1, ssthresh |-> 0, dupacks |-> 0, nrtx |-> 0, rtime |-> FALSE, persist |-> FALSE,
   acked |-> 0, out |-> <<>>, inInput |-> FALSE, recvData |-> <<>>, recvFlags |-> {},
   held |-> FALSE, got |-> <<>>, unread |-> 0, told |-> 0,
   eof |-> FALSE, err |-> "none"]

\* memp_free: nothing of the pcb may be used any more.
Free(c) ==
  [Alloc(c.id, 0) EXCEPT !.state = "FREE", !.out = c.out, !.failed = c.failed, !.rc = "ERR_OK",
     !.held = c.held, !.got = c.got, !.told = c.told, !.eof = c.eof, !.err = c.err]

\* TCP_EVENT_ERR: the application must drop its pointer.
EventErr(c, e) == IF c.held THEN [c EXCEPT !.held = FALSE, !.err = e] ELSE c

\* tcp_pcb_purge
Purge(c) ==
  IF c.state \in {"CLOSED", "TIME_WAIT", "LISTEN"} THEN c
  ELSE [c EXCEPT !.refused = <<>>, !.ooseq = <<>>, !.unsent = <<>>, !.unacked = <<>>,
                 !.rtime = FALSE]

\* tcp_pcb_remove: a delayed ack is sent before the pcb goes.
PcbRemove(c) ==
  LET d == Purge(c)
      e == IF c.state # "TIME_WAIT" /\ "ackDelay" \in c.flags THEN TcpOutput(AckNow(d)) ELSE d
  IN [e EXCEPT !.state = "CLOSED"]

\* tcp_abandon.  The application is told unless the pcb was in TIME_WAIT.
Abandon(c, reset) ==
  LET d == PcbRemove(c)
  IN IF c.state = "TIME_WAIT" THEN Free(d)
     ELSE EventErr(Free(IF reset THEN Rst(d, c.sndNxt, c.rcvNxt) ELSE d), "ERR_ABRT")

\* Mutant of UpdateRcvAnnWnd: less room is announced as it is used up.
UpdateRcvAnnWndShrinking(c) ==
  IF SeqGEQ(SeqAdd(c.rcvNxt, c.rcvWnd), SeqAdd(c.annEdge, Lesser(Wnd \div 2, c.mss)))
  THEN [c EXCEPT !.annWnd = c.rcvWnd] ELSE [c EXCEPT !.annWnd = 0]

\* tcp_update_rcv_ann_wnd: announce more only in steps worth a segment, and
\* never take back what was announced.
UpdateRcvAnnWnd(c) ==
  LET edge == SeqAdd(c.rcvNxt, c.rcvWnd)
  IN IF SeqGEQ(edge, SeqAdd(c.annEdge, Lesser(Wnd \div 2, c.mss)))
     THEN [c EXCEPT !.annWnd = c.rcvWnd]
     ELSE IF SeqGT(c.rcvNxt, c.annEdge) THEN [c EXCEPT !.annWnd = 0]
     ELSE LET wnd == SeqSub(c.annEdge, c.rcvNxt)
          IN [Assert2(c, "new_rcv_ann_wnd <= 0xffff", wnd <= U16) EXCEPT !.annWnd = wnd]

\* What tcp_recved changes before it decides to tell the peer.
Returned(c, len) ==
  LET wnd == (c.rcvWnd + len) % (U16 + 1)
  IN UpdateRcvAnnWnd([Assert2(c, "len would wrap rcv_wnd", len <= U16 - c.rcvWnd)
                        EXCEPT !.rcvWnd = Lesser(wnd, Wnd), !.unread = @ - len])

\* tcp_recved: the application is done with len bytes.
Recved(c, len) ==
  LET d == Returned(c, len)
      edge == SeqAdd(d.rcvNxt, d.rcvWnd)
      inflation == IF SeqGEQ(edge, SeqAdd(c.annEdge, Lesser(Wnd \div 2, c.mss)))
                   THEN SeqSub(edge, c.annEdge) ELSE 0
  IN IF inflation >= Wnd \div 4 THEN TcpOutput(AckNow(d)) ELSE d

\* tcp_connect
Connect(c, iss) ==
  LET d == EnqueueFlags([c EXCEPT !.sndNxt = iss, !.lastack = SeqAdd(iss, SeqSpace - 1),
                                  !.lbb = SeqAdd(iss, SeqSpace - 1), !.sndWnd = Wnd, !.cwnd = 1,
                                  !.ssthresh = Lesser(c.mss * 10, U16), !.held = TRUE],
                        TRUE, FALSE)
  IN TcpOutput([d EXCEPT !.state = "SYN_SENT"])

-----------------------------------------------------------------------------
(* Closing.                                                                *)

\* tcp_close_shutdown with data the application did not take: a RST, and no
\* FIN.  The pcb may not be freed in ESTABLISHED, callers still use it.
CloseWithReset(c) ==
  LET d == Purge(Rst(Assert2(c, "TF_RXCLOSED", "rxClosed" \in c.flags), c.sndNxt, c.rcvNxt))
  IN IF c.state = "ESTABLISHED" THEN [d EXCEPT !.state = "TIME_WAIT", !.rc = "ERR_OK"] ELSE Free(d)

\* The states in which the application's close sends a FIN, and what follows.
AfterFin == [SYN_RCVD |-> "FIN_WAIT_1", ESTABLISHED |-> "FIN_WAIT_1", CLOSE_WAIT |-> "LAST_ACK"]

CloseShutdown(c, rstOnUnacked) ==
  LET fin == SendFin(c) IN
  CASE /\ rstOnUnacked /\ c.state \in {"ESTABLISHED", "CLOSE_WAIT"}
       /\ c.refused # <<>> \/ c.rcvWnd # Wnd -> CloseWithReset(c)
    [] c.state = "SYN_SENT" -> Free(PcbRemove(c))
    [] /\ c.state \in DOMAIN AfterFin
       /\ ~(/\ rstOnUnacked /\ c.state \in {"ESTABLISHED", "CLOSE_WAIT"}
            /\ c.refused # <<>> \/ c.rcvWnd # Wnd) ->
         IF fin.rc = "ERR_OK" THEN TcpOutput([fin EXCEPT !.state = AfterFin[c.state]]) ELSE fin
    [] OTHER -> [c EXCEPT !.rc = "ERR_OK"]

\* Mutant of TcpClose: the receiving side is not marked as closed.
TcpCloseUnmarked(c) ==
  LET d == CloseShutdown(c, TRUE) IN IF d.rc = "ERR_OK" THEN [d EXCEPT !.held = FALSE] ELSE d

\* tcp_close.  When it succeeds the application has no pcb any more.
TcpClose(c) ==
  LET d == CloseShutdown([c EXCEPT !.flags = @ \cup {"rxClosed"}], TRUE)
  IN IF d.rc = "ERR_OK" THEN [d EXCEPT !.held = FALSE] ELSE d

\* tcp_shutdown of the receiving side only, and of the sending side only.
ShutdownRx(c) == [c EXCEPT !.flags = @ \cup {"rxClosed"}, !.refused = <<>>]

ShutdownTx(c) ==
  IF c.state \in DOMAIN AfterFin THEN CloseShutdown(c, FALSE) ELSE [c EXCEPT !.rc = "ERR_CONN"]

-----------------------------------------------------------------------------
(* The recv callback, and data it refused before.                          *)

Answers == {"taken", "kept", "refused", "aborted"}

\* What the recv callback does with data: taken and returned with tcp_recved at
\* once (TSTCPSocket), taken and returned later, refused, or tcp_abort.
EventRecv(c, data, answer) ==
  CASE answer = "taken" -> Recved([c EXCEPT !.got = @ \o data, !.unread = @ + Len(data)], Len(data))
    [] answer = "kept" -> [c EXCEPT !.got = @ \o data, !.unread = @ + Len(data)]
    [] answer = "refused" -> [c EXCEPT !.refused = data]
    [] OTHER -> Abandon(c, TRUE)

\* TCP_EVENT_CLOSED; the FIN's window byte is returned.
EventClosed(c) ==
  [c EXCEPT !.rcvWnd = IF @ # Wnd THEN (@ + 1) % (U16 + 1) ELSE @, !.eof = @ \/ c.held]

\* tcp_process_refused_data
ProcessRefused(c, answer) ==
  LET d == EventRecv([c EXCEPT !.refused = <<>>], c.refused, answer)
  IN IF answer \in {"taken", "kept"} /\ c.refusedFin
     THEN EventClosed([d EXCEPT !.refusedFin = FALSE]) ELSE d

-----------------------------------------------------------------------------
(* Timers.  Their ticks are abstracted: which of them may be due is a      *)
(* guard here, when they are is the choice of module LwipTcpNet.           *)

\* tcp_fasttmr, the delayed ack.
DelayedAck(c) == [TcpOutput(AckNow(c)) EXCEPT !.flags = @ \ {"ackDelay", "ackNow"}]

RtxLimit(c) == IF c.state = "SYN_SENT" THEN SynMaxRtx ELSE MaxRtx

RtoPending(c) == c.state \in Active /\ ~c.persist /\ c.unacked # <<>> /\ c.rtime

\* tcp_slowtmr, the retransmission timer: back off and send again.
RtoExpires(c) ==
  LET wnd == Lesser(c.cwnd, c.sndWnd) \div 2
  IN RexmitRto([c EXCEPT !.ssthresh = IF wnd < 2 * c.mss THEN 2 * c.mss ELSE wnd, !.cwnd = c.mss])

\* tcp_slowtmr, the removals: too many retransmissions, or too long in a state.
MustRemove(c) == c.state \in Active /\ c.nrtx = RtxLimit(c)

MayTimeOut(c) ==
  \/ c.state \in {"SYN_RCVD", "LAST_ACK"}
  \/ c.state = "FIN_WAIT_2" /\ "rxClosed" \in c.flags

\* Mutant of RemoveTimedOut: the err callback is forgotten.
RemoveSilently(c, reset) ==
  LET d == Purge(c) IN Free(IF reset THEN Rst(d, c.sndNxt, c.rcvNxt) ELSE d)

RemoveTimedOut(c, reset) ==
  LET d == Purge(c) IN EventErr(Free(IF reset THEN Rst(d, c.sndNxt, c.rcvNxt) ELSE d), "ERR_ABRT")

\* tcp_slowtmr, segments too long out of order are dropped.
DropOutOfOrder(c) == [c EXCEPT !.ooseq = <<>>]

\* tcp_slowtmr, the second list: 2 MSL in TIME_WAIT, nobody is told.
RemoveTimeWait(c) == Free(Purge(c))
=============================================================================
