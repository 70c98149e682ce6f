--------------------------- MODULE LwipTcpProofs ---------------------------
(***************************************************************************)
(* Nobody loses a TCP connection without being told, for every window,     *)
(* sequence space, limit and plan: the application that still holds a pcb  *)
(* when it goes has been called back, or asked for the end itself.         *)
(***************************************************************************)
EXTENDS LwipTcpNet, TLAPS

\* The fields the argument follows through every function.
Shaped(c) ==
  /\ "state" \in DOMAIN c /\ "held" \in DOMAIN c /\ "err" \in DOMAIN c
  /\ "rc" \in DOMAIN c /\ "recvFlags" \in DOMAIN c

\* d is c as far as the application can tell.
Same(c, d) ==
  /\ Shaped(d)
  /\ d.state = c.state /\ d.held = c.held /\ d.err = c.err /\ d.recvFlags = c.recvFlags

-----------------------------------------------------------------------------
(* Output.                                                                 *)

\* LwipTcpOut.SendHeader
LEMMA SendHeaderSame == ASSUME NEW c, NEW s, Shaped(c) PROVE Same(c, SendHeader(c, s)) /\ SendHeader(c, s).rc = c.rc
  BY DEF Same, Shaped, SendHeader

\* LwipTcpOut.SendEmptyAck
LEMMA SendEmptyAckSame ==
  ASSUME NEW c, Shaped(c) PROVE Same(c, SendEmptyAck(c)) /\ SendEmptyAck(c).rc = c.rc
<1> DEFINE h == SendHeader(c, Segment(c.sndNxt, <<>>, FALSE, FALSE))
<1>1. Same(c, h) /\ h.rc = c.rc
  BY SendHeaderSame
<1> HIDE DEF h
<1>2. SendEmptyAck(c) = [h EXCEPT !.flags = @ \ {"ackDelay", "ackNow"}]
  BY DEF SendEmptyAck, h
<1> QED
  BY <1>1, <1>2 DEF Same, Shaped

\* LwipTcpOut.AckNow, Ack, Rst: flags and output only.
LEMMA AckNowSame == ASSUME NEW c, Shaped(c) PROVE Same(c, AckNow(c))
  BY DEF Same, Shaped, AckNow

\* LwipTcpOut.Ack
LEMMA AckSame == ASSUME NEW c, Shaped(c) PROVE Same(c, Ack(c))
  BY DEF Same, Shaped, Ack

\* LwipTcpOut.Rst
LEMMA RstSame == ASSUME NEW c, NEW a, NEW b, Shaped(c) PROVE Same(c, Rst(c, a, b))
  BY DEF Same, Shaped, Rst

\* LwipTcpOut.OutputSegments
LEMMA OutputSegmentsSame ==
  ASSUME NEW c, NEW k, Shaped(c) PROVE Same(c, OutputSegments(c, k)) /\ OutputSegments(c, k).rc = c.rc
<1> DEFINE sent == SubSeq(c.unsent, 1, k)
           top == SegEnd(sent[k])
           out == c.out \o [i \in 1 .. k |-> Wire(c, sent[i], c.state # "SYN_SENT", FALSE)]
           unsent == SubSeq(c.unsent, k + 1, Len(c.unsent))
           unacked == FoldLeft(Insert, c.unacked, sent)
           sndNxt == IF SeqLT(c.sndNxt, top) THEN top ELSE c.sndNxt
           annEdge == SeqAdd(c.rcvNxt, c.annWnd)
           flags == IF c.state = "SYN_SENT" THEN c.flags ELSE c.flags \ {"ackDelay", "ackNow"}
<1>1. OutputSegments(c, k) =
        [c EXCEPT !.out = out, !.unsent = unsent, !.unacked = unacked, !.sndNxt = sndNxt,
                  !.annEdge = annEdge, !.rtime = TRUE, !.flags = flags]
  BY Zenon DEF OutputSegments
<1> HIDE DEF sent, top, out, unsent, unacked, sndNxt, annEdge, flags
<1> QED
  BY <1>1 DEF Same, Shaped

\* LwipTcpOut.TcpOutput
LEMMA TcpOutputSame ==
  ASSUME NEW c, Shaped(c) PROVE Same(c, TcpOutput(c)) /\ TcpOutput(c).rc = c.rc
<1> DEFINE k == Sendable(c)
           d == IF k = 0 THEN c ELSE OutputSegments(c, k)
<1>1. Same(c, d) /\ d.rc = c.rc
  BY OutputSegmentsSame DEF Same
<1>2. Same(c, [d EXCEPT !.flags = @ \ {"nagleMemErr"}]) /\ [d EXCEPT !.flags = @ \ {"nagleMemErr"}].rc = c.rc
  <2> HIDE DEF d
  <2> QED
    BY <1>1 DEF Same, Shaped
<1>3. \/ TcpOutput(c) = c \/ TcpOutput(c) = SendEmptyAck(c)
      \/ TcpOutput(c) = [d EXCEPT !.flags = @ \ {"nagleMemErr"}]
  BY Zenon DEF TcpOutput
<1> HIDE DEF d
<1> QED
  BY <1>2, <1>3, SendEmptyAckSame DEF Same

\* LwipTcpOut.EnqueueFlags: but for the err_t.
LEMMA EnqueueFlagsSame ==
  ASSUME NEW c, NEW syn, NEW fin, Shaped(c) PROVE Same(c, EnqueueFlags(c, syn, fin))
  BY DEF Same, Shaped, EnqueueFlags

\* LwipTcpOut.SendFin: but for the err_t.
LEMMA SendFinSame == ASSUME NEW c, Shaped(c) PROVE Same(c, SendFin(c))
<1>1. CASE SendFin(c) = EnqueueFlags(c, FALSE, TRUE)
  BY <1>1, EnqueueFlagsSame
<1>2. CASE SendFin(c) # EnqueueFlags(c, FALSE, TRUE)
  <2> DEFINE unsent == [c.unsent EXCEPT ![Len(c.unsent)].fin = TRUE]
  <2>1. SendFin(c) = [c EXCEPT !.unsent = unsent, !.flags = @ \cup {"fin"}, !.rc = "ERR_OK"]
    BY <1>2, Zenon DEF SendFin
  <2> HIDE DEF unsent
  <2> QED
    BY <2>1 DEF Same, Shaped
<1> QED
  BY <1>1, <1>2

\* LwipTcpOut.WriteChecks
LEMMA WriteChecksSame == ASSUME NEW c, NEW n, Shaped(c) PROVE Same(c, WriteChecks(c, n))
<1>1. \/ WriteChecks(c, n) = [c EXCEPT !.rc = "ERR_CONN"]
      \/ WriteChecks(c, n) = [c EXCEPT !.rc = "ERR_MEM", !.flags = @ \cup {"nagleMemErr"}]
      \/ WriteChecks(c, n) = [c EXCEPT !.rc = "ERR_OK"]
  BY Zenon DEF WriteChecks
<1> QED
  BY <1>1 DEF Same, Shaped

\* LwipTcpOut.TcpWrite
LEMMA TcpWriteSame == ASSUME NEW c, NEW data, Shaped(c) PROVE Same(c, TcpWrite(c, data))
<1> DEFINE d == WriteChecks(c, Len(data))
<1>1. Same(c, d)
  BY WriteChecksSame
<1>2. \E u, l, s :
        \/ TcpWrite(c, data) = d
        \/ TcpWrite(c, data) = [d EXCEPT !.rc = "ERR_MEM", !.flags = @ \cup {"nagleMemErr"}]
        \/ TcpWrite(c, data) = [d EXCEPT !.unsent = u, !.lbb = l, !.sndBuf = s]
  <2> DEFINE last == Last(c.unsent)
             room == IF c.unsent # <<>> /\ last.data # <<>> /\ ~last.fin
                       THEN Lesser(Len(data), MssLocal(c) - Len(last.data)) ELSE 0
             fill == IF room > 0 THEN room ELSE 0
             rest == SubSeq(data, fill + 1, Len(data))
             queue == IF fill = 0 THEN c.unsent
                      ELSE [c.unsent EXCEPT ![Len(c.unsent)].data = @ \o SubSeq(data, 1, fill)]
             u == queue \o Chop(c, RestSeq(c, fill), rest)
             l == SeqAdd(d.lbb, Len(data))
             s == d.sndBuf - Len(data)
  <2>1. TcpWrite(c, data) =
          IF d.rc # "ERR_OK" THEN d
          ELSE IF rest # <<>> /\ MssLocal(c) = 0
            THEN [d EXCEPT !.rc = "ERR_MEM", !.flags = @ \cup {"nagleMemErr"}]
            ELSE [d EXCEPT !.unsent = u, !.lbb = l, !.sndBuf = s]
    BY Zenon DEF TcpWrite
  <2> HIDE DEF d, rest, u, l, s
  <2> QED
    BY <2>1, Zenon
<1> HIDE DEF d
<1> QED
  BY <1>1, <1>2 DEF Same, Shaped

\* LwipTcpOut.RexmitRto
LEMMA RexmitRtoSame == ASSUME NEW c, Shaped(c) PROVE Same(c, RexmitRto(c))
<1> DEFINE n == CountRtx(c)
           u == c.unacked \o c.unsent
           d == [c EXCEPT !.unsent = u, !.unacked = <<>>, !.nrtx = n]
<1>1. RexmitRto(c) = c \/ RexmitRto(c) = TcpOutput(d)
  BY Zenon DEF RexmitRto
<1> HIDE DEF n, u
<1>2. Same(c, d)
  BY DEF Same, Shaped
<1> HIDE DEF d
<1> QED
  BY <1>1, <1>2, TcpOutputSame DEF Same

\* LwipTcpOut.Rexmit
LEMMA RexmitSame == ASSUME NEW c, Shaped(c) PROVE Same(c, Rexmit(c))
<1> DEFINE n == CountRtx(c)
           u == Insert(c.unsent, Head(c.unacked))
<1>1. Rexmit(c) = c \/ Rexmit(c) = [c EXCEPT !.unsent = u, !.unacked = Tail(@), !.nrtx = n]
  BY Zenon DEF Rexmit
<1> HIDE DEF n, u
<1> QED
  BY <1>1 DEF Same, Shaped

\* LwipTcpOut.RexmitFast
LEMMA RexmitFastSame == ASSUME NEW c, Shaped(c) PROVE Same(c, RexmitFast(c))
<1> DEFINE half == Lesser(c.cwnd, c.sndWnd) \div 2
           t == IF half < 2 * c.mss THEN 2 * c.mss ELSE half
           w == t + 3 * c.mss
           r == Rexmit(c)
<1>1. RexmitFast(c) = c
      \/ RexmitFast(c) = [r EXCEPT !.ssthresh = t, !.cwnd = w, !.flags = @ \cup {"inFr"}]
  BY Zenon DEF RexmitFast
<1>2. Same(c, r)
  BY RexmitSame
<1> HIDE DEF t, w, r
<1> QED
  BY <1>1, <1>2 DEF Same, Shaped

\* LwipTcpOut.ZeroWindowProbe
LEMMA ZeroWindowProbeSame == ASSUME NEW c, Shaped(c) PROVE Same(c, ZeroWindowProbe(c))
<1>1. ZeroWindowProbe(c) = c \/ \E s : ZeroWindowProbe(c) = SendHeader(c, s)
  BY Zenon DEF ZeroWindowProbe
<1> QED
  BY <1>1, SendHeaderSame DEF Same

-----------------------------------------------------------------------------
(* Opening, closing, windows and timers.                                   *)

\* LwipTcpOut.Assert2: only `failed' changes.
LEMMA AssertSame == ASSUME NEW c, NEW n, NEW h, Shaped(c) PROVE Same(c, Assert2(c, n, h))
  BY DEF Same, Shaped, Assert2

\* LwipTcp.Purge
LEMMA PurgeSame == ASSUME NEW c, Shaped(c) PROVE Same(c, Purge(c))
  BY DEF Same, Shaped, Purge

\* LwipTcp.UpdateRcvAnnWnd
LEMMA UpdateRcvAnnWndSame == ASSUME NEW c, Shaped(c) PROVE Same(c, UpdateRcvAnnWnd(c))
<1> DEFINE wnd == SeqSub(c.annEdge, c.rcvNxt)
           d == Assert2(c, "new_rcv_ann_wnd <= 0xffff", wnd <= U16)
<1>1. \/ UpdateRcvAnnWnd(c) = [c EXCEPT !.annWnd = c.rcvWnd]
      \/ UpdateRcvAnnWnd(c) = [c EXCEPT !.annWnd = 0]
      \/ UpdateRcvAnnWnd(c) = [d EXCEPT !.annWnd = wnd]
  BY Zenon DEF UpdateRcvAnnWnd
<1>2. Same(c, d)
  BY AssertSame
<1> HIDE DEF d, wnd
<1> QED
  BY <1>1, <1>2 DEF Same, Shaped

\* LwipTcp.Returned
LEMMA ReturnedSame == ASSUME NEW c, NEW len, Shaped(c) PROVE Same(c, Returned(c, len))
<1> DEFINE d == Assert2(c, "len would wrap rcv_wnd", len <= U16 - c.rcvWnd)
           wnd == Lesser((c.rcvWnd + len) % (U16 + 1), Wnd)
           unread == d.unread - len
           e == [d EXCEPT !.rcvWnd = wnd, !.unread = unread]
<1>1. Returned(c, len) = UpdateRcvAnnWnd(e)
  BY Zenon DEF Returned
<1>2. Same(c, d)
  BY AssertSame
<1> HIDE DEF d, wnd, unread
<1>3. Same(c, e)
  BY <1>2 DEF Same, Shaped
<1> HIDE DEF e
<1> QED
  BY <1>1, <1>3, UpdateRcvAnnWndSame DEF Same

\* LwipTcp.Recved
LEMMA RecvedSame == ASSUME NEW c, NEW len, Shaped(c) PROVE Same(c, Recved(c, len))
<1> DEFINE d == Returned(c, len)
<1>1. Same(c, d)
  BY ReturnedSame
<1>2. Recved(c, len) = d \/ Recved(c, len) = TcpOutput(AckNow(d))
  BY Zenon DEF Recved
<1> HIDE DEF d
<1>3. Same(d, AckNow(d))
  BY <1>1, AckNowSame DEF Same
<1>4. Same(AckNow(d), TcpOutput(AckNow(d)))
  BY <1>3, TcpOutputSame DEF Same
<1> QED
  BY <1>1, <1>2, <1>3, <1>4 DEF Same

\* LwipTcp.PcbRemove: the state is CLOSED, nothing else is different.
LEMMA PcbRemoved ==
  ASSUME NEW c, Shaped(c)
  PROVE  /\ Shaped(PcbRemove(c)) /\ PcbRemove(c).held = c.held /\ PcbRemove(c).err = c.err
         /\ PcbRemove(c).state = "CLOSED"
<1> DEFINE d == Purge(c)
           e == IF c.state # "TIME_WAIT" /\ "ackDelay" \in c.flags THEN TcpOutput(AckNow(d)) ELSE d
<1>1. Same(c, d)
  BY PurgeSame
<1>2. Same(c, TcpOutput(AckNow(d)))
  <2> HIDE DEF d
  <2>1. Same(c, AckNow(d))
    BY <1>1, AckNowSame DEF Same
  <2> QED
    BY <2>1, TcpOutputSame DEF Same
<1>3. Same(c, e)
  BY <1>1, <1>2
<1>4. PcbRemove(c) = [e EXCEPT !.state = "CLOSED"]
  BY Zenon DEF PcbRemove
<1> HIDE DEF e
<1> QED
  BY <1>3, <1>4 DEF Same, Shaped

\* d is a pcb given back, with what the application knew of c.
Freed(c, d) ==
  Shaped(d) /\ d.state = "FREE" /\ d.held = c.held /\ d.err = c.err /\ d.rc = "ERR_OK" /\ d.recvFlags = {}

\* LwipTcp.Free
LEMMA FreeFreed == ASSUME NEW c PROVE Freed(c, Free(c))
  BY DEF Freed, Shaped, Free, Alloc

\* d is a pcb given back, and the application has been told.
FreedTold(c, d) ==
  /\ Shaped(d) /\ d.state = "FREE" /\ d.rc = "ERR_OK" /\ d.recvFlags = {}
  /\ ~d.held /\ (c.held => d.err # "none")

\* LwipTcp.EventErr on a pcb given back.
LEMMA EventErrTold ==
  ASSUME NEW c, NEW d, Freed(c, d), NEW e, e # "none" PROVE FreedTold(c, EventErr(d, e))
  BY DEF Freed, FreedTold, Shaped, EventErr

\* LwipTcp.RemoveTimedOut tells the application.
LEMMA RemoveTimedOutTold ==
  ASSUME NEW c, NEW reset, Shaped(c) PROVE FreedTold(c, RemoveTimedOut(c, reset))
<1> DEFINE d == Purge(c)
           e == IF reset THEN Rst(d, c.sndNxt, c.rcvNxt) ELSE d
<1>1. Same(c, d)
  BY PurgeSame
<1>2. Same(c, e)
  <2> HIDE DEF d
  <2> QED
    BY <1>1, RstSame DEF Same
<1> HIDE DEF e
<1>3. Freed(c, Free(e))
  BY <1>2, FreeFreed DEF Same, Freed
<1>4. RemoveTimedOut(c, reset) = EventErr(Free(e), "ERR_ABRT")
  BY Zenon DEF RemoveTimedOut, e
<1> QED
  BY <1>3, <1>4, EventErrTold

\* LwipTcp.Abandon tells the application unless the pcb was in TIME_WAIT.
LEMMA AbandonTold ==
  ASSUME NEW c, NEW reset, Shaped(c)
  PROVE  IF c.state = "TIME_WAIT" THEN Freed(c, Abandon(c, reset)) ELSE FreedTold(c, Abandon(c, reset))
<1> DEFINE d == PcbRemove(c)
           e == IF reset THEN Rst(d, c.sndNxt, c.rcvNxt) ELSE d
<1>1. Shaped(d) /\ d.held = c.held /\ d.err = c.err
  BY PcbRemoved
<1>2. Shaped(e) /\ e.held = c.held /\ e.err = c.err
  <2> HIDE DEF d
  <2> QED
    BY <1>1, RstSame DEF Same
<1>3. Abandon(c, reset) = IF c.state = "TIME_WAIT" THEN Free(d) ELSE EventErr(Free(e), "ERR_ABRT")
  BY Zenon DEF Abandon
<1> HIDE DEF d, e
<1>4. Freed(c, Free(d)) /\ Freed(c, Free(e))
  BY <1>1, <1>2, FreeFreed DEF Freed
<1> QED
  BY <1>3, <1>4, EventErrTold

\* LwipTcp.RemoveTimeWait
LEMMA RemoveTimeWaitFreed == ASSUME NEW c, Shaped(c) PROVE Freed(c, RemoveTimeWait(c))
<1>1. Same(c, Purge(c))
  BY PurgeSame
<1> QED
  BY <1>1, FreeFreed DEF Same, Freed, RemoveTimeWait

\* LwipTcp.Connect
LEMMA ConnectOpens ==
  ASSUME NEW c, NEW iss, Shaped(c)
  PROVE  /\ Shaped(Connect(c, iss)) /\ Connect(c, iss).state = "SYN_SENT"
         /\ Connect(c, iss).err = c.err /\ Connect(c, iss).recvFlags = c.recvFlags
<1> DEFINE back == SeqAdd(iss, SeqSpace - 1)
           thresh == Lesser(c.mss * 10, U16)
           b == [c EXCEPT !.sndNxt = iss, !.lastack = back, !.lbb = back, !.sndWnd = Wnd, !.cwnd = 1,
                          !.ssthresh = thresh, !.held = TRUE]
           d == EnqueueFlags(b, TRUE, FALSE)
           e == [d EXCEPT !.state = "SYN_SENT"]
<1>1. Connect(c, iss) = TcpOutput(e)
  BY Zenon DEF Connect
<1> HIDE DEF back, thresh
<1>2. Shaped(b) /\ b.err = c.err /\ b.recvFlags = c.recvFlags
  BY DEF Shaped
<1> HIDE DEF b
<1>3. Same(b, d)
  BY <1>2, EnqueueFlagsSame
<1> HIDE DEF d
<1>4. Shaped(e) /\ e.err = c.err /\ e.recvFlags = c.recvFlags /\ e.state = "SYN_SENT"
  BY <1>2, <1>3 DEF Same, Shaped
<1> HIDE DEF e
<1> QED
  BY <1>1, <1>4, TcpOutputSame DEF Same

\* What closing comes to: c as it was when the call fails, and otherwise a state
\* that only an application that asked for the end is in.
Shut(c, d) ==
  \/ Same(c, d)
  \/ /\ Shaped(d) /\ d.rc = "ERR_OK" /\ d.err = c.err /\ d.held = c.held
     /\ d.state \in {"FIN_WAIT_1", "LAST_ACK", "TIME_WAIT", "FREE"}
     /\ d.recvFlags \in {{}, c.recvFlags}

\* LwipTcp.CloseWithReset
LEMMA CloseWithResetShut == ASSUME NEW c, Shaped(c) PROVE Shut(c, CloseWithReset(c))
<1> DEFINE a == Assert2(c, "TF_RXCLOSED", "rxClosed" \in c.flags)
           r == Rst(a, c.sndNxt, c.rcvNxt)
           d == Purge(r)
<1>1. Same(c, a)
  BY AssertSame
<1>2. Same(c, r)
  <2> HIDE DEF a
  <2> QED
    BY <1>1, RstSame DEF Same
<1>3. Same(c, d)
  <2> HIDE DEF r
  <2> QED
    BY <1>2, PurgeSame DEF Same
<1>4. CloseWithReset(c) = IF c.state = "ESTABLISHED"
        THEN [d EXCEPT !.state = "TIME_WAIT", !.rc = "ERR_OK"] ELSE Free(d)
  BY Zenon DEF CloseWithReset
<1> HIDE DEF d
<1>5. Shut(c, [d EXCEPT !.state = "TIME_WAIT", !.rc = "ERR_OK"])
  BY <1>3 DEF Shut, Same, Shaped
<1>6. Shut(c, Free(d))
  BY <1>3, FreeFreed DEF Shut, Same, Freed
<1> QED
  BY <1>4, <1>5, <1>6

\* LwipTcp.CloseShutdown
LEMMA CloseShutdownShut ==
  ASSUME NEW c, NEW rst, Shaped(c) PROVE Shut(c, CloseShutdown(c, rst))
<1> DEFINE fin == SendFin(c)
           go == TcpOutput([fin EXCEPT !.state = AfterFin[c.state]])
<1>1. \/ CloseShutdown(c, rst) = CloseWithReset(c)
      \/ CloseShutdown(c, rst) = Free(PcbRemove(c))
      \/ c.state \in DOMAIN AfterFin /\ fin.rc = "ERR_OK" /\ CloseShutdown(c, rst) = go
      \/ CloseShutdown(c, rst) = fin
      \/ CloseShutdown(c, rst) = [c EXCEPT !.rc = "ERR_OK"]
  <2> DEFINE reset == /\ rst /\ c.state \in {"ESTABLISHED", "CLOSE_WAIT"}
                      /\ c.refused # <<>> \/ c.rcvWnd # Wnd
             ends == c.state \in DOMAIN AfterFin
             ok == [c EXCEPT !.rc = "ERR_OK"]
             after == IF fin.rc = "ERR_OK" THEN go ELSE fin
  <2>1. CloseShutdown(c, rst) =
          CASE reset -> CloseWithReset(c)
            [] c.state = "SYN_SENT" -> Free(PcbRemove(c))
            [] ends /\ ~reset -> after
            [] OTHER -> ok
    BY Zenon DEF CloseShutdown
  <2> HIDE DEF reset, ends, ok
  <2>2. \/ CloseShutdown(c, rst) = CloseWithReset(c)
        \/ CloseShutdown(c, rst) = Free(PcbRemove(c))
        \/ ends /\ CloseShutdown(c, rst) = after
        \/ CloseShutdown(c, rst) = ok
    <3> HIDE DEF after
    <3> QED
      BY <2>1, Zenon
  <2> QED
    BY <2>2, Zenon DEF ends, ok
<1>2. Same(c, fin)
  BY SendFinSame
<1>3. Shut(c, Free(PcbRemove(c)))
  BY PcbRemoved, FreeFreed DEF Freed, Shut
<1>4. ASSUME c.state \in DOMAIN AfterFin, fin.rc = "ERR_OK" PROVE Shut(c, go)
  <2> DEFINE s == AfterFin[c.state]
             e == [fin EXCEPT !.state = s]
  <2>1. s \in {"FIN_WAIT_1", "LAST_ACK"}
    BY <1>4 DEF AfterFin
  <2> HIDE DEF s, fin
  <2>2. Shaped(e) /\ e.state = s /\ e.rc = "ERR_OK" /\ e.err = c.err /\ e.held = c.held /\ e.recvFlags = c.recvFlags
    BY <1>2, <1>4 DEF Same, Shaped
  <2>3. go = TcpOutput(e)
    BY DEF s
  <2> HIDE DEF e, go
  <2> QED
    BY <2>1, <2>2, <2>3, TcpOutputSame DEF Same, Shut
<1>5. Same(c, [c EXCEPT !.rc = "ERR_OK"])
  BY DEF Same, Shaped
<1> HIDE DEF fin, go
<1> QED
  BY <1>1, <1>2, <1>3, <1>4, <1>5, CloseWithResetShut DEF Shut

\* LwipTcp.ProcessRefused and tcp_process' data: what the recv callback leaves,
\* as far as its pcb lives on, is the same pcb.
LEMMA EventClosedSame == ASSUME NEW c, Shaped(c) PROVE Same(c, EventClosed(c))
<1> DEFINE w == IF c.rcvWnd # Wnd THEN (c.rcvWnd + 1) % (U16 + 1) ELSE c.rcvWnd
           e == c.eof \/ c.held
<1>1. EventClosed(c) = [c EXCEPT !.rcvWnd = w, !.eof = e]
  BY Zenon DEF EventClosed
<1> HIDE DEF w, e
<1> QED
  BY <1>1 DEF Same, Shaped

\* LwipTcp.EventRecv
LEMMA EventRecvSame ==
  ASSUME NEW c, NEW data, NEW answer, Shaped(c)
  PROVE  Same(c, EventRecv(c, data, answer)) \/ EventRecv(c, data, answer) = Abandon(c, TRUE)
<1> DEFINE g == c.got \o data
           u == c.unread + Len(data)
           d == [c EXCEPT !.got = g, !.unread = u]
<1>1. \/ EventRecv(c, data, answer) = Recved(d, Len(data))
      \/ EventRecv(c, data, answer) = d
      \/ EventRecv(c, data, answer) = [c EXCEPT !.refused = data]
      \/ EventRecv(c, data, answer) = Abandon(c, TRUE)
  BY Zenon DEF EventRecv
<1> HIDE DEF g, u
<1>2. Same(c, d) /\ Same(c, [c EXCEPT !.refused = data])
  BY DEF Same, Shaped
<1> HIDE DEF d
<1>3. Same(c, Recved(d, Len(data)))
  BY <1>2, RecvedSame DEF Same
<1> QED
  BY <1>1, <1>2, <1>3

-----------------------------------------------------------------------------
(* Input.                                                                  *)

\* LwipTcpIn.UpdateSndWnd
LEMMA UpdateSndWndSame == ASSUME NEW c, NEW s, Shaped(c) PROVE Same(c, UpdateSndWnd(c, s))
<1> DEFINE w == IF c.wndMax < s.wnd THEN s.wnd ELSE c.wndMax
           p == s.wnd = 0
<1>1. \/ UpdateSndWnd(c, s) = c
      \/ UpdateSndWnd(c, s) = [c EXCEPT !.sndWnd = s.wnd, !.wndMax = w, !.wl1 = s.seq, !.wl2 = s.ackno,
                                        !.persist = p]
  BY Zenon DEF UpdateSndWnd
<1> HIDE DEF w, p
<1> QED
  BY <1>1 DEF Same, Shaped

\* LwipTcpIn.DuplicateAck
LEMMA DuplicateAckSame == ASSUME NEW c, NEW s, NEW edge, Shaped(c) PROVE Same(c, DuplicateAck(c, s, edge))
<1> DEFINE n == Lesser(c.dupacks + 1, DupAckLimit + 1)
           d == [c EXCEPT !.acked = 0, !.dupacks = n]
           w == Grow(d.cwnd, c.mss)
<1>1. \/ DuplicateAck(c, s, edge) = [c EXCEPT !.acked = 0, !.dupacks = 0]
      \/ DuplicateAck(c, s, edge) = [d EXCEPT !.cwnd = w]
      \/ DuplicateAck(c, s, edge) = RexmitFast(d)
      \/ DuplicateAck(c, s, edge) = d
  BY Zenon DEF DuplicateAck
<1> HIDE DEF n
<1>2. Same(c, d) /\ Same(c, [c EXCEPT !.acked = 0, !.dupacks = 0])
  BY DEF Same, Shaped
<1> HIDE DEF d, w
<1>3. Same(c, [d EXCEPT !.cwnd = w])
  BY <1>2 DEF Same, Shaped
<1>4. Same(c, RexmitFast(d))
  BY <1>2, RexmitFastSame DEF Same
<1> QED
  BY <1>1, <1>2, <1>3, <1>4

\* LwipTcpIn.NewAck
LEMMA NewAckSame == ASSUME NEW c, NEW s, Shaped(c) PROVE Same(c, NewAck(c, s))
<1> DEFINE cwnd == IF "inFr" \in c.flags THEN c.ssthresh ELSE c.cwnd
           n == SeqSub(s.ackno, c.lastack)
           b == (c.sndBuf + SeqSub(s.ackno, c.lastack)) % (U16 + 1)
           w == IF cwnd < c.ssthresh THEN Grow(cwnd, c.mss) ELSE Grow(cwnd, (c.mss * c.mss) \div cwnd)
           d == [c EXCEPT !.flags = @ \ {"inFr"}, !.nrtx = 0, !.dupacks = 0, !.acked = n,
                          !.lastack = s.ackno, !.sndBuf = b, !.cwnd = w]
           f == FreeAcked(d, c.unacked, LAMBDA seg : SeqLEQ(SegEnd(seg), s.ackno))
           r == f.left # <<>>
<1>1. NewAck(c, s) = [d EXCEPT !.unacked = f.left, !.acked = f.acked, !.rtime = r]
  BY Zenon DEF NewAck
<1> HIDE DEF n, b, w, f, r
<1>2. Same(c, d)
  BY DEF Same, Shaped
<1> HIDE DEF d
<1> QED
  BY <1>1, <1>2 DEF Same, Shaped

\* LwipTcpIn.AckUnsent
LEMMA AckUnsentSame == ASSUME NEW c, NEW s, Shaped(c) PROVE Same(c, AckUnsent(c, s))
<1>1. \E u, a : AckUnsent(c, s) = [c EXCEPT !.unsent = u, !.acked = a]
  BY Zenon DEF AckUnsent
<1> QED
  BY <1>1 DEF Same, Shaped

\* LwipTcpIn.ReceiveAck
LEMMA ReceiveAckSame == ASSUME NEW c, NEW s, Shaped(c) PROVE Same(c, ReceiveAck(c, s))
<1> DEFINE d == UpdateSndWnd(c, s)
           dup == DuplicateAck(d, s, SeqAdd(c.wl2, c.sndWnd))
           e == IF SeqLEQ(s.ackno, c.lastack) THEN dup
                ELSE IF SeqBetween(s.ackno, SeqAdd(c.lastack, 1), c.sndNxt) THEN NewAck(d, s)
                ELSE [d EXCEPT !.acked = 0]
<1>1. Same(c, d)
  BY UpdateSndWndSame
<1>2. ReceiveAck(c, s) = AckUnsent(e, s)
  BY Zenon DEF ReceiveAck
<1>3. e = dup \/ e = NewAck(d, s) \/ e = [d EXCEPT !.acked = 0]
  BY Zenon
<1> HIDE DEF d, e
<1>4. Same(d, dup) /\ Same(d, NewAck(d, s)) /\ Same(d, [d EXCEPT !.acked = 0])
  <2>1. Shaped(d)
    BY <1>1 DEF Same
  <2>2. Same(d, [d EXCEPT !.acked = 0])
    BY <2>1 DEF Same, Shaped
  <2> QED
    BY <2>1, <2>2, DuplicateAckSame, NewAckSame
<1> HIDE DEF dup
<1>5. Same(c, e)
  BY <1>1, <1>3, <1>4 DEF Same
<1> QED
  BY <1>2, <1>5, AckUnsentSame DEF Same

\* LwipTcpIn.QueueOutOfOrder
LEMMA QueueOutOfOrderSame ==
  ASSUME NEW c, NEW o, NEW n, Shaped(c) PROVE Same(c, QueueOutOfOrder(c, o, n))
<1> DEFINE q == c.ooseq
           k == Cardinality({i \in DOMAIN q : SeqLT(q[i].seq, o.seq)})
           before == IF k = 0 THEN <<>> ELSE [SubSeq(q, 1, k) EXCEPT ![k] = Cut(@, SeqSub(o.seq, q[k].seq))]
           after == SubSeq(q, k + 1, Len(q))
           q1 == <<o>>
           q2 == SubSeq(q, 1, k) \o OosInsertSegment(o, after)
           q3 == before \o OosInsertSegment(o, after)
           q4 == Append(before, CutAtWindow(c, o, n))
           first == Head(after).seq = o.seq
           more == o.len > Head(after).len
           d2 == IF more THEN [c EXCEPT !.ooseq = q2] ELSE c
           d4 == IF Last(q).fin THEN c ELSE [c EXCEPT !.ooseq = q4]
<1>1. QueueOutOfOrder(c, o, n) =
        CASE q = <<>> -> [c EXCEPT !.ooseq = q1]
          [] after # <<>> /\ first -> d2
          [] after # <<>> /\ ~first -> [c EXCEPT !.ooseq = q3]
          [] OTHER -> d4
  BY Zenon DEF QueueOutOfOrder
<1> HIDE DEF q, after, first, more, q1, q2, q3, q4
<1>2. \/ QueueOutOfOrder(c, o, n) = [c EXCEPT !.ooseq = q1]
      \/ QueueOutOfOrder(c, o, n) = d2
      \/ QueueOutOfOrder(c, o, n) = [c EXCEPT !.ooseq = q3]
      \/ QueueOutOfOrder(c, o, n) = d4
  <2> HIDE DEF d2, d4
  <2> QED
    BY <1>1, Zenon
<1> QED
  BY <1>2 DEF Same, Shaped

\* What data in sequence do to a pcb: the peer's FIN may be among them.
Got(c, d) ==
  /\ Shaped(d) /\ d.held = c.held /\ d.err = c.err /\ d.state \in {c.state, "CLOSE_WAIT"}
  /\ d.recvFlags \subseteq c.recvFlags \cup {"gotFin"}

\* LwipTcpIn.Accept
LEMMA AcceptGot == ASSUME NEW c, NEW o, Shaped(c) PROVE Got(c, Accept(c, o))
<1> DEFINE n == SeqAdd(c.rcvNxt, OosLen(o))
           w == (c.rcvWnd - OosLen(o)) % (U16 + 1)
           r == c.recvData \o o.data
           f == IF o.fin THEN c.recvFlags \cup {"gotFin"} ELSE c.recvFlags
           d == [c EXCEPT !.rcvNxt = n, !.rcvWnd = w, !.recvData = r, !.recvFlags = f]
<1>1. Accept(c, o) = UpdateRcvAnnWnd(d)
  BY Zenon DEF Accept
<1>2. f \subseteq c.recvFlags \cup {"gotFin"}
  OBVIOUS
<1> HIDE DEF n, w, r, f
<1>3. Got(c, d)
  BY <1>2 DEF Got, Shaped
<1> HIDE DEF d
<1> QED
  BY <1>1, <1>3, UpdateRcvAnnWndSame DEF Same, Got

\* LwipTcpIn.TakeAll
LEMMA TakeAllGot == ASSUME NEW c, NEW queue, Shaped(c) PROVE Got(c, TakeAll(c, queue))
<1> DEFINE r == FoldLeft(TakeQueued, [c EXCEPT !.ooseq = <<>>], queue)
           f == IF "gotFin" \in r.recvFlags THEN c.recvFlags \cup {"gotFin"} ELSE c.recvFlags
           s == IF r.state = "CLOSE_WAIT" THEN "CLOSE_WAIT" ELSE c.state
<1>1. TakeAll(c, queue) =
        [c EXCEPT !.ooseq = r.ooseq, !.rcvNxt = r.rcvNxt, !.rcvWnd = r.rcvWnd, !.annWnd = r.annWnd,
                  !.recvData = r.recvData, !.failed = r.failed, !.recvFlags = f, !.state = s]
  BY Zenon DEF TakeAll
<1>2. f \subseteq c.recvFlags \cup {"gotFin"} /\ s \in {c.state, "CLOSE_WAIT"}
  OBVIOUS
<1> HIDE DEF r, f, s
<1> QED
  BY <1>1, <1>2 DEF Got, Shaped

\* LwipTcpIn.InSequence
LEMMA InSequenceGot == ASSUME NEW c, NEW o, Shaped(c) PROVE Got(c, InSequence(c, o))
<1>1. \E n, h, cut, queue : InSequence(c, o) = Ack(TakeAll(Accept(Assert2(c, n, h), cut), queue))
  BY Zenon DEF InSequence
<1>2. PICK n, h, cut, queue : InSequence(c, o) = Ack(TakeAll(Accept(Assert2(c, n, h), cut), queue))
  BY <1>1
<1> DEFINE a == Assert2(c, n, h)
           d == Accept(a, cut)
           e == TakeAll(d, queue)
<1>3. Same(c, a)
  BY AssertSame
<1> HIDE DEF a
<1>4. Got(a, d)
  BY <1>3, AcceptGot DEF Same
<1> HIDE DEF d
<1>5. Got(d, e)
  BY <1>4, TakeAllGot DEF Got
<1>6. InSequence(c, o) = Ack(e)
  BY <1>2 DEF a, d
<1> HIDE DEF e
<1>7. Same(e, Ack(e))
  BY <1>5, AckSame DEF Got
<1>8. Got(c, e)
  BY <1>3, <1>4, <1>5 DEF Same, Got
<1> QED
  BY <1>6, <1>7, <1>8 DEF Same, Got

\* LwipTcpIn.ReceiveData
LEMMA ReceiveDataGot == ASSUME NEW c, NEW s, Shaped(c) PROVE Got(c, ReceiveData(c, s))
<1> DEFINE old == SeqBetween(c.rcvNxt, SeqAdd(s.seq, 1), SeqAdd(s.seq, TcpLen(s) + SeqSpace - 1))
           d == IF ~old /\ SeqLT(s.seq, c.rcvNxt) THEN AckNow(c) ELSE c
           e == SendEmptyAck(d)
<1>1. Same(c, d)
  <2> HIDE DEF old
  <2> QED
    BY AckNowSame DEF Same
<1>2. \E o : \/ ReceiveData(c, s) = InSequence(d, o)
             \/ ReceiveData(c, s) = QueueOutOfOrder(e, o, TcpLen(s))
             \/ ReceiveData(c, s) = e
  BY Zenon DEF ReceiveData
<1> HIDE DEF d
<1>3. Same(d, e)
  BY <1>1, SendEmptyAckSame DEF Same
<1> HIDE DEF e
<1>4. PICK o : \/ ReceiveData(c, s) = InSequence(d, o)
               \/ ReceiveData(c, s) = QueueOutOfOrder(e, o, TcpLen(s))
               \/ ReceiveData(c, s) = e
  BY <1>2
<1>5. Got(d, InSequence(d, o))
  BY <1>1, InSequenceGot DEF Same
<1>6. Same(e, QueueOutOfOrder(e, o, TcpLen(s)))
  BY <1>3, QueueOutOfOrderSame DEF Same
<1> QED
  BY <1>1, <1>3, <1>4, <1>5, <1>6 DEF Same, Got

\* LwipTcpIn.Receive
LEMMA ReceiveGot == ASSUME NEW c, NEW s, Shaped(c) PROVE Got(c, Receive(c, s))
<1> DEFINE d == IF s.ack THEN ReceiveAck(c, s) ELSE c
<1>1. Same(c, d)
  BY ReceiveAckSame DEF Same
<1>2. Receive(c, s) = ReceiveData(d, s) \/ Receive(c, s) = d \/ Receive(c, s) = AckNow(d)
  BY Zenon DEF Receive
<1> HIDE DEF d
<1>3. Got(d, ReceiveData(d, s)) /\ Same(d, AckNow(d))
  BY <1>1, ReceiveDataGot, AckNowSame DEF Same
<1> QED
  BY <1>1, <1>2, <1>3 DEF Same, Got

-----------------------------------------------------------------------------
(* The life of a pcb.                                                      *)

\* Only an application that asked for the end holds a pcb in these states.
Ended == {"FIN_WAIT_1", "FIN_WAIT_2", "CLOSING", "LAST_ACK", "TIME_WAIT", "FREE"}

\* Who holds a pcb was not told of its end, and nobody holds one not yet open.
Life(c, dn) ==
  /\ c.held => /\ c.state \notin {"CLOSED", "LISTEN", "SYN_RCVD"} /\ c.err = "none"
               /\ (c.state \in Ended => dn # {})
  /\ c.state = "SYN_RCVD" => c.err = "none"

\* A step from c to d after which d's application still holds the pcb, or has
\* been told, or had asked for an ending.
Sound(c, d, dn) ==
  Shaped(d) /\ Life(d, dn) /\ (c.held => d.held \/ d.err # "none" \/ dn # {})

\* The same pcb lives on.
LEMMA SameSound == ASSUME NEW c, NEW d, NEW dn, Life(c, dn), Same(c, d) PROVE Sound(c, d, dn)
  BY DEF Same, Sound, Life, Shaped

\* So it does with the data it got.
LEMMA GotSound == ASSUME NEW c, NEW d, NEW dn, Life(c, dn), Got(c, d) PROVE Sound(c, d, dn)
  BY DEF Got, Sound, Life, Shaped, Ended

\* A pcb is given back and the application told.
LEMMA ToldSound == ASSUME NEW c, NEW d, NEW dn, FreedTold(c, d) PROVE Sound(c, d, dn)
  BY DEF FreedTold, Sound, Life, Shaped, Ended

\* A pcb is given back that its application has ended.
LEMMA FreedSound ==
  ASSUME NEW c, NEW d, NEW dn, Life(c, dn), c.held => dn # {}, Freed(c, d) PROVE Sound(c, d, dn)
  BY DEF Freed, Sound, Life, Shaped, Ended

\* LwipTcp.Abandon
LEMMA AbandonSound ==
  ASSUME NEW c, NEW dn, NEW reset, Shaped(c), Life(c, dn)
  PROVE  Sound(c, Abandon(c, reset), dn) /\ Abandon(c, reset).state = "FREE" /\ Abandon(c, reset).recvFlags = {}
<1> DEFINE d == Abandon(c, reset)
<1>1. IF c.state = "TIME_WAIT" THEN Freed(c, d) ELSE FreedTold(c, d)
  BY AbandonTold
<1> SUFFICES Sound(c, d, dn) /\ d.state = "FREE" /\ d.recvFlags = {}
  OBVIOUS
<1> HIDE DEF d
<1>2. CASE c.state = "TIME_WAIT"
  <2>1. c.held => dn # {}
    BY <1>2 DEF Life, Ended
  <2> QED
    BY <1>1, <1>2, <2>1, FreedSound DEF Freed
<1>3. CASE c.state # "TIME_WAIT"
  BY <1>1, <1>3, ToldSound DEF FreedTold
<1> QED
  BY <1>2, <1>3

\* LwipTcp.ProcessRefused
LEMMA ProcessRefusedSound ==
  ASSUME NEW c, NEW dn, NEW answer, Shaped(c), Life(c, dn), c.recvFlags = {}
  PROVE  /\ Sound(c, ProcessRefused(c, answer), dn) /\ ProcessRefused(c, answer).recvFlags = {}
         /\ Same(c, ProcessRefused(c, answer)) \/ ProcessRefused(c, answer).state = "FREE"
<1> DEFINE b == [c EXCEPT !.refused = <<>>]
           d == EventRecv(b, c.refused, answer)
           e == [d EXCEPT !.refusedFin = FALSE]
<1>1. Same(c, b)
  BY DEF Same, Shaped
<1>2. \/ ProcessRefused(c, answer) = d
      \/ answer \in {"taken", "kept"} /\ ProcessRefused(c, answer) = EventClosed(e)
  BY Zenon DEF ProcessRefused
<1>3. answer \in {"taken", "kept"} => Same(b, d)
  <2> DEFINE g == b.got \o c.refused
             u == b.unread + Len(c.refused)
             f == [b EXCEPT !.got = g, !.unread = u]
  <2>1. answer = "taken" => d = Recved(f, Len(c.refused))
    BY Zenon DEF EventRecv
  <2>2. answer = "kept" => d = f
    <3>1. "kept" # "taken"
      OBVIOUS
    <3> QED
      BY <3>1, Zenon DEF EventRecv
  <2> HIDE DEF b, d, g, u
  <2>3. Same(b, f)
    BY <1>1 DEF Same, Shaped
  <2> HIDE DEF f
  <2>4. Same(b, Recved(f, Len(c.refused)))
    BY <2>3, RecvedSame DEF Same
  <2> QED
    BY <2>1, <2>2, <2>3, <2>4
<1>4. Same(b, d) \/ d = Abandon(b, TRUE)
  BY <1>1, EventRecvSame DEF Same
<1> HIDE DEF b, d
<1>5. Same(c, d) \/ d = Abandon(b, TRUE)
  BY <1>1, <1>4 DEF Same
<1>6. Life(b, dn)
  BY <1>1 DEF Same, Life
<1>7. CASE Same(c, d)
  <2>1. Same(c, e)
    BY <1>7 DEF Same, Shaped
  <2> HIDE DEF e
  <2>2. Same(c, EventClosed(e))
    BY <2>1, EventClosedSame DEF Same
  <2>3. Same(c, ProcessRefused(c, answer))
    BY <1>2, <1>7, <2>2
  <2> QED
    BY <2>3, SameSound DEF Same
<1>8. CASE ~Same(c, d)
  <2>1. ProcessRefused(c, answer) = d /\ d = Abandon(b, TRUE)
    BY <1>1, <1>2, <1>3, <1>5, <1>8 DEF Same
  <2>2. Sound(b, d, dn) /\ d.state = "FREE" /\ d.recvFlags = {}
    BY <1>1, <1>6, <2>1, AbandonSound DEF Same
  <2>3. Sound(c, d, dn)
    BY <1>1, <2>2 DEF Sound, Same
  <2> QED
    BY <2>1, <2>2, <2>3
<1> QED
  BY <1>7, <1>8

-----------------------------------------------------------------------------
(* tcp_process.                                                            *)

\* A pcb on its way through tcp_input: a last ack closes it, nothing else.
Going(c, d, dn) ==
  Shaped(d) /\ Life(d, dn) /\ (c.held => d.held) /\ ("closed" \in d.recvFlags => d.state = "LAST_ACK")

\* Functions that leave the pcb as it is.
LEMMA SameGoing ==
  ASSUME NEW c, NEW d, NEW dn, Life(c, dn), c.recvFlags = {}, Same(c, d) PROVE Going(c, d, dn)
  BY SameSound DEF Going, Same, Sound

\* The pcb moves on to a state that its application may see, or has asked for.
Moved(c, d, dn) ==
  /\ Shaped(d) /\ d.err = c.err /\ d.state # "SYN_RCVD" /\ d.state \notin {"CLOSED", "LISTEN"}
  /\ c.held => d.held
  /\ d.held /\ ~c.held => c.err = "none"
  /\ d.held /\ d.state \in Ended => dn # {}
  /\ "closed" \in d.recvFlags => d.state = "LAST_ACK"

\* Such a move keeps the promise.
LEMMA MovedGoing == ASSUME NEW c, NEW d, NEW dn, Life(c, dn), Moved(c, d, dn) PROVE Going(c, d, dn)
  BY DEF Moved, Going, Life

\* LwipTcpIn.ProcessRst
LEMMA ProcessRstGoing ==
  ASSUME NEW c, NEW s, NEW dn, Shaped(c), Life(c, dn), c.recvFlags = {} PROVE Going(c, ProcessRst(c, s), dn)
<1> DEFINE d == [c EXCEPT !.recvFlags = {"reset"}, !.flags = @ \ {"ackDelay"}]
<1>1. ProcessRst(c, s) = d \/ ProcessRst(c, s) = c
  BY Zenon DEF ProcessRst
<1>2. Going(c, d, dn)
  BY DEF Going, Life, Shaped
<1>3. Going(c, c, dn)
  BY DEF Going
<1> QED
  BY <1>1, <1>2, <1>3

\* LwipTcpIn.ProcessSynSent
LEMMA ProcessSynSentGoing ==
  ASSUME NEW c, NEW s, NEW dn, Shaped(c), Life(c, dn), c.recvFlags = {}, c.state = "SYN_SENT"
  PROVE  Going(c, ProcessSynSent(c, s), dn)
<1> DEFINE n1 == c.sndBuf + 1
           n2 == SeqAdd(s.seq, 1)
           n3 == SeqAdd(s.seq, SeqSpace - 1)
           n4 == c.mss * 10
           n5 == IF c.cwnd = 1 THEN c.mss * 2 ELSE c.mss
           n6 == Tail(c.unacked) # <<>>
           n7 == IF Tail(c.unacked) = <<>> THEN c.nrtx ELSE 0
           answers == s.syn /\ s.ackno = SeqAdd(Head(c.unacked).seq, 1)
           d == [c EXCEPT !.sndBuf = n1, !.rcvNxt = n2, !.annEdge = n2, !.lastack = s.ackno,
                          !.sndWnd = s.wnd, !.wndMax = s.wnd, !.wl1 = n3, !.state = "ESTABLISHED",
                          !.ssthresh = n4, !.cwnd = n5, !.unacked = Tail(@), !.rtime = n6, !.nrtx = n7]
<1>1. ProcessSynSent(c, s) =
        CASE s.ack /\ s.syn /\ s.ackno = SeqAdd(Head(c.unacked).seq, 1) -> AckNow(d)
          [] s.ack /\ ~answers -> Refuse(c, s)
          [] OTHER -> c
  BY Zenon DEF ProcessSynSent
<1> HIDE DEF n1, n2, n3, n4, n5, n6, n7
<1>2. ProcessSynSent(c, s) = AckNow(d) \/ ProcessSynSent(c, s) = Refuse(c, s) \/ ProcessSynSent(c, s) = c
  <2> HIDE DEF d, answers
  <2> QED
    BY <1>1, Zenon
<1>3. Shaped(d) /\ d.state = "ESTABLISHED" /\ d.held = c.held /\ d.err = c.err /\ d.recvFlags = {}
  BY DEF Shaped
<1> HIDE DEF d
<1>4. Moved(c, AckNow(d), dn)
  BY <1>3, AckNowSame DEF Same, Moved, Ended
<1>5. Same(c, Refuse(c, s)) /\ Same(c, c)
  BY RstSame DEF Refuse, Same
<1> QED
  BY <1>2, <1>4, <1>5, MovedGoing, SameGoing

\* LwipTcpIn.CloseWaitOnFin
LEMMA CloseWaitOnFinIs ==
  ASSUME NEW c, Shaped(c)
  PROVE  /\ Shaped(CloseWaitOnFin(c)) /\ CloseWaitOnFin(c).held = c.held /\ CloseWaitOnFin(c).err = c.err
         /\ CloseWaitOnFin(c).recvFlags = c.recvFlags /\ CloseWaitOnFin(c).state \in {c.state, "CLOSE_WAIT"}
<1> DEFINE d == AckNow(c)
<1>1. Same(c, d)
  BY AckNowSame
<1>2. CloseWaitOnFin(c) = [d EXCEPT !.state = "CLOSE_WAIT"] \/ CloseWaitOnFin(c) = c
  BY Zenon DEF CloseWaitOnFin
<1> HIDE DEF d
<1> QED
  BY <1>1, <1>2 DEF Same, Shaped

\* LwipTcpIn.ProcessSynRcvd
LEMMA ProcessSynRcvdGoing ==
  ASSUME NEW c, NEW s, NEW accepts, NEW dn, Shaped(c), Life(c, dn), c.recvFlags = {}, c.state = "SYN_RCVD"
  PROVE  Going(c, ProcessSynRcvd(c, s, accepts), dn)
<1> DEFINE b == [c EXCEPT !.state = "ESTABLISHED", !.held = TRUE]
           d == Receive(b, s)
           n1 == IF d.acked # 0 THEN d.acked - 1 ELSE 0
           n2 == IF c.cwnd = 1 THEN d.mss * 2 ELSE d.mss
           e == [d EXCEPT !.acked = n1, !.cwnd = n2]
           again == s.seq = SeqAdd(c.rcvNxt, SeqSpace - 1)
           opened == Opened(d, c.cwnd = 1)
           accepted == IF ~accepts THEN Abandon(c, TRUE) ELSE opened
<1>1. ProcessSynRcvd(c, s, accepts) =
        CASE AcksOurSyn(c, s) -> accepted
          [] s.ack /\ ~AcksOurSyn(c, s) -> Refuse(c, s)
          [] ~s.ack /\ s.syn /\ again -> Rexmit(c)
          [] OTHER -> c
  BY Zenon DEF ProcessSynRcvd
<1>2. \/ ProcessSynRcvd(c, s, accepts) = Abandon(c, TRUE)
      \/ ProcessSynRcvd(c, s, accepts) = opened
      \/ ProcessSynRcvd(c, s, accepts) = Refuse(c, s)
      \/ ProcessSynRcvd(c, s, accepts) = Rexmit(c)
      \/ ProcessSynRcvd(c, s, accepts) = c
  <2>1. accepted = Abandon(c, TRUE) \/ accepted = opened
    BY Zenon
  <2> HIDE DEF opened, accepted, again
  <2> QED
    BY <1>1, <2>1, Zenon
<1>3. Shaped(b) /\ b.held = TRUE /\ b.err = c.err /\ b.state = "ESTABLISHED" /\ b.recvFlags = {}
  BY DEF Shaped
<1> HIDE DEF b
<1>4. Got(b, d)
  BY <1>3, ReceiveGot
<1>5. opened = CloseWaitOnFin(e)
  BY Zenon DEF Opened
<1> HIDE DEF d, n1, n2
<1>6. Got(b, e)
  BY <1>4 DEF Got, Shaped
<1> HIDE DEF e, opened
<1>7. Got(b, opened)
  BY <1>5, <1>6, CloseWaitOnFinIs DEF Got
<1>8. Moved(c, opened, dn)
  BY <1>3, <1>7 DEF Got, Moved, Life, Ended
<1>9. Same(c, Refuse(c, s)) /\ Same(c, c) /\ Same(c, Rexmit(c))
  BY RstSame, RexmitSame DEF Refuse, Same
<1>10. Going(c, Abandon(c, TRUE), dn)
  <2> DEFINE a == Abandon(c, TRUE)
  <2>1. Sound(c, a, dn) /\ a.recvFlags = {}
    BY AbandonSound
  <2> HIDE DEF a
  <2>2. ~c.held
    BY DEF Life
  <2>3. Going(c, a, dn)
    BY <2>1, <2>2 DEF Going, Sound
  <2> QED
    BY <2>3 DEF a
<1> QED
  BY <1>2, <1>8, <1>9, <1>10, MovedGoing, SameGoing

\* LwipTcpIn.TimeWait
LEMMA TimeWaitIs ==
  ASSUME NEW c, Shaped(c)
  PROVE  /\ Shaped(TimeWait(c)) /\ TimeWait(c).held = c.held /\ TimeWait(c).err = c.err
         /\ TimeWait(c).recvFlags = c.recvFlags /\ TimeWait(c).state = "TIME_WAIT"
<1> DEFINE d == Purge(c)
<1>1. Same(c, d)
  BY PurgeSame
<1>2. TimeWait(c) = [d EXCEPT !.state = "TIME_WAIT"]
  BY Zenon DEF TimeWait
<1> HIDE DEF d
<1> QED
  BY <1>1, <1>2 DEF Same, Shaped

\* LwipTcpIn.Closing: only a pcb that is in one of these states moves on to another.
LEMMA ClosingMoves ==
  ASSUME NEW d, NEW s, Shaped(d), "closed" \notin d.recvFlags
  PROVE  /\ Shaped(Closing(d, s)) /\ Closing(d, s).held = d.held /\ Closing(d, s).err = d.err
         /\ \/ Closing(d, s).state = d.state
            \/ d.state \in Ended /\ Closing(d, s).state \in Ended
         /\ "closed" \in Closing(d, s).recvFlags => Closing(d, s).state = "LAST_ACK"
<1> DEFINE a == AckNow(d)
           closing == [a EXCEPT !.state = "CLOSING"]
           finWait2 == [d EXCEPT !.state = "FIN_WAIT_2"]
           closed == [d EXCEPT !.recvFlags = @ \cup {"closed"}]
           r == Closing(d, s)
           first == IF AllAcked(d, s) THEN TimeWait(a) ELSE closing
<1>1. r = CASE d.state = "FIN_WAIT_1" /\ GotFin(d) -> first
            [] d.state = "FIN_WAIT_1" /\ ~GotFin(d) /\ AllAcked(d, s) -> finWait2
            [] d.state = "FIN_WAIT_2" /\ GotFin(d) -> TimeWait(a)
            [] d.state = "CLOSING" /\ AllAcked(d, s) -> TimeWait(d)
            [] d.state = "LAST_ACK" /\ AllAcked(d, s) -> closed
            [] OTHER -> d
  BY Zenon DEF Closing
<1>2. \/ d.state \in Ended /\ r \in {TimeWait(a), closing, finWait2, TimeWait(d)}
      \/ d.state = "LAST_ACK" /\ r = closed
      \/ r = d
  <2>1. first = TimeWait(a) \/ first = closing
    BY Zenon
  <2>2. {"FIN_WAIT_1", "FIN_WAIT_2", "CLOSING"} \subseteq Ended
    BY DEF Ended
  <2> HIDE DEF r, a, closing, finWait2, closed, first
  <2> QED
    BY <1>1, <2>1, <2>2, Zenon
<1>3. Same(d, a)
  BY AckNowSame
<1> HIDE DEF r
<1>4. \A e \in {closing, finWait2} : Shaped(e) /\ e.held = d.held /\ e.err = d.err /\ e.state \in Ended
                                     /\ e.recvFlags = d.recvFlags
  <2> HIDE DEF a
  <2> QED
    BY <1>3 DEF Same, Shaped, Ended
<1>5. \A e \in {TimeWait(a), TimeWait(d)} : Shaped(e) /\ e.held = d.held /\ e.err = d.err /\ e.state \in Ended
                                            /\ e.recvFlags = d.recvFlags
  <2> HIDE DEF a
  <2> QED
    BY <1>3, TimeWaitIs DEF Same, Ended
<1>6. Shaped(closed) /\ closed.held = d.held /\ closed.err = d.err /\ closed.state = d.state
  BY DEF Shaped
<1> HIDE DEF a, closing, finWait2, closed
<1> QED
  BY <1>2, <1>4, <1>5, <1>6 DEF r

\* LwipTcpIn.Process
LEMMA ProcessGoing ==
  ASSUME NEW c, NEW s, NEW accepts, NEW dn, Shaped(c), Life(c, dn), c.recvFlags = {},
         c.state \notin {"CLOSED", "LISTEN"}
  PROVE  Going(c, Process(c, s, accepts), dn)
<1> DEFINE d == Receive(c, s)
           p == Process(c, s, accepts)
<1>1. \/ p = ProcessRst(c, s) \/ p = AckNow(c)
      \/ c.state = "SYN_SENT" /\ p = ProcessSynSent(c, s)
      \/ c.state = "SYN_RCVD" /\ p = ProcessSynRcvd(c, s, accepts)
      \/ c.state # "SYN_RCVD" /\ p = CloseWaitOnFin(d)
      \/ c.state # "SYN_RCVD" /\ p = Closing(d, s)
  <2>1. p = CASE s.rst -> ProcessRst(c, s)
              [] ~s.rst /\ s.syn /\ c.state \notin {"SYN_SENT", "SYN_RCVD"} -> AckNow(c)
              [] ~s.rst /\ c.state = "SYN_SENT" -> ProcessSynSent(c, s)
              [] ~s.rst /\ c.state = "SYN_RCVD" -> ProcessSynRcvd(c, s, accepts)
              [] ~s.rst /\ ~s.syn /\ c.state \in {"ESTABLISHED", "CLOSE_WAIT"} -> CloseWaitOnFin(d)
              [] OTHER -> Closing(d, s)
    BY Zenon DEF Process
  <2>2. c.state \in {"ESTABLISHED", "CLOSE_WAIT"} => c.state # "SYN_RCVD"
    OBVIOUS
  <2> HIDE DEF p, d
  <2> QED
    BY <2>1, <2>2, Zenon
<1> HIDE DEF p
<1>2. Same(c, AckNow(c))
  BY AckNowSame
<1>3. Got(c, d)
  BY ReceiveGot
<1> HIDE DEF d
<1>4. ASSUME c.state # "SYN_RCVD" PROVE Going(c, CloseWaitOnFin(d), dn)
  <2> DEFINE e == CloseWaitOnFin(d)
  <2>1. /\ Shaped(e) /\ e.held = d.held /\ e.err = d.err
        /\ e.recvFlags = d.recvFlags /\ e.state \in {d.state, "CLOSE_WAIT"}
    BY <1>3, CloseWaitOnFinIs DEF Got
  <2> HIDE DEF e
  <2>2. Got(c, e) /\ "closed" \notin e.recvFlags
    BY <1>3, <2>1 DEF Got
  <2> QED
    BY <2>2, GotSound DEF Going, Got, Sound, e
<1>5. ASSUME c.state # "SYN_RCVD" PROVE Going(c, Closing(d, s), dn)
  <2> DEFINE e == Closing(d, s)
  <2>1. "closed" \notin d.recvFlags /\ Shaped(d)
    BY <1>3 DEF Got
  <2>2. /\ Shaped(e) /\ e.held = d.held /\ e.err = d.err
        /\ e.state = d.state \/ (d.state \in Ended /\ e.state \in Ended)
        /\ "closed" \in e.recvFlags => e.state = "LAST_ACK"
    BY <2>1, ClosingMoves
  <2> HIDE DEF e
  <2>3. Sound(c, d, dn)
    BY <1>3, GotSound
  <2>4. Moved(c, e, dn)
    <3>1. d.state # "SYN_RCVD" /\ d.state \notin {"CLOSED", "LISTEN"}
      BY <1>3, <1>5 DEF Got
    <3>2. e.state # "SYN_RCVD" /\ e.state \notin {"CLOSED", "LISTEN"}
      BY <2>2, <3>1 DEF Ended
    <3> QED
      BY <1>3, <2>2, <2>3, <3>2 DEF Got, Moved, Sound, Life
  <2> QED
    BY <2>4, MovedGoing DEF e
<1> QED
  BY <1>1, <1>2, <1>4, <1>5, ProcessRstGoing, ProcessSynSentGoing, ProcessSynRcvdGoing, SameGoing DEF p

-----------------------------------------------------------------------------
(* tcp_input.                                                              *)

\* LwipTcp.EventErr and what follows it when a reset or the last ack closes the pcb.
LEMMA RemovedTold ==
  ASSUME NEW c, NEW e, Shaped(c), e # "none" PROVE FreedTold(c, Free(PcbRemove(EventErr(c, e))))
<1> DEFINE b == EventErr(c, e)
           d == PcbRemove(b)
<1>1. Shaped(b) /\ ~b.held /\ (c.held => b.err = e)
  BY DEF EventErr, Shaped
<1> HIDE DEF b
<1>2. Shaped(d) /\ d.held = b.held /\ d.err = b.err
  BY <1>1, PcbRemoved
<1> HIDE DEF d
<1>3. Freed(d, Free(d))
  BY FreeFreed
<1>4. FreedTold(c, Free(d))
  BY <1>1, <1>2, <1>3 DEF Freed, FreedTold
<1> QED
  BY <1>4 DEF b, d

\* LwipTcpIn.Output
LEMMA OutputSame == ASSUME NEW c, Shaped(c) PROVE Same(c, Output(c))
<1> DEFINE d == [c EXCEPT !.inInput = FALSE]
<1>1. Same(c, d)
  BY DEF Same, Shaped
<1>2. Output(c) = TcpOutput(d)
  BY Zenon DEF Output
<1> HIDE DEF d
<1> QED
  BY <1>1, <1>2, TcpOutputSame DEF Same

\* LwipTcpIn.DeliverFin
LEMMA DeliverFinSame == ASSUME NEW c, Shaped(c) PROVE Same(c, DeliverFin(c))
<1>1. \/ DeliverFin(c) = c \/ DeliverFin(c) = EventClosed(c)
      \/ DeliverFin(c) = [c EXCEPT !.refusedFin = TRUE]
  BY Zenon DEF DeliverFin
<1>2. Same(c, c) /\ Same(c, [c EXCEPT !.refusedFin = TRUE])
  BY DEF Same, Shaped
<1> QED
  BY <1>1, <1>2, EventClosedSame

\* LwipTcpIn.Deliver
LEMMA DeliverSound ==
  ASSUME NEW c, NEW answer, NEW dn, Shaped(c), Life(c, dn) PROVE Sound(c, Deliver(c, answer), dn)
<1> DEFINE d == DeliverData(c, answer)
           e == EventRecv(c, c.recvData, answer)
           f == Output(DeliverFin(d))
<1>1. Deliver(c, answer) = Abandon(c, TRUE) \/ Deliver(c, answer) = e \/ Deliver(c, answer) = f
  <2>1. Deliver(c, answer) =
          CASE c.recvData # <<>> /\ "rxClosed" \in c.flags -> Abandon(c, TRUE)
            [] c.recvData # <<>> /\ "rxClosed" \notin c.flags /\ answer = "aborted" -> e
            [] OTHER -> f
    BY Zenon DEF Deliver
  <2> HIDE DEF e, f
  <2> QED
    BY <2>1, Zenon
<1>2. Sound(c, Abandon(c, TRUE), dn)
  BY AbandonSound
<1>3. Sound(c, e, dn)
  <2>1. Same(c, e) \/ e = Abandon(c, TRUE)
    BY EventRecvSame
  <2> HIDE DEF e
  <2> QED
    BY <1>2, <2>1, SameSound
<1>4. Same(c, c)
  BY DEF Same
<1>5. Sound(c, d, dn)
  <2>1. d = c \/ d = e
    BY Zenon DEF DeliverData
  <2> HIDE DEF d, e
  <2> QED
    BY <1>3, <1>4, <2>1, SameSound
<1> HIDE DEF d, e
<1>6. Same(d, f)
  <2>1. Same(d, DeliverFin(d))
    BY <1>5, DeliverFinSame DEF Sound
  <2> QED
    BY <2>1, OutputSame DEF Same
<1> HIDE DEF f
<1>7. Sound(c, f, dn)
  BY <1>5, <1>6 DEF Sound, Same, Life
<1> QED
  BY <1>1, <1>2, <1>3, <1>7

\* LwipTcpIn.Finish
LEMMA FinishSound ==
  ASSUME NEW d, NEW answer, NEW dn, Shaped(d), Life(d, dn), "closed" \in d.recvFlags => d.state = "LAST_ACK"
  PROVE  Sound(d, Finish(d, answer), dn)
<1> DEFINE t == d.told + d.acked
           e == [d EXCEPT !.told = t]
           f == Finish(d, answer)
           closed == IF "rxClosed" \in d.flags THEN d ELSE EventErr(d, "ERR_CLSD")
           freed == Free(PcbRemove(closed))
           rest == IF d.state = "FREE" THEN d ELSE Deliver(e, answer)
<1>1. f = CASE "reset" \in d.recvFlags -> Free(PcbRemove(EventErr(d, "ERR_RST")))
            [] "closed" \in d.recvFlags -> freed
            [] OTHER -> rest
  BY Zenon DEF Finish
<1>2. \/ f = Free(PcbRemove(EventErr(d, "ERR_RST")))
      \/ f = Free(PcbRemove(EventErr(d, "ERR_CLSD")))
      \/ "closed" \in d.recvFlags /\ f = Free(PcbRemove(d))
      \/ f = d \/ f = Deliver(e, answer)
  <2> DEFINE isReset == "reset" \in d.recvFlags
             isClosed == "closed" \in d.recvFlags
             onReset == Free(PcbRemove(EventErr(d, "ERR_RST")))
  <2>1. freed = Free(PcbRemove(d)) \/ freed = Free(PcbRemove(EventErr(d, "ERR_CLSD")))
    BY Zenon
  <2>2. rest = d \/ rest = Deliver(e, answer)
    BY Zenon
  <2>3. f = CASE isReset -> onReset [] isClosed -> freed [] OTHER -> rest
    BY <1>1
  <2> HIDE DEF f, freed, rest, e, isReset, isClosed, onReset
  <2>4. f = onReset \/ (isClosed /\ f = freed) \/ f = rest
    BY <2>3, SMT
  <2> QED
    BY <2>1, <2>2, <2>4 DEF isClosed, onReset
<1> HIDE DEF f, t
<1>3. Same(d, e) /\ Same(d, d)
  BY DEF Same, Shaped
<1> HIDE DEF e
<1>4. FreedTold(d, Free(PcbRemove(EventErr(d, "ERR_RST")))) /\ FreedTold(d, Free(PcbRemove(EventErr(d, "ERR_CLSD"))))
  BY RemovedTold
<1>5. ASSUME "closed" \in d.recvFlags PROVE Sound(d, Free(PcbRemove(d)), dn)
  <2>1. Freed(d, Free(PcbRemove(d)))
    BY PcbRemoved, FreeFreed DEF Freed
  <2>2. d.held => dn # {}
    BY <1>5 DEF Life, Ended
  <2> QED
    BY <2>1, <2>2, FreedSound
<1>6. Sound(d, Deliver(e, answer), dn)
  <2>1. Sound(e, Deliver(e, answer), dn)
    BY <1>3, DeliverSound DEF Same, Life
  <2> QED
    BY <1>3, <2>1 DEF Sound, Same
<1> QED
  BY <1>2, <1>3, <1>4, <1>5, <1>6, ToldSound, SameSound DEF f

\* What a step leaves between two segments.
Step(c, d, dn) == Sound(c, d, dn) /\ d.recvFlags = {}

\* LwipTcpIn.InputTo
LEMMA InputToStep ==
  ASSUME NEW c, NEW s, NEW answer, NEW accepts, NEW dn, Shaped(c), Life(c, dn), c.recvFlags = {},
         c.state \notin {"CLOSED", "LISTEN"}
  PROVE  Step(c, InputTo(c, s, answer, accepts), dn)
<1> DEFINE b == [c EXCEPT !.inInput = TRUE]
           d == Process(b, s, accepts)
           e == Finish(d, answer)
<1>1. InputTo(c, s, answer, accepts) = c \/ InputTo(c, s, answer, accepts) = EndInput(e)
  BY Zenon DEF InputTo
<1>2. Same(c, b) /\ Same(c, c)
  BY DEF Same, Shaped
<1> HIDE DEF b
<1>3. Going(b, d, dn)
  BY <1>2, ProcessGoing DEF Same, Life
<1> HIDE DEF d
<1>4. Sound(d, e, dn)
  BY <1>3, FinishSound DEF Going
<1> HIDE DEF e
<1>5. Step(d, EndInput(e), dn)
  BY <1>4 DEF Step, Sound, Shaped, Life, EndInput
<1>6. Step(c, EndInput(e), dn)
  BY <1>2, <1>3, <1>5 DEF Step, Sound, Going, Same
<1>7. Step(c, c, dn)
  BY <1>2, SameSound DEF Step
<1> QED
  BY <1>1, <1>6, <1>7

\* LwipTcpIn.Input
LEMMA InputStep ==
  ASSUME NEW c, NEW s, NEW again, NEW answer, NEW accepts, NEW dn, Shaped(c), Life(c, dn),
         c.recvFlags = {}, c.state \notin {"CLOSED", "LISTEN"}
  PROVE  Step(c, Input(c, s, again, answer, accepts), dn)
<1> DEFINE d == ProcessRefused(c, again)
           b == IF c.refused = <<>> THEN c ELSE d
           e == InputTo(b, s, answer, accepts)
<1>1. Input(c, s, again, answer, accepts) = e
  BY Zenon DEF Input
<1> SUFFICES Step(c, e, dn)
  BY <1>1
<1>2. Sound(c, d, dn) /\ d.recvFlags = {} /\ (Same(c, d) \/ d.state = "FREE")
  BY ProcessRefusedSound
<1> HIDE DEF d
<1>3. Same(c, c)
  BY DEF Same
<1>4. Sound(c, b, dn) /\ b.recvFlags = {} /\ (Same(c, b) \/ b.state = "FREE")
  BY <1>2, <1>3, SameSound
<1> HIDE DEF b
<1>5. b.state = "FREE" => e = b
  BY Zenon DEF InputTo
<1>6. Same(c, b) => Step(b, e, dn)
  BY <1>4, InputToStep DEF Same, Sound
<1> HIDE DEF e
<1>7. CASE Same(c, b)
  BY <1>6, <1>7 DEF Step, Sound, Same
<1>8. CASE b.state = "FREE"
  BY <1>4, <1>5, <1>8 DEF Step
<1> QED
  BY <1>4, <1>7, <1>8

\* LwipTcpIn.ListenInput makes a pcb of its own, nobody's yet.
LEMMA ListenInputStep ==
  ASSUME NEW c, NEW s, NEW iss, NEW dn, Shaped(c), Life(c, dn), c.recvFlags = {}, c.held => dn # {}
  PROVE  Step(c, ListenInput(c, s, iss), dn)
<1> DEFINE n1 == SeqAdd(s.seq, 1)
           n2 == SeqAdd(s.seq, SeqSpace - 1)
           a == [Alloc(c.id, iss) EXCEPT !.state = "SYN_RCVD", !.rcvNxt = n1, !.annEdge = n1,
                   !.sndWnd = s.wnd, !.wndMax = s.wnd, !.ssthresh = s.wnd, !.wl1 = n2]
           b == EnqueueFlags(a, TRUE, FALSE)
           d == TcpOutput(b)
<1>1. ListenInput(c, s, iss) \in {c, Refuse(c, s), d}
  <2>1. ListenInput(c, s, iss) = IF s.rst THEN c ELSE IF s.ack THEN Refuse(c, s) ELSE IF ~s.syn THEN c ELSE d
    BY Zenon DEF ListenInput
  <2> HIDE DEF d
  <2> QED
    BY <2>1
<1> HIDE DEF n1, n2
<1>2. Shaped(a) /\ a.state = "SYN_RCVD" /\ a.held = FALSE /\ a.err = "none" /\ a.recvFlags = {}
  BY DEF Shaped, Alloc
<1> HIDE DEF a
<1>3. Same(a, b)
  BY <1>2, EnqueueFlagsSame
<1> HIDE DEF b
<1>4. Same(a, d)
  BY <1>3, TcpOutputSame DEF Same
<1> HIDE DEF d
<1>5. Step(c, d, dn)
  BY <1>2, <1>4 DEF Step, Sound, Same, Life, Shaped
<1>6. Same(c, c) /\ Same(c, Refuse(c, s))
  BY RstSame DEF Same, Refuse
<1>7. Step(c, c, dn) /\ Step(c, Refuse(c, s), dn)
  BY <1>6, SameSound DEF Step, Same
<1> QED
  BY <1>1, <1>5, <1>7

\* LwipTcpIn.TimewaitInput
LEMMA TimewaitInputSame == ASSUME NEW c, NEW s, Shaped(c) PROVE Same(c, TimewaitInput(c, s))
<1> DEFINE d == AckNow(c)
           again == SeqBetween(s.seq, c.rcvNxt, SeqAdd(c.rcvNxt, c.rcvWnd))
           last == IF TcpLen(s) > 0 THEN TcpOutput(d) ELSE c
<1>1. TimewaitInput(c, s) = CASE s.rst -> c [] ~s.rst /\ s.syn /\ again -> Refuse(c, s) [] OTHER -> last
  BY Zenon DEF TimewaitInput
<1>2. last = TcpOutput(d) \/ last = c
  BY Zenon
<1> HIDE DEF last, again
<1>3. TimewaitInput(c, s) = c \/ TimewaitInput(c, s) = Refuse(c, s) \/ TimewaitInput(c, s) = TcpOutput(d)
  BY <1>1, <1>2, Zenon
<1>4. Same(c, d)
  BY AckNowSame
<1> HIDE DEF d
<1>5. Same(c, TcpOutput(d)) /\ Same(c, c) /\ Same(c, Refuse(c, s))
  BY <1>4, TcpOutputSame, RstSame DEF Same, Refuse
<1> QED
  BY <1>3, <1>5

-----------------------------------------------------------------------------
(* The two ends.                                                           *)

\* Both pcbs, between two segments: nobody that was told still holds one, and
\* nobody holds one that is ending without having asked for it.
LifeInv ==
  /\ DOMAIN pcb = Ends /\ DOMAIN done = Ends
  /\ \A x \in Ends : Shaped(pcb[x]) /\ Life(pcb[x], done[x]) /\ pcb[x].recvFlags = {}

\* The pcbs before anything happened.
LEMMA LifeInit == Init => LifeInv
  BY DEF Init, LifeInv, Life, Shaped, Alloc, Ends

\* What an action of the end x comes to: its pcb takes a step.
Stepped(x, c, dn) ==
  /\ pcb' = [pcb EXCEPT ![x] = [c EXCEPT !.out = <<>>, !.rc = "ERR_OK"]]
  /\ DOMAIN done' = DOMAIN done /\ \A y \in Ends : done'[y] = IF y = x THEN dn ELSE done[y]
  /\ Step(pcb[x], c, dn)

\* A pcb that takes a step keeps the invariant, and its application is told.
LEMMA StepKeeps ==
  ASSUME LifeInv, NEW x \in Ends, NEW c, NEW dn, Stepped(x, c, dn)
  PROVE  LifeInv' /\ (done' = done /\ pcb[x].held /\ pcb'[x].state \in {"FREE", "SYN_RCVD"} =>
                        pcb'[x].err # "none" \/ done[x] # {})
<1> DEFINE d == [c EXCEPT !.out = <<>>, !.rc = "ERR_OK"]
<1>1. Shaped(d) /\ d.state = c.state /\ d.held = c.held /\ d.err = c.err /\ d.recvFlags = {}
  BY DEF Stepped, Step, Sound, Shaped
<1> HIDE DEF d
<1>2. pcb'[x] = d /\ done'[x] = dn /\ DOMAIN pcb' = Ends /\ DOMAIN done' = Ends
      /\ \A y \in Ends \ {x} : pcb'[y] = pcb[y] /\ done'[y] = done[y]
  BY DEF Stepped, LifeInv, d
<1>3. Life(d, dn) /\ (pcb[x].held => d.held \/ d.err # "none" \/ dn # {})
  BY <1>1 DEF Stepped, Step, Sound, Life
<1>4. LifeInv'
  BY <1>1, <1>2, <1>3 DEF LifeInv
<1>5. ASSUME done' = done, pcb[x].held, d.state \in {"FREE", "SYN_RCVD"} PROVE d.err # "none" \/ done[x] # {}
  <2>1. dn = done[x]
    BY <1>2, <1>5
  <2> QED
    BY <1>3, <1>5, <2>1 DEF Life, Ended
<1> QED
  BY <1>2, <1>4, <1>5

\* An action that changes nothing of what the application asked for.
LEMMA ActionSteps ==
  ASSUME LifeInv, NEW x \in Ends, NEW c, Becomes(x, c), done' = done, Step(pcb[x], c, done[x])
  PROVE  Stepped(x, c, done[x])
  BY DEF Becomes, Keep, Stepped

\* LwipTcpNet.Open
LEMMA OpenSteps == ASSUME LifeInv, NEW x \in Ends, Open(x) PROVE \E c, dn : Stepped(x, c, dn)
<1> DEFINE c == Connect(pcb[x], Iss[x])
<1>1. Shaped(pcb[x]) /\ pcb[x].recvFlags = {} /\ pcb[x].err = "none" /\ ~pcb[x].held
  BY DEF LifeInv, Open, Life
<1>2. Shaped(c) /\ c.state = "SYN_SENT" /\ c.err = "none" /\ c.recvFlags = {}
  BY <1>1, ConnectOpens
<1>3. Becomes(x, c) /\ done' = done
  BY DEF Open
<1> HIDE DEF c
<1>4. Step(pcb[x], c, done[x])
  BY <1>1, <1>2 DEF Step, Sound, Life, Ended
<1> QED
  BY <1>3, <1>4, ActionSteps

\* A function that leaves the pcb as it is, as a step.
LEMMA SameSteps ==
  ASSUME LifeInv, NEW x \in Ends, NEW c, Becomes(x, c), done' = done, Same(pcb[x], c)
  PROVE  \E d, dn : Stepped(x, d, dn)
<1>1. Step(pcb[x], c, done[x])
  BY SameSound DEF LifeInv, Step, Same
<1> QED
  BY <1>1, ActionSteps

\* A function that tells the application, as a step.
LEMMA ToldSteps ==
  ASSUME LifeInv, NEW x \in Ends, NEW c, Becomes(x, c), done' = done, FreedTold(pcb[x], c)
  PROVE  \E d, dn : Stepped(x, d, dn)
<1>1. Step(pcb[x], c, done[x])
  BY ToldSound DEF Step, FreedTold
<1> QED
  BY <1>1, ActionSteps

\* LwipTcpNet.Write and Return
LEMMA UseSteps == ASSUME LifeInv, NEW x \in Ends, Write(x) \/ Return(x) PROVE \E c, dn : Stepped(x, c, dn)
<1>1. Shaped(pcb[x])
  BY DEF LifeInv
<1>2. CASE Write(x)
  <2>1. PICK len : LET c == TcpWrite(pcb[x], [i \in 1 .. len |-> written[x] + i])
                   IN Becomes(x, IF c.rc = "ERR_OK" THEN TcpOutput(c) ELSE c)
    BY <1>2, Zenon DEF Write
  <2> DEFINE data == [i \in 1 .. len |-> written[x] + i]
             c == TcpWrite(pcb[x], data)
             d == IF c.rc = "ERR_OK" THEN TcpOutput(c) ELSE c
  <2>2. Becomes(x, d)
    BY <2>1
  <2>3. Same(pcb[x], c)
    <3> HIDE DEF data
    <3> QED
      BY <1>1, TcpWriteSame
  <2> HIDE DEF c
  <2>4. Same(c, TcpOutput(c))
    BY <2>3, TcpOutputSame DEF Same
  <2>5. Same(pcb[x], d)
    BY <2>3, <2>4 DEF Same
  <2> HIDE DEF d
  <2>6. done' = done
    BY <1>2 DEF Write
  <2> QED
    BY <2>2, <2>5, <2>6, SameSteps
<1>3. CASE Return(x)
  <2>1. Becomes(x, Recved(pcb[x], pcb[x].unread)) /\ done' = done
    BY <1>3 DEF Return
  <2> QED
    BY <1>1, <2>1, RecvedSame, SameSteps
<1> QED
  BY <1>2, <1>3

\* LwipTcp.TcpClose: when it succeeds the application has given the pcb up.
LEMMA TcpCloseSound ==
  ASSUME NEW c, NEW dn, NEW e, Shaped(c), Life(c, dn), c.recvFlags = {}
  PROVE  Step(c, TcpClose(c), IF TcpClose(c).rc = "ERR_OK" THEN dn \cup {e} ELSE dn)
<1> DEFINE b == [c EXCEPT !.flags = @ \cup {"rxClosed"}]
           d == CloseShutdown(b, TRUE)
           f == [d EXCEPT !.held = FALSE]
<1>1. TcpClose(c) = IF d.rc = "ERR_OK" THEN f ELSE d
  BY Zenon DEF TcpClose
<1>2. Same(c, b)
  BY DEF Same, Shaped
<1> HIDE DEF b
<1>3. Shut(b, d)
  BY <1>2, CloseShutdownShut DEF Same
<1> HIDE DEF d
<1>4. Shut(c, d)
  BY <1>2, <1>3 DEF Shut, Same
<1>5. CASE d.rc = "ERR_OK"
  <2>1. Shaped(f) /\ ~f.held /\ f.rc = "ERR_OK" /\ f.recvFlags = {} /\ f.state = d.state /\ f.err = d.err
    BY <1>4, <1>5 DEF Shut, Same, Shaped
  <2> HIDE DEF f
  <2>2. Step(c, f, dn \cup {e})
    BY <1>4, <2>1 DEF Shut, Same, Step, Sound, Life
  <2> QED
    BY <1>1, <1>5, <2>1, <2>2
<1>6. CASE d.rc # "ERR_OK"
  <2>1. Same(c, d)
    BY <1>4, <1>6 DEF Shut
  <2>2. Step(c, d, dn)
    BY <2>1, SameSound DEF Step, Same
  <2> QED
    BY <1>1, <1>6, <2>2
<1> QED
  BY <1>5, <1>6

\* LwipTcp.ShutdownTx
LEMMA ShutdownTxSound ==
  ASSUME NEW c, NEW dn, NEW e, Shaped(c), Life(c, dn), c.recvFlags = {}
  PROVE  Step(c, ShutdownTx(c), IF ShutdownTx(c).rc = "ERR_OK" THEN dn \cup {e} ELSE dn)
<1> DEFINE d == ShutdownTx(c)
<1>1. d = CloseShutdown(c, FALSE) \/ d = [c EXCEPT !.rc = "ERR_CONN"]
  BY Zenon DEF ShutdownTx
<1>2. Same(c, [c EXCEPT !.rc = "ERR_CONN"])
  BY DEF Same, Shaped
<1> SUFFICES Step(c, d, IF d.rc = "ERR_OK" THEN dn \cup {e} ELSE dn)
  OBVIOUS
<1> HIDE DEF d
<1>3. Shut(c, d)
  <2>1. Shut(c, CloseShutdown(c, FALSE))
    BY CloseShutdownShut
  <2>2. Shut(c, [c EXCEPT !.rc = "ERR_CONN"])
    BY <1>2 DEF Shut
  <2> QED
    BY <1>1, <2>1, <2>2
<1>4. CASE Same(c, d)
  <2>1. Life(c, dn \cup {e})
    BY DEF Life
  <2> QED
    BY <1>4, <2>1, SameSound DEF Step, Same
<1>5. CASE ~Same(c, d)
  BY <1>3, <1>5 DEF Shut, Step, Sound, Life, Ended
<1> QED
  BY <1>4, <1>5

\* LwipTcpNet.End
LEMMA EndSteps == ASSUME LifeInv, NEW x \in Ends, End(x) PROVE \E c, dn : Stepped(x, c, dn)
<1>1. PICK how : /\ Becomes(x, Ending(x, how))
                 /\ done' = [done EXCEPT ![x] = IF Ending(x, how).rc = "ERR_OK" THEN @ \cup {how} ELSE @]
  BY Zenon DEF End
<1> DEFINE p == pcb[x]
           c == Ending(x, how)
           dn == IF c.rc = "ERR_OK" THEN done[x] \cup {how} ELSE done[x]
<1>2. Shaped(p) /\ Life(p, done[x]) /\ p.recvFlags = {}
  BY DEF LifeInv
<1>3. c = CASE how = "close" -> TcpClose(p)
            [] how = "shutdownTx" -> ShutdownTx(p)
            [] how = "shutdownRx" -> ShutdownRx(p)
            [] OTHER -> Abandon(p, TRUE)
  BY Zenon DEF Ending
<1>4. DOMAIN done' = DOMAIN done /\ \A y \in Ends : done'[y] = IF y = x THEN dn ELSE done[y]
  <2>1. done' = [done EXCEPT ![x] = dn] /\ DOMAIN done = Ends
    BY <1>1 DEF LifeInv
  <2> HIDE DEF dn
  <2> QED
    BY <2>1
<1> HIDE DEF p, c
<1>5. c \in {TcpClose(p), ShutdownTx(p), ShutdownRx(p), Abandon(p, TRUE)}
  <2>1. c = TcpClose(p) \/ c = ShutdownTx(p) \/ c = ShutdownRx(p) \/ c = Abandon(p, TRUE)
    BY <1>3, Zenon
  <2> QED
    BY <2>1
<1>6. Step(p, c, dn)
  <2>1. CASE c = TcpClose(p)
    BY <1>2, <2>1, TcpCloseSound
  <2>2. CASE c = ShutdownTx(p)
    BY <1>2, <2>2, ShutdownTxSound
  <2>3. CASE c = ShutdownRx(p)
    <3>1. Same(p, c)
      BY <1>2, <2>3 DEF Same, Shaped, ShutdownRx
    <3>2. Life(p, dn)
      BY <1>2 DEF Life
    <3> HIDE DEF dn
    <3> QED
      BY <1>2, <3>1, <3>2, SameSound DEF Step, Same
  <2>4. CASE c = Abandon(p, TRUE)
    <3>1. Life(p, dn)
      BY <1>2 DEF Life
    <3> HIDE DEF dn
    <3> QED
      BY <1>2, <2>4, <3>1, AbandonSound DEF Step
  <2> QED
    BY <1>5, <2>1, <2>2, <2>3, <2>4
<1> HIDE DEF dn
<1>7. pcb' = [pcb EXCEPT ![x] = [c EXCEPT !.out = <<>>, !.rc = "ERR_OK"]]
  BY <1>1 DEF Becomes, Keep, c
<1> QED
  BY <1>4, <1>6, <1>7 DEF Stepped, p

\* LwipTcpNet.Arrives: whatever the segment meets, its pcb takes a step.
LEMMA ArrivesStep ==
  ASSUME NEW x \in Ends, NEW c, NEW s, NEW again, NEW answer, NEW accepts, NEW dn,
         Shaped(c), Life(c, dn), c.recvFlags = {}
  PROVE  Step(c, Arrives(x, c, s, again, answer, accepts), dn)
<1> DEFINE d == Arrives(x, c, s, again, answer, accepts)
           i == Input(c, s, again, answer, accepts)
           l == ListenInput(c, s, NewIss(x))
           r == IF s.rst THEN c ELSE Refuse(c, s)
<1>1. d = CASE c.state \in Active -> i
            [] c.state = "TIME_WAIT" -> TimewaitInput(c, s)
            [] c.state \in {"LISTEN", "FREE"} /\ x = "srv" -> l
            [] OTHER -> r
  BY Zenon DEF Arrives
<1>2. \/ c.state \in Active /\ d = i
      \/ d = TimewaitInput(c, s)
      \/ c.state \in {"LISTEN", "FREE"} /\ d = l
      \/ d = r
  <2> DEFINE active == c.state \in Active
             wait == c.state = "TIME_WAIT"
             open == c.state \in {"LISTEN", "FREE"}
             srv == x = "srv"
  <2>1. d = CASE active -> i [] wait -> TimewaitInput(c, s) [] open /\ srv -> l [] OTHER -> r
    BY <1>1
  <2> HIDE DEF d, i, l, r, active, wait, open, srv
  <2>2. (active /\ d = i) \/ d = TimewaitInput(c, s) \/ (open /\ d = l) \/ d = r
    BY <2>1, SMT
  <2> QED
    BY <2>2 DEF active, open
<1> SUFFICES Step(c, d, dn)
  OBVIOUS
<1> HIDE DEF d
<1>3. c.state \in Active => Step(c, i, dn)
  <2> SUFFICES ASSUME c.state \in Active PROVE Step(c, i, dn)
    OBVIOUS
  <2>1. c.state \notin {"CLOSED", "LISTEN"}
    BY DEF Active
  <2> QED
    BY <2>1, InputStep
<1>4. Step(c, TimewaitInput(c, s), dn)
  BY TimewaitInputSame, SameSound DEF Step, Same
<1>5. c.state \in {"LISTEN", "FREE"} => Step(c, l, dn)
  <2> SUFFICES ASSUME c.state \in {"LISTEN", "FREE"} PROVE Step(c, l, dn)
    OBVIOUS
  <2>1. c.held => dn # {}
    BY DEF Life, Ended
  <2> QED
    BY <2>1, ListenInputStep
<1>6. Step(c, r, dn)
  <2>1. Same(c, c) /\ Same(c, Refuse(c, s))
    BY RstSame DEF Same, Refuse
  <2>2. Same(c, r)
    BY <2>1
  <2> HIDE DEF r
  <2> QED
    BY <2>2, SameSound DEF Step, Same
<1> HIDE DEF i, l, r
<1> QED
  BY <1>2, <1>3, <1>4, <1>5, <1>6

\* LwipTcpNet.Arrive
LEMMA ArriveSteps == ASSUME LifeInv, NEW x \in Ends, Arrive(x) PROVE \E c, dn : Stepped(x, c, dn)
<1>1. PICK i \in DOMAIN net[x], gone \in BOOLEAN, accepts \in BOOLEAN, again \in Answers, answer \in Answers :
        Taken(x, Arrives(x, pcb[x], net[x][i], again, answer, accepts), i, gone)
  BY DEF Arrive
<1> DEFINE c == Arrives(x, pcb[x], net[x][i], again, answer, accepts)
<1>2. Step(pcb[x], c, done[x])
  BY ArrivesStep DEF LifeInv
<1> HIDE DEF c
<1>3. Keep(x, c) /\ done' = done
  BY <1>1 DEF Taken, c
<1>4. Stepped(x, c, done[x])
  BY <1>2, <1>3 DEF Keep, Stepped
<1> QED
  BY <1>4

\* LwipTcpNet's timers that send something, or forget it.
LEMMA SendingTimersStep ==
  ASSUME LifeInv, NEW x \in Ends,
         \/ FastTimer(x) \/ Retransmit(x) \/ Persist(x) \/ Poll(x) \/ ForgetOutOfOrder(x) \/ KeepAlive(x)
  PROVE  \E c, dn : Stepped(x, c, dn)
<1> DEFINE p == pcb[x]
<1>1. Shaped(p)
  BY DEF LifeInv
<1>2. Same(p, DelayedAck(p))
  <2> DEFINE a == AckNow(p)
             o == TcpOutput(a)
  <2>1. Same(p, a)
    BY <1>1, AckNowSame
  <2> HIDE DEF a
  <2>2. Same(p, o)
    BY <2>1, TcpOutputSame DEF Same
  <2>3. DelayedAck(p) = [o EXCEPT !.flags = @ \ {"ackDelay", "ackNow"}]
    BY Zenon DEF DelayedAck, a
  <2> HIDE DEF o, p
  <2> QED
    BY <2>2, <2>3 DEF Same, Shaped
<1>3. Same(p, RtoExpires(p))
  <2> DEFINE half == Lesser(p.cwnd, p.sndWnd) \div 2
             thresh == IF half < 2 * p.mss THEN 2 * p.mss ELSE half
             b == [p EXCEPT !.ssthresh = thresh, !.cwnd = p.mss]
  <2>1. RtoExpires(p) = RexmitRto(b)
    BY Zenon DEF RtoExpires
  <2> HIDE DEF p, thresh
  <2>2. Same(p, b)
    BY <1>1 DEF Same, Shaped
  <2> HIDE DEF b
  <2> QED
    BY <2>1, <2>2, RexmitRtoSame DEF Same
<1>4. Same(p, ZeroWindowProbe(p)) /\ Same(p, TcpOutput(p)) /\ Same(p, DropOutOfOrder(p)) /\ Same(p, Keepalive(p))
  <2> HIDE DEF p
  <2>1. Same(p, DropOutOfOrder(p))
    BY <1>1 DEF Same, Shaped, DropOutOfOrder
  <2> QED
    BY <1>1, <2>1, ZeroWindowProbeSame, TcpOutputSame, SendHeaderSame DEF Keepalive
<1>5. PICK c \in {DelayedAck(p), RtoExpires(p), ZeroWindowProbe(p), TcpOutput(p), DropOutOfOrder(p), Keepalive(p)} :
        Becomes(x, c) /\ done' = done
  BY DEF FastTimer, Retransmit, Persist, Poll, ForgetOutOfOrder, KeepAlive
<1>6. Same(p, c)
  BY <1>2, <1>3, <1>4, <1>5
<1> QED
  BY <1>5, <1>6, SameSteps

\* LwipTcpNet's timers that give a pcb back, and the one that offers data again.
LEMMA EndingTimersStep ==
  ASSUME LifeInv, NEW x \in Ends, OfferAgain(x) \/ KeepAliveFails(x) \/ GiveUp(x) \/ LeaveTimeWait(x)
  PROVE  \E c, dn : Stepped(x, c, dn)
<1>1. Shaped(pcb[x]) /\ Life(pcb[x], done[x]) /\ pcb[x].recvFlags = {}
  BY DEF LifeInv
<1>2. CASE OfferAgain(x)
  <2>1. PICK answer \in plan[x].answers : Becomes(x, ProcessRefused(pcb[x], answer))
    BY <1>2 DEF OfferAgain
  <2>2. done' = done
    BY <1>2 DEF OfferAgain
  <2>3. Step(pcb[x], ProcessRefused(pcb[x], answer), done[x])
    BY <1>1, ProcessRefusedSound DEF Step
  <2> QED
    BY <2>1, <2>2, <2>3, ActionSteps
<1>3. CASE KeepAliveFails(x)
  BY <1>1, <1>3, RemoveTimedOutTold, ToldSteps DEF KeepAliveFails
<1>4. CASE GiveUp(x)
  BY <1>1, <1>4, RemoveTimedOutTold, ToldSteps DEF GiveUp
<1>5. CASE LeaveTimeWait(x)
  <2>1. pcb[x].held => done[x] # {}
    BY <1>1, <1>5 DEF LeaveTimeWait, Life, Ended
  <2>2. Step(pcb[x], RemoveTimeWait(pcb[x]), done[x])
    BY <1>1, <2>1, RemoveTimeWaitFreed, FreedSound DEF Step, Freed
  <2> QED
    BY <1>5, <2>2, ActionSteps DEF LeaveTimeWait
<1> QED
  BY <1>2, <1>3, <1>4, <1>5

-----------------------------------------------------------------------------
(* The specification.                                                      *)

\* Every step of the two ends and the network keeps the invariant, and tells an
\* application that loses its pcb.
LEMMA NextKeeps ==
  ASSUME LifeInv, [Next]_vars
  PROVE  /\ LifeInv'
         /\ \A x \in Ends : pcb[x].held /\ pcb'[x].state \in {"FREE", "SYN_RCVD"} /\ done' = done =>
              pcb'[x].err # "none" \/ done[x] # {}
<1>1. CASE UNCHANGED <<pcb, done>>
  BY <1>1 DEF LifeInv, Life, Ended
<1>2. ASSUME NEW y \in Ends, NEW c, NEW dn, Stepped(y, c, dn)
      PROVE  /\ LifeInv'
             /\ \A x \in Ends : pcb[x].held /\ pcb'[x].state \in {"FREE", "SYN_RCVD"} /\ done' = done =>
                  pcb'[x].err # "none" \/ done[x] # {}
  <2>1. LifeInv' /\ (done' = done /\ pcb[y].held /\ pcb'[y].state \in {"FREE", "SYN_RCVD"} =>
                       pcb'[y].err # "none" \/ done[y] # {})
    BY <1>2, StepKeeps
  <2>2. \A x \in Ends \ {y} : pcb'[x] = pcb[x]
    BY <1>2 DEF Stepped, LifeInv
  <2>3. \A x \in Ends \ {y} : pcb[x].held /\ pcb[x].state \in {"FREE", "SYN_RCVD"} => done[x] # {}
    BY DEF LifeInv, Life, Ended
  <2> QED
    BY <2>1, <2>2, <2>3
<1>3. CASE Next
  <2>1. PICK x \in Ends : \/ Open(x) \/ Write(x) \/ Return(x) \/ End(x) \/ Arrive(x) \/ Lose(x) \/ Timers(x)
    BY <1>3, Zenon DEF Next
  <2>2. Lose(x) => UNCHANGED <<pcb, done>>
    BY DEF Lose
  <2>3. ASSUME ~Lose(x) PROVE \E c, dn : Stepped(x, c, dn)
    BY <2>1, <2>3, OpenSteps, UseSteps, EndSteps, ArriveSteps, SendingTimersStep, EndingTimersStep DEF Timers
  <2> QED
    BY <1>1, <1>2, <2>2, <2>3
<1>4. CASE UNCHANGED vars
  BY <1>1, <1>4 DEF vars
<1> QED
  BY <1>3, <1>4

\* The application of an end that still holds its pcb when the pcb is given back,
\* or taken for a new connection, has been told through its err callback or had
\* asked for an ending (tcp_slowtmr, tcp_abandon and tcp_input each have to see
\* to it), whatever is lost, doubled or late.
THEOREM EndIsTold == Spec => ToldOfTheEnd
<1>1. LifeInv /\ [Next]_vars => LifeInv'
  BY NextKeeps
<1>2. LifeInv /\ [Next]_vars =>
        [\A x \in Ends : pcb[x].held /\ pcb'[x].state \in {"FREE", "SYN_RCVD"} /\ done' = done =>
           pcb'[x].err # "none" \/ done[x] # {}]_vars
  BY NextKeeps
<1> QED
  BY LifeInit, <1>1, <1>2, PTL DEF Spec, ToldOfTheEnd
=============================================================================
