------------------------------ MODULE LwipTcpIn ------------------------------
(***************************************************************************)
(* lwIP's tcp_in.c: what a segment from the network does to the pcb it     *)
(* belongs to.  The globals of the file that live for one tcp_input are    *)
(* fields of the pcb: `recvData' and `recvFlags'.                          *)
(*                                                                         *)
(* A segment kept out of order has a `len' of its own: the code sets it    *)
(* apart from the bytes the segment holds.                                 *)
(***************************************************************************)
EXTENDS LwipTcp

Prefix(seq, Holds(_)) ==
  LET n == CHOOSE k \in 0 .. Len(seq) :
             /\ \A i \in 1 .. k : Holds(seq[i])
             /\ k < Len(seq) => ~Holds(seq[k + 1])
  IN [taken |-> SubSeq(seq, 1, n), left |-> SubSeq(seq, n + 1, Len(seq))]

Fins(seq) == Cardinality({i \in DOMAIN seq : seq[i].fin})

-----------------------------------------------------------------------------
(* tcp_receive, the acknowledgement.                                       *)

\* Mutant of UpdateSndWnd: a closed window starts no timer.
UpdateSndWndNoPersist(c, s) ==
  IF SeqLT(c.wl1, s.seq) \/ (c.wl1 = s.seq /\ SeqLEQ(c.wl2, s.ackno))
  THEN [c EXCEPT !.sndWnd = s.wnd, !.wndMax = IF @ < s.wnd THEN s.wnd ELSE @,
                 !.wl1 = s.seq, !.wl2 = s.ackno] ELSE c

\* The window of the newest segment counts; none at all starts the persist timer.
UpdateSndWnd(c, s) ==
  IF \/ SeqLT(c.wl1, s.seq)
     \/ c.wl1 = s.seq /\ SeqLT(c.wl2, s.ackno)
     \/ c.wl2 = s.ackno /\ s.wnd > c.sndWnd
  THEN [c EXCEPT !.sndWnd = s.wnd, !.wndMax = IF @ < s.wnd THEN s.wnd ELSE @,
                 !.wl1 = s.seq, !.wl2 = s.ackno, !.persist = s.wnd = 0]
  ELSE c

\* Counters of 16 bits that refuse to wrap.
Grow(cwnd, by) == LET new == (cwnd + by) % (U16 + 1) IN IF new > cwnd THEN new ELSE cwnd

DuplicateAck(c, s, edge) ==
  IF TcpLen(s) = 0 /\ SeqAdd(c.wl2, c.sndWnd) = edge /\ c.rtime /\ c.lastack = s.ackno
  THEN LET d == [c EXCEPT !.acked = 0, !.dupacks = Lesser(@ + 1, DupAckLimit + 1)]
       IN IF c.dupacks >= DupAckLimit THEN [d EXCEPT !.cwnd = Grow(@, c.mss)]
          ELSE IF d.dupacks = DupAckLimit THEN RexmitFast(d) ELSE d
  ELSE [c EXCEPT !.acked = 0, !.dupacks = 0]

\* Segments acknowledged in full are freed; a FIN among them is not data.
FreeAcked(c, queue, Acked(_)) ==
  LET p == Prefix(queue, Acked)
      fins == Fins(p.taken)
  IN [left |-> p.left, acked |-> IF c.acked > fins THEN c.acked - fins ELSE 0]

NewAck(c, s) ==
  LET cwnd == IF "inFr" \in c.flags THEN c.ssthresh ELSE c.cwnd
      d == [c EXCEPT !.flags = @ \ {"inFr"}, !.nrtx = 0, !.dupacks = 0,
                     !.acked = SeqSub(s.ackno, c.lastack), !.lastack = s.ackno,
                     !.sndBuf = (@ + SeqSub(s.ackno, c.lastack)) % (U16 + 1),
                     !.cwnd = IF cwnd < c.ssthresh THEN Grow(cwnd, c.mss)
                              ELSE Grow(cwnd, (c.mss * c.mss) \div cwnd)]
      f == FreeAcked(d, c.unacked, LAMBDA seg : SeqLEQ(SegEnd(seg), s.ackno))
  IN [d EXCEPT !.unacked = f.left, !.acked = f.acked, !.rtime = f.left # <<>>]

\* Retransmissions wait in the unsent queue and may be acknowledged there.
AckUnsent(c, s) ==
  LET f == FreeAcked(c, c.unsent, LAMBDA seg : SeqBetween(s.ackno, SegEnd(seg), c.sndNxt))
  IN [c EXCEPT !.unsent = f.left, !.acked = f.acked]

ReceiveAck(c, s) ==
  LET d == UpdateSndWnd(c, s)
      e == IF SeqLEQ(s.ackno, c.lastack) THEN DuplicateAck(d, s, SeqAdd(c.wl2, c.sndWnd))
           ELSE IF SeqBetween(s.ackno, SeqAdd(c.lastack, 1), c.sndNxt) THEN NewAck(d, s)
           ELSE [d EXCEPT !.acked = 0]
  IN AckUnsent(e, s)

-----------------------------------------------------------------------------
(* tcp_receive, the data.                                                  *)

OosLen(o) == o.len + (IF o.fin THEN 1 ELSE 0)
OosEnd(o) == SeqAdd(o.seq, o.len)

Cut(o, len) == IF len < o.len THEN [o EXCEPT !.len = len, !.data = SubSeq(@, 1, len)] ELSE o

\* tcp_oos_insert_segment: `o' goes before `queue', which it may cover or overlap.
OosInsertSegment(o, queue) ==
  LET p == Prefix(queue, LAMBDA q : SeqGEQ(OosEnd(o), OosEnd(q)))
      f == [o EXCEPT !.fin = Fins(p.taken) > 0]
  IN IF o.fin THEN <<o>>
     ELSE IF p.left # <<>> /\ SeqGT(OosEnd(o), Head(p.left).seq)
       THEN <<Cut(f, SeqSub(Head(p.left).seq, o.seq))>> \o p.left
       ELSE <<f>> \o p.left

\* The last segment of the queue is cut at the window.  The code compares the
\* two edges as plain numbers, and sets the length even when it is larger.
CutAtWindow(c, o, tcplen) ==
  LET edge == SeqAdd(c.rcvNxt, c.rcvWnd)
      len  == SeqSub(edge, o.seq) % (U16 + 1)
  IN IF SeqAdd(o.seq, tcplen) > edge
     THEN [o EXCEPT !.fin = FALSE, !.len = len, !.data = SubSeq(@, 1, Lesser(len, Len(@)))]
     ELSE o

QueueOutOfOrder(c, o, tcplen) ==
  LET q == c.ooseq
      n == Cardinality({i \in DOMAIN q : SeqLT(q[i].seq, o.seq)})
      before == IF n = 0 THEN <<>>
                ELSE [SubSeq(q, 1, n) EXCEPT ![n] = Cut(@, SeqSub(o.seq, q[n].seq))]
      after == SubSeq(q, n + 1, Len(q))
  IN CASE q = <<>> -> [c EXCEPT !.ooseq = <<o>>]
       [] after # <<>> /\ Head(after).seq = o.seq ->
            IF o.len > Head(after).len
            THEN [c EXCEPT !.ooseq = SubSeq(q, 1, n) \o OosInsertSegment(o, after)] ELSE c
       [] after # <<>> /\ Head(after).seq # o.seq ->
            [c EXCEPT !.ooseq = before \o OosInsertSegment(o, after)]
       [] OTHER -> IF Last(q).fin THEN c
                   ELSE [c EXCEPT !.ooseq = Append(before, CutAtWindow(c, o, tcplen))]

\* Mutant of Accept: what a queued or new segment takes of the window is forgotten.
AcceptUncounted(c, o) ==
  UpdateRcvAnnWnd(
    [c EXCEPT !.rcvNxt = SeqAdd(@, OosLen(o)), !.recvData = @ \o o.data,
              !.recvFlags = IF o.fin THEN @ \cup {"gotFin"} ELSE @])

\* What both kinds of in-sequence segments do.  The window is a u16_t.
Accept(c, o) ==
  UpdateRcvAnnWnd(
    [c EXCEPT !.rcvNxt = SeqAdd(@, OosLen(o)),
              !.rcvWnd = (@ - OosLen(o)) % (U16 + 1),
              !.recvData = @ \o o.data,
              !.recvFlags = IF o.fin THEN @ \cup {"gotFin"} ELSE @])

\* Mutant of TakeQueued: the order is not looked at.
TakeQueuedAnyway(c, o) == Accept(c, o)

\* One queued segment: taken if it is next, and those before it were.
TakeQueued(c, o) ==
  IF c.ooseq # <<>> \/ o.seq # c.rcvNxt THEN [c EXCEPT !.ooseq = Append(@, o)]
  ELSE LET d == Accept(Assert2(c, "ooseq tcplen > rcv_wnd", c.rcvWnd >= OosLen(o)), o)
       IN IF o.fin /\ c.state = "ESTABLISHED" THEN [d EXCEPT !.state = "CLOSE_WAIT"] ELSE d

\* What the queued segments change, all of them as far as they are next.
TakeAll(c, queue) ==
  LET r == FoldLeft(TakeQueued, [c EXCEPT !.ooseq = <<>>], queue)
  IN [c EXCEPT !.ooseq = r.ooseq, !.rcvNxt = r.rcvNxt, !.rcvWnd = r.rcvWnd, !.annWnd = r.annWnd,
               !.recvData = r.recvData, !.failed = r.failed,
               !.recvFlags = IF "gotFin" \in r.recvFlags THEN @ \cup {"gotFin"} ELSE @,
               !.state = IF r.state = "CLOSE_WAIT" THEN "CLOSE_WAIT" ELSE @]

\* The next segment in sequence, cut at the window and at what is queued already.
InSequence(c, o) ==
  LET w == IF OosLen(o) > c.rcvWnd
           THEN [o EXCEPT !.fin = FALSE, !.len = c.rcvWnd, !.data = SubSeq(@, 1, c.rcvWnd)] ELSE o
      p == Prefix(c.ooseq, LAMBDA q : SeqGEQ(SeqAdd(w.seq, OosLen(w)), OosEnd(q)))
      f == [w EXCEPT !.fin = w.fin \/ Fins(p.taken) > 0]
      queue == IF w.fin THEN <<>> ELSE p.left
      cut == IF queue # <<>> /\ SeqGT(SeqAdd(f.seq, OosLen(f)), Head(queue).seq)
             THEN Cut(f, SeqSub(Head(queue).seq, f.seq)) ELSE f
      d == Accept(Assert2(c, "tcplen > rcv_wnd", c.rcvWnd >= OosLen(cut)), cut)
  IN Ack(TakeAll(d, queue))

InWindow(c, seq) == SeqBetween(seq, c.rcvNxt, SeqAdd(c.rcvNxt, c.rcvWnd + SeqSpace - 1))

ReceiveData(c, s) ==
  LET old == SeqBetween(c.rcvNxt, SeqAdd(s.seq, 1), SeqAdd(s.seq, TcpLen(s) + SeqSpace - 1))
      off == IF old THEN SeqSub(c.rcvNxt, s.seq) ELSE 0
      data == SubSeq(s.data, off + 1, Len(s.data))
      o == [seq |-> SeqAdd(s.seq, off), data |-> data, len |-> Len(data), fin |-> s.fin]
      d == IF ~old /\ SeqLT(s.seq, c.rcvNxt) THEN AckNow(c) ELSE c
  IN CASE InWindow(c, o.seq) /\ o.seq = c.rcvNxt -> InSequence(d, o)
       [] InWindow(c, o.seq) /\ o.seq # c.rcvNxt -> QueueOutOfOrder(SendEmptyAck(d), o, TcpLen(s))
       [] OTHER -> SendEmptyAck(d)

Receive(c, s) ==
  LET d == IF s.ack THEN ReceiveAck(c, s) ELSE c
  IN IF TcpLen(s) > 0 /\ c.state \in {"ESTABLISHED", "FIN_WAIT_1", "FIN_WAIT_2"}
     THEN ReceiveData(d, s)
     ELSE IF InWindow(c, s.seq) THEN d ELSE AckNow(d)

-----------------------------------------------------------------------------
(* tcp_process                                                             *)

\* The answer to a segment of a connection that does not exist, or not any more.
Refuse(c, s) == Rst(c, s.ackno, SeqAdd(s.seq, TcpLen(s)))

ProcessRst(c, s) ==
  IF \/ c.state = "SYN_SENT" /\ s.ackno = c.sndNxt
     \/ c.state # "SYN_SENT" /\ SeqBetween(s.seq, c.rcvNxt, SeqAdd(c.rcvNxt, c.rcvWnd))
  THEN [c EXCEPT !.recvFlags = {"reset"}, !.flags = @ \ {"ackDelay"}]
  ELSE c

ProcessSynSent(c, s) ==
  CASE s.ack /\ s.syn /\ s.ackno = SeqAdd(Head(c.unacked).seq, 1) ->
         AckNow([c EXCEPT !.sndBuf = @ + 1, !.rcvNxt = SeqAdd(s.seq, 1), !.annEdge = SeqAdd(s.seq, 1),
                          !.lastack = s.ackno, !.sndWnd = s.wnd, !.wndMax = s.wnd,
                          !.wl1 = SeqAdd(s.seq, SeqSpace - 1), !.state = "ESTABLISHED",
                          !.ssthresh = c.mss * 10, !.cwnd = IF @ = 1 THEN c.mss * 2 ELSE c.mss,
                          !.unacked = Tail(@), !.rtime = Tail(c.unacked) # <<>>,
                          !.nrtx = IF Tail(c.unacked) = <<>> THEN @ ELSE 0])
    [] s.ack /\ ~(s.syn /\ s.ackno = SeqAdd(Head(c.unacked).seq, 1)) -> Refuse(c, s)
    [] OTHER -> c

GotFin(c) == "gotFin" \in c.recvFlags

CloseWaitOnFin(c) == IF GotFin(c) THEN [AckNow(c) EXCEPT !.state = "CLOSE_WAIT"] ELSE c

TimeWait(c) == [Purge(c) EXCEPT !.state = "TIME_WAIT"]

\* The accept callback gave the application its pcb; the SYN it acknowledges is
\* not data.
Opened(d, first) ==
  CloseWaitOnFin([d EXCEPT !.acked = IF @ # 0 THEN @ - 1 ELSE 0,
                           !.cwnd = IF first THEN d.mss * 2 ELSE d.mss])

AcksOurSyn(c, s) == s.ack /\ SeqBetween(s.ackno, SeqAdd(c.lastack, 1), c.sndNxt)

ProcessSynRcvd(c, s, accepts) ==
  CASE AcksOurSyn(c, s) ->
         IF ~accepts THEN Abandon(c, TRUE)
         ELSE Opened(Receive([c EXCEPT !.state = "ESTABLISHED", !.held = TRUE], s), c.cwnd = 1)
    [] s.ack /\ ~AcksOurSyn(c, s) -> Refuse(c, s)
    [] ~s.ack /\ s.syn /\ s.seq = SeqAdd(c.rcvNxt, SeqSpace - 1) -> Rexmit(c)
    [] OTHER -> c

\* Our FIN counts as acknowledged when everything sent is, sent FIN or not.
AllAcked(c, s) == s.ack /\ s.ackno = c.sndNxt

\* A closing pcb after tcp_receive.
Closing(d, s) ==
  CASE d.state = "FIN_WAIT_1" /\ GotFin(d) ->
         IF AllAcked(d, s) THEN TimeWait(AckNow(d)) ELSE [AckNow(d) EXCEPT !.state = "CLOSING"]
    [] d.state = "FIN_WAIT_1" /\ ~GotFin(d) /\ AllAcked(d, s) -> [d EXCEPT !.state = "FIN_WAIT_2"]
    [] d.state = "FIN_WAIT_2" /\ GotFin(d) -> TimeWait(AckNow(d))
    [] d.state = "CLOSING" /\ AllAcked(d, s) -> TimeWait(d)
    [] d.state = "LAST_ACK" /\ AllAcked(d, s) -> [d EXCEPT !.recvFlags = @ \cup {"closed"}]
    [] OTHER -> d

Process(c, s, accepts) ==
  CASE s.rst -> ProcessRst(c, s)
    [] ~s.rst /\ s.syn /\ c.state \notin {"SYN_SENT", "SYN_RCVD"} -> AckNow(c)
    [] ~s.rst /\ c.state = "SYN_SENT" -> ProcessSynSent(c, s)
    [] ~s.rst /\ c.state = "SYN_RCVD" -> ProcessSynRcvd(c, s, accepts)
    [] ~s.rst /\ ~s.syn /\ c.state \in {"ESTABLISHED", "CLOSE_WAIT"} -> CloseWaitOnFin(Receive(c, s))
    [] OTHER -> Closing(Receive(c, s), s)

-----------------------------------------------------------------------------
(* tcp_input                                                               *)

\* tcp_output, held back while the callbacks ran.
Output(c) == TcpOutput([c EXCEPT !.inInput = FALSE])

\* What was acknowledged, then what came in.
DeliverData(c, answer) ==
  IF c.recvData = <<>> THEN c ELSE EventRecv(c, c.recvData, answer)

\* Mutant of DeliverFin: the end of the stream overtakes refused data.
DeliverFinAtOnce(c) == IF GotFin(c) THEN EventClosed(c) ELSE c

\* The end of the stream waits behind data the application refused.
DeliverFin(c) ==
  IF ~GotFin(c) THEN c
  ELSE IF c.refused # <<>> THEN [c EXCEPT !.refusedFin = TRUE] ELSE EventClosed(c)

\* The callbacks, in the order of the code.
Deliver(c, answer) ==
  CASE c.recvData # <<>> /\ "rxClosed" \in c.flags -> Abandon(c, TRUE)
    [] c.recvData # <<>> /\ "rxClosed" \notin c.flags /\ answer = "aborted" ->
         EventRecv(c, c.recvData, answer)
    [] OTHER -> Output(DeliverFin(DeliverData(c, answer)))

Finish(c, answer) ==
  CASE "reset" \in c.recvFlags -> Free(PcbRemove(EventErr(c, "ERR_RST")))
    [] "closed" \in c.recvFlags ->
         Free(PcbRemove(IF "rxClosed" \in c.flags THEN c ELSE EventErr(c, "ERR_CLSD")))
    [] OTHER -> IF c.state = "FREE" THEN c ELSE Deliver([c EXCEPT !.told = @ + c.acked], answer)

\* Mutant of EndInput: the flags of one segment are seen by the next.
EndInputKeeping(c) == [c EXCEPT !.inInput = FALSE, !.recvData = <<>>]

EndInput(c) == [c EXCEPT !.inInput = FALSE, !.recvData = <<>>, !.recvFlags = {}]

\* While the application refuses data offered before, it is offered no more.
InputTo(c, s, answer, accepts) ==
  IF c.state = "FREE" \/ (c.refused # <<>> /\ TcpLen(s) > 0) THEN c
  ELSE EndInput(Finish(Process([c EXCEPT !.inInput = TRUE], s, accepts), answer))

Input(c, s, again, answer, accepts) ==
  InputTo(IF c.refused = <<>> THEN c ELSE ProcessRefused(c, again), s, answer, accepts)

\* tcp_listen_input, on the pcb it allocates.
ListenInput(c, s, iss) ==
  IF s.rst THEN c
  ELSE IF s.ack THEN Refuse(c, s)
  ELSE IF ~s.syn THEN c
  ELSE TcpOutput(EnqueueFlags(
         [Alloc(c.id, iss) EXCEPT
            !.state = "SYN_RCVD", !.rcvNxt = SeqAdd(s.seq, 1), !.annEdge = SeqAdd(s.seq, 1),
            !.sndWnd = s.wnd, !.wndMax = s.wnd, !.ssthresh = s.wnd,
            !.wl1 = SeqAdd(s.seq, SeqSpace - 1)], TRUE, FALSE))

\* tcp_timewait_input
TimewaitInput(c, s) ==
  CASE s.rst -> c
    [] ~s.rst /\ s.syn /\ SeqBetween(s.seq, c.rcvNxt, SeqAdd(c.rcvNxt, c.rcvWnd)) -> Refuse(c, s)
    [] OTHER -> IF TcpLen(s) > 0 THEN TcpOutput(AckNow(c)) ELSE c
=============================================================================
