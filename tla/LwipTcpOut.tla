----------------------------- MODULE LwipTcpOut -----------------------------
(***************************************************************************)
(* lwIP's TCP output (tcp_out.c), the stack behind tun2socks, as functions *)
(* from a protocol control block to a protocol control block.  A pcb is a  *)
(* record with the fields of struct tcp_pcb the behaviour depends on, and  *)
(* with three more: `out', the segments handed to ip_output by the running *)
(* call; `rc', the call's err_t; `failed', the LWIP_ASSERTs that did not   *)
(* hold.  A segment's data are the positions of its bytes in the sender's  *)
(* stream.                                                                 *)
(***************************************************************************)
EXTENDS Integers, Sequences, SequencesExt, FiniteSets

CONSTANTS
  SeqSpace,    \* sequence numbers are taken modulo this (2^32 in the code)
  U16,         \* largest u16_t
  Wnd,         \* TCP_WND
  SndBuf,      \* TCP_SND_BUF
  Mss,         \* the mss both ends agree on
  DupAckLimit, \* duplicate acks before a fast retransmission (3 in the code)
  MaxRtx,      \* TCP_MAXRTX
  SynMaxRtx    \* TCP_SYNMAXRTX

ASSUME TcpConstants ==
  /\ {SeqSpace, U16, Wnd, SndBuf, Mss, DupAckLimit} \subseteq Nat \ {0}
  /\ SeqSpace % 2 = 0 /\ 2 * Wnd < SeqSpace
  /\ {Wnd, SndBuf, Mss} \subseteq 1 .. U16
  /\ MaxRtx \in Nat /\ SynMaxRtx \in 0 .. MaxRtx

Lesser(a, b) == IF a <= b THEN a ELSE b

-----------------------------------------------------------------------------
(* Sequence numbers: TCP_SEQ_LT and its kin compare the signed difference. *)

SeqAdd(a, n) == (a + n) % SeqSpace
SeqSub(a, b) == (a - b) % SeqSpace
SeqLT(a, b)  == SeqSub(a, b) >= SeqSpace \div 2
SeqLEQ(a, b) == a = b \/ SeqLT(a, b)
SeqGT(a, b)  == ~SeqLEQ(a, b)
SeqGEQ(a, b) == ~SeqLT(a, b)
SeqBetween(a, b, c) == SeqGEQ(a, b) /\ SeqLEQ(a, c)

Segment(seq, data, syn, fin) == [seq |-> seq, data |-> data, syn |-> syn, fin |-> fin]

TcpLen(s) == Len(s.data) + (IF s.syn \/ s.fin THEN 1 ELSE 0)
SegEnd(s) == SeqAdd(s.seq, TcpLen(s))

\* Where the queues sorted by sequence number take a segment.
Insert(queue, s) ==
  LET n == Cardinality({i \in DOMAIN queue : SeqLT(queue[i].seq, s.seq)})
  IN SubSeq(queue, 1, n) \o <<s>> \o SubSeq(queue, n + 1, Len(queue))

Sorted(queue) == FoldLeft(Insert, <<>>, queue)

Assert2(c, name, holds) == IF holds THEN c ELSE [c EXCEPT !.failed = @ \cup {name}]

-----------------------------------------------------------------------------
(* What is handed to ip_output.                                            *)

Wire(c, s, ack, rst) ==
  [from |-> c.id, seq |-> s.seq, data |-> s.data, syn |-> s.syn, fin |-> s.fin,
   ack |-> ack, ackno |-> c.rcvNxt, wnd |-> c.annWnd, rst |-> rst]

\* tcp_output_alloc_header and the send of what it allocated.
SendHeader(c, s) ==
  [c EXCEPT !.out = Append(@, Wire(c, s, TRUE, FALSE)),
            !.annEdge = SeqAdd(c.rcvNxt, c.annWnd)]

SendEmptyAck(c) ==
  [SendHeader(c, Segment(c.sndNxt, <<>>, FALSE, FALSE))
     EXCEPT !.flags = @ \ {"ackDelay", "ackNow"}]

AckNow(c) == [c EXCEPT !.flags = @ \cup {"ackNow"}]

\* tcp_ack: every second segment is acknowledged at once.
Ack(c) ==
  [c EXCEPT !.flags = IF "ackDelay" \in @ THEN (@ \ {"ackDelay"}) \cup {"ackNow"}
                      ELSE @ \cup {"ackDelay"}]

\* tcp_rst: needs no pcb, its numbers come from the call.
Rst(c, seq, ackno) ==
  [c EXCEPT !.out = Append(@,
     [from |-> c.id, seq |-> seq, data |-> <<>>, syn |-> FALSE, fin |-> FALSE,
      ack |-> TRUE, ackno |-> ackno, wnd |-> Wnd, rst |-> TRUE])]

-----------------------------------------------------------------------------
(* Queueing.                                                               *)

\* tcp_enqueue_flags: a segment of its own for SYN or FIN.
EnqueueFlags(c, syn, fin) ==
  IF c.sndBuf = 0 THEN [c EXCEPT !.rc = "ERR_MEM"]
  ELSE [c EXCEPT !.unsent = Append(@, Segment(c.lbb, <<>>, syn, fin)),
                 !.lbb = SeqAdd(@, 1),
                 !.sndBuf = @ - 1,
                 !.flags = IF fin THEN @ \cup {"fin"} ELSE @,
                 !.rc = "ERR_OK"]

\* tcp_send_fin: on the last unsent segment when that carries data.
SendFin(c) ==
  IF c.unsent # <<>> /\ ~Last(c.unsent).syn /\ ~Last(c.unsent).fin
  THEN [c EXCEPT !.unsent[Len(c.unsent)].fin = TRUE,
                 !.flags = @ \cup {"fin"}, !.rc = "ERR_OK"]
  ELSE EnqueueFlags(c, FALSE, TRUE)

WriteAllowed(c) == c.state \in {"ESTABLISHED", "CLOSE_WAIT", "SYN_SENT", "SYN_RCVD"}

\* tcp_write_checks
WriteChecks(c, len) ==
  CASE ~WriteAllowed(c) -> [c EXCEPT !.rc = "ERR_CONN"]
    [] WriteAllowed(c) /\ len > c.sndBuf ->
         [c EXCEPT !.rc = "ERR_MEM", !.flags = @ \cup {"nagleMemErr"}]
    [] OTHER -> [c EXCEPT !.rc = "ERR_OK"]

\* No segment is larger than half the largest window ever announced.
MssLocal(c) == Lesser(c.mss, c.wndMax \div 2)

\* The rest of the data in segments of MssLocal.
Chop(c, seq, data) ==
  LET size == MssLocal(c)
      count == (Len(data) + size - 1) \div size
  IN [i \in 1 .. count |->
       Segment(SeqAdd(seq, (i - 1) * size),
               SubSeq(data, (i - 1) * size + 1, Lesser(i * size, Len(data))), FALSE, FALSE)]

\* Mutant of RestSeq: what filled the last segment is numbered again.
RestSeqUnfilled(c, fill) == c.lbb

\* Where the data after the filled segment starts.
RestSeq(c, fill) == SeqAdd(c.lbb, fill)

\* tcp_write: fill the last unsent segment, then new ones.  With a window that
\* never exceeded one byte MssLocal is 0 and the loop ends by running out of
\* queue, with ERR_MEM.
TcpWrite(c, data) ==
  LET d == WriteChecks(c, Len(data))
      last == Last(c.unsent)
      room == IF c.unsent # <<>> /\ last.data # <<>> /\ ~last.fin
                THEN Lesser(Len(data), MssLocal(c) - Len(last.data)) ELSE 0
      fill == IF room > 0 THEN room ELSE 0
      rest == SubSeq(data, fill + 1, Len(data))
      queue == IF fill = 0 THEN c.unsent
               ELSE [c.unsent EXCEPT ![Len(c.unsent)].data = @ \o SubSeq(data, 1, fill)]
  IN IF d.rc # "ERR_OK" THEN d
     ELSE IF rest # <<>> /\ MssLocal(c) = 0
       THEN [d EXCEPT !.rc = "ERR_MEM", !.flags = @ \cup {"nagleMemErr"}]
       ELSE [d EXCEPT !.unsent = queue \o Chop(c, RestSeq(c, fill), rest),
                      !.lbb = SeqAdd(@, Len(data)),
                      !.sndBuf = @ - Len(data)]

-----------------------------------------------------------------------------
(* tcp_output and the retransmissions.                                     *)

\* Mutant of Fits: only the congestion window is looked at.
FitsCwnd(c, i) == SeqSub(SeqAdd(c.unsent[i].seq, Len(c.unsent[i].data)), c.lastack) <= c.cwnd

\* The i-th unsent segment fits into both windows once those before it are sent.
Fits(c, i) ==
  SeqSub(SeqAdd(c.unsent[i].seq, Len(c.unsent[i].data)), c.lastack) <= Lesser(c.sndWnd, c.cwnd)

\* tcp_do_output_nagle for the i-th segment, and the flags that override it.
Nagle(c, i) ==
  \/ i = 1 /\ c.unacked = <<>>
  \/ c.flags \cap {"inFr", "nagleMemErr", "fin"} # {}
  \/ i < Len(c.unsent)
  \/ Len(c.unsent[i].data) >= c.mss
  \/ c.sndBuf = 0

Sendable(c) ==
  CHOOSE k \in 0 .. Len(c.unsent) :
    /\ \A i \in 1 .. k : Fits(c, i) /\ Nagle(c, i)
    /\ k < Len(c.unsent) => ~(Fits(c, k + 1) /\ Nagle(c, k + 1))

\* tcp_output_segment, for the first k unsent segments.
OutputSegments(c, k) ==
  LET sent == SubSeq(c.unsent, 1, k)
      top == SegEnd(sent[k])
  IN [c EXCEPT
       !.out = @ \o [i \in 1 .. k |-> Wire(c, sent[i], c.state # "SYN_SENT", FALSE)],
       !.unsent = SubSeq(@, k + 1, Len(@)),
       !.unacked = FoldLeft(Insert, @, sent),
       !.sndNxt = IF SeqLT(@, top) THEN top ELSE @,
       !.annEdge = SeqAdd(c.rcvNxt, c.annWnd),
       !.rtime = TRUE,
       !.flags = IF c.state = "SYN_SENT" THEN @ ELSE @ \ {"ackDelay", "ackNow"}]

\* tcp_output returns at once inside tcp_input, which calls it at its end.
TcpOutput(c) ==
  LET k == Sendable(c) IN
  IF c.inInput THEN c
  ELSE IF "ackNow" \in c.flags /\ (c.unsent = <<>> \/ ~Fits(c, 1)) THEN SendEmptyAck(c)
  ELSE LET d == IF k = 0 THEN c ELSE OutputSegments(c, k)
       IN [d EXCEPT !.flags = @ \ {"nagleMemErr"}]

\* Retransmissions are counted in a u8_t; past the limit the model stops counting.
CountRtx(c) == IF c.nrtx > MaxRtx THEN c.nrtx ELSE c.nrtx + 1

\* tcp_rexmit_rto: everything in flight is unsent again.
RexmitRto(c) ==
  IF c.unacked = <<>> THEN c
  ELSE TcpOutput([c EXCEPT !.unsent = c.unacked \o @, !.unacked = <<>>, !.nrtx = CountRtx(c)])

\* tcp_rexmit: the first segment in flight is unsent again.
Rexmit(c) ==
  IF c.unacked = <<>> THEN c
  ELSE [c EXCEPT !.unsent = Insert(@, Head(c.unacked)), !.unacked = Tail(@), !.nrtx = CountRtx(c)]

\* tcp_rexmit_fast
RexmitFast(c) ==
  IF c.unacked = <<>> \/ "inFr" \in c.flags THEN c
  ELSE LET half == Lesser(c.cwnd, c.sndWnd) \div 2
           thresh == IF half < 2 * c.mss THEN 2 * c.mss ELSE half
       IN [Rexmit(c) EXCEPT !.ssthresh = thresh, !.cwnd = thresh + 3 * c.mss,
                            !.flags = @ \cup {"inFr"}]

\* tcp_keepalive: the byte before the next one, to be acknowledged again.
Keepalive(c) == SendHeader(c, Segment(SeqAdd(c.sndNxt, SeqSpace - 1), <<>>, FALSE, FALSE))

\* tcp_zero_window_probe: a FIN, or one byte, that is not counted as sent.
ZeroWindowProbe(c) ==
  IF c.unacked = <<>> /\ c.unsent = <<>> THEN c
  ELSE LET s == IF c.unacked # <<>> THEN Head(c.unacked) ELSE Head(c.unsent)
           isFin == s.fin /\ s.data = <<>>
       IN SendHeader(c, Segment(s.seq, IF isFin THEN <<>> ELSE SubSeq(s.data, 1, 1), FALSE, isFin))
=============================================================================
