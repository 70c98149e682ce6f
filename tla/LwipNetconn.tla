----------------------------- MODULE LwipNetconn -----------------------------
(***************************************************************************)
(* lwIP's netconns: api_msg.c, the half of the sequential API that runs on *)
(* the tcpip thread.  The stack below is what its calls and callbacks show *)
(* of it: a pcb with room to send and a receive window.                    *)
(*                                                                         *)
(* A handler maps a netconn to the netconn it leaves, with `ev' the        *)
(* callbacks, posts and semaphores it goes through on the way out, one by  *)
(* one and in this order, while the application's threads run.             *)
(***************************************************************************)
EXTENDS Integers, SequencesExt

CONSTANTS
  RecvMboxSize, AcceptMboxSize, \* room in the mailboxes of a netconn
  SndBuf, SndLowat,             \* a pcb's send buffer, and the room that counts as writable
  Wnd                           \* its receive window

Least(a, b) == IF a < b THEN a ELSE b

Fatal == {"ABRT", "RST", "CLSD", "CONN"}
EOF == [from |-> 0, len |-> 0, push |-> FALSE]  \* the NULL in a mailbox
NoMsg == [len |-> 0, dont |-> FALSE, how |-> {}]
NewPcb == [st |-> "closed", recv |-> TRUE, sent |-> TRUE, room |-> SndBuf, given |-> 0,
           wnd |-> Wnd, fin |-> FALSE, passive |-> FALSE, txShut |-> FALSE, eofLost |-> FALSE]
NoPcb == [NewPcb EXCEPT !.st = "none"]

\* netconn_alloc and do_newconn.
Netconn(id, type) ==
  [id |-> id, type |-> type, state |-> "none", err |-> "OK", rbox |-> <<>>, rvalid |-> TRUE,
   abox |-> <<>>, avalid |-> FALSE, socket |-> -1, nonblock |-> FALSE, nbConnect |-> FALSE,
   checkSpace |-> FALSE, cur |-> NoMsg, offset |-> 0, sendTimeout |-> FALSE, recvTimeout |-> FALSE,
   pcb |-> IF type = "udp" THEN [NewPcb EXCEPT !.st = "udp"] ELSE NewPcb,
   ev |-> <<>>, fail |-> "none"]
Free == [Netconn(0, "free") EXCEPT !.pcb = NoPcb, !.rvalid = FALSE]

SafeErr(c, err) == IF c.err \in Fatal THEN c ELSE [c EXCEPT !.err = err]
Out(c, what) == [c EXCEPT !.ev = @ \o [i \in DOMAIN what |-> <<c.id, what[i]>>]]
Event(e) == [op |-> "event", evt |-> e]
Reply(c, err) == Out(c, <<[op |-> "signal", err |-> err]>>)
Fails(c, why) == [c EXCEPT !.fail = why]

-----------------------------------------------------------------------------
(* Callbacks of the stack.                                                 *)

TcpRecved(c, n) == [c EXCEPT !.pcb.wnd = Least(Wnd, @ + n)]

RecvUdp(c, p) ==
  IF ~c.rvalid \/ Len(c.rbox) = RecvMboxSize THEN c
  ELSE Out([c EXCEPT !.rbox = Append(@, p), !.pcb.given = @ + p.len], <<Event("RCVPLUS")>>)

\* The pcb is gone: whoever waits learns it, in this order. A netconn with an
\* acceptmbox listens, and a listening pcb reports no errors.
ErrTcp(c, err) ==
  LET waits == c.state \in {"write", "close", "connect"}
      d == [c EXCEPT !.pcb = NoPcb, !.err = err, !.state = "none", !.cur = NoMsg,
                     !.nbConnect = @ /\ ~waits]
      told == Out(d, <<Event("ERROR"), Event("RCVPLUS"), Event("SENDPLUS")>>
                  \o (IF c.rvalid THEN <<[op |-> "postRecv"]>> ELSE <<>>))
  IN IF waits /\ ~c.nbConnect THEN Reply(told, err) ELSE told

RecvMboxFull(c) == Len(c.rbox) = RecvMboxSize
Posts(c, p) == Out(SafeErr([c EXCEPT !.rbox = Append(@, p)], "OK"), <<Event("RCVPLUS")>>)

\* A full mailbox makes the stack keep the segment and offer it again; data for
\* a pcb that receives no more aborts it.
RecvTcp(c, p) ==
  CASE ~c.pcb.recv -> ErrTcp(c, "ABRT")
    [] c.pcb.recv /\ ~c.rvalid -> [c EXCEPT !.pcb.given = @ + p.len]
    [] c.pcb.recv /\ c.rvalid /\ RecvMboxFull(c) -> SafeErr(c, "OK")
    [] OTHER -> Posts([c EXCEPT !.pcb.given = @ + p.len, !.pcb.wnd = @ - p.len], p)

\* The peer's FIN alone is not kept: it is lost on a full mailbox.
RecvTcpFin(c) ==
  LET d == [c EXCEPT !.pcb.fin = TRUE, !.pcb.passive = ~c.pcb.txShut]
  IN IF ~c.pcb.recv \/ ~c.rvalid THEN d
     ELSE IF RecvMboxFull(c) THEN SafeErr([d EXCEPT !.pcb.eofLost = TRUE], "OK")
     ELSE Posts(d, EOF)

\* Both sides are closed. The passive closer is told unless it receives no more;
\* the active one's pcb leaves TIME_WAIT, and is freed, behind its back.
BothClosed(c) ==
  IF c.pcb.passive /\ c.pcb.recv THEN ErrTcp(c, "CLSD") ELSE [c EXCEPT !.pcb.st = "freed"]

\* The end of do_writemore leaves write_offset alone.
WriteFinished(c, err) == Reply([c EXCEPT !.cur = NoMsg, !.state = "none"], err)

TcpWriteErr(c, n, mem) ==
  IF c.pcb.st # "open" \/ c.pcb.txShut THEN "CONN" ELSE IF n > 0 /\ ~mem THEN "MEM" ELSE "OK"

\* What do_writemore makes of the answer `err' to n bytes.
WriteAnswered(c, n, err, dont) ==
  LET sent == IF err = "OK" THEN [c EXCEPT !.pcb.room = @ - n, !.offset = @ + n] ELSE c
      some == dont /\ n < c.cur.len
      told == IF err = "CONN" \/ (~some /\ sent.pcb.room > SndLowat) THEN sent
              ELSE Out([sent EXCEPT !.checkSpace = @ \/ some], <<Event("SENDMINUS")>>)
  IN IF err = "OK" /\ (told.offset = c.cur.len \/ dont)
     THEN WriteFinished([told EXCEPT !.offset = 0], "OK")
     ELSE IF err = "OK" \/ (err = "MEM" /\ ~dont) THEN told
     ELSE WriteFinished(told, err)

WriteTimedOut(c) ==
  WriteFinished(c, IF c.offset = 0 THEN "WOULDBLOCK" ELSE "OK")

\* x: whether memory is there and whether the send timeout has run out.
DoWritemore(c, x) ==
  IF x.late THEN WriteTimedOut(c)
  ELSE LET left == c.cur.len - c.offset
           n == Least(left, c.pcb.room)
           dont == c.nonblock \/ c.cur.dont
       IN WriteAnswered(c, n, IF dont /\ n = 0 THEN "WOULDBLOCK" ELSE TcpWriteErr(c, n, x.mem), dont)

\* tcp_shutdown refuses to close the sending side of a pcb that is not open.
ShutdownRefused(c) ==
  /\ c.cur.how # {"rd", "wr"} /\ "wr" \in c.cur.how
  /\ c.pcb.st # "open" \/ c.pcb.txShut

\* do_close_internal: refused, or without memory for the FIN, it waits for
\* poll_tcp.  A close with unread data sends a RST instead of the FIN.
DoCloseInternal(c, x) ==
  LET shut == c.cur.how
      close == shut = {"rd", "wr"}
      fin == "wr" \in shut /\ c.pcb.st = "open" /\ ~c.pcb.txShut /\ (close => c.pcb.wnd = Wnd)
      cut == [c EXCEPT !.pcb.recv = @ /\ "rd" \notin shut]
      pcb == [cut.pcb EXCEPT !.sent = @ /\ "wr" \notin shut, !.txShut = @ \/ "wr" \in shut]
      done == [cut EXCEPT !.cur = NoMsg, !.state = "none", !.pcb = IF close THEN NoPcb ELSE pcb]
  IN IF ShutdownRefused(c) \/ (fin /\ ~x.mem) THEN [cut EXCEPT !.pcb.sent = TRUE]
     ELSE Reply(Out(done, (IF close THEN <<Event("ERROR")>> ELSE <<>>)
                       \o (IF "rd" \in shut THEN <<Event("RCVPLUS")>> ELSE <<>>)
                       \o (IF "wr" \in shut THEN <<Event("SENDPLUS")>> ELSE <<>>)), "OK")

Writable(c) == c.pcb.st # "none" /\ c.pcb.room > SndLowat
Resume(c, x) ==
  IF c.state = "write" THEN DoWritemore(c, x) ELSE IF c.state = "close" THEN DoCloseInternal(c, x) ELSE c
TellWritable(c) ==
  IF Writable(c) THEN Out([c EXCEPT !.checkSpace = FALSE], <<Event("SENDPLUS")>>) ELSE c

PollTcp(c, x) == LET d == Resume(c, x) IN IF d.checkSpace THEN TellWritable(d) ELSE d
SentTcp(c, x) == TellWritable(Resume([c EXCEPT !.pcb.room = SndBuf], x))

DoConnected(c) ==
  LET d == [c EXCEPT !.pcb.st = "open", !.nbConnect = FALSE, !.cur = NoMsg, !.state = "none"]
  IN IF c.nbConnect THEN Out(SafeErr(d, "OK"), <<Event("SENDPLUS")>>)
     ELSE Reply(Out(d, <<Event("SENDPLUS")>>), "OK")

\* accept_function on the listening netconn, the new one being n.
AcceptFunction(c, n) == Out([c EXCEPT !.abox = Append(@, n)], <<Event("RCVPLUS")>>)
Accepted(n) == [Netconn(n, "tcp") EXCEPT !.pcb.st = "open"]

-----------------------------------------------------------------------------
(* Messages of the application.                                            *)

Bytes(box) == FoldLeft(LAMBDA n, p : n + p.len, 0, box)

\* netconn_drain: what was not read is given back to the window.
Drained(c) ==
  LET d == IF c.type = "tcp" THEN TcpRecved(c, Bytes(c.rbox)) ELSE c
  IN [d EXCEPT !.rbox = <<>>, !.rvalid = FALSE, !.abox = <<>>, !.avalid = FALSE]

\* The assertion "already writing or closing".
Takes(c, state, msg) ==
  IF c.offset # 0 THEN Fails(c, "already writing or closing")
  ELSE [c EXCEPT !.state = state, !.cur = msg]

DoDelconn(c, msg, x) ==
  IF c.state \notin {"none", "listen", "connect"} THEN Reply(c, "INPROGRESS")
  ELSE LET d == Drained(c)
           t == Takes(d, "close", [msg EXCEPT !.how = {"rd", "wr"}])
       IN IF c.type = "tcp" /\ c.pcb.st # "none"
          THEN IF t.fail # "none" THEN t ELSE DoCloseInternal(t, x)
          ELSE Reply(Out([d EXCEPT !.pcb = NoPcb], <<Event("RCVPLUS"), Event("SENDPLUS")>>), "OK")

DoConnect(c, msg, x) ==
  IF c.pcb.st = "none" THEN Reply(c, "CLSD")
  ELSE IF c.type = "udp" THEN Reply(c, "OK")
  ELSE IF c.state # "none" \/ c.pcb.st # "closed" THEN Reply(c, "ISCONN")
  ELSE LET d == [c EXCEPT !.state = "connect", !.nbConnect = c.nonblock, !.pcb.st = "syn"]
       IN IF c.nonblock THEN Reply(d, "INPROGRESS") ELSE [d EXCEPT !.cur = msg]

DoListen(c, msg, x) ==
  IF c.err \in Fatal THEN Reply(c, c.err)
  ELSE IF c.pcb.st # "none" /\ c.type # "tcp" THEN Reply(c, "ARG")
  ELSE IF c.pcb.st = "none" \/ c.state # "none" THEN Reply(c, "CONN")
  ELSE IF c.pcb.st # "closed" \/ ~x.mem THEN Reply(c, "MEM")
  ELSE Reply([c EXCEPT !.state = "listen", !.pcb.st = "listen", !.rvalid = FALSE, !.rbox = <<>>,
                       !.avalid = TRUE], "OK")

DoRecv(c, msg, x) == Reply(IF c.pcb.st = "none" \/ c.type # "tcp" THEN c ELSE TcpRecved(c, msg.len), "OK")

DoSend(c, msg, x) ==
  Reply(c, IF c.err \in Fatal THEN c.err ELSE IF c.pcb.st = "none" THEN "CONN"
           ELSE IF x.mem THEN "OK" ELSE "MEM")

DoWrite(c, msg, x) ==
  IF c.err \in Fatal THEN Reply(c, c.err)
  ELSE IF c.state # "none" THEN Reply(c, "INPROGRESS")
  ELSE IF c.pcb.st = "none" THEN Reply(c, "CONN")
  ELSE LET t == Takes(c, "write", msg) IN IF t.fail # "none" THEN t ELSE DoWritemore(t, x)

DoClose(c, msg, x) ==
  IF c.state \notin {"none", "listen"} THEN Reply(c, "INPROGRESS")
  ELSE IF c.pcb.st = "none" THEN Reply(c, "VAL")
  ELSE IF msg.how # {"rd", "wr"} /\ c.state = "listen" THEN Reply(c, "CONN")
  ELSE LET t == Takes(IF "rd" \in msg.how THEN Drained(c) ELSE c, "close", msg)
       IN IF t.fail # "none" THEN t ELSE DoCloseInternal(t, x)

DoGetaddr(c, msg, x) == Reply(c, IF c.pcb.st = "none" THEN "CONN" ELSE "OK")

\* Options that live in the pcb are looked up without asking whether it is there.
DoOption(c, msg, x) ==
  IF msg.how = "pcb" /\ c.pcb.st = "none" THEN Fails(c, "option of no pcb")
  ELSE Reply([c EXCEPT !.sendTimeout = @ \/ msg.how = "sndtimeo",
                       !.recvTimeout = @ \/ msg.how = "rcvtimeo"], "OK")

\* Any handler that reads a pcb freed behind the netconn's back is lost.
Do(fn, c, msg, x) ==
  IF c.pcb.st = "freed" THEN Fails(c, "freed pcb")
  ELSE CASE fn = "delete" -> DoDelconn(c, msg, x) [] fn = "connect" -> DoConnect(c, msg, x)
         [] fn = "listen" -> DoListen(c, msg, x) [] fn = "recved" -> DoRecv(c, msg, x)
         [] fn = "eof" -> DoRecv(c, msg, x) [] fn = "write" -> DoWrite(c, msg, x)
         [] fn = "send" -> DoSend(c, msg, x) [] fn = "close" -> DoClose(c, msg, x)
         [] fn = "peer" -> DoGetaddr(c, msg, x) [] fn = "option" -> DoOption(c, msg, x)
=============================================================================
