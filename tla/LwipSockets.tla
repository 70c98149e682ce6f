----------------------------- MODULE LwipSockets -----------------------------
(***************************************************************************)
(* lwIP's BSD sockets, sockets.c and api_lib.c, on top of the netconns.    *)
(* `app' is the application's thread, which works on any socket but in one *)
(* call at a time; the threads of Watchers only select.  The tcpip thread  *)
(* takes a message or a callback of the stack when `todo' is empty, and    *)
(* performs one entry of `todo' at a time.                                 *)
(*                                                                         *)
(* A select watches one socket for one event: a walk through the watched   *)
(* sockets is then one step, as is event_callback's through the list of    *)
(* selecting threads.                                                      *)
(***************************************************************************)
EXTENDS LwipNetconn, FiniteSets

CONSTANTS
  NumSockets,  \* NUM_SOCKETS = MEMP_NUM_NETCONN
  Watchers,    \* threads that select
  Programs,    \* what the application may be: the calls it makes, how many of
               \* them and of the selects at most, and the types of its socket
  MaxSize,     \* largest size of a read or write
  MaxGiven,    \* bytes a peer sends on one connection
  MaxFaults    \* budget of failures

\* There is a socket, and room for a packet; threads are finitely many, and the
\* application opens TCP and UDP sockets.
ASSUME SocketsAssumption ==
  /\ NumSockets \in Nat \ {0} /\ RecvMboxSize \in Nat \ {0} /\ MaxSize \in Nat
  /\ IsFiniteSet(Watchers) /\ \A p \in Programs : p.types \subseteq {"tcp", "udp"}

Socks == 0 .. NumSockets - 1
Conns == 1 .. NumSockets

VARIABLES
  program, \* what the application is
  conn,   \* the netconns
  sock,   \* the array of sockets
  todo,   \* what the tcpip thread has still to do for the last message
  app,    \* the application's call
  sel,    \* the selects
  got,    \* bytes read from each netconn
  peeked, \* netconns read with MSG_PEEK
  late,   \* a send has timed out in the middle
  calls, selects, faults

sockVars == <<program, conn, sock, todo, app, sel, got, peeked, late, calls, selects, faults>>

NoSock == [conn |-> 0, last |-> EOF, lastoff |-> 0, rcv |-> 0, snd |-> 0, err |-> 0, waiting |-> 0]
NoCall == [pc |-> "idle", s |-> 0, c |-> 0, fn |-> "none", len |-> 0, off |-> 0, peek |-> FALSE,
           dont |-> FALSE, how |-> {}, err |-> "OK", buf |-> EOF]
NoSelect == [pc |-> "no", s |-> 0, mode |-> "read", inList |-> FALSE, sem |-> FALSE, got |-> FALSE]

SocketsInit ==
  /\ program \in Programs
  /\ conn = [c \in Conns |-> Free] /\ sock = [s \in Socks |-> NoSock]
  /\ todo = <<>> /\ app = NoCall /\ sel = [t \in Watchers |-> NoSelect]
  /\ got = [c \in Conns |-> <<>>] /\ peeked = {} /\ late = FALSE
  /\ calls = 0 /\ selects = 0 /\ faults = 0

Alive == \A c \in Conns : conn[c].fail = "none"
C(s) == conn[sock[s].conn]
InUse(s) == sock[s].conn # 0
FreeConns == {c \in Conns : conn[c].type = "free"}
FirstOf(set) == CHOOSE c \in set : \A d \in set : c <= d

\* The netconn becomes d; what it says goes to `todo'.
Becomes(d) == conn' = [conn EXCEPT ![d.id] = [d EXCEPT !.ev = <<>>]] /\ todo' = d.ev

-----------------------------------------------------------------------------
(* event_callback and select.                                              *)

Scanned(sk, mode) ==
  CASE mode = "read" -> sk.rcv > 0 \/ sk.last # EOF
    [] mode = "write" -> sk.snd # 0
    [] mode = "except" -> sk.err # 0

\* What event_callback tests: bytes left over from a read are no event.
Happened(sk, mode) ==
  CASE mode = "read" -> sk.rcv > 0 [] mode = "write" -> sk.snd # 0 [] mode = "except" -> sk.err # 0

Counted(sk, evt) ==
  CASE evt = "RCVPLUS" -> [sk EXCEPT !.rcv = @ + 1] [] evt = "RCVMINUS" -> [sk EXCEPT !.rcv = @ - 1]
    [] evt = "SENDPLUS" -> [sk EXCEPT !.snd = 1] [] evt = "SENDMINUS" -> [sk EXCEPT !.snd = 0]
    [] evt = "ERROR" -> [sk EXCEPT !.err = 1]

\* Mutant: what arrives before accept has made a socket is not counted.
EventOfNoSocketDropped(c, evt) == c.socket

\* A netconn without a socket yet counts what arrives below -1.
EventOfNoSocket(c, evt) == IF evt = "RCVPLUS" THEN c.socket - 1 ELSE c.socket

\* Primed variables: conn, sock and sel.
EventCallback(id, evt) ==
  LET c == conn[id]
      sk == Counted(sock[c.socket], evt)
  IN IF c.socket < 0
     THEN /\ conn' = [conn EXCEPT ![id].socket = EventOfNoSocket(c, evt)]
          /\ UNCHANGED <<sock, sel>>
     ELSE IF sock[c.socket].conn = 0 THEN UNCHANGED <<conn, sock, sel>>
     ELSE /\ sock' = [sock EXCEPT ![c.socket] = sk]
          /\ sel' = IF sk.waiting = 0 THEN sel
                    ELSE [t \in Watchers |->
                           IF sel[t].inList /\ sel[t].s = c.socket /\ Happened(sk, sel[t].mode)
                           THEN [sel[t] EXCEPT !.sem = TRUE] ELSE sel[t]]
          /\ UNCHANGED conn

Steps(t, from, to) == sel[t].pc = from /\ sel' = [sel EXCEPT ![t] = to]
SelectUnchanged == UNCHANGED <<conn, todo, app, got, peeked, late, calls, faults>>

\* Sockets the application does not know yet, or is closing.
Unknown(s) == app.s = s /\ (app.pc = "acceptJoin" \/ app.fn = "delete")

\* The first lwip_selscan.
Select(t, s, mode) ==
  /\ selects < program.selects /\ selects' = selects + 1 /\ InUse(s) /\ ~Unknown(s)
  /\ Steps(t, "no", IF Scanned(sock[s], mode) THEN NoSelect
                    ELSE [NoSelect EXCEPT !.pc = "enlist", !.s = s, !.mode = mode])
  /\ UNCHANGED sock /\ SelectUnchanged

SelectEnlists(t) ==
  /\ Steps(t, "enlist", [sel[t] EXCEPT !.pc = "count", !.inList = TRUE])
  /\ UNCHANGED <<sock, selects>> /\ SelectUnchanged

SelectCounts(t) ==
  /\ Steps(t, "count", [sel[t] EXCEPT !.pc = "rescan"])
  /\ sock' = [sock EXCEPT ![sel[t].s].waiting = @ + 1]
  /\ UNCHANGED selects /\ SelectUnchanged

\* Mutant: whoever has counted itself in waits without looking again.
RescanNothing(s, mode) == FALSE

\* The second lwip_selscan sees what came before the socket knew of the waiting.
Rescan(s, mode) == Scanned(sock[s], mode)

SelectRescans(t) ==
  /\ Steps(t, "rescan", [sel[t] EXCEPT !.pc = IF Rescan(sel[t].s, sel[t].mode) THEN "leave" ELSE "wait"])
  /\ UNCHANGED <<sock, selects>> /\ SelectUnchanged

\* The semaphore, or the timeout.
SelectWakes(t) ==
  /\ Steps(t, "wait", [sel[t] EXCEPT !.pc = "leave"])
  /\ \/ sel[t].sem /\ UNCHANGED faults
     \/ faults < MaxFaults /\ faults' = faults + 1
  /\ UNCHANGED <<sock, selects, conn, todo, app, got, peeked, late, calls>>

SelectLeaves(t) ==
  /\ Steps(t, "leave", NoSelect)
  /\ sock' = [sock EXCEPT ![sel[t].s].waiting = @ - 1]
  /\ UNCHANGED selects /\ SelectUnchanged

-----------------------------------------------------------------------------
(* The tcpip thread.                                                       *)

\* Memory is there and no send timeout has run out, or that is one of the failures.
Luck(c) == [mem : BOOLEAN, late : IF c.sendTimeout /\ c.state = "write" THEN BOOLEAN ELSE {FALSE}]
Pays(x) ==
  /\ faults' = faults + (IF x.mem /\ ~x.late THEN 0 ELSE 1)
  /\ faults' <= MaxFaults

\* The next callback, post or semaphore of a handler.
TcpipContinues ==
  /\ Alive /\ todo # <<>> /\ todo' = Tail(todo)
  /\ LET id == Head(todo)[1]
         what == Head(todo)[2]
     IN CASE what.op = "event" -> EventCallback(id, what.evt) /\ UNCHANGED app
          [] what.op = "postRecv" ->
               /\ conn' = [conn EXCEPT ![id].rbox = IF Len(@) = RecvMboxSize THEN @ ELSE Append(@, EOF)]
               /\ UNCHANGED <<sock, sel, app>>
          [] what.op = "signal" ->
               /\ app' = [app EXCEPT !.pc = "back", !.err = what.err]
               /\ UNCHANGED <<conn, sock, sel>>
  /\ UNCHANGED <<got, peeked, late, calls, selects, faults>>

\* What the application's message does; draining an acceptmbox aborts and frees
\* the netconns in it.
TcpipTakesMessage ==
  /\ Alive /\ todo = <<>> /\ app.pc = "api"
  /\ \E x \in Luck([sendTimeout |-> FALSE]) :
       LET c == conn[app.c]
           d == Do(app.fn, c, [len |-> app.len, dont |-> app.dont, how |-> app.how], x)
       IN /\ Pays(x) /\ todo' = d.ev
          /\ conn' = [i \in Conns |->
                       IF i = app.c THEN [d EXCEPT !.ev = <<>>]
                       ELSE IF ~d.avalid /\ \E k \in DOMAIN c.abox : c.abox[k] = i THEN Free
                       ELSE conn[i]]
  /\ app' = [app EXCEPT !.pc = "wait"]
  /\ UNCHANGED <<sock, sel, got, peeked, late, calls, selects>>

\* A callback of the stack about netconn c.
Callback(c) == Alive /\ todo = <<>> /\ UNCHANGED <<sock, app, sel, got, peeked, calls, selects>>
ForFree == UNCHANGED <<faults, late>>
Fault == faults < MaxFaults /\ faults' = faults + 1 /\ UNCHANGED late

Connects(c) == Callback(c) /\ conn[c].state = "connect" /\ Becomes(DoConnected(conn[c])) /\ ForFree
Resets(c) == Callback(c) /\ conn[c].pcb.st \in {"syn", "open"} /\ Becomes(ErrTcp(conn[c], "RST")) /\ Fault

Ends(c) ==
  /\ Callback(c) /\ conn[c].pcb.st = "open" /\ conn[c].pcb.fin /\ conn[c].pcb.txShut
  /\ Becomes(BothClosed(conn[c])) /\ ForFree

Receives(c, n, push) ==
  /\ Callback(c) /\ conn[c].pcb.st \in {"open", "udp"} /\ ~conn[c].pcb.fin
  /\ conn[c].pcb.given + n <= MaxGiven
  /\ LET p == [from |-> conn[c].pcb.given + 1, len |-> n, push |-> push]
     IN \/ conn[c].type = "tcp" /\ n <= conn[c].pcb.wnd /\ Becomes(RecvTcp(conn[c], p))
        \/ conn[c].type = "udp" /\ push /\ Becomes(RecvUdp(conn[c], p))
  /\ ForFree

ReceivesFin(c) ==
  Callback(c) /\ conn[c].pcb.st = "open" /\ ~conn[c].pcb.fin /\ Becomes(RecvTcpFin(conn[c])) /\ ForFree

Told(c, d, x) == Becomes(d) /\ Pays(x) /\ late' = (late \/ (x.late /\ conn[c].offset # 0))
Sent(c) ==
  /\ Callback(c) /\ conn[c].pcb.st = "open" /\ conn[c].pcb.sent /\ conn[c].pcb.room < SndBuf
  /\ \E x \in Luck(conn[c]) : Told(c, SentTcp(conn[c], x), x)
Polls(c) ==
  /\ Callback(c) /\ conn[c].pcb.st = "open" /\ (conn[c].state \in {"write", "close"} \/ conn[c].checkSpace)
  /\ \E x \in Luck(conn[c]) : Told(c, PollTcp(conn[c], x), x)

\* A new connection, if there is room for it: accept_function.
Arrives(c, n) ==
  /\ Callback(c) /\ conn[c].state = "listen" /\ conn[n].type = "free" /\ Len(conn[c].abox) < AcceptMboxSize
  /\ LET d == AcceptFunction(conn[c], n)
     IN conn' = [conn EXCEPT ![c] = [d EXCEPT !.ev = <<>>], ![n] = Accepted(n)] /\ todo' = d.ev
  /\ ForFree

-----------------------------------------------------------------------------
(* The application.                                                        *)

AppUnchanged == UNCHANGED <<todo, late, selects, faults>>
Begins(fn, s) ==
  /\ Alive /\ app.pc = "idle" /\ fn \in program.calls /\ calls < program.max /\ calls' = calls + 1
  /\ fn = "socket" \/ InUse(s)
  /\ AppUnchanged
Asks(fn, s) == Begins(fn, s) /\ UNCHANGED <<conn, sock, sel, got, peeked>>
Message(fn, s, len, dont, how) ==
  [NoCall EXCEPT !.pc = "api", !.fn = fn, !.s = s, !.c = sock[s].conn, !.len = len, !.dont = dont, !.how = how]

\* lwip_socket: nobody else knows of the netconn yet.  The application opens one
\* socket at a time, and a second one with accept.
Socket(s, type) ==
  /\ Begins("socket", s) /\ s = 0 /\ \A r \in Socks : ~InUse(r)
  /\ FreeConns # {}
  /\ LET c == CHOOSE i \in FreeConns : TRUE
     IN /\ conn' = [conn EXCEPT ![c] = [Netconn(c, type) EXCEPT !.socket = s]]
        /\ sock' = [sock EXCEPT ![s] = [NoSock EXCEPT !.conn = c, !.snd = IF type = "tcp" THEN 0 ELSE 1]]
  /\ UNCHANGED <<sel, app, got, peeked>>

Connect(s) == Asks("connect", s) /\ app' = Message("connect", s, 0, FALSE, {})
Listen(s) == Asks("listen", s) /\ app' = Message("listen", s, 0, FALSE, {})
Send(s, len, dont) ==
  Asks("send", s) /\ app' = Message(IF C(s).type = "tcp" THEN "write" ELSE "send", s, len, dont, {})
Shutdown(s, how) == Asks("shutdown", s) /\ C(s).type = "tcp" /\ app' = Message("close", s, 0, FALSE, how)
Option(s, o) == Asks("option", s) /\ app' = Message("option", s, 0, FALSE, o)

\* A socket that another thread selects must not be closed: the code asserts it.
Close(s) ==
  /\ Asks("close", s) /\ \A t \in Watchers : sel[t].pc = "no" \/ sel[t].s # s
  /\ app' = Message("delete", s, 0, FALSE, {})

\* lwip_ioctl and lwip_fcntl.
SetNonblocking(s) ==
  /\ Begins("nonblock", s) /\ conn' = [conn EXCEPT ![sock[s].conn].nonblock = ~@]
  /\ UNCHANGED <<sock, sel, app, got, peeked>>

Recv(s, len, dont, peek) ==
  /\ Asks("recv", s)
  /\ app' = [Message("recv", s, len, dont, {}) EXCEPT !.pc = "recv", !.peek = peek]

\* lwip_recvfrom's exits give the window back what was read, or only looked at.
RecvReturn(a) ==
  IF a.off > 0 /\ conn[a.c].type = "tcp" THEN [a EXCEPT !.pc = "api", !.fn = "recved", !.len = a.off] ELSE NoCall
Continues == UNCHANGED <<calls>> /\ AppUnchanged
At(pc) == Alive /\ app.pc = pc /\ Continues

\* The top of the loop in lwip_recvfrom, to the mailbox of the netconn.
RecvLoop ==
  /\ At("recv")
  /\ LET sk == sock[app.s]
         c == conn[app.c]
     IN app' = IF sk.last # EOF THEN [app EXCEPT !.pc = "copy", !.buf = sk.last]
               ELSE IF (app.dont \/ c.nonblock) /\ sk.rcv <= 0 THEN RecvReturn(app)
               ELSE IF ~c.rvalid \/ c.err \in Fatal THEN RecvReturn(app)
               ELSE [app EXCEPT !.pc = "fetch"]
  /\ UNCHANGED <<conn, sock, sel, got, peeked>>

RecvFetch ==
  /\ At("fetch")
  /\ LET c == conn[app.c]
         p == Head(c.rbox)
     IN \/ /\ c.rbox # <<>>
           /\ conn' = [conn EXCEPT ![app.c].rbox = Tail(@)]
           /\ app' = IF c.type = "tcp" /\ p = EOF THEN [app EXCEPT !.pc = "api", !.fn = "eof", !.len = 1]
                     ELSE [app EXCEPT !.pc = "minus", !.buf = p]
        \/ /\ c.rbox = <<>> /\ c.recvTimeout
           /\ conn' = [conn EXCEPT ![app.c] = SafeErr(@, "TIMEOUT")]
           /\ app' = RecvReturn(app)
  /\ UNCHANGED <<sock, sel, got, peeked>>

RecvMinus ==
  /\ At("minus") /\ EventCallback(app.c, "RCVMINUS")
  /\ app' = [app EXCEPT !.pc = IF app.fn = "eof" THEN "closed" ELSE "copy"]
  /\ UNCHANGED <<got, peeked>>

RecvClosed ==
  /\ At("closed") /\ conn' = [conn EXCEPT ![app.c] = SafeErr(@, "CLSD")]
  /\ app' = RecvReturn(app) /\ UNCHANGED <<sock, sel, got, peeked>>

\* Mutant: a partial read forgets what it left.
LeftoverLost(sk, p, n) == [sk EXCEPT !.last = EOF, !.lastoff = 0]

Leftover(sk, p, n) ==
  IF p.len - sk.lastoff - n > 0 THEN [sk EXCEPT !.last = p, !.lastoff = @ + n]
  ELSE [sk EXCEPT !.last = EOF, !.lastoff = 0]

RecvCopy ==
  /\ At("copy")
  /\ LET sk == sock[app.s]
         p == app.buf
         n == Least(app.len, p.len - sk.lastoff)
         tcp == conn[app.c].type = "tcp"
         read == [app EXCEPT !.off = @ + n, !.len = @ - n]
         done == ~tcp \/ read.len = 0 \/ p.push \/ sk.rcv <= 0 \/ app.peek
     IN /\ sock' = [sock EXCEPT ![app.s] = IF app.peek THEN [sk EXCEPT !.last = p]
                                           ELSE IF tcp THEN Leftover(sk, p, n)
                                           ELSE [sk EXCEPT !.last = EOF, !.lastoff = 0]]
        /\ got' = IF app.peek \/ ~tcp THEN got
                  ELSE [got EXCEPT ![app.c] = @ \o [i \in 1 .. n |-> p.from + sk.lastoff + i - 1]]
        /\ peeked' = IF app.peek THEN peeked \cup {app.c} ELSE peeked
        /\ app' = IF done THEN RecvReturn(read) ELSE [read EXCEPT !.pc = "recv"]
  /\ UNCHANGED <<conn, sel>>

Accept(s) ==
  /\ Asks("accept", s)
  /\ LET c == C(s) IN
     app' = IF (c.nonblock /\ sock[s].rcv <= 0) \/ ~c.avalid \/ c.err \in Fatal THEN NoCall
            ELSE [Message("accept", s, 0, FALSE, {}) EXCEPT !.pc = "acceptFetch"]

AcceptFetch ==
  /\ At("acceptFetch")
  /\ LET c == conn[app.c]
     IN \/ /\ c.abox # <<>> /\ conn' = [conn EXCEPT ![app.c].abox = Tail(@)]
           /\ app' = [app EXCEPT !.pc = "acceptMinus", !.len = Head(c.abox)]
        \/ /\ c.abox = <<>> /\ c.recvTimeout
           /\ conn' = [conn EXCEPT ![app.c] = SafeErr(@, "TIMEOUT")] /\ app' = NoCall
  /\ UNCHANGED <<sock, sel, got, peeked>>

AcceptMinus ==
  /\ At("acceptMinus") /\ EventCallback(app.c, "RCVMINUS")
  /\ app' = [app EXCEPT !.pc = "api", !.fn = "peer", !.c = app.len]
  /\ UNCHANGED <<got, peeked>>

\* alloc_socket: with as many sockets as netconns there is one.
AcceptAllocates ==
  /\ At("acceptAlloc")
  /\ LET s == FirstOf({r \in Socks : ~InUse(r)})
     IN /\ sock' = [sock EXCEPT ![s] = [NoSock EXCEPT !.conn = app.c, !.snd = 1]]
        /\ app' = [app EXCEPT !.pc = "acceptJoin", !.s = s]
  /\ UNCHANGED <<conn, sel, got, peeked>>

\* What arrived in the meantime is counted now.
AcceptJoins ==
  /\ At("acceptJoin")
  /\ sock' = [sock EXCEPT ![app.s].rcv = @ - 1 - conn[app.c].socket]
  /\ conn' = [conn EXCEPT ![app.c].socket = app.s]
  /\ app' = NoCall /\ UNCHANGED <<sel, got, peeked>>

\* tcpip_apimsg returns.
Returns ==
  /\ At("back") /\ UNCHANGED <<sel, peeked>>
  /\ CASE app.fn \in {"connect", "listen", "write", "send", "close"} ->
            /\ conn' = [conn EXCEPT ![app.c] = SafeErr(@, app.err)]
            /\ app' = NoCall /\ UNCHANGED <<sock, got>>
       [] app.fn \in {"recved", "option"} -> app' = NoCall /\ UNCHANGED <<conn, sock, got>>
       [] app.fn = "eof" -> app' = [app EXCEPT !.pc = "minus"] /\ UNCHANGED <<conn, sock, got>>
       [] app.fn = "peer" ->
            /\ conn' = [conn EXCEPT ![app.c] = SafeErr(@, app.err)]
            /\ app' = IF app.err = "OK" THEN [app EXCEPT !.pc = "acceptAlloc"]
                      ELSE [app EXCEPT !.pc = "api", !.fn = "delete", !.s = NumSockets]
            /\ UNCHANGED <<sock, got>>
       [] app.fn = "delete" ->
            /\ conn' = [conn EXCEPT ![app.c] = Free] /\ got' = [got EXCEPT ![app.c] = <<>>]
            /\ sock' = [s \in Socks |-> IF s = app.s THEN NoSock ELSE sock[s]]
            /\ app' = NoCall

-----------------------------------------------------------------------------
Sizes == 1 .. MaxSize
Works(s) ==
  \/ \E type \in program.types : Socket(s, type)
  \/ Connect(s) \/ Listen(s) \/ Close(s) \/ SetNonblocking(s) \/ Accept(s)
  \/ \E how \in {{"rd"}, {"wr"}, {"rd", "wr"}} : Shutdown(s, how)
  \/ \E o \in {"pcb", "sndtimeo", "rcvtimeo"} : Option(s, o)
  \/ \E len \in Sizes, dont \in BOOLEAN : Send(s, len, dont)
  \/ \E len \in Sizes, dont \in BOOLEAN, peek \in BOOLEAN : Recv(s, len, dont, peek)
AppSteps ==
  \/ RecvLoop \/ RecvFetch \/ RecvMinus \/ RecvClosed \/ RecvCopy
  \/ AcceptFetch \/ AcceptMinus \/ AcceptAllocates \/ AcceptJoins \/ Returns
Selects(t) ==
  \/ \E s \in Socks, mode \in {"read", "write", "except"} : Select(t, s, mode)
  \/ SelectEnlists(t) \/ SelectCounts(t) \/ SelectRescans(t) \/ SelectWakes(t) \/ SelectLeaves(t)
Stack(c) ==
  \/ Connects(c) \/ Resets(c) \/ Ends(c) \/ ReceivesFin(c) \/ Sent(c) \/ Polls(c)
  \/ \E n \in Sizes, push \in BOOLEAN : Receives(c, n, push)
  \/ \E n \in Conns : Arrives(c, n)
SocketsNext ==
  /\ UNCHANGED program
  /\ \/ TcpipContinues \/ TcpipTakesMessage \/ AppSteps
     \/ \E s \in Socks : Works(s)
     \/ \E t \in Watchers : Selects(t)
     \/ \E c \in Conns : Stack(c)

SocketsSpec == SocketsInit /\ [][SocketsNext]_sockVars

-----------------------------------------------------------------------------
Quiet == todo = <<>> /\ Alive

\* A select sleeps only while what it waits for has not happened.
SelectsAwake ==
  \A t \in Watchers : sel[t].pc = "wait" /\ ~sel[t].sem => ~Happened(sock[sel[t].s], sel[t].mode)

\* A call waits only for a netconn that will be polled, or for a pcb that will
\* report; not so the shutdown that tcp_shutdown refuses.
CallsAnswered ==
  app.pc = "wait" => LET c == conn[app.c] IN
    \/ c.state \in {"write", "close"} /\ c.pcb.st = "open"
    \/ c.state = "connect" /\ c.pcb.st = "syn"
    \/ c.state = "close" /\ ShutdownRefused(c)

\* A reader sleeps only while something may still arrive, or because the end of
\* the stream met a full mailbox.
ReadersFed ==
  app.pc = "fetch" /\ conn[app.c].rbox = <<>> => LET c == conn[app.c] IN
    \/ c.type = "udp" \/ c.recvTimeout \/ c.pcb.st \in {"closed", "syn"}
    \/ c.pcb.st = "open" /\ c.pcb.recv /\ ~c.pcb.fin
    \/ c.pcb.eofLost

\* Nobody sleeps for ever: not the selects, not the calls, not the readers.
NobodyForgotten == Quiet => SelectsAwake /\ CallsAnswered /\ ReadersFed

\* The event counters of a socket say what its mailbox holds, whether the
\* packets came before or after accept gave the netconn a socket.
EventsMatchMailbox ==
  Quiet /\ app.pc = "idle" => \A c \in Conns :
    LET n == conn[c]
        held == Len(n.rbox) + Len(n.abox)
        rcv == IF n.socket < 0 THEN -1 - n.socket ELSE sock[n.socket].rcv
    IN (n.type # "free" /\ n.rvalid) \/ n.avalid => 
         IF n.err \in Fatal \/ ~n.pcb.recv THEN rcv >= held ELSE rcv = held

\* What the sockets owe whoever waits, and whoever looks at the counters: nobody
\* sleeps for ever, and the counters are true.
SocketsSound == NobodyForgotten /\ EventsMatchMailbox

Unread(c) ==
  Bytes(conn[c].rbox) + (IF conn[c].socket < 0 THEN 0 ELSE
    LET sk == sock[conn[c].socket] IN IF sk.last = EOF THEN 0 ELSE sk.last.len - sk.lastoff)

\* The application reads the stream without a gap, and the window is short of
\* exactly what it has not read; what is only peeked at is given back too early.
StreamCredited ==
  /\ \A c \in Conns : \A i \in DOMAIN got[c] : got[c][i] = i
  /\ Quiet /\ app.pc = "idle" => \A c \in Conns : LET n == conn[c] IN
       n.type = "tcp" /\ n.pcb.st = "open" /\ n.rvalid /\ ~n.pcb.fin =>
         /\ n.pcb.given = Len(got[c]) + Unread(c)
         /\ IF c \in peeked THEN Wnd - n.pcb.wnd <= Unread(c) ELSE Wnd - n.pcb.wnd = Unread(c)
=============================================================================
