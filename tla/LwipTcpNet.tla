----------------------------- MODULE LwipTcpNet -----------------------------
(***************************************************************************)
(* Two ends of one TCP connection, both lwIP, and the network between      *)
(* them: the client connects with tcp_connect, the server is the stack     *)
(* behind the tunnel's TUN interface, which listens and hands the          *)
(* accepted pcb to a TSTCPSocket.  A budget of faults pays for segments    *)
(* lost, duplicated or overtaken, and for timers that expire while         *)
(* segments are under way.                                                 *)
(***************************************************************************)
EXTENDS LwipTcpIn

CONSTANTS
  Iss,        \* the initial sequence number of each end
  Plans,      \* what the two applications do, see Plan
  MaxFaults   \* budget of faults

Ends == {"cli", "srv"}
Peer == [cli |-> "srv", srv |-> "cli"]

\* The application of an end: how many bytes it writes at most, what its recv
\* callback may answer, how it may be done with its pcb, and whether it asked
\* for keepalive probes.
Plan(p) ==
  /\ p.write \in Nat /\ p.answers \subseteq Answers
  /\ p.endings \subseteq {"close", "shutdownTx", "shutdownRx", "abort"}
  /\ p.keepalive \in BOOLEAN

ASSUME NetConstants ==
  /\ Iss \in [Ends -> 0 .. SeqSpace - 1]
  /\ \A p \in Plans : \A x \in Ends : Plan(p[x])
  /\ MaxFaults \in Nat

VARIABLES
  plan,     \* the applications' plan
  pcb,      \* the control block of each end
  net,      \* the segments under way to each end
  written,  \* bytes each application has written
  done,     \* the endings each application has asked for
  faults    \* faults so far

vars == <<plan, pcb, net, written, done, faults>>

Init ==
  /\ plan \in Plans
  /\ pcb = [x \in Ends |-> IF x = "cli" THEN Alloc(x, 0) ELSE [Alloc(x, 0) EXCEPT !.state = "LISTEN"]]
  /\ net = [x \in Ends |-> <<>>]
  /\ written = [x \in Ends |-> 0]
  /\ done = [x \in Ends |-> {}]
  /\ faults = 0

\* The end x becomes c, what c put out goes to its peer.
Sends(x, c) == [net EXCEPT ![Peer[x]] = @ \o c.out]
Keep(x, c) == pcb' = [pcb EXCEPT ![x] = [c EXCEPT !.out = <<>>, !.rc = "ERR_OK"]] /\ UNCHANGED plan
Becomes(x, c) == Keep(x, c) /\ net' = Sends(x, c)

Fault == faults < MaxFaults /\ faults' = faults + 1

\* A timer expires when nothing is under way that could still stop it, or too early.
Idle == \A x \in Ends : net[x] = <<>>
Late == Idle /\ UNCHANGED faults
Expires == Late \/ (~Idle /\ Fault)

-----------------------------------------------------------------------------
(* The applications.                                                       *)

Open(x) ==
  /\ pcb[x].state = "CLOSED" /\ pcb[x].err = "none" /\ done[x] = {} /\ x = "cli"
  /\ Becomes(x, Connect(pcb[x], Iss[x]))
  /\ UNCHANGED <<written, done, faults>>

\* TSTCPSocket.writeData: tcp_write, and tcp_output if it succeeded.
Write(x) ==
  /\ pcb[x].held /\ WriteAllowed(pcb[x])
  /\ \E len \in 1 .. plan[x].write - written[x] :
       LET c == TcpWrite(pcb[x], [i \in 1 .. len |-> written[x] + i])
       IN /\ Becomes(x, IF c.rc = "ERR_OK" THEN TcpOutput(c) ELSE c)
          /\ written' = [written EXCEPT ![x] = IF c.rc = "ERR_OK" THEN @ + len ELSE @]
  /\ UNCHANGED <<done, faults>>

\* The application returns data it kept.
Return(x) ==
  /\ pcb[x].held
  /\ pcb[x].unread > 0
  /\ Becomes(x, Recved(pcb[x], pcb[x].unread))
  /\ UNCHANGED <<written, done, faults>>

Ending(x, how) ==
  CASE how = "close" -> TcpClose(pcb[x])
    [] how = "shutdownTx" -> ShutdownTx(pcb[x])
    [] how = "shutdownRx" -> ShutdownRx(pcb[x])
    [] OTHER -> Abandon(pcb[x], TRUE)

\* An ending that fails changes nothing but the pcb's flags.
End(x) ==
  /\ pcb[x].held
  /\ \E how \in plan[x].endings \ done[x] :
       LET c == Ending(x, how)
       IN /\ Becomes(x, c)
          /\ done' = [done EXCEPT ![x] = IF c.rc = "ERR_OK" THEN @ \cup {how} ELSE @]
  /\ UNCHANGED <<written, faults>>

-----------------------------------------------------------------------------
(* The network.                                                            *)

\* The listening pcb is there all the time and gives each connection a new iss.
NewIss(x) == IF pcb[x].state = "LISTEN" THEN Iss[x] ELSE SeqAdd(Iss[x], SeqSpace \div 4)

\* tcp_input of the end s arrives at: its pcb, in TIME_WAIT or not, or the
\* listening pcb, or nothing, which is answered with a RST.
Arrives(x, c, s, again, answer, accepts) ==
  CASE c.state \in Active -> Input(c, s, again, answer, accepts)
    [] c.state = "TIME_WAIT" -> TimewaitInput(c, s)
    [] c.state \in {"LISTEN", "FREE"} /\ x = "srv" -> ListenInput(c, s, NewIss(x))
    [] OTHER -> IF s.rst THEN c ELSE Refuse(c, s)

\* What the end x put out is under way; the segment at position i is gone or stays.
Taken(x, c, i, gone) ==
  /\ Keep(x, c)
  /\ net' = IF gone THEN [Sends(x, c) EXCEPT ![x] = RemoveAt(@, i)] ELSE Sends(x, c)
  /\ UNCHANGED <<written, done>>

\* What the application answers, to data refused before and to new data.
Answer(x, again, answer) ==
  /\ {again, answer} \subseteq plan[x].answers
  /\ pcb[x].refused = <<>> => again = answer

\* A segment arrives: the first one, or a later one that overtook it; or the
\* first one of two copies.  The application may turn a connection down.
Arrive(x) ==
  \E i \in DOMAIN net[x], gone, accepts \in BOOLEAN, again, answer \in Answers :
    /\ Answer(x, again, answer)
    /\ ~accepts => pcb[x].state = "SYN_RCVD" /\ i = 1 /\ gone /\ again = "taken" /\ answer = "taken"
    /\ \/ i = 1 /\ gone /\ UNCHANGED faults
       \/ (i > 1 \/ ~gone) /\ (~gone => i = 1) /\ again = answer /\ Fault
    /\ Taken(x, Arrives(x, pcb[x], net[x][i], again, answer, accepts), i, gone)

Lose(x) ==
  /\ Fault
  /\ net[x] # <<>>
  /\ net' = [net EXCEPT ![x] = Tail(@)]
  /\ UNCHANGED <<plan, pcb, written, done>>

-----------------------------------------------------------------------------
(* The timers.                                                             *)

FastTimer(x) ==
  /\ pcb[x].state \in Active /\ "ackDelay" \in pcb[x].flags
  /\ Expires
  /\ Becomes(x, DelayedAck(pcb[x]))
  /\ UNCHANGED <<written, done>>

\* tcp_fasttmr offers refused data again.
OfferAgain(x) ==
  /\ pcb[x].state \in Active /\ pcb[x].refused # <<>>
  /\ \E answer \in plan[x].answers \ {"refused"} : Becomes(x, ProcessRefused(pcb[x], answer))
  /\ UNCHANGED <<written, done, faults>>

Retransmit(x) ==
  /\ RtoPending(pcb[x]) /\ ~MustRemove(pcb[x])
  /\ Expires
  /\ Becomes(x, RtoExpires(pcb[x]))
  /\ UNCHANGED <<written, done>>

Persist(x) ==
  /\ pcb[x].state \in Active /\ pcb[x].persist /\ ~MustRemove(pcb[x])
  /\ pcb[x].unacked # <<>> \/ pcb[x].unsent # <<>>
  /\ Expires
  /\ Becomes(x, ZeroWindowProbe(pcb[x]))
  /\ UNCHANGED <<written, done>>

Poll(x) ==
  /\ pcb[x].state \in Active /\ TcpOutput(pcb[x]).out # <<>>
  /\ Expires
  /\ Becomes(x, TcpOutput(pcb[x]))
  /\ UNCHANGED <<written, done>>

ForgetOutOfOrder(x) ==
  /\ pcb[x].state \in Active /\ pcb[x].ooseq # <<>>
  /\ Expires
  /\ Becomes(x, DropOutOfOrder(pcb[x]))
  /\ UNCHANGED <<written, done>>

KeepsAlive(x) == plan[x].keepalive /\ pcb[x].state \in {"ESTABLISHED", "CLOSE_WAIT"}

KeepAlive(x) ==
  /\ KeepsAlive(x)
  /\ Fault
  /\ Becomes(x, Keepalive(pcb[x]))
  /\ UNCHANGED <<written, done>>

KeepAliveFails(x) ==
  /\ KeepsAlive(x)
  /\ Fault
  /\ Becomes(x, RemoveTimedOut(pcb[x], TRUE))
  /\ UNCHANGED <<written, done>>

GiveUp(x) ==
  /\ MustRemove(pcb[x]) \/ MayTimeOut(pcb[x])
  /\ IF MustRemove(pcb[x]) THEN UNCHANGED faults ELSE Expires
  /\ Becomes(x, RemoveTimedOut(pcb[x], FALSE))
  /\ UNCHANGED <<written, done>>

LeaveTimeWait(x) ==
  /\ pcb[x].state = "TIME_WAIT"
  /\ Late
  /\ Becomes(x, RemoveTimeWait(pcb[x]))
  /\ UNCHANGED <<written, done>>

-----------------------------------------------------------------------------
Timers(x) ==
  \/ FastTimer(x) \/ OfferAgain(x) \/ Retransmit(x) \/ Persist(x) \/ Poll(x)
  \/ ForgetOutOfOrder(x) \/ KeepAlive(x) \/ KeepAliveFails(x) \/ GiveUp(x) \/ LeaveTimeWait(x)

Next ==
  \E x \in Ends :
    \/ Open(x) \/ Write(x) \/ Return(x) \/ End(x)
    \/ Arrive(x) \/ Lose(x)
    \/ Timers(x)

Spec == Init /\ [][Next]_vars

-----------------------------------------------------------------------------
Flags == {"ackDelay", "ackNow", "inFr", "rxClosed", "fin", "nagleMemErr"}

\* Both pcbs and the network keep their types; nothing of tcp_input's working
\* state (its output, its flags) is left between two segments.
TypeOK ==
  /\ \A x \in Ends : LET c == pcb[x] IN
       /\ c.state \in Active \cup {"CLOSED", "LISTEN", "TIME_WAIT", "FREE"}
       /\ c.flags \subseteq Flags
       /\ {c.rcvWnd, c.annWnd, c.sndWnd, c.sndBuf, c.cwnd, c.ssthresh} \subseteq 0 .. U16
       /\ {c.rcvNxt, c.annEdge, c.sndNxt, c.lastack, c.lbb} \subseteq 0 .. SeqSpace - 1
       /\ c.out = <<>> /\ ~c.inInput /\ c.recvFlags = {}
  /\ written \in [Ends -> Nat]
  /\ faults \in 0 .. MaxFaults

\* Each application gets the bytes its peer wrote, in order, none twice.
DeliveredInOrder ==
  \A x \in Ends :
    /\ Len(pcb[x].got) <= written[Peer[x]]
    /\ \A i \in DOMAIN pcb[x].got : pcb[x].got[i] = i

\* The end of the stream is not announced before all of the stream is delivered.
EofAfterAll ==
  \A x \in Ends : pcb[x].eof /\ "shutdownRx" \notin done[x] =>
    /\ Len(pcb[x].got) = written[Peer[x]]
    /\ done[Peer[x]] \cap {"close", "shutdownTx"} # {}

\* The states in which both sides know each other's sequence numbers.
Synchronized(x) == pcb[x].state \in {"ESTABLISHED", "CLOSE_WAIT", "FIN_WAIT_1", "FIN_WAIT_2"}

\* The send queues hold what lies between the last acknowledged byte and the
\* next one to be queued, without a gap and without an overlap.
QueuesContiguous ==
  \A x \in Ends : LET c == pcb[x]
                     q == Sorted(c.unacked \o c.unsent)
                 IN q # <<>> =>
    /\ SeqLEQ(Head(q).seq, c.lastack) \/ c.state = "SYN_SENT"
    /\ \A i \in 2 .. Len(q) : q[i].seq = SegEnd(q[i - 1])
    /\ SegEnd(Last(q)) \in {c.lbb, SeqAdd(c.lbb, IF "fin" \in c.flags THEN 1 ELSE 0)}

\* Nobody sends past what the other end announced, but for the FIN.
NoOverrun ==
  \A x \in Ends : Synchronized(x) /\ Synchronized(Peer[x]) /\ pcb[x].held /\ pcb[Peer[x]].held =>
    SeqLEQ(pcb[x].sndNxt, SeqAdd(pcb[Peer[x]].annEdge, IF "fin" \in pcb[x].flags THEN 1 ELSE 0))

\* The receive window is the buffer less what the application still has to return.
WindowAccounted ==
  \A x \in Ends : LET c == pcb[x] IN
    Synchronized(x) /\ c.held /\ "rxClosed" \notin c.flags =>
      c.rcvWnd + c.unread + Len(c.refused) + (IF c.refusedFin THEN 1 ELSE 0) = Wnd

\* What was announced is never taken back.
WindowNeverRetracted ==
  [][\A x \in Ends : Synchronized(x) /\ Synchronized(x)' => SeqGEQ(pcb'[x].annEdge, pcb[x].annEdge)]_vars

\* The application learns of the end of a pcb it has not given up itself.
ToldOfTheEnd ==
  [][\A x \in Ends : pcb[x].held /\ pcb'[x].state \in {"FREE", "SYN_RCVD"} /\ done' = done =>
       pcb'[x].err # "none" \/ done[x] # {}]_vars

\* Something will still happen to x by itself: a timer runs, or its application
\* has data to return or to be offered again.
Pending(x) == LET c == pcb[x] IN
  \/ c.state = "TIME_WAIT" \/ c.unread > 0
  \/ /\ c.state \in Active
     /\ \/ RtoPending(c) \/ MustRemove(c) \/ MayTimeOut(c)
        \/ "ackDelay" \in c.flags \/ c.refused # <<>> \/ c.ooseq # <<>>
        \/ (c.persist /\ c.unacked \o c.unsent # <<>>)
        \/ TcpOutput(c).out # <<>>

\* The peer's window is open but smaller than the next segment: the code then
\* runs no timer, and waits for a window update that may have been lost.
Squeezed(c) ==
  /\ c.unsent # <<>> /\ c.unacked = <<>>
  /\ c.sndWnd \in 1 .. Len(Head(c.unsent).data) - 1

\* Nobody waits for somebody who does nothing: when no segment is under way, no
\* timer runs and no end is squeezed, all that was written has been delivered.
NothingStuck ==
  (Idle /\ \A x \in Ends : ~Pending(x) /\ ~Squeezed(pcb[x])) =>
    \A x \in Ends : pcb[x].state \in Active =>
      /\ pcb[x].unacked \o pcb[x].unsent = <<>>
      /\ (pcb[Peer[x]].state \in Active /\ "shutdownRx" \notin done[Peer[x]]) =>
           Len(pcb[Peer[x]].got) = written[x]

\* What lwIP asserts about itself in these functions holds.
AssertsHold == \A x \in Ends : pcb[x].failed = {}
=============================================================================
