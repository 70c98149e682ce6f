------------------------- MODULE LwipSocketsProofs -------------------------
(***************************************************************************)
(* Nobody sleeps for ever on a socket, for any number of sockets, threads  *)
(* and failures, any size of the mailboxes and any application: not the    *)
(* selects, not the calls, not the readers; and the event counters of the  *)
(* sockets say what the mailboxes hold.                                    *)
(***************************************************************************)
EXTENDS LwipSockets, FiniteSetTheorems, TLAPS

Packets == [from : Int, len : Int, push : BOOLEAN]
\* What a handler says, and all that event_callback counts.
Evts == {"RCVPLUS", "SENDPLUS", "SENDMINUS", "ERROR"}
CountedEvts == Evts \cup {"RCVMINUS"}
Errs == Fatal \cup {"OK", "INPROGRESS", "ISCONN", "ARG", "MEM", "VAL", "WOULDBLOCK"}

\* What the tcpip thread may have to do for a netconn.
Whats == [op : {"event"}, evt : Evts] \cup [op : {"postRecv"}] \cup [op : {"signal"}, err : Errs]

\* The fields the argument follows through every handler.
Shaped(c) ==
  /\ "id" \in DOMAIN c /\ "type" \in DOMAIN c /\ "socket" \in DOMAIN c /\ "state" \in DOMAIN c
  /\ "err" \in DOMAIN c /\ "rbox" \in DOMAIN c /\ "rvalid" \in DOMAIN c /\ "abox" \in DOMAIN c
  /\ "avalid" \in DOMAIN c /\ "nbConnect" \in DOMAIN c /\ "cur" \in DOMAIN c
  /\ "recvTimeout" \in DOMAIN c /\ "pcb" \in DOMAIN c /\ "ev" \in DOMAIN c /\ "fail" \in DOMAIN c
  /\ "st" \in DOMAIN c.pcb /\ "recv" \in DOMAIN c.pcb /\ "fin" \in DOMAIN c.pcb
  /\ "txShut" \in DOMAIN c.pcb /\ "eofLost" \in DOMAIN c.pcb /\ "given" \in DOMAIN c.pcb

\* Something may still arrive for a reader, or the end of the stream was lost.
Fed(c) ==
  \/ c.type = "udp" \/ c.recvTimeout \/ c.pcb.st \in {"closed", "syn"}
  \/ c.pcb.st = "open" /\ c.pcb.recv /\ ~c.pcb.fin
  \/ c.pcb.eofLost

\* The end of the stream is in the mailbox.
Ended(c) == \E k \in DOMAIN c.rbox : c.rbox[k] = EOF
Open(c) == Fed(c) \/ Ended(c)
Awake(c) == Fed(c) \/ c.rbox # <<>>

\* The tcpip thread owes the application an answer.
Busy(c) == c.state \in {"write", "close"} \/ (c.state = "connect" /\ ~c.nbConnect)

\* A netconn's fields fit each other.
Sound(c) ==
  /\ Shaped(c)
  /\ c.pcb.given \in Int /\ c.rbox \in Seq(Packets) /\ c.abox \in Seq(Conns) /\ c.socket \in Int
  /\ c.type \in {"tcp", "udp", "free"}
  /\ c.type = "free" => c.state = "none" /\ c.pcb.st = "none" /\ ~c.rvalid
  /\ c.state = "write" => c.pcb.st = "open" /\ ~c.pcb.txShut
  /\ c.state = "close" =>
       /\ c.pcb.st # "none"
       /\ ShutdownRefused(c) \/ (c.pcb.st = "open" /\ ~c.pcb.txShut)
       /\ "rd" \in c.cur.how => ~c.rvalid
  /\ c.state = "connect" => c.pcb.st = "syn"
  /\ c.nbConnect => c.state = "connect" \/ c.pcb.st = "none"
  /\ ~c.pcb.recv => ~c.rvalid
  /\ c.pcb.st \in {"closed", "syn"} => ~c.pcb.fin
  /\ c.state = "listen" => c.avalid /\ c.pcb.st = "listen"
  /\ c.state \in {"listen", "connect"} => c.type = "tcp"
  /\ ~c.avalid => c.abox = <<>>

\* What a netconn says, and whether a call is answered or a reader's NULL posted.
Spoken(c) == c.ev \in Seq({c.id} \X Whats)
Mute(ev) == \A k \in DOMAIN ev : ev[k][2].op # "signal"
Once(ev) == \E k \in DOMAIN ev : /\ ev[k][2].op = "signal"
                                 /\ \A j \in DOMAIN ev : ev[j][2].op = "signal" => j = k
Posted(ev) == \E k \in DOMAIN ev : ev[k][2].op = "postRecv"

\* What a handler leaves of c to its reader and its socket.
Kept(c, d) ==
  /\ d.id = c.id /\ d.type = c.type /\ d.socket = c.socket /\ d.abox \in {c.abox, <<>>}
  /\ c.err \in Fatal => d.err \in Fatal
  /\ d.rvalid => c.rvalid
  /\ d.rvalid /\ d.err \notin Fatal /\ Open(c) => Open(d)
  /\ d.rvalid /\ Awake(c) => Awake(d) \/ Posted(d.ev)
  /\ Posted(c.ev) => Posted(d.ev)

\* d is c but for fields the argument does not follow, and what it says.
Same(c, d) ==
  /\ Shaped(d)
  /\ d.id = c.id /\ d.type = c.type /\ d.socket = c.socket /\ d.state = c.state /\ d.err = c.err
  /\ d.rbox = c.rbox /\ d.rvalid = c.rvalid /\ d.abox = c.abox /\ d.avalid = c.avalid
  /\ d.nbConnect = c.nbConnect /\ d.cur = c.cur /\ d.recvTimeout = c.recvTimeout
  /\ d.pcb.st = c.pcb.st /\ d.pcb.recv = c.pcb.recv /\ d.pcb.fin = c.pcb.fin
  /\ d.pcb.txShut = c.pcb.txShut /\ d.pcb.eofLost = c.pcb.eofLost /\ d.pcb.given = c.pcb.given

\* The answer is owed, or given once.
Answers(d) == (Busy(d) /\ Mute(d.ev)) \/ (~Busy(d) /\ Once(d.ev))

\* What a callback of the stack makes of c, and what a message does: a callback
\* nobody waits for closes no mailbox.
Back(c, d) ==
  /\ Sound(d) /\ Kept(c, d) /\ Spoken(d)
  /\ IF Busy(c) THEN Answers(d) ELSE ~Busy(d) /\ Mute(d.ev) /\ d.rvalid = c.rvalid
Took(c, d) == Sound(d) /\ Kept(c, d) /\ Spoken(d) /\ Answers(d)

-----------------------------------------------------------------------------
(* What netconns say.                                                      *)

\* Callbacks and posts, no answer.
Quietly(what) == what \in Seq(Whats) /\ \A k \in DOMAIN what : what[k].op # "signal"

\* Callbacks one after the other.
LEMMA QuietlyJoins == ASSUME NEW a, NEW b, Quietly(a), Quietly(b) PROVE Quietly(a \o b)
<1>1. a \o b \in Seq(Whats) /\ Len(a \o b) = Len(a) + Len(b)
  BY DEF Quietly
<1>2. ASSUME NEW k \in DOMAIN (a \o b) PROVE (a \o b)[k].op # "signal"
  BY <1>1 DEF Quietly
<1> QED
  BY <1>1, <1>2 DEF Quietly

\* A callback, a post, and nothing.
LEMMA QuietlyOne ==
  /\ \A e \in Evts : Quietly(<<Event(e)>>)
  /\ Quietly(<<[op |-> "postRecv"]>>) /\ Quietly(<<>>)
<1>1. ASSUME NEW e \in Evts PROVE Quietly(<<Event(e)>>)
  <2>1. Event(e) \in Whats /\ Event(e).op = "event"
    BY DEF Event, Whats
  <2> QED
    BY <2>1 DEF Quietly
<1>2. Quietly(<<[op |-> "postRecv"]>>)
  <2>1. [op |-> "postRecv"] \in Whats
    BY DEF Whats
  <2> QED
    BY <2>1 DEF Quietly
<1>3. Quietly(<<>>)
  BY DEF Quietly
<1> QED
  BY <1>1, <1>2, <1>3

\* The positions of two sequences in their concatenation.
LEMMA Joined ==
  ASSUME NEW S, NEW a \in Seq(S), NEW b \in Seq(S)
  PROVE  /\ a \o b \in Seq(S) /\ Len(a \o b) = Len(a) + Len(b)
         /\ \A k \in DOMAIN a : k \in DOMAIN (a \o b) /\ (a \o b)[k] = a[k]
         /\ \A k \in DOMAIN b : Len(a) + k \in DOMAIN (a \o b) /\ (a \o b)[Len(a) + k] = b[k]
         /\ \A k \in DOMAIN (a \o b) : k \in DOMAIN a \/ \E j \in DOMAIN b : k = Len(a) + j
<1>1. a \o b \in Seq(S) /\ Len(a \o b) = Len(a) + Len(b) /\ Len(a) \in Nat /\ Len(b) \in Nat
  OBVIOUS
<1>2. DOMAIN (a \o b) = 1 .. (Len(a) + Len(b)) /\ DOMAIN a = 1 .. Len(a) /\ DOMAIN b = 1 .. Len(b)
  BY <1>1
<1>3. \A k \in 1 .. Len(a) : (a \o b)[k] = a[k]
  BY <1>1
<1>4. \A k \in 1 .. Len(b) : (a \o b)[Len(a) + k] = b[k]
  BY <1>1
<1> DEFINE ab == a \o b
<1> HIDE DEF ab
<1>5. ASSUME NEW k \in 1 .. (Len(a) + Len(b))
      PROVE  k \in 1 .. Len(a) \/ \E j \in 1 .. Len(b) : k = Len(a) + j
  <2>1. CASE k <= Len(a)
    BY <2>1, <1>1
  <2>2. CASE k > Len(a)
    <3>1. k - Len(a) \in 1 .. Len(b) /\ k = Len(a) + (k - Len(a))
      BY <2>2, <1>1
    <3> QED
      BY <3>1
  <2> QED
    BY <2>1, <2>2, <1>1
<1>6. \A k \in 1 .. Len(a) : k \in 1 .. (Len(a) + Len(b))
  BY <1>1
<1>7. \A k \in 1 .. Len(b) : Len(a) + k \in 1 .. (Len(a) + Len(b))
  BY <1>1
<1> QED
  BY <1>1, <1>2, <1>3, <1>4, <1>5, <1>6, <1>7

\* Equal fields are as sound, and a reader sees no difference.
LEMMA SameSound ==
  ASSUME NEW c, NEW d, Sound(c), Same(c, d), Posted(c.ev) => Posted(d.ev)
  PROVE  Sound(d) /\ Kept(c, d) /\ (Busy(d) <=> Busy(c))
<1>1. ShutdownRefused(d) <=> ShutdownRefused(c)
  BY DEF Same, ShutdownRefused
<1>2. Fed(d) <=> Fed(c)
  BY DEF Same, Fed
<1>3. Ended(d) <=> Ended(c)
  BY DEF Same, Ended
<1>4. Busy(d) <=> Busy(c)
  BY DEF Same, Busy
<1>5. Sound(d)
  BY <1>1 DEF Same, Sound
<1>6. Kept(c, d)
  BY <1>2, <1>3 DEF Same, Kept, Open, Awake
<1> QED
  BY <1>4, <1>5, <1>6

\* LwipNetconn.Out adds callbacks and posts.
LEMMA OutKeeps ==
  ASSUME NEW c, NEW what, Sound(c), Spoken(c), Quietly(what)
  PROVE  /\ Same(c, Out(c, what)) /\ Spoken(Out(c, what))
         /\ Mute(c.ev) => Mute(Out(c, what).ev)
         /\ Once(c.ev) => Once(Out(c, what).ev)
         /\ Posted(c.ev) => Posted(Out(c, what).ev)
         /\ (\E k \in DOMAIN what : what[k].op = "postRecv") => Posted(Out(c, what).ev)
<1> DEFINE said == [i \in DOMAIN what |-> <<c.id, what[i]>>]
           ev == c.ev \o said
           d == Out(c, what)
<1>1. d = [c EXCEPT !.ev = ev]
  BY DEF Out
<1>2. Same(c, d) /\ d.ev = ev
  <2> HIDE DEF ev, d
  <2> QED
    BY <1>1 DEF Same, Sound, Shaped
<1>3. what \in Seq(Whats) /\ Len(what) \in Nat /\ DOMAIN what = 1 .. Len(what)
  BY DEF Quietly
<1>4. said \in Seq({c.id} \X Whats) /\ DOMAIN said = DOMAIN what /\ Len(said) = Len(what)
  BY <1>3
<1>5. \A i \in DOMAIN said : said[i][2] = what[i]
  BY <1>4
<1> HIDE DEF said
<1>6. c.ev \in Seq({c.id} \X Whats)
  BY DEF Spoken
<1>7. /\ ev \in Seq({c.id} \X Whats) /\ Len(ev) = Len(c.ev) + Len(said)
      /\ \A k \in DOMAIN c.ev : k \in DOMAIN ev /\ ev[k] = c.ev[k]
      /\ \A k \in DOMAIN said : Len(c.ev) + k \in DOMAIN ev /\ ev[Len(c.ev) + k] = said[k]
      /\ \A k \in DOMAIN ev : k \in DOMAIN c.ev \/ \E j \in DOMAIN said : k = Len(c.ev) + j
  <2> DEFINE S == {c.id} \X Whats
  <2>1. c.ev \in Seq(S) /\ said \in Seq(S)
    BY <1>4, <1>6
  <2> HIDE DEF S
  <2>2. /\ ev \in Seq(S) /\ Len(ev) = Len(c.ev) + Len(said)
        /\ \A k \in DOMAIN c.ev : k \in DOMAIN ev /\ ev[k] = c.ev[k]
        /\ \A k \in DOMAIN said : Len(c.ev) + k \in DOMAIN ev /\ ev[Len(c.ev) + k] = said[k]
        /\ \A k \in DOMAIN ev : k \in DOMAIN c.ev \/ \E j \in DOMAIN said : k = Len(c.ev) + j
    BY <2>1, Joined
  <2> QED
    BY <2>2 DEF S
<1> HIDE DEF ev, d
<1>8. Spoken(d)
  BY <1>2, <1>7 DEF Spoken, Same
<1>9. \A k \in DOMAIN said : said[k][2].op # "signal"
  BY <1>4, <1>5 DEF Quietly
<1>10. Mute(c.ev) => Mute(ev)
  BY <1>7, <1>9 DEF Mute
<1>11. Once(c.ev) => Once(ev)
  <2> SUFFICES ASSUME Once(c.ev) PROVE Once(ev)
    OBVIOUS
  <2>1. PICK k \in DOMAIN c.ev : /\ c.ev[k][2].op = "signal"
                                 /\ \A j \in DOMAIN c.ev : c.ev[j][2].op = "signal" => j = k
    BY DEF Once
  <2>2. k \in DOMAIN ev /\ ev[k][2].op = "signal"
    BY <1>7, <2>1
  <2>3. ASSUME NEW j \in DOMAIN ev, ev[j][2].op = "signal" PROVE j = k
    BY <1>7, <1>9, <2>1, <2>3
  <2> QED
    BY <2>2, <2>3 DEF Once
<1>12. Posted(c.ev) => Posted(ev)
  BY <1>7 DEF Posted
<1>13. (\E k \in DOMAIN what : what[k].op = "postRecv") => Posted(ev)
  BY <1>4, <1>5, <1>7 DEF Posted
<1> QED
  BY <1>2, <1>8, <1>10, <1>11, <1>12, <1>13 DEF d

\* LwipNetconn.Reply answers.
LEMMA ReplyAnswers ==
  ASSUME NEW c, NEW err \in Errs, Sound(c), Spoken(c)
  PROVE  /\ Same(c, Reply(c, err)) /\ Spoken(Reply(c, err))
         /\ Mute(c.ev) => Once(Reply(c, err).ev)
         /\ Posted(c.ev) => Posted(Reply(c, err).ev)
<1> DEFINE sig == [op |-> "signal", err |-> err]
           said == <<c.id, sig>>
           ev == Append(c.ev, said)
           d == Reply(c, err)
<1>1. sig \in Whats /\ sig.op = "signal"
  BY DEF Whats
<1> HIDE DEF sig
<1>2. c.ev \in Seq({c.id} \X Whats) /\ said \in {c.id} \X Whats /\ said[2] = sig
  BY <1>1 DEF Spoken
<1>3. d = [c EXCEPT !.ev = ev]
  <2>1. d = [c EXCEPT !.ev = @ \o [i \in DOMAIN <<sig>> |-> <<c.id, <<sig>>[i]>>]]
    BY DEF Reply, Out, sig
  <2>2. [i \in DOMAIN <<sig>> |-> <<c.id, <<sig>>[i]>>] = <<said>>
    OBVIOUS
  <2>3. c.ev \o <<said>> = ev
    BY <1>2
  <2> QED
    BY <2>1, <2>2, <2>3
<1> HIDE DEF said
<1>4. /\ ev \in Seq({c.id} \X Whats) /\ Len(ev) = Len(c.ev) + 1 /\ Len(c.ev) \in Nat
      /\ \A k \in DOMAIN c.ev : k \in DOMAIN ev /\ ev[k] = c.ev[k] /\ k # Len(c.ev) + 1
      /\ \A k \in DOMAIN ev : k \in DOMAIN c.ev \/ k = Len(c.ev) + 1
      /\ Len(c.ev) + 1 \in DOMAIN ev /\ ev[Len(c.ev) + 1] = said
  BY <1>2
<1> HIDE DEF ev, d
<1>5. Same(c, d) /\ d.ev = ev
  BY <1>3 DEF Same, Sound, Shaped
<1>6. Spoken(d)
  BY <1>4, <1>5 DEF Spoken, Same
<1>7. Mute(c.ev) => Once(ev)
  BY <1>1, <1>2, <1>4 DEF Mute, Once
<1>8. Posted(c.ev) => Posted(ev)
  BY <1>4 DEF Posted
<1> QED
  BY <1>5, <1>6, <1>7, <1>8 DEF d

-----------------------------------------------------------------------------
(* Callbacks of the stack.                                                 *)

\* What more is said, or changed where nobody looks, leaves a callback's work.
LEMMA BackOn ==
  ASSUME NEW c, NEW d, NEW e, Back(c, d), Same(d, e), Spoken(e),
         Mute(d.ev) => Mute(e.ev), Once(d.ev) => Once(e.ev), Posted(d.ev) => Posted(e.ev)
  PROVE  Back(c, e)
<1>1. Sound(e) /\ Kept(d, e) /\ (Busy(e) <=> Busy(d)) /\ Kept(c, d)
  BY SameSound DEF Back
<1>2. Kept(c, e)
  BY <1>1 DEF Kept
<1> QED
  BY <1>1, <1>2 DEF Back, Answers, Same

\* A netconn that says nothing has done nothing.
LEMMA BackStays == ASSUME NEW c, Sound(c), Spoken(c), Mute(c.ev) PROVE Back(c, c)
  BY DEF Back, Kept, Answers

\* LwipNetconn.SafeErr
LEMMA SafeErrKeeps ==
  ASSUME NEW c, NEW err, Sound(c)
  PROVE  /\ Sound(SafeErr(c, err)) /\ Kept(c, SafeErr(c, err)) /\ (Busy(SafeErr(c, err)) <=> Busy(c))
         /\ SafeErr(c, err).ev = c.ev /\ SafeErr(c, err).state = c.state /\ SafeErr(c, err).fail = c.fail
         /\ SafeErr(c, err).rvalid = c.rvalid /\ SafeErr(c, err).rbox = c.rbox
         /\ SafeErr(c, err).pcb = c.pcb /\ SafeErr(c, err).id = c.id /\ SafeErr(c, err).abox = c.abox
         /\ SafeErr(c, err).type = c.type /\ SafeErr(c, err).socket = c.socket
         /\ (err \in Fatal => SafeErr(c, err).err \in Fatal)
<1>1. CASE c.err \in Fatal
  BY <1>1 DEF SafeErr, Kept
<1>2. CASE c.err \notin Fatal
  <2> DEFINE d == [c EXCEPT !.err = err]
  <2>1. SafeErr(c, err) = d
    BY <1>2 DEF SafeErr
  <2>2. /\ Shaped(d) /\ d.id = c.id /\ d.type = c.type /\ d.socket = c.socket /\ d.state = c.state
        /\ d.err = err /\ d.rbox = c.rbox /\ d.rvalid = c.rvalid /\ d.abox = c.abox
        /\ d.avalid = c.avalid /\ d.nbConnect = c.nbConnect /\ d.cur = c.cur
        /\ d.recvTimeout = c.recvTimeout /\ d.pcb = c.pcb /\ d.ev = c.ev /\ d.fail = c.fail
    BY DEF Sound, Shaped
  <2> HIDE DEF d
  <2>3. (Fed(d) <=> Fed(c)) /\ (Ended(d) <=> Ended(c)) /\ (ShutdownRefused(d) <=> ShutdownRefused(c))
    BY <2>2 DEF Fed, Ended, ShutdownRefused
  <2>4. Sound(d) /\ Kept(c, d) /\ (Busy(d) <=> Busy(c))
    BY <1>2, <2>2, <2>3 DEF Sound, Kept, Busy, Open, Awake
  <2> QED
    BY <2>1, <2>2, <2>4
<1> QED
  BY <1>1, <1>2

\* LwipNetconn.ErrTcp answers who waits and wakes who reads.
LEMMA ErrTcpBack ==
  ASSUME NEW c, NEW err \in Fatal, Sound(c), Spoken(c), Mute(c.ev)
  PROVE  Back(c, ErrTcp(c, err))
<1> DEFINE waits == c.state \in {"write", "close", "connect"}
           nb == c.nbConnect /\ ~waits
           d == [c EXCEPT !.pcb = NoPcb, !.err = err, !.state = "none", !.cur = NoMsg, !.nbConnect = nb]
           what == <<Event("ERROR"), Event("RCVPLUS"), Event("SENDPLUS")>>
                     \o (IF c.rvalid THEN <<[op |-> "postRecv"]>> ELSE <<>>)
           told == Out(d, what)
<1>1. ErrTcp(c, err) = IF waits /\ ~c.nbConnect THEN Reply(told, err) ELSE told
  BY Zenon DEF ErrTcp
<1>2. /\ Shaped(d) /\ d.id = c.id /\ d.type = c.type /\ d.socket = c.socket /\ d.state = "none"
      /\ d.err = err /\ d.rbox = c.rbox /\ d.rvalid = c.rvalid /\ d.abox = c.abox
      /\ d.avalid = c.avalid /\ d.ev = c.ev /\ d.pcb = NoPcb
  <2> HIDE DEF nb
  <2> QED
    BY DEF Sound, Shaped, NoPcb, NewPcb
<1>3. NoPcb.st = "none" /\ NoPcb.recv /\ NoPcb.given \in Int
  BY DEF NoPcb, NewPcb
<1> HIDE DEF d
<1>4. Sound(d)
  BY <1>2, <1>3 DEF Sound
<1>5. Spoken(d) /\ Mute(d.ev) /\ ~Busy(d)
  BY <1>2 DEF Spoken, Busy
<1>6. Quietly(what) /\ (c.rvalid => \E k \in DOMAIN what : what[k].op = "postRecv")
  <2> DEFINE a == <<Event("ERROR"), Event("RCVPLUS"), Event("SENDPLUS")>>
             b == IF c.rvalid THEN <<[op |-> "postRecv"]>> ELSE <<>>
  <2>1. Event("ERROR") \in Whats /\ Event("RCVPLUS") \in Whats /\ Event("SENDPLUS") \in Whats
    BY DEF Event, Whats, Evts
  <2>2. Event("ERROR").op = "event" /\ Event("RCVPLUS").op = "event" /\ Event("SENDPLUS").op = "event"
    BY DEF Event
  <2>3. Quietly(a)
    BY <2>1, <2>2 DEF Quietly
  <2>4. Quietly(b)
    BY QuietlyOne
  <2>5. ASSUME c.rvalid PROVE what[4].op = "postRecv" /\ 4 \in DOMAIN what
    BY <2>5
  <2> HIDE DEF a, b
  <2> QED
    BY <2>3, <2>4, <2>5, QuietlyJoins DEF a, b
<1> HIDE DEF what
<1>7. /\ Same(d, told) /\ Spoken(told) /\ Mute(told.ev) /\ (c.rvalid => Posted(told.ev))
      /\ (Posted(d.ev) => Posted(told.ev))
  BY <1>4, <1>5, <1>6, OutKeeps
<1> HIDE DEF told
<1>8. Sound(told) /\ ~Busy(told) /\ Kept(d, told)
  BY <1>4, <1>5, <1>7, SameSound
<1>9. Kept(c, told)
  BY <1>2, <1>7 DEF Kept, Same
<1>10. err \in Errs
  BY DEF Fatal, Errs
<1>11. (waits /\ ~c.nbConnect) <=> Busy(c)
  BY DEF Sound, Busy
<1>12. CASE Busy(c)
  <2> DEFINE e == Reply(told, err)
  <2>1. Same(told, e) /\ Spoken(e) /\ Once(e.ev) /\ (Posted(told.ev) => Posted(e.ev))
    BY <1>7, <1>8, <1>10, ReplyAnswers
  <2>2. ErrTcp(c, err) = e
    BY <1>1, <1>11, <1>12
  <2> HIDE DEF e
  <2>3. Sound(e) /\ ~Busy(e) /\ Kept(told, e)
    BY <1>8, <2>1, SameSound
  <2>4. Kept(c, e)
    BY <1>9, <2>3 DEF Kept
  <2> QED
    BY <1>12, <2>1, <2>2, <2>3, <2>4 DEF Back, Answers
<1>13. CASE ~Busy(c)
  BY <1>1, <1>2, <1>7, <1>8, <1>9, <1>11, <1>13 DEF Back, Same
<1> QED
  BY <1>12, <1>13

\* One more callback leaves a callback's work.
LEMMA BackOut ==
  ASSUME NEW c, NEW d, NEW what, Back(c, d), Quietly(what) PROVE Back(c, Out(d, what))
  BY OutKeeps, BackOn DEF Back

\* A packet more in the mailbox.
LEMMA BoxGrows ==
  ASSUME NEW box \in Seq(Packets), NEW p \in Packets
  PROVE  /\ Append(box, p) \in Seq(Packets) /\ Append(box, p) # <<>>
         /\ (\E k \in DOMAIN box : box[k] = EOF) => \E k \in DOMAIN Append(box, p) : Append(box, p)[k] = EOF
         /\ p = EOF => \E k \in DOMAIN Append(box, p) : Append(box, p)[k] = EOF
<1> DEFINE b == Append(box, p)
<1>1. b \in Seq(Packets) /\ Len(b) = Len(box) + 1 /\ Len(box) \in Nat
  OBVIOUS
<1>2. \A k \in DOMAIN box : k \in DOMAIN b /\ b[k] = box[k]
  OBVIOUS
<1>3. Len(b) \in DOMAIN b /\ b[Len(b)] = p
  OBVIOUS
<1>4. b # <<>>
  BY <1>1
<1> HIDE DEF b
<1> QED
  BY <1>1, <1>2, <1>3, <1>4 DEF b

\* LwipNetconn.Posts and what arrives with it: a packet, or the peer's FIN.
LEMMA PostBack ==
  ASSUME NEW c, NEW d, NEW p \in Packets, Sound(c), Spoken(c), Mute(c.ev), Shaped(d),
         d.id = c.id, d.type = c.type, d.socket = c.socket, d.state = c.state, d.err = c.err,
         d.rbox = Append(c.rbox, p), d.rvalid = c.rvalid, d.abox = c.abox, d.avalid = c.avalid,
         d.nbConnect = c.nbConnect, d.cur = c.cur, d.recvTimeout = c.recvTimeout, d.ev = c.ev,
         d.pcb.st = c.pcb.st, d.pcb.recv = c.pcb.recv, d.pcb.txShut = c.pcb.txShut,
         d.pcb.eofLost = c.pcb.eofLost, d.pcb.given \in Int,
         d.pcb.fin = c.pcb.fin \/ (p = EOF /\ c.pcb.st = "open")
  PROVE  Back(c, d)
<1>1. d.rbox \in Seq(Packets) /\ d.rbox # <<>> /\ (Ended(c) => Ended(d)) /\ (p = EOF => Ended(d))
  BY BoxGrows DEF Sound, Ended
<1>2. ShutdownRefused(d) <=> ShutdownRefused(c)
  BY DEF ShutdownRefused
<1>3. Fed(c) => Fed(d) \/ p = EOF
  BY DEF Fed
<1>4. Sound(d)
  BY <1>1, <1>2 DEF Sound
<1>5. Kept(c, d)
  BY <1>1, <1>3 DEF Kept, Open, Awake
<1>6. (Busy(d) <=> Busy(c)) /\ Spoken(d)
  BY DEF Busy, Spoken
<1> QED
  BY <1>4, <1>5, <1>6 DEF Back, Answers

\* LwipNetconn.RecvUdp
LEMMA RecvUdpBack ==
  ASSUME NEW c, NEW p \in Packets, Sound(c), Spoken(c), Mute(c.ev) PROVE Back(c, RecvUdp(c, p))
<1> DEFINE box == Append(c.rbox, p)
           g == c.pcb.given + p.len
           d == [c EXCEPT !.rbox = box, !.pcb.given = g]
<1>1. RecvUdp(c, p) = c \/ RecvUdp(c, p) = Out(d, <<Event("RCVPLUS")>>)
  BY Zenon DEF RecvUdp
<1>2. g \in Int
  BY DEF Sound, Packets
<1> HIDE DEF box, g
<1>3. /\ Shaped(d) /\ d.id = c.id /\ d.type = c.type /\ d.socket = c.socket /\ d.state = c.state
      /\ d.err = c.err /\ d.rbox = box /\ d.rvalid = c.rvalid /\ d.abox = c.abox /\ d.avalid = c.avalid
      /\ d.nbConnect = c.nbConnect /\ d.cur = c.cur /\ d.recvTimeout = c.recvTimeout /\ d.ev = c.ev
      /\ d.pcb.st = c.pcb.st /\ d.pcb.recv = c.pcb.recv /\ d.pcb.txShut = c.pcb.txShut
      /\ d.pcb.eofLost = c.pcb.eofLost /\ d.pcb.given = g /\ d.pcb.fin = c.pcb.fin
  BY DEF Sound, Shaped
<1> HIDE DEF d
<1>4. Back(c, d)
  BY <1>2, <1>3, PostBack DEF box
<1> QED
  BY <1>1, <1>4, BackStays, BackOut, QuietlyOne DEF Evts

\* LwipNetconn.SafeErr in a callback.
LEMMA SafeErrBack ==
  ASSUME NEW c, NEW d, NEW err, Back(c, d) PROVE Back(c, SafeErr(d, err))
<1> DEFINE e == SafeErr(d, err)
<1>1. /\ Sound(e) /\ Kept(d, e) /\ (Busy(e) <=> Busy(d)) /\ e.ev = d.ev /\ e.id = d.id
      /\ e.rvalid = d.rvalid
  BY SafeErrKeeps DEF Back
<1> HIDE DEF e
<1>2. Kept(c, e)
  BY <1>1 DEF Kept, Back
<1>3. Back(c, e)
  BY <1>1, <1>2 DEF Back, Answers, Spoken
<1> QED
  BY <1>3 DEF e

\* LwipNetconn.RecvTcp
LEMMA RecvTcpBack ==
  ASSUME NEW c, NEW p \in Packets, Sound(c), Spoken(c), Mute(c.ev) PROVE Back(c, RecvTcp(c, p))
<1> DEFINE g == c.pcb.given + p.len
           w == c.pcb.wnd - p.len
           lost == [c EXCEPT !.pcb.given = g]
           kept == [c EXCEPT !.pcb.given = g, !.pcb.wnd = w]
           box == Append(kept.rbox, p)
           d == [kept EXCEPT !.rbox = box]
<1>1. \/ RecvTcp(c, p) = ErrTcp(c, "ABRT")
      \/ ~c.rvalid /\ RecvTcp(c, p) = lost
      \/ RecvTcp(c, p) = SafeErr(c, "OK")
      \/ RecvTcp(c, p) = Posts(kept, p)
  BY Zenon DEF RecvTcp
<1>2. g \in Int
  BY DEF Sound, Packets
<1>3. Posts(kept, p) = Out(SafeErr(d, "OK"), <<Event("RCVPLUS")>>)
  BY Zenon DEF Posts
<1> HIDE DEF g, w
<1>4. Sound(lost) /\ lost.ev = c.ev /\ lost.id = c.id /\ (Busy(lost) <=> Busy(c))
      /\ lost.rvalid = c.rvalid /\ lost.abox = c.abox /\ lost.err = c.err
      /\ lost.type = c.type /\ lost.socket = c.socket
  <2>1. /\ Shaped(lost) /\ lost.id = c.id /\ lost.type = c.type /\ lost.socket = c.socket
        /\ lost.state = c.state /\ lost.err = c.err /\ lost.rbox = c.rbox /\ lost.rvalid = c.rvalid
        /\ lost.abox = c.abox /\ lost.avalid = c.avalid /\ lost.nbConnect = c.nbConnect
        /\ lost.cur = c.cur /\ lost.ev = c.ev /\ lost.pcb.st = c.pcb.st /\ lost.pcb.recv = c.pcb.recv
        /\ lost.pcb.txShut = c.pcb.txShut /\ lost.pcb.fin = c.pcb.fin /\ lost.pcb.given = g
    BY DEF Sound, Shaped
  <2> HIDE DEF lost
  <2>2. ShutdownRefused(lost) <=> ShutdownRefused(c)
    BY <2>1 DEF ShutdownRefused
  <2> QED
    BY <1>2, <2>1, <2>2 DEF Sound, Busy
<1>5. ASSUME ~c.rvalid PROVE Back(c, lost)
  <2> HIDE DEF lost
  <2> QED
    BY <1>4, <1>5 DEF Back, Kept, Spoken, Answers
<1>6. /\ Shaped(d) /\ d.id = c.id /\ d.type = c.type /\ d.socket = c.socket /\ d.state = c.state
      /\ d.err = c.err /\ d.rbox = box /\ d.rvalid = c.rvalid /\ d.abox = c.abox /\ d.avalid = c.avalid
      /\ d.nbConnect = c.nbConnect /\ d.cur = c.cur /\ d.recvTimeout = c.recvTimeout /\ d.ev = c.ev
      /\ d.pcb.st = c.pcb.st /\ d.pcb.recv = c.pcb.recv /\ d.pcb.txShut = c.pcb.txShut
      /\ d.pcb.eofLost = c.pcb.eofLost /\ d.pcb.given = g /\ d.pcb.fin = c.pcb.fin
      /\ kept.rbox = c.rbox
  <2> HIDE DEF box
  <2> QED
    BY DEF Sound, Shaped
<1>7. box = Append(c.rbox, p)
  BY <1>6
<1> HIDE DEF d, box, kept
<1>8. Back(c, d)
  BY <1>2, <1>6, <1>7, PostBack
<1>9. Back(c, Posts(kept, p))
  BY <1>3, <1>8, SafeErrBack, BackOut, QuietlyOne DEF Evts
<1>10. Back(c, SafeErr(c, "OK"))
  BY BackStays, SafeErrBack
<1> QED
  BY <1>1, <1>5, <1>9, <1>10, ErrTcpBack DEF Fatal

\* LwipNetconn.RecvTcpFin
LEMMA RecvTcpFinBack ==
  ASSUME NEW c, Sound(c), Spoken(c), Mute(c.ev), c.pcb.st = "open" PROVE Back(c, RecvTcpFin(c))
<1> DEFINE q == ~c.pcb.txShut
           d == [c EXCEPT !.pcb.fin = TRUE, !.pcb.passive = q]
           lost == [d EXCEPT !.pcb.eofLost = TRUE]
           box == Append(d.rbox, EOF)
           e == [d EXCEPT !.rbox = box]
<1>1. \/ (~c.pcb.recv \/ ~c.rvalid) /\ RecvTcpFin(c) = d
      \/ RecvTcpFin(c) = SafeErr(lost, "OK")
      \/ RecvTcpFin(c) = Posts(d, EOF)
  BY Zenon DEF RecvTcpFin
<1>2. Posts(d, EOF) = Out(SafeErr(e, "OK"), <<Event("RCVPLUS")>>)
  BY Zenon DEF Posts
<1> HIDE DEF q
<1>3. /\ Shaped(d) /\ d.id = c.id /\ d.type = c.type /\ d.socket = c.socket /\ d.state = c.state
      /\ d.err = c.err /\ d.rbox = c.rbox /\ d.rvalid = c.rvalid /\ d.abox = c.abox
      /\ d.avalid = c.avalid /\ d.nbConnect = c.nbConnect /\ d.cur = c.cur
      /\ d.recvTimeout = c.recvTimeout /\ d.ev = c.ev /\ d.pcb.st = c.pcb.st
      /\ d.pcb.recv = c.pcb.recv /\ d.pcb.txShut = c.pcb.txShut /\ d.pcb.eofLost = c.pcb.eofLost
      /\ d.pcb.given = c.pcb.given /\ d.pcb.fin
  BY DEF Sound, Shaped
<1> HIDE DEF d
<1>4. /\ Shaped(lost) /\ lost.id = c.id /\ lost.type = c.type /\ lost.socket = c.socket
      /\ lost.state = c.state /\ lost.err = c.err /\ lost.rbox = c.rbox /\ lost.rvalid = c.rvalid
      /\ lost.abox = c.abox /\ lost.avalid = c.avalid /\ lost.nbConnect = c.nbConnect
      /\ lost.cur = c.cur /\ lost.ev = c.ev /\ lost.pcb.st = c.pcb.st /\ lost.pcb.recv = c.pcb.recv
      /\ lost.pcb.txShut = c.pcb.txShut /\ lost.pcb.eofLost /\ lost.pcb.given = c.pcb.given
  BY <1>3 DEF Shaped
<1>5. /\ Shaped(e) /\ e.id = c.id /\ e.type = c.type /\ e.socket = c.socket /\ e.state = c.state
      /\ e.err = c.err /\ e.rbox = box /\ e.rvalid = c.rvalid /\ e.abox = c.abox
      /\ e.avalid = c.avalid /\ e.nbConnect = c.nbConnect /\ e.cur = c.cur
      /\ e.recvTimeout = c.recvTimeout /\ e.ev = c.ev /\ e.pcb = d.pcb
  <2> HIDE DEF box
  <2> QED
    BY <1>3 DEF Shaped
<1>6. box = Append(c.rbox, EOF)
  BY <1>3
<1> HIDE DEF lost, e, box
<1>7. ASSUME ~c.pcb.recv \/ ~c.rvalid PROVE Back(c, d)
  <2>1. ShutdownRefused(d) <=> ShutdownRefused(c)
    BY <1>3 DEF ShutdownRefused
  <2>2. Sound(d) /\ ~d.rvalid
    BY <1>3, <1>7, <2>1 DEF Sound
  <2> QED
    BY <1>3, <2>2 DEF Back, Kept, Spoken, Answers, Busy
<1>8. Back(c, lost)
  <2>1. ShutdownRefused(lost) <=> ShutdownRefused(c)
    BY <1>4 DEF ShutdownRefused
  <2>2. Sound(lost) /\ Fed(lost)
    BY <1>4, <2>1 DEF Sound, Fed
  <2> QED
    BY <1>4, <2>2 DEF Back, Kept, Spoken, Answers, Busy, Open, Awake
<1>9. EOF \in Packets
  BY DEF EOF, Packets
<1>10. Back(c, e)
  BY <1>3, <1>5, <1>6, <1>9, PostBack DEF Sound
<1> QED
  BY <1>1, <1>2, <1>7, <1>8, <1>10, SafeErrBack, BackOut, QuietlyOne DEF Evts

\* LwipNetconn.BothClosed: nobody waits for a pcb freed behind the netconn's
\* back, for both sides of it were closed.
LEMMA BothClosedBack ==
  ASSUME NEW c, Sound(c), Spoken(c), Mute(c.ev), c.pcb.st = "open", c.pcb.fin, c.pcb.txShut
  PROVE  Back(c, BothClosed(c))
<1> DEFINE d == [c EXCEPT !.pcb.st = "freed"]
<1>1. BothClosed(c) = ErrTcp(c, "CLSD") \/ BothClosed(c) = d
  BY Zenon DEF BothClosed
<1>2. /\ Shaped(d) /\ d.id = c.id /\ d.type = c.type /\ d.socket = c.socket /\ d.state = c.state
      /\ d.err = c.err /\ d.rbox = c.rbox /\ d.rvalid = c.rvalid /\ d.abox = c.abox
      /\ d.avalid = c.avalid /\ d.nbConnect = c.nbConnect /\ d.cur = c.cur
      /\ d.recvTimeout = c.recvTimeout /\ d.ev = c.ev /\ d.pcb.st = "freed"
      /\ d.pcb.recv = c.pcb.recv /\ d.pcb.txShut = c.pcb.txShut /\ d.pcb.eofLost = c.pcb.eofLost
      /\ d.pcb.given = c.pcb.given /\ d.pcb.fin
  BY DEF Sound, Shaped
<1> HIDE DEF d
<1>3. (Fed(c) => Fed(d)) /\ (Ended(d) <=> Ended(c))
  BY <1>2 DEF Fed, Ended
<1>4. c.state = "close" => ShutdownRefused(d)
  BY <1>2 DEF Sound, ShutdownRefused
<1>5. Sound(d)
  BY <1>2, <1>4 DEF Sound
<1>6. Back(c, d)
  BY <1>2, <1>3, <1>5 DEF Back, Kept, Spoken, Answers, Busy, Open, Awake
<1> QED
  BY <1>1, <1>6, ErrTcpBack DEF Fatal

\* LwipNetconn.DoConnected
LEMMA DoConnectedBack ==
  ASSUME NEW c, Sound(c), Spoken(c), Mute(c.ev), c.state = "connect" PROVE Back(c, DoConnected(c))
<1> DEFINE d == [c EXCEPT !.pcb.st = "open", !.nbConnect = FALSE, !.cur = NoMsg, !.state = "none"]
           plus == <<Event("SENDPLUS")>>
           e == Out(d, plus)
<1>1. DoConnected(c) = IF c.nbConnect THEN Out(SafeErr(d, "OK"), plus) ELSE Reply(e, "OK")
  BY Zenon DEF DoConnected
<1>2. Quietly(plus)
  BY QuietlyOne DEF Evts
<1> HIDE DEF plus
<1>3. /\ Shaped(d) /\ d.id = c.id /\ d.type = c.type /\ d.socket = c.socket /\ d.state = "none"
      /\ d.err = c.err /\ d.rbox = c.rbox /\ d.rvalid = c.rvalid /\ d.abox = c.abox
      /\ d.avalid = c.avalid /\ ~d.nbConnect
      /\ d.recvTimeout = c.recvTimeout /\ d.ev = c.ev /\ d.pcb.st = "open"
      /\ d.pcb.recv = c.pcb.recv /\ d.pcb.fin = c.pcb.fin /\ d.pcb.eofLost = c.pcb.eofLost
      /\ d.pcb.given = c.pcb.given
  BY DEF Sound, Shaped
<1> HIDE DEF d
<1>4. Sound(d) /\ Spoken(d) /\ Mute(d.ev) /\ ~Busy(d)
  BY <1>3 DEF Sound, Spoken, Busy
<1>5. (d.rvalid => Fed(d)) /\ (Posted(c.ev) => Posted(d.ev))
  BY <1>3 DEF Fed, Sound
<1>6. Kept(c, d)
  BY <1>3, <1>5 DEF Kept, Open, Awake
<1>7. CASE c.nbConnect
  <2>1. Back(c, d)
    BY <1>3, <1>4, <1>6, <1>7 DEF Back, Busy
  <2> QED
    BY <1>1, <1>2, <1>7, <2>1, SafeErrBack, BackOut
<1>8. CASE ~c.nbConnect
  <2>1. Same(d, e) /\ Spoken(e) /\ Mute(e.ev) /\ (Posted(d.ev) => Posted(e.ev))
    BY <1>2, <1>4, OutKeeps
  <2> HIDE DEF e
  <2>2. Sound(e) /\ Kept(d, e) /\ ~Busy(e)
    BY <1>4, <2>1, SameSound
  <2> DEFINE f == Reply(e, "OK")
  <2>3. Same(e, f) /\ Spoken(f) /\ Once(f.ev) /\ (Posted(e.ev) => Posted(f.ev))
    BY <2>1, <2>2, ReplyAnswers DEF Errs
  <2>4. DoConnected(c) = f
    BY <1>1, <1>8
  <2> HIDE DEF f
  <2>5. Sound(f) /\ Kept(e, f) /\ ~Busy(f)
    BY <2>2, <2>3, SameSound
  <2>6. Kept(c, f)
    BY <1>6, <2>2, <2>5 DEF Kept
  <2> QED
    BY <1>8, <2>3, <2>4, <2>5, <2>6 DEF Back, Answers, Busy
<1> QED
  BY <1>7, <1>8

\* What a netconn in the middle of a call still has to be.
Fair(c) ==
  /\ Shaped(c) /\ c.type \in {"tcp", "udp", "free"}
  /\ c.pcb.given \in Int /\ c.rbox \in Seq(Packets) /\ c.abox \in Seq(Conns) /\ c.socket \in Int
  /\ ~c.pcb.recv => ~c.rvalid
  /\ c.pcb.st \in {"closed", "syn"} => ~c.pcb.fin
  /\ ~c.avalid => c.abox = <<>>

\* b has begun to write or to close as c.
Entered(b, c) ==
  /\ Shaped(c) /\ Spoken(c) /\ Mute(c.ev) /\ (Posted(b.ev) => Posted(c.ev))
  /\ c.id = b.id /\ c.type = b.type /\ c.socket = b.socket /\ c.err = b.err /\ c.rbox = b.rbox
  /\ c.rvalid = b.rvalid /\ c.abox = b.abox /\ c.avalid = b.avalid /\ c.nbConnect = b.nbConnect
  /\ c.recvTimeout = b.recvTimeout
  /\ c.pcb.st = b.pcb.st /\ c.pcb.recv = b.pcb.recv /\ c.pcb.fin = b.pcb.fin
  /\ c.pcb.txShut = b.pcb.txShut /\ c.pcb.eofLost = b.pcb.eofLost /\ c.pcb.given = b.pcb.given
  /\ b.type # "free"

\* Fields nobody follows may change on the way, and callbacks may be said.
LEMMA EnteredOn ==
  ASSUME NEW b, NEW c, NEW d, Entered(b, c), Same(c, d), Spoken(d), Mute(d.ev),
         Posted(c.ev) => Posted(d.ev)
  PROVE  Entered(b, d)
  BY DEF Entered, Same

\* Entered says as much as the netconn did, but for the state it is in.
LEMMA EnteredKept == ASSUME NEW b, NEW c, Entered(b, c) PROVE Kept(b, c)
<1>1. (Fed(c) <=> Fed(b)) /\ (Ended(c) <=> Ended(b))
  BY DEF Entered, Fed, Ended
<1> QED
  BY <1>1 DEF Entered, Kept, Open, Awake

\* LwipNetconn.Out on the way.
LEMMA EnteredOut ==
  ASSUME NEW b, NEW c, NEW what, Entered(b, c), Quietly(what)
  PROVE  Entered(b, Out(c, what)) /\ Same(c, Out(c, what))
<1> DEFINE said == [i \in DOMAIN what |-> <<c.id, what[i]>>]
           ev == c.ev \o said
           d == Out(c, what)
<1>1. d = [c EXCEPT !.ev = ev]
  BY DEF Out
<1>2. Same(c, d) /\ d.ev = ev
  <2> HIDE DEF ev, d
  <2> QED
    BY <1>1 DEF Same, Entered, Shaped
<1> HIDE DEF ev, d
<1>3. Spoken(d) /\ Mute(ev) /\ (Posted(c.ev) => Posted(ev))
  <2> DEFINE S == {c.id} \X Whats
  <2>1. what \in Seq(Whats) /\ Len(what) \in Nat /\ DOMAIN what = 1 .. Len(what)
    BY DEF Quietly
  <2>2. said \in Seq(S) /\ DOMAIN said = DOMAIN what
    BY <2>1
  <2>3. \A i \in DOMAIN said : said[i][2] = what[i]
    BY <2>2
  <2>4. c.ev \in Seq(S)
    BY DEF Entered, Spoken
  <2> HIDE DEF S, said
  <2>5. /\ ev \in Seq(S)
        /\ \A k \in DOMAIN c.ev : k \in DOMAIN ev /\ ev[k] = c.ev[k]
        /\ \A k \in DOMAIN said : Len(c.ev) + k \in DOMAIN ev /\ ev[Len(c.ev) + k] = said[k]
        /\ \A k \in DOMAIN ev : k \in DOMAIN c.ev \/ \E j \in DOMAIN said : k = Len(c.ev) + j
    BY <2>2, <2>4, Joined DEF ev
  <2>6. \A k \in DOMAIN said : said[k][2].op # "signal"
    BY <2>2, <2>3 DEF Quietly
  <2>7. Mute(ev)
    BY <2>5, <2>6 DEF Mute, Entered
  <2>8. Posted(c.ev) => Posted(ev)
    BY <2>5 DEF Posted
  <2>9. Spoken(d)
    BY <1>2, <2>5 DEF Spoken, Same, S
  <2> QED
    BY <2>7, <2>8, <2>9
<1>4. Entered(b, d)
  BY <1>2, <1>3, EnteredOn
<1> QED
  BY <1>2, <1>4 DEF d

\* LwipNetconn.WriteFinished answers, whatever the netconn was.
LEMMA WriteFinishedTook ==
  ASSUME NEW b, NEW c, NEW err \in Errs, Fair(b), Entered(b, c), ~c.nbConnect
  PROVE  Took(b, WriteFinished(c, err))
<1> DEFINE d == [c EXCEPT !.cur = NoMsg, !.state = "none"]
           e == Reply(d, err)
<1>1. WriteFinished(c, err) = e
  BY DEF WriteFinished
<1>2. /\ Shaped(d) /\ d.id = c.id /\ d.type = c.type /\ d.socket = c.socket /\ d.state = "none"
      /\ d.err = c.err /\ d.rbox = c.rbox /\ d.rvalid = c.rvalid /\ d.abox = c.abox
      /\ d.avalid = c.avalid /\ d.nbConnect = c.nbConnect
      /\ d.recvTimeout = c.recvTimeout /\ d.ev = c.ev /\ d.pcb = c.pcb
  BY DEF Entered, Shaped
<1> HIDE DEF d
<1>3. Entered(b, d)
  BY <1>2 DEF Entered, Spoken
<1>4. Sound(d) /\ ~Busy(d)
  BY <1>2, <1>3 DEF Sound, Fair, Entered, Busy
<1>5. Same(d, e) /\ Spoken(e) /\ Once(e.ev) /\ (Posted(d.ev) => Posted(e.ev))
  BY <1>3, <1>4, ReplyAnswers DEF Entered
<1> HIDE DEF e
<1>6. Sound(e) /\ Kept(d, e) /\ ~Busy(e)
  BY <1>4, <1>5, SameSound
<1>7. Kept(b, e)
  BY <1>3, <1>6, EnteredKept DEF Kept
<1> QED
  BY <1>1, <1>5, <1>6, <1>7 DEF Took, Answers

\* A write that waits: the pcb is open and not shut.
LEMMA WriteWaits ==
  ASSUME NEW b, NEW c, Fair(b), Entered(b, c), c.state = "write", ~c.nbConnect,
         c.pcb.st = "open", ~c.pcb.txShut
  PROVE  Took(b, c)
<1>1. Sound(c) /\ Busy(c)
  BY DEF Sound, Fair, Entered, Busy
<1> QED
  BY <1>1, EnteredKept DEF Took, Answers, Entered

\* LwipNetconn.WriteAnswered
LEMMA WriteAnsweredTook ==
  ASSUME NEW b, NEW c, NEW n, NEW dont, NEW err \in {"OK", "CONN", "MEM", "WOULDBLOCK"},
         Fair(b), Entered(b, c), c.state = "write", ~c.nbConnect,
         err \in {"OK", "MEM"} => c.pcb.st = "open" /\ ~c.pcb.txShut
  PROVE  Took(b, WriteAnswered(c, n, err, dont))
<1> DEFINE room == c.pcb.room - n
           off == c.offset + n
           sent == IF err = "OK" THEN [c EXCEPT !.pcb.room = room, !.offset = off] ELSE c
           some == dont /\ n < c.cur.len
           cs == sent.checkSpace \/ some
           f == [sent EXCEPT !.checkSpace = cs]
           minus == <<Event("SENDMINUS")>>
           told == IF err = "CONN" \/ (~some /\ sent.pcb.room > SndLowat) THEN sent ELSE Out(f, minus)
           last == [told EXCEPT !.offset = 0]
<1>1. \/ WriteAnswered(c, n, err, dont) = WriteFinished(last, "OK")
      \/ err \in {"OK", "MEM"} /\ WriteAnswered(c, n, err, dont) = told
      \/ WriteAnswered(c, n, err, dont) = WriteFinished(told, err)
  BY Zenon DEF WriteAnswered
<1>2. Quietly(minus)
  BY QuietlyOne DEF Evts
<1> HIDE DEF room, off, some, cs, minus
<1>3. Same(c, sent) /\ sent.ev = c.ev
  BY DEF Same, Entered, Shaped
<1>4. Entered(b, sent)
  <2> HIDE DEF sent
  <2> QED
    BY <1>3, EnteredOn DEF Entered, Spoken, Same
<1> HIDE DEF sent
<1>5. Same(sent, f) /\ f.ev = sent.ev
  BY <1>3 DEF Same, Shaped
<1> HIDE DEF f
<1>6. Entered(b, f)
  BY <1>4, <1>5, EnteredOn DEF Entered, Spoken, Same
<1>7. Entered(b, Out(f, minus)) /\ Same(f, Out(f, minus))
  BY <1>2, <1>6, EnteredOut
<1>8. Entered(b, told) /\ Same(c, told)
  BY <1>3, <1>4, <1>5, <1>7 DEF Same
<1> HIDE DEF told
<1>9. Same(told, last) /\ last.ev = told.ev
  BY <1>8 DEF Same, Shaped
<1> HIDE DEF last
<1>10. Entered(b, last)
  BY <1>8, <1>9, EnteredOn DEF Entered, Spoken, Same
<1>11. Took(b, WriteFinished(last, "OK"))
  BY <1>8, <1>9, <1>10, WriteFinishedTook DEF Same, Errs
<1>12. Took(b, WriteFinished(told, err))
  BY <1>8, WriteFinishedTook DEF Same, Errs, Fatal
<1>13. err \in {"OK", "MEM"} => Took(b, told)
  BY <1>8, WriteWaits DEF Same
<1> QED
  BY <1>1, <1>11, <1>12, <1>13

\* LwipNetconn.DoWritemore
LEMMA DoWritemoreTook ==
  ASSUME NEW b, NEW c, NEW x, Fair(b), Entered(b, c), c.state = "write", ~c.nbConnect
  PROVE  Took(b, DoWritemore(c, x))
<1>1. ASSUME NEW n, NEW mem PROVE
        /\ TcpWriteErr(c, n, mem) \in {"OK", "CONN", "MEM"}
        /\ TcpWriteErr(c, n, mem) \in {"OK", "MEM"} => c.pcb.st = "open" /\ ~c.pcb.txShut
  BY DEF TcpWriteErr
<1>2. Took(b, WriteTimedOut(c))
  BY WriteFinishedTook DEF WriteTimedOut, Errs
<1> DEFINE left == c.cur.len - c.offset
           n == Least(left, c.pcb.room)
           dont == c.nonblock \/ c.cur.dont
           err == IF dont /\ n = 0 THEN "WOULDBLOCK" ELSE TcpWriteErr(c, n, x.mem)
<1>3. DoWritemore(c, x) = IF x.late THEN WriteTimedOut(c) ELSE WriteAnswered(c, n, err, dont)
  BY Zenon DEF DoWritemore
<1> HIDE DEF left, n, dont
<1>4. /\ err \in {"OK", "CONN", "MEM", "WOULDBLOCK"}
      /\ err \in {"OK", "MEM"} => c.pcb.st = "open" /\ ~c.pcb.txShut
  BY <1>1
<1> HIDE DEF err
<1> QED
  BY <1>2, <1>3, <1>4, WriteAnsweredTook

\* An answer after callbacks, from a netconn that owes none.
LEMMA AnswerTook ==
  ASSUME NEW b, NEW d, NEW what, NEW err \in Errs, Kept(b, d), Sound(d), ~Busy(d), Spoken(d),
         Mute(d.ev), Quietly(what)
  PROVE  Took(b, Reply(Out(d, what), err)) /\ Took(b, Reply(d, err))
<1> DEFINE e == Out(d, what)
<1>1. Same(d, e) /\ Spoken(e) /\ Mute(e.ev) /\ (Posted(d.ev) => Posted(e.ev))
  BY OutKeeps
<1>2. Sound(e) /\ Kept(d, e) /\ ~Busy(e)
  BY <1>1, SameSound
<1> HIDE DEF e
<1>3. Kept(b, e)
  BY <1>2 DEF Kept
<1>4. ASSUME NEW g, Kept(b, g), Sound(g), ~Busy(g), Spoken(g), Mute(g.ev) PROVE Took(b, Reply(g, err))
  <2> DEFINE f == Reply(g, err)
  <2>1. Same(g, f) /\ Spoken(f) /\ Once(f.ev) /\ (Posted(g.ev) => Posted(f.ev))
    BY <1>4, ReplyAnswers
  <2> HIDE DEF f
  <2>2. Sound(f) /\ Kept(g, f) /\ ~Busy(f)
    BY <1>4, <2>1, SameSound
  <2>3. Kept(b, f)
    BY <1>4, <2>2 DEF Kept
  <2>4. Took(b, f)
    BY <2>1, <2>2, <2>3 DEF Took, Answers
  <2> QED
    BY <2>4 DEF f
<1> QED
  BY <1>1, <1>2, <1>3, <1>4 DEF e

\* LwipNetconn.DoCloseInternal
LEMMA DoCloseTook ==
  ASSUME NEW b, NEW c, NEW x, Fair(b), Entered(b, c), c.state = "close", c.pcb.st # "none",
         "rd" \in c.cur.how => ~c.rvalid,
         c.nbConnect => c.cur.how = {"rd", "wr"} /\ c.pcb.st # "open"
  PROVE  Took(b, DoCloseInternal(c, x))
<1> DEFINE shut == c.cur.how
           close == shut = {"rd", "wr"}
           fin == "wr" \in shut /\ c.pcb.st = "open" /\ ~c.pcb.txShut /\ (close => c.pcb.wnd = Wnd)
           rec == c.pcb.recv /\ "rd" \notin shut
           cut == [c EXCEPT !.pcb.recv = rec]
           snt == cut.pcb.sent /\ "wr" \notin shut
           txs == cut.pcb.txShut \/ "wr" \in shut
           pcb == IF close THEN NoPcb ELSE [cut.pcb EXCEPT !.sent = snt, !.txShut = txs]
           done == [cut EXCEPT !.cur = NoMsg, !.state = "none", !.pcb = pcb]
           waiting == [cut EXCEPT !.pcb.sent = TRUE]
           a == IF close THEN <<Event("ERROR")>> ELSE <<>>
           r == IF "rd" \in shut THEN <<Event("RCVPLUS")>> ELSE <<>>
           w == IF "wr" \in shut THEN <<Event("SENDPLUS")>> ELSE <<>>
           what == a \o r \o w
<1>1. DoCloseInternal(c, x) =
        IF ShutdownRefused(c) \/ (fin /\ ~x.mem) THEN waiting ELSE Reply(Out(done, what), "OK")
  BY Zenon DEF DoCloseInternal
<1>2. Quietly(what)
  <2>1. Quietly(a) /\ Quietly(r) /\ Quietly(w)
    BY QuietlyOne DEF Evts
  <2> HIDE DEF a, r, w
  <2> QED
    BY <2>1, QuietlyJoins
<1> HIDE DEF what
<1>14. rec <=> c.pcb.recv /\ "rd" \notin shut
  OBVIOUS
<1> HIDE DEF rec
<1>3. /\ Shaped(cut) /\ cut.id = c.id /\ cut.type = c.type /\ cut.socket = c.socket /\ cut.state = "close"
      /\ cut.err = c.err /\ cut.rbox = c.rbox /\ cut.rvalid = c.rvalid /\ cut.abox = c.abox
      /\ cut.avalid = c.avalid /\ cut.nbConnect = c.nbConnect /\ cut.cur = c.cur
      /\ cut.recvTimeout = c.recvTimeout /\ cut.ev = c.ev /\ cut.pcb.st = c.pcb.st
      /\ cut.pcb.recv = rec /\ cut.pcb.txShut = c.pcb.txShut /\ cut.pcb.eofLost = c.pcb.eofLost
      /\ cut.pcb.given = c.pcb.given /\ cut.pcb.fin = c.pcb.fin
  <2> HIDE DEF rec
  <2> QED
    BY DEF Entered, Shaped
<1> HIDE DEF cut
<1>4. /\ Same(cut, waiting) /\ waiting.ev = c.ev
  <2> HIDE DEF rec
  <2> QED
    BY <1>3 DEF Same, Shaped
<1>5. (c.rvalid => (Fed(c) => Fed(waiting))) /\ (Ended(waiting) <=> Ended(c))
  <2> HIDE DEF waiting
  <2> QED
    BY <1>3, <1>4, <1>14 DEF Same, Fed, Ended
<1>6. ASSUME ShutdownRefused(c) \/ fin PROVE Took(b, waiting)
  <2> HIDE DEF waiting
  <2>1. ~c.nbConnect
    BY <1>6 DEF ShutdownRefused
  <2>2. ShutdownRefused(waiting) <=> ShutdownRefused(c)
    BY <1>3, <1>4 DEF ShutdownRefused, Same
  <2>3. Sound(waiting) /\ Busy(waiting)
    BY <1>3, <1>4, <1>6, <1>14, <2>1, <2>2 DEF Sound, Fair, Same, Entered, Busy
  <2>4. Kept(c, waiting)
    BY <1>3, <1>4, <1>5 DEF Kept, Open, Awake, Same
  <2>5. Kept(b, waiting)
    BY <2>4, EnteredKept DEF Kept
  <2> QED
    BY <1>3, <1>4, <2>3, <2>5 DEF Took, Answers, Entered, Spoken, Same
<1>7. /\ Shaped(done) /\ done.id = c.id /\ done.type = c.type /\ done.socket = c.socket /\ done.state = "none"
      /\ done.err = c.err /\ done.rbox = c.rbox /\ done.rvalid = c.rvalid /\ done.abox = c.abox
      /\ done.avalid = c.avalid /\ done.nbConnect = c.nbConnect
      /\ done.recvTimeout = c.recvTimeout /\ done.ev = c.ev /\ done.pcb = pcb
  <2>1. "st" \in DOMAIN pcb /\ "recv" \in DOMAIN pcb /\ "fin" \in DOMAIN pcb /\ "txShut" \in DOMAIN pcb
        /\ "eofLost" \in DOMAIN pcb /\ "given" \in DOMAIN pcb
    <3> HIDE DEF snt, txs, close
    <3> QED
      BY <1>3 DEF Shaped, NoPcb, NewPcb
  <2> HIDE DEF pcb
  <2> QED
    BY <1>3, <2>1 DEF Shaped
<1>8. IF close THEN pcb.st = "none" /\ pcb.recv /\ pcb.given = 0
      ELSE /\ pcb.st = c.pcb.st /\ pcb.recv = rec /\ pcb.fin = c.pcb.fin /\ pcb.eofLost = c.pcb.eofLost
           /\ pcb.given = c.pcb.given
  <2> HIDE DEF snt, txs, close
  <2> QED
    BY <1>3 DEF Shaped, NoPcb, NewPcb
<1> HIDE DEF done, pcb
<1>9. Sound(done) /\ ~Busy(done)
  BY <1>7, <1>8, <1>14 DEF Sound, Fair, Entered, Busy
<1>10. c.rvalid => (Fed(c) => Fed(done)) /\ (Ended(done) <=> Ended(c))
  BY <1>7, <1>8, <1>14 DEF Fed, Ended
<1>11. Kept(c, done)
  BY <1>7, <1>10 DEF Kept, Open, Awake
<1>12. Kept(b, done)
  BY <1>11, EnteredKept DEF Kept
<1>13. Took(b, Reply(Out(done, what), "OK"))
  <2>1. Spoken(done) /\ Mute(done.ev) /\ "OK" \in Errs
    BY <1>7 DEF Entered, Spoken, Errs
  <2> QED
    BY <1>2, <1>9, <1>12, <2>1, AnswerTook
<1> HIDE DEF fin
<1> QED
  BY <1>1, <1>6, <1>13 DEF fin

\* LwipNetconn.Resume
LEMMA ResumeBack ==
  ASSUME NEW c, NEW x, Sound(c), Spoken(c), Mute(c.ev) PROVE Back(c, Resume(c, x))
<1>1. Fair(c)
  BY DEF Sound, Fair
<1>2. CASE c.state = "write"
  <2>1. Entered(c, c) /\ ~c.nbConnect /\ Busy(c)
    BY <1>2 DEF Sound, Entered, Busy
  <2>2. Took(c, DoWritemore(c, x))
    BY <1>1, <1>2, <2>1, DoWritemoreTook
  <2> QED
    BY <1>2, <2>1, <2>2 DEF Resume, Took, Back
<1>3. CASE c.state = "close"
  <2>1. Entered(c, c) /\ ~c.nbConnect /\ Busy(c) /\ c.pcb.st # "none" /\ ("rd" \in c.cur.how => ~c.rvalid)
    BY <1>3 DEF Sound, Entered, Busy
  <2>2. Took(c, DoCloseInternal(c, x))
    BY <1>1, <1>3, <2>1, DoCloseTook
  <2> QED
    BY <1>3, <2>1, <2>2 DEF Resume, Took, Back
<1>4. CASE c.state \notin {"write", "close"}
  <2>1. Resume(c, x) = c
    BY <1>4 DEF Resume
  <2> QED
    BY <2>1, BackStays
<1> QED
  BY <1>2, <1>3, <1>4

\* LwipNetconn.TellWritable
LEMMA TellWritableBack ==
  ASSUME NEW c, NEW d, Back(c, d) PROVE Back(c, TellWritable(d))
<1> DEFINE e == [d EXCEPT !.checkSpace = FALSE]
<1>1. TellWritable(d) = d \/ TellWritable(d) = Out(e, <<Event("SENDPLUS")>>)
  BY Zenon DEF TellWritable
<1>2. Same(d, e) /\ e.ev = d.ev /\ e.id = d.id
  BY DEF Same, Back, Sound, Shaped
<1> HIDE DEF e
<1>3. Back(c, e)
  BY <1>2, BackOn DEF Back, Spoken
<1> QED
  BY <1>1, <1>3, BackOut, QuietlyOne DEF Evts

\* LwipNetconn.PollTcp
LEMMA PollTcpBack ==
  ASSUME NEW c, NEW x, Sound(c), Spoken(c), Mute(c.ev) PROVE Back(c, PollTcp(c, x))
  BY ResumeBack, TellWritableBack DEF PollTcp

\* LwipNetconn.SentTcp
LEMMA SentTcpBack ==
  ASSUME NEW c, NEW x, Sound(c), Spoken(c), Mute(c.ev) PROVE Back(c, SentTcp(c, x))
<1> DEFINE d == [c EXCEPT !.pcb.room = SndBuf]
           e == TellWritable(Resume(d, x))
<1>1. SentTcp(c, x) = e
  BY DEF SentTcp
<1>2. Same(c, d) /\ d.ev = c.ev
  BY DEF Same, Sound, Shaped
<1> HIDE DEF d
<1>3. Sound(d) /\ Kept(c, d) /\ (Busy(d) <=> Busy(c)) /\ Spoken(d) /\ Mute(d.ev)
  BY <1>2, SameSound DEF Same, Spoken
<1>4. Back(d, e)
  BY <1>3, ResumeBack, TellWritableBack
<1> HIDE DEF e
<1>5. Kept(c, e)
  BY <1>3, <1>4 DEF Back, Kept
<1> QED
  BY <1>1, <1>2, <1>3, <1>4, <1>5 DEF Back, Same, Answers

-----------------------------------------------------------------------------
(* Messages of the application.                                            *)

\* LwipNetconn.Drained: nothing is read or accepted any more.
LEMMA DrainedFair ==
  ASSUME NEW c, Sound(c)
  PROVE  LET d == Drained(c) IN
         /\ Fair(d) /\ Kept(c, d) /\ ~d.rvalid /\ ~d.avalid /\ d.abox = <<>> /\ d.state = c.state /\ d.ev = c.ev
         /\ d.id = c.id /\ d.type = c.type /\ d.nbConnect = c.nbConnect /\ d.pcb.st = c.pcb.st
         /\ d.pcb.recv = c.pcb.recv /\ d.pcb.txShut = c.pcb.txShut
<1> DEFINE n == Bytes(c.rbox)
           w == Least(Wnd, c.pcb.wnd + n)
           r == [c EXCEPT !.pcb.wnd = w]
           b == IF c.type = "tcp" THEN r ELSE c
           d == [b EXCEPT !.rbox = <<>>, !.rvalid = FALSE, !.abox = <<>>, !.avalid = FALSE]
<1>1. Drained(c) = d
  BY Zenon DEF Drained, TcpRecved
<1> HIDE DEF w
<1>2. Same(c, r) /\ r.ev = c.ev
  BY DEF Same, Sound, Shaped
<1> HIDE DEF r
<1>3. Same(c, b) /\ b.ev = c.ev
  BY <1>2 DEF Same, Sound
<1> HIDE DEF b
<1>4. /\ Shaped(d) /\ d.id = b.id /\ d.type = b.type /\ d.socket = b.socket /\ d.state = b.state
      /\ d.err = b.err /\ d.rbox = <<>> /\ ~d.rvalid /\ d.abox = <<>> /\ ~d.avalid
      /\ d.nbConnect = b.nbConnect /\ d.ev = b.ev /\ d.pcb = b.pcb
  BY <1>3 DEF Same, Shaped
<1> HIDE DEF d
<1>5. Fair(d)
  BY <1>3, <1>4 DEF Fair, Sound, Same
<1>6. Kept(c, d)
  BY <1>3, <1>4 DEF Kept, Same
<1> QED
  BY <1>1, <1>3, <1>4, <1>5, <1>6 DEF Same

\* A netconn as it is for a message: sound, silent, and owing no answer.
Idle(c) == Sound(c) /\ Spoken(c) /\ Mute(c.ev) /\ ~Busy(c)

\* A message that only answers.
LEMMA ReplyTook == ASSUME NEW c, NEW err \in Errs, Idle(c) PROVE Took(c, Reply(c, err))
<1>1. Kept(c, c) /\ Quietly(<<>>)
  BY QuietlyOne DEF Kept
<1> QED
  BY <1>1, AnswerTook DEF Idle

\* LwipNetconn.Takes
LEMMA TakesEntered ==
  ASSUME NEW b, NEW state, NEW msg, Shaped(b), Spoken(b), Mute(b.ev), b.type # "free",
         Takes(b, state, msg).fail = "none"
  PROVE  /\ Entered(b, Takes(b, state, msg)) /\ Takes(b, state, msg).state = state
         /\ Takes(b, state, msg).cur = msg
<1> DEFINE t == [b EXCEPT !.state = state, !.cur = msg]
           f == [b EXCEPT !.fail = "already writing or closing"]
<1>1. Takes(b, state, msg) = t \/ Takes(b, state, msg) = f
  BY Zenon DEF Takes, Fails
<1>2. f.fail # "none"
  BY DEF Shaped
<1>3. /\ Shaped(t) /\ t.id = b.id /\ t.type = b.type /\ t.socket = b.socket /\ t.state = state
      /\ t.err = b.err /\ t.rbox = b.rbox /\ t.rvalid = b.rvalid /\ t.abox = b.abox
      /\ t.avalid = b.avalid /\ t.nbConnect = b.nbConnect /\ t.cur = msg
      /\ t.recvTimeout = b.recvTimeout /\ t.ev = b.ev /\ t.pcb = b.pcb
  BY DEF Shaped
<1> HIDE DEF t, f
<1>4. Entered(b, t)
  BY <1>3 DEF Entered, Spoken
<1> QED
  BY <1>1, <1>2, <1>3, <1>4

\* A handler that must not have been called.
Lost(d) == Shaped(d) /\ d.fail # "none"

\* LwipNetconn.Takes that refuses.
LEMMA TakesLost ==
  ASSUME NEW b, NEW state, NEW msg, Shaped(b), Takes(b, state, msg).fail # "none"
  PROVE  Lost(Takes(b, state, msg))
<1>1. \/ Takes(b, state, msg) = [b EXCEPT !.state = state, !.cur = msg]
      \/ Takes(b, state, msg) = [b EXCEPT !.fail = "already writing or closing"]
  BY Zenon DEF Takes, Fails
<1> QED
  BY <1>1 DEF Lost, Shaped

\* LwipNetconn.DoDelconn
LEMMA DoDelconnTook ==
  ASSUME NEW c, NEW msg, NEW x, Idle(c), "how" \in DOMAIN msg
  PROVE  Took(c, DoDelconn(c, msg, x)) \/ Lost(DoDelconn(c, msg, x))
<1> DEFINE d == Drained(c)
           all == [msg EXCEPT !.how = {"rd", "wr"}]
           t == Takes(d, "close", all)
           e == [d EXCEPT !.pcb = NoPcb]
           what == <<Event("RCVPLUS"), Event("SENDPLUS")>>
<1>1. DoDelconn(c, msg, x) =
        IF c.state \notin {"none", "listen", "connect"} THEN Reply(c, "INPROGRESS")
        ELSE IF c.type = "tcp" /\ c.pcb.st # "none"
             THEN IF t.fail # "none" THEN t ELSE DoCloseInternal(t, x)
             ELSE Reply(Out(e, what), "OK")
  BY Zenon DEF DoDelconn
<1>2. all.how = {"rd", "wr"}
  OBVIOUS
<1> HIDE DEF all
<1>3. /\ Fair(d) /\ Kept(c, d) /\ ~d.rvalid /\ ~d.avalid /\ d.abox = <<>> /\ d.state = c.state /\ d.ev = c.ev
      /\ d.id = c.id /\ d.type = c.type /\ d.nbConnect = c.nbConnect /\ d.pcb.st = c.pcb.st
  BY DrainedFair DEF Idle
<1> HIDE DEF d
<1>4. CASE c.state \notin {"none", "listen", "connect"}
  BY <1>1, <1>4, ReplyTook DEF Errs
<1>7. CASE c.state \in {"none", "listen", "connect"} /\ c.type = "tcp" /\ c.pcb.st # "none" /\ t.fail # "none"
  BY <1>1, <1>3, <1>7, TakesLost DEF Fair
<1>5. CASE c.state \in {"none", "listen", "connect"} /\ c.type = "tcp" /\ c.pcb.st # "none" /\ t.fail = "none"
  <2>1. t.fail = "none" /\ DoDelconn(c, msg, x) = DoCloseInternal(t, x)
    BY <1>1, <1>5
  <2>2. Shaped(d) /\ Spoken(d) /\ Mute(d.ev) /\ d.type # "free"
    BY <1>3, <1>5 DEF Fair, Idle, Spoken
  <2>3. Entered(d, t) /\ t.state = "close" /\ t.cur = all
    BY <2>1, <2>2, TakesEntered
  <2> HIDE DEF t
  <2>4. t.pcb.st = c.pcb.st /\ t.nbConnect = c.nbConnect /\ ~t.rvalid /\ t.cur.how = {"rd", "wr"}
    BY <1>2, <1>3, <2>3 DEF Entered
  <2>5. t.nbConnect => t.pcb.st # "open"
    BY <1>5, <2>4 DEF Idle, Sound
  <2>6. Took(d, DoCloseInternal(t, x))
    BY <1>3, <1>5, <2>3, <2>4, <2>5, DoCloseTook
  <2>7. Kept(c, DoCloseInternal(t, x))
    BY <1>3, <2>6 DEF Took, Kept
  <2> QED
    BY <2>1, <2>6, <2>7 DEF Took
<1>6. CASE c.state \in {"none", "listen", "connect"} /\ ~(c.type = "tcp" /\ c.pcb.st # "none")
  <2>1. c.state = "none"
    BY <1>6 DEF Idle, Sound
  <2>2. /\ Shaped(e) /\ e.id = d.id /\ e.type = d.type /\ e.socket = d.socket /\ e.state = d.state
        /\ e.err = d.err /\ e.rbox = d.rbox /\ e.rvalid = d.rvalid /\ e.abox = d.abox
        /\ e.avalid = d.avalid /\ e.ev = d.ev /\ e.pcb = NoPcb
    BY <1>3 DEF Fair, Shaped, NoPcb, NewPcb
  <2>3. NoPcb.st = "none" /\ NoPcb.given \in Int
    BY DEF NoPcb, NewPcb
  <2> HIDE DEF e
  <2>4. Sound(e) /\ ~Busy(e) /\ Spoken(e) /\ Mute(e.ev)
    BY <1>3, <2>1, <2>2, <2>3 DEF Sound, Fair, Busy, Idle, Spoken
  <2>5. Kept(d, e)
    BY <1>3, <2>2 DEF Kept
  <2>6. Kept(c, e)
    BY <1>3, <2>5 DEF Kept
  <2>7. Quietly(what)
    <3>1. Event("RCVPLUS") \in Whats /\ Event("SENDPLUS") \in Whats
      BY DEF Event, Whats, Evts
    <3>2. Event("RCVPLUS").op = "event" /\ Event("SENDPLUS").op = "event"
      BY DEF Event
    <3> QED
      BY <3>1, <3>2 DEF Quietly
  <2> HIDE DEF what
  <2>8. Took(c, Reply(Out(e, what), "OK"))
    BY <2>4, <2>6, <2>7, AnswerTook DEF Errs
  <2> QED
    BY <1>1, <1>6, <2>8
<1> QED
  BY <1>4, <1>5, <1>6, <1>7

\* LwipNetconn.DoConnect
LEMMA DoConnectTook ==
  ASSUME NEW c, NEW msg, NEW x, Idle(c) PROVE Took(c, DoConnect(c, msg, x))
<1> DEFINE d == [c EXCEPT !.state = "connect", !.nbConnect = c.nonblock, !.pcb.st = "syn"]
           e == [d EXCEPT !.cur = msg]
<1>1. \/ \E err \in Errs : DoConnect(c, msg, x) = Reply(c, err)
      \/ /\ c.type # "udp" /\ c.state = "none" /\ c.pcb.st = "closed"
         /\ DoConnect(c, msg, x) = IF c.nonblock THEN Reply(d, "INPROGRESS") ELSE e
  <2>1. "CLSD" \in Errs /\ "OK" \in Errs /\ "ISCONN" \in Errs
    BY DEF Errs, Fatal
  <2>2. DoConnect(c, msg, x) =
          IF c.pcb.st = "none" THEN Reply(c, "CLSD")
          ELSE IF c.type = "udp" THEN Reply(c, "OK")
          ELSE IF c.state # "none" \/ c.pcb.st # "closed" THEN Reply(c, "ISCONN")
          ELSE IF c.nonblock THEN Reply(d, "INPROGRESS") ELSE e
    BY Zenon DEF DoConnect
  <2> HIDE DEF d, e
  <2> QED
    BY <2>1, <2>2
<1>2. ASSUME NEW err \in Errs, DoConnect(c, msg, x) = Reply(c, err) PROVE Took(c, DoConnect(c, msg, x))
  BY <1>2, ReplyTook
<1>3. ASSUME c.type # "udp", c.state = "none", c.pcb.st = "closed",
             DoConnect(c, msg, x) = IF c.nonblock THEN Reply(d, "INPROGRESS") ELSE e
      PROVE  Took(c, DoConnect(c, msg, x))
  <2> DEFINE Syn(g) ==
        /\ Shaped(g) /\ g.id = c.id /\ g.type = c.type /\ g.socket = c.socket /\ g.state = "connect"
        /\ g.err = c.err /\ g.rbox = c.rbox /\ g.rvalid = c.rvalid /\ g.abox = c.abox
        /\ g.avalid = c.avalid /\ g.nbConnect = c.nonblock /\ g.recvTimeout = c.recvTimeout
        /\ g.ev = c.ev /\ g.pcb.st = "syn" /\ g.pcb.recv = c.pcb.recv /\ g.pcb.fin = c.pcb.fin
        /\ g.pcb.given = c.pcb.given
  <2>1. Syn(d)
    BY DEF Idle, Sound, Shaped
  <2>2. Syn(e)
    <3> HIDE DEF d
    <3> QED
      BY <2>1 DEF Shaped
  <2> HIDE DEF d, e
  <2>3. ASSUME NEW g, Syn(g)
        PROVE  Sound(g) /\ Kept(c, g) /\ Spoken(g) /\ Mute(g.ev) /\ (Busy(g) <=> ~c.nonblock)
    <3>1. Sound(g) /\ Fed(g)
      BY <1>3, <2>3 DEF Idle, Sound, Fed
    <3>2. Kept(c, g)
      BY <2>3, <3>1 DEF Kept, Open, Awake
    <3> QED
      BY <2>3, <3>1, <3>2 DEF Idle, Spoken, Busy
  <2> HIDE DEF Syn
  <2>4. CASE c.nonblock
    <3>1. Took(c, Reply(d, "INPROGRESS"))
      BY <2>1, <2>3, <2>4, AnswerTook, QuietlyOne DEF Errs
    <3> QED
      BY <1>3, <2>4, <3>1
  <2>5. CASE ~c.nonblock
    BY <1>3, <2>2, <2>3, <2>5 DEF Took, Answers
  <2> QED
    BY <2>4, <2>5
<1> QED
  BY <1>1, <1>2, <1>3

\* LwipNetconn.DoListen
LEMMA DoListenTook ==
  ASSUME NEW c, NEW msg, NEW x, Idle(c) PROVE Took(c, DoListen(c, msg, x))
<1> DEFINE d == [c EXCEPT !.state = "listen", !.pcb.st = "listen", !.rvalid = FALSE, !.rbox = <<>>,
                          !.avalid = TRUE]
<1>1. \/ \E err \in Errs : DoListen(c, msg, x) = Reply(c, err)
      \/ /\ c.type = "tcp" /\ c.state = "none" /\ c.pcb.st = "closed"
         /\ DoListen(c, msg, x) = Reply(d, "OK")
  <2>1. "ARG" \in Errs /\ "CONN" \in Errs /\ "MEM" \in Errs /\ Fatal \subseteq Errs
    BY DEF Errs, Fatal
  <2>2. DoListen(c, msg, x) =
          IF c.err \in Fatal THEN Reply(c, c.err)
          ELSE IF c.pcb.st # "none" /\ c.type # "tcp" THEN Reply(c, "ARG")
          ELSE IF c.pcb.st = "none" \/ c.state # "none" THEN Reply(c, "CONN")
          ELSE IF c.pcb.st # "closed" \/ ~x.mem THEN Reply(c, "MEM") ELSE Reply(d, "OK")
    BY Zenon DEF DoListen
  <2> HIDE DEF d
  <2> QED
    BY <2>1, <2>2
<1>2. ASSUME NEW err \in Errs, DoListen(c, msg, x) = Reply(c, err) PROVE Took(c, DoListen(c, msg, x))
  BY <1>2, ReplyTook
<1>3. ASSUME c.type = "tcp", c.state = "none", c.pcb.st = "closed"
      PROVE  Took(c, Reply(d, "OK"))
  <2>1. /\ Shaped(d) /\ d.id = c.id /\ d.type = c.type /\ d.socket = c.socket /\ d.state = "listen"
        /\ d.err = c.err /\ d.rbox = <<>> /\ ~d.rvalid /\ d.abox = c.abox /\ d.avalid
        /\ d.nbConnect = c.nbConnect /\ d.ev = c.ev /\ d.pcb.st = "listen" /\ d.pcb.given = c.pcb.given
    BY DEF Idle, Sound, Shaped
  <2> HIDE DEF d
  <2>2. Sound(d) /\ Kept(c, d) /\ Spoken(d) /\ Mute(d.ev) /\ ~Busy(d)
    BY <1>3, <2>1 DEF Idle, Sound, Kept, Spoken, Busy
  <2> QED
    BY <2>2, AnswerTook, QuietlyOne DEF Errs
<1> QED
  BY <1>1, <1>2, <1>3

\* An answer from a netconn with the same fields.
LEMMA SameTook ==
  ASSUME NEW c, NEW d, NEW err \in Errs, Idle(c), Same(c, d), d.ev = c.ev PROVE Took(c, Reply(d, err))
<1>1. Sound(d) /\ Kept(c, d) /\ ~Busy(d) /\ Spoken(d) /\ Mute(d.ev)
  BY SameSound DEF Idle, Same, Spoken
<1> QED
  BY <1>1, AnswerTook, QuietlyOne

\* LwipNetconn.DoRecv
LEMMA DoRecvTook ==
  ASSUME NEW c, NEW msg, NEW x, Idle(c) PROVE Took(c, DoRecv(c, msg, x))
<1> DEFINE w == Least(Wnd, c.pcb.wnd + msg.len)
           d == [c EXCEPT !.pcb.wnd = w]
<1>1. DoRecv(c, msg, x) = Reply(c, "OK") \/ DoRecv(c, msg, x) = Reply(d, "OK")
  BY Zenon DEF DoRecv, TcpRecved
<1> HIDE DEF w
<1>2. Same(c, d) /\ d.ev = c.ev
  BY DEF Same, Idle, Sound, Shaped
<1> HIDE DEF d
<1> QED
  BY <1>1, <1>2, ReplyTook, SameTook DEF Errs

\* LwipNetconn.DoSend
LEMMA DoSendTook ==
  ASSUME NEW c, NEW msg, NEW x, Idle(c) PROVE Took(c, DoSend(c, msg, x))
<1> DEFINE err == IF c.err \in Fatal THEN c.err ELSE IF c.pcb.st = "none" THEN "CONN"
                  ELSE IF x.mem THEN "OK" ELSE "MEM"
<1>1. DoSend(c, msg, x) = Reply(c, err)
  BY Zenon DEF DoSend
<1>2. err \in Errs
  BY DEF Errs, Fatal
<1> HIDE DEF err
<1> QED
  BY <1>1, <1>2, ReplyTook

\* LwipNetconn.DoGetaddr
LEMMA DoGetaddrTook ==
  ASSUME NEW c, NEW msg, NEW x, Idle(c) PROVE Took(c, DoGetaddr(c, msg, x))
<1> DEFINE err == IF c.pcb.st = "none" THEN "CONN" ELSE "OK"
<1>1. DoGetaddr(c, msg, x) = Reply(c, err)
  BY Zenon DEF DoGetaddr
<1>2. err \in Errs
  BY DEF Errs, Fatal
<1> HIDE DEF err
<1> QED
  BY <1>1, <1>2, ReplyTook

\* LwipNetconn.DoOption
LEMMA DoOptionTook ==
  ASSUME NEW c, NEW msg, NEW x, Idle(c) PROVE Took(c, DoOption(c, msg, x)) \/ Lost(DoOption(c, msg, x))
<1> DEFINE s == c.sendTimeout \/ msg.how = "sndtimeo"
           r == c.recvTimeout \/ msg.how = "rcvtimeo"
           d == [c EXCEPT !.sendTimeout = s, !.recvTimeout = r]
           f == [c EXCEPT !.fail = "option of no pcb"]
<1>1. DoOption(c, msg, x) = f \/ DoOption(c, msg, x) = Reply(d, "OK")
  BY Zenon DEF DoOption, Fails
<1>2. Lost(f)
  BY DEF Lost, Idle, Sound, Shaped
<1>3. c.recvTimeout => r
  OBVIOUS
<1> HIDE DEF s, r, f
<1>4. /\ Shaped(d) /\ d.id = c.id /\ d.type = c.type /\ d.socket = c.socket /\ d.state = c.state
      /\ d.err = c.err /\ d.rbox = c.rbox /\ d.rvalid = c.rvalid /\ d.abox = c.abox
      /\ d.avalid = c.avalid /\ d.nbConnect = c.nbConnect /\ d.cur = c.cur
      /\ d.recvTimeout = r /\ d.ev = c.ev /\ d.pcb = c.pcb
  BY DEF Idle, Sound, Shaped
<1> HIDE DEF d
<1>5. (Fed(c) => Fed(d)) /\ (Ended(d) <=> Ended(c)) /\ (ShutdownRefused(d) <=> ShutdownRefused(c))
  BY <1>3, <1>4 DEF Fed, Ended, ShutdownRefused
<1>6. Sound(d) /\ Kept(c, d) /\ Spoken(d) /\ Mute(d.ev) /\ ~Busy(d)
  BY <1>4, <1>5 DEF Idle, Sound, Kept, Spoken, Busy, Open, Awake
<1> QED
  BY <1>1, <1>2, <1>6, AnswerTook, QuietlyOne DEF Errs

\* LwipNetconn.DoWrite
LEMMA DoWriteTook ==
  ASSUME NEW c, NEW msg, NEW x, Idle(c) PROVE Took(c, DoWrite(c, msg, x)) \/ Lost(DoWrite(c, msg, x))
<1> DEFINE t == Takes(c, "write", msg)
           go == IF t.fail # "none" THEN t ELSE DoWritemore(t, x)
<1>1. \/ \E err \in Errs : DoWrite(c, msg, x) = Reply(c, err)
      \/ c.state = "none" /\ c.pcb.st # "none" /\ DoWrite(c, msg, x) = go
  <2>1. "INPROGRESS" \in Errs /\ "CONN" \in Errs /\ Fatal \subseteq Errs
    BY DEF Errs, Fatal
  <2>2. DoWrite(c, msg, x) =
          IF c.err \in Fatal THEN Reply(c, c.err) ELSE IF c.state # "none" THEN Reply(c, "INPROGRESS")
          ELSE IF c.pcb.st = "none" THEN Reply(c, "CONN") ELSE go
    BY Zenon DEF DoWrite
  <2> HIDE DEF go
  <2> QED
    BY <2>1, <2>2
<1>2. ASSUME NEW err \in Errs, DoWrite(c, msg, x) = Reply(c, err) PROVE Took(c, DoWrite(c, msg, x))
  BY <1>2, ReplyTook
<1>4. ASSUME c.state = "none", c.pcb.st # "none", DoWrite(c, msg, x) = go, t.fail # "none"
      PROVE  Lost(DoWrite(c, msg, x))
  BY <1>4, TakesLost DEF Idle, Sound
<1>3. ASSUME c.state = "none", c.pcb.st # "none", DoWrite(c, msg, x) = go, t.fail = "none"
      PROVE  Took(c, DoWrite(c, msg, x))
  <2>1. t.fail = "none" /\ go = DoWritemore(t, x)
    BY <1>3
  <2>2. Shaped(c) /\ Spoken(c) /\ Mute(c.ev) /\ c.type # "free" /\ ~c.nbConnect /\ Fair(c)
    BY <1>3 DEF Idle, Sound, Fair
  <2>3. Entered(c, t) /\ t.state = "write"
    BY <2>1, <2>2, TakesEntered
  <2> HIDE DEF t
  <2>4. ~t.nbConnect
    BY <2>2, <2>3 DEF Entered
  <2> HIDE DEF go
  <2> QED
    BY <1>3, <2>1, <2>2, <2>3, <2>4, DoWritemoreTook
<1> QED
  BY <1>1, <1>2, <1>3, <1>4

\* LwipNetconn.DoClose
LEMMA DoCloseMessageTook ==
  ASSUME NEW c, NEW msg, NEW x, Idle(c) PROVE Took(c, DoClose(c, msg, x)) \/ Lost(DoClose(c, msg, x))
<1> DEFINE b == IF "rd" \in msg.how THEN Drained(c) ELSE c
           t == Takes(b, "close", msg)
           go == IF t.fail # "none" THEN t ELSE DoCloseInternal(t, x)
<1>1. \/ \E err \in Errs : DoClose(c, msg, x) = Reply(c, err)
      \/ c.state \in {"none", "listen"} /\ c.pcb.st # "none" /\ DoClose(c, msg, x) = go
  <2>1. "INPROGRESS" \in Errs /\ "CONN" \in Errs /\ "VAL" \in Errs
    BY DEF Errs, Fatal
  <2>2. DoClose(c, msg, x) =
          IF c.state \notin {"none", "listen"} THEN Reply(c, "INPROGRESS")
          ELSE IF c.pcb.st = "none" THEN Reply(c, "VAL")
          ELSE IF msg.how # {"rd", "wr"} /\ c.state = "listen" THEN Reply(c, "CONN") ELSE go
    BY Zenon DEF DoClose
  <2> HIDE DEF go
  <2> QED
    BY <2>1, <2>2
<1>2. ASSUME NEW err \in Errs, DoClose(c, msg, x) = Reply(c, err) PROVE Took(c, DoClose(c, msg, x))
  BY <1>2, ReplyTook
<1>4. ASSUME DoClose(c, msg, x) = go, t.fail # "none" PROVE Lost(DoClose(c, msg, x))
  <2>1. Shaped(b)
    BY DrainedFair DEF Idle, Sound, Fair
  <2> HIDE DEF b
  <2> QED
    BY <1>4, <2>1, TakesLost
<1>3. ASSUME c.state \in {"none", "listen"}, c.pcb.st # "none", DoClose(c, msg, x) = go, t.fail = "none"
      PROVE  Took(c, DoClose(c, msg, x))
  <2>1. t.fail = "none" /\ go = DoCloseInternal(t, x)
    BY <1>3
  <2>2. c.type # "free" /\ ~c.nbConnect /\ Fair(c) /\ Kept(c, c)
    BY <1>3 DEF Idle, Sound, Fair, Kept
  <2>3. LET d == Drained(c) IN
        /\ Fair(d) /\ Kept(c, d) /\ ~d.rvalid /\ d.ev = c.ev /\ d.id = c.id /\ d.type = c.type
        /\ d.nbConnect = c.nbConnect /\ d.pcb.st = c.pcb.st
    BY DrainedFair DEF Idle
  <2>4. /\ Fair(b) /\ Kept(c, b) /\ ("rd" \in msg.how => ~b.rvalid) /\ b.ev = c.ev /\ b.id = c.id
        /\ b.type = c.type /\ b.nbConnect = c.nbConnect /\ b.pcb.st = c.pcb.st
    BY <2>2, <2>3
  <2> HIDE DEF b
  <2>5. Shaped(b) /\ Spoken(b) /\ Mute(b.ev) /\ b.type # "free"
    BY <2>2, <2>4 DEF Idle, Fair, Spoken
  <2>6. Entered(b, t) /\ t.state = "close" /\ t.cur = msg
    BY <2>1, <2>5, TakesEntered
  <2> HIDE DEF t
  <2>7. t.pcb.st # "none" /\ ~t.nbConnect /\ ("rd" \in t.cur.how => ~t.rvalid)
    BY <1>3, <2>2, <2>4, <2>6 DEF Entered
  <2>8. Took(b, DoCloseInternal(t, x))
    BY <2>4, <2>6, <2>7, DoCloseTook
  <2>9. Kept(c, DoCloseInternal(t, x))
    BY <2>4, <2>8 DEF Took, Kept
  <2> HIDE DEF go
  <2> QED
    BY <1>3, <2>1, <2>8, <2>9 DEF Took
<1> QED
  BY <1>1, <1>2, <1>3, <1>4

Fns == {"delete", "connect", "listen", "recved", "eof", "write", "send", "close", "peer", "option"}

\* LwipNetconn.Do: a message is answered, or the netconn is busy until it is.
LEMMA DoTook ==
  ASSUME NEW c, NEW fn \in Fns, NEW msg, NEW x, Idle(c), "how" \in DOMAIN msg
  PROVE  Took(c, Do(fn, c, msg, x)) \/ Lost(Do(fn, c, msg, x))
<1>1. Lost(Fails(c, "freed pcb"))
  BY DEF Lost, Fails, Idle, Sound, Shaped
<1>2. \/ Do(fn, c, msg, x) = Fails(c, "freed pcb") \/ Do(fn, c, msg, x) = DoDelconn(c, msg, x)
      \/ Do(fn, c, msg, x) = DoConnect(c, msg, x) \/ Do(fn, c, msg, x) = DoListen(c, msg, x)
      \/ Do(fn, c, msg, x) = DoRecv(c, msg, x) \/ Do(fn, c, msg, x) = DoWrite(c, msg, x)
      \/ Do(fn, c, msg, x) = DoSend(c, msg, x) \/ Do(fn, c, msg, x) = DoClose(c, msg, x)
      \/ Do(fn, c, msg, x) = DoGetaddr(c, msg, x) \/ Do(fn, c, msg, x) = DoOption(c, msg, x)
  BY Zenon DEF Do, Fns
<1> QED
  BY <1>1, <1>2, DoDelconnTook, DoConnectTook, DoListenTook, DoRecvTook, DoWriteTook, DoSendTook,
     DoCloseMessageTook, DoGetaddrTook, DoOptionTook

-----------------------------------------------------------------------------
(* The invariant.                                                          *)

\* The calls an application's thread makes, step by step.
Proceeds(a) ==
  /\ a.pc \in {"idle", "api", "wait", "back", "recv", "fetch", "minus", "closed", "copy",
               "acceptFetch", "acceptMinus", "acceptAlloc", "acceptJoin"}
  /\ a.pc = "idle" => a.fn = "none"
  /\ a.pc \in {"api", "wait", "back"} => a.fn \in Fns
  /\ a.pc \in {"recv", "fetch", "copy"} => a.fn = "recv"
  /\ a.pc = "minus" => a.fn \in {"recv", "eof"}
  /\ a.pc = "closed" => a.fn = "eof"
  /\ a.pc \in {"acceptFetch", "acceptMinus"} => a.fn = "accept"
  /\ a.pc \in {"acceptAlloc", "acceptJoin"} => a.fn = "peer"
  /\ a.pc # "idle" => a.c \in Conns
  /\ a.pc = "acceptMinus" => a.len \in Conns

AppShaped(a) ==
  /\ "pc" \in DOMAIN a /\ "s" \in DOMAIN a /\ "c" \in DOMAIN a /\ "fn" \in DOMAIN a /\ "len" \in DOMAIN a

SockShaped(k) ==
  /\ "conn" \in DOMAIN k /\ "rcv" \in DOMAIN k /\ "snd" \in DOMAIN k /\ "err" \in DOMAIN k
  /\ "waiting" \in DOMAIN k
  /\ k.conn \in 0 .. NumSockets /\ k.rcv \in Int /\ k.waiting \in Int

Modes == {"read", "write", "except"}
Selecting ==
  [pc : {"no", "enlist", "count", "rescan", "wait", "leave"}, s : Socks, mode : Modes,
   inList : BOOLEAN, sem : BOOLEAN, got : BOOLEAN]

Types ==
  /\ program \in Programs
  /\ DOMAIN conn = Conns
  /\ DOMAIN sock = Socks /\ \A s \in Socks : SockShaped(sock[s])
  /\ sel \in [Watchers -> Selecting]
  /\ todo \in Seq(Conns \X Whats)
  /\ AppShaped(app) /\ Proceeds(app)

Netconns ==
  \A c \in Conns : /\ Sound(conn[c]) /\ conn[c].ev = <<>>
                   /\ conn[c].type # "free" => conn[c].id = c

\* accept has taken n out of the acceptmbox and made no socket of it yet.
Joining(n) ==
  \/ app.pc = "acceptMinus" /\ app.len = n
  \/ app.fn = "peer" /\ app.c = n
  \/ app.fn = "delete" /\ app.s = NumSockets /\ app.c = n

\* Each netconn belongs to one socket, to one acceptmbox, or to the accept under way.
Held ==
  \A s \in Socks : InUse(s) =>
    /\ C(s).type # "free"
    /\ \/ C(s).socket = s
       \/ app.pc = "acceptJoin" /\ app.s = s /\ app.c = sock[s].conn /\ C(s).socket < 0
Queued ==
  /\ \A c \in Conns : \A k \in DOMAIN conn[c].abox :
       LET n == conn[c].abox[k] IN conn[n].type # "free" /\ conn[n].socket < 0 /\ ~Joining(n)
  /\ \A c, d \in Conns : \A k \in DOMAIN conn[c].abox, j \in DOMAIN conn[d].abox :
       conn[c].abox[k] = conn[d].abox[j] => c = d /\ k = j
Called ==
  /\ \A n \in Conns : Joining(n) => conn[n].type # "free" /\ conn[n].socket < 0
  /\ app.pc # "idle" /\ ~Joining(app.c) => app.s \in Socks /\ sock[app.s].conn = app.c
  /\ app.pc = "acceptJoin" => app.s \in Socks /\ sock[app.s].conn = app.c
Owned == Held /\ Queued /\ Called

\* A select watches a socket in use, is counted in it, and sleeps only while
\* nothing has happened.
Counting(pc) == pc \in {"rescan", "wait", "leave"}
Sleepers(s) == {t \in Watchers : sel[t].s = s /\ Counting(sel[t].pc)}
Watching ==
  /\ \A t \in Watchers : sel[t].pc # "no" => InUse(sel[t].s) /\ ~Unknown(sel[t].s)
  /\ \A t \in Watchers : sel[t].pc = "count" \/ Counting(sel[t].pc) => sel[t].inList
  /\ \A s \in Socks : sock[s].waiting = Cardinality(Sleepers(s))
  /\ SelectsAwake

\* One answer at most is under way, and then the call waits for it; a call waits
\* for an answer under way or for its netconn, and no netconn is busy but for it.
Signals == {k \in DOMAIN todo : todo[k][2].op = "signal"}
Calls ==
  /\ \A j, k \in Signals : j = k
  /\ Signals # {} => app.pc = "wait"
  /\ app.pc = "wait" => Signals # {} \/ Busy(conn[app.c])
  /\ \A c \in Conns : Busy(conn[c]) => app.pc = "wait" /\ app.c = c /\ Signals = {}

\* A netconn that may be read is fed or holds the end of the stream, but while
\* that end is on its way to the reader; who reads will be woken.
ReadersWoken ==
  /\ \A c \in Conns :
       conn[c].rvalid /\ conn[c].err \notin Fatal /\ ~(app.fn = "eof" /\ app.c = c) => Open(conn[c])
  /\ app.pc = "fetch" =>
       /\ conn[app.c].rvalid
       /\ \/ Awake(conn[app.c])
          \/ \E k \in DOMAIN todo : todo[k][1] = app.c /\ todo[k][2].op = "postRecv"

Good == Types /\ Netconns /\ Owned /\ Watching /\ Calls /\ ReadersWoken
Inv == Alive => Good

-----------------------------------------------------------------------------
(* Facts about the state.                                                  *)

\* The smallest of a set of numbers.
LEMMA Smallest == ASSUME NEW S \in SUBSET Nat, S # {} PROVE \E m \in S : \A n \in S : m <= n
<1> DEFINE T == {0 .. n : n \in S}
<1>1. T \subseteq FiniteSubsetsOf(Nat)
  <2>1. ASSUME NEW n \in S PROVE 0 .. n \in FiniteSubsetsOf(Nat)
    <3>1. n \in Int /\ 0 \in Int /\ 0 .. n \in SUBSET Nat
      OBVIOUS
    <3>2. IsFiniteSet(0 .. n)
      BY <3>1, FS_Interval
    <3> QED
      BY <3>1, <3>2 DEF FiniteSubsetsOf
  <2> QED
    BY <2>1
<1>2. T # {}
  OBVIOUS
<1>3. IsWellFoundedOn(StrictSubsetOrdering(Nat), FiniteSubsetsOf(Nat))
  BY FS_StrictSubsetOrderingWellFounded
<1>4. \E x \in T : \A y \in T : ~ (<<y, x>> \in StrictSubsetOrdering(Nat))
  <2> HIDE DEF T
  <2> QED
    BY <1>1, <1>2, <1>3, WFMin
<1>5. PICK m \in S : \A n \in S : ~ (<<0 .. n, 0 .. m>> \in StrictSubsetOrdering(Nat))
  BY <1>4
<1>6. ASSUME NEW n \in S, n < m PROVE <<0 .. n, 0 .. m>> \in StrictSubsetOrdering(Nat)
  <2>1. n \in Nat /\ m \in Nat
    OBVIOUS
  <2>2. 0 .. n \subseteq 0 .. m /\ m \in 0 .. m /\ m \notin 0 .. n
    BY <1>6, <2>1
  <2>3. 0 .. n \subseteq Nat /\ 0 .. m \subseteq Nat
    OBVIOUS
  <2> QED
    BY <2>2, <2>3 DEF StrictSubsetOrdering
<1>7. \A n \in S : ~(n < m) /\ n \in Nat /\ m \in Nat
  BY <1>5, <1>6
<1>8. \A n \in S : m <= n
  BY <1>7
<1> QED
  BY <1>8

\* Who counts itself in, or out, changes the number by one.
LEMMA OneMoreOrLess ==
  ASSUME NEW S, NEW x, IsFiniteSet(S)
  PROVE  /\ x \notin S => Cardinality(S \cup {x}) = Cardinality(S) + 1
         /\ x \in S => Cardinality(S \ {x}) = Cardinality(S) - 1
         /\ Cardinality(S) \in Nat
  BY FS_AddElement, FS_RemoveElement, FS_CardinalityType

\* Those counted in are finitely many.
LEMMA SleepersFinite == \A s : IsFiniteSet(Sleepers(s)) /\ Cardinality(Sleepers(s)) \in Nat
  BY SocketsAssumption, FS_Subset, FS_CardinalityType DEF Sleepers

\* Nothing is open, nothing is asked.
LEMMA InitGood == ASSUME SocketsInit PROVE Good
<1>1. /\ DOMAIN conn = Conns /\ \A c \in Conns : conn[c] = Free
      /\ DOMAIN sock = Socks /\ \A s \in Socks : sock[s] = NoSock
      /\ todo = <<>> /\ app = NoCall /\ program \in Programs
      /\ sel = [t \in Watchers |-> NoSelect] /\ \A t \in Watchers : sel[t] = NoSelect
  BY DEF SocketsInit
<1>2. /\ Shaped(Free) /\ Free.type = "free" /\ Free.state = "none" /\ Free.pcb.st = "none"
      /\ ~Free.rvalid /\ ~Free.avalid /\ Free.abox = <<>> /\ Free.rbox = <<>> /\ Free.socket = -1
      /\ ~Free.nbConnect /\ ~Free.pcb.fin /\ Free.pcb.recv /\ Free.ev = <<>> /\ Free.pcb.given = 0
  BY DEF Free, Netconn, NoPcb, NewPcb, Shaped
<1>3. Sound(Free) /\ ~Busy(Free)
  BY <1>2 DEF Sound, Busy
<1>4. 0 \in Socks /\ NumSockets \in Nat
  BY SocketsAssumption DEF Socks
<1>5. NoSelect \in Selecting /\ NoSelect.pc = "no"
  BY <1>4 DEF NoSelect, Selecting, Modes
<1>6. SockShaped(NoSock) /\ NoSock.conn = 0 /\ NoSock.waiting = 0
  BY <1>4 DEF NoSock, SockShaped
<1>7. AppShaped(NoCall) /\ Proceeds(NoCall) /\ NoCall.pc = "idle" /\ NoCall.fn = "none"
  BY DEF NoCall, AppShaped, Proceeds
<1>8. Types
  BY <1>1, <1>5, <1>6, <1>7 DEF Types
<1>9. Netconns
  BY <1>1, <1>2, <1>3 DEF Netconns
<1>10. Owned
  <2>1. \A n : ~Joining(n)
    BY <1>1, <1>7 DEF Joining
  <2> QED
    BY <1>1, <1>2, <1>6, <1>7, <2>1 DEF Owned, Held, Queued, Called, InUse
<1>11. Watching
  <2>1. \A s \in Socks : Sleepers(s) = {}
    BY <1>1, <1>5 DEF Sleepers, Counting
  <2>2. Cardinality({}) = 0
    BY FS_EmptySet
  <2> QED
    BY <1>1, <1>5, <1>6, <2>1, <2>2 DEF Watching, Counting, SelectsAwake
<1>12. Calls
  BY <1>1, <1>3, <1>7 DEF Calls, Signals
<1>13. ReadersWoken
  BY <1>1, <1>2, <1>7 DEF ReadersWoken
<1> QED
  BY <1>8, <1>9, <1>10, <1>11, <1>12, <1>13 DEF Good

\* Who is counted in makes the number of the waiting positive.
LEMMA SleeperCounts ==
  ASSUME Types, Watching, NEW t \in Watchers, Counting(sel[t].pc)
  PROVE  sel[t].s \in Socks /\ sock[sel[t].s].waiting > 0
<1>1. sel[t].s \in Socks /\ t \in Sleepers(sel[t].s)
  BY DEF Types, Selecting, Sleepers
<1>2. IsFiniteSet(Sleepers(sel[t].s)) /\ Cardinality(Sleepers(sel[t].s)) \in Nat
  BY SleepersFinite
<1>3. Cardinality(Sleepers(sel[t].s)) # 0
  BY <1>1, <1>2, FS_EmptySet
<1> QED
  BY <1>1, <1>2, <1>3 DEF Watching

-----------------------------------------------------------------------------
(* What keeps each part of the invariant.                                  *)

\* No call waits and none begins to.
LEMMA CallsKept ==
  ASSUME Types, Calls, todo' = todo, app.pc # "wait", app'.pc # "wait",
         \A c \in Conns : Busy(conn'[c]) => Busy(conn[c])
  PROVE  Calls'
  BY DEF Calls, Signals

\* A socket stays in use with its waiting, or nobody watches it.
Unwatched(s) == \A t \in Watchers : sel[t].pc # "no" => sel[t].s # s

\* Sockets kept in use with their number of the waiting keep the selects.
LEMMA WatchingKept ==
  ASSUME Types, Watching,
         \A t \in Watchers : /\ sel'[t].pc = sel[t].pc /\ sel'[t].s = sel[t].s
                             /\ sel[t].inList => sel'[t].inList,
         \A s \in Socks : \/ sock'[s].waiting = sock[s].waiting /\ (InUse(s) => InUse(s)')
                          \/ sock'[s].waiting = 0 /\ Unwatched(s),
         \A s \in Socks : Unknown(s)' => Unknown(s) \/ Unwatched(s),
         SelectsAwake'
  PROVE  Watching'
<1>1. \A t \in Watchers : sel[t].s \in Socks
  BY DEF Types, Selecting
<1>2. \A t \in Watchers : (sel[t].pc # "no" => InUse(sel[t].s) /\ ~Unknown(sel[t].s))'
  BY <1>1 DEF Watching, Unwatched, InUse, Unknown
<1>3. \A t \in Watchers : (sel[t].pc = "count" \/ Counting(sel[t].pc) => sel[t].inList)'
  BY DEF Watching
<1>4. ASSUME NEW s \in Socks PROVE sock'[s].waiting = Cardinality(Sleepers(s)')
  <2>1. Sleepers(s)' = Sleepers(s)
    BY DEF Sleepers
  <2>2. ASSUME Unwatched(s) PROVE Cardinality(Sleepers(s)) = 0
    <3>1. Sleepers(s) = {}
      BY <2>2 DEF Unwatched, Sleepers, Counting
    <3> QED
      BY <3>1, FS_EmptySet
  <2> QED
    BY <2>1, <2>2 DEF Watching
<1> QED
  BY <1>2, <1>3, <1>4 DEF Watching

\* Netconns keep their place, or leave an acceptmbox; so does the call.
LEMMA OwnedKept ==
  ASSUME Types, Netconns, Owned,
         \A c \in Conns : /\ conn'[c].type = "free" <=> conn[c].type = "free"
                          /\ conn'[c].abox \in {conn[c].abox, <<>>}
                          /\ \/ conn'[c].socket = conn[c].socket
                             \/ conn'[c].socket < 0 /\ conn[c].socket < 0,
         \A s \in Socks : sock'[s].conn = sock[s].conn,
         \A n \in Conns : Joining(n)' => Joining(n),
         (app.pc # "idle" /\ ~Joining(app.c) => app.s \in Socks /\ sock[app.s].conn = app.c)',
         app.pc = "acceptJoin" \/ app'.pc = "acceptJoin" =>
           app'.pc = app.pc /\ app'.s = app.s /\ app'.c = app.c
  PROVE  Owned'
<1>1. \A c \in Conns : conn[c].abox \in Seq(Conns) /\ conn[c].socket \in Int
  BY DEF Netconns, Sound
<1>2. \A s \in Socks : sock[s].conn \in 0 .. NumSockets /\ s \in Nat
  BY DEF Types, SockShaped, Socks
<1>3. Held'
  <2> SUFFICES ASSUME NEW s \in Socks, InUse(s)'
               PROVE  /\ C(s)'.type # "free"
                      /\ \/ C(s)'.socket = s
                         \/ app'.pc = "acceptJoin" /\ app'.s = s /\ app'.c = sock'[s].conn /\ C(s)'.socket < 0
    BY DEF Held
  <2>1. sock[s].conn \in Conns /\ InUse(s) /\ sock'[s].conn = sock[s].conn
    BY <1>2, SocketsAssumption DEF InUse, Conns
  <2>2. /\ conn[sock[s].conn].type # "free"
        /\ \/ conn[sock[s].conn].socket = s
           \/ app.pc = "acceptJoin" /\ app.s = s /\ app.c = sock[s].conn /\ conn[sock[s].conn].socket < 0
    BY <2>1 DEF Owned, Held, C
  <2> QED
    BY <1>2, <2>1, <2>2 DEF C
<1>4. Queued'
  <2>1. ASSUME NEW c \in Conns, NEW k \in DOMAIN conn'[c].abox
        PROVE  conn'[c].abox = conn[c].abox /\ k \in DOMAIN conn[c].abox /\ conn[c].abox[k] \in Conns
    <3>1. conn'[c].abox = conn[c].abox
      OBVIOUS
    <3> QED
      BY <1>1, <3>1
  <2>2. ASSUME NEW c \in Conns, NEW k \in DOMAIN conn'[c].abox
        PROVE  (LET n == conn[c].abox[k] IN conn[n].type # "free" /\ conn[n].socket < 0 /\ ~Joining(n))'
    <3>1. PICK n \in Conns : n = conn[c].abox[k]
      BY <2>1
    <3>2. conn[n].type # "free" /\ conn[n].socket < 0 /\ ~Joining(n) /\ conn'[c].abox[k] = n
      BY <2>1, <2>2, <3>1 DEF Owned, Queued
    <3>3. conn'[n].type # "free" /\ conn'[n].socket < 0 /\ ~Joining(n)'
      BY <3>1, <3>2
    <3> QED
      BY <3>2, <3>3 DEF Joining
  <2>3. ASSUME NEW c \in Conns, NEW d \in Conns, NEW k \in DOMAIN conn'[c].abox,
               NEW j \in DOMAIN conn'[d].abox, conn'[c].abox[k] = conn'[d].abox[j]
        PROVE  c = d /\ k = j
    BY <2>1, <2>3 DEF Owned, Queued
  <2> QED
    BY <2>2, <2>3 DEF Queued
<1>5. Called'
  <2>1. \A n \in Conns : (Joining(n) => conn[n].type # "free" /\ conn[n].socket < 0)'
    BY DEF Owned, Called
  <2>2. (app.pc = "acceptJoin" => app.s \in Socks /\ sock[app.s].conn = app.c)'
    BY DEF Owned, Called
  <2> QED
    BY <2>1, <2>2 DEF Called
<1> QED
  BY <1>3, <1>4, <1>5 DEF Owned

\* Netconns that may be read stay so only while they are open.
LEMMA ReadersKept ==
  ASSUME Types, ReadersWoken,
         \A c \in Conns : /\ conn'[c].rvalid => conn[c].rvalid
                          /\ conn[c].err \in Fatal => conn'[c].err \in Fatal
                          /\ conn'[c].rvalid /\ conn'[c].err \notin Fatal /\ Open(conn[c]) => Open(conn'[c]),
         app.fn = "eof" => app'.fn = "eof" /\ app'.c = app.c,
         app'.pc = "fetch" => conn'[app'.c].rvalid /\ Awake(conn'[app'.c])
  PROVE  ReadersWoken'
  BY DEF ReadersWoken

\* d is c as far as the argument follows it; a netconn without a socket may have
\* counted what arrived.
Alike(c, d) ==
  /\ Sound(d) /\ d.ev = c.ev /\ d.id = c.id /\ d.type = c.type
  /\ d.state = c.state /\ d.err = c.err /\ d.rbox = c.rbox /\ d.rvalid = c.rvalid /\ d.abox = c.abox
  /\ d.nbConnect = c.nbConnect /\ d.recvTimeout = c.recvTimeout /\ d.pcb = c.pcb
  /\ d.socket = c.socket \/ (d.socket < 0 /\ c.socket < 0)

\* A netconn is as it was when nothing changed it.
LEMMA AlikeItself == ASSUME NEW c, Sound(c) PROVE Alike(c, c)
  BY DEF Alike

\* What both have in common.
LEMMA AlikeBoth ==
  ASSUME NEW c, NEW d, Alike(c, d)
  PROVE  (Busy(d) <=> Busy(c)) /\ (Fed(d) <=> Fed(c)) /\ (Open(d) <=> Open(c)) /\ (Awake(d) <=> Awake(c))
  BY DEF Alike, Busy, Fed, Ended, Open, Awake

\* A step changes no netconn but so.
AllAlike == DOMAIN conn' = Conns /\ \A c \in Conns : Alike(conn[c], conn'[c])

\* Netconns alike are as sound.
LEMMA AlikeNetconns == ASSUME Netconns, AllAlike PROVE Netconns'
  BY DEF Netconns, AllAlike, Alike

\* Another socket, or none.
LEMMA Reseated ==
  ASSUME NEW c, NEW n \in Int, Sound(c), n = c.socket \/ (n < 0 /\ c.socket < 0)
  PROVE  Alike(c, [c EXCEPT !.socket = n])
<1> DEFINE d == [c EXCEPT !.socket = n]
<1>1. /\ Shaped(d) /\ d.ev = c.ev /\ d.id = c.id /\ d.type = c.type
      /\ d.state = c.state /\ d.err = c.err /\ d.rbox = c.rbox /\ d.rvalid = c.rvalid /\ d.abox = c.abox
      /\ d.nbConnect = c.nbConnect /\ d.recvTimeout = c.recvTimeout /\ d.pcb = c.pcb
      /\ d.avalid = c.avalid /\ d.cur = c.cur /\ d.socket = n
  BY DEF Sound, Shaped
<1> HIDE DEF d
<1>2. ShutdownRefused(d) <=> ShutdownRefused(c)
  BY <1>1 DEF ShutdownRefused
<1>3. Sound(d)
  BY <1>1, <1>2 DEF Sound
<1> QED
  BY <1>1, <1>3 DEF Alike, d

\* Sockets are the same but for what they counted.
LEMMA CountedShaped ==
  ASSUME NEW k, SockShaped(k), NEW evt \in CountedEvts
  PROVE  SockShaped(Counted(k, evt)) /\ Counted(k, evt).conn = k.conn /\ Counted(k, evt).waiting = k.waiting
<1>1. \/ \E n \in Int : Counted(k, evt) = [k EXCEPT !.rcv = n]
      \/ Counted(k, evt) = [k EXCEPT !.snd = 1] \/ Counted(k, evt) = [k EXCEPT !.snd = 0]
      \/ Counted(k, evt) = [k EXCEPT !.err = 1]
  <2>1. k.rcv + 1 \in Int /\ k.rcv - 1 \in Int
    BY DEF SockShaped
  <2>2. \/ Counted(k, evt) = [k EXCEPT !.rcv = k.rcv + 1] \/ Counted(k, evt) = [k EXCEPT !.rcv = k.rcv - 1]
        \/ Counted(k, evt) = [k EXCEPT !.snd = 1] \/ Counted(k, evt) = [k EXCEPT !.snd = 0]
        \/ Counted(k, evt) = [k EXCEPT !.err = 1]
    BY Zenon DEF Counted, CountedEvts, Evts
  <2> QED
    BY <2>1, <2>2
<1>2. ASSUME NEW n \in Int, Counted(k, evt) = [k EXCEPT !.rcv = n]
      PROVE  SockShaped(Counted(k, evt)) /\ Counted(k, evt).conn = k.conn /\ Counted(k, evt).waiting = k.waiting
  BY <1>2 DEF SockShaped
<1> QED
  BY <1>1, <1>2 DEF SockShaped

\* event_callback counts, and wakes those who wait for what happened.
SocksAlike ==
  /\ DOMAIN sock' = Socks
  /\ \A s \in Socks : SockShaped(sock'[s]) /\ sock'[s].conn = sock[s].conn /\ sock'[s].waiting = sock[s].waiting
SelsAlike ==
  /\ sel' \in [Watchers -> Selecting]
  /\ \A t \in Watchers : sel'[t].pc = sel[t].pc /\ sel'[t].s = sel[t].s /\ sel'[t].inList = sel[t].inList

\* event_callback changes counters and wakes selects, nothing else.
LEMMA EventAlike ==
  ASSUME Types, Netconns, Watching, NEW id \in Conns, NEW evt \in CountedEvts, EventCallback(id, evt)
  PROVE  AllAlike /\ SocksAlike /\ SelsAlike /\ SelectsAwake'
<1> DEFINE c == conn[id]
           sk == Counted(sock[c.socket], evt)
           n == EventOfNoSocket(c, evt)
           woken == [t \in Watchers |->
                      IF sel[t].inList /\ sel[t].s = c.socket /\ Happened(sk, sel[t].mode)
                      THEN [sel[t] EXCEPT !.sem = TRUE] ELSE sel[t]]
           sel2 == IF sk.waiting = 0 THEN sel ELSE woken
<1>1. /\ \A d \in Conns : Sound(conn[d])
      /\ DOMAIN conn = Conns /\ DOMAIN sock = Socks /\ sel \in [Watchers -> Selecting]
      /\ \A s \in Socks : SockShaped(sock[s])
  BY DEF Types, Netconns
<1>2. \/ c.socket < 0 /\ conn' = [conn EXCEPT ![id].socket = n] /\ UNCHANGED <<sock, sel>>
      \/ UNCHANGED <<conn, sock, sel>>
      \/ sock' = [sock EXCEPT ![c.socket] = sk] /\ sel' = sel2 /\ UNCHANGED conn
  BY DEF EventCallback
<1>3. CASE UNCHANGED <<conn, sock, sel>>
  BY <1>1, <1>3, AlikeItself DEF AllAlike, SocksAlike, SelsAlike, SelectsAwake, Watching
<1>4. CASE c.socket < 0 /\ conn' = [conn EXCEPT ![id].socket = n] /\ UNCHANGED <<sock, sel>>
  <2>1. c.socket \in Int /\ Sound(c)
    BY <1>1 DEF Sound
  <2>2. n \in Int /\ n < 0
    BY <1>4, <2>1 DEF EventOfNoSocket
  <2> HIDE DEF n
  <2>3. DOMAIN conn' = Conns /\ \A d \in Conns : conn'[d] = IF d = id THEN [c EXCEPT !.socket = n] ELSE conn[d]
    BY <1>1, <1>4
  <2>4. Alike(c, [c EXCEPT !.socket = n])
    BY <1>4, <2>1, <2>2, Reseated
  <2>5. ASSUME NEW d \in Conns PROVE Alike(conn[d], conn'[d])
    BY <1>1, <2>3, <2>4, AlikeItself
  <2>6. AllAlike
    BY <2>3, <2>5 DEF AllAlike
  <2> QED
    BY <1>1, <1>4, <2>6 DEF SocksAlike, SelsAlike, SelectsAwake, Watching
<1>5. CASE sock' = [sock EXCEPT ![c.socket] = sk] /\ sel' = sel2 /\ UNCHANGED conn
  <2>1. AllAlike
    BY <1>1, <1>5, AlikeItself DEF AllAlike
  <2>2. ASSUME c.socket \in Socks
        PROVE  SockShaped(sk) /\ sk.conn = sock[c.socket].conn /\ sk.waiting = sock[c.socket].waiting
    BY <1>1, <2>2, CountedShaped
  <2> HIDE DEF sk
  <2>3. SocksAlike
    BY <1>1, <1>5, <2>2 DEF SocksAlike
  <2>4. \A t \in Watchers : /\ sel2[t] = sel[t] \/ sel2[t] = [sel[t] EXCEPT !.sem = TRUE]
                            /\ sk.waiting # 0 /\ sel[t].inList /\ sel[t].s = c.socket
                                 /\ Happened(sk, sel[t].mode) => sel2[t] = [sel[t] EXCEPT !.sem = TRUE]
    OBVIOUS
  <2>5. sel2 \in [Watchers -> Selecting]
    <3>1. ASSUME NEW t \in Watchers PROVE [sel[t] EXCEPT !.sem = TRUE] \in Selecting
      <4>1. sel[t] \in Selecting
        BY <1>1
      <4> QED
        BY <4>1 DEF Selecting
    <3>2. \A t \in Watchers : sel[t] \in Selecting
      BY <1>1
    <3>3. woken \in [Watchers -> Selecting]
      BY <3>1, <3>2
    <3> HIDE DEF woken
    <3> QED
      BY <1>1, <3>3
  <2> HIDE DEF sel2
  <2>6. ASSUME NEW t \in Watchers
        PROVE  /\ sel'[t].pc = sel[t].pc /\ sel'[t].s = sel[t].s /\ sel'[t].inList = sel[t].inList
               /\ sel'[t].mode = sel[t].mode /\ sel[t].s \in Socks
               /\ sel[t].sem => sel'[t].sem
    <3>1. sel[t] \in Selecting
      BY <1>1
    <3>2. sel'[t] = sel[t] \/ sel'[t] = [sel[t] EXCEPT !.sem = TRUE]
      BY <1>5, <2>4
    <3>3. CASE sel'[t] = sel[t]
      BY <3>1, <3>3 DEF Selecting
    <3>4. CASE sel'[t] = [sel[t] EXCEPT !.sem = TRUE]
      BY <3>1, <3>4 DEF Selecting
    <3> QED
      BY <3>2, <3>3, <3>4
  <2>7. SelsAlike
    BY <1>5, <2>5, <2>6 DEF SelsAlike
  <2>8. ASSUME NEW t \in Watchers, sel'[t].pc = "wait", ~sel'[t].sem, Happened(sock'[sel'[t].s], sel'[t].mode)
        PROVE  FALSE
    <3>1. sel[t].pc = "wait" /\ ~sel[t].sem /\ Happened(sock'[sel[t].s], sel[t].mode) /\ sel[t].s \in Socks
      BY <2>6, <2>8
    <3>2. ~Happened(sock[sel[t].s], sel[t].mode)
      BY <3>1 DEF Watching, SelectsAwake
    <3>3. sel[t].s = c.socket /\ sock'[sel[t].s] = sk
      BY <1>1, <1>5, <3>1, <3>2
    <3>4. sock[sel[t].s].waiting > 0 /\ sel[t].inList
      BY <3>1, SleeperCounts DEF Watching, Counting
    <3>5. sk.waiting # 0
      BY <2>2, <3>1, <3>3, <3>4
    <3>6. sel'[t] = [sel[t] EXCEPT !.sem = TRUE]
      BY <1>5, <2>4, <3>1, <3>3, <3>4, <3>5
    <3>7. sel'[t].sem
      BY <1>1, <3>6 DEF Selecting
    <3> QED
      BY <2>8, <3>7
  <2> QED
    BY <2>1, <2>3, <2>7, <2>8 DEF SelectsAwake
<1> QED
  BY <1>2, <1>3, <1>4, <1>5

-----------------------------------------------------------------------------
(* The threads that select.                                                *)

\* A select touches nothing but who waits.
LEMMA SelectKeeps ==
  ASSUME Good, UNCHANGED <<program, conn, todo, app>>,
         sel' \in [Watchers -> Selecting], DOMAIN sock' = Socks,
         \A s \in Socks : SockShaped(sock'[s]) /\ sock'[s].conn = sock[s].conn,
         Watching'
  PROVE  Good'
<1>1. Types'
  BY DEF Good, Types
<1>2. Netconns'
  BY DEF Good, Netconns
<1>3. Owned'
  BY OwnedKept DEF Good, Joining, Owned, Called
<1>4. Calls'
  BY DEF Good, Calls, Signals
<1>5. ReadersWoken'
  BY DEF Good, ReadersWoken
<1> QED
  BY <1>1, <1>2, <1>3, <1>4, <1>5 DEF Good

\* A step of one select that counts nobody in or out and does not fall asleep
\* over what has happened.
LEMMA SelectSteps ==
  ASSUME Good, UNCHANGED <<program, conn, todo, app, sock>>, NEW t \in Watchers, NEW to \in Selecting,
         sel' = [sel EXCEPT ![t] = to],
         to.pc # "no" => InUse(to.s) /\ ~Unknown(to.s),
         to.pc = "count" \/ Counting(to.pc) => to.inList,
         Counting(to.pc) \/ Counting(sel[t].pc) => Counting(to.pc) /\ Counting(sel[t].pc) /\ to.s = sel[t].s,
         to.pc = "wait" => ~Happened(sock[to.s], to.mode)
  PROVE  Good'
<1>1. /\ sel \in [Watchers -> Selecting] /\ Watching
      /\ DOMAIN sock = Socks /\ \A s \in Socks : SockShaped(sock[s])
  BY DEF Good, Types
<1>2. sel' \in [Watchers -> Selecting] /\ \A u \in Watchers : sel'[u] = IF u = t THEN to ELSE sel[u]
  BY <1>1
<1>3. \A s \in Socks : Sleepers(s)' = Sleepers(s)
  BY <1>2 DEF Sleepers
<1>4. \A u \in Watchers : (sel[u].pc # "no" => InUse(sel[u].s) /\ ~Unknown(sel[u].s))'
  BY <1>1, <1>2 DEF Watching, InUse, Unknown
<1>5. \A u \in Watchers : (sel[u].pc = "count" \/ Counting(sel[u].pc) => sel[u].inList)'
  BY <1>1, <1>2 DEF Watching
<1>6. \A s \in Socks : (sock[s].waiting = Cardinality(Sleepers(s)))'
  BY <1>1, <1>3 DEF Watching
<1>7. SelectsAwake'
  BY <1>1, <1>2 DEF Watching, SelectsAwake
<1>8. Watching'
  BY <1>4, <1>5, <1>6, <1>7 DEF Watching
<1> QED
  BY <1>1, <1>2, <1>8, SelectKeeps

\* lwip_select scans and, finding nothing, is going to enlist itself.
LEMMA SelectGood ==
  ASSUME Good, UNCHANGED program, NEW t \in Watchers, NEW s \in Socks, NEW mode \in Modes, Select(t, s, mode)
  PROVE  Good'
<1> DEFINE on == [NoSelect EXCEPT !.pc = "enlist", !.s = s, !.mode = mode]
           to == IF Scanned(sock[s], mode) THEN NoSelect ELSE on
<1>1. UNCHANGED <<program, conn, todo, app, sock>> /\ InUse(s) /\ ~Unknown(s)
      /\ sel[t].pc = "no" /\ sel' = [sel EXCEPT ![t] = to]
  BY DEF Select, Steps, SelectUnchanged
<1>2. 0 \in Socks
  BY SocketsAssumption DEF Socks
<1>3. NoSelect \in Selecting /\ NoSelect.pc = "no" /\ on \in Selecting /\ on.pc = "enlist" /\ on.s = s
  BY <1>2 DEF NoSelect, Selecting, Modes
<1> HIDE DEF on
<1>4. to \in Selecting /\ (to.pc = "no" \/ (to.pc = "enlist" /\ to.s = s))
  BY <1>3
<1> HIDE DEF to
<1> QED
  BY <1>1, <1>4, SelectSteps DEF Counting

\* lwip_select puts itself on the list.
LEMMA SelectEnlistsGood ==
  ASSUME Good, UNCHANGED program, NEW t \in Watchers, SelectEnlists(t) PROVE Good'
<1> DEFINE to == [sel[t] EXCEPT !.pc = "count", !.inList = TRUE]
<1>1. UNCHANGED <<program, conn, todo, app, sock>> /\ sel[t].pc = "enlist" /\ sel' = [sel EXCEPT ![t] = to]
  BY DEF SelectEnlists, Steps, SelectUnchanged
<1>2. sel[t] \in Selecting /\ Watching
  BY DEF Good, Types
<1>3. to \in Selecting /\ to.pc = "count" /\ to.s = sel[t].s /\ to.inList
  BY <1>2 DEF Selecting
<1> HIDE DEF to
<1> QED
  BY <1>1, <1>2, <1>3, SelectSteps DEF Counting, Watching

\* lwip_select scans again, counted in, and sleeps if it finds nothing.
LEMMA SelectRescansGood ==
  ASSUME Good, UNCHANGED program, NEW t \in Watchers, SelectRescans(t) PROVE Good'
<1> DEFINE seen == Rescan(sel[t].s, sel[t].mode)
           to == [sel[t] EXCEPT !.pc = IF seen THEN "leave" ELSE "wait"]
<1>1. UNCHANGED <<program, conn, todo, app, sock>> /\ sel[t].pc = "rescan" /\ sel' = [sel EXCEPT ![t] = to]
  BY DEF SelectRescans, Steps, SelectUnchanged
<1>2. sel[t] \in Selecting /\ Watching
  BY DEF Good, Types
<1>3. ~seen => ~Happened(sock[sel[t].s], sel[t].mode)
  <2>1. sel[t].mode \in Modes
    BY <1>2 DEF Selecting
  <2> QED
    BY <2>1 DEF Rescan, Scanned, Happened, Modes
<1> HIDE DEF seen
<1>4. /\ to \in Selecting /\ to.s = sel[t].s /\ to.inList = sel[t].inList /\ to.mode = sel[t].mode
      /\ to.pc = IF seen THEN "leave" ELSE "wait"
  BY <1>2 DEF Selecting
<1> HIDE DEF to
<1> QED
  BY <1>1, <1>2, <1>3, <1>4, SelectSteps DEF Counting, Watching

\* The semaphore was signalled, or the time is up.
LEMMA SelectWakesGood ==
  ASSUME Good, UNCHANGED program, NEW t \in Watchers, SelectWakes(t) PROVE Good'
<1> DEFINE to == [sel[t] EXCEPT !.pc = "leave"]
<1>1. UNCHANGED <<program, conn, todo, app, sock>> /\ sel[t].pc = "wait" /\ sel' = [sel EXCEPT ![t] = to]
  BY DEF SelectWakes, Steps
<1>2. sel[t] \in Selecting /\ Watching
  BY DEF Good, Types
<1>3. to \in Selecting /\ to.pc = "leave" /\ to.s = sel[t].s /\ to.inList = sel[t].inList
  BY <1>2 DEF Selecting
<1> HIDE DEF to
<1> QED
  BY <1>1, <1>2, <1>3, SelectSteps DEF Counting, Watching

\* One thread is counted in, or out.
LEMMA SelectMoves ==
  ASSUME Good, UNCHANGED <<program, conn, todo, app>>, NEW t \in Watchers, NEW to \in Selecting,
         sel' = [sel EXCEPT ![t] = to],
         LET s == sel[t].s IN
           \/ /\ sel[t].pc = "count" /\ to.pc = "rescan" /\ to.s = s /\ to.inList = sel[t].inList
              /\ sock' = [sock EXCEPT ![s].waiting = sock[s].waiting + 1]
           \/ /\ sel[t].pc = "leave" /\ to.pc = "no"
              /\ sock' = [sock EXCEPT ![s].waiting = sock[s].waiting - 1]
  PROVE  Good'
<1>1. /\ sel \in [Watchers -> Selecting] /\ Watching
      /\ DOMAIN sock = Socks /\ \A r \in Socks : SockShaped(sock[r])
  BY DEF Good, Types
<1>2. sel' \in [Watchers -> Selecting] /\ \A u \in Watchers : sel'[u] = IF u = t THEN to ELSE sel[u]
  BY <1>1
<1>0. PICK s \in Socks : s = sel[t].s
  BY <1>1 DEF Selecting
<1>3. s \in Socks /\ SockShaped(sock[s])
  BY <1>1
<1>4. IsFiniteSet(Sleepers(s)) /\ sock[s].waiting = Cardinality(Sleepers(s))
  BY <1>1, <1>3, SleepersFinite DEF Watching
<1>5. \E n \in Int : /\ sock' = [sock EXCEPT ![s].waiting = n] /\ n = Cardinality(Sleepers(s)')
                     /\ \A r \in Socks : r # s => Sleepers(r)' = Sleepers(r)
  <2>1. CASE sel[t].pc = "count" /\ to.pc = "rescan" /\ to.s = s /\ sock' = [sock EXCEPT ![s].waiting = sock[s].waiting + 1]
    <3>1. Sleepers(s)' = Sleepers(s) \cup {t} /\ t \notin Sleepers(s)
      BY <1>0, <1>2, <2>1 DEF Sleepers, Counting
    <3>2. \A r \in Socks : r # s => Sleepers(r)' = Sleepers(r)
      BY <1>0, <1>2, <2>1 DEF Sleepers, Counting
    <3>3. sock[s].waiting + 1 \in Int
      BY <1>3 DEF SockShaped
    <3>4. Cardinality(Sleepers(s)') = Cardinality(Sleepers(s)) + 1
      BY <1>4, <3>1, OneMoreOrLess
    <3> QED
      BY <1>4, <2>1, <3>2, <3>3, <3>4
  <2>2. CASE sel[t].pc = "leave" /\ to.pc = "no" /\ sock' = [sock EXCEPT ![s].waiting = sock[s].waiting - 1]
    <3>1. Sleepers(s)' = Sleepers(s) \ {t} /\ t \in Sleepers(s)
      BY <1>0, <1>2, <2>2 DEF Sleepers, Counting
    <3>2. \A r \in Socks : r # s => Sleepers(r)' = Sleepers(r)
      BY <1>0, <1>2, <2>2 DEF Sleepers, Counting
    <3>3. sock[s].waiting - 1 \in Int
      BY <1>3 DEF SockShaped
    <3>4. Cardinality(Sleepers(s)') = Cardinality(Sleepers(s)) - 1
      BY <1>4, <3>1, OneMoreOrLess
    <3> QED
      BY <1>4, <2>2, <3>2, <3>3, <3>4
  <2> QED
    BY <1>0, <2>1, <2>2
<1>6. PICK n \in Int : /\ sock' = [sock EXCEPT ![s].waiting = n] /\ n = Cardinality(Sleepers(s)')
                       /\ \A r \in Socks : r # s => Sleepers(r)' = Sleepers(r)
  BY <1>5
<1>7. /\ DOMAIN sock' = Socks
      /\ \A r \in Socks : sock'[r] = IF r = s THEN [sock[s] EXCEPT !.waiting = n] ELSE sock[r]
  BY <1>1, <1>6
<1>8. LET k == [sock[s] EXCEPT !.waiting = n] IN
      SockShaped(k) /\ k.conn = sock[s].conn /\ k.waiting = n /\ k.rcv = sock[s].rcv
      /\ (\A mode : Happened(k, mode) = Happened(sock[s], mode))
  BY <1>3 DEF SockShaped, Happened
<1> DEFINE k == [sock[s] EXCEPT !.waiting = n]
<1>9. /\ SockShaped(k) /\ k.conn = sock[s].conn /\ k.waiting = n
      /\ \A mode : Happened(k, mode) = Happened(sock[s], mode)
  BY <1>8
<1> HIDE DEF k
<1>10. \A r \in Socks : /\ SockShaped(sock'[r]) /\ sock'[r].conn = sock[r].conn
                        /\ \A mode : Happened(sock'[r], mode) = Happened(sock[r], mode)
  BY <1>1, <1>7, <1>9 DEF k
<1>11. \A u \in Watchers : (sel[u].pc # "no" => InUse(sel[u].s) /\ ~Unknown(sel[u].s))'
  <2>1. \A u \in Watchers : sel'[u].pc # "no" => sel'[u].s = sel[u].s /\ sel[u].pc # "no" /\ sel[u].s \in Socks
    BY <1>1, <1>2 DEF Selecting
  <2> QED
    BY <1>1, <1>10, <2>1 DEF Watching, InUse, Unknown
<1>12. \A u \in Watchers : (sel[u].pc = "count" \/ Counting(sel[u].pc) => sel[u].inList)'
  BY <1>1, <1>2 DEF Watching, Counting
<1>13. \A r \in Socks : (sock[r].waiting = Cardinality(Sleepers(r)))'
  <2>1. \A r \in Socks : r # s => sock'[r].waiting = sock[r].waiting
    BY <1>7
  <2>2. sock'[s].waiting = n
    BY <1>3, <1>7, <1>9 DEF k
  <2> QED
    BY <1>1, <1>6, <2>1, <2>2 DEF Watching
<1>14. SelectsAwake'
  <2>1. \A u \in Watchers : sel'[u].pc = "wait" => sel'[u] = sel[u] /\ sel[u].s \in Socks
    BY <1>1, <1>2 DEF Selecting
  <2> QED
    BY <1>1, <1>10, <2>1 DEF Watching, SelectsAwake
<1>15. Watching'
  BY <1>11, <1>12, <1>13, <1>14 DEF Watching
<1> QED
  BY <1>2, <1>7, <1>10, <1>15, SelectKeeps

\* lwip_select counts itself in.
LEMMA SelectCountsGood ==
  ASSUME Good, UNCHANGED program, NEW t \in Watchers, SelectCounts(t) PROVE Good'
<1> DEFINE to == [sel[t] EXCEPT !.pc = "rescan"]
<1>1. /\ UNCHANGED <<program, conn, todo, app>> /\ sel[t].pc = "count" /\ sel' = [sel EXCEPT ![t] = to]
      /\ sock' = [sock EXCEPT ![sel[t].s].waiting = sock[sel[t].s].waiting + 1]
  BY DEF SelectCounts, Steps, SelectUnchanged
<1>2. sel[t] \in Selecting
  BY DEF Good, Types
<1>3. to \in Selecting /\ to.pc = "rescan" /\ to.s = sel[t].s /\ to.inList = sel[t].inList
  BY <1>2 DEF Selecting
<1> HIDE DEF to
<1> QED
  BY <1>1, <1>3, SelectMoves

\* lwip_select counts itself out and is off the list.
LEMMA SelectLeavesGood ==
  ASSUME Good, UNCHANGED program, NEW t \in Watchers, SelectLeaves(t) PROVE Good'
<1>1. /\ UNCHANGED <<program, conn, todo, app>> /\ sel[t].pc = "leave" /\ sel' = [sel EXCEPT ![t] = NoSelect]
      /\ sock' = [sock EXCEPT ![sel[t].s].waiting = sock[sel[t].s].waiting - 1]
  BY DEF SelectLeaves, Steps, SelectUnchanged
<1>2. 0 \in Socks
  BY SocketsAssumption DEF Socks
<1>3. NoSelect \in Selecting /\ NoSelect.pc = "no"
  BY <1>2 DEF NoSelect, Selecting, Modes
<1> QED
  BY <1>1, <1>3, SelectMoves

\* All of a select.
LEMMA SelectsGood ==
  ASSUME Good, UNCHANGED program, NEW t \in Watchers, Selects(t) PROVE Good' /\ conn' = conn
<1>1. conn' = conn
  BY DEF Selects, Select, SelectEnlists, SelectCounts, SelectRescans, SelectWakes, SelectLeaves, SelectUnchanged
<1>2. Good'
  BY SelectGood, SelectEnlistsGood, SelectCountsGood, SelectRescansGood, SelectWakesGood, SelectLeavesGood
  DEF Selects, Modes
<1> QED
  BY <1>1, <1>2

-----------------------------------------------------------------------------
(* The application's calls.                                                *)

\* A step of a call that no answer is waited for.
LEMMA AppKeeps ==
  ASSUME Good, UNCHANGED <<program, todo>>, SocksAlike, SelsAlike, SelectsAwake',
         DOMAIN conn' = Conns, Netconns', ReadersWoken',
         \A c \in Conns : /\ conn'[c].type = "free" <=> conn[c].type = "free"
                          /\ conn'[c].abox \in {conn[c].abox, <<>>}
                          /\ \/ conn'[c].socket = conn[c].socket
                             \/ conn'[c].socket < 0 /\ conn[c].socket < 0
                          /\ Busy(conn'[c]) => Busy(conn[c]),
         app.pc \notin {"wait", "acceptJoin"}, app'.pc \notin {"wait", "acceptJoin"},
         AppShaped(app'), Proceeds(app'),
         \A n \in Conns : Joining(n)' => Joining(n),
         (app.pc # "idle" /\ ~Joining(app.c) => app.s \in Socks /\ sock[app.s].conn = app.c)',
         \A s \in Socks : Unknown(s)' => Unknown(s) \/ Unwatched(s)
  PROVE  Good'
<1>1. Types'
  BY DEF Good, Types, SocksAlike, SelsAlike
<1>2. Owned'
  BY OwnedKept DEF Good, SocksAlike
<1>3. Calls'
  BY CallsKept DEF Good
<1>4. Watching'
  BY WatchingKept DEF Good, SocksAlike, SelsAlike, InUse
<1> QED
  BY <1>1, <1>2, <1>3, <1>4 DEF Good

\* The netconns, the sockets and the selects are as they were.
LEMMA AppOnly ==
  ASSUME Good, UNCHANGED <<program, conn, sock, sel, todo>>,
         app.pc \notin {"wait", "acceptJoin"}, app'.pc \notin {"wait", "acceptJoin"},
         AppShaped(app'), Proceeds(app'),
         \A n \in Conns : Joining(n)' => Joining(n),
         (app.pc # "idle" /\ ~Joining(app.c) => app.s \in Socks /\ sock[app.s].conn = app.c)',
         \A s \in Socks : Unknown(s)' => Unknown(s) \/ Unwatched(s),
         app.fn = "eof" => app'.fn = "eof" /\ app'.c = app.c,
         app'.pc = "fetch" => conn[app'.c].rvalid /\ Awake(conn[app'.c])
  PROVE  Good'
<1>1. SocksAlike /\ SelsAlike /\ SelectsAwake'
  BY DEF Good, Types, Watching, SocksAlike, SelsAlike, SelectsAwake
<1>2. DOMAIN conn' = Conns /\ Netconns'
  BY DEF Good, Types, Netconns
<1>3. ReadersWoken'
  BY ReadersKept DEF Good
<1> QED
  BY <1>1, <1>2, <1>3, AppKeeps

\* One netconn changes.
LEMMA AppAndOne ==
  ASSUME Good, UNCHANGED <<program, sock, sel, todo>>,
         NEW c \in Conns, NEW d, conn' = [conn EXCEPT ![c] = d],
         Sound(d), d.ev = <<>>, d.id = conn[c].id, d.type = conn[c].type, d.socket = conn[c].socket,
         d.abox = conn[c].abox, Busy(d) => Busy(conn[c]), ReadersWoken',
         app.pc \notin {"wait", "acceptJoin"}, app'.pc \notin {"wait", "acceptJoin"},
         AppShaped(app'), Proceeds(app'),
         \A n \in Conns : Joining(n)' => Joining(n),
         (app.pc # "idle" /\ ~Joining(app.c) => app.s \in Socks /\ sock[app.s].conn = app.c)',
         \A s \in Socks : Unknown(s)' => Unknown(s) \/ Unwatched(s)
  PROVE  Good'
<1>1. SocksAlike /\ SelsAlike /\ SelectsAwake'
  BY DEF Good, Types, Watching, SocksAlike, SelsAlike, SelectsAwake
<1>2. DOMAIN conn' = Conns /\ \A i \in Conns : conn'[i] = IF i = c THEN d ELSE conn[i]
  BY DEF Good, Types
<1>3. Netconns'
  BY <1>2 DEF Good, Netconns
<1> QED
  BY <1>1, <1>2, <1>3, AppKeeps

\* The message of a call on an open socket.
LEMMA MessageBegins ==
  ASSUME Good, Alive, NEW s \in Socks, InUse(s), app.pc = "idle", NEW fn \in Fns \ {"peer"},
         NEW len, NEW dont, NEW how, app' = Message(fn, s, len, dont, how),
         UNCHANGED <<program, conn, sock, sel, todo>>,
         fn = "delete" => Unwatched(s)
  PROVE  Good'
<1>1. app'.pc = "api" /\ app'.fn = fn /\ app'.s = s /\ app'.c = sock[s].conn /\ AppShaped(app')
  BY DEF Message, NoCall, AppShaped
<1>2. sock[s].conn \in Conns
  BY SocketsAssumption DEF Good, Types, SockShaped, InUse, Conns
<1>3. Proceeds(app')
  BY <1>1, <1>2 DEF Proceeds
<1>4. s # NumSockets /\ app.fn = "none"
  BY SocketsAssumption DEF Socks, Good, Types, Proceeds
<1>5. \A n \in Conns : ~Joining(n)'
  BY <1>1, <1>4 DEF Joining
<1>6. \A r \in Socks : Unknown(r)' => Unwatched(r)
  BY <1>1 DEF Unknown
<1>7. (app.pc # "idle" /\ ~Joining(app.c) => app.s \in Socks /\ sock[app.s].conn = app.c)'
  BY <1>1
<1> QED
  BY <1>1, <1>3, <1>4, <1>5, <1>6, <1>7, AppOnly

\* A call returns, or ends with a message about its socket.
Leaves(a, b) == b = NoCall \/ (AppShaped(b) /\ b.pc = "api" /\ b.fn = "recved" /\ b.s = a.s /\ b.c = a.c)

\* Such an end leaves no netconn of accept behind.
LEMMA Ending ==
  ASSUME Good, app.pc # "idle", app.s \in Socks, Leaves(app, app')
  PROVE  /\ app'.pc \in {"idle", "api"} /\ AppShaped(app') /\ Proceeds(app') /\ app'.fn \in {"none", "recved"}
         /\ \A n \in Conns : ~Joining(n)'
         /\ app'.pc # "idle" => app'.s = app.s /\ app'.c = app.c
         /\ \A r \in Socks : ~Unknown(r)'
<1>1. CASE app' = NoCall
  BY <1>1 DEF NoCall, AppShaped, Proceeds, Joining, Unknown
<1>2. CASE AppShaped(app') /\ app'.pc = "api" /\ app'.fn = "recved" /\ app'.s = app.s /\ app'.c = app.c
  <2>1. AppShaped(app) /\ app.c \in Conns
    BY DEF Good, Types, Proceeds
  <2>2. Proceeds(app')
    BY <1>2, <2>1 DEF Proceeds, Fns
  <2> QED
    BY <1>2, <2>2 DEF Joining, Unknown
<1> QED
  BY <1>1, <1>2 DEF Leaves

\* lwip_recvfrom ends with the window's update, or returns.
LEMMA RecvReturnEnds ==
  ASSUME NEW a, NEW b, AppShaped(b), b.s = a.s, b.c = a.c PROVE Leaves(a, RecvReturn(b))
<1>1. RecvReturn(b) = NoCall \/ RecvReturn(b) = [b EXCEPT !.pc = "api", !.fn = "recved", !.len = b.off]
  BY DEF RecvReturn
<1> QED
  BY <1>1 DEF Leaves, AppShaped

\* The call is on an open socket.
LEMMA OnSocket ==
  ASSUME Good, app.pc \in {"recv", "fetch", "minus", "closed", "copy", "acceptFetch"}
  PROVE  /\ app.s \in Socks /\ sock[app.s].conn = app.c /\ app.c \in Conns /\ AppShaped(app)
         /\ app.fn \in {"recv", "eof", "accept"} /\ \A n \in Conns : ~Joining(n)
<1>1. app.fn \in {"recv", "eof", "accept"} /\ app.c \in Conns /\ AppShaped(app)
  BY DEF Good, Types, Proceeds
<1>2. \A n \in Conns : ~Joining(n)
  BY <1>1 DEF Joining
<1> QED
  BY <1>1, <1>2 DEF Good, Owned, Called

\* Who may still read is awake.
LEMMA OpenAwake == ASSUME NEW c, Sound(c), Open(c) PROVE Awake(c)
  BY DEF Sound, Open, Awake, Ended

\* lwip_recvfrom has data left over, or fetches, or is done.
LEMMA RecvLoopGood == ASSUME Good, RecvLoop, UNCHANGED program PROVE Good'
<1> DEFINE sk == sock[app.s]
           c == conn[app.c]
           copy == [app EXCEPT !.pc = "copy", !.buf = sk.last]
           fetch == [app EXCEPT !.pc = "fetch"]
           ret == RecvReturn(app)
<1>1. /\ UNCHANGED <<program, conn, sock, sel, todo>> /\ app.pc = "recv"
      /\ \/ app' = copy \/ app' = ret
         \/ app' = fetch /\ c.rvalid /\ c.err \notin Fatal
  <2>1. app' = IF sk.last # EOF THEN copy
               ELSE IF (app.dont \/ c.nonblock) /\ sk.rcv <= 0 THEN ret
               ELSE IF ~c.rvalid \/ c.err \in Fatal THEN ret ELSE fetch
    BY DEF RecvLoop
  <2> HIDE DEF copy, ret, fetch, c, sk
  <2> QED
    BY <2>1 DEF RecvLoop, At, Continues, AppUnchanged
<1>2. /\ app.s \in Socks /\ sock[app.s].conn = app.c /\ app.c \in Conns /\ AppShaped(app)
      /\ app.fn = "recv"
  BY <1>1, OnSocket DEF Good, Types, Proceeds
<1>3. CASE app' = ret
  <2>1. Leaves(app, app')
    BY <1>2, <1>3, RecvReturnEnds
  <2> QED
    BY <1>1, <1>2, <2>1, Ending, AppOnly
<1>4. CASE (app' = copy) \/ (app' = fetch /\ c.rvalid /\ c.err \notin Fatal)
  <2>1. app'.pc \in {"copy", "fetch"} /\ app'.fn = "recv" /\ app'.s = app.s /\ app'.c = app.c /\ AppShaped(app')
    BY <1>2, <1>4 DEF AppShaped
  <2>2. Proceeds(app') /\ (\A n \in Conns : ~Joining(n)') /\ \A r \in Socks : ~Unknown(r)'
    BY <1>2, <2>1 DEF Proceeds, Joining, Unknown
  <2>3. app'.pc = "fetch" => c.rvalid /\ c.err \notin Fatal
    BY <1>2, <1>4 DEF AppShaped
  <2>4. app'.pc = "fetch" => Open(c) /\ Sound(c)
    BY <1>2, <2>3 DEF Good, ReadersWoken, Netconns
  <2>5. app'.pc = "fetch" => Awake(c)
    BY <2>4, OpenAwake
  <2> QED
    BY <1>1, <1>2, <2>1, <2>2, <2>3, <2>5, AppOnly
<1> QED
  BY <1>1, <1>3, <1>4

\* What is left of a mailbox, and what it held.
LEMMA Popped ==
  ASSUME NEW S, NEW box \in Seq(S), box # <<>>
  PROVE  /\ Tail(box) \in Seq(S) /\ Head(box) \in S
         /\ \A k \in DOMAIN Tail(box) : k + 1 \in DOMAIN box /\ Tail(box)[k] = box[k + 1] /\ k + 1 # 1
         /\ \A k \in DOMAIN box : k = 1 \/ (k - 1 \in DOMAIN Tail(box) /\ Tail(box)[k - 1] = box[k])
         /\ 1 \in DOMAIN box /\ Head(box) = box[1] /\ DOMAIN box \subseteq Int
<1>1. Tail(box) \in Seq(S) /\ Head(box) \in S /\ Len(Tail(box)) = Len(box) - 1 /\ Len(box) \in Nat /\ Len(box) > 0
  OBVIOUS
<1>2. DOMAIN box = 1 .. Len(box) /\ DOMAIN Tail(box) = 1 .. Len(box) - 1
  BY <1>1
<1>3. \A k \in 1 .. Len(box) - 1 : Tail(box)[k] = box[k + 1]
  BY <1>1
<1>4. \A k \in 1 .. Len(box) : k = 1 \/ k - 1 \in 1 .. Len(box) - 1
  BY <1>1
<1>5. \A k \in 1 .. Len(box) : k = 1 \/ Tail(box)[k - 1] = box[(k - 1) + 1]
  BY <1>1, <1>3, <1>4
<1>6. \A k \in 1 .. Len(box) : (k - 1) + 1 = k
  BY <1>1
<1>7. \A k \in 1 .. Len(box) : k = 1 \/ Tail(box)[k - 1] = box[k]
  BY <1>5, <1>6
<1>8. \A k \in 1 .. Len(box) - 1 : k + 1 \in 1 .. Len(box) /\ k + 1 # 1
  BY <1>1
<1>9. Head(box) = box[1] /\ 1 \in 1 .. Len(box) /\ 1 .. Len(box) \subseteq Int
  BY <1>1
<1> QED
  BY <1>1, <1>2, <1>3, <1>4, <1>7, <1>8, <1>9

\* A packet less in the mailbox.
LEMMA BoxShrinks ==
  ASSUME NEW c, Sound(c), c.rbox # <<>>, NEW d, d = [c EXCEPT !.rbox = Tail(c.rbox)]
  PROVE  /\ Sound(d) /\ d.ev = c.ev /\ d.id = c.id /\ d.type = c.type /\ d.socket = c.socket
         /\ d.abox = c.abox /\ d.rvalid = c.rvalid /\ d.err = c.err /\ (Busy(d) <=> Busy(c))
         /\ Open(c) /\ (Head(c.rbox) # EOF) => Open(d)
         /\ c.type = "udp" => Open(d)
<1> DEFINE box == Tail(c.rbox)
<1>1. /\ c.rbox \in Seq(Packets) /\ box \in Seq(Packets)
      /\ \A k \in DOMAIN c.rbox : k = 1 \/ (k - 1 \in DOMAIN box /\ box[k - 1] = c.rbox[k])
      /\ Head(c.rbox) = c.rbox[1]
  BY Popped DEF Sound
<1> HIDE DEF box
<1>2. /\ Shaped(d) /\ d.ev = c.ev /\ d.id = c.id /\ d.type = c.type
      /\ d.state = c.state /\ d.err = c.err /\ d.rbox = box /\ d.rvalid = c.rvalid /\ d.abox = c.abox
      /\ d.nbConnect = c.nbConnect /\ d.recvTimeout = c.recvTimeout /\ d.pcb = c.pcb
      /\ d.avalid = c.avalid /\ d.cur = c.cur /\ d.socket = c.socket
  BY DEF Sound, Shaped, box
<1>3. (ShutdownRefused(d) <=> ShutdownRefused(c)) /\ (Fed(d) <=> Fed(c)) /\ (Busy(d) <=> Busy(c))
  BY <1>2 DEF ShutdownRefused, Fed, Busy
<1>4. Sound(d)
  BY <1>1, <1>2, <1>3 DEF Sound
<1>5. Ended(c) /\ Head(c.rbox) # EOF => Ended(d)
  BY <1>1, <1>2 DEF Ended
<1>6. c.type = "udp" => Open(d)
  BY <1>2 DEF Open, Fed
<1> QED
  BY <1>2, <1>3, <1>4, <1>5, <1>6 DEF Open

\* What SafeErr does, read with what the invariant says.
LEMMA SafeErrReaders ==
  ASSUME Good, NEW c \in Conns, NEW err, conn' = [conn EXCEPT ![c] = SafeErr(@, err)],
         app.fn = "eof" => (app'.fn = "eof" /\ app'.c = app.c) \/ (err \in Fatal /\ app.c = c),
         app'.pc # "fetch"
  PROVE  ReadersWoken'
<1> DEFINE d == SafeErr(conn[c], err)
<1>1. \A i \in Conns : conn'[i] = IF i = c THEN d ELSE conn[i]
  BY DEF Good, Types
<1>2. Kept(conn[c], d) /\ (err \in Fatal => d.err \in Fatal)
  <2>1. Sound(conn[c])
    BY DEF Good, Netconns
  <2>2. err \in Fatal => d.err \in Fatal
    BY <2>1 DEF SafeErr, Sound, Shaped
  <2> QED
    BY <2>1, <2>2, SafeErrKeeps
<1> HIDE DEF d
<1>3. ASSUME NEW i \in Conns, conn'[i].rvalid, conn'[i].err \notin Fatal, ~(app'.fn = "eof" /\ app'.c = i)
      PROVE  Open(conn'[i])
  <2>1. ~(app.fn = "eof" /\ app.c = i)
    BY <1>1, <1>2, <1>3
  <2> QED
    BY <1>1, <1>2, <1>3, <2>1 DEF Good, ReadersWoken, Kept
<1> QED
  BY <1>3 DEF ReadersWoken

\* A call reports what came of it.
LEMMA Reports ==
  ASSUME Good, UNCHANGED <<program, sock, sel, todo>>, app.pc \notin {"wait", "acceptJoin"},
         NEW c \in Conns, NEW err, conn' = [conn EXCEPT ![c] = SafeErr(@, err)],
         app.fn = "eof" => (app'.fn = "eof" /\ app'.c = app.c) \/ (err \in Fatal /\ app.c = c),
         app'.pc \notin {"fetch", "wait", "acceptJoin"}, AppShaped(app'), Proceeds(app'),
         \A n \in Conns : Joining(n)' => Joining(n),
         (app.pc # "idle" /\ ~Joining(app.c) => app.s \in Socks /\ sock[app.s].conn = app.c)',
         \A s \in Socks : Unknown(s)' => Unknown(s) \/ Unwatched(s)
  PROVE  Good'
<1>1. Sound(conn[c]) /\ conn[c].ev = <<>>
  BY DEF Good, Netconns
<1>2. ReadersWoken'
  BY SafeErrReaders
<1> DEFINE d == SafeErr(conn[c], err)
<1>3. /\ Sound(d) /\ (Busy(d) <=> Busy(conn[c])) /\ d.ev = conn[c].ev /\ d.id = conn[c].id
      /\ d.abox = conn[c].abox /\ d.type = conn[c].type /\ d.socket = conn[c].socket
  BY <1>1, SafeErrKeeps
<1> HIDE DEF d
<1>4. conn' = [conn EXCEPT ![c] = d]
  BY DEF d
<1> QED
  BY <1>1, <1>2, <1>3, <1>4, AppAndOne

\* netconn_recv_data fetches from the mailbox.
LEMMA RecvFetchGood == ASSUME Good, RecvFetch, UNCHANGED program PROVE Good'
<1> DEFINE c == conn[app.c]
           eof == [app EXCEPT !.pc = "api", !.fn = "eof", !.len = 1]
           minus == [app EXCEPT !.pc = "minus", !.buf = Head(c.rbox)]
           d == [c EXCEPT !.rbox = Tail(c.rbox)]
<1>1. UNCHANGED <<program, sock, sel, todo>> /\ app.pc = "fetch"
  BY DEF RecvFetch, At, Continues, AppUnchanged
<1>2. /\ app.s \in Socks /\ sock[app.s].conn = app.c /\ app.c \in Conns /\ AppShaped(app)
      /\ app.fn = "recv"
  BY <1>1, OnSocket DEF Good, Types, Proceeds
<1>3. Sound(c) /\ c.ev = <<>>
  BY <1>2 DEF Good, Netconns
<1>4. CASE c.rbox = <<>> /\ conn' = [conn EXCEPT ![app.c] = SafeErr(@, "TIMEOUT")] /\ app' = RecvReturn(app)
  <2>1. Leaves(app, app')
    BY <1>2, <1>4, RecvReturnEnds
  <2>2. /\ app'.pc \in {"idle", "api"} /\ AppShaped(app') /\ Proceeds(app')
        /\ \A n \in Conns : ~Joining(n)'
        /\ app'.pc # "idle" => app'.s = app.s /\ app'.c = app.c
        /\ \A r \in Socks : ~Unknown(r)'
    BY <1>1, <1>2, <2>1, Ending
  <2> QED
    BY <1>1, <1>2, <1>4, <2>2, Reports
<1>5. CASE /\ c.rbox # <<>> /\ conn' = [conn EXCEPT ![app.c] = d]
           /\ app' = IF c.type = "tcp" /\ Head(c.rbox) = EOF THEN eof ELSE minus
  <2>1. /\ app'.s = app.s /\ app'.c = app.c /\ AppShaped(app')
        /\ \/ app'.pc = "api" /\ app'.fn = "eof"
           \/ app'.pc = "minus" /\ app'.fn = "recv" /\ (c.type # "tcp" \/ Head(c.rbox) # EOF)
    <3>1. eof.s = app.s /\ eof.c = app.c /\ AppShaped(eof) /\ eof.pc = "api" /\ eof.fn = "eof"
      BY <1>2 DEF AppShaped
    <3>2. minus.s = app.s /\ minus.c = app.c /\ AppShaped(minus) /\ minus.pc = "minus" /\ minus.fn = "recv"
      BY <1>2 DEF AppShaped
    <3> HIDE DEF eof, minus
    <3> QED
      BY <1>5, <3>1, <3>2
  <2>2. Proceeds(app') /\ (\A n \in Conns : ~Joining(n)') /\ \A r \in Socks : ~Unknown(r)'
    BY <1>2, <2>1 DEF Proceeds, Joining, Unknown, Fns
  <2>3. /\ Sound(d) /\ d.ev = c.ev /\ d.id = c.id /\ d.type = c.type /\ d.socket = c.socket
        /\ d.abox = c.abox /\ d.rvalid = c.rvalid /\ d.err = c.err /\ (Busy(d) <=> Busy(c))
        /\ Open(c) /\ (Head(c.rbox) # EOF) => Open(d)
        /\ c.type = "udp" => Open(d)
    BY <1>3, <1>5, BoxShrinks
  <2>4. conn' = [conn EXCEPT ![app.c] = d] /\ \A i \in Conns : conn'[i] = IF i = app.c THEN d ELSE conn[i]
    BY <1>5 DEF Good, Types
  <2> HIDE DEF d
  <2>5. ASSUME NEW i \in Conns, conn'[i].rvalid, conn'[i].err \notin Fatal, ~(app'.fn = "eof" /\ app'.c = i)
        PROVE  Open(conn'[i])
    <3>1. CASE i # app.c
      BY <1>2, <2>4, <2>5, <3>1 DEF Good, ReadersWoken
    <3>2. CASE i = app.c
      <4>1. c.type # "tcp" \/ Head(c.rbox) # EOF
        BY <2>1, <2>5, <3>2
      <4>2. c.rvalid /\ Open(c)
        BY <1>2, <2>3, <2>4, <2>5, <3>2 DEF Good, ReadersWoken
      <4>3. c.type \in {"tcp", "udp"}
        BY <1>3, <4>2 DEF Sound
      <4> QED
        BY <2>3, <2>4, <3>2, <4>1, <4>2, <4>3
    <3> QED
      BY <3>1, <3>2
  <2>6. ReadersWoken'
    BY <2>1, <2>5 DEF ReadersWoken
  <2> QED
    BY <1>1, <1>2, <1>3, <2>1, <2>2, <2>3, <2>4, <2>6, AppAndOne
<1>6. \/ c.rbox = <<>> /\ conn' = [conn EXCEPT ![app.c] = SafeErr(@, "TIMEOUT")] /\ app' = RecvReturn(app)
      \/ /\ c.rbox # <<>> /\ conn' = [conn EXCEPT ![app.c] = d]
         /\ app' = IF c.type = "tcp" /\ Head(c.rbox) = EOF THEN eof ELSE minus
  <2>1. conn' = [conn EXCEPT ![app.c].rbox = Tail(@)] => conn' = [conn EXCEPT ![app.c] = d]
    BY <1>2 DEF Good, Types
  <2> QED
    BY <2>1 DEF RecvFetch
<1> QED
  BY <1>4, <1>5, <1>6

\* event_callback on the application's thread.
LEMMA EventOfCall ==
  ASSUME Good, NEW c \in Conns, NEW evt \in CountedEvts, EventCallback(c, evt), UNCHANGED <<program, todo>>,
         app.pc \notin {"wait", "acceptJoin"}, app'.pc \notin {"wait", "acceptJoin", "fetch"},
         AppShaped(app'), Proceeds(app'),
         \A n \in Conns : Joining(n)' => Joining(n),
         (app.pc # "idle" /\ ~Joining(app.c) => app.s \in Socks /\ sock[app.s].conn = app.c)',
         \A s \in Socks : Unknown(s)' => Unknown(s) \/ Unwatched(s),
         app.fn = "eof" => app'.fn = "eof" /\ app'.c = app.c
  PROVE  Good'
<1>1. AllAlike /\ SocksAlike /\ SelsAlike /\ SelectsAwake'
  BY EventAlike DEF Good
<1>2. DOMAIN conn' = Conns /\ Netconns'
  BY <1>1, AlikeNetconns DEF Good, AllAlike
<1>3. \A i \in Conns : (Busy(conn'[i]) <=> Busy(conn[i])) /\ (Open(conn'[i]) <=> Open(conn[i]))
  BY <1>1, AlikeBoth DEF AllAlike
<1>4. ReadersWoken'
  BY <1>1, <1>3, ReadersKept DEF Good, AllAlike, Alike
<1> QED
  BY <1>1, <1>2, <1>3, <1>4, AppKeeps DEF AllAlike, Alike

\* netconn_recv_data counts the packet out.
LEMMA RecvMinusGood == ASSUME Good, RecvMinus, UNCHANGED program PROVE Good'
<1> DEFINE to == IF app.fn = "eof" THEN "closed" ELSE "copy"
<1>1. UNCHANGED <<program, todo>> /\ app.pc = "minus" /\ EventCallback(app.c, "RCVMINUS")
      /\ app' = [app EXCEPT !.pc = to]
  BY DEF RecvMinus, At, Continues, AppUnchanged
<1>2. /\ app.s \in Socks /\ sock[app.s].conn = app.c /\ app.c \in Conns /\ AppShaped(app)
      /\ app.fn \in {"recv", "eof"} /\ Proceeds(app)
  BY <1>1, OnSocket DEF Good, Types, Proceeds
<1>3. to = (IF app.fn = "eof" THEN "closed" ELSE "copy")
  OBVIOUS
<1> HIDE DEF to
<1>4. app'.pc = to /\ app'.s = app.s /\ app'.c = app.c /\ app'.fn = app.fn /\ AppShaped(app')
  BY <1>1, <1>2 DEF AppShaped
<1>5. Proceeds(app') /\ (\A n \in Conns : ~Joining(n)') /\ \A r \in Socks : ~Unknown(r)'
  BY <1>2, <1>3, <1>4 DEF Proceeds, Joining, Unknown
<1>6. "RCVMINUS" \in CountedEvts /\ SocksAlike
  BY <1>1, <1>2, EventAlike DEF Good, CountedEvts, Evts
<1>7. sock'[app.s].conn = app.c
  BY <1>2, <1>6 DEF SocksAlike
<1> QED
  BY <1>1, <1>2, <1>3, <1>4, <1>5, <1>6, <1>7, EventOfCall

\* netconn_recv_data finds the end of the stream.
LEMMA RecvClosedGood == ASSUME Good, RecvClosed, UNCHANGED program PROVE Good'
<1>1. /\ UNCHANGED <<program, sock, sel, todo>> /\ app.pc = "closed" /\ app' = RecvReturn(app)
      /\ conn' = [conn EXCEPT ![app.c] = SafeErr(@, "CLSD")]
  BY DEF RecvClosed, At, Continues, AppUnchanged
<1>2. /\ app.s \in Socks /\ sock[app.s].conn = app.c /\ app.c \in Conns /\ AppShaped(app)
  BY <1>1, OnSocket
<1>3. Leaves(app, app')
  BY <1>1, <1>2, RecvReturnEnds
<1>4. /\ app'.pc \in {"idle", "api"} /\ AppShaped(app') /\ Proceeds(app')
      /\ \A n \in Conns : ~Joining(n)'
      /\ app'.pc # "idle" => app'.s = app.s /\ app'.c = app.c
      /\ \A r \in Socks : ~Unknown(r)'
  BY <1>1, <1>2, <1>3, Ending
<1>5. "CLSD" \in Fatal
  BY DEF Fatal
<1> QED
  BY <1>1, <1>2, <1>4, <1>5, Reports

\* lwip_recvfrom copies what it fetched.
LEMMA RecvCopyGood == ASSUME Good, RecvCopy, UNCHANGED program PROVE Good'
<1>1. /\ UNCHANGED <<program, conn, sel, todo>> /\ app.pc = "copy"
      /\ \E n, done :
              LET read == [app EXCEPT !.off = @ + n, !.len = @ - n]
              IN app' = IF done THEN RecvReturn(read) ELSE [read EXCEPT !.pc = "recv"]
  BY Zenon DEF RecvCopy, At, Continues, AppUnchanged
<1>2. /\ app.s \in Socks /\ sock[app.s].conn = app.c /\ app.c \in Conns /\ AppShaped(app)
      /\ app.fn = "recv" /\ Proceeds(app)
  BY <1>1, OnSocket DEF Good, Types, Proceeds
<1>3. SocksAlike /\ \A s \in Socks : \A mode : Happened(sock'[s], mode) = Happened(sock[s], mode)
  <2>1. DOMAIN sock = Socks /\ \A s \in Socks : SockShaped(sock[s])
    BY DEF Good, Types
  <2> DEFINE sk == sock[app.s]
             p == app.buf
             n == Least(app.len, p.len - sk.lastoff)
             o == sk.lastoff + n
             off == [sk EXCEPT !.last = EOF, !.lastoff = 0]
             left == [sk EXCEPT !.last = p, !.lastoff = o]
             peek == [sk EXCEPT !.last = p]
             tcp == conn[app.c].type = "tcp"
             k == IF app.peek THEN peek ELSE IF tcp THEN Leftover(sk, p, n) ELSE off
  <2>2. sock' = [sock EXCEPT ![app.s] = k]
    BY DEF RecvCopy
  <2>6. k = off \/ k = left \/ k = peek
    BY Zenon DEF Leftover
  <2> HIDE DEF o, n, k
  <2>3. /\ SockShaped(k) /\ k.conn = sock[app.s].conn /\ k.waiting = sock[app.s].waiting
        /\ k.rcv = sock[app.s].rcv /\ k.snd = sock[app.s].snd /\ k.err = sock[app.s].err
    BY <1>2, <2>1, <2>6 DEF SockShaped
  <2>4. DOMAIN sock' = Socks /\ \A s \in Socks : sock'[s] = IF s = app.s THEN k ELSE sock[s]
    BY <1>2, <2>1, <2>2
  <2>5. \A mode : Happened(k, mode) = Happened(sock[app.s], mode)
    BY <2>3 DEF Happened
  <2> QED
    BY <2>1, <2>3, <2>4, <2>5 DEF SocksAlike
<1>4. /\ app'.pc \in {"idle", "api", "recv"} /\ AppShaped(app') /\ Proceeds(app')
      /\ \A n \in Conns : ~Joining(n)'
      /\ app'.pc # "idle" => app'.s = app.s /\ app'.c = app.c
      /\ \A r \in Socks : ~Unknown(r)'
  <2>1. PICK n, done : app' = IF done THEN RecvReturn([app EXCEPT !.off = @ + n, !.len = @ - n])
                              ELSE [[app EXCEPT !.off = @ + n, !.len = @ - n] EXCEPT !.pc = "recv"]
    BY <1>1
  <2> DEFINE read == [app EXCEPT !.off = @ + n, !.len = @ - n]
             again == [read EXCEPT !.pc = "recv"]
  <2>2. AppShaped(read) /\ read.s = app.s /\ read.c = app.c /\ read.fn = "recv"
    BY <1>2 DEF AppShaped
  <2>3. app' = RecvReturn(read) \/ app' = again
    BY <2>1
  <2> HIDE DEF read
  <2>4. AppShaped(again) /\ again.s = app.s /\ again.c = app.c /\ again.fn = "recv" /\ again.pc = "recv"
    BY <2>2 DEF AppShaped
  <2> HIDE DEF again
  <2>5. CASE app' = RecvReturn(read)
    <3>1. Leaves(app, app')
      BY <2>2, <2>5, RecvReturnEnds
    <3> QED
      BY <1>1, <1>2, <3>1, Ending
  <2>6. CASE app' = again
    <3>1. Proceeds(app')
      BY <1>2, <2>4, <2>6 DEF Proceeds
    <3> QED
      BY <2>4, <2>6, <3>1 DEF Joining, Unknown
  <2> QED
    BY <2>3, <2>5, <2>6
<1>5. SelsAlike /\ DOMAIN conn' = Conns /\ Netconns'
  BY <1>1 DEF Good, Types, Netconns, SelsAlike
<1>6. SelectsAwake'
  <2>1. \A t \in Watchers : sel[t].s \in Socks
    BY DEF Good, Types, Selecting
  <2> QED
    BY <1>1, <1>3, <2>1 DEF Good, Watching, SelectsAwake
<1>7. ReadersWoken'
  BY <1>1, <1>2, <1>4, ReadersKept DEF Good
<1>8. app'.pc # "idle" => sock'[app'.s].conn = app'.c
  BY <1>2, <1>3, <1>4 DEF SocksAlike
<1> QED
  BY <1>1, <1>2, <1>3, <1>4, <1>5, <1>6, <1>7, <1>8, AppKeeps

\* lwip_ioctl and lwip_fcntl
LEMMA SetNonblockingGood ==
  ASSUME Good, UNCHANGED program, NEW s \in Socks, SetNonblocking(s) PROVE Good'
<1> DEFINE i == sock[s].conn
           c == conn[i]
           nb == ~c.nonblock
           d == [c EXCEPT !.nonblock = nb]
<1>1. /\ UNCHANGED <<program, sock, sel, todo, app>> /\ app.pc = "idle" /\ InUse(s)
      /\ conn' = [conn EXCEPT ![i].nonblock = ~@]
  BY DEF SetNonblocking, Begins, AppUnchanged
<1>2. i \in Conns
  BY <1>1, SocketsAssumption DEF Good, Types, SockShaped, InUse, Conns
<1>3. Sound(c) /\ c.ev = <<>>
  BY <1>2 DEF Good, Netconns
<1>4. conn' = [conn EXCEPT ![i] = d]
  BY <1>1
<1> HIDE DEF nb
<1>5. Same(c, d) /\ d.ev = <<>> /\ d.abox = c.abox
  <2>1. Shaped(c)
    BY <1>3 DEF Sound
  <2> QED
    BY <1>3, <2>1 DEF Shaped, Same
<1> HIDE DEF d
<1>6. Sound(d) /\ (Busy(d) <=> Busy(c)) /\ (Open(d) <=> Open(c))
  <2>1. Posted(c.ev) => Posted(d.ev)
    BY <1>3, <1>5
  <2>2. Open(d) <=> Open(c)
    BY <1>5 DEF Same, Open, Fed, Ended
  <2> QED
    BY <1>3, <1>5, <2>1, <2>2, SameSound
<1>7. \A j \in Conns : conn'[j] = IF j = i THEN d ELSE conn[j]
  BY <1>4 DEF Good, Types
<1>8. ReadersWoken'
  <2>1. d.rvalid = c.rvalid /\ d.err = c.err
    BY <1>5 DEF Same
  <2>2. \A j \in Conns : /\ conn'[j].rvalid = conn[j].rvalid /\ conn'[j].err = conn[j].err
                         /\ Open(conn'[j]) <=> Open(conn[j])
    BY <1>6, <1>7, <2>1
  <2> QED
    BY <1>1, <2>2, ReadersKept DEF Good
<1>9. \A n \in Conns : Joining(n)' => Joining(n)
  BY <1>1 DEF Joining
<1>10. Proceeds(app) /\ AppShaped(app)
  BY DEF Good, Types
<1>11. \A r \in Socks : Unknown(r)' => Unknown(r)
  BY <1>1 DEF Unknown
<1> QED
  BY <1>1, <1>2, <1>4, <1>5, <1>6, <1>8, <1>9, <1>10, <1>11, AppAndOne DEF Same

\* lwip_connect, lwip_listen, lwip_sendto, lwip_shutdown, lwip_setsockopt and
\* lwip_close pass a message.
LEMMA MessagesGood ==
  ASSUME Good, UNCHANGED program, NEW s \in Socks,
         \/ Connect(s) \/ Listen(s) \/ Close(s)
         \/ \E how : Shutdown(s, how)
         \/ \E o : Option(s, o)
         \/ \E len, dont : Send(s, len, dont)
  PROVE  Good'
<1>1. {"connect", "listen", "send", "write", "close", "option", "delete"} \subseteq Fns \ {"peer"}
  BY DEF Fns
<1>2. ASSUME Connect(s) PROVE Good'
  <2>1. /\ Alive /\ app.pc = "idle" /\ InUse(s) /\ UNCHANGED <<program, conn, sock, sel, todo>>
        /\ app' = Message("connect", s, 0, FALSE, {})
    BY <1>2 DEF Connect, Asks, Begins, AppUnchanged
  <2> QED
    BY <1>1, <2>1, MessageBegins
<1>3. ASSUME Listen(s) PROVE Good'
  <2>1. /\ Alive /\ app.pc = "idle" /\ InUse(s) /\ UNCHANGED <<program, conn, sock, sel, todo>>
        /\ app' = Message("listen", s, 0, FALSE, {})
    BY <1>3 DEF Listen, Asks, Begins, AppUnchanged
  <2> QED
    BY <1>1, <2>1, MessageBegins
<1>4. ASSUME Close(s) PROVE Good'
  <2>1. /\ Alive /\ app.pc = "idle" /\ InUse(s) /\ UNCHANGED <<program, conn, sock, sel, todo>>
        /\ app' = Message("delete", s, 0, FALSE, {}) /\ Unwatched(s)
    BY <1>4 DEF Close, Asks, Begins, AppUnchanged, Unwatched
  <2> QED
    BY <1>1, <2>1, MessageBegins
<1>5. ASSUME NEW how, Shutdown(s, how) PROVE Good'
  <2>1. /\ Alive /\ app.pc = "idle" /\ InUse(s) /\ UNCHANGED <<program, conn, sock, sel, todo>>
        /\ app' = Message("close", s, 0, FALSE, how)
    BY <1>5 DEF Shutdown, Asks, Begins, AppUnchanged
  <2> QED
    BY <1>1, <2>1, MessageBegins
<1>6. ASSUME NEW o, Option(s, o) PROVE Good'
  <2>1. /\ Alive /\ app.pc = "idle" /\ InUse(s) /\ UNCHANGED <<program, conn, sock, sel, todo>>
        /\ app' = Message("option", s, 0, FALSE, o)
    BY <1>6 DEF Option, Asks, Begins, AppUnchanged
  <2> QED
    BY <1>1, <2>1, MessageBegins
<1>7. ASSUME NEW len, NEW dont, Send(s, len, dont) PROVE Good'
  <2>1. PICK fn \in {"write", "send"} : app' = Message(fn, s, len, dont, {})
    BY <1>7 DEF Send
  <2>2. Alive /\ app.pc = "idle" /\ InUse(s) /\ UNCHANGED <<program, conn, sock, sel, todo>>
    BY <1>7 DEF Send, Asks, Begins, AppUnchanged
  <2> QED
    BY <1>1, <2>1, <2>2, MessageBegins
<1> QED
  BY <1>2, <1>3, <1>4, <1>5, <1>6, <1>7

\* lwip_recvfrom and lwip_accept begin without one.
LEMMA BeginsGood ==
  ASSUME Good, UNCHANGED <<program, conn, sock, sel, todo>>, NEW s \in Socks, app.pc = "idle", InUse(s),
         \/ app' = NoCall
         \/ /\ AppShaped(app') /\ app'.s = s /\ app'.c = sock[s].conn
            /\ \/ app'.pc = "recv" /\ app'.fn = "recv"
               \/ app'.pc = "acceptFetch" /\ app'.fn = "accept"
  PROVE  Good'
<1>1. app.fn = "none" /\ \A n \in Conns : ~Joining(n)
  BY DEF Good, Types, Proceeds, Joining
<1>2. sock[s].conn \in Conns
  BY SocketsAssumption DEF Good, Types, SockShaped, InUse, Conns
<1>3. CASE app' = NoCall
  <2>1. /\ app'.pc = "idle" /\ app'.fn = "none" /\ AppShaped(app')
    BY <1>3 DEF NoCall, AppShaped
  <2>2. Proceeds(app') /\ (\A n \in Conns : ~Joining(n)') /\ \A r \in Socks : ~Unknown(r)'
    BY <2>1 DEF Proceeds, Joining, Unknown
  <2> QED
    BY <1>1, <2>1, <2>2, AppOnly
<1>4. CASE /\ AppShaped(app') /\ app'.s = s /\ app'.c = sock[s].conn
           /\ \/ app'.pc = "recv" /\ app'.fn = "recv"
              \/ app'.pc = "acceptFetch" /\ app'.fn = "accept"
  <2>2. Proceeds(app') /\ (\A n \in Conns : ~Joining(n)') /\ \A r \in Socks : ~Unknown(r)'
    BY <1>2, <1>4 DEF Proceeds, Joining, Unknown
  <2> QED
    BY <1>1, <1>4, <2>2, AppOnly
<1> QED
  BY <1>3, <1>4

\* lwip_recvfrom begins.
LEMMA RecvGood ==
  ASSUME Good, UNCHANGED program, NEW s \in Socks, NEW len, NEW dont, NEW peek, Recv(s, len, dont, peek)
  PROVE  Good'
<1>1. /\ UNCHANGED <<program, conn, sock, sel, todo>> /\ app.pc = "idle" /\ InUse(s)
      /\ app' = [Message("recv", s, len, dont, {}) EXCEPT !.pc = "recv", !.peek = peek]
  BY DEF Recv, Asks, Begins, AppUnchanged
<1>2. AppShaped(app') /\ app'.s = s /\ app'.c = sock[s].conn /\ app'.pc = "recv" /\ app'.fn = "recv"
  BY <1>1 DEF Message, NoCall, AppShaped
<1> QED
  BY <1>1, <1>2, BeginsGood

\* lwip_accept begins.
LEMMA AcceptGood == ASSUME Good, UNCHANGED program, NEW s \in Socks, Accept(s) PROVE Good'
<1> DEFINE call == [Message("accept", s, 0, FALSE, {}) EXCEPT !.pc = "acceptFetch"]
<1>1. /\ UNCHANGED <<program, conn, sock, sel, todo>> /\ app.pc = "idle" /\ InUse(s)
      /\ app' = NoCall \/ app' = call
  <2>1. Asks("accept", s) /\ (app' = NoCall \/ app' = call)
    BY Zenon DEF Accept
  <2> QED
    BY <2>1 DEF Asks, Begins, AppUnchanged
<1>2. AppShaped(call) /\ call.s = s /\ call.c = sock[s].conn /\ call.pc = "acceptFetch" /\ call.fn = "accept"
  BY DEF Message, NoCall, AppShaped
<1> HIDE DEF call
<1> QED
  BY <1>1, <1>2, BeginsGood

\* The first of an acceptmbox leaves it for the accept.
LEMMA AcceptFetchGood == ASSUME Good, AcceptFetch, UNCHANGED program PROVE Good'
<1> DEFINE c == conn[app.c]
           n == Head(c.abox)
           box == Tail(c.abox)
           d == [c EXCEPT !.abox = box]
           minus == [app EXCEPT !.pc = "acceptMinus", !.len = n]
<1>1. UNCHANGED <<program, sock, sel, todo>> /\ app.pc = "acceptFetch"
  BY DEF AcceptFetch, At, Continues, AppUnchanged
<1>2. /\ app.s \in Socks /\ sock[app.s].conn = app.c /\ app.c \in Conns /\ AppShaped(app)
      /\ app.fn = "accept" /\ \A i \in Conns : ~Joining(i)
  BY <1>1, OnSocket DEF Good, Types, Proceeds
<1>3. Sound(c) /\ c.ev = <<>> /\ DOMAIN conn = Conns
  BY <1>2 DEF Good, Netconns, Types
<1>4. CASE c.abox = <<>> /\ conn' = [conn EXCEPT ![app.c] = SafeErr(@, "TIMEOUT")] /\ app' = NoCall
  <2>1. Leaves(app, app')
    BY <1>4 DEF Leaves
  <2>2. /\ app'.pc \in {"idle", "api"} /\ AppShaped(app') /\ Proceeds(app')
        /\ \A i \in Conns : ~Joining(i)'
        /\ app'.pc # "idle" => app'.s = app.s /\ app'.c = app.c
        /\ \A r \in Socks : ~Unknown(r)'
    BY <1>1, <1>2, <2>1, Ending
  <2> QED
    BY <1>1, <1>2, <1>4, <2>2, Reports
<1>5. CASE c.abox # <<>> /\ conn' = [conn EXCEPT ![app.c] = d] /\ app' = minus
  <2>1. /\ c.abox \in Seq(Conns) /\ box \in Seq(Conns) /\ n \in Conns
        /\ \A k \in DOMAIN box : k + 1 \in DOMAIN c.abox /\ box[k] = c.abox[k + 1] /\ k + 1 # 1
        /\ 1 \in DOMAIN c.abox /\ n = c.abox[1] /\ DOMAIN c.abox \subseteq Int /\ DOMAIN box \subseteq Int
    <3>1. c.abox \in Seq(Conns)
      BY <1>3 DEF Sound
    <3>2. DOMAIN box \subseteq Int
      BY <3>1, <1>5
    <3> QED
      BY <1>5, <3>1, <3>2, Popped
  <2> HIDE DEF n, box
  <2>2. app'.pc = "acceptMinus" /\ app'.fn = "accept" /\ app'.s = app.s /\ app'.c = app.c /\ app'.len = n
        /\ AppShaped(app')
    BY <1>2, <1>5 DEF AppShaped
  <2>3. Proceeds(app') /\ (\A i \in Conns : Joining(i)' => i = n) /\ \A r \in Socks : ~Unknown(r)'
    BY <1>2, <2>1, <2>2 DEF Proceeds, Joining, Unknown
  <2>4. /\ Shaped(d) /\ d.ev = c.ev /\ d.id = c.id /\ d.type = c.type
        /\ d.state = c.state /\ d.err = c.err /\ d.rbox = c.rbox /\ d.rvalid = c.rvalid /\ d.abox = box
        /\ d.nbConnect = c.nbConnect /\ d.recvTimeout = c.recvTimeout /\ d.pcb = c.pcb
        /\ d.avalid = c.avalid /\ d.cur = c.cur /\ d.socket = c.socket
    BY <1>3 DEF Sound, Shaped
  <2> HIDE DEF d, minus
  <2>5. (ShutdownRefused(d) <=> ShutdownRefused(c)) /\ (Open(d) <=> Open(c)) /\ (Busy(d) <=> Busy(c))
    BY <2>4 DEF ShutdownRefused, Fed, Busy, Open, Ended
  <2>6. Sound(d)
    BY <1>3, <1>5, <2>1, <2>4, <2>5 DEF Sound
  <2>7. DOMAIN conn' = Conns /\ \A i \in Conns : conn'[i] = IF i = app.c THEN d ELSE conn[i]
    BY <1>3, <1>5
  <2>8. Types'
    BY <1>1, <2>2, <2>3, <2>7 DEF Good, Types
  <2>9. Netconns'
    BY <1>3, <2>4, <2>6, <2>7 DEF Good, Netconns
  <2>10. /\ \A i \in Conns : /\ conn'[i].type = conn[i].type /\ conn'[i].socket = conn[i].socket
                             /\ conn[i].abox \in Seq(Conns)
         /\ \A i \in Conns \ {app.c} : conn'[i].abox = conn[i].abox
         /\ conn'[app.c].abox = box
    BY <1>2, <2>4, <2>7 DEF Good, Netconns, Sound
  <2>11. Held'
    <3>1. \A s \in Socks : (InUse(s) => C(s).type # "free" /\ C(s).socket = s)'
      <4> SUFFICES ASSUME NEW s \in Socks, sock[s].conn # 0
                   PROVE  conn'[sock[s].conn].type # "free" /\ conn'[sock[s].conn].socket = s
        BY <1>1 DEF InUse, C
      <4>1. sock[s].conn \in Conns
        BY SocketsAssumption DEF Good, Types, SockShaped, Conns
      <4> QED
        BY <1>1, <2>10, <4>1 DEF Good, Owned, Held, InUse, C
    <3> QED
      BY <3>1 DEF Held
  <2>12. ASSUME NEW i \in Conns, NEW k \in DOMAIN conn'[i].abox
         PROVE  \E j \in DOMAIN conn[i].abox :
                  /\ conn'[i].abox[k] = conn[i].abox[j] /\ (i = app.c => j = k + 1) /\ (i # app.c => j = k)
                  /\ conn[i].abox[j] # n /\ conn[i].abox[j] \in Conns
    <3>1. \E j \in DOMAIN conn[i].abox : /\ conn'[i].abox[k] = conn[i].abox[j]
                                         /\ (i = app.c => j = k + 1 /\ j # 1) /\ (i # app.c => j = k)
      BY <2>1, <2>10, <2>12
    <3>2. \A j \in DOMAIN conn[i].abox : conn[i].abox[j] = n => i = app.c /\ j = 1
      BY <1>2, <2>1 DEF Good, Owned, Queued
    <3> QED
      BY <2>10, <3>1, <3>2
  <2>13. Queued'
    <3>1. ASSUME NEW i \in Conns, NEW k \in DOMAIN conn'[i].abox
          PROVE  (LET m == conn[i].abox[k] IN conn[m].type # "free" /\ conn[m].socket < 0 /\ ~Joining(m))'
      <4>1. PICK j \in DOMAIN conn[i].abox :
                  /\ conn'[i].abox[k] = conn[i].abox[j] /\ conn[i].abox[j] # n /\ conn[i].abox[j] \in Conns
        BY <2>12
      <4>2. PICK m \in Conns : m = conn[i].abox[j]
        BY <4>1
      <4>3. conn[m].type # "free" /\ conn[m].socket < 0 /\ m # n /\ conn'[i].abox[k] = m
        BY <4>1, <4>2 DEF Good, Owned, Queued
      <4>4. conn'[m].type # "free" /\ conn'[m].socket < 0 /\ ~Joining(m)'
        BY <2>3, <2>10, <4>3
      <4> QED
        BY <4>3, <4>4 DEF Joining
    <3>2. ASSUME NEW i \in Conns, NEW e \in Conns, NEW k \in DOMAIN conn'[i].abox,
                 NEW j \in DOMAIN conn'[e].abox, conn'[i].abox[k] = conn'[e].abox[j]
          PROVE  i = e /\ k = j
      <4>1. PICK k1 \in DOMAIN conn[i].abox :
                  conn'[i].abox[k] = conn[i].abox[k1] /\ (i = app.c => k1 = k + 1) /\ (i # app.c => k1 = k)
        BY <2>12
      <4>2. PICK j1 \in DOMAIN conn[e].abox :
                  conn'[e].abox[j] = conn[e].abox[j1] /\ (e = app.c => j1 = j + 1) /\ (e # app.c => j1 = j)
        BY <2>12
      <4>5. conn[i].abox[k1] = conn[e].abox[j1]
        BY <3>2, <4>1, <4>2
      <4>6. Queued
        BY DEF Good, Owned
      <4>3. i = e /\ k1 = j1
        BY <4>5, <4>6 DEF Queued
      <4>4. i = app.c => k \in Int /\ j \in Int
        BY <2>1, <2>10, <4>3
      <4> QED
        BY <4>1, <4>2, <4>3, <4>4
    <3> QED
      BY <3>1, <3>2 DEF Queued
  <2>14. Called'
    <3>1. conn[n].type # "free" /\ conn[n].socket < 0
      BY <1>2, <2>1 DEF Good, Owned, Queued
    <3>2. \A i \in Conns : (Joining(i) => conn[i].type # "free" /\ conn[i].socket < 0)'
      BY <2>1, <2>3, <2>10, <3>1
    <3>3. (app.pc # "idle" /\ ~Joining(app.c) => app.s \in Socks /\ sock[app.s].conn = app.c)'
      BY <1>1, <1>2, <2>2
    <3> QED
      BY <2>2, <3>2, <3>3 DEF Called
  <2>15. Watching'
    <3>1. SelsAlike /\ SocksAlike /\ SelectsAwake'
      BY <1>1 DEF Good, Types, Watching, SocksAlike, SelsAlike, SelectsAwake
    <3> QED
      BY <1>1, <2>3, <3>1, WatchingKept DEF Good, SocksAlike, SelsAlike, InUse
  <2>16. Calls'
    <3>1. \A i \in Conns : Busy(conn'[i]) => Busy(conn[i])
      BY <2>5, <2>7
    <3> QED
      BY <1>1, <2>2, <3>1, CallsKept DEF Good
  <2>17. ReadersWoken'
    BY <1>2, <2>2, <2>4, <2>5, <2>7, ReadersKept DEF Good
  <2> QED
    BY <2>8, <2>9, <2>11, <2>13, <2>14, <2>15, <2>16, <2>17 DEF Good, Owned
<1>6. \/ c.abox = <<>> /\ conn' = [conn EXCEPT ![app.c] = SafeErr(@, "TIMEOUT")] /\ app' = NoCall
      \/ c.abox # <<>> /\ conn' = [conn EXCEPT ![app.c] = d] /\ app' = minus
  <2>1. conn' = [conn EXCEPT ![app.c].abox = Tail(@)] => conn' = [conn EXCEPT ![app.c] = d]
    BY <1>2, <1>3
  <2> QED
    BY <2>1 DEF AcceptFetch
<1> QED
  BY <1>4, <1>5, <1>6

\* netconn_accept counts the connection out.
LEMMA AcceptMinusGood == ASSUME Good, AcceptMinus, UNCHANGED program PROVE Good'
<1>1. /\ UNCHANGED <<program, todo>> /\ app.pc = "acceptMinus" /\ EventCallback(app.c, "RCVMINUS")
      /\ app' = [app EXCEPT !.pc = "api", !.fn = "peer", !.c = app.len]
  BY DEF AcceptMinus, At, Continues, AppUnchanged
<1>2. app.c \in Conns /\ app.len \in Conns /\ AppShaped(app) /\ app.fn = "accept"
  BY <1>1 DEF Good, Types, Proceeds
<1>3. app'.pc = "api" /\ app'.fn = "peer" /\ app'.c = app.len /\ AppShaped(app')
  BY <1>1, <1>2 DEF AppShaped
<1>4. /\ Proceeds(app') /\ (\A n \in Conns : Joining(n)' => Joining(n)) /\ Joining(app.c)'
      /\ \A r \in Socks : ~Unknown(r)'
  BY <1>1, <1>2, <1>3 DEF Proceeds, Joining, Unknown, Fns
<1>5. "RCVMINUS" \in CountedEvts
  BY DEF CountedEvts, Evts
<1> QED
  BY <1>1, <1>2, <1>3, <1>4, <1>5, EventOfCall

\* The first of some sockets.
LEMMA FirstOfSome == ASSUME NEW S \in SUBSET Nat, S # {} PROVE FirstOf(S) \in S
<1>1. \E c \in S : \A d \in S : c <= d
  BY Smallest
<1> QED
  BY <1>1 DEF FirstOf

\* With as many sockets as netconns, there is one for the netconn accepted.
LEMMA SocketFree ==
  ASSUME Good, app.pc = "acceptAlloc"
  PROVE  \E s \in Socks : ~InUse(s)
<1> SUFFICES ASSUME \A s \in Socks : InUse(s) PROVE FALSE
  OBVIOUS
<1> DEFINE f == [s \in Socks |-> sock[s].conn]
           T == Conns \ {app.c}
<1>1. app.c \in Conns /\ Joining(app.c)
  BY DEF Good, Types, Proceeds, Joining
<1>2. conn[app.c].socket < 0 /\ conn[app.c].type # "free"
  BY <1>1 DEF Good, Owned, Called
<1>3. \A s \in Socks : sock[s].conn \in Conns /\ s \in Nat /\ conn[sock[s].conn].socket = s
  <2>1. \A s \in Socks : sock[s].conn \in Conns /\ s \in Nat
    BY SocketsAssumption DEF Good, Types, SockShaped, InUse, Conns, Socks
  <2> QED
    BY <2>1 DEF Good, Owned, Held, C
<1>4. f \in [Socks -> T]
  <2>1. \A s \in Socks : sock[s].conn # app.c
    BY <1>2, <1>3
  <2> QED
    BY <1>3, <2>1
<1>5. NumSockets \in Nat \ {0} /\ NumSockets - 1 \in Int
  BY SocketsAssumption
<1>6. IsFiniteSet(Socks) /\ Cardinality(Socks) = NumSockets
  BY <1>5, FS_Interval DEF Socks
<1>7. IsFiniteSet(Conns) /\ Cardinality(Conns) = NumSockets
  BY <1>5, FS_Interval DEF Conns
<1>8. IsFiniteSet(T) /\ Cardinality(T) = NumSockets - 1
  BY <1>1, <1>7, FS_RemoveElement
<1>9. Cardinality(T) < Cardinality(Socks)
  BY <1>5, <1>6, <1>8
<1> HIDE DEF f, T
<1>10. \E x, y \in Socks : x # y /\ f[x] = f[y]
  BY <1>4, <1>6, <1>8, <1>9, FS_PigeonHole
<1>11. PICK x \in Socks, y \in Socks : x # y /\ sock[x].conn = sock[y].conn
  BY <1>10 DEF f
<1> QED
  BY <1>3, <1>11

\* lwip_accept takes a socket for the connection, or deletes it.
LEMMA AcceptAllocatesGood == ASSUME Good, AcceptAllocates, UNCHANGED program PROVE Good'
<1> DEFINE unused == {r \in Socks : ~InUse(r)}
           k == [NoSock EXCEPT !.conn = app.c, !.snd = 1]
<1>1. /\ UNCHANGED <<program, conn, sel, todo>> /\ app.pc = "acceptAlloc"
      /\ sock' = [sock EXCEPT ![FirstOf(unused)] = k]
      /\ app' = [app EXCEPT !.pc = "acceptJoin", !.s = FirstOf(unused)]
  BY DEF AcceptAllocates, At, Continues, AppUnchanged
<1>2. unused \in SUBSET Nat /\ unused # {}
  <2>1. unused # {}
    BY <1>1, SocketFree
  <2> QED
    BY <2>1 DEF Socks
<1>3. PICK s \in Socks : ~InUse(s) /\ s = FirstOf(unused)
  <2> HIDE DEF unused
  <2>1. FirstOf(unused) \in unused
    BY <1>2, FirstOfSome
  <2> QED
    BY <2>1 DEF unused
<1> HIDE DEF unused
<1>4. app.c \in Conns /\ app.fn = "peer" /\ AppShaped(app) /\ (\A n \in Conns : Joining(n) <=> n = app.c)
  BY <1>1 DEF Good, Types, Proceeds, Joining
<1>5. app'.pc = "acceptJoin" /\ app'.s = s /\ app'.c = app.c /\ app'.fn = "peer" /\ AppShaped(app')
  BY <1>1, <1>3, <1>4 DEF AppShaped
<1>6. /\ Proceeds(app') /\ (\A n \in Conns : Joining(n)' <=> n = app.c)
      /\ \A r \in Socks : Unknown(r)' => r = s
  BY <1>4, <1>5 DEF Proceeds, Joining, Unknown
<1>7. /\ SockShaped(k) /\ k.conn = app.c /\ k.waiting = 0
  <2>1. 0 \in Int /\ app.c \in 0 .. NumSockets
    BY <1>4 DEF Conns
  <2> QED
    BY <2>1 DEF NoSock, SockShaped
<1> HIDE DEF k
<1>8. /\ DOMAIN sock = Socks /\ \A r \in Socks : SockShaped(sock[r])
      /\ DOMAIN conn = Conns
  BY DEF Good, Types
<1>9. DOMAIN sock' = Socks /\ \A r \in Socks : sock'[r] = IF r = s THEN k ELSE sock[r]
  BY <1>1, <1>3, <1>8
<1>10. Unwatched(s)
  <2>1. \A t \in Watchers : sel[t].pc # "no" => InUse(sel[t].s)
    BY DEF Good, Watching
  <2> QED
    BY <1>3, <2>1 DEF Unwatched
<1>11. Types' /\ Netconns'
  BY <1>1, <1>5, <1>6, <1>7, <1>8, <1>9 DEF Good, Types, Netconns
<1>12. conn[app.c].type # "free" /\ conn[app.c].socket < 0
  BY <1>4 DEF Good, Owned, Called
<1>13. Held'
  <2> SUFFICES ASSUME NEW r \in Socks, sock'[r].conn # 0
               PROVE  /\ conn'[sock'[r].conn].type # "free"
                      /\ \/ conn'[sock'[r].conn].socket = r
                         \/ /\ app'.pc = "acceptJoin" /\ app'.s = r /\ app'.c = sock'[r].conn
                            /\ conn'[sock'[r].conn].socket < 0
    BY DEF Held, InUse, C
  <2>1. CASE r = s
    BY <1>1, <1>5, <1>7, <1>9, <1>12, <2>1
  <2>2. CASE r # s
    BY <1>1, <1>9, <2>2 DEF Good, Owned, Held, InUse, C
  <2> QED
    BY <2>1, <2>2
<1>14. Queued'
  <2>1. \A n \in Conns : Joining(n)' <=> Joining(n)
    BY <1>4, <1>6
  <2>2. \A c \in Conns : conn[c].abox \in Seq(Conns)
    BY DEF Good, Netconns, Sound
  <2>3. ASSUME NEW c \in Conns, NEW j \in DOMAIN conn'[c].abox
        PROVE  (LET m == conn[c].abox[j] IN conn[m].type # "free" /\ conn[m].socket < 0 /\ ~Joining(m))'
    <3>1. PICK m \in Conns : m = conn[c].abox[j]
      BY <1>1, <2>2, <2>3
    <3>2. conn[m].type # "free" /\ conn[m].socket < 0 /\ ~Joining(m)
      BY <1>1, <2>3, <3>1 DEF Good, Owned, Queued
    <3>3. conn'[m].type # "free" /\ conn'[m].socket < 0 /\ ~Joining(m)' /\ m = conn'[c].abox[j]
      BY <1>1, <2>1, <3>1, <3>2
    <3> QED
      BY <3>3 DEF Joining
  <2> QED
    BY <1>1, <2>3 DEF Good, Owned, Queued
<1>15. Called'
  <2>1. sock'[s].conn = app.c
    BY <1>7, <1>9
  <2> QED
    BY <1>1, <1>3, <1>5, <1>6, <1>12, <2>1 DEF Called
<1>16. Watching'
  <2>1. \A r \in Socks : \/ sock'[r].waiting = sock[r].waiting /\ (InUse(r) => InUse(r)')
                         \/ sock'[r].waiting = 0 /\ Unwatched(r)
    BY <1>7, <1>9, <1>10 DEF InUse
  <2>2. SelectsAwake'
    <3>1. \A t \in Watchers : sel[t].pc # "no" => sel[t].s \in Socks /\ sel[t].s # s
      BY <1>10 DEF Good, Types, Selecting, Unwatched
    <3> QED
      BY <1>1, <1>9, <3>1 DEF Good, Watching, SelectsAwake
  <2> QED
    BY <1>1, <1>6, <1>10, <2>1, <2>2, WatchingKept DEF Good
<1>17. Calls'
  BY <1>1, <1>5, CallsKept DEF Good
<1>18. ReadersWoken'
  BY <1>1, <1>4, <1>5, ReadersKept DEF Good
<1> QED
  BY <1>11, <1>13, <1>14, <1>15, <1>16, <1>17, <1>18 DEF Good, Owned

\* The netconn has its socket.
LEMMA AcceptJoinsGood == ASSUME Good, AcceptJoins, UNCHANGED program PROVE Good'
<1> DEFINE s == app.s
           i == app.c
           c == conn[i]
           n == sock[s].rcv - 1 - c.socket
           k == [sock[s] EXCEPT !.rcv = n]
           d == [c EXCEPT !.socket = s]
<1>1. /\ UNCHANGED <<program, sel, todo>> /\ app.pc = "acceptJoin" /\ app' = NoCall
      /\ sock' = [sock EXCEPT ![s].rcv = @ - 1 - conn[i].socket]
      /\ conn' = [conn EXCEPT ![i].socket = s]
  BY DEF AcceptJoins, At, Continues, AppUnchanged
<1>2. /\ i \in Conns /\ app.fn = "peer" /\ (\A m \in Conns : Joining(m) <=> m = i)
      /\ s \in Socks /\ sock[s].conn = i
  BY <1>1 DEF Good, Types, Proceeds, Joining, Owned, Called
<1>3. /\ DOMAIN sock = Socks /\ (\A r \in Socks : SockShaped(sock[r])) /\ DOMAIN conn = Conns
      /\ Sound(c) /\ c.ev = <<>> /\ s \in Int
  BY <1>2 DEF Good, Types, Netconns, Socks
<1>4. app'.pc = "idle" /\ app'.fn = "none" /\ AppShaped(app')
  BY <1>1 DEF NoCall, AppShaped
<1>5. Proceeds(app') /\ (\A m \in Conns : ~Joining(m)') /\ \A r \in Socks : ~Unknown(r)'
  BY <1>4 DEF Proceeds, Joining, Unknown
<1>6. SockShaped(k) /\ k.conn = sock[s].conn /\ k.waiting = sock[s].waiting
  <2>1. n \in Int /\ SockShaped(sock[s])
    BY <1>2, <1>3 DEF SockShaped, Sound
  <2> HIDE DEF n
  <2> QED
    BY <2>1 DEF SockShaped
<1>7. DOMAIN sock' = Socks /\ \A r \in Socks : sock'[r] = IF r = s THEN k ELSE sock[r]
  BY <1>1, <1>2, <1>3
<1>8. DOMAIN conn' = Conns /\ \A j \in Conns : conn'[j] = IF j = i THEN d ELSE conn[j]
  BY <1>1, <1>2, <1>3
<1>9. /\ Shaped(d) /\ d.ev = c.ev /\ d.id = c.id /\ d.type = c.type
      /\ d.state = c.state /\ d.err = c.err /\ d.rbox = c.rbox /\ d.rvalid = c.rvalid /\ d.abox = c.abox
      /\ d.nbConnect = c.nbConnect /\ d.recvTimeout = c.recvTimeout /\ d.pcb = c.pcb
      /\ d.avalid = c.avalid /\ d.cur = c.cur /\ d.socket = s
  BY <1>3 DEF Sound, Shaped
<1> HIDE DEF k, d
<1>10. (ShutdownRefused(d) <=> ShutdownRefused(c)) /\ (Open(d) <=> Open(c)) /\ (Busy(d) <=> Busy(c))
  BY <1>9 DEF ShutdownRefused, Fed, Busy, Open, Ended
<1>11. Sound(d)
  BY <1>3, <1>9, <1>10 DEF Sound
<1>12. Types'
  BY <1>1, <1>4, <1>5, <1>6, <1>7, <1>8 DEF Good, Types
<1>13. Netconns'
  BY <1>3, <1>8, <1>9, <1>11 DEF Good, Netconns
<1>14. c.type # "free" /\ c.socket < 0
  BY <1>2 DEF Good, Owned, Called
<1>15. Held'
  <2> SUFFICES ASSUME NEW r \in Socks, sock'[r].conn # 0
               PROVE  conn'[sock'[r].conn].type # "free" /\ conn'[sock'[r].conn].socket = r
    BY DEF Held, InUse, C
  <2>1. sock'[r].conn = sock[r].conn /\ sock[r].conn \in Conns
    BY <1>3, <1>6, <1>7, SocketsAssumption DEF SockShaped, Conns
  <2>2. CASE r = s
    BY <1>2, <1>8, <1>9, <1>14, <2>1, <2>2
  <2>3. CASE r # s
    <3>1. conn[sock[r].conn].type # "free" /\ conn[sock[r].conn].socket = r
      BY <2>1, <2>3 DEF Good, Owned, Held, InUse, C
    <3>2. r >= 0
      BY DEF Socks
    <3>3. sock[r].conn # i
      BY <1>3, <1>14, <3>1, <3>2 DEF Sound
    <3> QED
      BY <1>8, <2>1, <3>1, <3>3
  <2> QED
    BY <2>2, <2>3
<1>16. Queued'
  <2>1. \A j \in Conns : conn'[j].abox = conn[j].abox /\ conn[j].abox \in Seq(Conns)
    BY <1>8, <1>9 DEF Good, Netconns, Sound
  <2>2. ASSUME NEW j \in Conns, NEW p \in DOMAIN conn'[j].abox
        PROVE  (LET m == conn[j].abox[p] IN conn[m].type # "free" /\ conn[m].socket < 0 /\ ~Joining(m))'
    <3>1. PICK m \in Conns : m = conn[j].abox[p]
      BY <2>1, <2>2
    <3>2. conn[m].type # "free" /\ conn[m].socket < 0 /\ ~Joining(m)
      BY <2>1, <2>2, <3>1 DEF Good, Owned, Queued
    <3>3. conn'[m].type # "free" /\ conn'[m].socket < 0 /\ ~Joining(m)' /\ m = conn'[j].abox[p]
      BY <1>2, <1>5, <1>8, <2>1, <3>1, <3>2
    <3> QED
      BY <3>3 DEF Joining
  <2> QED
    BY <2>1, <2>2 DEF Good, Owned, Queued
<1>17. Called'
  BY <1>4, <1>5 DEF Called
<1>18. Watching'
  <2>1. Unwatched(s)
    BY <1>1 DEF Good, Watching, Unwatched, Unknown
  <2>2. \A r \in Socks : sock'[r].waiting = sock[r].waiting /\ (InUse(r) => InUse(r)')
    BY <1>6, <1>7 DEF InUse
  <2>3. SelectsAwake'
    <3>1. \A t \in Watchers : sel[t].pc # "no" => sel[t].s \in Socks /\ sel[t].s # s
      BY <2>1 DEF Good, Types, Selecting, Unwatched
    <3> QED
      BY <1>1, <1>7, <3>1 DEF Good, Watching, SelectsAwake
  <2> QED
    BY <1>1, <1>5, <2>2, <2>3, WatchingKept DEF Good
<1>19. Calls'
  <2>1. \A j \in Conns : Busy(conn'[j]) => Busy(conn[j])
    BY <1>8, <1>10
  <2> QED
    BY <1>1, <1>4, <2>1, CallsKept DEF Good
<1>20. ReadersWoken'
  <2>1. \A j \in Conns : conn'[j].rvalid = conn[j].rvalid /\ conn'[j].err = conn[j].err /\ (Open(conn'[j]) <=> Open(conn[j]))
    BY <1>8, <1>9, <1>10
  <2> QED
    BY <1>2, <1>4, <2>1, ReadersKept DEF Good
<1> QED
  BY <1>12, <1>13, <1>15, <1>16, <1>17, <1>18, <1>19, <1>20 DEF Good, Owned

\* A socket opened has the only netconn that has one.
LEMMA SocketGood ==
  ASSUME Good, UNCHANGED program, NEW s \in Socks, NEW type \in {"tcp", "udp"}, Socket(s, type) PROVE Good'
<1> DEFINE i == CHOOSE j \in FreeConns : TRUE
           d == [Netconn(i, type) EXCEPT !.socket = s]
           w == IF type = "tcp" THEN 0 ELSE 1
           k == [NoSock EXCEPT !.conn = i, !.snd = w]
<1>1. /\ UNCHANGED <<program, sel, todo, app>> /\ app.pc = "idle" /\ (\A r \in Socks : ~InUse(r))
      /\ conn' = [conn EXCEPT ![i] = d] /\ sock' = [sock EXCEPT ![s] = k] /\ FreeConns # {}
  BY DEF Socket, Begins, AppUnchanged
<1>2. i \in Conns /\ conn[i].type = "free"
  <2>1. i \in FreeConns
    BY <1>1
  <2> QED
    BY <2>1 DEF FreeConns
<1> HIDE DEF i, w
<1>3. /\ DOMAIN sock = Socks /\ (\A r \in Socks : SockShaped(sock[r])) /\ DOMAIN conn = Conns
      /\ (\A j \in Conns : Sound(conn[j])) /\ s \in Int /\ app.fn = "none"
  BY <1>1 DEF Good, Types, Netconns, Socks, Proceeds
<1>4. DOMAIN sock' = Socks /\ \A r \in Socks : sock'[r] = IF r = s THEN k ELSE sock[r]
  BY <1>1, <1>3
<1>5. DOMAIN conn' = Conns /\ \A j \in Conns : conn'[j] = IF j = i THEN d ELSE conn[j]
  BY <1>1, <1>3
<1>6. /\ Shaped(d) /\ d.ev = <<>> /\ d.id = i /\ d.type = type /\ d.state = "none" /\ d.rbox = <<>>
      /\ d.abox = <<>> /\ ~d.avalid /\ ~d.nbConnect /\ d.socket = s
      /\ d.pcb.given = 0 /\ d.pcb.recv /\ ~d.pcb.fin /\ ~d.pcb.txShut
      /\ (type = "udp" \/ d.pcb.st = "closed") /\ d.pcb.st \in {"udp", "closed"}
  BY DEF Netconn, NewPcb, Shaped
<1>7. SockShaped(k) /\ k.conn = i /\ k.waiting = 0
  <2>1. 0 \in Int /\ i \in 0 .. NumSockets
    BY <1>2 DEF Conns
  <2> QED
    BY <2>1 DEF NoSock, SockShaped
<1> HIDE DEF k, d
<1>8. Sound(d) /\ ~Busy(d) /\ Open(d)
  BY <1>3, <1>6 DEF Sound, Busy, Open, Fed
<1>9. \A r \in Socks : Unwatched(r)
  BY <1>1 DEF Good, Watching, Unwatched
<1>10. Types'
  BY <1>1, <1>4, <1>5, <1>7, <1>3 DEF Good, Types
<1>11. Netconns'
  BY <1>5, <1>6, <1>8 DEF Good, Netconns
<1>12. (\A n \in Conns : ~Joining(n)') /\ \A r \in Socks : ~Unknown(r)'
  BY <1>1, <1>3 DEF Joining, Unknown
<1>13. Held'
  <2> SUFFICES ASSUME NEW r \in Socks, sock'[r].conn # 0
               PROVE  conn'[sock'[r].conn].type # "free" /\ conn'[sock'[r].conn].socket = r
    BY DEF Held, InUse, C
  <2>1. r = s
    BY <1>1, <1>4 DEF InUse
  <2> QED
    BY <1>2, <1>4, <1>5, <1>6, <1>7, <2>1
<1>14. Queued'
  <2>1. \A j \in Conns : conn[j].abox \in Seq(Conns) /\ (j # i => conn'[j].abox = conn[j].abox)
    BY <1>3, <1>5 DEF Sound
  <2>2. ASSUME NEW j \in Conns, NEW p \in DOMAIN conn'[j].abox PROVE j # i /\ p \in DOMAIN conn[j].abox
    BY <1>5, <1>6, <2>1, <2>2
  <2>3. ASSUME NEW j \in Conns, NEW p \in DOMAIN conn'[j].abox
        PROVE  (LET m == conn[j].abox[p] IN conn[m].type # "free" /\ conn[m].socket < 0 /\ ~Joining(m))'
    <3>1. PICK m \in Conns : m = conn[j].abox[p]
      BY <2>1, <2>2, <2>3
    <3>2. conn[m].type # "free" /\ conn[m].socket < 0
      BY <2>1, <2>2, <2>3, <3>1 DEF Good, Owned, Queued
    <3>3. conn'[m].type # "free" /\ conn'[m].socket < 0 /\ ~Joining(m)' /\ m = conn'[j].abox[p]
      BY <1>2, <1>5, <1>12, <2>1, <2>2, <2>3, <3>1, <3>2
    <3> QED
      BY <3>3 DEF Joining
  <2> QED
    BY <2>1, <2>2, <2>3 DEF Good, Owned, Queued
<1>15. Called'
  BY <1>1, <1>12 DEF Called
<1>16. Watching'
  <2>1. \A r \in Socks : \/ sock'[r].waiting = sock[r].waiting /\ (InUse(r) => InUse(r)')
                         \/ sock'[r].waiting = 0 /\ Unwatched(r)
    BY <1>4, <1>7, <1>9 DEF InUse
  <2>2. SelectsAwake'
    <3>1. \A t \in Watchers : sel[t].pc = "no"
      BY <1>9 DEF Good, Types, Selecting, Unwatched
    <3> QED
      BY <1>1, <3>1 DEF SelectsAwake
  <2> QED
    BY <1>1, <1>12, <2>1, <2>2, WatchingKept DEF Good
<1>17. Calls'
  <2>1. \A j \in Conns : Busy(conn'[j]) => Busy(conn[j])
    BY <1>5, <1>8
  <2> QED
    BY <1>1, <2>1, CallsKept DEF Good
<1>18. ReadersWoken'
  BY <1>1, <1>3, <1>5, <1>8 DEF Good, ReadersWoken
<1> QED
  BY <1>10, <1>11, <1>13, <1>14, <1>15, <1>16, <1>17, <1>18 DEF Good, Owned

\* netconn_free, and the socket's entry is free.
LEMMA Deletes ==
  ASSUME Good, UNCHANGED <<program, sel, todo>>, app.pc = "back", app.fn = "delete",
         conn' = [conn EXCEPT ![app.c] = Free],
         sock' = [s \in Socks |-> IF s = app.s THEN NoSock ELSE sock[s]], app' = NoCall
  PROVE  Good'
<1> DEFINE i == app.c
<1>1. i \in Conns
  BY DEF Good, Types, Proceeds
<1>2. app'.pc = "idle" /\ app'.fn = "none" /\ AppShaped(app')
  BY DEF NoCall, AppShaped
<1>3. Proceeds(app') /\ (\A n \in Conns : ~Joining(n)') /\ \A r \in Socks : ~Unknown(r)'
  BY <1>2 DEF Proceeds, Joining, Unknown
<1>4. /\ (\A r \in Socks : SockShaped(sock[r])) /\ DOMAIN conn = Conns
      /\ (\A j \in Conns : Sound(conn[j]))
  BY DEF Good, Types, Netconns
<1>5. DOMAIN conn' = Conns /\ \A j \in Conns : conn'[j] = IF j = i THEN Free ELSE conn[j]
  BY <1>1, <1>4
<1>6. DOMAIN sock' = Socks /\ \A r \in Socks : sock'[r] = IF r = app.s THEN NoSock ELSE sock[r]
  OBVIOUS
<1>7. /\ Shaped(Free) /\ Free.type = "free" /\ Free.state = "none" /\ Free.pcb.st = "none"
      /\ ~Free.rvalid /\ ~Free.avalid /\ Free.abox = <<>> /\ Free.rbox = <<>> /\ Free.socket = -1
      /\ ~Free.nbConnect /\ ~Free.pcb.fin /\ Free.pcb.recv /\ Free.ev = <<>> /\ Free.pcb.given = 0
  BY DEF Free, Netconn, NoPcb, NewPcb, Shaped
<1>8. Sound(Free) /\ ~Busy(Free)
  BY <1>7 DEF Sound, Busy
<1>9. SockShaped(NoSock) /\ NoSock.conn = 0 /\ NoSock.waiting = 0
  BY SocketsAssumption DEF NoSock, SockShaped
<1>10. Types'
  BY <1>2, <1>3, <1>5, <1>6, <1>9 DEF Good, Types
<1>11. Netconns'
  BY <1>5, <1>7, <1>8 DEF Good, Netconns
<1>12. /\ Joining(i) => conn[i].socket < 0
       /\ ~Joining(i) => app.s \in Socks /\ sock[app.s].conn = i
  BY <1>1 DEF Good, Owned, Called
<1>13. \A r \in Socks : sock[r].conn # 0 =>
         sock[r].conn \in Conns /\ conn[sock[r].conn].type # "free" /\ conn[sock[r].conn].socket = r
  <2>1. \A r \in Socks : sock[r].conn # 0 => sock[r].conn \in Conns
    BY <1>4, SocketsAssumption DEF SockShaped, Conns
  <2> QED
    BY <2>1 DEF Good, Owned, Held, InUse, C
<1>14. i # 0 /\ conn[i].socket \in Int
  BY <1>1, <1>4 DEF Sound, Conns
<1>15. ~Joining(i) => conn[i].socket = app.s /\ app.s >= 0
  BY <1>12, <1>13, <1>14 DEF Socks
<1>16. \A r \in Socks : r # app.s => sock[r].conn # i
  <2>1. ASSUME NEW r \in Socks, sock[r].conn = i PROVE r = app.s
    <3>1. conn[i].socket = r /\ r >= 0
      BY <1>13, <1>14, <2>1 DEF Socks
    <3> QED
      BY <1>12, <1>14, <1>15, <3>1
  <2> QED
    BY <2>1
<1>17. Held'
  <2> SUFFICES ASSUME NEW r \in Socks, sock'[r].conn # 0
               PROVE  conn'[sock'[r].conn].type # "free" /\ conn'[sock'[r].conn].socket = r
    BY DEF Held, InUse, C
  <2>1. r # app.s /\ sock'[r] = sock[r]
    BY <1>6, <1>9
  <2> QED
    BY <1>5, <1>13, <1>16, <2>1
<1>18. Queued'
  <2>1. \A j \in Conns : conn[j].abox \in Seq(Conns) /\ (j # i => conn'[j].abox = conn[j].abox)
    BY <1>4, <1>5 DEF Sound
  <2>2. ASSUME NEW j \in Conns, NEW p \in DOMAIN conn'[j].abox PROVE j # i /\ p \in DOMAIN conn[j].abox
    BY <1>5, <1>7, <2>1, <2>2
  <2>3. ASSUME NEW j \in Conns, NEW p \in DOMAIN conn'[j].abox
        PROVE  (LET m == conn[j].abox[p] IN conn[m].type # "free" /\ conn[m].socket < 0 /\ ~Joining(m))'
    <3>1. PICK m \in Conns : m = conn[j].abox[p]
      BY <2>1, <2>2, <2>3
    <3>2. conn[m].type # "free" /\ conn[m].socket < 0 /\ ~Joining(m)
      BY <2>1, <2>2, <2>3, <3>1 DEF Good, Owned, Queued
    <3>4. m # i
      BY <1>14, <1>15, <3>2
    <3>3. conn'[m].type # "free" /\ conn'[m].socket < 0 /\ ~Joining(m)' /\ m = conn'[j].abox[p]
      BY <1>3, <1>5, <2>1, <2>2, <2>3, <3>1, <3>2, <3>4
    <3> QED
      BY <3>3 DEF Joining
  <2> QED
    BY <2>1, <2>2, <2>3 DEF Good, Owned, Queued
<1>19. Called'
  BY <1>2, <1>3 DEF Called
<1>20. Watching'
  <2>1. app.s \in Socks => Unwatched(app.s)
    BY DEF Good, Watching, Unwatched, Unknown
  <2>2. \A r \in Socks : \/ sock'[r].waiting = sock[r].waiting /\ (InUse(r) => InUse(r)')
                         \/ sock'[r].waiting = 0 /\ Unwatched(r)
    BY <1>6, <1>9, <2>1 DEF InUse
  <2>3. SelectsAwake'
    <3>1. \A t \in Watchers : sel[t].pc # "no" => sel[t].s \in Socks /\ sel[t].s # app.s
      BY <2>1 DEF Good, Types, Selecting, Unwatched
    <3> QED
      BY <1>6, <3>1 DEF Good, Watching, SelectsAwake
  <2> QED
    BY <1>3, <2>2, <2>3, WatchingKept DEF Good
<1>21. Calls'
  <2>1. \A j \in Conns : Busy(conn'[j]) => Busy(conn[j])
    BY <1>5, <1>8
  <2> QED
    BY <1>2, <2>1, CallsKept DEF Good
<1>22. ReadersWoken'
  BY <1>2, <1>5, <1>7 DEF Good, ReadersWoken
<1> QED
  BY <1>10, <1>11, <1>17, <1>18, <1>19, <1>20, <1>21, <1>22 DEF Good, Owned

\* tcpip_apimsg returns.
LEMMA ReturnsGood == ASSUME Good, Returns, UNCHANGED program PROVE Good'
<1> DEFINE told == conn' = [conn EXCEPT ![app.c] = SafeErr(@, app.err)]
           minus == [app EXCEPT !.pc = "minus"]
           alloc == [app EXCEPT !.pc = "acceptAlloc"]
           delete == [app EXCEPT !.pc = "api", !.fn = "delete", !.s = NumSockets]
           freed == [s \in Socks |-> IF s = app.s THEN NoSock ELSE sock[s]]
<1>1. /\ UNCHANGED <<program, sel, todo>> /\ app.pc = "back"
      /\ \/ app.fn \in {"connect", "listen", "write", "send", "close"} /\ told /\ app' = NoCall /\ UNCHANGED sock
         \/ app.fn \in {"recved", "option"} /\ app' = NoCall /\ UNCHANGED <<conn, sock>>
         \/ app.fn = "eof" /\ app' = minus /\ UNCHANGED <<conn, sock>>
         \/ app.fn = "peer" /\ told /\ (app' = alloc \/ app' = delete) /\ UNCHANGED sock
         \/ app.fn = "delete" /\ conn' = [conn EXCEPT ![app.c] = Free] /\ sock' = freed /\ app' = NoCall
  <2>1. app.fn \in Fns /\ app.pc = "back"
    BY DEF Good, Types, Proceeds, Returns, At
  <2> HIDE DEF minus, alloc, delete, freed, told
  <2> QED
    BY <2>1 DEF Returns, At, Continues, AppUnchanged, Fns, minus, alloc, delete, freed, told
<1>2. app.c \in Conns /\ AppShaped(app)
  BY <1>1 DEF Good, Types, Proceeds
<1>3. app.fn \notin {"peer", "delete"} =>
        (\A n \in Conns : ~Joining(n)) /\ app.s \in Socks /\ sock[app.s].conn = app.c
  <2>1. app.fn \notin {"peer", "delete"} => \A n \in Conns : ~Joining(n)
    BY <1>1 DEF Joining
  <2> QED
    BY <1>1, <1>2, <2>1 DEF Good, Owned, Called
<1>4. CASE app.fn \in {"connect", "listen", "write", "send", "close"} /\ told /\ app' = NoCall /\ UNCHANGED sock
  <2>1. Leaves(app, app')
    BY <1>4 DEF Leaves
  <2>2. /\ app'.pc \in {"idle", "api"} /\ AppShaped(app') /\ Proceeds(app')
        /\ \A n \in Conns : ~Joining(n)'
        /\ app'.pc # "idle" => app'.s = app.s /\ app'.c = app.c
        /\ \A r \in Socks : ~Unknown(r)'
    BY <1>1, <1>3, <1>4, <2>1, Ending
  <2> QED
    BY <1>1, <1>2, <1>3, <1>4, <2>2, Reports
<1>5. CASE app.fn \in {"recved", "option"} /\ app' = NoCall /\ UNCHANGED <<conn, sock>>
  <2>1. Leaves(app, app')
    BY <1>5 DEF Leaves
  <2>2. /\ app'.pc \in {"idle", "api"} /\ AppShaped(app') /\ Proceeds(app')
        /\ \A n \in Conns : ~Joining(n)'
        /\ app'.pc # "idle" => app'.s = app.s /\ app'.c = app.c
        /\ \A r \in Socks : ~Unknown(r)'
    BY <1>1, <1>3, <1>5, <2>1, Ending
  <2> QED
    BY <1>1, <1>2, <1>3, <1>5, <2>2, AppOnly
<1>6. CASE app.fn = "eof" /\ app' = minus /\ UNCHANGED <<conn, sock>>
  <2>1. app'.pc = "minus" /\ app'.fn = "eof" /\ app'.s = app.s /\ app'.c = app.c /\ AppShaped(app')
    BY <1>2, <1>6 DEF AppShaped
  <2>2. Proceeds(app') /\ (\A n \in Conns : ~Joining(n)') /\ \A r \in Socks : ~Unknown(r)'
    BY <1>2, <2>1 DEF Proceeds, Joining, Unknown
  <2> QED
    BY <1>1, <1>3, <1>6, <2>1, <2>2, AppOnly
<1>7. CASE app.fn = "peer" /\ told /\ (app' = alloc \/ app' = delete) /\ UNCHANGED sock
  <2>1. NumSockets \notin Socks
    BY SocketsAssumption DEF Socks
  <2>2. /\ AppShaped(app') /\ app'.c = app.c
        /\ \/ app'.pc = "acceptAlloc" /\ app'.fn = "peer"
           \/ app'.pc = "api" /\ app'.fn = "delete" /\ app'.s = NumSockets
    BY <1>2, <1>7 DEF AppShaped
  <2>3. /\ Proceeds(app') /\ (\A n \in Conns : Joining(n)' => Joining(n)) /\ Joining(app.c)'
        /\ \A r \in Socks : ~Unknown(r)'
    BY <1>2, <1>7, <2>1, <2>2 DEF Proceeds, Joining, Unknown, Fns
  <2> QED
    BY <1>1, <1>2, <1>7, <2>2, <2>3, Reports
<1>8. CASE app.fn = "delete" /\ conn' = [conn EXCEPT ![app.c] = Free] /\ sock' = freed /\ app' = NoCall
  BY <1>1, <1>8, Deletes
<1> QED
  BY <1>1, <1>4, <1>5, <1>6, <1>7, <1>8

\* All of the application's steps.
LEMMA AppStepsGood ==
  ASSUME Good, UNCHANGED program, AppSteps \/ \E s \in Socks : Works(s)
  PROVE  Good'
<1>1. CASE AppSteps
  BY <1>1, RecvLoopGood, RecvFetchGood, RecvMinusGood, RecvClosedGood, RecvCopyGood, AcceptFetchGood,
     AcceptMinusGood, AcceptAllocatesGood, AcceptJoinsGood, ReturnsGood DEF AppSteps
<1>2. ASSUME NEW s \in Socks, Works(s) PROVE Good'
  <2>1. ASSUME NEW type \in program.types, Socket(s, type) PROVE Good'
    <3>1. type \in {"tcp", "udp"}
      BY SocketsAssumption DEF Good, Types
    <3> QED
      BY <2>1, <3>1, SocketGood
  <2>2. ASSUME \/ Connect(s) \/ Listen(s) \/ Close(s)
               \/ \E how : Shutdown(s, how)
               \/ \E o : Option(s, o)
               \/ \E len, dont : Send(s, len, dont)
        PROVE  Good'
    BY <2>2, MessagesGood
  <2>3. ASSUME NEW len, NEW dont, NEW peek, Recv(s, len, dont, peek) PROVE Good'
    BY <2>3, RecvGood
  <2>4. ASSUME NEW how, Shutdown(s, how) PROVE Good'
    BY <2>2, <2>4
  <2>5. ASSUME NEW o, Option(s, o) PROVE Good'
    BY <2>2, <2>5
  <2>6. ASSUME NEW len, NEW dont, Send(s, len, dont) PROVE Good'
    BY <2>2, <2>6
  <2> QED
    BY <1>2, <2>1, <2>2, <2>3, <2>4, <2>5, <2>6, SetNonblockingGood, AcceptGood DEF Works
<1> QED
  BY <1>1, <1>2

-----------------------------------------------------------------------------
(* The tcpip thread and the stack.                                         *)

\* The rest of what there is to do.
LEMMA TodoPopped ==
  ASSUME Good, todo # <<>>, todo' = Tail(todo)
  PROVE  /\ todo' \in Seq(Conns \X Whats) /\ Head(todo)[1] \in Conns /\ Head(todo)[2] \in Whats
         /\ \A k \in DOMAIN todo : todo[k] = Head(todo) \/ \E j \in DOMAIN todo' : todo'[j] = todo[k]
         /\ \A j, k \in Signals' : j = k
         /\ Head(todo)[2].op # "signal" => (Signals' = {} <=> Signals = {})
         /\ Head(todo)[2].op = "signal" => Signals' = {} /\ Signals # {}
<1> DEFINE S == Conns \X Whats
<1>1. todo \in Seq(S)
  BY DEF Good, Types
<1> HIDE DEF S
<1>2. /\ Tail(todo) \in Seq(S) /\ Head(todo) \in S
      /\ \A k \in DOMAIN Tail(todo) : k + 1 \in DOMAIN todo /\ Tail(todo)[k] = todo[k + 1] /\ k + 1 # 1
      /\ \A k \in DOMAIN todo : k = 1 \/ (k - 1 \in DOMAIN Tail(todo) /\ Tail(todo)[k - 1] = todo[k])
      /\ 1 \in DOMAIN todo /\ Head(todo) = todo[1] /\ DOMAIN todo \subseteq Int
  BY <1>1, Popped
<1>3. DOMAIN Tail(todo) \subseteq Int
  BY <1>2
<1>4. \A k \in Signals' : k + 1 \in Signals /\ k + 1 # 1 /\ k \in Int
  BY <1>2, <1>3 DEF Signals
<1>5. \A k \in Signals : k = 1 \/ k - 1 \in Signals'
  BY <1>2 DEF Signals
<1>6. 1 \in Signals <=> Head(todo)[2].op = "signal"
  BY <1>2 DEF Signals
<1>7. \A j, k \in Signals : j = k
  BY DEF Good, Calls
<1>8. \A j, k \in Signals' : j = k
  BY <1>4, <1>7
<1>9. Head(todo)[2].op # "signal" => (Signals' = {} <=> Signals = {})
  BY <1>4, <1>5, <1>6
<1>10. Head(todo)[2].op = "signal" => Signals' = {} /\ Signals # {}
  BY <1>4, <1>6, <1>7
<1>11. Head(todo)[1] \in Conns /\ Head(todo)[2] \in Whats
  BY <1>2 DEF S
<1>12. \A k \in DOMAIN todo : todo[k] = Head(todo) \/ \E j \in DOMAIN todo' : todo'[j] = todo[k]
  BY <1>2
<1> QED
  BY <1>2, <1>8, <1>9, <1>10, <1>11, <1>12 DEF S

\* Callbacks and posts: the call is where it was.
LEMMA ThreadKeeps ==
  ASSUME Good, todo # <<>>, todo' = Tail(todo), Head(todo)[2].op # "signal", UNCHANGED <<program, app>>,
         SocksAlike, SelsAlike, SelectsAwake', DOMAIN conn' = Conns, Netconns', ReadersWoken',
         \A c \in Conns : /\ conn'[c].type = "free" <=> conn[c].type = "free"
                          /\ conn'[c].abox \in {conn[c].abox, <<>>}
                          /\ \/ conn'[c].socket = conn[c].socket
                             \/ conn'[c].socket < 0 /\ conn[c].socket < 0
                          /\ Busy(conn'[c]) <=> Busy(conn[c])
  PROVE  Good'
<1>1. /\ \A n \in Conns : Joining(n)' => Joining(n)
      /\ \A r \in Socks : Unknown(r)' => Unknown(r)
  BY DEF Joining, Unknown
<1>2. (app.pc # "idle" /\ ~Joining(app.c) => app.s \in Socks /\ sock[app.s].conn = app.c)'
  <2>1. Joining(app.c)' <=> Joining(app.c)
    BY DEF Joining
  <2> QED
    BY <2>1 DEF Good, Owned, Called, SocksAlike
<1>3. Types'
  BY TodoPopped DEF Good, Types, SocksAlike, SelsAlike
<1>4. Owned'
  BY <1>1, <1>2, OwnedKept DEF Good, SocksAlike
<1>5. Watching'
  BY <1>1, WatchingKept DEF Good, SocksAlike, SelsAlike, InUse
<1>6. app.c \in Conns \/ app.pc = "idle"
  BY DEF Good, Types, Proceeds
<1>7. Calls'
  <2>1. (\A j, k \in Signals' : j = k) /\ (Signals' = {} <=> Signals = {})
    BY TodoPopped
  <2> QED
    BY <1>6, <2>1 DEF Good, Calls
<1> QED
  BY <1>3, <1>4, <1>5, <1>7 DEF Good

\* A mailbox with a NULL posted is not empty.
LEMMA NullPosted ==
  ASSUME NEW c, Sound(c), NEW d,
         d = [c EXCEPT !.rbox = IF Len(c.rbox) = RecvMboxSize THEN c.rbox ELSE Append(c.rbox, EOF)]
  PROVE  /\ Sound(d) /\ d.ev = c.ev /\ d.id = c.id /\ d.type = c.type /\ d.abox = c.abox /\ d.socket = c.socket
         /\ d.rvalid = c.rvalid /\ d.err = c.err /\ (Busy(d) <=> Busy(c)) /\ Awake(d) /\ (Open(c) => Open(d))
<1> DEFINE more == Append(c.rbox, EOF)
           box == IF Len(c.rbox) = RecvMboxSize THEN c.rbox ELSE more
<1>1. EOF \in Packets /\ c.rbox \in Seq(Packets)
  BY DEF EOF, Packets, Sound
<1>2. more \in Seq(Packets) /\ more # <<>> /\ (Ended(c) => \E k \in DOMAIN more : more[k] = EOF)
  BY <1>1, BoxGrows DEF Ended
<1>3. Len(c.rbox) = RecvMboxSize => c.rbox # <<>>
  BY <1>1, SocketsAssumption
<1> HIDE DEF more
<1>4. box \in Seq(Packets) /\ box # <<>> /\ (Ended(c) => \E k \in DOMAIN box : box[k] = EOF)
  BY <1>1, <1>2, <1>3 DEF Ended
<1>5. d = [c EXCEPT !.rbox = box]
  BY DEF more
<1> HIDE DEF box
<1>6. /\ Shaped(d) /\ d.ev = c.ev /\ d.id = c.id /\ d.type = c.type
      /\ d.state = c.state /\ d.err = c.err /\ d.rbox = box /\ d.rvalid = c.rvalid /\ d.abox = c.abox
      /\ d.nbConnect = c.nbConnect /\ d.recvTimeout = c.recvTimeout /\ d.pcb = c.pcb
      /\ d.avalid = c.avalid /\ d.cur = c.cur /\ d.socket = c.socket
  BY <1>5 DEF Sound, Shaped
<1>7. /\ (ShutdownRefused(d) <=> ShutdownRefused(c)) /\ (Fed(d) <=> Fed(c)) /\ (Busy(d) <=> Busy(c))
      /\ Ended(c) => Ended(d)
  BY <1>4, <1>6 DEF ShutdownRefused, Fed, Busy, Ended
<1>8. Sound(d)
  BY <1>4, <1>6, <1>7 DEF Sound
<1> QED
  BY <1>4, <1>6, <1>7, <1>8 DEF Awake, Open

\* The tcpip thread goes on with what it owes for the last message.
LEMMA TcpipContinuesGood == ASSUME Good, TcpipContinues, UNCHANGED program PROVE Good'
<1> DEFINE id == Head(todo)[1]
           what == Head(todo)[2]
<1>1. /\ todo # <<>> /\ todo' = Tail(todo)
      /\ what.op = "event" => EventCallback(id, what.evt) /\ UNCHANGED app
      /\ what.op = "postRecv" =>
           /\ conn' = [conn EXCEPT ![id].rbox = IF Len(@) = RecvMboxSize THEN @ ELSE Append(@, EOF)]
           /\ UNCHANGED <<sock, sel, app>>
      /\ what.op = "signal" => app' = [app EXCEPT !.pc = "back", !.err = what.err] /\ UNCHANGED <<conn, sock, sel>>
  BY DEF TcpipContinues
<1>2. /\ id \in Conns /\ what \in Whats /\ todo' \in Seq(Conns \X Whats)
      /\ \A k \in DOMAIN todo : todo[k] = Head(todo) \/ \E j \in DOMAIN todo' : todo'[j] = todo[k]
  BY <1>1, TodoPopped
<1>3. /\ what.op \in {"event", "postRecv", "signal"}
      /\ what.op = "event" => what.evt \in Evts
  BY <1>2 DEF Whats
<1>4. CASE what.op = "event"
  <2>1. AllAlike /\ SocksAlike /\ SelsAlike /\ SelectsAwake'
    BY <1>1, <1>2, <1>3, <1>4, EventAlike DEF Good, CountedEvts
  <2>2. DOMAIN conn' = Conns /\ Netconns'
    BY <2>1, AlikeNetconns DEF Good, AllAlike
  <2>3. \A i \in Conns : /\ (Busy(conn'[i]) <=> Busy(conn[i])) /\ (Open(conn'[i]) <=> Open(conn[i]))
                         /\ (Awake(conn'[i]) <=> Awake(conn[i]))
    BY <2>1, AlikeBoth DEF AllAlike
  <2>4. \A i \in Conns : conn'[i].rvalid = conn[i].rvalid /\ conn'[i].err = conn[i].err
    BY <2>1 DEF AllAlike, Alike
  <2>5. app' = app /\ (app.pc = "fetch" => app.c \in Conns)
    BY <1>1, <1>4 DEF Good, Types, Proceeds
  <2>6. app.pc = "fetch" /\ ~Awake(conn[app.c]) =>
          \E k \in DOMAIN todo' : todo'[k][1] = app.c /\ todo'[k][2].op = "postRecv"
    BY <1>2, <1>4 DEF Good, ReadersWoken
  <2>7. ReadersWoken'
    BY <2>3, <2>4, <2>5, <2>6 DEF Good, ReadersWoken
  <2> QED
    BY <1>1, <1>4, <2>1, <2>2, <2>3, <2>5, <2>7, ThreadKeeps DEF AllAlike, Alike
<1>5. CASE what.op = "postRecv"
  <2> DEFINE c == conn[id]
             d == [c EXCEPT !.rbox = IF Len(c.rbox) = RecvMboxSize THEN c.rbox ELSE Append(c.rbox, EOF)]
  <2>1. conn' = [conn EXCEPT ![id] = d] /\ UNCHANGED <<sock, sel, app>>
    BY <1>1, <1>2, <1>5 DEF Good, Types
  <2>2. Sound(c) /\ c.ev = <<>>
    BY <1>2 DEF Good, Netconns
  <2>3. /\ Sound(d) /\ d.ev = c.ev /\ d.id = c.id /\ d.type = c.type /\ d.abox = c.abox /\ d.socket = c.socket
        /\ d.rvalid = c.rvalid /\ d.err = c.err /\ (Busy(d) <=> Busy(c)) /\ Awake(d) /\ (Open(c) => Open(d))
    BY <2>2, NullPosted
  <2> HIDE DEF d
  <2>4. DOMAIN conn' = Conns /\ \A i \in Conns : conn'[i] = IF i = id THEN d ELSE conn[i]
    BY <1>2, <2>1 DEF Good, Types
  <2>5. Netconns' /\ SocksAlike /\ SelsAlike /\ SelectsAwake'
    BY <2>1, <2>2, <2>3, <2>4
    DEF Good, Netconns, Types, Watching, SocksAlike, SelsAlike, SelectsAwake
  <2>6. ReadersWoken'
    <3>1. app.pc = "fetch" => app.c \in Conns
      BY DEF Good, Types, Proceeds
    <3>2. app.pc = "fetch" /\ app.c # id /\ ~Awake(conn[app.c]) =>
            \E k \in DOMAIN todo' : todo'[k][1] = app.c /\ todo'[k][2].op = "postRecv"
      BY <1>2 DEF Good, ReadersWoken
    <3> QED
      BY <2>1, <2>3, <2>4, <3>1, <3>2 DEF Good, ReadersWoken
  <2>7. \A i \in Conns : /\ conn'[i].type = conn[i].type /\ conn'[i].abox = conn[i].abox
                         /\ conn'[i].socket = conn[i].socket /\ (Busy(conn'[i]) <=> Busy(conn[i]))
    BY <2>3, <2>4
  <2> QED
    BY <1>1, <1>5, <2>1, <2>4, <2>5, <2>6, <2>7, ThreadKeeps
<1>6. CASE what.op = "signal"
  <2>1. app' = [app EXCEPT !.pc = "back", !.err = what.err] /\ UNCHANGED <<conn, sock, sel>>
    BY <1>1, <1>6
  <2>2. Signals' = {} /\ Signals # {}
    BY <1>1, <1>6, TodoPopped
  <2>3. app.pc = "wait" /\ AppShaped(app) /\ Proceeds(app)
    BY <2>2 DEF Good, Calls, Types
  <2>4. app'.pc = "back" /\ app'.fn = app.fn /\ app'.s = app.s /\ app'.c = app.c /\ app'.len = app.len /\ AppShaped(app')
    BY <2>1, <2>3 DEF AppShaped
  <2>5. /\ Proceeds(app') /\ (\A n \in Conns : Joining(n)' <=> Joining(n))
        /\ (Joining(app.c)' <=> Joining(app.c)) /\ \A r \in Socks : Unknown(r)' <=> Unknown(r)
    BY <2>3, <2>4 DEF Proceeds, Joining, Unknown
  <2>6. Types' /\ Netconns'
    BY <1>2, <2>1, <2>4, <2>5 DEF Good, Types, Netconns
  <2>7. Owned'
    BY <2>1, <2>3, <2>4, <2>5, OwnedKept DEF Good, Owned, Called
  <2>8. Watching'
    <3>1. SelsAlike /\ SocksAlike /\ SelectsAwake'
      BY <2>1 DEF Good, Types, Watching, SocksAlike, SelsAlike, SelectsAwake
    <3> QED
      BY <2>1, <2>5, <3>1, WatchingKept DEF Good, SocksAlike, SelsAlike, InUse
  <2>9. Calls'
    BY <2>1, <2>2, <2>4 DEF Good, Calls
  <2>10. ReadersWoken'
    BY <2>1, <2>4 DEF Good, ReadersWoken
  <2> QED
    BY <2>6, <2>7, <2>8, <2>9, <2>10 DEF Good
<1> QED
  BY <1>3, <1>4, <1>5, <1>6

\* What a netconn says becomes what there is to do.
LEMMA SaidToDo ==
  ASSUME NEW c \in Conns, NEW ev \in Seq({c} \X Whats), todo' = ev
  PROVE  /\ todo' \in Seq(Conns \X Whats)
         /\ Mute(ev) => Signals' = {}
         /\ Once(ev) => Signals' # {} /\ \A j, k \in Signals' : j = k
         /\ Posted(ev) => \E k \in DOMAIN todo' : todo'[k][1] = c /\ todo'[k][2].op = "postRecv"
<1>1. todo' \in Seq(Conns \X Whats) /\ \A k \in DOMAIN ev : ev[k] \in {c} \X Whats
  OBVIOUS
<1>2. \A k \in DOMAIN ev : ev[k][1] = c
  BY <1>1
<1>3. Once(ev) => Signals' # {} /\ \A j, k \in Signals' : j = k
  BY DEF Once, Signals
<1>4. Mute(ev) => Signals' = {}
  BY DEF Mute, Signals
<1>5. Posted(ev) => \E k \in DOMAIN todo' : todo'[k][1] = c /\ todo'[k][2].op = "postRecv"
  BY <1>2 DEF Posted
<1> QED
  BY <1>1, <1>3, <1>4, <1>5

\* Silent, so that it can be spoken to.
LEMMA Silent ==
  ASSUME Good, NEW c \in Conns, conn[c].type # "free"
  PROVE  Sound(conn[c]) /\ Spoken(conn[c]) /\ Mute(conn[c].ev) /\ conn[c].id = c /\ ~Posted(conn[c].ev)
<1>1. Sound(conn[c]) /\ conn[c].ev = <<>> /\ conn[c].id = c
  BY DEF Good, Netconns
<1> QED
  BY <1>1 DEF Spoken, Mute, Posted

\* What is said is taken out of the netconn.
LEMMA Unsaid ==
  ASSUME NEW d, Sound(d), NEW e, e = [d EXCEPT !.ev = <<>>]
  PROVE  /\ Sound(e) /\ e.ev = <<>> /\ e.id = d.id /\ e.type = d.type /\ e.abox = d.abox
         /\ e.socket = d.socket /\ e.rvalid = d.rvalid /\ e.err = d.err /\ e.avalid = d.avalid /\ e.fail = d.fail
         /\ (Busy(e) <=> Busy(d)) /\ (Open(e) <=> Open(d)) /\ (Awake(e) <=> Awake(d))
<1>1. Same(d, e) /\ e.ev = <<>> /\ e.fail = d.fail
  BY DEF Sound, Shaped, Same
<1>2. (ShutdownRefused(e) <=> ShutdownRefused(d)) /\ (Fed(e) <=> Fed(d)) /\ (Ended(e) <=> Ended(d))
  BY <1>1 DEF Same, ShutdownRefused, Fed, Ended
<1>3. Sound(e)
  BY <1>1, <1>2 DEF Same, Sound
<1> QED
  BY <1>1, <1>2, <1>3 DEF Same, Busy, Open, Awake

\* A callback of the stack.
LEMMA CallbackGood ==
  ASSUME Good, UNCHANGED program, NEW c \in Conns, conn[c].type # "free", Callback(c),
         NEW d, Back(conn[c], d), Becomes(d)
  PROVE  Good'
<1> DEFINE b == conn[c]
           e == [d EXCEPT !.ev = <<>>]
<1>1. Sound(b) /\ b.id = c /\ ~Posted(b.ev)
  BY Silent
<1>2. Sound(d) /\ d.id = c /\ d.ev \in Seq({c} \X Whats)
  BY <1>1 DEF Back, Kept, Spoken
<1>3. todo = <<>> /\ UNCHANGED <<sock, app, sel>> /\ todo' = d.ev /\ conn' = [conn EXCEPT ![c] = e]
  BY <1>2 DEF Callback, Becomes
<1>4. DOMAIN conn' = Conns /\ \A i \in Conns : conn'[i] = IF i = c THEN e ELSE conn[i]
  BY <1>3 DEF Good, Types
<1>5. /\ Sound(e) /\ e.ev = <<>> /\ e.id = d.id /\ e.type = d.type /\ e.abox = d.abox
      /\ e.socket = d.socket /\ e.rvalid = d.rvalid /\ e.err = d.err
      /\ (Busy(e) <=> Busy(d)) /\ (Open(e) <=> Open(d)) /\ (Awake(e) <=> Awake(d))
  BY <1>2, Unsaid
<1> HIDE DEF e
<1>6. Signals = {}
  BY <1>3 DEF Signals
<1>7. /\ todo' \in Seq(Conns \X Whats)
      /\ Mute(d.ev) => Signals' = {}
      /\ Once(d.ev) => Signals' # {} /\ \A j, k \in Signals' : j = k
      /\ Posted(d.ev) => \E k \in DOMAIN todo' : todo'[k][1] = c /\ todo'[k][2].op = "postRecv"
  BY <1>2, <1>3, SaidToDo
<1>8. Types' /\ Netconns'
  BY <1>1, <1>2, <1>3, <1>4, <1>5, <1>7 DEF Good, Types, Netconns
<1>9. /\ \A n \in Conns : Joining(n)' => Joining(n)
      /\ (Joining(app.c)' <=> Joining(app.c))
      /\ \A r \in Socks : Unknown(r)' => Unknown(r)
  BY <1>3 DEF Joining, Unknown
<1>10. Owned'
  <2>1. e.type = b.type /\ e.abox \in {b.abox, <<>>} /\ e.socket = b.socket
    BY <1>5 DEF Back, Kept
  <2>2. (app.pc # "idle" /\ ~Joining(app.c) => app.s \in Socks /\ sock[app.s].conn = app.c)'
    BY <1>3, <1>9 DEF Good, Owned, Called
  <2> QED
    BY <1>3, <1>4, <1>9, <2>1, <2>2, OwnedKept DEF Good
<1>11. Watching'
  <2>1. SelsAlike /\ SocksAlike /\ SelectsAwake'
    BY <1>3 DEF Good, Types, Watching, SocksAlike, SelsAlike, SelectsAwake
  <2> QED
    BY <1>3, <1>9, <2>1, WatchingKept DEF Good, SocksAlike, SelsAlike, InUse
<1>12. Calls'
  <2>1. CASE Busy(b)
    <3>1. app.pc = "wait" /\ app.c = c /\ \A i \in Conns : i # c => ~Busy(conn[i])
      BY <2>1 DEF Good, Calls
    <3>2. (Busy(e) /\ Mute(d.ev)) \/ (~Busy(e) /\ Once(d.ev))
      BY <1>5, <2>1 DEF Back, Answers
    <3>3. \A i \in Conns : i # c => ~Busy(conn'[i])
      BY <1>4, <3>1
    <3>4. conn'[c] = e
      BY <1>4
    <3>5. CASE Busy(e) /\ Mute(d.ev)
      BY <1>3, <1>7, <3>1, <3>3, <3>4, <3>5 DEF Calls
    <3>6. CASE ~Busy(e) /\ Once(d.ev)
      BY <1>3, <1>7, <3>1, <3>3, <3>4, <3>6 DEF Calls
    <3> QED
      BY <3>2, <3>5, <3>6
  <2>2. CASE ~Busy(b)
    <3>1. ~Busy(e) /\ Signals' = {}
      BY <1>5, <1>7, <2>2 DEF Back
    <3>2. \A i \in Conns : Busy(conn'[i]) <=> Busy(conn[i])
      BY <1>4, <2>2, <3>1
    <3>3. app.pc = "wait" => app.c \in Conns
      BY DEF Good, Types, Proceeds
    <3> QED
      BY <1>3, <1>6, <3>1, <3>2, <3>3 DEF Good, Calls
  <2> QED
    BY <2>1, <2>2
<1>13. ReadersWoken'
  <2>1. ASSUME NEW i \in Conns, conn'[i].rvalid, conn'[i].err \notin Fatal, ~(app'.fn = "eof" /\ app'.c = i)
        PROVE  Open(conn'[i])
    <3>1. CASE i # c
      BY <1>3, <1>4, <2>1, <3>1 DEF Good, ReadersWoken
    <3>2. CASE i = c
      <4>1. b.rvalid /\ b.err \notin Fatal /\ ~(app.fn = "eof" /\ app.c = c) /\ d.rvalid /\ d.err \notin Fatal
        BY <1>3, <1>4, <1>5, <2>1, <3>2 DEF Back, Kept
      <4>2. Open(b)
        BY <4>1 DEF Good, ReadersWoken
      <4> QED
        BY <1>4, <1>5, <3>2, <4>1, <4>2 DEF Back, Kept
    <3> QED
      BY <3>1, <3>2
  <2>2. ASSUME app.pc = "fetch"
        PROVE  /\ conn'[app.c].rvalid
               /\ \/ Awake(conn'[app.c])
                  \/ \E k \in DOMAIN todo' : todo'[k][1] = app.c /\ todo'[k][2].op = "postRecv"
    <3>1. conn[app.c].rvalid /\ Awake(conn[app.c]) /\ app.c \in Conns
      BY <1>3, <2>2 DEF Good, ReadersWoken, Types, Proceeds
    <3>2. ~Busy(b)
      BY <2>2 DEF Good, Calls
    <3>3. CASE app.c = c
      <4>1. e.rvalid /\ d.rvalid
        BY <1>5, <3>1, <3>2, <3>3 DEF Back
      <4>2. Awake(d) \/ Posted(d.ev)
        BY <3>1, <3>3, <4>1 DEF Back, Kept
      <4> QED
        BY <1>4, <1>5, <1>7, <3>3, <4>1, <4>2
    <3>4. CASE app.c # c
      BY <1>4, <3>1, <3>4
    <3> QED
      BY <3>3, <3>4
  <2> QED
    BY <1>3, <2>1, <2>2 DEF ReadersWoken
<1> QED
  BY <1>8, <1>10, <1>11, <1>12, <1>13 DEF Good

\* accept_function
LEMMA ArrivesGood ==
  ASSUME Good, UNCHANGED program, NEW c \in Conns, NEW n \in Conns, Arrives(c, n) PROVE Good'
<1> DEFINE b == conn[c]
           box == Append(b.abox, n)
           a == [b EXCEPT !.abox = box]
           d == AcceptFunction(b, n)
           e == [d EXCEPT !.ev = <<>>]
           new == Accepted(n)
<1>1. /\ todo = <<>> /\ UNCHANGED <<sock, app, sel>> /\ b.state = "listen" /\ conn[n].type = "free"
      /\ conn' = [conn EXCEPT ![c] = e, ![n] = new] /\ todo' = d.ev
  BY DEF Arrives, Callback
<1>2. (\A i \in Conns : Sound(conn[i])) /\ DOMAIN conn = Conns
  BY DEF Good, Netconns, Types
<1>3. c # n /\ b.type = "tcp" /\ b.avalid
  BY <1>1, <1>2 DEF Sound
<1>4. /\ Sound(b) /\ Spoken(b) /\ Mute(b.ev) /\ b.id = c /\ b.ev = <<>>
  BY <1>3, Silent DEF Good, Netconns
<1>5. /\ box \in Seq(Conns) /\ Len(box) = Len(b.abox) + 1 /\ b.abox \in Seq(Conns)
      /\ \A k \in DOMAIN box : (k \in DOMAIN b.abox /\ box[k] = b.abox[k]) \/ (k = Len(b.abox) + 1 /\ box[k] = n)
  <2>1. b.abox \in Seq(Conns)
    BY <1>4 DEF Sound
  <2> QED
    BY <2>1
<1> HIDE DEF box
<1>6. /\ Shaped(a) /\ a.ev = <<>> /\ a.id = c /\ a.type = b.type
      /\ a.state = b.state /\ a.err = b.err /\ a.rbox = b.rbox /\ a.rvalid = b.rvalid /\ a.abox = box
      /\ a.nbConnect = b.nbConnect /\ a.recvTimeout = b.recvTimeout /\ a.pcb = b.pcb
      /\ a.avalid = b.avalid /\ a.cur = b.cur /\ a.socket = b.socket
  BY <1>4 DEF Sound, Shaped
<1>7. d = Out(a, <<Event("RCVPLUS")>>)
  BY DEF AcceptFunction, box
<1> HIDE DEF a, d
<1>8. /\ (ShutdownRefused(a) <=> ShutdownRefused(b)) /\ (Open(a) <=> Open(b)) /\ (Awake(a) <=> Awake(b))
      /\ (Busy(a) <=> Busy(b))
  BY <1>6 DEF ShutdownRefused, Fed, Busy, Open, Ended, Awake
<1>9. Sound(a) /\ Spoken(a) /\ Mute(a.ev)
  BY <1>3, <1>4, <1>5, <1>6, <1>8 DEF Sound, Spoken, Mute
<1>10. Same(a, d) /\ Spoken(d) /\ Mute(d.ev)
  BY <1>7, <1>9, OutKeeps, QuietlyOne DEF Evts
<1>11. Sound(d) /\ d.id = c /\ d.ev \in Seq({c} \X Whats)
  <2>1. d.id = c /\ a.ev = <<>>
    BY <1>6, <1>10 DEF Same
  <2>2. ~Posted(a.ev)
    BY <2>1 DEF Posted
  <2>3. Sound(d)
    BY <1>9, <1>10, <2>2, SameSound
  <2> QED
    BY <1>10, <2>1, <2>3 DEF Spoken
<1>12. /\ Sound(e) /\ e.ev = <<>> /\ e.id = c /\ e.type = b.type /\ e.abox = box
       /\ e.socket = b.socket /\ e.rvalid = b.rvalid /\ e.err = b.err
       /\ (Busy(e) <=> Busy(b)) /\ (Open(e) <=> Open(b)) /\ (Awake(e) <=> Awake(b))
  <2>1. (Busy(d) <=> Busy(a)) /\ (Open(d) <=> Open(a)) /\ (Awake(d) <=> Awake(a))
    BY <1>10 DEF Same, Fed, Busy, Open, Ended, Awake
  <2> QED
    BY <1>6, <1>8, <1>10, <1>11, <2>1, Unsaid DEF Same
<1> HIDE DEF e
<1>13. /\ Shaped(new) /\ new.ev = <<>> /\ new.id = n /\ new.type = "tcp" /\ new.state = "none" /\ new.rbox = <<>>
       /\ new.abox = <<>> /\ ~new.avalid /\ ~new.nbConnect /\ new.socket = -1
       /\ new.pcb.given = 0 /\ new.pcb.recv /\ ~new.pcb.fin /\ new.pcb.st = "open"
  BY DEF Accepted, Netconn, NewPcb, Shaped
<1> HIDE DEF new
<1>14. Sound(new) /\ ~Busy(new) /\ Open(new)
  BY <1>13 DEF Sound, Busy, Open, Fed
<1>15. DOMAIN conn' = Conns /\ \A i \in Conns : conn'[i] = IF i = n THEN new ELSE IF i = c THEN e ELSE conn[i]
  BY <1>1, <1>2, <1>3
<1>16. /\ todo' \in Seq(Conns \X Whats) /\ Signals' = {}
  BY <1>1, <1>10, <1>11, SaidToDo
<1>17. Types' /\ Netconns'
  BY <1>1, <1>12, <1>13, <1>14, <1>15, <1>16 DEF Good, Types, Netconns
<1>18. /\ \A i \in Conns : Joining(i)' <=> Joining(i)
       /\ (Joining(app.c)' <=> Joining(app.c))
       /\ \A r \in Socks : Unknown(r)' => Unknown(r)
  BY <1>1 DEF Joining, Unknown
<1>19. ~Joining(n)
  BY <1>1 DEF Good, Owned, Called
<1>20. \A i \in Conns : i # n => conn'[i].type = conn[i].type /\ conn'[i].socket = conn[i].socket
  BY <1>12, <1>15
<1>21. Held'
  <2> SUFFICES ASSUME NEW r \in Socks, sock'[r].conn # 0
               PROVE  /\ conn'[sock'[r].conn].type # "free"
                      /\ \/ conn'[sock'[r].conn].socket = r
                         \/ /\ app'.pc = "acceptJoin" /\ app'.s = r /\ app'.c = sock'[r].conn
                            /\ conn'[sock'[r].conn].socket < 0
    BY DEF Held, InUse, C
  <2>1. sock[r].conn \in Conns /\ sock'[r].conn = sock[r].conn
    BY <1>1, SocketsAssumption DEF Good, Types, SockShaped, Conns
  <2>2. /\ conn[sock[r].conn].type # "free"
        /\ \/ conn[sock[r].conn].socket = r
           \/ app.pc = "acceptJoin" /\ app.s = r /\ app.c = sock[r].conn /\ conn[sock[r].conn].socket < 0
    BY <2>1 DEF Good, Owned, Held, InUse, C
  <2>3. sock[r].conn # n
    BY <1>1, <2>2
  <2> QED
    BY <1>1, <1>20, <2>1, <2>2, <2>3
<1>22. ASSUME NEW i \in Conns, NEW k \in DOMAIN conn'[i].abox
       PROVE  \/ /\ k \in DOMAIN conn[i].abox /\ conn'[i].abox[k] = conn[i].abox[k]
                 /\ conn[i].abox[k] # n /\ conn[i].abox[k] \in Conns
              \/ i = c /\ k = Len(b.abox) + 1 /\ conn'[i].abox[k] = n
  <2>1. i # n
    BY <1>13, <1>15, <1>22
  <2>2. conn[i].abox \in Seq(Conns)
    BY <1>2 DEF Sound
  <2>3. \A j \in DOMAIN conn[i].abox : conn[conn[i].abox[j]].type # "free"
    BY DEF Good, Owned, Queued
  <2>4. \A j \in DOMAIN conn[i].abox : conn[i].abox[j] # n /\ conn[i].abox[j] \in Conns
    BY <1>1, <2>2, <2>3
  <2>5. CASE i = c
    BY <1>5, <1>12, <1>15, <2>1, <2>4, <2>5, <1>22
  <2>6. CASE i # c
    BY <1>15, <2>1, <2>4, <2>6, <1>22
  <2> QED
    BY <2>5, <2>6
<1>23. Queued'
  <2>1. ASSUME NEW i \in Conns, NEW k \in DOMAIN conn'[i].abox
        PROVE  (LET m == conn[i].abox[k] IN conn[m].type # "free" /\ conn[m].socket < 0 /\ ~Joining(m))'
    <3>1. CASE k \in DOMAIN conn[i].abox /\ conn'[i].abox[k] = conn[i].abox[k]
               /\ conn[i].abox[k] # n /\ conn[i].abox[k] \in Conns
      <4>1. PICK m \in Conns : m = conn[i].abox[k] /\ m # n /\ m = conn'[i].abox[k]
        BY <3>1
      <4>2. conn[m].type # "free" /\ conn[m].socket < 0 /\ ~Joining(m)
        BY <3>1, <4>1 DEF Good, Owned, Queued
      <4>3. conn'[m].type # "free" /\ conn'[m].socket < 0 /\ ~Joining(m)'
        BY <1>18, <1>20, <4>1, <4>2
      <4> QED
        BY <4>1, <4>3 DEF Joining
    <3>2. CASE i = c /\ k = Len(b.abox) + 1 /\ conn'[i].abox[k] = n
      <4>1. conn'[n].type # "free" /\ conn'[n].socket < 0 /\ ~Joining(n)'
        BY <1>13, <1>15, <1>18, <1>19
      <4> QED
        BY <3>2, <4>1 DEF Joining
    <3> QED
      BY <1>22, <2>1, <3>1, <3>2
  <2>2. ASSUME NEW i \in Conns, NEW j \in Conns, NEW k \in DOMAIN conn'[i].abox,
               NEW l \in DOMAIN conn'[j].abox, conn'[i].abox[k] = conn'[j].abox[l]
        PROVE  i = j /\ k = l
    <3>1. Queued
      BY DEF Good, Owned
    <3>2. \/ /\ k \in DOMAIN conn[i].abox /\ conn'[i].abox[k] = conn[i].abox[k] /\ conn[i].abox[k] # n
          \/ i = c /\ k = Len(b.abox) + 1 /\ conn'[i].abox[k] = n
      BY <1>22
    <3>3. \/ /\ l \in DOMAIN conn[j].abox /\ conn'[j].abox[l] = conn[j].abox[l] /\ conn[j].abox[l] # n
          \/ j = c /\ l = Len(b.abox) + 1 /\ conn'[j].abox[l] = n
      BY <1>22
    <3> QED
      BY <2>2, <3>1, <3>2, <3>3 DEF Queued
  <2> QED
    BY <2>1, <2>2 DEF Queued
<1>24. Called'
  <2>1. \A i \in Conns : Joining(i)' => i # n /\ Joining(i)
    BY <1>18, <1>19
  <2>2. \A i \in Conns : (Joining(i) => conn[i].type # "free" /\ conn[i].socket < 0)'
    BY <1>20, <2>1 DEF Good, Owned, Called
  <2>3. (app.pc # "idle" /\ ~Joining(app.c) => app.s \in Socks /\ sock[app.s].conn = app.c)'
    BY <1>1, <1>18 DEF Good, Owned, Called
  <2>4. (app.pc = "acceptJoin" => app.s \in Socks /\ sock[app.s].conn = app.c)'
    BY <1>1 DEF Good, Owned, Called
  <2> QED
    BY <2>2, <2>3, <2>4 DEF Called
<1>25. Watching'
  <2>1. SelsAlike /\ SocksAlike /\ SelectsAwake'
    BY <1>1 DEF Good, Types, Watching, SocksAlike, SelsAlike, SelectsAwake
  <2> QED
    BY <1>1, <1>18, <2>1, WatchingKept DEF Good, SocksAlike, SelsAlike, InUse
<1>26. \A i \in Conns : Busy(conn'[i]) <=> Busy(conn[i])
  <2>1. ~Busy(conn[n])
    BY <1>1, <1>2 DEF Sound, Busy
  <2> QED
    BY <1>12, <1>14, <1>15, <2>1
<1>27. Calls'
  <2>1. Signals = {} /\ (app.pc = "wait" => app.c \in Conns)
    BY <1>1 DEF Signals, Good, Types, Proceeds
  <2> QED
    BY <1>1, <1>16, <1>26, <2>1 DEF Good, Calls
<1>28. ReadersWoken'
  <2>1. \A i \in Conns : i # n => /\ conn'[i].rvalid = conn[i].rvalid /\ conn'[i].err = conn[i].err
                                  /\ (Open(conn'[i]) <=> Open(conn[i])) /\ (Awake(conn'[i]) <=> Awake(conn[i]))
    BY <1>12, <1>15
  <2>2. Open(conn'[n])
    BY <1>14, <1>15
  <2>3. app.pc = "fetch" => conn[app.c].rvalid /\ Awake(conn[app.c]) /\ app.c \in Conns
    BY <1>1 DEF Good, ReadersWoken, Types, Proceeds
  <2>4. ~conn[n].rvalid
    BY <1>1, <1>2 DEF Sound
  <2> QED
    BY <1>1, <2>1, <2>2, <2>3, <2>4 DEF Good, ReadersWoken
<1> QED
  BY <1>17, <1>21, <1>23, <1>24, <1>25, <1>27, <1>28 DEF Good, Owned

\* A message of the application.
LEMMA TcpipTakesMessageGood ==
  ASSUME Good, TcpipTakesMessage, UNCHANGED program, Alive' PROVE Good'
<1> DEFINE i == app.c
           b == conn[i]
           msg == [len |-> app.len, dont |-> app.dont, how |-> app.how]
           taken(j) == \E k \in DOMAIN b.abox : b.abox[k] = j
<1>1. /\ todo = <<>> /\ app.pc = "api" /\ app' = [app EXCEPT !.pc = "wait"] /\ UNCHANGED <<sock, sel>>
      /\ \E x : LET d == Do(app.fn, b, msg, x)
                IN /\ todo' = d.ev
                   /\ conn' = [j \in Conns |-> IF j = i THEN [d EXCEPT !.ev = <<>>]
                                               ELSE IF ~d.avalid /\ taken(j) THEN Free ELSE conn[j]]
  BY DEF TcpipTakesMessage
<1>2. PICK d : /\ \E x : d = Do(app.fn, b, msg, x)
               /\ todo' = d.ev
               /\ conn' = [j \in Conns |-> IF j = i THEN [d EXCEPT !.ev = <<>>]
                                           ELSE IF ~d.avalid /\ taken(j) THEN Free ELSE conn[j]]
  <2>1. PICK x : LET d == Do(app.fn, b, msg, x)
                 IN /\ todo' = d.ev
                    /\ conn' = [j \in Conns |-> IF j = i THEN [d EXCEPT !.ev = <<>>]
                                                ELSE IF ~d.avalid /\ taken(j) THEN Free ELSE conn[j]]
    BY <1>1
  <2> DEFINE d == Do(app.fn, b, msg, x)
  <2> HIDE DEF msg
  <2> QED
    BY <2>1, Zenon
<1>3. i \in Conns /\ app.fn \in Fns /\ AppShaped(app) /\ "how" \in DOMAIN msg
  BY <1>1 DEF Good, Types, Proceeds
<1> HIDE DEF msg
<1>4. b.type # "free"
  <2>1. CASE Joining(i)
    BY <1>3, <2>1 DEF Good, Owned, Called
  <2>2. CASE ~Joining(i)
    <3>1. app.s \in Socks /\ sock[app.s].conn = i /\ i # 0
      BY <1>1, <1>3, <2>2 DEF Good, Owned, Called, Conns
    <3> QED
      BY <3>1 DEF Good, Owned, Held, InUse, C
  <2> QED
    BY <2>1, <2>2
<1>5. Sound(b) /\ b.id = i /\ Idle(b) /\ ~Posted(b.ev)
  <2>1. ~Busy(b)
    BY <1>1, <1>3 DEF Good, Calls
  <2> QED
    BY <1>3, <1>4, <2>1, Silent DEF Idle
<1>6. Took(b, d) \/ Lost(d)
  BY <1>2, <1>3, <1>5, DoTook
<1> DEFINE e == [d EXCEPT !.ev = <<>>]
<1>7. DOMAIN conn' = Conns /\ \A j \in Conns : conn'[j] = IF j = i THEN e ELSE IF ~d.avalid /\ taken(j) THEN Free ELSE conn[j]
  BY <1>2
<1>8. ~Lost(d)
  <2>1. Lost(d) => e.fail # "none"
    BY DEF Lost, Shaped
  <2> QED
    BY <1>3, <1>7, <2>1 DEF Alive
<1>9. Took(b, d)
  BY <1>6, <1>8
<1>10. Sound(d) /\ d.id = i /\ d.ev \in Seq({i} \X Whats)
  BY <1>5, <1>9 DEF Took, Kept, Spoken
<1>11. /\ Sound(e) /\ e.ev = <<>> /\ e.id = i /\ e.type = b.type /\ e.abox = d.abox
       /\ e.socket = b.socket /\ e.rvalid = d.rvalid /\ e.err = d.err /\ e.avalid = d.avalid
       /\ (Busy(e) <=> Busy(d)) /\ (Open(e) <=> Open(d))
  <2>1. d.type = b.type /\ d.socket = b.socket
    BY <1>9 DEF Took, Kept
  <2> QED
    BY <1>10, <2>1, Unsaid
<1> HIDE DEF e
<1>12. /\ Shaped(Free) /\ Free.type = "free" /\ Free.state = "none" /\ Free.pcb.st = "none"
       /\ ~Free.rvalid /\ ~Free.avalid /\ Free.abox = <<>> /\ Free.rbox = <<>> /\ Free.socket = -1
       /\ ~Free.nbConnect /\ ~Free.pcb.fin /\ Free.pcb.recv /\ Free.ev = <<>> /\ Free.pcb.given = 0
  BY DEF Free, Netconn, NoPcb, NewPcb, Shaped
<1>13. Sound(Free) /\ ~Busy(Free)
  BY <1>12 DEF Sound, Busy
<1>14. app'.pc = "wait" /\ app'.fn = app.fn /\ app'.s = app.s /\ app'.c = i /\ app'.len = app.len /\ AppShaped(app')
  BY <1>1, <1>3 DEF AppShaped
<1>15. /\ Proceeds(app') /\ (\A n \in Conns : Joining(n)' <=> Joining(n))
       /\ (Joining(app.c)' <=> Joining(app.c)) /\ \A r \in Socks : Unknown(r)' <=> Unknown(r)
  BY <1>1, <1>3, <1>14 DEF Proceeds, Joining, Unknown
<1>16. /\ todo' \in Seq(Conns \X Whats)
       /\ Mute(d.ev) => Signals' = {}
       /\ Once(d.ev) => Signals' # {} /\ \A j, k \in Signals' : j = k
  BY <1>2, <1>3, <1>10, SaidToDo
<1>17. Types' /\ Netconns'
  <2>1. Types'
    <3>1. DOMAIN conn = Conns
      BY DEF Good, Types
    <3> QED
      BY <1>1, <1>7, <1>14, <1>15, <1>16 DEF Good, Types
  <2>2. Netconns'
    <3>1. ASSUME NEW j \in Conns
          PROVE  /\ Sound(conn'[j]) /\ conn'[j].ev = <<>>
                 /\ (conn'[j].type # "free" => conn'[j].id = j)
      <4>1. CASE j = i
        BY <1>7, <1>11, <4>1
      <4>2. CASE conn'[j] = Free
        BY <1>12, <1>13, <4>2
      <4>3. CASE conn'[j] = conn[j]
        BY <4>3 DEF Good, Netconns
      <4> QED
        BY <1>7, <4>1, <4>2, <4>3
    <3> QED
      BY <3>1 DEF Netconns
  <2> QED
    BY <2>1, <2>2
<1>18. \A j \in Conns : conn[j].abox \in Seq(Conns)
  BY DEF Good, Netconns, Sound
<1>19. \A j \in Conns : taken(j) => conn[j].type # "free" /\ conn[j].socket < 0 /\ ~Joining(j)
  BY <1>3 DEF Good, Owned, Queued
<1> DEFINE gone(j) == j # i /\ ~d.avalid /\ taken(j)
<1>20. \A j \in Conns : /\ gone(j) => conn'[j] = Free /\ conn[j].socket < 0 /\ ~Joining(j)
                        /\ ~gone(j) => conn'[j].type = conn[j].type /\ conn'[j].socket = conn[j].socket
  BY <1>7, <1>11, <1>19
<1>21. ASSUME NEW j \in Conns, NEW k \in DOMAIN conn'[j].abox
       PROVE  /\ k \in DOMAIN conn[j].abox /\ conn'[j].abox[k] = conn[j].abox[k] /\ conn[j].abox[k] \in Conns
              /\ ~gone(conn[j].abox[k])
  <2>1. e.abox \in {b.abox, <<>>} /\ (~d.avalid => e.abox = <<>>)
    BY <1>9, <1>11 DEF Took, Kept, Sound
  <2>2. conn'[j].abox = conn[j].abox /\ ~(j = i /\ ~d.avalid)
    BY <1>7, <1>12, <1>21, <2>1
  <2>3. Queued
    BY DEF Good, Owned
  <2>4. ASSUME ~d.avalid, taken(conn[j].abox[k]) PROVE FALSE
    <3>1. PICK l \in DOMAIN b.abox : b.abox[l] = conn[j].abox[k]
      BY <2>4
    <3>2. j = i
      BY <1>3, <1>21, <2>2, <2>3, <3>1 DEF Queued
    <3> QED
      BY <2>2, <2>4, <3>2
  <2> QED
    BY <1>18, <1>21, <2>2, <2>4
<1>22. Queued'
  <2>1. ASSUME NEW j \in Conns, NEW k \in DOMAIN conn'[j].abox
        PROVE  (LET m == conn[j].abox[k] IN conn[m].type # "free" /\ conn[m].socket < 0 /\ ~Joining(m))'
    <3>1. PICK m \in Conns : m = conn[j].abox[k] /\ m = conn'[j].abox[k] /\ ~gone(m)
      BY <1>21
    <3>2. conn[m].type # "free" /\ conn[m].socket < 0 /\ ~Joining(m)
      BY <1>21, <3>1 DEF Good, Owned, Queued
    <3>3. conn'[m].type # "free" /\ conn'[m].socket < 0 /\ ~Joining(m)'
      BY <1>15, <1>20, <3>1, <3>2
    <3> QED
      BY <3>1, <3>3 DEF Joining
  <2>2. ASSUME NEW j \in Conns, NEW g \in Conns, NEW k \in DOMAIN conn'[j].abox,
               NEW l \in DOMAIN conn'[g].abox, conn'[j].abox[k] = conn'[g].abox[l]
        PROVE  j = g /\ k = l
    <3>1. Queued
      BY DEF Good, Owned
    <3>2. k \in DOMAIN conn[j].abox /\ conn'[j].abox[k] = conn[j].abox[k]
      BY <1>21
    <3>3. l \in DOMAIN conn[g].abox /\ conn'[g].abox[l] = conn[g].abox[l]
      BY <1>21
    <3>4. conn[j].abox[k] = conn[g].abox[l]
      BY <2>2, <3>2, <3>3
    <3> QED
      BY <3>1, <3>2, <3>3, <3>4 DEF Queued
  <2> QED
    BY <2>1, <2>2 DEF Queued
<1> HIDE DEF taken, gone
<1>23. Held'
  <2> SUFFICES ASSUME NEW r \in Socks, sock'[r].conn # 0
               PROVE  conn'[sock'[r].conn].type # "free" /\ conn'[sock'[r].conn].socket = r
    BY DEF Held, InUse, C
  <2>1. sock[r].conn \in Conns /\ sock'[r].conn = sock[r].conn
    BY <1>1, SocketsAssumption DEF Good, Types, SockShaped, Conns
  <2>2. conn[sock[r].conn].type # "free" /\ conn[sock[r].conn].socket = r
    BY <1>1, <2>1 DEF Good, Owned, Held, InUse, C
  <2>3. r \in Nat
    BY SocketsAssumption DEF Socks
  <2>4. PICK n \in Conns : n = sock[r].conn
    BY <2>1
  <2>5. ~gone(n)
    <3>1. conn[n].socket = r /\ ~(r < 0)
      BY <2>2, <2>3, <2>4
    <3>2. gone(n) => conn[n].socket < 0
      BY <1>20
    <3> QED
      BY <3>1, <3>2
  <2>6. conn'[n].type # "free" /\ conn'[n].socket = r
    BY <1>20, <2>2, <2>4, <2>5
  <2> QED
    BY <2>1, <2>4, <2>6
<1>24. Called'
  <2>1. \A j \in Conns : (Joining(j) => conn[j].type # "free" /\ conn[j].socket < 0)'
    <3>1. \A j \in Conns : Joining(j)' => Joining(j) /\ ~gone(j)
      BY <1>15, <1>20
    <3> QED
      BY <1>20, <3>1 DEF Good, Owned, Called
  <2>2. (app.pc # "idle" /\ ~Joining(app.c) => app.s \in Socks /\ sock[app.s].conn = app.c)'
    <3>1. Joining(app.c)' <=> Joining(i)
      BY <1>15
    <3> QED
      BY <1>1, <1>14, <3>1 DEF Good, Owned, Called
  <2> QED
    BY <1>14, <2>1, <2>2 DEF Called
<1>25. Watching'
  <2>1. SelsAlike /\ SocksAlike /\ SelectsAwake'
    BY <1>1 DEF Good, Types, Watching, SocksAlike, SelsAlike, SelectsAwake
  <2> QED
    BY <1>1, <1>15, <2>1, WatchingKept DEF Good, SocksAlike, SelsAlike, InUse
<1>26. Calls'
  <2>1. \A j \in Conns : j # i => ~Busy(conn'[j])
    BY <1>1, <1>7, <1>13 DEF Good, Calls
  <2>2. conn'[i] = e
    BY <1>3, <1>7
  <2>3. (Busy(e) /\ Mute(d.ev)) \/ (~Busy(e) /\ Once(d.ev))
    BY <1>9, <1>11 DEF Took, Answers
  <2>4. CASE Busy(e) /\ Mute(d.ev)
    BY <1>14, <1>16, <2>1, <2>2, <2>4 DEF Calls
  <2>5. CASE ~Busy(e) /\ Once(d.ev)
    BY <1>14, <1>16, <2>1, <2>2, <2>5 DEF Calls
  <2> QED
    BY <2>3, <2>4, <2>5
<1>27. ReadersWoken'
  <2>1. ASSUME NEW j \in Conns, conn'[j].rvalid, conn'[j].err \notin Fatal, ~(app'.fn = "eof" /\ app'.c = j)
        PROVE  Open(conn'[j])
    <3>1. CASE j # i
      <4>1. conn'[j] = conn[j]
        BY <1>7, <1>12, <2>1, <3>1
      <4> QED
        BY <1>14, <2>1, <4>1 DEF Good, ReadersWoken
    <3>2. CASE j = i
      <4>1. b.rvalid /\ b.err \notin Fatal /\ ~(app.fn = "eof" /\ app.c = i) /\ d.rvalid /\ d.err \notin Fatal
        BY <1>7, <1>9, <1>11, <1>14, <2>1, <3>2 DEF Took, Kept
      <4>2. Open(b)
        BY <1>3, <4>1 DEF Good, ReadersWoken
      <4>3. Open(d)
        BY <1>9, <4>1, <4>2 DEF Took, Kept
      <4> QED
        BY <1>7, <1>11, <3>2, <4>3
    <3> QED
      BY <3>1, <3>2
  <2> QED
    BY <1>14, <2>1 DEF ReadersWoken
<1> QED
  BY <1>17, <1>22, <1>23, <1>24, <1>25, <1>26, <1>27 DEF Good, Owned

\* What the stack calls.
LEMMA StackGood == ASSUME Good, UNCHANGED program, NEW c \in Conns, Stack(c) PROVE Good'
<1> DEFINE b == conn[c]
<1>1. Sound(b)
  BY DEF Good, Netconns
<1>2. ASSUME b.type # "free" PROVE Sound(b) /\ Spoken(b) /\ Mute(b.ev)
  BY <1>2, Silent
<1>3. CASE Connects(c)
  <2>1. b.state = "connect" /\ b.type # "free" /\ Callback(c) /\ Becomes(DoConnected(b))
    BY <1>1, <1>3 DEF Connects, Sound
  <2>2. Back(b, DoConnected(b))
    BY <1>2, <2>1, DoConnectedBack
  <2> QED
    BY <2>1, <2>2, CallbackGood
<1>4. CASE Resets(c)
  <2>1. b.type # "free" /\ Callback(c) /\ Becomes(ErrTcp(b, "RST")) /\ "RST" \in Fatal
    BY <1>1, <1>4 DEF Resets, Sound, Fatal
  <2>2. Back(b, ErrTcp(b, "RST"))
    BY <1>2, <2>1, ErrTcpBack
  <2> QED
    BY <2>1, <2>2, CallbackGood
<1>5. CASE Ends(c)
  <2>1. /\ b.type # "free" /\ Callback(c) /\ Becomes(BothClosed(b))
        /\ b.pcb.st = "open" /\ b.pcb.fin /\ b.pcb.txShut
    BY <1>1, <1>5 DEF Ends, Sound
  <2>2. Back(b, BothClosed(b))
    BY <1>2, <2>1, BothClosedBack
  <2> QED
    BY <2>1, <2>2, CallbackGood
<1>6. CASE ReceivesFin(c)
  <2>1. b.type # "free" /\ Callback(c) /\ Becomes(RecvTcpFin(b)) /\ b.pcb.st = "open"
    BY <1>1, <1>6 DEF ReceivesFin, Sound
  <2>2. Back(b, RecvTcpFin(b))
    BY <1>2, <2>1, RecvTcpFinBack
  <2> QED
    BY <2>1, <2>2, CallbackGood
<1>7. CASE Sent(c)
  <2>1. PICK x : b.type # "free" /\ Callback(c) /\ Becomes(SentTcp(b, x))
    BY <1>1, <1>7 DEF Sent, Sound, Told
  <2>2. Back(b, SentTcp(b, x))
    BY <1>2, <2>1, SentTcpBack
  <2> QED
    BY <2>1, <2>2, CallbackGood
<1>8. CASE Polls(c)
  <2>1. PICK x : b.type # "free" /\ Callback(c) /\ Becomes(PollTcp(b, x))
    BY <1>1, <1>8 DEF Polls, Sound, Told
  <2>2. Back(b, PollTcp(b, x))
    BY <1>2, <2>1, PollTcpBack
  <2> QED
    BY <2>1, <2>2, CallbackGood
<1>9. ASSUME NEW n \in Sizes, NEW push \in BOOLEAN, Receives(c, n, push) PROVE Good'
  <2> DEFINE p == [from |-> b.pcb.given + 1, len |-> n, push |-> push]
  <2>1. /\ b.type # "free" /\ Callback(c)
        /\ Becomes(RecvTcp(b, p)) \/ Becomes(RecvUdp(b, p))
    BY <1>1, <1>9 DEF Receives, Sound
  <2>2. p \in Packets
    <3>1. b.pcb.given + 1 \in Int /\ n \in Int
      BY <1>1, SocketsAssumption DEF Sound, Sizes
    <3> QED
      BY <3>1 DEF Packets
  <2> HIDE DEF p
  <2>3. Back(b, RecvTcp(b, p)) /\ Back(b, RecvUdp(b, p))
    BY <1>2, <2>1, <2>2, RecvTcpBack, RecvUdpBack
  <2> QED
    BY <2>1, <2>3, CallbackGood
<1> QED
  BY <1>3, <1>4, <1>5, <1>6, <1>7, <1>8, <1>9, ArrivesGood DEF Stack

-----------------------------------------------------------------------------
(* The theorems.                                                           *)

\* Every step keeps the invariant, as long as no handler is lost.
LEMMA InvStep == ASSUME Inv, [SocketsNext]_sockVars PROVE Inv'
<1> SUFFICES ASSUME Alive' PROVE Good'
  BY DEF Inv
<1>1. CASE UNCHANGED sockVars
  <2>1. UNCHANGED <<program, conn, sock, todo, app, sel>>
    BY <1>1 DEF sockVars
  <2>2. Good
    BY <2>1 DEF Inv, Alive
  <2>3. /\ SocksAlike /\ SelsAlike /\ SelectsAwake' /\ DOMAIN conn' = Conns /\ Netconns'
    BY <2>1, <2>2 DEF Good, Types, Watching, Netconns, SocksAlike, SelsAlike, SelectsAwake
  <2>4. Types' /\ Calls' /\ ReadersWoken'
    BY <2>1, <2>2 DEF Good, Types, Calls, Signals, ReadersWoken
  <2>5. Watching'
    BY <2>1, <2>2 DEF Good, Watching, InUse, Unknown, Sleepers, SelectsAwake
  <2>6. Owned'
    BY <2>1, <2>2, OwnedKept DEF Good, Joining, Owned, Called
  <2> QED
    BY <2>3, <2>4, <2>5, <2>6 DEF Good
<1>2. CASE SocketsNext
  <2>1. ASSUME NEW t \in Watchers, Selects(t) PROVE Good'
    <3>1. conn' = conn
      BY <2>1 DEF Selects, Select, SelectEnlists, SelectCounts, SelectRescans, SelectWakes, SelectLeaves,
         SelectUnchanged
    <3>2. Good
      BY <3>1 DEF Inv, Alive
    <3> QED
      BY <1>2, <2>1, <3>2, SelectsGood DEF SocketsNext
  <2>2. ASSUME Alive PROVE Good
    BY <2>2 DEF Inv
  <2>3. CASE TcpipContinues
    BY <1>2, <2>2, <2>3, TcpipContinuesGood DEF SocketsNext, TcpipContinues
  <2>4. CASE TcpipTakesMessage
    BY <1>2, <2>2, <2>4, TcpipTakesMessageGood DEF SocketsNext, TcpipTakesMessage
  <2>5. CASE AppSteps
    <3>1. Alive
      BY <2>5 DEF AppSteps, RecvLoop, RecvFetch, RecvMinus, RecvClosed, RecvCopy, AcceptFetch, AcceptMinus,
         AcceptAllocates, AcceptJoins, Returns, At
    <3> QED
      BY <1>2, <2>2, <2>5, <3>1, AppStepsGood DEF SocketsNext
  <2>6. ASSUME NEW s \in Socks, Works(s) PROVE Good'
    <3>1. Alive
      BY <2>6 DEF Works, Socket, Connect, Listen, Close, SetNonblocking, Accept, Shutdown, Option, Send, Recv,
         Asks, Begins
    <3> QED
      BY <1>2, <2>2, <2>6, <3>1, AppStepsGood DEF SocketsNext
  <2>7. ASSUME NEW c \in Conns, Stack(c) PROVE Good'
    <3>1. Alive
      BY <2>7 DEF Stack, Connects, Resets, Ends, ReceivesFin, Sent, Polls, Receives, Arrives, Callback
    <3> QED
      BY <1>2, <2>2, <2>7, <3>1, StackGood DEF SocketsNext
  <2> QED
    BY <1>2, <2>1, <2>3, <2>4, <2>5, <2>6, <2>7 DEF SocketsNext
<1> QED
  BY <1>1, <1>2

\* The invariant forgets nobody.
LEMMA InvRemembers == ASSUME Inv PROVE NobodyForgotten
<1> SUFFICES ASSUME Quiet PROVE SelectsAwake /\ CallsAnswered /\ ReadersFed
  BY DEF NobodyForgotten
<1>1. Good /\ todo = <<>> /\ Signals = {}
  BY DEF Inv, Quiet, Signals
<1>2. SelectsAwake
  BY <1>1 DEF Good, Watching
<1>3. CallsAnswered
  <2> SUFFICES ASSUME app.pc = "wait"
               PROVE  LET c == conn[app.c] IN
                      \/ c.state \in {"write", "close"} /\ c.pcb.st = "open"
                      \/ c.state = "connect" /\ c.pcb.st = "syn"
                      \/ c.state = "close" /\ ShutdownRefused(c)
    BY DEF CallsAnswered
  <2>1. Busy(conn[app.c]) /\ Sound(conn[app.c])
    BY <1>1 DEF Good, Calls, Types, Proceeds, Netconns
  <2> QED
    BY <2>1 DEF Busy, Sound
<1>4. ReadersFed
  BY <1>1 DEF ReadersFed, Good, ReadersWoken, Awake, Fed
<1> QED
  BY <1>2, <1>3, <1>4

\* Whatever the sockets, the threads, the mailboxes, the applications and the
\* failures: a select sleeps only while nothing has happened, a call waits only
\* for who will answer, a reader only for what may arrive.
THEOREM NobodySleepsForEver == SocketsSpec => []NobodyForgotten
<1>1. SocketsInit => Inv
  BY InitGood DEF Inv
<1>2. Inv /\ [SocketsNext]_sockVars => Inv'
  BY InvStep
<1>3. Inv => NobodyForgotten
  BY InvRemembers
<1> QED
  BY <1>1, <1>2, <1>3, PTL DEF SocketsSpec

-----------------------------------------------------------------------------
(* What the event counters say.                                            *)

\* A packet, or a connection, is yet to be counted; the end of the stream is
\* yet to be posted.
IsPlus(what) == what.op = "event" /\ what.evt = "RCVPLUS"
Plussed(ev) == \E k \in DOMAIN ev : IsPlus(ev[k][2])
Plus(c) == \E k \in DOMAIN todo : todo[k][1] = c /\ IsPlus(todo[k][2])
Post(c) == \E k \in DOMAIN todo : todo[k][1] = c /\ todo[k][2].op = "postRecv"

\* The application has fetched from c and not counted it.
Owes(c) ==
  /\ app.c = c
  /\ app.pc \in {"minus", "acceptMinus"} \/ (app.fn = "eof" /\ app.pc \in {"api", "wait", "back"})

One(b) == IF b THEN 1 ELSE 0
Boxed(n) == Len(n.rbox) + Len(n.abox)
Rcv(c) == IF conn[c].socket < 0 THEN -1 - conn[c].socket ELSE sock[conn[c].socket].rcv

\* What is counted and not in the mailboxes.
Balance(c) == Rcv(c) + One(Plus(c)) - Boxed(conn[c]) - One(Owes(c))

\* Nothing has been counted that is no packet and no connection.
Exact(n) == (n.rvalid \/ n.avalid) /\ n.err \notin Fatal /\ n.pcb.recv

\* Who accepts listens, and nothing is received as long as the pcb is closed.
States == {"none", "listen", "connect", "write", "close"}
Plain(n) ==
  /\ n.state \in States
  /\ n.avalid => n.state = "listen"
  /\ n.pcb.st = "closed" => n.rbox = <<>> /\ (n.pcb.recv => n.rvalid)

\* At most one count and one post, and the answer after them.
Tidy(ev) ==
  /\ \A j, k \in DOMAIN ev : IsPlus(ev[j][2]) /\ IsPlus(ev[k][2]) => j = k
  /\ \A j, k \in DOMAIN ev : ev[j][2].op = "postRecv" /\ ev[k][2].op = "postRecv" => j = k
  /\ \A j, k \in DOMAIN ev :
       (IsPlus(ev[j][2]) \/ ev[j][2].op = "postRecv") /\ ev[k][2].op = "signal" => j < k

\* A netconn about to be deleted waits for nothing but its close.
Doomed(n) == n.state = "close" /\ n.cur.how = {"rd", "wr"}

Seated ==
  \A c \in Conns : conn[c].type # "free" /\ conn[c].socket >= 0 =>
    conn[c].socket \in Socks /\ sock[conn[c].socket].conn = c
Balanced ==
  \A c \in Conns : conn[c].type # "free" =>
    Balance(c) >= One(Post(c)) /\ (Exact(conn[c]) => Balance(c) = 0)
Plainly == \A c \in Conns : Plain(conn[c])
Orderly ==
  /\ Tidy(todo)
  /\ \A c \in Conns : Plus(c) \/ Post(c) => conn[c].type # "free"
  /\ \A c \in Conns : Post(c) => conn[c].err \in Fatal /\ conn[c].pcb.st = "none"
Fresh ==
  /\ app.pc = "acceptMinus" => conn[app.c].socket >= 0
  /\ app.pc = "acceptJoin" => sock[app.s].rcv = 0
Deleted == app.fn = "delete" =>
  /\ app.pc = "wait" => Doomed(conn[app.c]) \/ conn[app.c].pcb.st = "none"
  /\ app.pc = "back" => conn[app.c].pcb.st = "none" /\ ~Plus(app.c) /\ ~Post(app.c)
Counts == Seated /\ Balanced /\ Plainly /\ Orderly /\ Fresh /\ Deleted

-----------------------------------------------------------------------------
(* What handlers count.                                                    *)

Harmless(what) == \A k \in DOMAIN what : ~IsPlus(what[k]) /\ what[k].op # "postRecv"
Neat(what) ==
  /\ \A j, k \in DOMAIN what : IsPlus(what[j]) /\ IsPlus(what[k]) => j = k
  /\ \A j, k \in DOMAIN what : what[j].op = "postRecv" /\ what[k].op = "postRecv" => j = k

\* What a handler that makes d of the silent netconn c says of the mailboxes it
\* leaves.
Tally(c, d) ==
  /\ Tidy(d.ev) /\ Plain(d)
  /\ Boxed(d) <= Boxed(c) \/ (Boxed(d) = Boxed(c) + 1 /\ Plussed(d.ev))
  /\ Posted(d.ev) => Boxed(d) <= Boxed(c) /\ Plussed(d.ev) /\ d.err \in Fatal /\ d.pcb.st = "none"
  /\ Exact(d) => Exact(c) /\ Boxed(d) = Boxed(c) + One(Plussed(d.ev))
  /\ Doomed(c) => Doomed(d) \/ d.pcb.st = "none"

\* Equal fields are counted alike.
LEMMA SameCounts ==
  ASSUME NEW c, NEW d, Same(c, d)
  PROVE  /\ Boxed(d) = Boxed(c) /\ (Exact(d) <=> Exact(c)) /\ (Plain(d) <=> Plain(c))
         /\ (Doomed(d) <=> Doomed(c))
  BY DEF Same, Boxed, Exact, Plain, Doomed

\* What more is said, of other things, leaves the tally.
LEMMA TallyOn ==
  ASSUME NEW c, NEW d, NEW e, Tally(c, d), Same(d, e), Tidy(e.ev),
         Plussed(e.ev) <=> Plussed(d.ev), Posted(e.ev) <=> Posted(d.ev)
  PROVE  Tally(c, e)
<1>1. /\ Boxed(e) = Boxed(d) /\ (Exact(e) <=> Exact(d)) /\ (Plain(e) <=> Plain(d))
      /\ (Doomed(e) <=> Doomed(d)) /\ e.err = d.err /\ e.pcb.st = d.pcb.st
  BY SameCounts DEF Same
<1> QED
  BY <1>1 DEF Tally, One

\* Where LwipNetconn.Out puts what it says.
LEMMA OutSaid ==
  ASSUME NEW c, NEW what \in Seq(Whats), Shaped(c), Spoken(c)
  PROVE  /\ Out(c, what).ev \in Seq({c.id} \X Whats) /\ Len(c.ev) \in Nat
         /\ \A k \in DOMAIN c.ev : /\ k \in DOMAIN Out(c, what).ev /\ Out(c, what).ev[k] = c.ev[k]
                                   /\ k \in Int /\ k <= Len(c.ev)
         /\ \A k \in DOMAIN what : /\ Len(c.ev) + k \in DOMAIN Out(c, what).ev /\ k \in Int /\ k > 0
                                   /\ Out(c, what).ev[Len(c.ev) + k][2] = what[k]
         /\ \A k \in DOMAIN Out(c, what).ev : k \in DOMAIN c.ev \/ \E j \in DOMAIN what : k = Len(c.ev) + j
<1> DEFINE S == {c.id} \X Whats
           said == [i \in DOMAIN what |-> <<c.id, what[i]>>]
           ev == c.ev \o said
<1>1. Out(c, what) = [c EXCEPT !.ev = ev]
  BY DEF Out
<1>2. Out(c, what).ev = ev
  <2> HIDE DEF ev
  <2> QED
    BY <1>1 DEF Shaped
<1>3. Len(what) \in Nat /\ DOMAIN what = 1 .. Len(what)
  OBVIOUS
<1>4. said \in Seq(S) /\ DOMAIN said = DOMAIN what /\ \A i \in DOMAIN said : said[i][2] = what[i]
  BY <1>3
<1>5. c.ev \in Seq(S) /\ Len(c.ev) \in Nat /\ DOMAIN c.ev = 1 .. Len(c.ev)
  BY DEF Spoken
<1> HIDE DEF S, said
<1>5a. c.ev \in Seq(S) /\ said \in Seq(S)
  BY <1>4, <1>5
<1>6. /\ ev \in Seq(S)
      /\ \A k \in DOMAIN c.ev : k \in DOMAIN ev /\ ev[k] = c.ev[k]
      /\ \A k \in DOMAIN said : Len(c.ev) + k \in DOMAIN ev /\ ev[Len(c.ev) + k] = said[k]
      /\ \A k \in DOMAIN ev : k \in DOMAIN c.ev \/ \E j \in DOMAIN said : k = Len(c.ev) + j
  BY <1>5a, Joined
<1> HIDE DEF ev
<1>7. ev \in Seq({c.id} \X Whats)
  BY <1>6 DEF S
<1> QED
  BY <1>2, <1>3, <1>4, <1>5, <1>6, <1>7

\* Words that count and post nothing, said last.
LEMMA OutHarmless ==
  ASSUME NEW c, NEW what \in Seq(Whats), Shaped(c), Spoken(c), Harmless(what)
  PROVE  /\ Tidy(c.ev) => Tidy(Out(c, what).ev)
         /\ Plussed(Out(c, what).ev) <=> Plussed(c.ev)
         /\ Posted(Out(c, what).ev) <=> Posted(c.ev)
<1> DEFINE ev == Out(c, what).ev
<1>1. /\ \A k \in DOMAIN c.ev : k \in DOMAIN ev /\ ev[k] = c.ev[k] /\ k \in Int /\ k <= Len(c.ev)
      /\ \A k \in DOMAIN what : /\ Len(c.ev) + k \in DOMAIN ev /\ k \in Int /\ k > 0
                                /\ ev[Len(c.ev) + k][2] = what[k]
      /\ \A k \in DOMAIN ev : k \in DOMAIN c.ev \/ \E j \in DOMAIN what : k = Len(c.ev) + j
      /\ Len(c.ev) \in Nat
  BY OutSaid
<1> HIDE DEF ev
<1>2. ASSUME NEW k \in DOMAIN ev
      PROVE  \/ k \in DOMAIN c.ev /\ ev[k] = c.ev[k] /\ k \in Int /\ k <= Len(c.ev)
             \/ ~IsPlus(ev[k][2]) /\ ev[k][2].op # "postRecv" /\ k \in Int /\ k > Len(c.ev)
  BY <1>1 DEF Harmless
<1>3. Plussed(ev) <=> Plussed(c.ev)
  BY <1>1, <1>2 DEF Plussed
<1>4. Posted(ev) <=> Posted(c.ev)
  BY <1>1, <1>2 DEF Posted
<1>5. ASSUME Tidy(c.ev) PROVE Tidy(ev)
  <2>1. ASSUME NEW j \in DOMAIN ev, NEW k \in DOMAIN ev, IsPlus(ev[j][2]), IsPlus(ev[k][2]) PROVE j = k
    BY <1>2, <1>5, <2>1 DEF Tidy
  <2>2. ASSUME NEW j \in DOMAIN ev, NEW k \in DOMAIN ev, ev[j][2].op = "postRecv", ev[k][2].op = "postRecv"
        PROVE  j = k
    BY <1>2, <1>5, <2>2 DEF Tidy
  <2>3. ASSUME NEW j \in DOMAIN ev, NEW k \in DOMAIN ev, IsPlus(ev[j][2]) \/ ev[j][2].op = "postRecv",
               ev[k][2].op = "signal"
        PROVE  j < k
    <3>1. j \in DOMAIN c.ev /\ ev[j] = c.ev[j] /\ j \in Int /\ j <= Len(c.ev)
      BY <1>2, <2>3
    <3>2. CASE k \in DOMAIN c.ev
      BY <1>1, <1>5, <2>3, <3>1, <3>2 DEF Tidy
    <3>3. CASE k \notin DOMAIN c.ev
      BY <1>1, <1>2, <3>1, <3>3
    <3> QED
      BY <3>2, <3>3
  <2> QED
    BY <2>1, <2>2, <2>3 DEF Tidy
<1> QED
  BY <1>3, <1>4, <1>5 DEF ev

\* Words that count and post once, said first.
LEMMA OutFirst ==
  ASSUME NEW c, NEW what, Shaped(c), c.ev = <<>>, Quietly(what), Neat(what)
  PROVE  /\ Tidy(Out(c, what).ev)
         /\ Plussed(Out(c, what).ev) <=> \E k \in DOMAIN what : IsPlus(what[k])
         /\ Posted(Out(c, what).ev) <=> \E k \in DOMAIN what : what[k].op = "postRecv"
<1> DEFINE ev == Out(c, what).ev
<1>0. Spoken(c) /\ what \in Seq(Whats)
  BY DEF Spoken, Quietly
<1>1. DOMAIN c.ev = {} /\ Len(c.ev) = 0
  OBVIOUS
<1>2. /\ \A k \in DOMAIN what : /\ Len(c.ev) + k \in DOMAIN ev /\ k \in Int
                                /\ ev[Len(c.ev) + k][2] = what[k]
      /\ \A k \in DOMAIN ev : k \in DOMAIN c.ev \/ \E j \in DOMAIN what : k = Len(c.ev) + j
  BY <1>0, OutSaid
<1> HIDE DEF ev
<1>3. /\ \A k \in DOMAIN what : k \in DOMAIN ev /\ ev[k][2] = what[k]
      /\ \A k \in DOMAIN ev : k \in DOMAIN what
  BY <1>1, <1>2
<1>4. \A k \in DOMAIN ev : ev[k][2].op # "signal"
  BY <1>3 DEF Quietly
<1>5. Tidy(ev)
  BY <1>3, <1>4 DEF Tidy, Neat
<1> QED
  BY <1>3, <1>5 DEF Plussed, Posted, ev

\* An event that counts nothing, and the answer.
LEMMA HarmlessOne ==
  /\ \A e \in Evts \ {"RCVPLUS"} : Harmless(<<Event(e)>>) /\ Quietly(<<Event(e)>>) /\ <<Event(e)>> \in Seq(Whats)
  /\ \A err \in Errs : /\ Harmless(<<[op |-> "signal", err |-> err]>>)
                       /\ <<[op |-> "signal", err |-> err]>> \in Seq(Whats)
<1>1. ASSUME NEW e \in Evts \ {"RCVPLUS"}
      PROVE  Harmless(<<Event(e)>>) /\ Quietly(<<Event(e)>>) /\ <<Event(e)>> \in Seq(Whats)
  <2>1. Event(e) \in Whats /\ Event(e).op = "event" /\ Event(e).evt = e
    BY DEF Event, Whats
  <2>2. Quietly(<<Event(e)>>)
    BY QuietlyOne
  <2> QED
    BY <2>1, <2>2 DEF Harmless, IsPlus
<1>2. ASSUME NEW err \in Errs
      PROVE  /\ Harmless(<<[op |-> "signal", err |-> err]>>)
             /\ <<[op |-> "signal", err |-> err]>> \in Seq(Whats)
  <2> DEFINE sig == [op |-> "signal", err |-> err]
  <2>1. sig \in Whats /\ sig.op = "signal"
    BY DEF Whats
  <2> HIDE DEF sig
  <2>2. Harmless(<<sig>>) /\ <<sig>> \in Seq(Whats)
    BY <2>1 DEF Harmless, IsPlus
  <2> QED
    BY <2>2 DEF sig
<1> QED
  BY <1>1, <1>2

\* LwipNetconn.Out and Reply of such words.
LEMMA TallyOut ==
  ASSUME NEW c, NEW d, Tally(c, d), Sound(d), Spoken(d), NEW e \in Evts \ {"RCVPLUS"}
  PROVE  Tally(c, Out(d, <<Event(e)>>))
<1>1. Same(d, Out(d, <<Event(e)>>))
  BY HarmlessOne, OutKeeps
<1>2. /\ Tidy(d.ev) => Tidy(Out(d, <<Event(e)>>).ev)
      /\ Plussed(Out(d, <<Event(e)>>).ev) <=> Plussed(d.ev)
      /\ Posted(Out(d, <<Event(e)>>).ev) <=> Posted(d.ev)
  BY HarmlessOne, OutHarmless DEF Sound
<1> QED
  BY <1>1, <1>2, TallyOn DEF Tally

\* LwipNetconn.Reply counts nothing.
LEMMA TallyReply ==
  ASSUME NEW c, NEW d, Tally(c, d), Sound(d), Spoken(d), NEW err \in Errs
  PROVE  Tally(c, Reply(d, err))
<1>1. Same(d, Reply(d, err))
  BY ReplyAnswers
<1>2. /\ Tidy(d.ev) => Tidy(Reply(d, err).ev)
      /\ Plussed(Reply(d, err).ev) <=> Plussed(d.ev)
      /\ Posted(Reply(d, err).ev) <=> Posted(d.ev)
  BY HarmlessOne, OutHarmless DEF Sound, Reply
<1> QED
  BY <1>1, <1>2, TallyOn DEF Tally

\* A handler that counts nothing, and changes nothing that counts.
Calm(ev) == \A k \in DOMAIN ev : ~IsPlus(ev[k][2]) /\ ev[k][2].op # "postRecv"
Tame(c, d) ==
  /\ Calm(d.ev) /\ Plain(d) /\ d.rbox = c.rbox /\ d.abox = c.abox
  /\ Exact(d) => Exact(c)
  /\ Doomed(c) => Doomed(d) \/ d.pcb.st = "none"

\* What is tame leaves the balance as it is.
LEMMA TameTallies == ASSUME NEW c, NEW d, Sound(c), Tame(c, d) PROVE Tally(c, d)
<1>1. Tidy(d.ev) /\ ~Plussed(d.ev) /\ ~Posted(d.ev)
  BY DEF Tame, Calm, Tidy, Plussed, Posted
<1>2. Boxed(d) = Boxed(c) /\ Boxed(c) \in Int
  BY DEF Tame, Boxed, Sound
<1> QED
  BY <1>1, <1>2 DEF Tame, Tally, One

\* Harmless words stay calm.
LEMMA OutCalm ==
  ASSUME NEW c, NEW what \in Seq(Whats), Shaped(c), Spoken(c), Harmless(what)
  PROVE  /\ Same(c, Out(c, what)) /\ Spoken(Out(c, what))
         /\ Calm(c.ev) => Calm(Out(c, what).ev)
<1> DEFINE ev == c.ev \o [i \in DOMAIN what |-> <<c.id, what[i]>>]
           d == Out(c, what)
<1>1. d = [c EXCEPT !.ev = ev]
  BY DEF Out
<1>2. Same(c, d)
  <2> HIDE DEF ev, d
  <2> QED
    BY <1>1 DEF Same, Shaped
<1>3. d.ev \in Seq({c.id} \X Whats)
  BY OutSaid
<1>4. (Plussed(d.ev) <=> Plussed(c.ev)) /\ (Posted(d.ev) <=> Posted(c.ev))
  BY OutHarmless
<1> HIDE DEF d
<1>5. Spoken(d)
  BY <1>2, <1>3 DEF Spoken, Same
<1>6. Calm(c.ev) => Calm(d.ev)
  BY <1>4 DEF Calm, Plussed, Posted
<1> QED
  BY <1>2, <1>5, <1>6 DEF d

\* LwipNetconn.Reply says nothing that counts.
LEMMA ReplyCalm ==
  ASSUME NEW c, NEW err \in Errs, Shaped(c), Spoken(c)
  PROVE  /\ Same(c, Reply(c, err)) /\ Spoken(Reply(c, err))
         /\ Calm(c.ev) => Calm(Reply(c, err).ev)
  BY HarmlessOne, OutCalm DEF Reply

\* LwipNetconn.SafeErr
LEMMA SafeErrTallies ==
  ASSUME NEW c, NEW d, NEW err, Sound(d), Tally(c, d), ~Posted(d.ev) PROVE Tally(c, SafeErr(d, err))
<1> DEFINE e == SafeErr(d, err)
<1>1. /\ e.ev = d.ev /\ e.state = d.state /\ e.rvalid = d.rvalid /\ e.rbox = d.rbox /\ e.pcb = d.pcb
      /\ e.abox = d.abox
  BY SafeErrKeeps
<1>2. e.avalid = d.avalid /\ e.cur = d.cur
  BY DEF SafeErr, Sound, Shaped
<1>3. d.err \in Fatal => e.err \in Fatal
  BY DEF SafeErr
<1> HIDE DEF e
<1>4. /\ Boxed(e) = Boxed(d) /\ (Exact(e) => Exact(d)) /\ (Plain(e) <=> Plain(d)) /\ (Doomed(e) <=> Doomed(d))
  BY <1>1, <1>2, <1>3 DEF Boxed, Exact, Plain, Doomed
<1>5. Tally(c, e)
  BY <1>1, <1>3, <1>4 DEF Tally
<1> QED
  BY <1>5 DEF e

\* What is counted and posted in words joined.
HasPlus(what) == \E k \in DOMAIN what : IsPlus(what[k])
HasPost(what) == \E k \in DOMAIN what : what[k].op = "postRecv"

\* Two neat lists of words make one, if they do not both count or both post.
LEMMA NeatJoins ==
  ASSUME NEW a, NEW b, Quietly(a), Quietly(b), Neat(a), Neat(b),
         ~(HasPlus(a) /\ HasPlus(b)), ~(HasPost(a) /\ HasPost(b))
  PROVE  /\ Quietly(a \o b) /\ Neat(a \o b)
         /\ HasPlus(a \o b) <=> HasPlus(a) \/ HasPlus(b)
         /\ HasPost(a \o b) <=> HasPost(a) \/ HasPost(b)
<1>1. Quietly(a \o b)
  BY QuietlyJoins
<1>2. a \in Seq(Whats) /\ b \in Seq(Whats)
  BY DEF Quietly
<1> DEFINE ab == a \o b
<1>3. /\ \A k \in DOMAIN a : k \in DOMAIN ab /\ ab[k] = a[k]
      /\ \A k \in DOMAIN b : Len(a) + k \in DOMAIN ab /\ ab[Len(a) + k] = b[k]
      /\ \A k \in DOMAIN ab : k \in DOMAIN a \/ \E j \in DOMAIN b : k = Len(a) + j
  BY <1>2, Joined
<1> HIDE DEF ab
<1>4. HasPlus(ab) <=> HasPlus(a) \/ HasPlus(b)
  BY <1>3 DEF HasPlus
<1>5. HasPost(ab) <=> HasPost(a) \/ HasPost(b)
  BY <1>3 DEF HasPost
<1>6. ASSUME NEW j \in DOMAIN ab, NEW k \in DOMAIN ab, IsPlus(ab[j]), IsPlus(ab[k]) PROVE j = k
  <2>1. CASE HasPlus(a)
    <3>1. j \in DOMAIN a /\ k \in DOMAIN a
      BY <1>3, <1>6, <2>1 DEF HasPlus
    <3> QED
      BY <1>3, <1>6, <3>1 DEF Neat
  <2>2. CASE ~HasPlus(a)
    <3>1. j \notin DOMAIN a /\ k \notin DOMAIN a
      BY <1>3, <1>6, <2>2 DEF HasPlus
    <3>2. PICK i \in DOMAIN b, l \in DOMAIN b : j = Len(a) + i /\ k = Len(a) + l
      BY <1>3, <3>1
    <3>3. IsPlus(b[i]) /\ IsPlus(b[l])
      BY <1>3, <1>6, <3>2
    <3> QED
      BY <3>2, <3>3 DEF Neat
  <2> QED
    BY <2>1, <2>2
<1>7. ASSUME NEW j \in DOMAIN ab, NEW k \in DOMAIN ab, ab[j].op = "postRecv", ab[k].op = "postRecv" PROVE j = k
  <2>1. CASE HasPost(a)
    <3>1. j \in DOMAIN a /\ k \in DOMAIN a
      BY <1>3, <1>7, <2>1 DEF HasPost
    <3> QED
      BY <1>3, <1>7, <3>1 DEF Neat
  <2>2. CASE ~HasPost(a)
    <3>1. j \notin DOMAIN a /\ k \notin DOMAIN a
      BY <1>3, <1>7, <2>2 DEF HasPost
    <3>2. PICK i \in DOMAIN b, l \in DOMAIN b : j = Len(a) + i /\ k = Len(a) + l
      BY <1>3, <3>1
    <3>3. b[i].op = "postRecv" /\ b[l].op = "postRecv"
      BY <1>3, <1>7, <3>2
    <3> QED
      BY <3>2, <3>3 DEF Neat
  <2> QED
    BY <2>1, <2>2
<1>8. Neat(ab)
  BY <1>6, <1>7 DEF Neat
<1> QED
  BY <1>1, <1>4, <1>5, <1>8 DEF ab

\* One word, or none.
LEMMA NeatOne ==
  /\ Neat(<<>>) /\ ~HasPlus(<<>>) /\ ~HasPost(<<>>)
  /\ \A e \in Evts : /\ Neat(<<Event(e)>>) /\ ~HasPost(<<Event(e)>>)
                     /\ HasPlus(<<Event(e)>>) <=> e = "RCVPLUS"
  /\ Neat(<<[op |-> "postRecv"]>>) /\ HasPost(<<[op |-> "postRecv"]>>) /\ ~HasPlus(<<[op |-> "postRecv"]>>)
<1>1. Neat(<<>>) /\ ~HasPlus(<<>>) /\ ~HasPost(<<>>)
  BY DEF Neat, HasPlus, HasPost
<1>2. ASSUME NEW w PROVE /\ Neat(<<w>>)
                         /\ HasPlus(<<w>>) <=> IsPlus(w)
                         /\ HasPost(<<w>>) <=> w.op = "postRecv"
  BY DEF Neat, HasPlus, HasPost
<1>3. ASSUME NEW e \in Evts PROVE Event(e).op = "event" /\ Event(e).evt = e
  BY DEF Event
<1>4. [op |-> "postRecv"].op = "postRecv"
  OBVIOUS
<1> QED
  BY <1>1, <1>2, <1>3, <1>4 DEF IsPlus

\* LwipNetconn.ErrTcp counts the NULL it posts.
LEMMA ErrTcpTallies ==
  ASSUME NEW c, NEW err \in Fatal, Sound(c), Plain(c), c.ev = <<>>, ~c.avalid
  PROVE  Tally(c, ErrTcp(c, err))
<1> DEFINE waits == c.state \in {"write", "close", "connect"}
           nb == c.nbConnect /\ ~waits
           d == [c EXCEPT !.pcb = NoPcb, !.err = err, !.state = "none", !.cur = NoMsg, !.nbConnect = nb]
           a == <<Event("ERROR"), Event("RCVPLUS"), Event("SENDPLUS")>>
           b == IF c.rvalid THEN <<[op |-> "postRecv"]>> ELSE <<>>
           what == a \o b
           told == Out(d, what)
<1>1. ErrTcp(c, err) = IF waits /\ ~c.nbConnect THEN Reply(told, err) ELSE told
  BY Zenon DEF ErrTcp
<1>2. /\ Shaped(d) /\ d.id = c.id /\ d.type = c.type /\ d.socket = c.socket /\ d.state = "none"
      /\ d.err = err /\ d.rbox = c.rbox /\ d.rvalid = c.rvalid /\ d.abox = c.abox
      /\ d.avalid = c.avalid /\ d.ev = <<>> /\ d.pcb = NoPcb
  <2> HIDE DEF nb
  <2> QED
    BY DEF Sound, Shaped, NoPcb, NewPcb
<1>3. NoPcb.st = "none" /\ NoPcb.recv /\ NoPcb.given \in Int
  BY DEF NoPcb, NewPcb
<1> HIDE DEF d
<1>4. Plain(d) /\ Spoken(d)
  BY <1>2, <1>3 DEF Plain, Spoken, States
<1>5. Quietly(a) /\ Neat(a) /\ HasPlus(a) /\ ~HasPost(a)
  <2>1. \A e \in Evts : Event(e) \in Whats /\ Event(e).op = "event" /\ Event(e).evt = e
    BY DEF Event, Whats
  <2> DEFINE w1 == Event("ERROR")
             w2 == Event("RCVPLUS")
             w3 == Event("SENDPLUS")
  <2>2. /\ w1 \in Whats /\ w1.op = "event" /\ w1.evt = "ERROR"
        /\ w2 \in Whats /\ w2.op = "event" /\ w2.evt = "RCVPLUS"
        /\ w3 \in Whats /\ w3.op = "event" /\ w3.evt = "SENDPLUS"
    BY <2>1 DEF Evts
  <2>3. a = <<w1, w2, w3>>
    OBVIOUS
  <2> HIDE DEF w1, w2, w3, a
  <2>4. /\ a \in Seq(Whats) /\ DOMAIN a = {1, 2, 3} /\ a[1] = w1 /\ a[2] = w2 /\ a[3] = w3
    BY <2>2, <2>3
  <2> QED
    BY <2>2, <2>4 DEF Quietly, Neat, HasPlus, HasPost, IsPlus
<1>6. Quietly(b) /\ Neat(b) /\ ~HasPlus(b)
  BY QuietlyOne, NeatOne
<1> HIDE DEF a, b
<1>7. Quietly(what) /\ Neat(what) /\ HasPlus(what)
  BY <1>5, <1>6, NeatJoins
<1> HIDE DEF what
<1>8. Same(d, told) /\ Spoken(told)
  <2>1. Sound(d)
    BY <1>2, <1>3 DEF Sound
  <2> QED
    BY <1>4, <1>7, <2>1, OutKeeps
<1>9. Tidy(told.ev) /\ Plussed(told.ev)
  BY <1>2, <1>7, OutFirst DEF HasPlus
<1> HIDE DEF told
<1>10. Boxed(d) = Boxed(c) /\ Boxed(c) \in Int /\ ~Exact(d)
  BY <1>2 DEF Boxed, Sound, Exact
<1>11. Sound(told)
  <2>1. Sound(d) /\ (Posted(d.ev) => Posted(told.ev))
    BY <1>2, <1>3 DEF Sound, Posted
  <2> QED
    BY <1>8, <2>1, SameSound
<1>12. Tally(c, told)
  <2>1. /\ Boxed(told) = Boxed(d) /\ (Exact(told) <=> Exact(d)) /\ (Plain(told) <=> Plain(d))
        /\ told.err = err /\ told.pcb.st = "none"
    BY <1>2, <1>3, <1>8, SameCounts DEF Same
  <2>2. Boxed(told) <= Boxed(c) /\ ~Exact(told) /\ Plain(told)
    BY <1>4, <1>10, <2>1
  <2> QED
    BY <1>9, <2>1, <2>2, Zenon DEF Tally
<1>13. Tally(c, Reply(told, err))
  <2>1. err \in Errs
    BY DEF Errs
  <2> QED
    BY <1>8, <1>11, <1>12, <2>1, TallyReply
<1> QED
  BY <1>1, <1>12, <1>13

\* LwipNetconn.BothClosed
LEMMA BothClosedTallies ==
  ASSUME NEW c, Sound(c), Plain(c), c.ev = <<>>, ~c.avalid PROVE Tally(c, BothClosed(c))
<1> DEFINE d == [c EXCEPT !.pcb.st = "freed"]
<1>1. BothClosed(c) = ErrTcp(c, "CLSD") \/ BothClosed(c) = d
  BY Zenon DEF BothClosed
<1>2. /\ d.state = c.state /\ d.err = c.err /\ d.rbox = c.rbox /\ d.rvalid = c.rvalid /\ d.abox = c.abox
      /\ d.avalid = c.avalid /\ d.cur = c.cur /\ d.ev = <<>> /\ d.pcb.st = "freed"
      /\ d.pcb.recv = c.pcb.recv
  BY DEF Sound, Shaped
<1> HIDE DEF d
<1>3. Tame(c, d)
  BY <1>2 DEF Tame, Calm, Plain, Exact, Doomed
<1> QED
  BY <1>1, <1>3, TameTallies, ErrTcpTallies DEF Fatal

\* LwipNetconn.DoConnected
LEMMA DoConnectedTallies ==
  ASSUME NEW c, Sound(c), Plain(c), c.ev = <<>>, c.state = "connect" PROVE Tally(c, DoConnected(c))
<1> DEFINE d == [c EXCEPT !.pcb.st = "open", !.nbConnect = FALSE, !.cur = NoMsg, !.state = "none"]
           plus == <<Event("SENDPLUS")>>
<1>1. DoConnected(c) = IF c.nbConnect THEN Out(SafeErr(d, "OK"), plus) ELSE Reply(Out(d, plus), "OK")
  BY Zenon DEF DoConnected
<1> HIDE DEF plus
<1>2. /\ Shaped(d) /\ d.id = c.id /\ d.type = c.type /\ d.socket = c.socket /\ d.state = "none"
      /\ d.err = c.err /\ d.rbox = c.rbox /\ d.rvalid = c.rvalid /\ d.abox = c.abox
      /\ d.avalid = c.avalid /\ ~d.nbConnect
      /\ d.recvTimeout = c.recvTimeout /\ d.ev = <<>> /\ d.pcb.st = "open"
      /\ d.pcb.recv = c.pcb.recv /\ d.pcb.fin = c.pcb.fin /\ d.pcb.eofLost = c.pcb.eofLost
      /\ d.pcb.given = c.pcb.given
  BY DEF Sound, Shaped
<1> HIDE DEF d
<1>3. Sound(d) /\ Spoken(d)
  BY <1>2 DEF Sound, Spoken
<1>4. Tally(c, d) /\ ~Posted(d.ev)
  <2>1. Tame(c, d)
    BY <1>2 DEF Tame, Calm, Plain, Exact, Doomed, States
  <2> QED
    BY <1>2, <2>1, TameTallies DEF Posted
<1>5. Tally(c, SafeErr(d, "OK")) /\ Sound(SafeErr(d, "OK")) /\ Spoken(SafeErr(d, "OK"))
  <2>1. SafeErr(d, "OK").ev = d.ev /\ SafeErr(d, "OK").id = d.id /\ Sound(SafeErr(d, "OK"))
    BY <1>3, SafeErrKeeps
  <2> QED
    BY <1>3, <1>4, <2>1, SafeErrTallies DEF Spoken
<1>6. ASSUME NEW e, Tally(c, e), Sound(e), Spoken(e)
      PROVE  Tally(c, Out(e, plus)) /\ Sound(Out(e, plus)) /\ Spoken(Out(e, plus))
  <2>1. Quietly(plus) /\ Tally(c, Out(e, plus))
    BY <1>6, TallyOut, QuietlyOne DEF Evts, plus
  <2>2. Same(e, Out(e, plus)) /\ Spoken(Out(e, plus)) /\ (Posted(e.ev) => Posted(Out(e, plus).ev))
    BY <1>6, <2>1, OutKeeps
  <2> QED
    BY <1>6, <2>1, <2>2, SameSound
<1> QED
  BY <1>1, <1>3, <1>4, <1>5, <1>6, TallyReply DEF Errs

\* A packet more.
LEMMA BoxedMore ==
  ASSUME NEW c, NEW d, NEW n \in Int, NEW m \in Int, Len(c.rbox) = n, Len(c.abox) = m,
         Len(d.rbox) = n + 1, Len(d.abox) = m
  PROVE  Boxed(d) = Boxed(c) + 1 /\ Boxed(c) \in Int
  BY DEF Boxed

\* A packet more is counted, as LwipNetconn.RecvUdp and Posts do.
LEMMA PostTallies ==
  ASSUME NEW c, NEW d, NEW p \in Packets, Sound(c), Plain(c), c.ev = <<>>, ~c.avalid, c.pcb.st # "closed",
         Sound(d), d.id = c.id, d.state = c.state, d.err = c.err \/ (d.err = "OK" /\ c.err \notin Fatal),
         d.rbox = Append(c.rbox, p), d.rvalid = c.rvalid, d.abox = c.abox, d.avalid = c.avalid,
         d.cur = c.cur, d.ev = <<>>, d.pcb.st = c.pcb.st, d.pcb.recv = c.pcb.recv
  PROVE  Tally(c, Out(d, <<Event("RCVPLUS")>>))
<1> DEFINE what == <<Event("RCVPLUS")>>
           e == Out(d, what)
<1>1. Quietly(what) /\ Neat(what) /\ HasPlus(what) /\ ~HasPost(what)
  BY QuietlyOne, NeatOne DEF Evts
<1> HIDE DEF what
<1>2. Same(d, e)
  <2>1. Spoken(d)
    BY DEF Spoken
  <2> QED
    BY <1>1, <2>1, OutKeeps
<1>3. Tidy(e.ev) /\ Plussed(e.ev) /\ ~Posted(e.ev)
  BY <1>1, OutFirst DEF HasPlus, HasPost, Sound
<1> HIDE DEF e
<1>4. Boxed(d) = Boxed(c) + 1 /\ Boxed(c) \in Int
  <2>1. Len(Append(c.rbox, p)) = Len(c.rbox) + 1 /\ Len(c.rbox) \in Int
    BY DEF Sound
  <2>2. Len(c.abox) \in Int
    BY DEF Sound
  <2>3. Len(d.rbox) = Len(Append(c.rbox, p)) /\ Len(d.abox) = Len(c.abox)
    BY Zenon
  <2> QED
    BY <2>1, <2>2, <2>3, BoxedMore
<1>5. (Exact(d) => Exact(c)) /\ Plain(d) /\ (Doomed(c) => Doomed(d))
  BY DEF Exact, Plain, Doomed, Fatal
<1>6. /\ Boxed(e) = Boxed(d) /\ (Exact(e) <=> Exact(d)) /\ (Plain(e) <=> Plain(d)) /\ (Doomed(e) <=> Doomed(d))
  BY <1>2, SameCounts
<1>7. Tally(c, e)
  BY <1>3, <1>4, <1>5, <1>6 DEF Tally, One
<1> QED
  BY <1>7 DEF e, what

\* LwipNetconn.RecvUdp
LEMMA RecvUdpTallies ==
  ASSUME NEW c, NEW p \in Packets, Sound(c), Plain(c), c.ev = <<>>, ~c.avalid, c.pcb.st # "closed"
  PROVE  Tally(c, RecvUdp(c, p))
<1> DEFINE box == Append(c.rbox, p)
           g == c.pcb.given + p.len
           d == [c EXCEPT !.rbox = box, !.pcb.given = g]
<1>1. RecvUdp(c, p) = c \/ RecvUdp(c, p) = Out(d, <<Event("RCVPLUS")>>)
  BY Zenon DEF RecvUdp
<1>2. g \in Int
  BY DEF Sound, Packets
<1> HIDE DEF box, g
<1>3. /\ Shaped(d) /\ d.id = c.id /\ d.type = c.type /\ d.socket = c.socket /\ d.state = c.state
      /\ d.err = c.err /\ d.rbox = box /\ d.rvalid = c.rvalid /\ d.abox = c.abox /\ d.avalid = c.avalid
      /\ d.nbConnect = c.nbConnect /\ d.cur = c.cur /\ d.recvTimeout = c.recvTimeout /\ d.ev = c.ev
      /\ d.pcb.st = c.pcb.st /\ d.pcb.recv = c.pcb.recv /\ d.pcb.txShut = c.pcb.txShut
      /\ d.pcb.eofLost = c.pcb.eofLost /\ d.pcb.given = g /\ d.pcb.fin = c.pcb.fin
  BY DEF Sound, Shaped
<1> HIDE DEF d
<1>4. Spoken(c) /\ Mute(c.ev)
  BY DEF Spoken, Mute
<1>5. Sound(d)
  BY <1>2, <1>3, <1>4, PostBack DEF box, Back
<1>6. Tally(c, Out(d, <<Event("RCVPLUS")>>))
  BY <1>3, <1>5, PostTallies DEF box
<1>7. Tally(c, c)
  BY TameTallies DEF Tame, Calm
<1> QED
  BY <1>1, <1>6, <1>7

\* LwipNetconn.RecvTcp
LEMMA RecvTcpTallies ==
  ASSUME NEW c, NEW p \in Packets, Sound(c), Plain(c), c.ev = <<>>, ~c.avalid, c.pcb.st # "closed"
  PROVE  Tally(c, RecvTcp(c, p))
<1> DEFINE g == c.pcb.given + p.len
           w == c.pcb.wnd - p.len
           lost == [c EXCEPT !.pcb.given = g]
           kept == [c EXCEPT !.pcb.given = g, !.pcb.wnd = w]
           box == Append(kept.rbox, p)
           d == [kept EXCEPT !.rbox = box]
<1>1. \/ RecvTcp(c, p) = ErrTcp(c, "ABRT")
      \/ RecvTcp(c, p) = lost
      \/ RecvTcp(c, p) = SafeErr(c, "OK")
      \/ RecvTcp(c, p) = Posts(kept, p)
  BY Zenon DEF RecvTcp
<1>2. g \in Int
  BY DEF Sound, Packets
<1>3. Posts(kept, p) = Out(SafeErr(d, "OK"), <<Event("RCVPLUS")>>)
  BY Zenon DEF Posts
<1> HIDE DEF g, w
<1>4. /\ lost.state = c.state /\ lost.err = c.err /\ lost.rbox = c.rbox /\ lost.rvalid = c.rvalid
      /\ lost.abox = c.abox /\ lost.avalid = c.avalid /\ lost.cur = c.cur /\ lost.ev = <<>>
      /\ lost.pcb.st = c.pcb.st /\ lost.pcb.recv = c.pcb.recv
  BY DEF Sound, Shaped
<1> HIDE DEF lost
<1>5. Tally(c, lost)
  <2>1. Tame(c, lost)
    BY <1>4 DEF Tame, Calm, Plain, Exact, Doomed
  <2> QED
    BY <2>1, TameTallies
<1>6. /\ Shaped(d) /\ d.id = c.id /\ d.type = c.type /\ d.socket = c.socket /\ d.state = c.state
      /\ d.err = c.err /\ d.rbox = box /\ d.rvalid = c.rvalid /\ d.abox = c.abox /\ d.avalid = c.avalid
      /\ d.nbConnect = c.nbConnect /\ d.cur = c.cur /\ d.recvTimeout = c.recvTimeout /\ d.ev = c.ev
      /\ d.pcb.st = c.pcb.st /\ d.pcb.recv = c.pcb.recv /\ d.pcb.txShut = c.pcb.txShut
      /\ d.pcb.eofLost = c.pcb.eofLost /\ d.pcb.given = g /\ d.pcb.fin = c.pcb.fin
      /\ kept.rbox = c.rbox
  <2> HIDE DEF box
  <2> QED
    BY DEF Sound, Shaped
<1>7. box = Append(c.rbox, p)
  BY <1>6
<1> HIDE DEF d, box, kept
<1>8. Spoken(c) /\ Mute(c.ev)
  BY DEF Spoken, Mute
<1>9. Sound(d)
  <2>1. d.pcb.fin = c.pcb.fin \/ (p = EOF /\ c.pcb.st = "open")
    BY <1>6
  <2>2. d.rbox = Append(c.rbox, p) /\ d.pcb.given \in Int
    BY <1>2, <1>6, <1>7
  <2>3. Back(c, d)
    BY ONLY <1>6, <1>8, <2>1, <2>2, PostBack, p \in Packets, Sound(c)
  <2> QED
    BY <2>3 DEF Back
<1> DEFINE e == SafeErr(d, "OK")
<1>10. /\ Sound(e) /\ e.ev = d.ev /\ e.state = d.state /\ e.rvalid = d.rvalid /\ e.rbox = d.rbox /\ e.pcb = d.pcb
       /\ e.id = d.id /\ e.abox = d.abox
  BY <1>9, SafeErrKeeps
<1>11. /\ e.avalid = d.avalid /\ e.cur = d.cur
       /\ e.err = d.err \/ (e.err = "OK" /\ d.err \notin Fatal)
  BY <1>6 DEF SafeErr, Shaped
<1> HIDE DEF e
<1>12. Tally(c, Posts(kept, p))
  BY <1>3, <1>6, <1>7, <1>10, <1>11, PostTallies DEF e
<1>13. Tally(c, SafeErr(c, "OK"))
  <2>1. Tally(c, c) /\ ~Posted(c.ev)
    BY TameTallies DEF Tame, Calm, Posted
  <2> QED
    BY <2>1, SafeErrTallies
<1> QED
  BY <1>1, <1>5, <1>12, <1>13, ErrTcpTallies DEF Fatal

\* LwipNetconn.RecvTcpFin
LEMMA RecvTcpFinTallies ==
  ASSUME NEW c, Sound(c), Plain(c), c.ev = <<>>, ~c.avalid, c.pcb.st = "open"
  PROVE  Tally(c, RecvTcpFin(c))
<1> DEFINE q == ~c.pcb.txShut
           d == [c EXCEPT !.pcb.fin = TRUE, !.pcb.passive = q]
           lost == [d EXCEPT !.pcb.eofLost = TRUE]
           box == Append(d.rbox, EOF)
           e == [d EXCEPT !.rbox = box]
<1>1. \/ RecvTcpFin(c) = d
      \/ RecvTcpFin(c) = SafeErr(lost, "OK")
      \/ RecvTcpFin(c) = Posts(d, EOF)
  BY Zenon DEF RecvTcpFin
<1>2. Posts(d, EOF) = Out(SafeErr(e, "OK"), <<Event("RCVPLUS")>>)
  BY Zenon DEF Posts
<1> HIDE DEF q
<1>3. /\ Shaped(d) /\ d.id = c.id /\ d.type = c.type /\ d.socket = c.socket /\ d.state = c.state
      /\ d.err = c.err /\ d.rbox = c.rbox /\ d.rvalid = c.rvalid /\ d.abox = c.abox
      /\ d.avalid = c.avalid /\ d.nbConnect = c.nbConnect /\ d.cur = c.cur
      /\ d.recvTimeout = c.recvTimeout /\ d.ev = c.ev /\ d.pcb.st = c.pcb.st
      /\ d.pcb.recv = c.pcb.recv /\ d.pcb.txShut = c.pcb.txShut /\ d.pcb.eofLost = c.pcb.eofLost
      /\ d.pcb.given = c.pcb.given /\ d.pcb.fin
  BY DEF Sound, Shaped
<1> HIDE DEF d
<1>4. /\ Shaped(lost) /\ lost.id = c.id /\ lost.type = c.type /\ lost.socket = c.socket
      /\ lost.state = c.state /\ lost.err = c.err /\ lost.rbox = c.rbox /\ lost.rvalid = c.rvalid
      /\ lost.abox = c.abox /\ lost.avalid = c.avalid /\ lost.nbConnect = c.nbConnect
      /\ lost.cur = c.cur /\ lost.ev = c.ev /\ lost.pcb.st = c.pcb.st /\ lost.pcb.recv = c.pcb.recv
      /\ lost.pcb.txShut = c.pcb.txShut /\ lost.pcb.eofLost /\ lost.pcb.given = c.pcb.given
  BY <1>3 DEF Shaped
<1>5. /\ Shaped(e) /\ e.id = c.id /\ e.type = c.type /\ e.socket = c.socket /\ e.state = c.state
      /\ e.err = c.err /\ e.rbox = box /\ e.rvalid = c.rvalid /\ e.abox = c.abox
      /\ e.avalid = c.avalid /\ e.nbConnect = c.nbConnect /\ e.cur = c.cur
      /\ e.recvTimeout = c.recvTimeout /\ e.ev = c.ev /\ e.pcb = d.pcb
  <2> HIDE DEF box
  <2> QED
    BY <1>3 DEF Shaped
<1>6. box = Append(c.rbox, EOF)
  BY <1>3
<1> HIDE DEF lost, e, box
<1>7. Tally(c, d)
  <2>1. Tame(c, d)
    BY <1>3 DEF Tame, Calm, Plain, Exact, Doomed
  <2> QED
    BY <2>1, TameTallies
<1>8. Tally(c, SafeErr(lost, "OK"))
  <2>1. Tame(c, lost)
    BY <1>4 DEF Tame, Calm, Plain, Exact, Doomed
  <2>2. ShutdownRefused(lost) <=> ShutdownRefused(c)
    BY <1>4 DEF ShutdownRefused
  <2>3. Sound(lost) /\ ~Posted(lost.ev)
    BY <1>4, <2>2 DEF Sound, Posted
  <2> QED
    BY <2>1, <2>3, TameTallies, SafeErrTallies
<1>9. EOF \in Packets
  BY DEF EOF, Packets
<1>10. Sound(e)
  <2>1. Spoken(c) /\ Mute(c.ev)
    BY DEF Spoken, Mute
  <2>2. Back(c, e)
    BY <1>3, <1>5, <1>6, <1>9, <2>1, PostBack DEF Sound
  <2> QED
    BY <2>2 DEF Back
<1> DEFINE f == SafeErr(e, "OK")
<1>11. /\ Sound(f) /\ f.ev = e.ev /\ f.state = e.state /\ f.rvalid = e.rvalid /\ f.rbox = e.rbox /\ f.pcb = e.pcb
       /\ f.id = e.id /\ f.abox = e.abox
  BY <1>10, SafeErrKeeps
<1>12. /\ f.avalid = e.avalid /\ f.cur = e.cur
       /\ f.err = e.err \/ (f.err = "OK" /\ e.err \notin Fatal)
  BY <1>5 DEF SafeErr, Shaped
<1> HIDE DEF f
<1>13. Tally(c, Posts(d, EOF))
  BY <1>2, <1>3, <1>5, <1>6, <1>9, <1>11, <1>12, PostTallies DEF f
<1> QED
  BY <1>1, <1>7, <1>8, <1>13

\* What changes nothing that counts, and what it says next, in the middle of a write.
LEMMA EnteredCalm ==
  ASSUME NEW b, NEW c, NEW d, Entered(b, c), Calm(c.ev), Same(c, d), d.ev = c.ev
  PROVE  Entered(b, d) /\ Calm(d.ev)
  BY EnteredOn DEF Entered, Spoken, Same

\* LwipNetconn.WriteFinished
LEMMA WriteFinishedTame ==
  ASSUME NEW b, NEW c, NEW err \in Errs, Entered(b, c), Calm(c.ev), Plain(b), ~b.avalid, b.state # "close"
  PROVE  Tame(b, WriteFinished(c, err))
<1> DEFINE d == [c EXCEPT !.cur = NoMsg, !.state = "none"]
           e == Reply(d, err)
<1>1. WriteFinished(c, err) = e
  BY DEF WriteFinished
<1>2. /\ Shaped(d) /\ d.id = c.id /\ d.state = "none"
      /\ d.err = c.err /\ d.rbox = c.rbox /\ d.rvalid = c.rvalid /\ d.abox = c.abox
      /\ d.avalid = c.avalid /\ d.ev = c.ev /\ d.pcb = c.pcb
  BY DEF Entered, Shaped
<1> HIDE DEF d
<1>3. Spoken(d) /\ Calm(d.ev)
  BY <1>2 DEF Entered, Spoken
<1>4. Same(d, e) /\ Calm(e.ev)
  BY <1>2, <1>3, ReplyCalm
<1> HIDE DEF e
<1>5. Tame(b, e)
  BY <1>2, <1>4 DEF Tame, Same, Entered, Plain, Exact, Doomed, States
<1> QED
  BY <1>1, <1>5

\* LwipNetconn.WriteAnswered
LEMMA WriteAnsweredTame ==
  ASSUME NEW b, NEW c, NEW n, NEW dont, NEW err \in {"OK", "CONN", "MEM", "WOULDBLOCK"},
         Entered(b, c), Calm(c.ev), Plain(b), ~b.avalid, b.state # "close", c.state = "write"
  PROVE  Tame(b, WriteAnswered(c, n, err, dont))
<1> DEFINE room == c.pcb.room - n
           off == c.offset + n
           sent == IF err = "OK" THEN [c EXCEPT !.pcb.room = room, !.offset = off] ELSE c
           some == dont /\ n < c.cur.len
           cs == sent.checkSpace \/ some
           f == [sent EXCEPT !.checkSpace = cs]
           minus == <<Event("SENDMINUS")>>
           told == IF err = "CONN" \/ (~some /\ sent.pcb.room > SndLowat) THEN sent ELSE Out(f, minus)
           last == [told EXCEPT !.offset = 0]
<1>1. \/ WriteAnswered(c, n, err, dont) = WriteFinished(last, "OK")
      \/ WriteAnswered(c, n, err, dont) = told
      \/ WriteAnswered(c, n, err, dont) = WriteFinished(told, err)
  BY Zenon DEF WriteAnswered
<1>2. Harmless(minus) /\ minus \in Seq(Whats) /\ Quietly(minus)
  BY HarmlessOne DEF Evts
<1> HIDE DEF room, off, some, cs, minus
<1>3. Same(c, sent) /\ sent.ev = c.ev
  BY DEF Same, Entered, Shaped
<1> HIDE DEF sent
<1>4. Entered(b, sent) /\ Calm(sent.ev)
  BY <1>3, EnteredCalm
<1>5. Same(sent, f) /\ f.ev = sent.ev
  BY <1>3 DEF Same, Shaped
<1> HIDE DEF f
<1>6. Entered(b, f) /\ Calm(f.ev)
  BY <1>4, <1>5, EnteredCalm
<1>7. Entered(b, Out(f, minus)) /\ Same(f, Out(f, minus)) /\ Calm(Out(f, minus).ev)
  <2>1. Shaped(f) /\ Spoken(f)
    BY <1>6 DEF Entered
  <2>2. Calm(Out(f, minus).ev)
    BY <1>2, <1>6, <2>1, OutCalm
  <2>3. Entered(b, Out(f, minus)) /\ Same(f, Out(f, minus))
    BY <1>2, <1>6, EnteredOut
  <2> QED
    BY <2>2, <2>3
<1>8. Entered(b, told) /\ Same(c, told) /\ Calm(told.ev)
  BY <1>3, <1>4, <1>5, <1>7 DEF Same
<1> HIDE DEF told
<1>9. Same(told, last) /\ last.ev = told.ev
  BY <1>8 DEF Same, Shaped
<1> HIDE DEF last
<1>10. Entered(b, last) /\ Calm(last.ev)
  BY <1>8, <1>9, EnteredCalm
<1>11. Tame(b, WriteFinished(last, "OK")) /\ Tame(b, WriteFinished(told, err))
  BY <1>8, <1>10, WriteFinishedTame DEF Errs, Fatal
<1>12. Tame(b, told)
  BY <1>8 DEF Tame, Entered, Plain, Exact, Doomed, States, Same
<1> QED
  BY <1>1, <1>11, <1>12

\* LwipNetconn.DoWritemore
LEMMA DoWritemoreTame ==
  ASSUME NEW b, NEW c, NEW x, Entered(b, c), Calm(c.ev), Plain(b), ~b.avalid, b.state # "close", c.state = "write"
  PROVE  Tame(b, DoWritemore(c, x))
<1>1. ASSUME NEW n, NEW mem PROVE TcpWriteErr(c, n, mem) \in {"OK", "CONN", "MEM"}
  BY DEF TcpWriteErr
<1>2. Tame(b, WriteTimedOut(c))
  BY WriteFinishedTame DEF WriteTimedOut, Errs
<1> DEFINE left == c.cur.len - c.offset
           n == Least(left, c.pcb.room)
           dont == c.nonblock \/ c.cur.dont
           err == IF dont /\ n = 0 THEN "WOULDBLOCK" ELSE TcpWriteErr(c, n, x.mem)
<1>3. DoWritemore(c, x) = IF x.late THEN WriteTimedOut(c) ELSE WriteAnswered(c, n, err, dont)
  BY Zenon DEF DoWritemore
<1> HIDE DEF left, n, dont
<1>4. err \in {"OK", "CONN", "MEM", "WOULDBLOCK"}
  BY <1>1
<1> HIDE DEF err
<1> QED
  BY <1>2, <1>3, <1>4, WriteAnsweredTame

\* LwipNetconn.DoCloseInternal counts an end that nobody reads any more.
LEMMA DoCloseTallies ==
  ASSUME NEW c, NEW x, Shaped(c), c.rbox \in Seq(Packets), c.abox \in Seq(Conns),
         c.state = "close",
         c.pcb.st = "closed" => c.rbox = <<>> /\ (c.pcb.recv => c.rvalid \/ "rd" \in c.cur.how),
         c.ev = <<>>, ~c.avalid, c.pcb.st # "none", "rd" \in c.cur.how => ~c.rvalid
  PROVE  Tally(c, DoCloseInternal(c, x)) /\ ~Posted(DoCloseInternal(c, x).ev)
<1> DEFINE shut == c.cur.how
           close == shut = {"rd", "wr"}
           fin == "wr" \in shut /\ c.pcb.st = "open" /\ ~c.pcb.txShut /\ (close => c.pcb.wnd = Wnd)
           rec == c.pcb.recv /\ "rd" \notin shut
           cut == [c EXCEPT !.pcb.recv = rec]
           snt == cut.pcb.sent /\ "wr" \notin shut
           txs == cut.pcb.txShut \/ "wr" \in shut
           pcb == IF close THEN NoPcb ELSE [cut.pcb EXCEPT !.sent = snt, !.txShut = txs]
           done == [cut EXCEPT !.cur = NoMsg, !.state = "none", !.pcb = pcb]
           waiting == [cut EXCEPT !.pcb.sent = TRUE]
           a == IF close THEN <<Event("ERROR")>> ELSE <<>>
           r == IF "rd" \in shut THEN <<Event("RCVPLUS")>> ELSE <<>>
           w == IF "wr" \in shut THEN <<Event("SENDPLUS")>> ELSE <<>>
           what == a \o r \o w
<1>1. DoCloseInternal(c, x) = waiting \/ DoCloseInternal(c, x) = Reply(Out(done, what), "OK")
  BY Zenon DEF DoCloseInternal
<1>2. Quietly(what) /\ Neat(what) /\ (HasPlus(what) <=> "rd" \in shut) /\ ~HasPost(what)
  <2>1. /\ Quietly(a) /\ Neat(a) /\ ~HasPlus(a) /\ ~HasPost(a)
        /\ Quietly(r) /\ Neat(r) /\ (HasPlus(r) <=> "rd" \in shut) /\ ~HasPost(r)
        /\ Quietly(w) /\ Neat(w) /\ ~HasPlus(w) /\ ~HasPost(w)
    BY QuietlyOne, NeatOne DEF Evts
  <2> HIDE DEF a, r, w
  <2>2. Quietly(a \o r) /\ Neat(a \o r) /\ (HasPlus(a \o r) <=> "rd" \in shut) /\ ~HasPost(a \o r)
    BY <2>1, NeatJoins
  <2> QED
    BY <2>1, <2>2, NeatJoins
<1> HIDE DEF what
<1>3. rec <=> c.pcb.recv /\ "rd" \notin shut
  OBVIOUS
<1> HIDE DEF rec
<1>4. /\ Shaped(cut) /\ cut.state = "close"
      /\ cut.err = c.err /\ cut.rbox = c.rbox /\ cut.rvalid = c.rvalid /\ cut.abox = c.abox
      /\ cut.avalid = c.avalid /\ cut.cur = c.cur /\ cut.ev = <<>> /\ cut.pcb.st = c.pcb.st
      /\ cut.pcb.recv = rec
  BY DEF Shaped
<1> HIDE DEF cut
<1>5. Same(cut, waiting) /\ waiting.ev = <<>>
  BY <1>4 DEF Same, Shaped
<1> HIDE DEF waiting
<1>6. Tally(c, waiting) /\ ~Posted(waiting.ev)
  <2>1. Plain(waiting) /\ (Exact(waiting) => Exact(c)) /\ (Doomed(c) => Doomed(waiting))
    BY <1>3, <1>4, <1>5 DEF Same, Plain, Exact, Doomed, States
  <2>2. Boxed(waiting) = Boxed(c) /\ Boxed(c) \in Int
    BY <1>4, <1>5 DEF Same, Boxed
  <2>3. Tidy(waiting.ev) /\ ~Plussed(waiting.ev) /\ ~Posted(waiting.ev)
    BY <1>5 DEF Tidy, Plussed, Posted
  <2> QED
    BY <2>1, <2>2, <2>3 DEF Tally, One
<1>7. /\ Shaped(done) /\ done.id = c.id /\ done.state = "none"
      /\ done.err = c.err /\ done.rbox = c.rbox /\ done.rvalid = c.rvalid /\ done.abox = c.abox
      /\ done.avalid = c.avalid /\ done.ev = <<>> /\ done.pcb = pcb
  <2>1. "st" \in DOMAIN pcb /\ "recv" \in DOMAIN pcb /\ "fin" \in DOMAIN pcb /\ "txShut" \in DOMAIN pcb
        /\ "eofLost" \in DOMAIN pcb /\ "given" \in DOMAIN pcb
    <3> HIDE DEF snt, txs, close
    <3> QED
      BY <1>4 DEF Shaped, NoPcb, NewPcb
  <2>2. cut.id = c.id
    BY DEF cut, Shaped
  <2> HIDE DEF pcb
  <2> QED
    BY <1>4, <2>1, <2>2 DEF Shaped
<1>8. IF close THEN pcb.st = "none" ELSE pcb.st = c.pcb.st /\ pcb.recv = rec
  <2> HIDE DEF snt, txs, close
  <2> QED
    BY <1>4 DEF Shaped, NoPcb, NewPcb
<1> HIDE DEF done, pcb
<1>9. /\ Boxed(done) = Boxed(c) /\ Boxed(c) \in Int /\ Plain(done) /\ (Exact(done) => Exact(c) /\ "rd" \notin shut)
      /\ (Doomed(c) => done.pcb.st = "none")
  BY <1>3, <1>7, <1>8 DEF Boxed, Plain, Exact, Doomed, States
<1> DEFINE e == Out(done, what)
<1>10. Tidy(e.ev) /\ (Plussed(e.ev) <=> "rd" \in shut) /\ ~Posted(e.ev)
  BY <1>2, <1>7, OutFirst DEF HasPlus, HasPost
<1>11. Same(done, e) /\ Spoken(e)
  <2>1. what \in Seq(Whats) /\ Spoken(done)
    BY <1>2, <1>7 DEF Quietly, Spoken
  <2>2. e.ev \in Seq({done.id} \X Whats)
    BY <1>7, <2>1, OutSaid
  <2> DEFINE ev == done.ev \o [i \in DOMAIN what |-> <<done.id, what[i]>>]
  <2>3. e = [done EXCEPT !.ev = ev]
    BY DEF Out
  <2> HIDE DEF ev, e
  <2>4. Same(done, e)
    BY <1>7, <2>3 DEF Same, Shaped
  <2> QED
    BY <2>2, <2>4 DEF Spoken, Same
<1> HIDE DEF e
<1>12. Tally(c, e)
  <2>1. /\ Boxed(e) = Boxed(done) /\ (Exact(e) <=> Exact(done)) /\ (Plain(e) <=> Plain(done))
        /\ e.pcb.st = done.pcb.st
    BY <1>11, SameCounts DEF Same
  <2> QED
    BY <1>9, <1>10, <2>1 DEF Tally, One
<1>13. Tally(c, Reply(e, "OK")) /\ ~Posted(Reply(e, "OK").ev)
  <2>1. Same(e, Reply(e, "OK"))
    BY <1>11, ReplyCalm DEF Errs, Same
  <2>2. /\ Tidy(e.ev) => Tidy(Reply(e, "OK").ev)
        /\ Plussed(Reply(e, "OK").ev) <=> Plussed(e.ev)
        /\ Posted(Reply(e, "OK").ev) <=> Posted(e.ev)
    BY <1>11, HarmlessOne, OutHarmless DEF Same, Reply, Errs
  <2> QED
    BY <1>10, <1>12, <2>1, <2>2, TallyOn DEF Tally
<1> QED
  BY <1>1, <1>6, <1>13 DEF e

\* LwipNetconn.Resume
LEMMA ResumeTallies ==
  ASSUME NEW c, NEW x, Sound(c), Plain(c), c.ev = <<>> PROVE Tally(c, Resume(c, x))
<1>1. Spoken(c) /\ Mute(c.ev) /\ Calm(c.ev) /\ (~Posted(c.ev))
  BY DEF Spoken, Mute, Calm, Posted
<1>2. CASE c.state = "write"
  <2>1. Entered(c, c) /\ ~c.avalid
    BY <1>1, <1>2 DEF Sound, Entered, Plain
  <2>2. Tame(c, DoWritemore(c, x))
    BY <1>1, <1>2, <2>1, DoWritemoreTame
  <2> QED
    BY <1>2, <2>2, TameTallies DEF Resume
<1>3. CASE c.state = "close"
  <2>1. /\ ~c.avalid /\ c.pcb.st # "none" /\ ("rd" \in c.cur.how => ~c.rvalid) /\ Shaped(c)
        /\ c.rbox \in Seq(Packets) /\ c.abox \in Seq(Conns)
        /\ c.pcb.st = "closed" => c.rbox = <<>> /\ (c.pcb.recv => c.rvalid)
    BY <1>3 DEF Sound, Plain
  <2>2. Tally(c, DoCloseInternal(c, x))
    BY <1>3, <2>1, DoCloseTallies
  <2> QED
    BY <1>3, <2>2 DEF Resume
<1>4. CASE c.state \notin {"write", "close"}
  <2>1. Resume(c, x) = c
    BY <1>4 DEF Resume
  <2>2. Tame(c, c)
    BY <1>1 DEF Tame
  <2> QED
    BY <2>1, <2>2, TameTallies
<1> QED
  BY <1>2, <1>3, <1>4

\* LwipNetconn.TellWritable
LEMMA TellWritableTallies ==
  ASSUME NEW c, NEW d, Tally(c, d), Sound(d), Spoken(d) PROVE Tally(c, TellWritable(d))
<1> DEFINE e == [d EXCEPT !.checkSpace = FALSE]
<1>1. TellWritable(d) = d \/ TellWritable(d) = Out(e, <<Event("SENDPLUS")>>)
  BY Zenon DEF TellWritable
<1>2. Same(d, e) /\ e.ev = d.ev
  BY DEF Same, Sound, Shaped
<1> HIDE DEF e
<1>3. Tally(c, e)
  BY <1>2, TallyOn DEF Tally
<1>4. Sound(e) /\ Spoken(e)
  BY <1>2, SameSound DEF Same, Spoken
<1> QED
  BY <1>1, <1>3, <1>4, TallyOut DEF Evts

\* LwipNetconn.PollTcp
LEMMA PollTcpTallies ==
  ASSUME NEW c, NEW x, Sound(c), Plain(c), c.ev = <<>> PROVE Tally(c, PollTcp(c, x))
<1>1. Spoken(c) /\ Mute(c.ev)
  BY DEF Spoken, Mute
<1>2. Tally(c, Resume(c, x)) /\ Sound(Resume(c, x)) /\ Spoken(Resume(c, x))
  BY <1>1, ResumeTallies, ResumeBack DEF Back
<1> QED
  BY <1>2, TellWritableTallies DEF PollTcp

\* LwipNetconn.SentTcp
LEMMA SentTcpTallies ==
  ASSUME NEW c, NEW x, Sound(c), Plain(c), c.ev = <<>> PROVE Tally(c, SentTcp(c, x))
<1> DEFINE d == [c EXCEPT !.pcb.room = SndBuf]
           e == TellWritable(Resume(d, x))
<1>1. SentTcp(c, x) = e
  BY DEF SentTcp
<1>2. Same(c, d) /\ d.ev = <<>>
  BY DEF Same, Sound, Shaped
<1> HIDE DEF d
<1>3. Sound(d) /\ Spoken(d) /\ Mute(d.ev) /\ Plain(d)
  <2>1. Posted(c.ev) => Posted(d.ev)
    BY DEF Posted
  <2> QED
    BY <1>2, <2>1, SameSound, SameCounts DEF Spoken, Mute
<1>4. Tally(d, Resume(d, x)) /\ Sound(Resume(d, x)) /\ Spoken(Resume(d, x))
  BY <1>2, <1>3, ResumeTallies, ResumeBack DEF Back
<1>5. Tally(d, e)
  BY <1>4, TellWritableTallies
<1> HIDE DEF e
<1>6. /\ Boxed(d) = Boxed(c) /\ (Exact(d) <=> Exact(c)) /\ (Plain(d) <=> Plain(c)) /\ (Doomed(d) <=> Doomed(c))
  BY <1>2, SameCounts
<1>7. Tally(c, e)
  BY <1>5, <1>6 DEF Tally
<1> QED
  BY <1>1, <1>7

-----------------------------------------------------------------------------
(* What messages count.                                                    *)

\* A reply that changes nothing.
LEMMA ReplyTame ==
  ASSUME NEW c, NEW d, NEW err \in Errs, Shaped(d), d.ev = <<>>, Plain(d), d.rbox = c.rbox, d.abox = c.abox,
         Exact(d) => Exact(c), ~Doomed(c)
  PROVE  Tame(c, Reply(d, err)) /\ Reply(d, err).pcb.st = d.pcb.st /\ (Doomed(Reply(d, err)) <=> Doomed(d))
<1>1. Spoken(d) /\ Calm(d.ev)
  BY DEF Spoken, Calm
<1> DEFINE e == Reply(d, err)
<1>2. Same(d, e) /\ Calm(e.ev)
  BY <1>1, ReplyCalm
<1> HIDE DEF e
<1>3. /\ Boxed(e) = Boxed(d) /\ (Exact(e) <=> Exact(d)) /\ (Plain(e) <=> Plain(d))
      /\ (Doomed(e) <=> Doomed(d))
  BY <1>2, SameCounts
<1>4. Tame(c, e) /\ e.pcb.st = d.pcb.st /\ (Doomed(e) <=> Doomed(d))
  BY <1>2, <1>3 DEF Tame, Same
<1> QED
  BY <1>4 DEF e

\* A netconn as a message finds it.
Asked(c) == Sound(c) /\ Plain(c) /\ c.ev = <<>> /\ ~Busy(c)

\* What a message leaves, and how it answers.
LEMMA ReplyTallies ==
  ASSUME NEW c, NEW err \in Errs, Asked(c) PROVE Tally(c, Reply(c, err)) /\ Tame(c, Reply(c, err))
<1>1. ~Doomed(c) /\ Shaped(c)
  BY DEF Asked, Busy, Doomed, Sound
<1> QED
  BY <1>1, ReplyTame, TameTallies DEF Asked

\* LwipNetconn.DoSend, DoGetaddr and DoRecv
LEMMA AnswersTally ==
  ASSUME NEW c, NEW msg, NEW x, Asked(c)
  PROVE  Tally(c, DoSend(c, msg, x)) /\ Tally(c, DoGetaddr(c, msg, x)) /\ Tally(c, DoRecv(c, msg, x))
<1>1. Tally(c, DoSend(c, msg, x))
  <2> DEFINE err == IF c.err \in Fatal THEN c.err ELSE IF c.pcb.st = "none" THEN "CONN"
                    ELSE IF x.mem THEN "OK" ELSE "MEM"
  <2>1. DoSend(c, msg, x) = Reply(c, err)
    BY Zenon DEF DoSend
  <2>2. err \in Errs
    BY DEF Errs, Fatal
  <2> HIDE DEF err
  <2> QED
    BY <2>1, <2>2, ReplyTallies
<1>2. Tally(c, DoGetaddr(c, msg, x))
  <2> DEFINE err == IF c.pcb.st = "none" THEN "CONN" ELSE "OK"
  <2>1. DoGetaddr(c, msg, x) = Reply(c, err)
    BY Zenon DEF DoGetaddr
  <2>2. err \in Errs
    BY DEF Errs, Fatal
  <2> HIDE DEF err
  <2> QED
    BY <2>1, <2>2, ReplyTallies
<1>3. Tally(c, DoRecv(c, msg, x))
  <2> DEFINE w == Least(Wnd, c.pcb.wnd + msg.len)
             d == [c EXCEPT !.pcb.wnd = w]
  <2>1. DoRecv(c, msg, x) = Reply(c, "OK") \/ DoRecv(c, msg, x) = Reply(d, "OK")
    BY Zenon DEF DoRecv, TcpRecved
  <2> HIDE DEF w
  <2>2. Same(c, d) /\ d.ev = <<>>
    BY DEF Same, Asked, Sound, Shaped
  <2> HIDE DEF d
  <2>3. ~Doomed(c) /\ (Exact(d) <=> Exact(c)) /\ (Plain(d) <=> Plain(c))
    BY <2>2, SameCounts DEF Asked, Busy, Doomed
  <2>4. Tame(c, Reply(d, "OK"))
    BY <2>2, <2>3, ReplyTame DEF Same, Asked, Errs
  <2> QED
    BY <2>1, <2>4, ReplyTallies, TameTallies DEF Asked, Errs
<1> QED
  BY <1>1, <1>2, <1>3

\* LwipNetconn.DoOption
LEMMA DoOptionTallies ==
  ASSUME NEW c, NEW msg, NEW x, Asked(c)
  PROVE  Tally(c, DoOption(c, msg, x)) \/ Lost(DoOption(c, msg, x))
<1> DEFINE s == c.sendTimeout \/ msg.how = "sndtimeo"
           r == c.recvTimeout \/ msg.how = "rcvtimeo"
           d == [c EXCEPT !.sendTimeout = s, !.recvTimeout = r]
           f == [c EXCEPT !.fail = "option of no pcb"]
<1>1. DoOption(c, msg, x) = f \/ DoOption(c, msg, x) = Reply(d, "OK")
  BY Zenon DEF DoOption, Fails
<1>2. Lost(f)
  BY DEF Lost, Asked, Sound, Shaped
<1> HIDE DEF s, r, f
<1>3. /\ Shaped(d) /\ d.state = c.state
      /\ d.err = c.err /\ d.rbox = c.rbox /\ d.rvalid = c.rvalid /\ d.abox = c.abox
      /\ d.avalid = c.avalid /\ d.cur = c.cur /\ d.ev = <<>> /\ d.pcb = c.pcb
  BY DEF Asked, Sound, Shaped
<1> HIDE DEF d
<1>4. Tally(c, Reply(d, "OK"))
  <2>1. Plain(d) /\ (Exact(d) => Exact(c)) /\ ~Doomed(c)
    BY <1>3 DEF Asked, Plain, Exact, Doomed, Busy
  <2>2. Tame(c, Reply(d, "OK"))
    BY <1>3, <2>1, ReplyTame DEF Errs
  <2> QED
    BY <2>2, TameTallies DEF Asked
<1> QED
  BY <1>1, <1>2, <1>4

\* LwipNetconn.DoConnect
LEMMA DoConnectTallies ==
  ASSUME NEW c, NEW msg, NEW x, Asked(c) PROVE Tally(c, DoConnect(c, msg, x))
<1> DEFINE d == [c EXCEPT !.state = "connect", !.nbConnect = c.nonblock, !.pcb.st = "syn"]
           e == [d EXCEPT !.cur = msg]
<1>1. \/ \E err \in Errs : DoConnect(c, msg, x) = Reply(c, err)
      \/ DoConnect(c, msg, x) = Reply(d, "INPROGRESS") \/ DoConnect(c, msg, x) = e
  <2>1. "CLSD" \in Errs /\ "OK" \in Errs /\ "ISCONN" \in Errs
    BY DEF Errs, Fatal
  <2>2. DoConnect(c, msg, x) =
          IF c.pcb.st = "none" THEN Reply(c, "CLSD")
          ELSE IF c.type = "udp" THEN Reply(c, "OK")
          ELSE IF c.state # "none" \/ c.pcb.st # "closed" THEN Reply(c, "ISCONN")
          ELSE IF c.nonblock THEN Reply(d, "INPROGRESS") ELSE e
    BY Zenon DEF DoConnect
  <2> HIDE DEF d, e
  <2> QED
    BY <2>1, <2>2
<1>2. c.state = "none" \/ \E err \in Errs : DoConnect(c, msg, x) = Reply(c, err)
  <2>1. "CLSD" \in Errs /\ "OK" \in Errs /\ "ISCONN" \in Errs
    BY DEF Errs, Fatal
  <2>2. c.state # "none" => \/ DoConnect(c, msg, x) = Reply(c, "CLSD") \/ DoConnect(c, msg, x) = Reply(c, "OK")
                            \/ DoConnect(c, msg, x) = Reply(c, "ISCONN")
    BY Zenon DEF DoConnect
  <2> QED
    BY <2>1, <2>2
<1>3. /\ Shaped(d) /\ d.state = "connect" /\ d.err = c.err /\ d.rbox = c.rbox /\ d.rvalid = c.rvalid
      /\ d.abox = c.abox /\ d.avalid = c.avalid /\ d.ev = <<>> /\ d.pcb.st = "syn" /\ d.pcb.recv = c.pcb.recv
  BY DEF Asked, Sound, Shaped
<1>4. /\ e.state = "connect" /\ e.err = c.err /\ e.rbox = c.rbox /\ e.rvalid = c.rvalid
      /\ e.abox = c.abox /\ e.avalid = c.avalid /\ e.ev = <<>> /\ e.pcb.st = "syn" /\ e.pcb.recv = c.pcb.recv
  <2> HIDE DEF d
  <2> QED
    BY <1>3 DEF Shaped
<1> HIDE DEF d, e
<1>5. ASSUME c.state = "none" PROVE Tally(c, Reply(d, "INPROGRESS")) /\ Tally(c, e)
  <2>1. ~Doomed(c) /\ ~c.avalid
    BY <1>5 DEF Doomed, Asked, Plain
  <2>2. Plain(d) /\ (Exact(d) => Exact(c))
    BY <1>3, <2>1 DEF Plain, Exact, States
  <2>3. Tame(c, Reply(d, "INPROGRESS"))
    BY <1>3, <2>1, <2>2, ReplyTame DEF Errs
  <2>4. Tame(c, e)
    BY <1>4, <2>1 DEF Tame, Calm, Plain, Exact, States
  <2> QED
    BY <2>3, <2>4, TameTallies DEF Asked
<1>6. ASSUME \E err \in Errs : DoConnect(c, msg, x) = Reply(c, err) PROVE Tally(c, DoConnect(c, msg, x))
  BY <1>6, ReplyTallies
<1> QED
  BY <1>1, <1>2, <1>5, <1>6

\* LwipNetconn.DoListen: what the closed pcb received is nothing.
LEMMA DoListenTallies ==
  ASSUME NEW c, NEW msg, NEW x, Asked(c) PROVE Tally(c, DoListen(c, msg, x))
<1> DEFINE d == [c EXCEPT !.state = "listen", !.pcb.st = "listen", !.rvalid = FALSE, !.rbox = <<>>,
                          !.avalid = TRUE]
<1>1. \/ \E err \in Errs : DoListen(c, msg, x) = Reply(c, err)
      \/ /\ c.state = "none" /\ c.pcb.st = "closed"
         /\ DoListen(c, msg, x) = Reply(d, "OK")
  <2>1. "ARG" \in Errs /\ "CONN" \in Errs /\ "MEM" \in Errs /\ Fatal \subseteq Errs
    BY DEF Errs, Fatal
  <2>2. DoListen(c, msg, x) =
          IF c.err \in Fatal THEN Reply(c, c.err)
          ELSE IF c.pcb.st # "none" /\ c.type # "tcp" THEN Reply(c, "ARG")
          ELSE IF c.pcb.st = "none" \/ c.state # "none" THEN Reply(c, "CONN")
          ELSE IF c.pcb.st # "closed" \/ ~x.mem THEN Reply(c, "MEM") ELSE Reply(d, "OK")
    BY Zenon DEF DoListen
  <2> HIDE DEF d
  <2> QED
    BY <2>1, <2>2
<1>2. ASSUME c.state = "none", c.pcb.st = "closed" PROVE Tally(c, Reply(d, "OK"))
  <2>1. /\ Shaped(d) /\ d.state = "listen" /\ d.err = c.err /\ d.rbox = <<>> /\ d.abox = c.abox
        /\ d.ev = <<>> /\ d.pcb.st = "listen" /\ d.pcb.recv = c.pcb.recv
    BY DEF Asked, Sound, Shaped
  <2> HIDE DEF d
  <2>2. c.rbox = <<>> /\ (c.pcb.recv => c.rvalid) /\ ~Doomed(c)
    BY <1>2 DEF Asked, Plain, Doomed
  <2>3. Plain(d) /\ (Exact(d) => Exact(c))
    BY <2>1, <2>2 DEF Plain, Exact, States
  <2>4. Tame(c, Reply(d, "OK"))
    BY <2>1, <2>2, <2>3, ReplyTame DEF Errs
  <2> QED
    BY <2>4, TameTallies DEF Asked
<1>3. ASSUME \E err \in Errs : DoListen(c, msg, x) = Reply(c, err) PROVE Tally(c, DoListen(c, msg, x))
  BY <1>3, ReplyTallies
<1> QED
  BY <1>1, <1>2, <1>3

\* LwipNetconn.Takes that does not refuse.
LEMMA Taken ==
  ASSUME NEW b, NEW state, NEW msg, Shaped(b), Takes(b, state, msg).fail = "none"
  PROVE  LET t == Takes(b, state, msg) IN
         /\ Shaped(t) /\ t.state = state /\ t.cur = msg
         /\ t.id = b.id /\ t.type = b.type /\ t.err = b.err /\ t.rbox = b.rbox /\ t.rvalid = b.rvalid
         /\ t.abox = b.abox /\ t.avalid = b.avalid /\ t.ev = b.ev /\ t.pcb = b.pcb
<1> DEFINE t == [b EXCEPT !.state = state, !.cur = msg]
           f == [b EXCEPT !.fail = "already writing or closing"]
<1>1. Takes(b, state, msg) = t \/ Takes(b, state, msg) = f
  BY Zenon DEF Takes, Fails
<1>2. f.fail # "none"
  BY DEF Shaped
<1>3. /\ Shaped(t) /\ t.state = state /\ t.cur = msg
      /\ t.id = b.id /\ t.type = b.type /\ t.err = b.err /\ t.rbox = b.rbox /\ t.rvalid = b.rvalid
      /\ t.abox = b.abox /\ t.avalid = b.avalid /\ t.ev = b.ev /\ t.pcb = b.pcb
  BY DEF Shaped
<1> HIDE DEF t, f
<1> QED
  BY <1>1, <1>2, <1>3

\* LwipNetconn.Drained
LEMMA DrainedEmpty ==
  ASSUME NEW c, Sound(c)
  PROVE  LET d == Drained(c) IN
         /\ Shaped(d) /\ d.rbox = <<>> /\ d.abox = <<>> /\ ~d.rvalid /\ ~d.avalid /\ d.ev = c.ev
         /\ d.state = c.state /\ d.type = c.type /\ d.pcb.st = c.pcb.st /\ d.pcb.recv = c.pcb.recv
<1> DEFINE n == Bytes(c.rbox)
           w == Least(Wnd, c.pcb.wnd + n)
           r == [c EXCEPT !.pcb.wnd = w]
           b == IF c.type = "tcp" THEN r ELSE c
           d == [b EXCEPT !.rbox = <<>>, !.rvalid = FALSE, !.abox = <<>>, !.avalid = FALSE]
<1>1. Drained(c) = d
  BY Zenon DEF Drained, TcpRecved
<1> HIDE DEF w
<1>2. Same(c, r) /\ r.ev = c.ev
  BY DEF Same, Sound, Shaped
<1> HIDE DEF r
<1>3. Same(c, b) /\ b.ev = c.ev
  BY <1>2 DEF Same, Sound
<1> HIDE DEF b
<1>4. /\ Shaped(d) /\ d.type = b.type /\ d.state = b.state /\ d.rbox = <<>> /\ ~d.rvalid /\ d.abox = <<>>
      /\ ~d.avalid /\ d.ev = b.ev /\ d.pcb = b.pcb
  BY <1>3 DEF Same, Shaped
<1> HIDE DEF d
<1> QED
  BY <1>1, <1>3, <1>4 DEF Same

\* A close counts for the netconn it began with.
LEMMA TallyFrom ==
  ASSUME NEW c, NEW t, NEW d, Tally(t, d), Boxed(c) \in Int, Boxed(t) \in Int, Boxed(d) \in Int,
         Boxed(t) <= Boxed(c), ~Doomed(c), Exact(t) => Exact(c) /\ Boxed(t) = Boxed(c), ~Posted(d.ev)
  PROVE  Tally(c, d)
<1> DEFINE m == Boxed(c)
           n == Boxed(t)
           k == Boxed(d)
           p == Plussed(d.ev)
<1>1. m \in Int /\ n \in Int /\ k \in Int /\ n <= m
  OBVIOUS
<1>2. /\ Tidy(d.ev) /\ Plain(d) /\ (k <= n \/ (k = n + 1 /\ p)) /\ (Exact(d) => Exact(t) /\ k = n + One(p))
      /\ (Exact(t) => Exact(c) /\ n = m)
  BY DEF Tally
<1> HIDE DEF m, n, k, p
<1>3. k <= n \/ (k = n + 1 /\ p)
  BY <1>2
<1>4. k <= m \/ (k = m + 1 /\ p)
  BY <1>1, <1>3
<1>5. Exact(d) => Exact(c) /\ k = m + One(p)
  BY <1>2
<1> QED
  BY <1>2, <1>4, <1>5 DEF Tally, m, n, k, p

\* The mailboxes hold so many.
LEMMA BoxedCounts ==
  ASSUME NEW c, c.rbox \in Seq(Packets), c.abox \in Seq(Conns)
  PROVE  Boxed(c) \in Nat /\ (c.rbox = <<>> /\ c.abox = <<>> => Boxed(c) = 0)
<1>1. Len(c.rbox) \in Nat /\ Len(c.abox) \in Nat
  OBVIOUS
<1>2. c.rbox = <<>> /\ c.abox = <<>> => Len(c.rbox) = 0 /\ Len(c.abox) = 0
  OBVIOUS
<1> DEFINE m == Len(c.rbox)
           n == Len(c.abox)
<1>3. Boxed(c) = m + n
  BY DEF Boxed
<1>4. m \in Nat /\ n \in Nat /\ (c.rbox = <<>> /\ c.abox = <<>> => m = 0 /\ n = 0)
  BY <1>1, <1>2
<1> HIDE DEF m, n
<1> QED
  BY <1>3, <1>4

\* LwipNetconn.DoWrite
LEMMA DoWriteTallies ==
  ASSUME NEW c, NEW msg, NEW x, Asked(c) PROVE Tally(c, DoWrite(c, msg, x)) \/ Lost(DoWrite(c, msg, x))
<1> DEFINE t == Takes(c, "write", msg)
           go == IF t.fail # "none" THEN t ELSE DoWritemore(t, x)
<1>1. \/ \E err \in Errs : DoWrite(c, msg, x) = Reply(c, err)
      \/ c.state = "none" /\ c.pcb.st # "none" /\ DoWrite(c, msg, x) = go
  <2>1. "INPROGRESS" \in Errs /\ "CONN" \in Errs /\ Fatal \subseteq Errs
    BY DEF Errs, Fatal
  <2>2. DoWrite(c, msg, x) =
          IF c.err \in Fatal THEN Reply(c, c.err) ELSE IF c.state # "none" THEN Reply(c, "INPROGRESS")
          ELSE IF c.pcb.st = "none" THEN Reply(c, "CONN") ELSE go
    BY Zenon DEF DoWrite
  <2> HIDE DEF go
  <2> QED
    BY <2>1, <2>2
<1>2. ASSUME NEW err \in Errs, DoWrite(c, msg, x) = Reply(c, err) PROVE Tally(c, DoWrite(c, msg, x))
  BY <1>2, ReplyTallies
<1>3. ASSUME c.state = "none", c.pcb.st # "none", DoWrite(c, msg, x) = go, t.fail # "none"
      PROVE  Lost(DoWrite(c, msg, x))
  BY <1>3, TakesLost DEF Asked, Sound
<1>4. ASSUME c.state = "none", c.pcb.st # "none", DoWrite(c, msg, x) = go, t.fail = "none"
      PROVE  Tally(c, DoWrite(c, msg, x))
  <2>1. t.fail = "none" /\ go = DoWritemore(t, x)
    BY <1>4
  <2>2. Shaped(c) /\ Spoken(c) /\ Mute(c.ev) /\ c.type # "free"
    BY <1>4 DEF Asked, Sound, Spoken, Mute
  <2>3. Entered(c, t) /\ t.state = "write"
    BY <2>1, <2>2, TakesEntered
  <2>4. t.ev = <<>>
    BY <2>1, <2>2, Taken DEF Asked
  <2> HIDE DEF t
  <2>5. Calm(t.ev) /\ ~c.avalid /\ Plain(c) /\ c.state # "close" /\ Sound(c)
    BY <1>4, <2>4 DEF Calm, Asked, Plain
  <2>6. Tame(c, DoWritemore(t, x))
    BY <2>3, <2>5, DoWritemoreTame
  <2>7. Tally(c, DoWritemore(t, x))
    BY <2>5, <2>6, TameTallies
  <2> HIDE DEF go
  <2> QED
    BY <1>4, <2>1, <2>7
<1> QED
  BY <1>1, <1>2, <1>3, <1>4

\* A close, or a shutdown, of c, which b is drained or not.
LEMMA ClosesTally ==
  ASSUME NEW c, NEW b, NEW msg, NEW x, Asked(c), c.state \in {"none", "listen", "connect"}, c.pcb.st # "none",
         IF "rd" \in msg.how THEN b = Drained(c) ELSE b = c /\ c.state # "listen",
         Takes(b, "close", msg).fail = "none", Sound(DoCloseInternal(Takes(b, "close", msg), x))
  PROVE  LET d == DoCloseInternal(Takes(b, "close", msg), x)
         IN Tally(c, d) /\ (msg.how = {"rd", "wr"} => Doomed(d) \/ d.pcb.st = "none")
<1> DEFINE t == Takes(b, "close", msg)
           d == DoCloseInternal(t, x)
<1>1. Sound(c) /\ Shaped(c) /\ c.type # "free" /\ Plain(c) /\ c.ev = <<>>
  BY DEF Asked, Sound
<1>2. ~Doomed(c) /\ (c.state # "listen" => ~c.avalid)
  BY DEF Asked, Plain, Doomed, Busy
<1>3. LET e == Drained(c) IN
      /\ Shaped(e) /\ e.rbox = <<>> /\ e.abox = <<>> /\ ~e.rvalid /\ ~e.avalid /\ e.ev = c.ev
      /\ e.pcb.st = c.pcb.st /\ e.pcb.recv = c.pcb.recv
  BY <1>1, DrainedEmpty
<1>4. /\ Shaped(b) /\ b.rbox \in Seq(Packets) /\ b.abox \in Seq(Conns) /\ b.ev = <<>> /\ ~b.avalid
      /\ b.pcb.st = c.pcb.st /\ ("rd" \in msg.how => ~b.rvalid)
      /\ \/ b = c
         \/ b.rbox = <<>> /\ b.abox = <<>> /\ ~b.rvalid
  <2>1. CASE "rd" \in msg.how
    <3>1. b = Drained(c)
      BY <2>1
    <3>2. /\ Shaped(b) /\ b.rbox = <<>> /\ b.abox = <<>> /\ ~b.rvalid /\ ~b.avalid /\ b.ev = c.ev
          /\ b.pcb.st = c.pcb.st
      BY <1>3, <3>1, Zenon
    <3>3. b.rbox \in Seq(Packets) /\ b.abox \in Seq(Conns)
      BY <3>2
    <3> QED
      BY <1>1, <3>2, <3>3, Zenon
  <2>2. CASE "rd" \notin msg.how
    BY <1>1, <1>2, <2>2 DEF Sound
  <2> QED
    BY <2>1, <2>2
<1>5. Boxed(b) \in Nat /\ Boxed(c) \in Nat /\ (b = c \/ (Boxed(b) = 0 /\ ~b.rvalid /\ ~b.avalid))
  <2>1. Boxed(b) \in Nat /\ (b.rbox = <<>> /\ b.abox = <<>> => Boxed(b) = 0)
    BY <1>4, BoxedCounts
  <2>2. Boxed(c) \in Nat
    BY <1>1, BoxedCounts DEF Sound
  <2>3. b = c \/ (b.rbox = <<>> /\ b.abox = <<>> /\ ~b.rvalid /\ ~b.avalid)
    BY <1>4
  <2>4. CASE b = c
    BY <2>1, <2>2, <2>4, Zenon
  <2>5. CASE b.rbox = <<>> /\ b.abox = <<>> /\ ~b.rvalid /\ ~b.avalid
    BY <2>1, <2>2, <2>5
  <2> QED
    BY <2>3, <2>4, <2>5
<1>6. Boxed(b) <= Boxed(c) /\ (Exact(b) => Exact(c) /\ Boxed(b) = Boxed(c))
  <2>1. CASE b = c
    BY <1>5, <2>1
  <2>2. CASE b # c
    BY <1>5, <2>2 DEF Exact
  <2> QED
    BY <2>1, <2>2
<1>7. c.pcb.st = "closed" => b.rbox = <<>> /\ (b.pcb.recv => b.rvalid \/ "rd" \in msg.how)
  BY <1>1, <1>3 DEF Plain
<1> HIDE DEF t
<1>8. /\ Shaped(t) /\ t.state = "close" /\ t.cur = msg /\ t.err = b.err /\ t.rbox = b.rbox /\ t.rvalid = b.rvalid
      /\ t.abox = b.abox /\ t.avalid = b.avalid /\ t.ev = b.ev /\ t.pcb = b.pcb
  BY <1>4, Taken DEF t
<1>9. Tally(t, d) /\ ~Posted(d.ev)
  BY <1>4, <1>7, <1>8, DoCloseTallies
<1>10. Boxed(t) = Boxed(b) /\ (Exact(t) <=> Exact(b)) /\ (msg.how = {"rd", "wr"} => Doomed(t))
  BY <1>8 DEF Boxed, Exact, Doomed
<1>11. Boxed(d) \in Nat
  BY BoxedCounts DEF Sound, t
<1> HIDE DEF d
<1>12. Tally(c, d)
  <2>1. Boxed(t) \in Int /\ Boxed(c) \in Int /\ Boxed(d) \in Int /\ Boxed(t) <= Boxed(c)
    BY <1>5, <1>6, <1>10, <1>11
  <2>2. Exact(t) => Exact(c) /\ Boxed(t) = Boxed(c)
    BY <1>6, <1>10
  <2> QED
    BY <1>2, <1>9, <2>1, <2>2, TallyFrom
<1>13. msg.how = {"rd", "wr"} => Doomed(d) \/ d.pcb.st = "none"
  BY <1>9, <1>10 DEF Tally
<1> QED
  BY <1>12, <1>13 DEF d, t

\* LwipNetconn.DoClose
LEMMA DoCloseMessageTallies ==
  ASSUME NEW c, NEW msg, NEW x, Asked(c) PROVE Tally(c, DoClose(c, msg, x)) \/ Lost(DoClose(c, msg, x))
<1> DEFINE b == IF "rd" \in msg.how THEN Drained(c) ELSE c
           t == Takes(b, "close", msg)
           go == IF t.fail # "none" THEN t ELSE DoCloseInternal(t, x)
<1>1. \/ \E err \in Errs : DoClose(c, msg, x) = Reply(c, err)
      \/ /\ c.state \in {"none", "listen"} /\ c.pcb.st # "none" /\ DoClose(c, msg, x) = go
         /\ msg.how = {"rd", "wr"} \/ c.state # "listen"
  <2>1. "INPROGRESS" \in Errs /\ "CONN" \in Errs /\ "VAL" \in Errs
    BY DEF Errs, Fatal
  <2>2. DoClose(c, msg, x) =
          IF c.state \notin {"none", "listen"} THEN Reply(c, "INPROGRESS")
          ELSE IF c.pcb.st = "none" THEN Reply(c, "VAL")
          ELSE IF msg.how # {"rd", "wr"} /\ c.state = "listen" THEN Reply(c, "CONN") ELSE go
    BY Zenon DEF DoClose
  <2> HIDE DEF go
  <2> QED
    BY <2>1, <2>2
<1>2. ASSUME NEW err \in Errs, DoClose(c, msg, x) = Reply(c, err) PROVE Tally(c, DoClose(c, msg, x))
  BY <1>2, ReplyTallies
<1>3. ASSUME c.state \in {"none", "listen"}, c.pcb.st # "none", DoClose(c, msg, x) = go,
             msg.how = {"rd", "wr"} \/ c.state # "listen"
      PROVE  Tally(c, DoClose(c, msg, x)) \/ Lost(DoClose(c, msg, x))
  <2>1. CASE t.fail = "none"
    <3>1. go = DoCloseInternal(t, x)
      BY <2>1
    <3>2. Took(c, DoClose(c, msg, x)) \/ Lost(DoClose(c, msg, x))
      <4>1. Idle(c)
        BY DEF Asked, Idle, Sound, Spoken, Mute
      <4> QED
        BY <4>1, DoCloseMessageTook
    <3>3. IF "rd" \in msg.how THEN b = Drained(c) ELSE b = c /\ c.state # "listen"
      BY <1>3
    <3>4. t = Takes(b, "close", msg)
      OBVIOUS
    <3> HIDE DEF b, t, go
    <3> QED
      BY <1>3, <2>1, <3>1, <3>2, <3>3, <3>4, ClosesTally DEF Took
  <2>2. CASE t.fail # "none"
    <3>1. Shaped(b)
      BY DrainedEmpty DEF Asked, Sound
    <3> HIDE DEF b
    <3> QED
      BY <1>3, <2>2, <3>1, TakesLost
  <2> QED
    BY <2>1, <2>2
<1> QED
  BY <1>1, <1>2, <1>3

\* LwipNetconn.DoDelconn: the netconn is closed, or waits for nothing but that.
LEMMA DoDelconnTallies ==
  ASSUME NEW c, NEW msg, NEW x, Asked(c), "how" \in DOMAIN msg
  PROVE  LET d == DoDelconn(c, msg, x) IN (Tally(c, d) /\ (Doomed(d) \/ d.pcb.st = "none")) \/ Lost(d)
<1> DEFINE d == Drained(c)
           all == [msg EXCEPT !.how = {"rd", "wr"}]
           t == Takes(d, "close", all)
           e == [d EXCEPT !.pcb = NoPcb]
           what == <<Event("RCVPLUS"), Event("SENDPLUS")>>
<1>1. DoDelconn(c, msg, x) =
        IF c.state \notin {"none", "listen", "connect"} THEN Reply(c, "INPROGRESS")
        ELSE IF c.type = "tcp" /\ c.pcb.st # "none"
             THEN IF t.fail # "none" THEN t ELSE DoCloseInternal(t, x)
             ELSE Reply(Out(e, what), "OK")
  BY Zenon DEF DoDelconn
<1>2. all.how = {"rd", "wr"}
  OBVIOUS
<1> HIDE DEF all
<1>3. c.state \in {"none", "listen", "connect"} /\ Sound(c) /\ ~Doomed(c)
  BY DEF Asked, Plain, States, Busy, Doomed
<1>4. Idle(c)
  BY DEF Asked, Idle, Sound, Spoken, Mute
<1>5. Took(c, DoDelconn(c, msg, x)) \/ Lost(DoDelconn(c, msg, x))
  BY <1>4, DoDelconnTook
<1>6. CASE c.type = "tcp" /\ c.pcb.st # "none" /\ t.fail = "none"
  <2>1. t.fail = "none" /\ DoDelconn(c, msg, x) = DoCloseInternal(t, x)
    BY <1>1, <1>3, <1>6
  <2>2. t = Takes(d, "close", all) /\ d = Drained(c)
    OBVIOUS
  <2> HIDE DEF d, t
  <2> QED
    BY <1>2, <1>3, <1>5, <1>6, <2>1, <2>2, ClosesTally DEF Took
<1>7. CASE c.type = "tcp" /\ c.pcb.st # "none" /\ t.fail # "none"
  <2>1. Shaped(d)
    BY <1>3, DrainedEmpty
  <2> HIDE DEF d
  <2> QED
    BY <1>1, <1>3, <1>7, <2>1, TakesLost
<1>8. CASE ~(c.type = "tcp" /\ c.pcb.st # "none")
  <2>1. DoDelconn(c, msg, x) = Reply(Out(e, what), "OK")
    BY <1>1, <1>3, <1>8
  <2>2. /\ Shaped(d) /\ d.rbox = <<>> /\ d.abox = <<>> /\ ~d.rvalid /\ ~d.avalid /\ d.ev = <<>> /\ d.state = c.state
    BY <1>3, DrainedEmpty DEF Asked
  <2> HIDE DEF d
  <2>3. /\ Shaped(e) /\ e.state = c.state /\ e.rbox = <<>> /\ e.abox = <<>> /\ ~e.rvalid /\ ~e.avalid
        /\ e.ev = <<>> /\ e.pcb.st = "none"
    BY <2>2 DEF Shaped, NoPcb, NewPcb
  <2> HIDE DEF e
  <2>4. Quietly(what) /\ Neat(what) /\ ~HasPost(what)
    <3> DEFINE w1 == Event("RCVPLUS")
               w2 == Event("SENDPLUS")
    <3>1. \A ev \in Evts : Event(ev) \in Whats /\ Event(ev).op = "event" /\ Event(ev).evt = ev
      BY DEF Event, Whats
    <3>2. /\ w1 \in Whats /\ w1.op = "event" /\ w1.evt = "RCVPLUS"
          /\ w2 \in Whats /\ w2.op = "event" /\ w2.evt = "SENDPLUS"
      BY <3>1 DEF Evts
    <3>3. what = <<w1, w2>>
      OBVIOUS
    <3> HIDE DEF w1, w2, what
    <3>4. /\ what \in Seq(Whats) /\ DOMAIN what = {1, 2} /\ what[1] = w1 /\ what[2] = w2
      BY <3>2, <3>3
    <3> QED
      BY <3>2, <3>4 DEF Quietly, Neat, HasPost, IsPlus
  <2> HIDE DEF what
  <2>5. Spoken(e) /\ what \in Seq(Whats)
    BY <2>3, <2>4 DEF Spoken, Quietly
  <2> DEFINE o == Out(e, what)
             r == Reply(o, "OK")
  <2>6. Tidy(o.ev) /\ ~Posted(o.ev)
    BY <2>3, <2>4, OutFirst DEF HasPost
  <2>7. Same(e, o) /\ Spoken(o)
    <3>1. o.ev \in Seq({e.id} \X Whats)
      BY <2>3, <2>5, OutSaid
    <3> DEFINE ev == e.ev \o [i \in DOMAIN what |-> <<e.id, what[i]>>]
    <3>2. o = [e EXCEPT !.ev = ev]
      BY DEF Out
    <3> HIDE DEF ev, o
    <3>3. Same(e, o)
      BY <2>3, <3>2 DEF Same, Shaped
    <3> QED
      BY <3>1, <3>3 DEF Spoken, Same
  <2> HIDE DEF o
  <2>8. Same(o, r) /\ Tidy(r.ev) /\ ~Posted(r.ev)
    <3>1. "OK" \in Errs /\ Shaped(o)
      BY <2>7 DEF Errs, Same
    <3>2. Same(o, r)
      BY <2>7, <3>1, ReplyCalm
    <3>3. /\ Tidy(o.ev) => Tidy(r.ev)
          /\ Posted(r.ev) <=> Posted(o.ev)
      BY <2>7, <3>1, HarmlessOne, OutHarmless DEF Reply
    <3> QED
      BY <2>6, <3>2, <3>3
  <2> HIDE DEF r
  <2>9. /\ r.rbox = <<>> /\ r.abox = <<>> /\ ~r.rvalid /\ ~r.avalid /\ r.pcb.st = "none" /\ r.state = c.state
    BY <2>3, <2>7, <2>8 DEF Same
  <2>10. Plain(r) /\ ~Exact(r)
    BY <1>3, <2>9 DEF Plain, Exact, States
  <2>11. Boxed(r) = 0 /\ Boxed(c) \in Nat
    <3>1. r.rbox \in Seq(Packets) /\ r.abox \in Seq(Conns)
      BY <2>9
    <3>2. Boxed(r) = 0
      BY <2>9, <3>1, BoxedCounts
    <3> QED
      BY <1>3, <3>2, BoxedCounts DEF Sound
  <2>12. Tally(c, r)
    BY <2>8, <2>9, <2>10, <2>11 DEF Tally
  <2> QED
    BY <2>1, <2>9, <2>12 DEF r, o
<1> QED
  BY <1>6, <1>7, <1>8

\* LwipNetconn.Do: what a message leaves in the mailboxes.
LEMMA DoTallies ==
  ASSUME NEW c, NEW fn \in Fns, NEW msg, NEW x, Asked(c), "how" \in DOMAIN msg
  PROVE  LET d == Do(fn, c, msg, x) IN
         (Tally(c, d) /\ (fn = "delete" => Doomed(d) \/ d.pcb.st = "none")) \/ Lost(d)
<1>1. Lost(Fails(c, "freed pcb"))
  BY DEF Lost, Fails, Asked, Sound, Shaped
<1>2. \/ Do(fn, c, msg, x) = Fails(c, "freed pcb") \/ (fn = "delete" /\ Do(fn, c, msg, x) = DoDelconn(c, msg, x))
      \/ /\ fn # "delete"
         /\ \/ Do(fn, c, msg, x) = DoConnect(c, msg, x) \/ Do(fn, c, msg, x) = DoListen(c, msg, x)
            \/ Do(fn, c, msg, x) = DoRecv(c, msg, x) \/ Do(fn, c, msg, x) = DoWrite(c, msg, x)
            \/ Do(fn, c, msg, x) = DoSend(c, msg, x) \/ Do(fn, c, msg, x) = DoClose(c, msg, x)
            \/ Do(fn, c, msg, x) = DoGetaddr(c, msg, x) \/ Do(fn, c, msg, x) = DoOption(c, msg, x)
  BY Zenon DEF Do, Fns
<1> QED
  BY <1>1, <1>2, DoDelconnTallies, DoConnectTallies, DoListenTallies, AnswersTally, DoWriteTallies,
     DoCloseMessageTallies, DoOptionTallies

-----------------------------------------------------------------------------
(* The counters, step by step.                                             *)

\* Nothing is counted, fetched or received.
LEMMA CountsKept ==
  ASSUME Netconns, Counts, UNCHANGED todo,
         \A c \in Conns : /\ conn'[c].type = conn[c].type /\ conn'[c].socket = conn[c].socket
                          /\ conn'[c].pcb.st = conn[c].pcb.st /\ Boxed(conn'[c]) = Boxed(conn[c])
                          /\ Exact(conn'[c]) => Exact(conn[c])
                          /\ conn[c].err \in Fatal => conn'[c].err \in Fatal
                          /\ Plain(conn'[c]),
         \A s \in Socks : sock'[s].rcv = sock[s].rcv /\ sock'[s].conn = sock[s].conn,
         \A c \in Conns : Owes(c)' <=> Owes(c),
         \/ app' = app /\ conn' = conn /\ (app.pc = "acceptJoin" => app.s \in Socks)
         \/ app'.pc \notin {"acceptMinus", "acceptJoin", "wait", "back"}
  PROVE  Counts'
<1>1. \A c \in Conns : (Plus(c)' <=> Plus(c)) /\ (Post(c)' <=> Post(c))
  BY DEF Plus, Post
<1>2. Seated'
  BY DEF Counts, Seated
<1>3. ASSUME NEW c \in Conns, conn[c].type # "free" PROVE Rcv(c)' = Rcv(c)
  BY <1>3 DEF Counts, Seated, Rcv, Netconns, Sound
<1>4. ASSUME NEW c \in Conns, conn[c].type # "free" PROVE Balance(c)' = Balance(c)
  BY <1>1, <1>3, <1>4 DEF Balance, One
<1>5. Balanced'
  BY <1>1, <1>4 DEF Counts, Balanced, One
<1>6. Plainly'
  BY DEF Plainly
<1>7. Orderly'
  BY <1>1 DEF Counts, Orderly
<1>8. Fresh'
  BY DEF Counts, Fresh
<1>9. Deleted'
  <2>1. CASE app'.pc \notin {"acceptMinus", "acceptJoin", "wait", "back"}
    BY <2>1 DEF Deleted
  <2>2. CASE app' = app /\ conn' = conn
    BY <2>2 DEF Counts, Deleted, Plus, Post
  <2> QED
    BY <2>1, <2>2
<1> QED
  BY <1>2, <1>5, <1>6, <1>7, <1>8, <1>9 DEF Counts

\* A select counts only itself.
LEMMA SelectsCounts == ASSUME Good, Counts, NEW t \in Watchers, Selects(t) PROVE Counts'
<1>1. UNCHANGED <<conn, todo, app>>
  BY DEF Selects, Select, SelectEnlists, SelectCounts, SelectRescans, SelectWakes, SelectLeaves, SelectUnchanged
<1>2. \/ sock' = sock
      \/ \E n : sock' = [sock EXCEPT ![sel[t].s].waiting = n]
  <2>1. sock' = [sock EXCEPT ![sel[t].s].waiting = @ + 1] =>
          sock' = [sock EXCEPT ![sel[t].s].waiting = sock[sel[t].s].waiting + 1]
    OBVIOUS
  <2>2. sock' = [sock EXCEPT ![sel[t].s].waiting = @ - 1] =>
          sock' = [sock EXCEPT ![sel[t].s].waiting = sock[sel[t].s].waiting - 1]
    OBVIOUS
  <2> QED
    <3>1. (\E s, mode : Select(t, s, mode)) => sock' = sock
      BY DEF Select
    <3>2. SelectEnlists(t) \/ SelectRescans(t) \/ SelectWakes(t) => sock' = sock
      BY DEF SelectEnlists, SelectRescans, SelectWakes
    <3>3. SelectCounts(t) => \E n : sock' = [sock EXCEPT ![sel[t].s].waiting = n]
      BY <2>1 DEF SelectCounts
    <3>4. SelectLeaves(t) => \E n : sock' = [sock EXCEPT ![sel[t].s].waiting = n]
      BY <2>2 DEF SelectLeaves
    <3> QED
      BY <3>1, <3>2, <3>3, <3>4 DEF Selects
<1>3. \A s \in Socks : sock'[s].rcv = sock[s].rcv /\ sock'[s].conn = sock[s].conn
  <2>1. DOMAIN sock = Socks /\ (\A s \in Socks : SockShaped(sock[s])) /\ sel[t].s \in Socks
    BY DEF Good, Types, Selecting
  <2> DEFINE r == sel[t].s
  <2>2. ASSUME NEW n, sock' = [sock EXCEPT ![r].waiting = n]
        PROVE  \A s \in Socks : sock'[s].rcv = sock[s].rcv /\ sock'[s].conn = sock[s].conn
    <3> DEFINE k == [sock[r] EXCEPT !.waiting = n]
    <3>1. k.rcv = sock[r].rcv /\ k.conn = sock[r].conn
      BY <2>1 DEF SockShaped
    <3>2. sock' = [sock EXCEPT ![r] = k]
      BY <2>2
    <3> HIDE DEF k, r
    <3> QED
      BY <2>1, <3>1, <3>2
  <2> QED
    BY <1>2, <2>2
<1>4. app.pc = "acceptJoin" => app.s \in Socks
  BY DEF Good, Owned, Called
<1>5. \A c \in Conns : Owes(c)' <=> Owes(c)
  BY <1>1 DEF Owes
<1>6. \A c \in Conns : Plain(conn[c])
  BY DEF Counts, Plainly
<1> QED
  BY <1>1, <1>3, <1>4, <1>5, <1>6, CountsKept DEF Good

\* A step of a call that owes nothing, over a netconn that counts the same.
LEMMA AppCounts ==
  ASSUME Good, Counts, UNCHANGED todo,
         \A s \in Socks : sock'[s].rcv = sock[s].rcv /\ sock'[s].conn = sock[s].conn,
         NEW c \in Conns, NEW d, conn' = [conn EXCEPT ![c] = d],
         Same(conn[c], d) \/ \E err : d = SafeErr(conn[c], err),
         app'.pc \notin {"acceptJoin", "wait", "back", "minus", "acceptMinus"},
         app'.fn = "eof" => app'.pc \notin {"api"},
         \/ app.pc \notin {"minus", "acceptMinus", "api", "wait", "back"}
         \/ app.pc = "back" /\ app.fn # "eof"
  PROVE  Counts'
<1>1. \A i \in Conns : conn'[i] = IF i = c THEN d ELSE conn[i]
  BY DEF Good, Types
<1>2. Sound(conn[c]) /\ Plain(conn[c])
  BY DEF Good, Netconns, Counts, Plainly
<1>3. /\ d.type = conn[c].type /\ d.socket = conn[c].socket /\ d.pcb.st = conn[c].pcb.st
      /\ Boxed(d) = Boxed(conn[c]) /\ (Exact(d) => Exact(conn[c]))
      /\ (conn[c].err \in Fatal => d.err \in Fatal) /\ Plain(d)
  <2>1. CASE Same(conn[c], d)
    <3>1. /\ Boxed(d) = Boxed(conn[c]) /\ (Exact(d) <=> Exact(conn[c])) /\ (Plain(d) <=> Plain(conn[c]))
      BY <2>1, SameCounts
    <3> QED
      BY <1>2, <2>1, <3>1 DEF Same
  <2>2. ASSUME NEW err, d = SafeErr(conn[c], err)
        PROVE  /\ d.type = conn[c].type /\ d.socket = conn[c].socket /\ d.pcb = conn[c].pcb
               /\ d.rbox = conn[c].rbox /\ d.abox = conn[c].abox /\ d.rvalid = conn[c].rvalid
               /\ d.avalid = conn[c].avalid /\ d.state = conn[c].state
               /\ (conn[c].err \in Fatal => d.err = conn[c].err)
    BY <1>2, <2>2 DEF SafeErr, Sound, Shaped
  <2>3. ASSUME NEW err, d = SafeErr(conn[c], err)
        PROVE  /\ d.type = conn[c].type /\ d.socket = conn[c].socket /\ d.pcb.st = conn[c].pcb.st
               /\ Boxed(d) = Boxed(conn[c]) /\ (Exact(d) => Exact(conn[c]))
               /\ (conn[c].err \in Fatal => d.err \in Fatal) /\ Plain(d)
    BY <1>2, <2>2, <2>3 DEF Boxed, Exact, Plain
  <2> QED
    BY <2>1, <2>3
<1>4. \A i \in Conns : ~Owes(i) /\ ~Owes(i)'
  BY DEF Owes
<1>5. \A i \in Conns : Plain(conn[i])
  BY DEF Counts, Plainly
<1> QED
  BY <1>1, <1>3, <1>4, <1>5, CountsKept DEF Good

\* Such a step over no netconn.
LEMMA CallCounts ==
  ASSUME Good, Counts, UNCHANGED <<conn, todo>>,
         \A s \in Socks : sock'[s].rcv = sock[s].rcv /\ sock'[s].conn = sock[s].conn,
         app'.pc \notin {"acceptJoin", "wait", "back", "minus", "acceptMinus"},
         app'.fn = "eof" => app'.pc \notin {"api"},
         \/ app.pc \notin {"minus", "acceptMinus", "api", "wait", "back"}
         \/ app.pc = "back" /\ app.fn # "eof"
  PROVE  Counts'
<1>1. \A i \in Conns : ~Owes(i) /\ ~Owes(i)'
  BY DEF Owes
<1>2. \A i \in Conns : Plain(conn[i])
  BY DEF Counts, Plainly
<1> QED
  BY <1>1, <1>2, CountsKept DEF Good

\* A call begins.
LEMMA WorksCounts ==
  ASSUME Good, Counts, NEW s \in Socks, Works(s), \A type \in program.types : ~Socket(s, type)
  PROVE  Counts'
<1>1. ASSUME NEW fn \in Fns \ {"eof"}, NEW len, NEW dont, NEW how, UNCHANGED <<conn, sock, todo>>,
             app.pc = "idle", app' = Message(fn, s, len, dont, how)
      PROVE  Counts'
  <2>1. app'.pc = "api" /\ app'.fn = fn
    BY <1>1 DEF Message, NoCall
  <2> QED
    BY <1>1, <2>1, CallCounts
<1>2. {"connect", "listen", "send", "write", "close", "option", "delete"} \subseteq Fns \ {"eof"}
  BY DEF Fns
<1>3. Connect(s) => Counts'
  <2>1. Connect(s) => /\ UNCHANGED <<conn, sock, todo>> /\ app.pc = "idle"
                      /\ app' = Message("connect", s, 0, FALSE, {})
    BY DEF Connect, Asks, Begins, AppUnchanged
  <2> QED
    BY <1>1, <1>2, <2>1
<1>4. Listen(s) => Counts'
  <2>1. Listen(s) => /\ UNCHANGED <<conn, sock, todo>> /\ app.pc = "idle"
                     /\ app' = Message("listen", s, 0, FALSE, {})
    BY DEF Listen, Asks, Begins, AppUnchanged
  <2> QED
    BY <1>1, <1>2, <2>1
<1>5. Close(s) => Counts'
  <2>1. Close(s) => /\ UNCHANGED <<conn, sock, todo>> /\ app.pc = "idle"
                    /\ app' = Message("delete", s, 0, FALSE, {})
    BY DEF Close, Asks, Begins, AppUnchanged
  <2> QED
    BY <1>1, <1>2, <2>1
<1>6. ASSUME NEW how, Shutdown(s, how) PROVE Counts'
  <2>1. /\ UNCHANGED <<conn, sock, todo>> /\ app.pc = "idle"
        /\ app' = Message("close", s, 0, FALSE, how)
    BY <1>6 DEF Shutdown, Asks, Begins, AppUnchanged
  <2> QED
    BY <1>1, <1>2, <2>1
<1>7. ASSUME NEW o, Option(s, o) PROVE Counts'
  <2>1. /\ UNCHANGED <<conn, sock, todo>> /\ app.pc = "idle"
        /\ app' = Message("option", s, 0, FALSE, o)
    BY <1>7 DEF Option, Asks, Begins, AppUnchanged
  <2> QED
    BY <1>1, <1>2, <2>1
<1>8. ASSUME NEW len, NEW dont, Send(s, len, dont) PROVE Counts'
  <2>1. PICK fn \in {"write", "send"} : app' = Message(fn, s, len, dont, {})
    BY <1>8 DEF Send
  <2>2. UNCHANGED <<conn, sock, todo>> /\ app.pc = "idle"
    BY <1>8 DEF Send, Asks, Begins, AppUnchanged
  <2> QED
    BY <1>1, <1>2, <2>1, <2>2
<1>9. ASSUME NEW len, NEW dont, NEW peek, Recv(s, len, dont, peek) PROVE Counts'
  <2>1. /\ UNCHANGED <<conn, sock, todo>> /\ app.pc = "idle"
        /\ app' = [Message("recv", s, len, dont, {}) EXCEPT !.pc = "recv", !.peek = peek]
    BY <1>9 DEF Recv, Asks, Begins, AppUnchanged
  <2>2. app'.pc = "recv"
    BY <2>1 DEF Message, NoCall
  <2> QED
    BY <2>1, <2>2, CallCounts
<1>10. ASSUME Accept(s) PROVE Counts'
  <2> DEFINE call == [Message("accept", s, 0, FALSE, {}) EXCEPT !.pc = "acceptFetch"]
  <2>1. UNCHANGED <<conn, sock, todo>> /\ app.pc = "idle" /\ (app' = NoCall \/ app' = call)
    <3>1. Asks("accept", s) /\ (app' = NoCall \/ app' = call)
      BY <1>10, Zenon DEF Accept
    <3> QED
      BY <3>1 DEF Asks, Begins, AppUnchanged
  <2>2. call.pc = "acceptFetch" /\ NoCall.pc = "idle"
    BY DEF Message, NoCall
  <2> HIDE DEF call
  <2> QED
    BY <2>1, <2>2, CallCounts
<1>11. ASSUME SetNonblocking(s) PROVE Counts'
  <2> DEFINE i == sock[s].conn
             c == conn[i]
             nb == ~c.nonblock
             d == [c EXCEPT !.nonblock = nb]
  <2>1. /\ UNCHANGED <<sock, todo, app>> /\ app.pc = "idle" /\ InUse(s)
        /\ conn' = [conn EXCEPT ![i].nonblock = ~@]
    BY <1>11 DEF SetNonblocking, Begins, AppUnchanged
  <2>2. i \in Conns
    BY <2>1, SocketsAssumption DEF Good, Types, SockShaped, InUse, Conns
  <2>3. Sound(c)
    BY <2>2 DEF Good, Netconns
  <2>4. conn' = [conn EXCEPT ![i] = d]
    BY <2>1
  <2> HIDE DEF nb
  <2>5. Same(c, d)
    BY <2>3 DEF Sound, Shaped, Same
  <2> HIDE DEF d
  <2> QED
    BY <2>1, <2>2, <2>4, <2>5, AppCounts
<1> QED
  BY <1>3, <1>4, <1>5, <1>6, <1>7, <1>8, <1>9, <1>10, <1>11 DEF Works

\* How a read ends.
LEMMA ReturnPc ==
  ASSUME NEW a, AppShaped(a), app' = RecvReturn(a)
  PROVE  app'.pc \in {"idle", "api"} /\ app'.fn \in {"none", "recved"}
<1>1. RecvReturn(a) = NoCall \/ RecvReturn(a) = [a EXCEPT !.pc = "api", !.fn = "recved", !.len = a.off]
  BY DEF RecvReturn
<1>2. NoCall.pc = "idle" /\ NoCall.fn = "none"
  BY DEF NoCall
<1> DEFINE b == [a EXCEPT !.pc = "api", !.fn = "recved", !.len = a.off]
<1>3. b.pc = "api" /\ b.fn = "recved"
  BY DEF AppShaped
<1> HIDE DEF b
<1> QED
  BY <1>1, <1>2, <1>3 DEF b

\* lwip_recvfrom without its mailbox.
LEMMA RecvLoopCounts == ASSUME Good, Counts, RecvLoop PROVE Counts'
<1> DEFINE sk == sock[app.s]
           c == conn[app.c]
           copy == [app EXCEPT !.pc = "copy", !.buf = sk.last]
           fetch == [app EXCEPT !.pc = "fetch"]
           ret == RecvReturn(app)
<1>1. /\ UNCHANGED <<conn, sock, todo>> /\ app.pc = "recv"
      /\ app' = copy \/ app' = ret \/ app' = fetch
  <2>1. app' = IF sk.last # EOF THEN copy
               ELSE IF (app.dont \/ c.nonblock) /\ sk.rcv <= 0 THEN ret
               ELSE IF ~c.rvalid \/ c.err \in Fatal THEN ret ELSE fetch
    BY DEF RecvLoop
  <2> HIDE DEF copy, ret, fetch, c, sk
  <2> QED
    BY <2>1 DEF RecvLoop, At, Continues, AppUnchanged
<1>2. AppShaped(app)
  BY DEF Good, Types
<1>3. copy.pc = "copy" /\ fetch.pc = "fetch"
  BY <1>2 DEF AppShaped
<1> HIDE DEF copy, fetch
<1>4. app'.pc \in {"copy", "fetch"} \/ (app'.pc \in {"idle", "api"} /\ app'.fn \in {"none", "recved"})
  BY <1>1, <1>2, <1>3, ReturnPc
<1> QED
  BY <1>1, <1>4, CallCounts

\* The end of the stream is reported.
LEMMA RecvClosedCounts == ASSUME Good, Counts, RecvClosed PROVE Counts'
<1>1. /\ UNCHANGED <<sock, todo>> /\ app.pc = "closed" /\ app' = RecvReturn(app)
      /\ conn' = [conn EXCEPT ![app.c] = SafeErr(conn[app.c], "CLSD")]
  BY DEF RecvClosed, At, Continues, AppUnchanged
<1>2. AppShaped(app) /\ app.c \in Conns
  BY <1>1 DEF Good, Types, Proceeds
<1>3. app'.pc \in {"idle", "api"} /\ app'.fn \in {"none", "recved"}
  BY <1>1, <1>2, ReturnPc
<1> QED
  BY <1>1, <1>2, <1>3, AppCounts

\* The copy to the reader.
LEMMA RecvCopyCounts == ASSUME Good, Counts, RecvCopy PROVE Counts'
<1>1. /\ UNCHANGED <<conn, todo>> /\ app.pc = "copy"
      /\ \E n, done :
              LET read == [app EXCEPT !.off = @ + n, !.len = @ - n]
              IN app' = IF done THEN RecvReturn(read) ELSE [read EXCEPT !.pc = "recv"]
  BY Zenon DEF RecvCopy, At, Continues, AppUnchanged
<1>2. app.s \in Socks /\ AppShaped(app)
  BY <1>1, OnSocket
<1>3. \A s \in Socks : sock'[s].rcv = sock[s].rcv /\ sock'[s].conn = sock[s].conn
  <2>1. DOMAIN sock = Socks /\ \A s \in Socks : SockShaped(sock[s])
    BY DEF Good, Types
  <2> DEFINE sk == sock[app.s]
             p == app.buf
             n == Least(app.len, p.len - sk.lastoff)
             o == sk.lastoff + n
             off == [sk EXCEPT !.last = EOF, !.lastoff = 0]
             left == [sk EXCEPT !.last = p, !.lastoff = o]
             peek == [sk EXCEPT !.last = p]
             tcp == conn[app.c].type = "tcp"
             k == IF app.peek THEN peek ELSE IF tcp THEN Leftover(sk, p, n) ELSE off
  <2>2. sock' = [sock EXCEPT ![app.s] = k]
    BY DEF RecvCopy
  <2>3. k = off \/ k = left \/ k = peek
    BY Zenon DEF Leftover
  <2> HIDE DEF o, n, k
  <2>4. k.conn = sock[app.s].conn /\ k.rcv = sock[app.s].rcv
    BY <1>2, <2>1, <2>3 DEF SockShaped
  <2> QED
    BY <1>2, <2>1, <2>2, <2>4
<1>4. app'.pc \in {"idle", "api", "recv"} /\ app'.fn # "eof"
  <2>0. app.fn = "recv"
    BY <1>1 DEF Good, Types, Proceeds
  <2>1. PICK n, done : app' = IF done THEN RecvReturn([app EXCEPT !.off = @ + n, !.len = @ - n])
                              ELSE [[app EXCEPT !.off = @ + n, !.len = @ - n] EXCEPT !.pc = "recv"]
    BY <1>1
  <2> DEFINE read == [app EXCEPT !.off = @ + n, !.len = @ - n]
             again == [read EXCEPT !.pc = "recv"]
  <2>2. AppShaped(read) /\ read.fn = "recv"
    BY <1>2, <2>0 DEF AppShaped
  <2>3. app' = RecvReturn(read) \/ app' = again
    BY <2>1
  <2> HIDE DEF read
  <2>4. again.fn = "recv" /\ again.pc = "recv"
    BY <2>2 DEF AppShaped
  <2> HIDE DEF again
  <2> QED
    BY <2>2, <2>3, <2>4, ReturnPc
<1> QED
  BY <1>1, <1>3, <1>4, CallCounts

\* tcpip_apimsg returns, but from the delete.
LEMMA ReturnsCounts == ASSUME Good, Counts, Returns, app.fn # "delete" PROVE Counts'
<1> DEFINE told == conn' = [conn EXCEPT ![app.c] = SafeErr(conn[app.c], app.err)]
           minus == [app EXCEPT !.pc = "minus"]
           alloc == [app EXCEPT !.pc = "acceptAlloc"]
           delete == [app EXCEPT !.pc = "api", !.fn = "delete", !.s = NumSockets]
<1>1. /\ UNCHANGED <<sock, todo>> /\ app.pc = "back"
      /\ \/ app.fn \in {"connect", "listen", "write", "send", "close"} /\ told /\ app' = NoCall
         \/ app.fn \in {"recved", "option"} /\ app' = NoCall /\ UNCHANGED conn
         \/ app.fn = "eof" /\ app' = minus /\ UNCHANGED conn
         \/ app.fn = "peer" /\ told /\ (app' = alloc \/ app' = delete)
  <2>1. app.fn \in Fns /\ app.pc = "back"
    BY DEF Good, Types, Proceeds, Returns, At
  <2> HIDE DEF minus, alloc, delete, told
  <2> QED
    BY <2>1 DEF Returns, At, Continues, AppUnchanged, Fns, minus, alloc, delete, told
<1>2. app.c \in Conns /\ AppShaped(app)
  BY <1>1 DEF Good, Types, Proceeds
<1>3. NoCall.pc = "idle" /\ minus.pc = "minus" /\ minus.fn = app.fn /\ minus.c = app.c
      /\ alloc.pc = "acceptAlloc" /\ delete.pc = "api" /\ delete.fn = "delete"
  BY <1>2 DEF AppShaped, NoCall
<1> HIDE DEF minus, alloc, delete
<1>4. CASE app.fn = "eof" /\ app' = minus /\ UNCHANGED conn
  <2>1. \A i \in Conns : Owes(i)' <=> Owes(i)
    BY <1>1, <1>3, <1>4 DEF Owes
  <2>2. \A i \in Conns : Plain(conn[i])
    BY DEF Counts, Plainly
  <2> QED
    BY <1>1, <1>3, <1>4, <2>1, <2>2, CountsKept DEF Good
<1>5. CASE UNCHANGED conn /\ app.fn # "eof" /\ app' = NoCall
  BY <1>1, <1>3, <1>5, CallCounts
<1>6. CASE told /\ app.fn # "eof" /\ (app' = NoCall \/ app' = alloc \/ app' = delete)
  BY <1>1, <1>2, <1>3, <1>6, AppCounts
<1> QED
  BY <1>1, <1>4, <1>5, <1>6

\* event_callback counts a packet in or out, and nothing else.
LEMMA EventCounts ==
  ASSUME Good, Seated, NEW id \in Conns, NEW evt \in CountedEvts, EventCallback(id, evt),
         evt \in {"RCVPLUS", "RCVMINUS"} => conn[id].type # "free",
         evt = "RCVMINUS" => conn[id].socket >= 0,
         NEW k \in Int, k = (IF evt = "RCVPLUS" THEN 1 ELSE IF evt = "RCVMINUS" THEN -1 ELSE 0)
  PROVE  /\ \A c \in Conns :
              /\ conn'[c].type = conn[c].type /\ conn'[c].pcb = conn[c].pcb /\ conn'[c].err = conn[c].err
              /\ conn'[c].state = conn[c].state /\ conn'[c].cur = conn[c].cur
              /\ Boxed(conn'[c]) = Boxed(conn[c]) /\ (Exact(conn'[c]) <=> Exact(conn[c]))
              /\ (Plain(conn'[c]) <=> Plain(conn[c]))
              /\ conn'[c].socket = conn[c].socket \/ (conn'[c].socket < 0 /\ conn[c].socket < 0)
         /\ \A s \in Socks : sock'[s].conn = sock[s].conn
         /\ \A s \in Socks : s # conn[id].socket \/ k = 0 => sock'[s].rcv = sock[s].rcv
         /\ \A c \in Conns : conn[c].type # "free" => Rcv(c)' = (IF c = id THEN Rcv(c) + k ELSE Rcv(c))
<1> DEFINE c == conn[id]
           sk == Counted(sock[c.socket], evt)
           n == EventOfNoSocket(c, evt)
<1>1. /\ \A d \in Conns : Sound(conn[d])
      /\ DOMAIN conn = Conns /\ DOMAIN sock = Socks
      /\ \A s \in Socks : SockShaped(sock[s])
  BY DEF Good, Types, Netconns
<1>2. \/ c.socket < 0 /\ conn' = [conn EXCEPT ![id].socket = n] /\ UNCHANGED sock
      \/ ~(c.socket < 0) /\ sock[c.socket].conn = 0 /\ UNCHANGED <<conn, sock>>
      \/ ~(c.socket < 0) /\ sock' = [sock EXCEPT ![c.socket] = sk] /\ UNCHANGED conn
  BY DEF EventCallback
<1>3. c.socket \in Int /\ Sound(c)
  BY <1>1 DEF Sound
<1>4. CASE c.socket < 0 /\ conn' = [conn EXCEPT ![id].socket = n] /\ UNCHANGED sock
  <2>1. n = c.socket - k /\ n < 0 /\ n \in Int
    BY <1>3, <1>4 DEF EventOfNoSocket
  <2> DEFINE d == [c EXCEPT !.socket = n]
  <2>2. \A i \in Conns : conn'[i] = IF i = id THEN d ELSE conn[i]
    BY <1>1, <1>4
  <2> HIDE DEF n
  <2>3. /\ d.type = c.type /\ d.pcb = c.pcb /\ d.err = c.err /\ d.state = c.state /\ d.cur = c.cur
        /\ d.rbox = c.rbox /\ d.abox = c.abox /\ d.rvalid = c.rvalid /\ d.avalid = c.avalid /\ d.socket = n
    BY <1>3 DEF Sound, Shaped
  <2> HIDE DEF d
  <2>4. Boxed(d) = Boxed(c) /\ (Exact(d) <=> Exact(c)) /\ (Plain(d) <=> Plain(c))
    BY <2>3 DEF Boxed, Exact, Plain
  <2>5. ASSUME NEW i \in Conns PROVE Rcv(i)' = (IF i = id THEN Rcv(i) + k ELSE Rcv(i))
    <3>1. CASE i = id
      BY <1>3, <1>4, <2>1, <2>2, <2>3, <3>1 DEF Rcv
    <3>2. CASE i # id
      BY <1>4, <2>2, <3>2 DEF Rcv
    <3> QED
      BY <3>1, <3>2
  <2> QED
    BY <1>4, <2>1, <2>2, <2>3, <2>4, <2>5
<1>5. CASE ~(c.socket < 0) /\ sock[c.socket].conn = 0 /\ UNCHANGED <<conn, sock>>
  <2>1. c.type = "free"
    BY <1>3, <1>5 DEF Seated, Conns
  <2>2. \A i \in Conns : Rcv(i)' = Rcv(i)
    BY <1>5 DEF Rcv
  <2>3. \A i \in Conns : conn[i].type # "free" => i # id
    BY <2>1
  <2> QED
    BY <1>5, <2>2, <2>3
<1>6. CASE ~(c.socket < 0) /\ sock' = [sock EXCEPT ![c.socket] = sk] /\ UNCHANGED conn
  <2>1. \A s \in Socks : sock'[s] = IF s = c.socket THEN sk ELSE sock[s]
    BY <1>1, <1>6
  <2>2. ASSUME c.socket \in Socks PROVE sk.conn = sock[c.socket].conn /\ sk.rcv = sock[c.socket].rcv + k
    <3> DEFINE s == sock[c.socket]
    <3>1. SockShaped(s)
      BY <1>1, <2>2
    <3>2. sk.conn = s.conn
      BY <3>1, CountedShaped
    <3>3. sk.rcv = s.rcv + k
      <4>1. \/ evt = "RCVPLUS" /\ sk = [s EXCEPT !.rcv = s.rcv + 1]
            \/ evt = "RCVMINUS" /\ sk = [s EXCEPT !.rcv = s.rcv - 1]
            \/ evt \notin {"RCVPLUS", "RCVMINUS"} /\ sk = [s EXCEPT !.snd = 1]
            \/ evt \notin {"RCVPLUS", "RCVMINUS"} /\ sk = [s EXCEPT !.snd = 0]
            \/ evt \notin {"RCVPLUS", "RCVMINUS"} /\ sk = [s EXCEPT !.err = 1]
        BY Zenon DEF Counted, CountedEvts, Evts
      <4> HIDE DEF s
      <4> QED
        BY <3>1, <4>1 DEF SockShaped
    <3> QED
      BY <3>2, <3>3
  <2> HIDE DEF sk
  <2>3. \A s \in Socks : sock'[s].conn = sock[s].conn
    BY <2>1, <2>2
  <2>4. ASSUME NEW i \in Conns, conn[i].type # "free"
        PROVE  Rcv(i)' = (IF i = id THEN Rcv(i) + k ELSE Rcv(i))
    <3>1. conn[i].socket \in Int
      BY <1>1 DEF Sound
    <3>2. CASE i = id
      <4>1. c.socket \in Socks
        BY <1>3, <1>6, <2>4, <3>2 DEF Seated
      <4> QED
        BY <1>3, <1>6, <2>1, <2>2, <3>2, <4>1 DEF Rcv
    <3>3. CASE i # id /\ conn[i].socket < 0
      BY <1>6, <3>3 DEF Rcv
    <3>4. CASE i # id /\ ~(conn[i].socket < 0)
      <4>1. conn[i].socket \in Socks /\ sock[conn[i].socket].conn = i
        BY <2>4, <3>1, <3>4 DEF Seated
      <4>2. c.type # "free" => sock[c.socket].conn = id
        BY <1>3, <1>6 DEF Seated
      <4>3. CASE conn[i].socket # c.socket
        BY <1>6, <2>1, <3>4, <4>1, <4>3 DEF Rcv
      <4>4. CASE conn[i].socket = c.socket
        <5>1. c.type = "free"
          BY <3>4, <4>1, <4>2, <4>4
        <5>2. k = 0
          BY <5>1
        <5>3. sock'[conn[i].socket].rcv = sock[conn[i].socket].rcv
          BY <1>1, <2>1, <2>2, <4>1, <4>4, <5>2 DEF SockShaped
        <5> QED
          BY <1>6, <3>4, <5>3 DEF Rcv
      <4> QED
        BY <4>3, <4>4
    <3> QED
      BY <3>2, <3>3, <3>4
  <2>5. \A s \in Socks : s # c.socket \/ k = 0 => sock'[s].rcv = sock[s].rcv
    BY <1>1, <2>1, <2>2 DEF SockShaped
  <2> QED
    BY <1>6, <2>1, <2>3, <2>4, <2>5
<1> QED
  BY <1>2, <1>4, <1>5, <1>6

\* What is left to do.
LEMMA TodoRest ==
  ASSUME Good, Orderly, todo # <<>>, todo' = Tail(todo)
  PROVE  LET what == Head(todo)[2] IN
         /\ Head(todo)[1] \in Conns /\ what \in Whats /\ Tidy(todo')
         /\ IF IsPlus(what) THEN Plus(Head(todo)[1]) /\ \A c : ~Plus(c)' /\ (Plus(c) => c = Head(todo)[1])
            ELSE \A c : Plus(c)' <=> Plus(c)
         /\ IF what.op = "postRecv" THEN Post(Head(todo)[1]) /\ \A c : ~Post(c)' /\ (Post(c) => c = Head(todo)[1])
            ELSE \A c : Post(c)' <=> Post(c)
         /\ what.op = "signal" => \A c : ~Plus(c) /\ ~Post(c) /\ ~Plus(c)' /\ ~Post(c)'
<1> DEFINE S == Conns \X Whats
<1>1. todo \in Seq(S)
  BY DEF Good, Types
<1> HIDE DEF S
<1>2. /\ Tail(todo) \in Seq(S) /\ Head(todo) \in S
      /\ \A k \in DOMAIN Tail(todo) : k + 1 \in DOMAIN todo /\ Tail(todo)[k] = todo[k + 1] /\ k + 1 # 1
      /\ \A k \in DOMAIN todo : k = 1 \/ (k - 1 \in DOMAIN Tail(todo) /\ Tail(todo)[k - 1] = todo[k])
      /\ 1 \in DOMAIN todo /\ Head(todo) = todo[1] /\ DOMAIN todo \subseteq Int
  BY <1>1, Popped
<1>3. DOMAIN Tail(todo) \subseteq Int
  BY <1>2
<1>4. Head(todo)[1] \in Conns /\ Head(todo)[2] \in Whats
  BY <1>2 DEF S
<1> DEFINE h == Head(todo)
           rest == Tail(todo)
<1>5. /\ \A k \in DOMAIN rest : k \in Int /\ k + 1 \in DOMAIN todo /\ rest[k] = todo[k + 1] /\ k + 1 # 1
      /\ \A k \in DOMAIN todo : k \in Int /\ (todo[k] = h \/ \E j \in DOMAIN rest : rest[j] = todo[k])
      /\ 1 \in DOMAIN todo /\ h = todo[1] /\ todo' = rest
  BY <1>2, <1>3
<1> HIDE DEF h, rest
<1>6. Tidy(todo)
  BY DEF Orderly
<1>7. Tidy(rest)
  <2>1. ASSUME NEW j \in DOMAIN rest, NEW k \in DOMAIN rest, IsPlus(rest[j][2]), IsPlus(rest[k][2]) PROVE j = k
    <3>1. j + 1 = k + 1
      BY <1>5, <1>6, <2>1 DEF Tidy
    <3> QED
      BY <1>5, <3>1
  <2>2. ASSUME NEW j \in DOMAIN rest, NEW k \in DOMAIN rest,
               rest[j][2].op = "postRecv", rest[k][2].op = "postRecv"
        PROVE  j = k
    <3>1. j + 1 = k + 1
      BY <1>5, <1>6, <2>2 DEF Tidy
    <3> QED
      BY <1>5, <3>1
  <2>3. ASSUME NEW j \in DOMAIN rest, NEW k \in DOMAIN rest,
               IsPlus(rest[j][2]) \/ rest[j][2].op = "postRecv", rest[k][2].op = "signal"
        PROVE  j < k
    <3>1. j + 1 < k + 1
      BY <1>5, <1>6, <2>3 DEF Tidy
    <3> QED
      BY <1>5, <3>1
  <2> QED
    BY <2>1, <2>2, <2>3 DEF Tidy
<1>8. ASSUME NEW k \in DOMAIN rest PROVE ~(IsPlus(h[2]) /\ IsPlus(rest[k][2]))
  BY <1>5, <1>6 DEF Tidy
<1>9. ASSUME NEW k \in DOMAIN rest PROVE ~(h[2].op = "postRecv" /\ rest[k][2].op = "postRecv")
  BY <1>5, <1>6 DEF Tidy
<1>10. ASSUME h[2].op = "signal", NEW k \in DOMAIN todo PROVE ~IsPlus(todo[k][2]) /\ todo[k][2].op # "postRecv"
  <2>1. k = 1 \/ k - 1 \in DOMAIN rest
    BY <1>2 DEF rest
  <2>2. SUFFICES ASSUME IsPlus(todo[k][2]) \/ todo[k][2].op = "postRecv" PROVE FALSE
    OBVIOUS
  <2>3. k < 1
    BY <1>5, <1>6, <1>10, <2>2 DEF Tidy
  <2>4. k >= 1
    <3>1. todo \in Seq(S)
      BY <1>1
    <3>2. DOMAIN todo = 1 .. Len(todo) /\ Len(todo) \in Nat
      BY <3>1
    <3> QED
      BY <3>2
  <2> QED
    BY <1>5, <2>3, <2>4
<1>11. IF IsPlus(h[2]) THEN Plus(h[1]) /\ \A c : ~Plus(c)' /\ (Plus(c) => c = h[1])
       ELSE \A c : Plus(c)' <=> Plus(c)
  BY <1>5, <1>8 DEF Plus
<1>12. IF h[2].op = "postRecv" THEN Post(h[1]) /\ \A c : ~Post(c)' /\ (Post(c) => c = h[1])
       ELSE \A c : Post(c)' <=> Post(c)
  BY <1>5, <1>9 DEF Post
<1>13. h[2].op = "signal" => \A c : ~Plus(c) /\ ~Post(c) /\ ~Plus(c)' /\ ~Post(c)'
  BY <1>5, <1>10 DEF Plus, Post
<1> QED
  BY <1>4, <1>5, <1>7, <1>11, <1>12, <1>13 DEF h

\* What is counted and what the netconns hold are numbers.
LEMMA Numbers ==
  ASSUME Good, Seated, NEW c \in Conns, conn[c].type # "free"
  PROVE  Rcv(c) \in Int /\ Boxed(conn[c]) \in Nat /\ Balance(c) \in Int
<1>1. Sound(conn[c])
  BY DEF Good, Netconns
<1>2. Rcv(c) \in Int
  BY <1>1 DEF Rcv, Seated, Sound, Good, Types, SockShaped
<1>3. Boxed(conn[c]) \in Nat
  BY <1>1, BoxedCounts DEF Sound
<1> QED
  BY <1>2, <1>3 DEF Balance, One

\* The tcpip thread goes on.
LEMMA TcpipContinuesCounts == ASSUME Good, Counts, TcpipContinues PROVE Counts'
<1> DEFINE id == Head(todo)[1]
           what == Head(todo)[2]
<1>1. /\ todo # <<>> /\ todo' = Tail(todo)
      /\ what.op = "event" => EventCallback(id, what.evt) /\ UNCHANGED app
      /\ what.op = "postRecv" =>
           /\ conn' = [conn EXCEPT ![id].rbox = IF Len(@) = RecvMboxSize THEN @ ELSE Append(@, EOF)]
           /\ UNCHANGED <<sock, app>>
      /\ what.op = "signal" => app' = [app EXCEPT !.pc = "back", !.err = what.err] /\ UNCHANGED <<conn, sock>>
  BY DEF TcpipContinues
<1>2. Seated /\ Balanced /\ Plainly /\ Orderly /\ Fresh /\ Deleted
  BY DEF Counts
<1>3. /\ id \in Conns /\ what \in Whats /\ Tidy(todo')
      /\ IF IsPlus(what) THEN Plus(id) /\ \A c : ~Plus(c)' /\ (Plus(c) => c = id)
         ELSE \A c : Plus(c)' <=> Plus(c)
      /\ IF what.op = "postRecv" THEN Post(id) /\ \A c : ~Post(c)' /\ (Post(c) => c = id)
         ELSE \A c : Post(c)' <=> Post(c)
      /\ what.op = "signal" => \A c : ~Plus(c) /\ ~Post(c) /\ ~Plus(c)' /\ ~Post(c)'
  BY <1>1, <1>2, TodoRest
<1>4. /\ what.op \in {"event", "postRecv", "signal"}
      /\ what.op = "event" => what.evt \in Evts
      /\ IsPlus(what) <=> what.op = "event" /\ what.evt = "RCVPLUS"
  BY <1>3 DEF Whats, IsPlus
<1>5. \A c \in Conns : Sound(conn[c])
  BY DEF Good, Netconns
<1> HIDE DEF id, what
<1>6. CASE what.op = "event"
  <2>1. app' = app /\ EventCallback(id, what.evt) /\ what.evt \in Evts
    BY <1>1, <1>4, <1>6
  <2> DEFINE k == IF what.evt = "RCVPLUS" THEN 1 ELSE 0
  <2>2. /\ k \in Int /\ what.evt # "RCVMINUS" /\ what.evt \in CountedEvts
        /\ k = (IF what.evt = "RCVPLUS" THEN 1 ELSE IF what.evt = "RCVMINUS" THEN -1 ELSE 0)
    BY <2>1 DEF Evts, CountedEvts
  <2>3. what.evt = "RCVPLUS" => conn[id].type # "free"
    BY <1>2, <1>3, <1>4, <1>6 DEF Orderly
  <2>4. k = IF IsPlus(what) THEN 1 ELSE 0
    BY <1>4, <1>6
  <2> HIDE DEF k
  <2>5. /\ \A c \in Conns :
              /\ conn'[c].type = conn[c].type /\ conn'[c].pcb = conn[c].pcb /\ conn'[c].err = conn[c].err
              /\ conn'[c].state = conn[c].state /\ conn'[c].cur = conn[c].cur
              /\ Boxed(conn'[c]) = Boxed(conn[c]) /\ (Exact(conn'[c]) <=> Exact(conn[c]))
              /\ (Plain(conn'[c]) <=> Plain(conn[c]))
              /\ conn'[c].socket = conn[c].socket \/ (conn'[c].socket < 0 /\ conn[c].socket < 0)
        /\ \A s \in Socks : sock'[s].conn = sock[s].conn
        /\ \A s \in Socks : s # conn[id].socket \/ k = 0 => sock'[s].rcv = sock[s].rcv
        /\ \A c \in Conns : conn[c].type # "free" => Rcv(c)' = (IF c = id THEN Rcv(c) + k ELSE Rcv(c))
    BY <1>2, <1>3, <2>1, <2>2, <2>3, EventCounts
  <2>6. \A c : Owes(c)' <=> Owes(c)
    BY <2>1 DEF Owes
  <2>7. \A c : Post(c)' <=> Post(c)
    BY <1>3, <1>6
  <2>8. ASSUME NEW c \in Conns, conn[c].type # "free" PROVE Balance(c)' = Balance(c)
    <3>1. Rcv(c) \in Int /\ Boxed(conn[c]) \in Nat
      BY <1>2, <2>8, Numbers
    <3>2. Rcv(c)' + One(Plus(c)') = Rcv(c) + One(Plus(c))
      BY <1>3, <2>4, <2>5, <2>8, <3>1 DEF One
    <3>3. Boxed(conn'[c]) = Boxed(conn[c])
      BY <2>5
    <3>4. One(Owes(c)') = One(Owes(c))
      BY <2>6 DEF One
    <3>5. Balance(c)' = Rcv(c)' + One(Plus(c)') - Boxed(conn'[c]) - One(Owes(c)')
      BY DEF Balance
    <3>6. Balance(c) = Rcv(c) + One(Plus(c)) - Boxed(conn[c]) - One(Owes(c))
      BY DEF Balance
    <3>7. Rcv(c)' \in Int /\ \A b : One(b) \in Int
      BY <2>5, <2>8, <3>1, <2>2 DEF One
    <3> DEFINE r == Rcv(c)
               r1 == Rcv(c)'
               p == One(Plus(c))
               p1 == One(Plus(c)')
               b == Boxed(conn[c])
               o == One(Owes(c))
    <3>8. /\ r \in Int /\ r1 \in Int /\ p \in Int /\ p1 \in Int /\ b \in Int /\ o \in Int /\ r1 + p1 = r + p
          /\ Balance(c)' = r1 + p1 - b - o /\ Balance(c) = r + p - b - o
      BY <3>1, <3>2, <3>3, <3>4, <3>5, <3>6, <3>7
    <3> HIDE DEF r, r1, p, p1, b, o
    <3> QED
      BY <3>8
  <2>9. Seated'
    <3>1. AllAlike
      BY <1>3, <2>1, <2>2, EventAlike DEF Good
    <3>2. \A c \in Conns : conn'[c].socket \in Int /\ conn[c].socket \in Int
      BY <1>5, <3>1 DEF AllAlike, Alike, Sound
    <3> QED
      BY <1>2, <2>5, <3>2 DEF Seated
  <2>10. Balanced' /\ Plainly'
    BY <1>2, <2>5, <2>7, <2>8 DEF Balanced, Plainly, One
  <2>11. \A c : Plus(c)' => Plus(c)
    BY <1>3
  <2>12. Orderly'
    BY <1>2, <1>3, <2>5, <2>7, <2>11 DEF Orderly
  <2>13. Fresh'
    <3>0. app.pc = "acceptMinus" => app.c \in Conns
      BY DEF Good, Types, Proceeds
    <3>00. app.pc = "acceptMinus" => conn'[app.c].socket >= 0
      BY <1>2, <1>5, <2>5, <3>0 DEF Fresh, Sound
    <3>1. SUFFICES ASSUME app.pc = "acceptJoin" PROVE sock'[app.s].rcv = 0
      BY <2>1, <3>00 DEF Fresh
    <3>2. /\ app.s \in Socks /\ sock[app.s].conn = app.c /\ app.c \in Conns /\ conn[app.c].socket < 0
          /\ sock[app.s].rcv = 0
      BY <1>2, <3>1 DEF Fresh, Good, Owned, Called, Joining, Types, Proceeds
    <3>3. CASE k = 0
      BY <2>5, <3>2, <3>3
    <3>4. CASE k # 0
      <4>1. conn[id].type # "free"
        BY <2>3, <2>4, <3>4, <1>4
      <4>2. conn[id].socket # app.s
        BY <1>2, <1>3, <3>2, <4>1 DEF Seated, Socks
      <4> QED
        BY <2>5, <3>2, <4>2
    <3> QED
      BY <3>3, <3>4
  <2>14. Deleted'
    <3>1. app.pc \in {"wait", "back"} => app.c \in Conns
      BY DEF Good, Types, Proceeds
    <3> QED
      BY <1>2, <2>1, <2>5, <2>7, <2>11, <3>1 DEF Deleted, Doomed
  <2> QED
    BY <2>9, <2>10, <2>12, <2>13, <2>14 DEF Counts
<1>7. CASE what.op = "postRecv"
  <2> DEFINE n == conn[id]
             box == IF Len(n.rbox) = RecvMboxSize THEN n.rbox ELSE Append(n.rbox, EOF)
             d == [n EXCEPT !.rbox = box]
  <2>1. conn' = [conn EXCEPT ![id].rbox = box] /\ UNCHANGED <<sock, app>>
    BY <1>1, <1>7
  <2>2. Sound(n) /\ DOMAIN conn = Conns
    BY <1>3, <1>5 DEF Good, Types
  <2>3. /\ n.type # "free" /\ n.err \in Fatal /\ n.pcb.st = "none" /\ Post(id)
    BY <1>2, <1>3, <1>7 DEF Orderly
  <2>4. \/ Len(box) = Len(n.rbox) + 1 /\ Len(box) \in Int
        \/ box = n.rbox
    BY <2>2 DEF Sound
  <2>4a. Len(n.rbox) \in Int /\ Len(n.abox) \in Int
    BY <2>2 DEF Sound
  <2> HIDE DEF box
  <2>5. /\ d.rbox = box /\ d.type = n.type /\ d.err = n.err /\ d.pcb = n.pcb /\ d.abox = n.abox
        /\ d.socket = n.socket /\ d.state = n.state /\ d.avalid = n.avalid /\ d.cur = n.cur
    BY <2>2 DEF Sound, Shaped
  <2>6. \A c \in Conns : conn'[c] = IF c = id THEN d ELSE conn[c]
    BY <2>1, <2>2
  <2> HIDE DEF d
  <2>7. Plain(d) /\ ~Exact(d)
    BY <1>2, <1>3, <2>3, <2>5 DEF Plainly, Plain, Exact
  <2>8. Boxed(d) = Boxed(n) \/ Boxed(d) = Boxed(n) + 1
    <3>1. CASE box = n.rbox
      BY <2>5, <3>1 DEF Boxed
    <3>2. CASE Len(box) = Len(n.rbox) + 1
      BY <2>4a, <2>5, <3>2, BoxedMore
    <3> QED
      BY <2>4, <3>1, <3>2
  <2> HIDE DEF n
  <2>9. \A c : Owes(c)' <=> Owes(c)
    BY <2>1 DEF Owes
  <2>10. \A c : Plus(c)' <=> Plus(c)
    BY <1>3, <1>4, <1>7
  <2>11. \A c \in Conns : Rcv(c)' = Rcv(c)
    BY <2>1, <2>5, <2>6 DEF Rcv, n
  <2>12. ASSUME NEW c \in Conns, c # id PROVE Balance(c)' = Balance(c)
    BY <2>6, <2>9, <2>10, <2>11, <2>12 DEF Balance, One
  <2>13. ASSUME NEW c \in Conns, c = id PROVE Balance(c)' >= 0
    <3>1. Rcv(id) \in Int /\ Boxed(n) \in Nat /\ Balance(id) \in Int
      BY <1>2, <1>3, <2>3, Numbers DEF n
    <3>2. Balance(id) >= 1
      BY <1>2, <1>3, <2>3 DEF Balanced, One, n
    <3>3. Balance(c)' = Rcv(id) + One(Plus(id)) - Boxed(d) - One(Owes(id))
      <4>1. One(Owes(c)') = One(Owes(c)) /\ One(Plus(c)') = One(Plus(c))
        BY <2>9, <2>10 DEF One
      <4>2. Rcv(c)' = Rcv(c) /\ conn'[c] = d
        BY <2>6, <2>11, <2>13
      <4>3. Balance(c)' = Rcv(c)' + One(Plus(c)') - Boxed(conn'[c]) - One(Owes(c)')
        BY DEF Balance
      <4>4. Balance(c)' = Rcv(c) + One(Plus(c)) - Boxed(d) - One(Owes(c))
        BY <4>1, <4>2, <4>3
      <4> QED
        BY <2>13, <4>4
    <3>4. Balance(id) = Rcv(id) + One(Plus(id)) - Boxed(n) - One(Owes(id))
      BY DEF Balance, n
    <3> DEFINE r == Rcv(id)
               p == One(Plus(id))
               o == One(Owes(id))
               b == Boxed(n)
               e == Boxed(d)
    <3>5. /\ r \in Int /\ p \in Int /\ o \in Int /\ b \in Int /\ (e = b \/ e = b + 1)
          /\ r + p - b - o >= 1 /\ Balance(c)' = r + p - e - o
      BY <2>8, <3>1, <3>2, <3>3, <3>4 DEF One
    <3> HIDE DEF r, p, o, b, e
    <3> QED
      BY <3>5
  <2>14. Balanced'
    <3>1. ASSUME NEW c \in Conns, c = id PROVE Balance(c)' >= One(Post(c)') /\ ~Exact(conn'[c])
      <4>1. One(Post(c)') = 0
        BY <1>3, <1>7 DEF One
      <4> QED
        BY <2>6, <2>7, <2>13, <3>1, <4>1
    <3>2. ASSUME NEW c \in Conns, c # id, conn[c].type # "free"
          PROVE  Balance(c)' >= One(Post(c)') /\ (Exact(conn[c]) => Balance(c)' = 0)
      <4>1. One(Post(c)') = 0 /\ One(Post(c)) \in {0, 1}
        BY <1>3, <1>7 DEF One
      <4>2. Balance(c) \in Int
        BY <1>2, <3>2, Numbers
      <4> QED
        BY <1>2, <2>12, <3>2, <4>1, <4>2 DEF Balanced
    <3> QED
      BY <2>6, <3>1, <3>2 DEF Balanced
  <2>15. Seated' /\ Plainly'
    BY <1>2, <2>1, <2>5, <2>6, <2>7 DEF Seated, Plainly, n
  <2>16. Orderly'
    BY <1>2, <1>3, <1>7, <2>1, <2>5, <2>6, <2>10 DEF Orderly, n
  <2>16a. Fresh'
    <3>1. app.pc = "acceptMinus" => app.c \in Conns
      BY DEF Good, Types, Proceeds
    <3> QED
      BY <1>2, <2>1, <2>5, <2>6, <3>1 DEF Fresh, n
  <2>17. Deleted'
    <3>1. app.pc \in {"wait", "back"} => app.c \in Conns
      BY DEF Good, Types, Proceeds
    <3> QED
      BY <1>2, <1>3, <1>7, <2>1, <2>5, <2>6, <2>10, <3>1 DEF Deleted, Doomed, n
  <2> QED
    BY <2>14, <2>15, <2>16, <2>16a, <2>17 DEF Counts
<1>8. CASE what.op = "signal"
  <2>1. app' = [app EXCEPT !.pc = "back", !.err = what.err] /\ UNCHANGED <<conn, sock>>
    BY <1>1, <1>8
  <2>2. Signals # {}
    <3>1. Signals' = {} /\ Signals # {}
      BY <1>1, <1>8, TodoPopped DEF what
    <3> QED
      BY <3>1
  <2>3. app.pc = "wait" /\ AppShaped(app)
    BY <2>2 DEF Good, Calls, Types
  <2>4. app'.pc = "back" /\ app'.fn = app.fn /\ app'.c = app.c /\ app'.s = app.s
    BY <2>1, <2>3 DEF AppShaped
  <2>5. \A c : ~Plus(c) /\ ~Post(c) /\ ~Plus(c)' /\ ~Post(c)'
    BY <1>3, <1>8
  <2>6. \A c : Owes(c)' <=> Owes(c)
    BY <2>3, <2>4 DEF Owes
  <2>7. \A c \in Conns : Rcv(c)' = Rcv(c)
    BY <2>1 DEF Rcv
  <2>8. \A c \in Conns : Balance(c)' = Balance(c)
    BY <2>1, <2>5, <2>6, <2>7 DEF Balance, One
  <2>9. Seated' /\ Balanced' /\ Plainly'
    BY <1>2, <2>1, <2>5, <2>8 DEF Seated, Balanced, Plainly, One
  <2>10. Orderly' /\ Fresh'
    BY <1>3, <2>4, <2>5 DEF Orderly, Fresh
  <2>11. Deleted'
    <3>1. app.fn = "delete" => conn[app.c].pcb.st = "none"
      <4>1. app.c \in Conns
        BY <2>3 DEF Good, Types, Proceeds
      <4>2. ~Busy(conn[app.c])
        BY <2>2, <4>1 DEF Good, Calls
      <4> QED
        BY <1>2, <2>3, <4>2 DEF Deleted, Busy, Doomed
    <3> QED
      BY <2>1, <2>4, <2>5, <3>1 DEF Deleted
  <2> QED
    BY <2>9, <2>10, <2>11 DEF Counts
<1> QED
  BY <1>4, <1>6, <1>7, <1>8

\* What changes in a balance.
LEMMA BalanceMoves ==
  ASSUME NEW c \in Conns, NEW r \in Int, NEW p \in Int, NEW b \in Int, NEW o \in Int,
         Rcv(c) \in Int, Boxed(conn[c]) \in Int,
         Rcv(c)' = Rcv(c) + r, One(Plus(c)') = One(Plus(c)) + p,
         Boxed(conn'[c]) = Boxed(conn[c]) + b, One(Owes(c)') = One(Owes(c)) + o
  PROVE  Balance(c)' = Balance(c) + ((r + p) - (b + o)) /\ Balance(c) \in Int
<1> DEFINE rc == Rcv(c)
           pc == One(Plus(c))
           bc == Boxed(conn[c])
           oc == One(Owes(c))
<1>1. pc \in Int /\ oc \in Int
  BY DEF One
<1>2. Balance(c) = rc + pc - bc - oc
  BY DEF Balance
<1>3. Balance(c)' = Rcv(c)' + One(Plus(c)') - Boxed(conn'[c]) - One(Owes(c)')
  BY DEF Balance
<1>4. /\ Balance(c)' = (rc + r) + (pc + p) - (bc + b) - (oc + o)
      /\ rc \in Int /\ bc \in Int
  BY <1>3
<1> HIDE DEF rc, pc, bc, oc
<1> QED
  BY <1>1, <1>2, <1>4

\* A step of the application that balances.
LEMMA CountsStay ==
  ASSUME Counts, UNCHANGED todo, Seated',
         \A c \in Conns : /\ conn'[c].type = conn[c].type /\ conn'[c].pcb.st = conn[c].pcb.st
                          /\ Exact(conn'[c]) => Exact(conn[c])
                          /\ conn[c].err \in Fatal => conn'[c].err \in Fatal
                          /\ Plain(conn'[c])
                          /\ conn[c].type # "free" => Balance(c)' = Balance(c),
         app'.pc \notin {"wait", "back"}, Fresh'
  PROVE  Counts'
<1>1. \A c \in Conns : (Plus(c)' <=> Plus(c)) /\ (Post(c)' <=> Post(c))
  BY DEF Plus, Post
<1>2. Balanced' /\ Plainly'
  BY <1>1 DEF Counts, Balanced, Plainly, One
<1>3. Orderly'
  BY <1>1 DEF Counts, Orderly
<1>4. Deleted'
  BY DEF Deleted
<1> QED
  BY <1>2, <1>3, <1>4 DEF Counts

\* What is fetched is owed.
LEMMA FetchCounts ==
  ASSUME Good, Counts, UNCHANGED <<sock, todo>>, NEW c \in Conns, NEW d, conn' = [conn EXCEPT ![c] = d],
         /\ d.type = conn[c].type /\ d.socket = conn[c].socket /\ d.pcb = conn[c].pcb /\ d.err = conn[c].err
         /\ d.state = conn[c].state /\ d.rvalid = conn[c].rvalid /\ d.avalid = conn[c].avalid,
         Plain(d), Boxed(d) = Boxed(conn[c]) - 1,
         \A i : ~Owes(i), \A i : Owes(i)' <=> i = c,
         app'.pc \notin {"acceptJoin", "wait", "back"}, app'.c = c,
         app'.pc = "acceptMinus" => conn[c].socket >= 0
  PROVE  Counts'
<1>1. \A i \in Conns : conn'[i] = IF i = c THEN d ELSE conn[i]
  BY DEF Good, Types
<1>2. Seated /\ Plainly
  BY DEF Counts
<1>3. Exact(d) <=> Exact(conn[c])
  BY DEF Exact
<1>4. \A i \in Conns : One(Plus(i)') = One(Plus(i))
  BY DEF Plus, One
<1>5. ASSUME NEW i \in Conns PROVE Rcv(i)' = Rcv(i)
  BY <1>1 DEF Rcv
<1>6. ASSUME NEW i \in Conns, conn[i].type # "free" PROVE Balance(i)' = Balance(i)
  <2>1. Rcv(i) \in Int /\ Boxed(conn[i]) \in Int /\ One(Plus(i)) \in Int /\ One(Owes(i)) = 0
    BY <1>2, <1>6, Numbers DEF One
  <2>2. CASE i = c
    <3>1. One(Owes(i)') = 1
      BY <2>2 DEF One
    <3>2. /\ Rcv(i)' = Rcv(i) + 0 /\ One(Plus(i)') = One(Plus(i)) + 0
          /\ One(Owes(i)') = One(Owes(i)) + 1
      BY <1>4, <1>5, <2>1, <3>1
    <3>3. Boxed(conn'[i]) = Boxed(conn[i]) + (-1)
      BY <1>1, <2>1, <2>2
    <3>4. Balance(i)' = Balance(i) + ((0 + 0) - ((-1) + 1)) /\ Balance(i) \in Int
      BY <2>1, <3>2, <3>3, BalanceMoves
    <3> QED
      BY <3>4
  <2>3. CASE i # c
    <3>1. One(Owes(i)') = 0
      BY <2>3 DEF One
    <3>2. /\ Rcv(i)' = Rcv(i) + 0 /\ One(Plus(i)') = One(Plus(i)) + 0
          /\ One(Owes(i)') = One(Owes(i)) + 0 /\ Boxed(conn'[i]) = Boxed(conn[i]) + 0
      BY <1>1, <1>4, <1>5, <2>1, <2>3, <3>1
    <3>3. Balance(i)' = Balance(i) + ((0 + 0) - (0 + 0)) /\ Balance(i) \in Int
      BY <2>1, <3>2, BalanceMoves
    <3> QED
      BY <3>3
  <2> QED
    BY <2>2, <2>3
<1>7. Seated'
  BY <1>1, <1>2 DEF Seated
<1>8. Fresh'
  BY <1>1 DEF Fresh
<1> QED
  BY <1>1, <1>2, <1>3, <1>6, <1>7, <1>8, CountsStay DEF Plainly

\* netconn_recv_data takes a packet out of the mailbox, or times out.
LEMMA RecvFetchCounts == ASSUME Good, Counts, RecvFetch PROVE Counts'
<1> DEFINE c == conn[app.c]
           eof == [app EXCEPT !.pc = "api", !.fn = "eof", !.len = 1]
           minus == [app EXCEPT !.pc = "minus", !.buf = Head(c.rbox)]
           box == Tail(c.rbox)
           d == [c EXCEPT !.rbox = box]
<1>1. UNCHANGED <<sock, todo>> /\ app.pc = "fetch"
  BY DEF RecvFetch, At, Continues, AppUnchanged
<1>2. /\ app.s \in Socks /\ sock[app.s].conn = app.c /\ app.c \in Conns /\ AppShaped(app)
      /\ app.fn = "recv"
  BY <1>1, OnSocket DEF Good, Types, Proceeds
<1>3. Sound(c) /\ Plain(c)
  BY <1>2 DEF Good, Netconns, Counts, Plainly
<1>4. \/ c.rbox = <<>> /\ conn' = [conn EXCEPT ![app.c] = SafeErr(c, "TIMEOUT")] /\ app' = RecvReturn(app)
      \/ c.rbox # <<>> /\ conn' = [conn EXCEPT ![app.c] = d] /\ (app' = eof \/ app' = minus)
  BY DEF RecvFetch
<1>5. CASE c.rbox = <<>> /\ conn' = [conn EXCEPT ![app.c] = SafeErr(c, "TIMEOUT")] /\ app' = RecvReturn(app)
  <2>1. app'.pc \in {"idle", "api"} /\ app'.fn \in {"none", "recved"}
    BY <1>2, <1>5, ReturnPc
  <2> QED
    BY <1>1, <1>2, <1>5, <2>1, AppCounts
<1>6. CASE c.rbox # <<>> /\ conn' = [conn EXCEPT ![app.c] = d] /\ (app' = eof \/ app' = minus)
  <2>1. app'.c = app.c /\ ((app'.pc = "api" /\ app'.fn = "eof") \/ app'.pc = "minus")
    <3>1. eof.c = app.c /\ eof.pc = "api" /\ eof.fn = "eof" /\ minus.c = app.c /\ minus.pc = "minus"
      BY <1>2 DEF AppShaped
    <3> HIDE DEF eof, minus
    <3> QED
      BY <1>6, <3>1
  <2>2. c.rbox \in Seq(Packets) /\ c.abox \in Seq(Conns)
    BY <1>3 DEF Sound
  <2>3. Len(box) = Len(c.rbox) - 1 /\ Len(c.rbox) \in Int /\ Len(c.abox) \in Int
    BY <1>6, <2>2
  <2> HIDE DEF box
  <2>4. /\ d.rbox = box /\ d.abox = c.abox /\ d.type = c.type /\ d.socket = c.socket /\ d.pcb = c.pcb
        /\ d.err = c.err /\ d.state = c.state /\ d.rvalid = c.rvalid /\ d.avalid = c.avalid
    BY <1>3 DEF Sound, Shaped
  <2> HIDE DEF d
  <2>5. Plain(d)
    BY <1>3, <1>6, <2>4 DEF Plain
  <2>6. Boxed(d) = Boxed(c) - 1
    <3> DEFINE m == Len(c.rbox)
               n == Len(c.abox)
    <3>1. Boxed(c) = m + n /\ Boxed(d) = (m - 1) + n /\ m \in Int /\ n \in Int
      BY <2>3, <2>4 DEF Boxed
    <3> HIDE DEF m, n
    <3> QED
      BY <3>1
  <2>7. (\A i : ~Owes(i)) /\ \A i : Owes(i)' <=> i = app.c
    BY <1>1, <2>1 DEF Owes
  <2> DEFINE b == app.c
  <2>8. /\ b \in Conns /\ conn' = [conn EXCEPT ![b] = d] /\ c = conn[b] /\ app'.c = b
        /\ \A i : Owes(i)' <=> i = b
    BY <1>2, <1>6, <2>1, <2>7
  <2> HIDE DEF b
  <2> QED
    BY <1>1, <2>1, <2>4, <2>5, <2>6, <2>7, <2>8, FetchCounts
<1> QED
  BY <1>4, <1>5, <1>6

\* netconn_accept takes a netconn out of the acceptmbox, or times out.
LEMMA AcceptFetchCounts == ASSUME Good, Counts, AcceptFetch PROVE Counts'
<1> DEFINE c == conn[app.c]
           minus == [app EXCEPT !.pc = "acceptMinus", !.len = Head(c.abox)]
           box == Tail(c.abox)
           d == [c EXCEPT !.abox = box]
<1>1. UNCHANGED <<sock, todo>> /\ app.pc = "acceptFetch"
  BY DEF AcceptFetch, At, Continues, AppUnchanged
<1>2. /\ app.s \in Socks /\ sock[app.s].conn = app.c /\ app.c \in Conns /\ AppShaped(app)
      /\ app.fn = "accept"
  BY <1>1, OnSocket DEF Good, Types, Proceeds
<1>3. Sound(c) /\ Plain(c)
  BY <1>2 DEF Good, Netconns, Counts, Plainly
<1>4. \/ c.abox = <<>> /\ conn' = [conn EXCEPT ![app.c] = SafeErr(c, "TIMEOUT")] /\ app' = NoCall
      \/ c.abox # <<>> /\ conn' = [conn EXCEPT ![app.c] = d] /\ app' = minus
  BY DEF AcceptFetch
<1>5. CASE c.abox = <<>> /\ conn' = [conn EXCEPT ![app.c] = SafeErr(c, "TIMEOUT")] /\ app' = NoCall
  <2>1. app'.pc = "idle" /\ app'.fn = "none"
    BY <1>5 DEF NoCall
  <2> QED
    BY <1>1, <1>2, <1>5, <2>1, AppCounts
<1>6. CASE c.abox # <<>> /\ conn' = [conn EXCEPT ![app.c] = d] /\ app' = minus
  <2>1. app'.c = app.c /\ app'.pc = "acceptMinus" /\ app'.fn = "accept"
    BY <1>2, <1>6 DEF AppShaped
  <2>2. c.rbox \in Seq(Packets) /\ c.abox \in Seq(Conns)
    BY <1>3 DEF Sound
  <2>3. Len(box) = Len(c.abox) - 1 /\ Len(c.rbox) \in Int /\ Len(c.abox) \in Int
    BY <1>6, <2>2
  <2> HIDE DEF box, minus
  <2>4. /\ d.rbox = c.rbox /\ d.abox = box /\ d.type = c.type /\ d.socket = c.socket /\ d.pcb = c.pcb
        /\ d.err = c.err /\ d.state = c.state /\ d.rvalid = c.rvalid /\ d.avalid = c.avalid
    BY <1>3 DEF Sound, Shaped
  <2> HIDE DEF d
  <2>5. Plain(d)
    BY <1>3, <2>4 DEF Plain
  <2>6. Boxed(d) = Boxed(c) - 1
    <3> DEFINE m == Len(c.rbox)
               n == Len(c.abox)
    <3>1. Boxed(c) = m + n /\ Boxed(d) = m + (n - 1) /\ m \in Int /\ n \in Int
      BY <2>3, <2>4 DEF Boxed
    <3> HIDE DEF m, n
    <3> QED
      BY <3>1
  <2>7. (\A i : ~Owes(i)) /\ \A i : Owes(i)' <=> i = app.c
    BY <1>1, <1>2, <2>1 DEF Owes
  <2>8. c.socket >= 0
    <3>1. InUse(app.s) /\ c = C(app.s)
      BY <1>2 DEF InUse, C, Conns
    <3> QED
      BY <1>1, <1>2, <3>1 DEF Good, Owned, Held, Socks
  <2> DEFINE b == app.c
  <2>9. /\ b \in Conns /\ conn' = [conn EXCEPT ![b] = d] /\ c = conn[b] /\ app'.c = b
        /\ \A i : Owes(i)' <=> i = b
    BY <1>2, <1>6, <2>1, <2>7
  <2> HIDE DEF b
  <2> QED
    BY <1>1, <2>1, <2>4, <2>5, <2>6, <2>7, <2>8, <2>9, FetchCounts
<1> QED
  BY <1>4, <1>5, <1>6

\* What was fetched is counted.
LEMMA MinusCounts ==
  ASSUME Good, Counts, UNCHANGED todo, NEW c \in Conns, EventCallback(c, "RCVMINUS"),
         conn[c].type # "free", conn[c].socket >= 0,
         \A i : Owes(i) <=> i = c, \A i : ~Owes(i)',
         app'.pc \notin {"acceptMinus", "acceptJoin", "wait", "back"}
  PROVE  Counts'
<1>1. Seated /\ Plainly /\ "RCVMINUS" \in CountedEvts /\ -1 \in Int
  BY DEF Counts, CountedEvts
<1>2. /\ \A i \in Conns :
           /\ conn'[i].type = conn[i].type /\ conn'[i].pcb = conn[i].pcb /\ conn'[i].err = conn[i].err
           /\ Boxed(conn'[i]) = Boxed(conn[i]) /\ (Exact(conn'[i]) <=> Exact(conn[i]))
           /\ (Plain(conn'[i]) <=> Plain(conn[i]))
           /\ conn'[i].socket = conn[i].socket \/ (conn'[i].socket < 0 /\ conn[i].socket < 0)
      /\ \A s \in Socks : sock'[s].conn = sock[s].conn
      /\ \A i \in Conns : conn[i].type # "free" => Rcv(i)' = (IF i = c THEN Rcv(i) + (-1) ELSE Rcv(i))
  BY <1>1, EventCounts
<1>3. AllAlike
  BY <1>1, EventAlike DEF Good
<1>4. \A i \in Conns : conn'[i].socket \in Int /\ conn[i].socket \in Int
  BY <1>3 DEF AllAlike, Alike, Good, Netconns, Sound
<1>5. Seated'
  BY <1>1, <1>2, <1>4 DEF Seated
<1>6. \A i \in Conns : One(Plus(i)') = One(Plus(i)) /\ One(Plus(i)) \in Int
  BY DEF Plus, One
<1>7. ASSUME NEW i \in Conns, conn[i].type # "free" PROVE Balance(i)' = Balance(i)
  <2>1. Rcv(i) \in Int /\ Boxed(conn[i]) \in Int /\ One(Owes(i)') = 0
    BY <1>1, <1>7, Numbers DEF One
  <2>2. CASE i = c
    <3>1. One(Owes(i)) = 1
      BY <2>2 DEF One
    <3>2. /\ Rcv(i)' = Rcv(i) + (-1) /\ One(Plus(i)') = One(Plus(i)) + 0
          /\ One(Owes(i)') = One(Owes(i)) + (-1)
      BY <1>2, <1>6, <1>7, <2>1, <2>2, <3>1
    <3>3. Boxed(conn'[i]) = Boxed(conn[i]) + 0
      BY <1>2, <2>1
    <3>4. Balance(i)' = Balance(i) + (((-1) + 0) - (0 + (-1))) /\ Balance(i) \in Int
      BY <2>1, <3>2, <3>3, BalanceMoves
    <3> QED
      BY <3>4
  <2>3. CASE i # c
    <3>1. One(Owes(i)) = 0
      BY <2>3 DEF One
    <3>2. /\ Rcv(i)' = Rcv(i) + 0 /\ One(Plus(i)') = One(Plus(i)) + 0
          /\ One(Owes(i)') = One(Owes(i)) + 0
      BY <1>2, <1>6, <1>7, <2>1, <2>3, <3>1
    <3>2a. Boxed(conn'[i]) = Boxed(conn[i]) + 0
      BY <1>2, <2>1
    <3>3. Balance(i)' = Balance(i) + ((0 + 0) - (0 + 0)) /\ Balance(i) \in Int
      BY <2>1, <3>2, <3>2a, BalanceMoves
    <3> QED
      BY <3>3
  <2> QED
    BY <2>2, <2>3
<1>8. Fresh'
  BY DEF Fresh
<1> QED
  BY <1>1, <1>2, <1>5, <1>7, <1>8, CountsStay DEF Plainly

\* netconn_recv_data counts the packet out.
LEMMA RecvMinusCounts == ASSUME Good, Counts, RecvMinus PROVE Counts'
<1> DEFINE to == IF app.fn = "eof" THEN "closed" ELSE "copy"
           b == app.c
<1>1. todo' = todo /\ app.pc = "minus" /\ EventCallback(b, "RCVMINUS") /\ app' = [app EXCEPT !.pc = to]
  BY DEF RecvMinus, At, Continues, AppUnchanged
<1>2. /\ app.s \in Socks /\ sock[app.s].conn = b /\ b \in Conns /\ AppShaped(app)
      /\ app.fn \in {"recv", "eof"}
  BY <1>1, OnSocket DEF Good, Types, Proceeds
<1>3. to \in {"closed", "copy"}
  OBVIOUS
<1> HIDE DEF to
<1>4. app'.pc = to
  BY <1>1, <1>2 DEF AppShaped
<1>5. InUse(app.s) /\ conn[b] = C(app.s)
  BY <1>2 DEF InUse, C, Conns
<1>6. conn[b].type # "free" /\ conn[b].socket >= 0
  BY <1>1, <1>2, <1>5 DEF Good, Owned, Held, Socks
<1>7. (\A i : Owes(i) <=> i = b) /\ \A i : ~Owes(i)'
  BY <1>1, <1>3, <1>4 DEF Owes
<1> HIDE DEF b
<1> QED
  BY <1>1, <1>2, <1>3, <1>4, <1>6, <1>7, MinusCounts

\* netconn_accept counts the netconn out.
LEMMA AcceptMinusCounts == ASSUME Good, Counts, AcceptMinus PROVE Counts'
<1> DEFINE b == app.c
<1>1. /\ todo' = todo /\ app.pc = "acceptMinus" /\ EventCallback(b, "RCVMINUS")
      /\ app' = [app EXCEPT !.pc = "api", !.fn = "peer", !.c = app.len]
  BY DEF AcceptMinus, At, Continues, AppUnchanged
<1>2. b \in Conns /\ AppShaped(app) /\ app.fn = "accept"
  BY <1>1 DEF Good, Types, Proceeds
<1>3. app'.pc = "api" /\ app'.fn = "peer"
  BY <1>1, <1>2 DEF AppShaped
<1>4. conn[b].socket >= 0 /\ conn[b].socket \in Int
  BY <1>1, <1>2 DEF Counts, Fresh, Good, Netconns, Sound
<1>5. ~Joining(b)
  BY <1>2, <1>4 DEF Good, Owned, Called
<1>6. app.s \in Socks /\ sock[app.s].conn = b
  BY <1>1, <1>5 DEF Good, Owned, Called
<1>7. InUse(app.s) /\ conn[b] = C(app.s)
  BY <1>2, <1>6 DEF InUse, C, Conns
<1>8. conn[b].type # "free"
  BY <1>6, <1>7 DEF Good, Owned, Held
<1>9. (\A i : Owes(i) <=> i = b) /\ \A i : ~Owes(i)'
  BY <1>1, <1>2, <1>3 DEF Owes
<1> HIDE DEF b
<1> QED
  BY <1>1, <1>2, <1>3, <1>4, <1>8, <1>9, MinusCounts

\* alloc_socket takes a socket nobody uses.
LEMMA AcceptAllocatesCounts == ASSUME Good, Counts, AcceptAllocates PROVE Counts'
<1> DEFINE unused == {r \in Socks : ~InUse(r)}
           k == [NoSock EXCEPT !.conn = app.c, !.snd = 1]
<1>1. /\ UNCHANGED <<conn, todo>> /\ app.pc = "acceptAlloc"
      /\ sock' = [sock EXCEPT ![FirstOf(unused)] = k]
      /\ app' = [app EXCEPT !.pc = "acceptJoin", !.s = FirstOf(unused)]
  BY DEF AcceptAllocates, At, Continues, AppUnchanged
<1>2. unused \in SUBSET Nat /\ unused # {}
  <2>1. unused # {}
    BY <1>1, SocketFree
  <2> QED
    BY <2>1 DEF Socks
<1>3. PICK s \in Socks : ~InUse(s) /\ s = FirstOf(unused)
  <2> HIDE DEF unused
  <2>1. FirstOf(unused) \in unused
    BY <1>2, FirstOfSome
  <2> QED
    BY <2>1 DEF unused
<1> HIDE DEF unused
<1>4. AppShaped(app)
  BY DEF Good, Types
<1>5. app'.pc = "acceptJoin" /\ app'.s = s /\ app'.fn = app.fn
  BY <1>1, <1>3, <1>4 DEF AppShaped
<1>6. k.rcv = 0
  BY DEF NoSock
<1> HIDE DEF k
<1>7. \A r \in Socks : sock'[r] = IF r = s THEN k ELSE sock[r]
  BY <1>1, <1>3 DEF Good, Types
<1>8. Seated /\ Plainly
  BY DEF Counts
<1>9. ASSUME NEW i \in Conns, conn[i].type # "free", conn[i].socket >= 0
      PROVE  conn[i].socket \in Socks /\ conn[i].socket # s /\ sock'[conn[i].socket] = sock[conn[i].socket]
  BY <1>3, <1>7, <1>8, <1>9 DEF Seated, InUse, Conns
<1>10. Seated'
  BY <1>1, <1>8, <1>9 DEF Seated
<1>11. \A i : ~Owes(i) /\ ~Owes(i)'
  <2>1. app.fn = "peer"
    BY <1>1 DEF Good, Types, Proceeds
  <2> QED
    BY <1>1, <1>5, <2>1 DEF Owes
<1>12. ASSUME NEW i \in Conns, conn[i].type # "free" PROVE Balance(i)' = Balance(i)
  <2>1. conn[i].socket \in Int
    BY DEF Good, Netconns, Sound
  <2>2. Rcv(i)' = Rcv(i)
    BY <1>1, <1>9, <1>12, <2>1 DEF Rcv
  <2>3. One(Plus(i)') = One(Plus(i)) /\ One(Owes(i)') = One(Owes(i))
    BY <1>1, <1>11 DEF Plus, One
  <2>4. Balance(i)' = Rcv(i)' + One(Plus(i)') - Boxed(conn'[i]) - One(Owes(i)')
    BY DEF Balance
  <2>5. Balance(i) = Rcv(i) + One(Plus(i)) - Boxed(conn[i]) - One(Owes(i))
    BY DEF Balance
  <2> QED
    BY <1>1, <2>2, <2>3, <2>4, <2>5
<1>13. Fresh'
  BY <1>3, <1>5, <1>6, <1>7 DEF Fresh
<1> QED
  BY <1>1, <1>5, <1>8, <1>10, <1>12, <1>13, CountsStay DEF Plainly

\* What arrived in the meantime is counted in the socket.
LEMMA AcceptJoinsCounts == ASSUME Good, Counts, AcceptJoins PROVE Counts'
<1> DEFINE s == app.s
           i == app.c
           c == conn[i]
           n == sock[s].rcv - 1 - c.socket
           k == [sock[s] EXCEPT !.rcv = n]
           d == [c EXCEPT !.socket = s]
<1>1. /\ todo' = todo /\ app.pc = "acceptJoin" /\ app' = NoCall
      /\ sock' = [sock EXCEPT ![s].rcv = @ - 1 - conn[i].socket]
      /\ conn' = [conn EXCEPT ![i].socket = s]
  BY DEF AcceptJoins, At, Continues, AppUnchanged
<1>2. i \in Conns /\ s \in Socks /\ sock[s].conn = i /\ app.fn = "peer" /\ Joining(i)
  BY <1>1 DEF Good, Types, Proceeds, Owned, Called, Joining
<1>3. /\ DOMAIN sock = Socks /\ SockShaped(sock[s]) /\ DOMAIN conn = Conns /\ Sound(c) /\ s \in Int /\ s >= 0
      /\ c.type # "free" /\ c.socket < 0 /\ sock[s].rcv = 0
  BY <1>1, <1>2 DEF Good, Types, Netconns, Socks, Owned, Called, Counts, Fresh
<1>4. k.rcv = n /\ k.conn = i /\ n = -1 - c.socket
  BY <1>2, <1>3 DEF SockShaped, Sound
<1>5. \A r \in Socks : sock'[r] = IF r = s THEN k ELSE sock[r]
  BY <1>1, <1>2, <1>3
<1>6. \A j \in Conns : conn'[j] = IF j = i THEN d ELSE conn[j]
  BY <1>1, <1>2, <1>3
<1>7. /\ d.type = c.type /\ d.state = c.state /\ d.err = c.err /\ d.rbox = c.rbox /\ d.rvalid = c.rvalid
      /\ d.abox = c.abox /\ d.pcb = c.pcb /\ d.avalid = c.avalid /\ d.socket = s
  BY <1>3 DEF Sound, Shaped
<1>8. app'.pc = "idle" /\ app'.fn = "none"
  BY <1>1 DEF NoCall
<1> DEFINE a == app.s
           b == app.c
<1> HIDE DEF k, d, n
<1>9. Boxed(d) = Boxed(c) /\ (Exact(d) <=> Exact(c)) /\ (Plain(d) <=> Plain(c))
  BY <1>7 DEF Boxed, Exact, Plain
<1>10. Seated /\ Plainly
  BY DEF Counts
<1>11. ASSUME NEW j \in Conns, j # i, conn[j].type # "free", conn[j].socket >= 0
       PROVE  conn[j].socket \in Socks /\ conn[j].socket # s
  BY <1>2, <1>10, <1>11 DEF Seated
<1>12. Seated'
  <2> SUFFICES ASSUME NEW j \in Conns, conn'[j].type # "free", conn'[j].socket >= 0
               PROVE  conn'[j].socket \in Socks /\ sock'[conn'[j].socket].conn = j
    BY DEF Seated
  <2>1. CASE j = i
    BY <1>2, <1>4, <1>5, <1>6, <1>7, <2>1
  <2>2. CASE j # i
    BY <1>5, <1>6, <1>10, <1>11, <2>2 DEF Seated
  <2> QED
    BY <2>1, <2>2
<1>13. \A j : ~Owes(j) /\ ~Owes(j)'
  BY <1>1, <1>2, <1>8 DEF Owes
<1>14. ASSUME NEW j \in Conns, conn[j].type # "free" PROVE Balance(j)' = Balance(j)
  <2>1. Rcv(j)' = Rcv(j)
    <3>1. CASE j = i
      BY <1>2, <1>3, <1>4, <1>5, <1>6, <1>7, <3>1 DEF Rcv
    <3>2. CASE j # i
      <4>1. conn[j].socket \in Int
        BY DEF Good, Netconns, Sound
      <4> QED
        BY <1>5, <1>6, <1>11, <1>14, <3>2, <4>1 DEF Rcv
    <3> QED
      BY <3>1, <3>2
  <2>2. Boxed(conn'[j]) = Boxed(conn[j])
    BY <1>6, <1>9
  <2>3. One(Plus(j)') = One(Plus(j)) /\ One(Owes(j)') = One(Owes(j))
    BY <1>1, <1>13 DEF Plus, One
  <2>4. Balance(j)' = Rcv(j)' + One(Plus(j)') - Boxed(conn'[j]) - One(Owes(j)')
    BY DEF Balance
  <2>5. Balance(j) = Rcv(j) + One(Plus(j)) - Boxed(conn[j]) - One(Owes(j))
    BY DEF Balance
  <2> QED
    BY <2>1, <2>2, <2>3, <2>4, <2>5
<1>15. Fresh'
  BY <1>8 DEF Fresh
<1> QED
  BY <1>1, <1>6, <1>7, <1>8, <1>9, <1>10, <1>12, <1>14, <1>15, CountsStay DEF Plainly

\* One netconn is opened or freed.
LEMMA CountsReplaced ==
  ASSUME Good, Counts, UNCHANGED todo, NEW c \in Conns, NEW d,
         \A i \in Conns : conn'[i] = IF i = c THEN d ELSE conn[i],
         Plain(d), ~Plus(c), ~Post(c), d.type # "free" => Balance(c)' = 0, Seated',
         \A i \in Conns : i # c /\ conn[i].type # "free" => Rcv(i)' = Rcv(i),
         \A i : ~Owes(i) /\ ~Owes(i)',
         app'.pc = "idle", app'.fn = "none"
  PROVE  Counts'
<1>1. \A i \in Conns : (Plus(i)' <=> Plus(i)) /\ (Post(i)' <=> Post(i))
  BY DEF Plus, Post
<1>2. ASSUME NEW i \in Conns, i # c, conn[i].type # "free" PROVE Balance(i)' = Balance(i)
  <2>1. One(Plus(i)') = One(Plus(i)) /\ One(Owes(i)') = One(Owes(i))
    BY <1>1 DEF One
  <2>2. Balance(i)' = Rcv(i)' + One(Plus(i)') - Boxed(conn'[i]) - One(Owes(i)')
    BY DEF Balance
  <2>3. Balance(i) = Rcv(i) + One(Plus(i)) - Boxed(conn[i]) - One(Owes(i))
    BY DEF Balance
  <2> QED
    BY <1>2, <2>1, <2>2, <2>3
<1>3. Balanced'
  <2>1. ASSUME NEW i \in Conns, i # c, conn[i].type # "free"
        PROVE  Balance(i)' >= One(Post(i)') /\ (Exact(conn[i]) => Balance(i)' = 0)
    <3>1. One(Post(i)') = One(Post(i))
      BY <1>1 DEF One
    <3> QED
      BY <1>2, <2>1, <3>1 DEF Counts, Balanced
  <2>2. d.type # "free" => Balance(c)' >= One(Post(c)')
    BY <1>1 DEF One
  <2> QED
    BY <2>1, <2>2 DEF Balanced
<1>4. Plainly'
  BY DEF Counts, Plainly
<1>5. Orderly'
  BY <1>1 DEF Counts, Orderly
<1>6. Fresh' /\ Deleted'
  BY DEF Fresh, Deleted
<1> QED
  BY <1>3, <1>4, <1>5, <1>6 DEF Counts

\* The netconn is deleted with its socket.
LEMMA DeleteCounts == ASSUME Good, Counts, Returns, app.fn = "delete" PROVE Counts'
<1> DEFINE b == app.c
<1>1. /\ todo' = todo /\ app.pc = "back" /\ conn' = [conn EXCEPT ![b] = Free] /\ app' = NoCall
      /\ sock' = [s \in Socks |-> IF s = app.s THEN NoSock ELSE sock[s]]
  BY DEF Returns, At, Continues, AppUnchanged
<1>2. b \in Conns /\ DOMAIN conn = Conns
  BY <1>1 DEF Good, Types, Proceeds
<1>3. conn[b].pcb.st = "none" /\ ~Plus(b) /\ ~Post(b)
  BY <1>1 DEF Counts, Deleted
<1>4. app'.pc = "idle" /\ app'.fn = "none"
  BY <1>1 DEF NoCall
<1>5. \A i : ~Owes(i) /\ ~Owes(i)'
  BY <1>1, <1>4 DEF Owes
<1>6. app.s \in Socks => sock[app.s].conn = b
  <2>1. NumSockets \notin Socks
    BY SocketsAssumption DEF Socks
  <2> QED
    BY <1>1, <2>1 DEF Good, Owned, Called, Joining
<1>7. \A i \in Conns : conn'[i] = IF i = b THEN Free ELSE conn[i]
  BY <1>1, <1>2
<1>8. Free.type = "free" /\ Plain(Free)
  <2>1. /\ Free.type = "free" /\ Free.state = "none" /\ Free.avalid = FALSE /\ Free.pcb = NoPcb
    BY DEF Free, Netconn
  <2>2. NoPcb.st = "none"
    BY DEF NoPcb, NewPcb
  <2> QED
    BY <2>1, <2>2 DEF Plain, States
<1>9. ASSUME NEW i \in Conns, i # b, conn[i].type # "free", conn[i].socket >= 0
      PROVE  /\ conn[i].socket \in Socks /\ sock'[conn[i].socket] = sock[conn[i].socket]
             /\ sock[conn[i].socket].conn = i
  BY <1>1, <1>6, <1>9 DEF Counts, Seated
<1>10. Seated'
  BY <1>7, <1>8, <1>9 DEF Seated
<1>11. ASSUME NEW i \in Conns, i # b, conn[i].type # "free" PROVE Rcv(i)' = Rcv(i)
  <2>1. conn[i].socket \in Int
    BY DEF Good, Netconns, Sound
  <2> QED
    BY <1>7, <1>9, <1>11, <2>1 DEF Rcv
<1> HIDE DEF b
<1> QED
  BY <1>1, <1>2, <1>3, <1>4, <1>5, <1>7, <1>8, <1>10, <1>11, CountsReplaced

\* lwip_socket opens a netconn nobody has counted for.
LEMMA SocketCounts == ASSUME Good, Counts, NEW s \in Socks, NEW type \in {"tcp", "udp"}, Socket(s, type) PROVE Counts'
<1> DEFINE c == CHOOSE i \in FreeConns : TRUE
           d == [Netconn(c, type) EXCEPT !.socket = s]
           n == IF type = "tcp" THEN 0 ELSE 1
           k == [NoSock EXCEPT !.conn = c, !.snd = n]
<1>1. /\ todo' = todo /\ app' = app /\ app.pc = "idle" /\ FreeConns # {}
      /\ \A r \in Socks : ~InUse(r)
      /\ conn' = [conn EXCEPT ![c] = d] /\ sock' = [sock EXCEPT ![s] = k]
  BY DEF Socket, Begins, AppUnchanged
<1>2. c \in Conns /\ conn[c].type = "free"
  BY <1>1 DEF FreeConns
<1> HIDE DEF c, n
<1>3. app.fn = "none"
  BY <1>1 DEF Good, Types, Proceeds
<1>4. \A i : ~Owes(i) /\ ~Owes(i)'
  BY <1>1, <1>3 DEF Owes
<1>5. ~Plus(c) /\ ~Post(c)
  BY <1>2 DEF Counts, Orderly
<1>6. k.conn = c /\ k.rcv = 0
  BY DEF NoSock
<1>7. /\ d.type = type /\ d.socket = s /\ d.state = "none" /\ d.rbox = <<>> /\ d.abox = <<>> /\ d.avalid = FALSE
      /\ d.rvalid = TRUE
  BY DEF Netconn
<1>8. d.state \in States
  BY <1>7 DEF States
<1> HIDE DEF k, d
<1>9. Plain(d)
  BY <1>7, <1>8 DEF Plain
<1>10. \A i \in Conns : conn'[i] = IF i = c THEN d ELSE conn[i]
  BY <1>1, <1>2 DEF Good, Types
<1>11. \A r \in Socks : sock'[r] = IF r = s THEN k ELSE sock[r]
  BY <1>1 DEF Good, Types
<1>12. s \in Int /\ s >= 0
  BY DEF Socks
<1>13. ASSUME NEW i \in Conns, conn[i].type # "free" PROVE ~(conn[i].socket >= 0)
  BY <1>1, <1>13 DEF Counts, Seated, InUse, Conns
<1>14. Seated'
  BY <1>6, <1>7, <1>10, <1>11, <1>12, <1>13 DEF Seated
<1>15. ASSUME NEW i \in Conns, i # c, conn[i].type # "free" PROVE Rcv(i)' = Rcv(i)
  <2>1. conn[i].socket \in Int
    BY DEF Good, Netconns, Sound
  <2>2. conn[i].socket < 0
    BY <1>13, <1>15, <2>1
  <2> QED
    BY <1>10, <1>15, <2>2 DEF Rcv
<1>16. \A i \in Conns : i = c => Balance(i)' = 0
  <2> SUFFICES ASSUME NEW i \in Conns, i = c PROVE Balance(i)' = 0
    OBVIOUS
  <2>1. Rcv(i)' = 0
    BY <1>6, <1>7, <1>10, <1>11, <1>12 DEF Rcv
  <2>2. Boxed(conn'[i]) = 0
    <3>1. d.rbox = <<>> /\ d.abox = <<>> /\ d.rbox \in Seq(Packets) /\ d.abox \in Seq(Conns)
      BY <1>7
    <3> QED
      BY <1>10, <3>1, BoxedCounts
  <2>3. One(Plus(i)') = 0 /\ One(Owes(i)') = 0
    BY <1>1, <1>4, <1>5 DEF One, Plus
  <2>4. Balance(i)' = Rcv(i)' + One(Plus(i)') - Boxed(conn'[i]) - One(Owes(i)')
    BY DEF Balance
  <2> QED
    BY <2>1, <2>2, <2>3, <2>4
<1>17. PICK j \in Conns : j = c
  BY <1>2
<1>18. /\ \A i \in Conns : conn'[i] = IF i = j THEN d ELSE conn[i]
       /\ ~Plus(j) /\ ~Post(j) /\ Balance(j)' = 0
       /\ \A i \in Conns : i # j /\ conn[i].type # "free" => Rcv(i)' = Rcv(i)
  BY <1>5, <1>10, <1>15, <1>16, <1>17
<1> QED
  BY <1>1, <1>3, <1>4, <1>9, <1>14, <1>18, CountsReplaced

\* Only a netconn is owed a count.
LEMMA OwesNonfree == ASSUME Good, Counts, NEW c \in Conns, Owes(c) PROVE conn[c].type # "free"
<1>1. /\ app.c = c /\ app.pc # "idle"
      /\ \/ app.pc = "minus" /\ app.fn \in {"recv", "eof"}
         \/ app.pc = "acceptMinus" /\ app.fn = "accept" /\ app.len \in Conns
         \/ app.pc \in {"api", "wait", "back"} /\ app.fn = "eof"
  BY DEF Owes, Good, Types, Proceeds
<1>2. ~Joining(c)
  <2>1. CASE app.pc = "acceptMinus"
    <3>1. conn[c].socket >= 0 /\ conn[c].socket \in Int
      BY <1>1, <2>1 DEF Counts, Fresh, Good, Netconns, Sound
    <3> QED
      BY <3>1 DEF Good, Owned, Called
  <2>2. CASE app.pc # "acceptMinus"
    BY <1>1, <2>2 DEF Joining
  <2> QED
    BY <2>1, <2>2
<1>3. app.s \in Socks /\ sock[app.s].conn = c
  BY <1>1, <1>2 DEF Good, Owned, Called
<1>4. InUse(app.s) /\ conn[c] = C(app.s)
  BY <1>3 DEF InUse, C, Conns
<1> QED
  BY <1>3, <1>4 DEF Good, Owned, Held

\* An accepted netconn has counted nothing.
LEMMA AcceptedCounts ==
  ASSUME NEW n
  PROVE  LET a == Accepted(n) IN
         a.type = "tcp" /\ a.socket = -1 /\ Boxed(a) = 0 /\ Plain(a) /\ a.err = "OK" /\ a.id = n
<1> DEFINE a == Accepted(n)
<1>1. /\ a.type = "tcp" /\ a.socket = -1 /\ a.rbox = <<>> /\ a.abox = <<>> /\ a.state = "none" /\ a.err = "OK"
      /\ a.avalid = FALSE /\ a.pcb.st = "open" /\ a.id = n
  BY DEF Accepted, Netconn, NewPcb
<1> HIDE DEF a
<1>2. a.rbox \in Seq(Packets) /\ a.abox \in Seq(Conns)
  BY <1>1
<1>3. Boxed(a) = 0
  BY <1>1, <1>2, BoxedCounts
<1>4. Plain(a)
  BY <1>1 DEF Plain, States
<1> QED
  BY <1>1, <1>3, <1>4 DEF a

\* A free netconn is plain.
LEMMA FreePlain == Free.type = "free" /\ Plain(Free)
<1>1. Free.type = "free" /\ Free.state = "none" /\ Free.avalid = FALSE /\ Free.pcb = NoPcb
  BY DEF Free, Netconn
<1>2. NoPcb.st = "none"
  BY DEF NoPcb, NewPcb
<1> QED
  BY <1>1, <1>2 DEF Plain, States

\* A handler keeps the balance, whatever netconns it frees or opens besides.
LEMMA HandlerCounts ==
  ASSUME Good, Counts, todo = <<>>, UNCHANGED sock, NEW c \in Conns, NEW d, Tally(conn[c], d), Shaped(d),
         conn[c].type # "free", d.type = conn[c].type, d.socket = conn[c].socket,
         d.ev \in Seq({c} \X Whats), todo' = d.ev, conn'[c] = [d EXCEPT !.ev = <<>>],
         d.rbox \in Seq(Packets), d.abox \in Seq(Conns),
         \A i \in Conns : i # c => \/ conn'[i] = conn[i] \/ conn'[i] = Free
                                   \/ conn[i].type = "free" /\ conn'[i] = Accepted(i),
         \A i : Owes(i)' <=> Owes(i), Fresh', Deleted'
  PROVE  Counts'
<1> DEFINE e == [d EXCEPT !.ev = <<>>]
           ev == d.ev
<1>1. /\ e.type = d.type /\ e.socket = d.socket /\ e.err = d.err /\ e.pcb = d.pcb /\ e.rbox = d.rbox
      /\ e.abox = d.abox /\ e.rvalid = d.rvalid /\ e.avalid = d.avalid /\ e.state = d.state
  BY DEF Shaped
<1>2. conn'[c] = e
  OBVIOUS
<1> HIDE DEF e
<1>3. Boxed(e) = Boxed(d) /\ (Exact(e) <=> Exact(d)) /\ (Plain(e) <=> Plain(d))
  BY <1>1 DEF Boxed, Exact, Plain
<1>4. \A i : ~Plus(i) /\ ~Post(i)
  BY DEF Plus, Post
<1>5. \A k \in DOMAIN ev : ev[k][1] = c
  BY DEF ev
<1>6. \A i : (Plus(i)' <=> i = c /\ Plussed(ev)) /\ (Post(i)' <=> i = c /\ Posted(ev))
  <2>1. todo' = ev
    OBVIOUS
  <2> HIDE DEF ev
  <2> QED
    BY <1>5, <2>1 DEF Plus, Post, Plussed, Posted
<1>7. Tally(conn[c], d) /\ todo' = ev
  OBVIOUS
<1>8. /\ Tidy(ev) /\ Plain(d)
      /\ Boxed(d) <= Boxed(conn[c]) \/ (Boxed(d) = Boxed(conn[c]) + 1 /\ Plussed(ev))
      /\ Posted(ev) => Boxed(d) <= Boxed(conn[c]) /\ Plussed(ev) /\ d.err \in Fatal /\ d.pcb.st = "none"
      /\ Exact(d) => Exact(conn[c]) /\ Boxed(d) = Boxed(conn[c]) + One(Plussed(ev))
  BY DEF Tally
<1> HIDE DEF ev
<1>9. ASSUME NEW i \in Conns, i # c, conn'[i].type # "free"
      PROVE  \/ conn'[i] = conn[i] /\ conn[i].type # "free"
             \/ conn[i].type = "free" /\ conn'[i] = Accepted(i) /\ conn'[i].socket = -1
  <2>1. Accepted(i).socket = -1 /\ Accepted(i).type = "tcp"
    BY AcceptedCounts
  <2>2. Free.type = "free"
    BY FreePlain
  <2>3. conn'[i] = conn[i] \/ (conn[i].type = "free" /\ conn'[i] = Accepted(i))
    BY <1>9, <2>2
  <2> QED
    BY <1>9, <2>1, <2>3
<1>10. Seated'
  <2> SUFFICES ASSUME NEW i \in Conns, conn'[i].type # "free", conn'[i].socket >= 0
               PROVE  conn'[i].socket \in Socks /\ sock[conn'[i].socket].conn = i
    BY DEF Seated
  <2>1. CASE i = c
    BY <1>1, <1>2, <2>1 DEF Counts, Seated
  <2>2. CASE i # c
    BY <1>9, <2>2 DEF Counts, Seated
  <2> QED
    BY <2>1, <2>2
<1>11. ASSUME NEW i \in Conns, i # c, conn'[i].type # "free"
       PROVE  Balance(i)' >= One(Post(i)') /\ (Exact(conn'[i]) => Balance(i)' = 0)
  <2>1. One(Post(i)') = 0 /\ One(Plus(i)') = 0 /\ One(Plus(i)) = 0 /\ One(Post(i)) = 0
    BY <1>4, <1>6, <1>11 DEF One
  <2>2. One(Owes(i)') = One(Owes(i))
    BY DEF One
  <2>3. Balance(i)' = Rcv(i)' + One(Plus(i)') - Boxed(conn'[i]) - One(Owes(i)')
    BY DEF Balance
  <2>4. CASE conn'[i] = conn[i] /\ conn[i].type # "free"
    <3>1. Rcv(i)' = Rcv(i)
      BY <2>4 DEF Rcv
    <3>2. Balance(i) = Rcv(i) + One(Plus(i)) - Boxed(conn[i]) - One(Owes(i))
      BY DEF Balance
    <3>3. Balance(i)' = Balance(i)
      BY <2>1, <2>2, <2>3, <2>4, <3>1, <3>2
    <3> QED
      BY <2>1, <2>4, <3>3 DEF Counts, Balanced
  <2>5. CASE conn[i].type = "free" /\ conn'[i] = Accepted(i)
    <3>1. ~Owes(i)
      BY <2>5, OwesNonfree
    <3>2. One(Owes(i)') = 0
      BY <2>2, <3>1 DEF One
    <3>3. conn'[i].socket = -1 /\ Boxed(conn'[i]) = 0
      BY <2>5, AcceptedCounts
    <3>4. Rcv(i)' = 0
      BY <3>3 DEF Rcv
    <3> QED
      BY <2>1, <2>3, <3>2, <3>3, <3>4
  <2> QED
    BY <1>9, <1>11, <2>4, <2>5
<1>12. Balance(c)' >= One(Post(c)') /\ (Exact(conn'[c]) => Balance(c)' = 0)
  <2>1. Seated /\ Balanced
    BY DEF Counts
  <2>2. Rcv(c) \in Int /\ Boxed(conn[c]) \in Nat /\ Boxed(d) \in Nat
    BY <2>1, Numbers, BoxedCounts
  <2>3. Rcv(c)' = Rcv(c)
    BY <1>1, <1>2 DEF Rcv
  <2>4. /\ One(Plus(c)) = 0 /\ One(Post(c)) = 0 /\ One(Plus(c)') = One(Plussed(ev))
        /\ One(Post(c)') = One(Posted(ev)) /\ One(Owes(c)') = One(Owes(c)) /\ One(Owes(c)) \in Int
    BY <1>4, <1>6 DEF One
  <2>5. Balance(c)' = Rcv(c) + One(Plussed(ev)) - Boxed(d) - One(Owes(c))
    <3>1. Balance(c)' = Rcv(c)' + One(Plus(c)') - Boxed(conn'[c]) - One(Owes(c)')
      BY DEF Balance
    <3> QED
      BY <1>2, <1>3, <2>3, <2>4, <3>1
  <2>6. Rcv(c) + 0 - Boxed(conn[c]) - One(Owes(c)) >= 0 /\ (Exact(conn[c]) => Rcv(c) + 0 - Boxed(conn[c]) - One(Owes(c)) = 0)
    <3>1. Balance(c) = Rcv(c) + One(Plus(c)) - Boxed(conn[c]) - One(Owes(c))
      BY DEF Balance
    <3>2. Balance(c) >= One(Post(c)) /\ (Exact(conn[c]) => Balance(c) = 0)
      BY <2>1 DEF Balanced
    <3>3. Balance(c) = Rcv(c) + 0 - Boxed(conn[c]) - One(Owes(c))
      BY <2>4, <3>1
    <3> QED
      BY <2>4, <3>2, <3>3
  <2> DEFINE r == Rcv(c)
             b == Boxed(conn[c])
             b1 == Boxed(d)
             o == One(Owes(c))
             p == One(Plussed(ev))
             q == One(Posted(ev))
             x == Exact(conn[c])
             y == Exact(d)
             z == Posted(ev)
             w == Plussed(ev)
  <2>7. /\ r \in Int /\ b \in Int /\ b1 \in Int /\ o \in Int
        /\ r + 0 - b - o >= 0 /\ (x => r + 0 - b - o = 0)
        /\ b1 <= b \/ (b1 = b + 1 /\ w)
        /\ z => b1 <= b /\ w
        /\ y => x /\ b1 = b + p
        /\ p = (IF w THEN 1 ELSE 0) /\ q = (IF z THEN 1 ELSE 0)
    BY <1>8, <2>2, <2>4, <2>6 DEF One
  <2> HIDE DEF r, b, b1, o, p, q, x, y, z, w
  <2>8. r + p - b1 - o >= q /\ (y => r + p - b1 - o = 0)
    BY <2>7
  <2>9. Balance(c)' >= q /\ (y => Balance(c)' = 0)
    BY <2>5, <2>8 DEF r, b1, o, p
  <2> QED
    BY <1>2, <1>3, <2>4, <2>9 DEF q, y
<1>13. Balanced'
  BY <1>11, <1>12 DEF Balanced
<1>14. Plainly'
  <2>1. ASSUME NEW i \in Conns PROVE Plain(conn'[i])
    <3>1. Plain(conn[i]) /\ Plain(Accepted(i)) /\ Plain(Free)
      BY AcceptedCounts, FreePlain DEF Counts, Plainly
    <3> QED
      BY <1>2, <1>3, <1>8, <3>1
  <2> QED
    BY <2>1 DEF Plainly
<1>15. Orderly'
  BY <1>1, <1>2, <1>6, <1>7, <1>8 DEF Orderly
<1> QED
  BY <1>10, <1>13, <1>14, <1>15 DEF Counts

\* A callback of the stack keeps the balance.
LEMMA CallbackCounts ==
  ASSUME Good, Counts, NEW c \in Conns, conn[c].pcb.st # "none", Callback(c),
         NEW d, Back(conn[c], d), Tally(conn[c], d), Becomes(d)
  PROVE  Counts'
<1> DEFINE b == conn[c]
           e == [d EXCEPT !.ev = <<>>]
<1>1. b.type # "free" /\ Sound(b)
  BY DEF Good, Netconns, Sound
<1>2. b.id = c
  BY <1>1 DEF Good, Netconns
<1>3. /\ Sound(d) /\ d.id = c /\ d.type = b.type /\ d.socket = b.socket /\ d.ev \in Seq({c} \X Whats)
  BY <1>2 DEF Back, Kept, Spoken
<1>4. todo = <<>> /\ UNCHANGED <<sock, app>> /\ todo' = d.ev /\ conn' = [conn EXCEPT ![c] = e]
  BY <1>3 DEF Callback, Becomes
<1>5. \A i \in Conns : conn'[i] = IF i = c THEN e ELSE conn[i]
  BY <1>4 DEF Good, Types
<1>6. /\ e.socket = d.socket /\ e.state = d.state /\ e.cur = d.cur /\ e.pcb = d.pcb
  BY <1>3 DEF Sound, Shaped
<1>7. Shaped(d) /\ d.rbox \in Seq(Packets) /\ d.abox \in Seq(Conns)
  BY <1>3 DEF Sound
<1>8. \A i : Owes(i)' <=> Owes(i)
  BY <1>4 DEF Owes
<1>9. conn'[c] = e
  BY <1>5
<1> HIDE DEF e
<1>10. Fresh'
  <2>1. app.pc = "acceptMinus" => app.c \in Conns
    BY DEF Good, Types, Proceeds
  <2> QED
    BY <1>3, <1>4, <1>5, <1>6, <2>1 DEF Counts, Fresh
<1>11. \A i : (Plus(i)' => i = c) /\ (Post(i)' => i = c)
  <2>1. \A k \in DOMAIN d.ev : d.ev[k][1] = c
    BY <1>3
  <2> DEFINE ev == d.ev
  <2>2. todo' = ev /\ \A k \in DOMAIN ev : ev[k][1] = c
    BY <1>4, <2>1
  <2> HIDE DEF ev
  <2> QED
    BY <2>2 DEF Plus, Post
<1>12. Deleted'
  <2> SUFFICES ASSUME app.fn = "delete"
               PROVE  /\ app.pc = "wait" => Doomed(conn'[app.c]) \/ conn'[app.c].pcb.st = "none"
                      /\ app.pc = "back" => conn'[app.c].pcb.st = "none" /\ ~Plus(app.c)' /\ ~Post(app.c)'
    BY <1>4 DEF Deleted
  <2>1. Deleted /\ (app.pc \in {"wait", "back"} => app.c \in Conns)
    BY DEF Counts, Good, Types, Proceeds
  <2>2. ASSUME app.pc = "wait" PROVE Doomed(conn'[app.c]) \/ conn'[app.c].pcb.st = "none"
    <3>1. CASE app.c = c
      <4>1. Doomed(b)
        BY <2>1, <2>2, <3>1 DEF Deleted
      <4>2. Doomed(d) \/ d.pcb.st = "none"
        BY <4>1 DEF Tally
      <4> QED
        BY <1>6, <1>9, <3>1, <4>2 DEF Doomed
    <3>2. CASE app.c # c
      BY <1>5, <2>1, <2>2, <3>2 DEF Deleted
    <3> QED
      BY <3>1, <3>2
  <2>3. ASSUME app.pc = "back" PROVE conn'[app.c].pcb.st = "none" /\ ~Plus(app.c)' /\ ~Post(app.c)'
    <3>1. conn[app.c].pcb.st = "none" /\ app.c # c /\ app.c \in Conns
      BY <2>1, <2>3 DEF Deleted
    <3> QED
      BY <1>4, <1>5, <1>11, <3>1
  <2> QED
    BY <2>2, <2>3
<1> QED
  <2>1. /\ \A i \in Conns : i # c => conn'[i] = conn[i]
        /\ conn'[c] = [d EXCEPT !.ev = <<>>]
    BY <1>5, <1>9 DEF e
  <2> QED
    BY <1>1, <1>3, <1>4, <1>7, <1>8, <1>10, <1>12, <2>1, HandlerCounts

\* A call works on a netconn.
LEMMA CalledNonfree ==
  ASSUME Good, app.pc # "idle" PROVE app.c \in Conns /\ conn[app.c].type # "free"
<1>1. app.c \in Conns
  BY DEF Good, Types, Proceeds
<1>2. CASE Joining(app.c)
  BY <1>1, <1>2 DEF Good, Owned, Called
<1>3. CASE ~Joining(app.c)
  <2>1. app.s \in Socks /\ sock[app.s].conn = app.c /\ app.c # 0
    BY <1>1, <1>3 DEF Good, Owned, Called, Conns
  <2> QED
    BY <1>1, <2>1 DEF Good, Owned, Held, InUse, C
<1> QED
  BY <1>2, <1>3

\* LwipNetconn.AcceptFunction counts the connection.
LEMMA AcceptTallies ==
  ASSUME NEW c, NEW n \in Conns, Sound(c), Plain(c), c.ev = <<>>, c.state = "listen"
  PROVE  LET d == AcceptFunction(c, n) IN
         /\ Tally(c, d) /\ Same([c EXCEPT !.abox = Append(c.abox, n)], d) /\ d.ev \in Seq({c.id} \X Whats)
<1> DEFINE box == Append(c.abox, n)
           a == [c EXCEPT !.abox = box]
           what == <<Event("RCVPLUS")>>
           d == Out(a, what)
<1>1. AcceptFunction(c, n) = d
  BY DEF AcceptFunction
<1>2. Quietly(what) /\ Neat(what) /\ HasPlus(what) /\ ~HasPost(what)
  BY QuietlyOne, NeatOne DEF Evts
<1>3. box \in Seq(Conns) /\ Len(box) = Len(c.abox) + 1 /\ Len(c.abox) \in Int /\ Len(c.rbox) \in Int
  BY DEF Sound
<1> HIDE DEF box, what
<1>4. /\ Shaped(a) /\ a.ev = <<>> /\ a.id = c.id /\ a.state = c.state /\ a.err = c.err /\ a.rbox = c.rbox
      /\ a.rvalid = c.rvalid /\ a.abox = box /\ a.pcb = c.pcb /\ a.avalid = c.avalid /\ a.cur = c.cur
      /\ a.type = c.type /\ a.socket = c.socket /\ a.nbConnect = c.nbConnect /\ c.avalid
  BY DEF Sound, Shaped
<1> HIDE DEF a
<1>5. Spoken(a) /\ what \in Seq(Whats)
  BY <1>2, <1>4 DEF Spoken, Quietly
<1>6. Same(a, d) /\ d.ev \in Seq({c.id} \X Whats)
  <2>0. Sound(a)
    <3>1. ShutdownRefused(a) <=> ShutdownRefused(c)
      BY <1>4 DEF ShutdownRefused
    <3> QED
      BY <1>3, <1>4, <3>1 DEF Sound
  <2>1. Same(a, d)
    BY <1>2, <1>5, <2>0, OutKeeps
  <2>2. d.ev \in Seq({a.id} \X Whats)
    BY <1>4, <1>5, OutSaid
  <2> QED
    BY <1>4, <2>1, <2>2
<1>7. Tidy(d.ev) /\ Plussed(d.ev) /\ ~Posted(d.ev)
  BY <1>2, <1>4, OutFirst DEF HasPlus, HasPost
<1> HIDE DEF d
<1>8. Boxed(a) = Boxed(c) + 1 /\ Boxed(c) \in Int
  <2> DEFINE m == Len(c.rbox)
             k == Len(c.abox)
  <2>1. Boxed(c) = m + k /\ Boxed(a) = m + (k + 1) /\ m \in Int /\ k \in Int
    BY <1>3, <1>4 DEF Boxed
  <2> HIDE DEF m, k
  <2> QED
    BY <2>1
<1>9. (Exact(a) <=> Exact(c)) /\ Plain(a) /\ ~Doomed(c)
  <2>1. c.pcb.st = "listen"
    BY DEF Sound
  <2> QED
    BY <1>4, <2>1 DEF Exact, Plain, Doomed
<1>10. Boxed(d) = Boxed(a) /\ (Exact(d) <=> Exact(a)) /\ (Plain(d) <=> Plain(a))
  BY <1>6, SameCounts
<1>11. Tally(c, d)
  BY <1>7, <1>8, <1>9, <1>10 DEF Tally, One
<1> QED
  BY <1>1, <1>6, <1>11 DEF a, box

\* accept_function
LEMMA ArrivesCounts == ASSUME Good, Counts, NEW c \in Conns, NEW n \in Conns, Arrives(c, n) PROVE Counts'
<1> DEFINE b == conn[c]
           a == [b EXCEPT !.abox = Append(b.abox, n)]
           d == AcceptFunction(b, n)
           e == [d EXCEPT !.ev = <<>>]
<1>1. /\ todo = <<>> /\ UNCHANGED <<sock, app>> /\ b.state = "listen" /\ conn[n].type = "free"
      /\ conn' = [conn EXCEPT ![c] = e, ![n] = Accepted(n)] /\ todo' = d.ev
  BY DEF Arrives, Callback
<1>2. Sound(b) /\ Sound(conn[n]) /\ Plain(b) /\ b.ev = <<>> /\ DOMAIN conn = Conns
  BY DEF Good, Netconns, Types, Counts, Plainly
<1>3. c # n /\ b.type # "free" /\ b.pcb.st = "listen"
  BY <1>1, <1>2 DEF Sound
<1>4. b.id = c
  BY <1>3 DEF Good, Netconns
<1>5. Tally(b, d) /\ Same(a, d) /\ d.ev \in Seq({c} \X Whats)
  BY <1>1, <1>2, <1>4, AcceptTallies
<1>6. a.type = b.type /\ a.socket = b.socket /\ a.rbox = b.rbox /\ a.abox = Append(b.abox, n)
  BY <1>2 DEF Sound, Shaped
<1>7. Append(b.abox, n) \in Seq(Conns) /\ b.rbox \in Seq(Packets)
  BY <1>2 DEF Sound
<1> HIDE DEF a, d
<1>8. Shaped(d) /\ d.type = b.type /\ d.socket = b.socket /\ d.rbox \in Seq(Packets) /\ d.abox \in Seq(Conns)
  BY <1>5, <1>6, <1>7 DEF Same
<1>9. \A i \in Conns : conn'[i] = IF i = n THEN Accepted(n) ELSE IF i = c THEN e ELSE conn[i]
  BY <1>1, <1>2
<1>10. e.socket = d.socket
  BY <1>8 DEF Shaped
<1>11. conn'[c] = [d EXCEPT !.ev = <<>>]
  BY <1>3, <1>9
<1> HIDE DEF e
<1>12. \A i : Owes(i)' <=> Owes(i)
  BY <1>1 DEF Owes
<1>13. app.pc # "idle" => app.c \in Conns /\ app.c # n
  BY <1>1, CalledNonfree
<1>14. Fresh'
  BY <1>1, <1>8, <1>9, <1>10, <1>13 DEF Counts, Fresh
<1>15. Deleted'
  <2>1. SUFFICES ASSUME app.fn = "delete", app.pc \in {"wait", "back"}
                 PROVE  app.c # c /\ conn'[app.c] = conn[app.c] /\ ~Plus(app.c)' /\ ~Post(app.c)'
    BY <1>1 DEF Counts, Deleted
  <2>2. app.c # c
    BY <1>1, <1>3, <2>1 DEF Counts, Deleted, Doomed
  <2>3. conn'[app.c] = conn[app.c]
    BY <1>9, <1>13, <2>1, <2>2
  <2>4. \A k \in DOMAIN d.ev : d.ev[k][1] = c
    BY <1>5
  <2> DEFINE ev == d.ev
  <2>5. todo' = ev /\ (\A k \in DOMAIN ev : ev[k][1] = c) /\ app' = app
    BY <1>1, <2>4
  <2> HIDE DEF ev
  <2>6. ~Plus(app.c)' /\ ~Post(app.c)'
    BY <2>2, <2>5 DEF Plus, Post
  <2> QED
    BY <2>2, <2>3, <2>6
<1>16. \A i \in Conns : i # c => \/ conn'[i] = conn[i] \/ conn'[i] = Free
                                 \/ conn[i].type = "free" /\ conn'[i] = Accepted(i)
  BY <1>1, <1>9
<1> QED
  BY <1>1, <1>3, <1>5, <1>7, <1>8, <1>11, <1>12, <1>14, <1>15, <1>16, HandlerCounts

\* What the stack calls keeps the balance.
LEMMA StackCounts == ASSUME Good, Counts, NEW c \in Conns, Stack(c) PROVE Counts'
<1> DEFINE b == conn[c]
<1>1. Sound(b) /\ Plain(b) /\ b.ev = <<>>
  BY DEF Good, Netconns, Counts, Plainly
<1>2. ASSUME b.type # "free" PROVE Sound(b) /\ Spoken(b) /\ Mute(b.ev)
  BY <1>2, Silent
<1>2a. b.pcb.st \in {"syn", "open", "udp"} => ~b.avalid /\ b.type # "free" /\ b.pcb.st # "none" /\ b.pcb.st # "closed"
  BY <1>1 DEF Sound, Plain
<1>3. CASE Connects(c)
  <2>1. b.state = "connect" /\ b.type # "free" /\ Callback(c) /\ Becomes(DoConnected(b)) /\ b.pcb.st # "none"
    BY <1>1, <1>3 DEF Connects, Sound
  <2>2. Back(b, DoConnected(b)) /\ Tally(b, DoConnected(b))
    BY <1>1, <1>2, <2>1, DoConnectedBack, DoConnectedTallies
  <2> QED
    BY <2>1, <2>2, CallbackCounts
<1>4. CASE Resets(c)
  <2>1. b.pcb.st \in {"syn", "open", "udp"} /\ Callback(c) /\ Becomes(ErrTcp(b, "RST")) /\ "RST" \in Fatal
    BY <1>4 DEF Resets, Fatal
  <2>2. Back(b, ErrTcp(b, "RST")) /\ Tally(b, ErrTcp(b, "RST"))
    BY <1>1, <1>2, <1>2a, <2>1, ErrTcpBack, ErrTcpTallies
  <2> QED
    BY <1>2a, <2>1, <2>2, CallbackCounts
<1>5. CASE Ends(c)
  <2>1. Callback(c) /\ Becomes(BothClosed(b)) /\ b.pcb.st = "open" /\ b.pcb.fin /\ b.pcb.txShut
    BY <1>5 DEF Ends
  <2>2. Back(b, BothClosed(b)) /\ Tally(b, BothClosed(b))
    BY <1>1, <1>2, <1>2a, <2>1, BothClosedBack, BothClosedTallies
  <2> QED
    BY <1>2a, <2>1, <2>2, CallbackCounts
<1>6. CASE ReceivesFin(c)
  <2>1. Callback(c) /\ Becomes(RecvTcpFin(b)) /\ b.pcb.st = "open"
    BY <1>6 DEF ReceivesFin
  <2>2. Back(b, RecvTcpFin(b)) /\ Tally(b, RecvTcpFin(b))
    BY <1>1, <1>2, <1>2a, <2>1, RecvTcpFinBack, RecvTcpFinTallies
  <2> QED
    BY <1>2a, <2>1, <2>2, CallbackCounts
<1>7. CASE Sent(c)
  <2>1. PICK x : b.pcb.st = "open" /\ Callback(c) /\ Becomes(SentTcp(b, x))
    BY <1>7 DEF Sent, Told
  <2>2. Back(b, SentTcp(b, x)) /\ Tally(b, SentTcp(b, x))
    BY <1>1, <1>2, <1>2a, <2>1, SentTcpBack, SentTcpTallies
  <2> QED
    BY <1>2a, <2>1, <2>2, CallbackCounts
<1>8. CASE Polls(c)
  <2>1. PICK x : b.pcb.st = "open" /\ Callback(c) /\ Becomes(PollTcp(b, x))
    BY <1>8 DEF Polls, Told
  <2>2. Back(b, PollTcp(b, x)) /\ Tally(b, PollTcp(b, x))
    BY <1>1, <1>2, <1>2a, <2>1, PollTcpBack, PollTcpTallies
  <2> QED
    BY <1>2a, <2>1, <2>2, CallbackCounts
<1>9. ASSUME NEW n \in Sizes, NEW push \in BOOLEAN, Receives(c, n, push) PROVE Counts'
  <2> DEFINE p == [from |-> b.pcb.given + 1, len |-> n, push |-> push]
  <2>1. /\ b.pcb.st \in {"syn", "open", "udp"} /\ Callback(c)
        /\ Becomes(RecvTcp(b, p)) \/ Becomes(RecvUdp(b, p))
    BY <1>9 DEF Receives
  <2>2. p \in Packets
    <3>1. b.pcb.given + 1 \in Int /\ n \in Int
      BY <1>1, SocketsAssumption DEF Sound, Sizes
    <3> QED
      BY <3>1 DEF Packets
  <2> HIDE DEF p
  <2>3. Back(b, RecvTcp(b, p)) /\ Back(b, RecvUdp(b, p))
    BY <1>2, <1>2a, <2>1, <2>2, RecvTcpBack, RecvUdpBack
  <2>4. Tally(b, RecvTcp(b, p)) /\ Tally(b, RecvUdp(b, p))
    BY <1>1, <1>2a, <2>1, <2>2, RecvTcpTallies, RecvUdpTallies
  <2> QED
    BY <1>2a, <2>1, <2>3, <2>4, CallbackCounts
<1> QED
  BY <1>3, <1>4, <1>5, <1>6, <1>7, <1>8, <1>9, ArrivesCounts DEF Stack

\* What a message does keeps the balance.
LEMMA TcpipTakesMessageCounts ==
  ASSUME Good, Counts, TcpipTakesMessage, Alive' PROVE Counts'
<1> DEFINE i == app.c
           b == conn[i]
           msg == [len |-> app.len, dont |-> app.dont, how |-> app.how]
           taken(j) == \E k \in DOMAIN b.abox : b.abox[k] = j
<1>1. /\ todo = <<>> /\ app.pc = "api" /\ app' = [app EXCEPT !.pc = "wait"] /\ UNCHANGED sock
      /\ \E x : LET d == Do(app.fn, b, msg, x)
                IN /\ todo' = d.ev
                   /\ conn' = [j \in Conns |-> IF j = i THEN [d EXCEPT !.ev = <<>>]
                                               ELSE IF ~d.avalid /\ taken(j) THEN Free ELSE conn[j]]
  BY DEF TcpipTakesMessage
<1>2. PICK d : /\ \E x : d = Do(app.fn, b, msg, x)
               /\ todo' = d.ev
               /\ conn' = [j \in Conns |-> IF j = i THEN [d EXCEPT !.ev = <<>>]
                                           ELSE IF ~d.avalid /\ taken(j) THEN Free ELSE conn[j]]
  <2>1. PICK x : LET d == Do(app.fn, b, msg, x)
                 IN /\ todo' = d.ev
                    /\ conn' = [j \in Conns |-> IF j = i THEN [d EXCEPT !.ev = <<>>]
                                                ELSE IF ~d.avalid /\ taken(j) THEN Free ELSE conn[j]]
    BY <1>1
  <2> DEFINE d == Do(app.fn, b, msg, x)
  <2> HIDE DEF msg
  <2> QED
    BY <2>1, Zenon
<1>3. i \in Conns /\ app.fn \in Fns /\ AppShaped(app) /\ "how" \in DOMAIN msg
  BY <1>1 DEF Good, Types, Proceeds
<1> HIDE DEF msg
<1>4. b.type # "free"
  BY <1>1, CalledNonfree
<1>5. Sound(b) /\ b.ev = <<>> /\ b.id = i /\ Idle(b) /\ Asked(b)
  <2>1. ~Busy(b)
    BY <1>1, <1>3 DEF Good, Calls
  <2>2. Sound(b) /\ b.ev = <<>> /\ Plain(b)
    BY <1>3 DEF Good, Netconns, Counts, Plainly
  <2> QED
    BY <1>3, <1>4, <2>1, <2>2, Silent DEF Idle, Asked
<1>6. Took(b, d) \/ Lost(d)
  BY <1>2, <1>3, <1>5, DoTook
<1>7. (Tally(b, d) /\ (app.fn = "delete" => Doomed(d) \/ d.pcb.st = "none")) \/ Lost(d)
  BY <1>2, <1>3, <1>5, DoTallies
<1> DEFINE e == [d EXCEPT !.ev = <<>>]
<1>8. \A j \in Conns : conn'[j] = IF j = i THEN e ELSE IF ~d.avalid /\ taken(j) THEN Free ELSE conn[j]
  BY <1>2
<1>9. ~Lost(d)
  <2>1. Lost(d) => e.fail # "none"
    BY DEF Lost, Shaped
  <2> QED
    BY <1>3, <1>8, <2>1 DEF Alive
<1>10. /\ Sound(d) /\ d.type = b.type /\ d.socket = b.socket /\ d.ev \in Seq({i} \X Whats)
       /\ Tally(b, d) /\ (app.fn = "delete" => Doomed(d) \/ d.pcb.st = "none")
  BY <1>5, <1>6, <1>7, <1>9 DEF Took, Kept, Spoken
<1>11. Shaped(d) /\ d.rbox \in Seq(Packets) /\ d.abox \in Seq(Conns)
  BY <1>10 DEF Sound
<1>12. e.state = d.state /\ e.cur = d.cur /\ e.pcb = d.pcb
  BY <1>11 DEF Shaped
<1>13. app'.pc = "wait" /\ app'.fn = app.fn /\ app'.c = i
  BY <1>1, <1>3 DEF AppShaped
<1>14. \A j : Owes(j)' <=> Owes(j)
  BY <1>1, <1>13 DEF Owes
<1>15. Fresh'
  BY <1>13 DEF Fresh
<1>16. conn'[i] = e /\ \A j \in Conns : j # i => conn'[j] = conn[j] \/ conn'[j] = Free
  BY <1>3, <1>8
<1> HIDE DEF e
<1>17. Deleted'
  BY <1>10, <1>12, <1>13, <1>16 DEF Deleted, Doomed
<1>18. conn'[i] = [d EXCEPT !.ev = <<>>]
  BY <1>16 DEF e
<1> DEFINE c == i
<1>19. /\ c \in Conns /\ conn[c].type # "free" /\ d.type = conn[c].type /\ d.socket = conn[c].socket
       /\ d.ev \in Seq({c} \X Whats) /\ Tally(conn[c], d) /\ conn'[c] = [d EXCEPT !.ev = <<>>]
       /\ \A j \in Conns : j # c => conn'[j] = conn[j] \/ conn'[j] = Free
  BY <1>3, <1>4, <1>10, <1>16, <1>18
<1> HIDE DEF i, c
<1> QED
  BY <1>1, <1>2, <1>11, <1>14, <1>15, <1>17, <1>19, HandlerCounts

\* The application's steps keep the balance.
LEMMA AppStepsCounts ==
  ASSUME Good, Counts, AppSteps \/ \E s \in Socks : Works(s)
  PROVE  Counts'
<1>1. CASE AppSteps
  BY <1>1, RecvLoopCounts, RecvFetchCounts, RecvMinusCounts, RecvClosedCounts, RecvCopyCounts,
     AcceptFetchCounts, AcceptMinusCounts, AcceptAllocatesCounts, AcceptJoinsCounts, ReturnsCounts,
     DeleteCounts DEF AppSteps
<1>2. ASSUME NEW s \in Socks, Works(s) PROVE Counts'
  <2>1. ASSUME NEW type \in program.types, Socket(s, type) PROVE Counts'
    <3>1. type \in {"tcp", "udp"}
      BY SocketsAssumption DEF Good, Types
    <3> QED
      BY <2>1, <3>1, SocketCounts
  <2> QED
    BY <1>2, <2>1, WorksCounts
<1> QED
  BY <1>1, <1>2

\* No socket is open.
LEMMA InitCounts == SocketsInit => Counts
<1> SUFFICES ASSUME SocketsInit PROVE Counts
  OBVIOUS
<1>1. \A c \in Conns : conn[c] = Free
  BY DEF SocketsInit
<1>2. Free.type = "free" /\ Plain(Free)
  BY FreePlain
<1>3. todo = <<>> /\ app.pc = "idle" /\ app.fn = "none"
  BY DEF SocketsInit, NoCall
<1>4. \A c : ~Plus(c) /\ ~Post(c)
  BY <1>3 DEF Plus, Post
<1>5. Tidy(todo)
  BY <1>3 DEF Tidy
<1> QED
  BY <1>1, <1>2, <1>3, <1>4, <1>5 DEF Counts, Seated, Balanced, Plainly, Orderly, Fresh, Deleted

\* Every step keeps the balance, as long as no handler is lost.
LEMMA CountsStep == ASSUME Inv, Alive => Counts, [SocketsNext]_sockVars, Alive' PROVE Counts'
<1>1. CASE UNCHANGED sockVars
  <2>1. UNCHANGED <<program, conn, sock, todo, app, sel>>
    BY <1>1 DEF sockVars
  <2>2. Good /\ Counts
    BY <2>1 DEF Inv, Alive
  <2>3. \A c : (Plus(c)' <=> Plus(c)) /\ (Post(c)' <=> Post(c)) /\ (Owes(c)' <=> Owes(c))
    BY <2>1 DEF Plus, Post, Owes
  <2>4. \A c \in Conns : Plain(conn[c])
    BY <2>2 DEF Counts, Plainly
  <2>5. app.pc = "acceptJoin" => app.s \in Socks
    BY <2>2 DEF Good, Owned, Called
  <2> QED
    BY <2>1, <2>2, <2>3, <2>4, <2>5, CountsKept DEF Good
<1>2. CASE SocketsNext
  <2>0. ASSUME Alive PROVE Good /\ Counts
    BY <2>0 DEF Inv
  <2>1. ASSUME NEW t \in Watchers, Selects(t) PROVE Counts'
    <3>1. conn' = conn
      BY <2>1 DEF Selects, Select, SelectEnlists, SelectCounts, SelectRescans, SelectWakes, SelectLeaves,
         SelectUnchanged
    <3>2. Good /\ Counts
      BY <2>0, <3>1 DEF Alive
    <3> QED
      BY <2>1, <3>2, SelectsCounts
  <2>2. CASE TcpipContinues
    BY <2>0, <2>2, TcpipContinuesCounts DEF TcpipContinues
  <2>3. CASE TcpipTakesMessage
    BY <2>0, <2>3, TcpipTakesMessageCounts DEF TcpipTakesMessage
  <2>4. CASE AppSteps
    <3>1. Alive
      BY <2>4 DEF AppSteps, RecvLoop, RecvFetch, RecvMinus, RecvClosed, RecvCopy, AcceptFetch, AcceptMinus,
         AcceptAllocates, AcceptJoins, Returns, At
    <3> QED
      BY <2>0, <2>4, <3>1, AppStepsCounts
  <2>5. ASSUME NEW s \in Socks, Works(s) PROVE Counts'
    <3>1. Alive
      BY <2>5 DEF Works, Socket, Connect, Listen, Close, SetNonblocking, Accept, Shutdown, Option, Send, Recv,
         Asks, Begins
    <3> QED
      BY <2>0, <2>5, <3>1, AppStepsCounts
  <2>6. ASSUME NEW c \in Conns, Stack(c) PROVE Counts'
    <3>1. Alive
      BY <2>6 DEF Stack, Connects, Resets, Ends, ReceivesFin, Sent, Polls, Receives, Arrives, Callback
    <3> QED
      BY <2>0, <2>6, <3>1, StackCounts
  <2> QED
    BY <1>2, <2>1, <2>2, <2>3, <2>4, <2>5, <2>6 DEF SocketsNext
<1> QED
  BY <1>1, <1>2

\* A call at rest owes nothing, and nothing is left to count.
LEMMA CountsMatch == ASSUME Inv, Alive => Counts PROVE EventsMatchMailbox
<1> SUFFICES ASSUME Quiet, app.pc = "idle", NEW c \in Conns,
                    (conn[c].type # "free" /\ conn[c].rvalid) \/ conn[c].avalid
             PROVE  LET n == conn[c]
                        held == Len(n.rbox) + Len(n.abox)
                        rcv == IF n.socket < 0 THEN -1 - n.socket ELSE sock[n.socket].rcv
                    IN IF n.err \in Fatal \/ ~n.pcb.recv THEN rcv >= held ELSE rcv = held
  BY DEF EventsMatchMailbox
<1>1. Good /\ Counts /\ todo = <<>>
  BY DEF Quiet, Inv
<1>2. ~Plus(c) /\ ~Post(c)
  BY <1>1 DEF Plus, Post
<1>3. ~Owes(c)
  <2>1. app.fn = "none"
    BY <1>1 DEF Good, Types, Proceeds
  <2> QED
    BY <2>1 DEF Owes
<1>4. conn[c].type # "free"
  <2>1. Plain(conn[c]) /\ Sound(conn[c])
    BY <1>1 DEF Counts, Plainly, Good, Netconns
  <2> QED
    BY <2>1 DEF Plain, Sound
<1>5. Rcv(c) \in Int /\ Boxed(conn[c]) \in Nat
  BY <1>1, <1>4, Numbers DEF Counts
<1>6. Balance(c) = Rcv(c) + One(Plus(c)) - Boxed(conn[c]) - One(Owes(c)) /\ One(Plus(c)) = 0 /\ One(Owes(c)) = 0
      /\ One(Post(c)) = 0
  BY <1>2, <1>3 DEF Balance, One
<1>7. Balance(c) >= 0 /\ (Exact(conn[c]) => Balance(c) = 0)
  BY <1>1, <1>4, <1>6 DEF Counts, Balanced
<1> DEFINE r == Rcv(c)
           b == Boxed(conn[c])
<1>8. r >= b /\ (Exact(conn[c]) => r = b)
  <2>1. Balance(c) = r + 0 - b - 0 /\ r \in Int /\ b \in Int
    BY <1>5, <1>6
  <2> HIDE DEF r, b
  <2> QED
    BY <1>7, <2>1
<1>9. ~(conn[c].err \in Fatal \/ ~conn[c].pcb.recv) => Exact(conn[c])
  BY DEF Exact
<1> QED
  BY <1>8, <1>9 DEF Rcv, Boxed

\* Whatever the sockets, the mailboxes, the applications and the failures: at
\* rest the event counter of a socket says what its mailboxes hold.
THEOREM CountersMatch == SocketsSpec => []EventsMatchMailbox
<1> DEFINE I == Inv /\ (Alive => Counts)
<1>1. SocketsInit => I
  BY InitGood, InitCounts DEF Inv
<1>2. I /\ [SocketsNext]_sockVars => I'
  <2> SUFFICES ASSUME I, [SocketsNext]_sockVars PROVE I'
    OBVIOUS
  <2>1. Inv'
    BY InvStep
  <2>2. Alive' => Counts'
    BY CountsStep
  <2> QED
    BY <2>1, <2>2
<1>3. I => EventsMatchMailbox
  BY CountsMatch
<1> QED
  BY <1>1, <1>2, <1>3, PTL DEF SocketsSpec

\* Both, as TLC checks them.
THEOREM SocketsAreSound == SocketsSpec => []SocketsSound
<1>1. NobodyForgotten /\ EventsMatchMailbox => SocketsSound
  BY DEF SocketsSound
<1> QED
  BY <1>1, NobodySleepsForEver, CountersMatch, PTL

=============================================================================
