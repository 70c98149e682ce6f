------------------------------- MODULE PppFsm -------------------------------
(* The option-negotiation automaton of PPP (fsm.c), which LCP and IPCP share.
   A peer is a record p; p[Layer] is the struct fsm of one layer, p.out what
   pppWrite was given. Every function of the file is an operator from peer to
   peer. The constants are the struct fsm_callbacks of the layer; OPT_PASSIVE,
   OPT_SILENT and OPT_RESTART are never set by this library, and the branches
   that test them are left out. *)
EXTENDS Naturals, Sequences

CONSTANTS
  Layer,               \* the field of the peer that holds the struct fsm
  MaxConfReqs, MaxTermReqs, MaxNakLoops, \* maxconfreqtransmits and its like
  ResetCi(_),          \* peer -> peer
  PrepareCi(_),        \* cilen: peer -> peer
  AddCi(_),            \* peer -> the options to ask for
  AckCi(_, _),         \* peer, options -> whether they are what was asked
  NakCi(_, _), RejCi(_, _), \* peer, options -> [ok, peer]
  ReqCi(_, _, _),      \* peer, options, reject -> [code, opts, peer]
  Up(_), Down(_), Finished(_), \* peer -> peer
  ExtCode(_, _)        \* peer, packet -> [ok, peer]

U8 == 256

Fresh == [state |-> "INITIAL", id |-> 0, reqid |-> 0, seenAck |-> FALSE,
          retransmits |-> 0, nakloops |-> 0, timer |-> FALSE]

State(p) == p[Layer].state
Become(p, s) == [p EXCEPT ![Layer].state = s]

\* TIMEOUT replaces a timer of the same function and argument.
Timeout(p) == [p EXCEPT ![Layer].timer = TRUE]
Untimeout(p) == [p EXCEPT ![Layer].timer = FALSE]

\* pppWrite does not ask whether the application has a session.
SData(p, code, id, opts) ==
  [p EXCEPT !.out = Append(@, [proto |-> Layer, code |-> code, id |-> id, opts |-> opts])]

NextId(p) == [p EXCEPT ![Layer].id = (@ + 1) % U8]

NewReqId(p) == LET q == NextId(p) IN [q EXCEPT ![Layer].reqid = q[Layer].id]

SConfReq(p, again) ==
  LET reset == IF State(p) \in {"REQSENT", "ACKRCVD", "ACKSENT"} THEN p
               ELSE [ResetCi(p) EXCEPT ![Layer].nakloops = 0]
      fresh == IF again THEN reset
               ELSE NewReqId([reset EXCEPT ![Layer].retransmits = MaxConfReqs])
      ready == PrepareCi([fresh EXCEPT ![Layer].seenAck = FALSE])
      sent == SData(ready, "ConfReq", ready[Layer].reqid, AddCi(ready))
  IN Timeout([sent EXCEPT ![Layer].retransmits = IF @ = 0 THEN 0 ELSE @ - 1])

STermReq(p) ==
  LET q == NewReqId(p)
  IN Timeout([SData(q, "TermReq", q[Layer].reqid, <<>>)
                EXCEPT ![Layer].retransmits = IF @ = 0 THEN 0 ELSE @ - 1])

\* The first of the MaxTermReqs requests to terminate.
Terminate(p) == STermReq([p EXCEPT ![Layer].retransmits = MaxTermReqs])

LowerUp(p) ==
  CASE State(p) = "INITIAL" -> Become(p, "CLOSED")
    [] State(p) = "STARTING" -> Become(SConfReq(p, FALSE), "REQSENT")
    [] OTHER -> p

LowerDown(p) ==
  CASE State(p) = "CLOSED" -> Become(p, "INITIAL")
    [] State(p) = "STOPPED" -> Become(p, "STARTING")
    [] State(p) = "CLOSING" -> Untimeout(Become(p, "INITIAL"))
    [] State(p) \in {"STOPPING", "REQSENT", "ACKRCVD", "ACKSENT"} -> Untimeout(Become(p, "STARTING"))
    [] State(p) = "OPENED" -> Become(Down(p), "STARTING")
    [] OTHER -> p

Open(p) ==
  CASE State(p) = "INITIAL" -> Become(p, "STARTING")
    [] State(p) = "CLOSED" -> Become(SConfReq(p, FALSE), "REQSENT")
    [] State(p) = "CLOSING" -> Become(p, "STOPPING")
    [] OTHER -> p

Close(p) ==
  CASE State(p) = "STARTING" -> Become(p, "INITIAL")
    [] State(p) = "STOPPED" -> Become(p, "CLOSED")
    [] State(p) = "STOPPING" -> Become(p, "CLOSING")
    [] State(p) \in {"REQSENT", "ACKRCVD", "ACKSENT"} -> Become(Terminate(Untimeout(p)), "CLOSING")
    [] State(p) = "OPENED" -> Become(Terminate(Down(p)), "CLOSING")
    [] OTHER -> p

\* The timer that fires has left the list.
FsmTimeout(q) ==
  LET p == Untimeout(q) IN
  CASE State(p) \in {"CLOSING", "STOPPING"} ->
         IF p[Layer].retransmits = 0
         THEN Finished(Become(p, IF State(p) = "CLOSING" THEN "CLOSED" ELSE "STOPPED"))
         ELSE STermReq(p)
    [] State(p) \in {"REQSENT", "ACKRCVD", "ACKSENT"} ->
         IF p[Layer].retransmits = 0
         THEN Finished(Become(p, "STOPPED"))
         ELSE LET sent == SConfReq(p, TRUE)
              IN IF State(p) = "ACKRCVD" THEN Become(sent, "REQSENT") ELSE sent
    [] OTHER -> p

\* A new round of requests: Down was already called where it has to be.
Restart(p) == Become(SConfReq(p, FALSE), "REQSENT")

RConfReq(p, pkt) ==
  IF State(p) = "CLOSED" THEN SData(p, "TermAck", pkt.id, <<>>)
  ELSE IF State(p) \in {"CLOSING", "STOPPING"} THEN p
  ELSE LET ready == CASE State(p) = "OPENED" -> SConfReq(Down(p), FALSE)
                      [] State(p) = "STOPPED" -> Restart(p)
                      [] OTHER -> p
           r == ReqCi(ready, pkt.opts, ready[Layer].nakloops >= MaxNakLoops)
           q == SData(r.peer, r.code, pkt.id, r.opts)
       IN IF r.code = "ConfAck"
          THEN LET agreed == [q EXCEPT ![Layer].nakloops = 0]
               IN IF State(q) = "ACKRCVD" THEN Up(Become(Untimeout(agreed), "OPENED"))
                  ELSE Become(agreed, "ACKSENT")
          ELSE LET s == IF State(q) = "ACKRCVD" THEN q ELSE Become(q, "REQSENT")
               IN IF r.code = "ConfNak" THEN [s EXCEPT ![Layer].nakloops = @ + 1] ELSE s

Expected(p, pkt) == pkt.id = p[Layer].reqid /\ ~p[Layer].seenAck

RConfAck(p, pkt) ==
  IF ~(Expected(p, pkt) /\ AckCi(p, pkt.opts)) THEN p
  ELSE LET q == [p EXCEPT ![Layer].seenAck = TRUE]
           again == [q EXCEPT ![Layer].retransmits = MaxConfReqs]
       IN CASE State(q) \in {"CLOSED", "STOPPED"} -> SData(q, "TermAck", pkt.id, <<>>)
            [] State(q) = "REQSENT" -> Become(again, "ACKRCVD")
            [] State(q) = "ACKRCVD" -> Restart(Untimeout(q))
            [] State(q) = "ACKSENT" -> Up(Become(Untimeout(again), "OPENED"))
            [] State(q) = "OPENED" -> Restart(Down(q))
            [] OTHER -> q

RConfNakRej(p, pkt) ==
  LET r == IF pkt.code = "ConfNak" THEN NakCi(p, pkt.opts) ELSE RejCi(p, pkt.opts)
  IN IF ~Expected(p, pkt) \/ ~r.ok THEN p
     ELSE LET q == [r.peer EXCEPT ![Layer].seenAck = TRUE]
          IN CASE State(q) \in {"CLOSED", "STOPPED"} -> SData(q, "TermAck", pkt.id, <<>>)
               [] State(q) \in {"REQSENT", "ACKSENT"} -> SConfReq(Untimeout(q), FALSE)
               [] State(q) = "ACKRCVD" -> Restart(Untimeout(q))
               [] State(q) = "OPENED" -> Restart(Down(q))
               [] OTHER -> q

RTermReq(p, pkt) ==
  LET q == CASE State(p) \in {"ACKRCVD", "ACKSENT"} -> Become(p, "REQSENT")
             [] State(p) = "OPENED" ->
                  Timeout(Become([Down(p) EXCEPT ![Layer].retransmits = 0], "STOPPING"))
             [] OTHER -> p
  IN SData(q, "TermAck", pkt.id, <<>>)

\* In OPENED the request goes out, but the state stays.
RTermAck(p) ==
  CASE State(p) = "CLOSING" -> Finished(Become(Untimeout(p), "CLOSED"))
    [] State(p) = "STOPPING" -> Finished(Become(Untimeout(p), "STOPPED"))
    [] State(p) = "ACKRCVD" -> Become(p, "REQSENT")
    [] State(p) = "OPENED" -> SConfReq(Down(p), FALSE)
    [] OTHER -> p

RCodeRej(p) == IF State(p) = "ACKRCVD" THEN Become(p, "REQSENT") ELSE p

ProtReject(p) ==
  CASE State(p) = "CLOSED" -> Finished(p)
    [] State(p) = "CLOSING" -> Finished(Become(Untimeout(p), "CLOSED"))
    [] State(p) = "STOPPED" -> Finished(p)
    [] State(p) \in {"STOPPING", "REQSENT", "ACKRCVD", "ACKSENT"} ->
         Finished(Become(Untimeout(p), "STOPPED"))
    [] State(p) = "OPENED" -> Become(Terminate(Down(p)), "STOPPING")
    [] OTHER -> p

Input(p, pkt) ==
  IF State(p) \in {"INITIAL", "STARTING"} THEN p
  ELSE CASE pkt.code = "ConfReq" -> RConfReq(p, pkt)
         [] pkt.code = "ConfAck" -> RConfAck(p, pkt)
         [] pkt.code \in {"ConfNak", "ConfRej"} -> RConfNakRej(p, pkt)
         [] pkt.code = "TermReq" -> RTermReq(p, pkt)
         [] pkt.code = "TermAck" -> RTermAck(p)
         [] pkt.code = "CodeRej" -> RCodeRej(p)
         [] OTHER -> LET r == ExtCode(p, pkt)
                     IN IF r.ok THEN r.peer
                        ELSE LET q == NextId(p) IN SData(q, "CodeRej", q[Layer].id, <<>>)
=============================================================================
