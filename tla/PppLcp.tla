------------------------------- MODULE PppLcp -------------------------------
(* LCP (lcp.c), the phases of a link (auth.c) and the calls of the application
   (ppp.c). Authentication, IPCP and the automaton call each other in circles,
   in the code through tables of callbacks. Here each is instantiated twice:
   first the part that the layers below call (up, down, open, close), then the
   whole with every callback. A callback the first part cannot reach is Same.

   Options: "auth" with the protocol, "magic" with a number, "comp" for the
   options that are only taken or rejected (asyncmap, both compressions). The
   MRU is not asked for, since the one wanted is the default. A magic number
   is the next of the peer's own sequence (p.seed).  *)
EXTENDS PppIpcp

CONSTANTS MaxConfReqs, MaxTermReqs, MaxNakLoops, \* of fsm.h
          LoopbackFail, MaxEchoFails,            \* lcp_loopbackfail, lcp_echo_fails
          MaxChallenges, MaxAuthReqs, Magics     \* Magics bounds the numbers

Same(p) == p
Same2(p, a) == p
NotHandled(p, a) == [ok |-> FALSE, peer |-> p]

IpcpLow == INSTANCE PppFsm WITH
  Layer <- "ipcp", ResetCi <- IpcpResetCi, PrepareCi <- IpcpPrepareCi, AddCi <- IpcpAddCi,
  AckCi <- IpcpAckCi, NakCi <- IpcpNakCi, RejCi <- IpcpRejCi, ReqCi <- IpcpReqCi,
  Up <- Same, Down <- IpcpDown, Finished <- Same, ExtCode <- NotHandled

AuthLow == INSTANCE PppAuth WITH
  AuthPeerSuccess <- Same2, AuthWithPeerSuccess <- Same2,
  AuthPeerFail <- Same, AuthWithPeerFail <- Same

\* The application is told once of the end of the link.
LinkTerminated(p) ==
  IF p.phase = "DEAD" THEN p
  ELSE [p EXCEPT !.phase = "DEAD", !.open = FALSE,
                 !.told = IF p.errCode = "none" THEN "protocol" ELSE p.errCode]

LinkDown(p) ==
  LET q == IpcpLow!Close(IpcpLow!LowerDown(AuthLow!ChapLowerDown(AuthLow!PapLowerDown(p))))
  IN [q EXCEPT !.npOpen = 0, !.npUp = 0, !.phase = IF @ = "DEAD" THEN @ ELSE "TERMINATE"]

NetworkPhase(p) ==
  [IpcpLow!Open([p EXCEPT !.phase = "NETWORK"]) EXCEPT !.npOpen = @ + 1]

\* The next magic number, and the peer that has drawn it.
Magic(p) == p.seed
Drawn(p) == [p EXCEPT !.seed = (@ + 1) % Magics]

\* lcp_resetci and auth_reset: what is demanded of the peer needs a secret.
LcpResetCi(p) ==
  [Drawn(p) EXCEPT !.go = [auth |-> p.cfg.demand, magicOn |-> TRUE, magic |-> Magic(p),
                           comp |-> TRUE, loops |-> 0]]

AuthAsked(go) == IF "chap" \in go.auth THEN "chap" ELSE "pap"

LcpAddCi(p) ==
  LET go == p.go
      present == (IF go.auth = {} THEN {} ELSE {"auth"})
                   \cup (IF go.magicOn THEN {"magic"} ELSE {}) \cup (IF go.comp THEN {"comp"} ELSE {})
  IN [o \in present |-> CASE o = "auth" -> AuthAsked(go) [] o = "magic" -> go.magic [] o = "comp" -> "on"]

LcpAckCi(p, opts) == opts = LcpAddCi(p)

LcpAdopt(p, go) == IF p.lcp.state = "OPENED" THEN p ELSE [p EXCEPT !.go = go]

LcpRejCi(p, opts) ==
  LET go == [p.go EXCEPT !.auth = IF Has(opts, "auth") THEN {} ELSE @,
                         !.magicOn = @ /\ ~Has(opts, "magic"), !.comp = @ /\ ~Has(opts, "comp")]
  IN [ok |-> AmongAsked(opts, LcpAddCi(p)), peer |-> LcpAdopt(p, go)]

AuthVerdict(p, v) ==
  IF p.cfg.allow = {} THEN ConfRej ELSE IF v \in p.cfg.allow THEN ConfAck ELSE ConfNak

\* A request that carries the own number came back from the line.
Looped(p, asked) == Has(asked, "magic") /\ p.go.magicOn /\ asked["magic"] = p.go.magic

LcpVerdict(p, o, asked) ==
  CASE o = "auth" -> AuthVerdict(p, asked[o])
    [] o = "magic" -> IF Looped(p, asked) THEN ConfNak ELSE ConfAck
    [] o = "comp" -> IF p.cfg.comp THEN ConfAck ELSE ConfRej

\* When the negotiation does not end, a proposal becomes a rejection.
Firm(o, verdict, reject) == IF reject /\ verdict = ConfNak /\ o # "magic" THEN ConfRej ELSE verdict

LcpReqCi(p, asked, reject) ==
  LET verdict == [o \in DOMAIN asked |-> LcpVerdict(p, o, asked)]
      offer == [auth |-> IF "chap" \in p.cfg.allow THEN "chap" ELSE "pap", magic |-> Magic(p)]
      a == Answer([o \in DOMAIN asked |-> Firm(o, verdict[o], reject)], asked, offer)
      q == [p EXCEPT !.ho = Restrict(asked, {o \in DOMAIN asked : verdict[o] = ConfAck})]
  IN [code |-> a.code, opts |-> a.opts, peer |-> IF Looped(p, asked) THEN Drawn(q) ELSE q]

\* lcp_echo_lowerdown, link_down; ppp_send_config and the like set the framing.
LcpDown(p) ==
  LinkDown([p EXCEPT !.echo.timer = @ /\ ~p.echo.running, !.echo.running = FALSE])

LcpLow == INSTANCE PppFsm WITH
  Layer <- "lcp", ResetCi <- LcpResetCi, PrepareCi <- Same, AddCi <- LcpAddCi, AckCi <- LcpAckCi,
  NakCi <- NotHandled, RejCi <- LcpRejCi, ReqCi <- LcpReqCi,
  Up <- Same, Down <- LcpDown, Finished <- LinkTerminated, ExtCode <- NotHandled

LcpClose(p) == LcpLow!Close([p EXCEPT !.phase = IF @ = "DEAD" THEN @ ELSE "TERMINATE"])

\* The protocol to demand after the peer has named one.
NakAuth(auth, v) ==
  CASE v = "pap" -> auth \ {"chap"}
    [] v = "chap" /\ "chap" \notin auth -> auth \ {"pap"}
    [] OTHER -> auth

\* The peer names another number when it sees its own: is the line looped?
LcpNakCi(p, opts) ==
  LET go == p.go
      v == IF Has(opts, "auth") /\ go.auth # {} THEN opts["auth"] ELSE "none"
      looped == Has(opts, "magic") /\ go.magicOn
      try == [go EXCEPT !.auth = NakAuth(@, v), !.loops = IF looped THEN @ + 1 ELSE 0,
                        !.comp = @ /\ ~Has(opts, "comp"), !.magic = IF looped THEN Magic(p) ELSE @]
      drawn == IF looped THEN Drawn(p) ELSE p
      fails == looped /\ go.loops + 1 >= LoopbackFail /\ p.lcp.state # "OPENED"
  IN [ok |-> v = "pap" => "chap" \in go.auth,
      peer |-> LcpAdopt(IF fails THEN LcpClose(drawn) ELSE drawn, try)]

LcpLinkFailure(p) == IF p.lcp.state = "OPENED" THEN LcpClose(p) ELSE p

LcpSendEchoRequest(p) ==
  IF p.lcp.state # "OPENED" THEN p
  ELSE [LcpLow!SData(p, "EchoReq", 0, p.go.magic) EXCEPT !.echo.pending = @ + 1]

EchoTested(p) ==
  IF MaxEchoFails = 0 \/ p.echo.pending < MaxEchoFails THEN p
  ELSE [LcpLinkFailure(p) EXCEPT !.echo.pending = 0]

\* The timer is started again, whatever became of the link.
LcpEchoCheck(p) ==
  [LcpSendEchoRequest(EchoTested(p)) EXCEPT !.echo.timer = TRUE, !.echo.running = TRUE]

LcpEchoTimeout(q) ==
  LET p == [q EXCEPT !.echo.timer = FALSE]
  IN IF p.echo.running THEN LcpEchoCheck([p EXCEPT !.echo.running = FALSE]) ELSE p

LcpEchoLowerUp(p) ==
  LET q == [p EXCEPT !.echo.pending = 0, !.echo.running = FALSE]
  IN IF p.cfg.echo THEN LcpEchoCheck(q) ELSE q

\* Who has to prove himself to whom: what was agreed on in each direction.
AuthBits(p) ==
  LET with == IF Has(p.ho, "auth") THEN p.ho["auth"] ELSE "none"
  IN (IF "chap" \in p.go.auth THEN {"chapPeer"} ELSE IF "pap" \in p.go.auth THEN {"papPeer"} ELSE {})
       \cup (IF with = "chap" THEN {"chapWith"} ELSE IF with = "pap" THEN {"papWith"} ELSE {})

ServerStarts(p) ==
  CASE "chapPeer" \in p.pending -> AuthLow!ChapAuthPeer(p)
    [] "papPeer" \in p.pending -> AuthLow!PapAuthPeer(p)
    [] OTHER -> p

ClientStarts(p) ==
  CASE "chapWith" \in p.pending -> AuthLow!ChapAuthWithPeer(p)
    [] "papWith" \in p.pending -> AuthLow!PapAuthWithPeer(p)
    [] OTHER -> p

AuthPhase(p) == IF p.pending = {} THEN NetworkPhase(p) ELSE ClientStarts(ServerStarts(p))

Authenticate(p) ==
  IF p.cfg.demand # {} /\ p.go.auth = {} THEN LcpClose(p)
  ELSE AuthPhase([p EXCEPT !.phase = "AUTHENTICATE", !.pending = AuthBits(p)])

LinkEstablished(p) == Authenticate(IpcpLow!LowerUp(AuthLow!ChapLowerUp(AuthLow!PapLowerUp(p))))

LcpUp(p) == LinkEstablished(LcpEchoLowerUp(p))

-----------------------------------------------------------------------------
\* Mutant: goes on when the first of several authentications succeeds.
AuthSuccessOfOne(p, bit) == NetworkPhase([p EXCEPT !.pending = @ \ {bit}])

AuthSuccess(p, bit) ==
  LET q == [p EXCEPT !.pending = @ \ {bit}] IN IF q.pending = {} THEN NetworkPhase(q) ELSE q
AuthWithPeerFail(p) == LcpClose([p EXCEPT !.errCode = "authFail"])

Auth == INSTANCE PppAuth WITH
  AuthPeerSuccess <- AuthSuccess, AuthWithPeerSuccess <- AuthSuccess,
  AuthPeerFail <- LcpClose, AuthWithPeerFail <- AuthWithPeerFail

IpcpGoesUp(p) == IpcpUp(p, IpcpLow!Close)

\* Mutant: the last network protocol leaves the link open.
IpcpFinishedAlone(p) == [p EXCEPT !.npOpen = @ - 1]

\* np_finished: the last network protocol takes the link along.
IpcpFinished(p) ==
  LET q == [p EXCEPT !.npOpen = @ - 1] IN IF q.npOpen <= 0 THEN LcpClose(q) ELSE q

Ipcp == INSTANCE PppFsm WITH
  Layer <- "ipcp", ResetCi <- IpcpResetCi, PrepareCi <- IpcpPrepareCi, AddCi <- IpcpAddCi,
  AckCi <- IpcpAckCi, NakCi <- IpcpNakCi, RejCi <- IpcpRejCi, ReqCi <- IpcpReqCi,
  Up <- IpcpGoesUp, Down <- IpcpDown, Finished <- IpcpFinished, ExtCode <- NotHandled

LcpReceivedProtRej(p, proto) ==
  IF p.lcp.state # "OPENED" THEN p
  ELSE CASE proto = "ipcp" -> Ipcp!LowerDown(p)
         [] proto = "chap" -> Auth!ChapProtocolReject(p)
         [] proto = "pap" -> Auth!PapProtocolReject(p)
         [] proto = "lcp" -> LcpLow!ProtReject(p)

\* A reply that carries the own number came from oneself.
LcpReceivedEchoReply(p, magic) ==
  IF p.go.magicOn /\ magic = p.go.magic THEN p ELSE [p EXCEPT !.echo.pending = 0]

LcpExtCode(p, pkt) ==
  [ok |-> pkt.code \in {"ProtRej", "EchoReq", "EchoRep", "DiscReq"},
   peer |-> CASE pkt.code = "ProtRej" -> LcpReceivedProtRej(p, pkt.opts)
              [] pkt.code = "EchoReq" /\ p.lcp.state = "OPENED" ->
                   LcpLow!SData(p, "EchoRep", pkt.id, p.go.magic)
              [] pkt.code = "EchoRep" -> LcpReceivedEchoReply(p, pkt.opts)
              [] OTHER -> p]

Lcp == INSTANCE PppFsm WITH
  Layer <- "lcp", ResetCi <- LcpResetCi, PrepareCi <- Same, AddCi <- LcpAddCi, AckCi <- LcpAckCi,
  NakCi <- LcpNakCi, RejCi <- LcpRejCi, ReqCi <- LcpReqCi,
  Up <- LcpUp, Down <- LcpDown, Finished <- LinkTerminated, ExtCode <- LcpExtCode

-----------------------------------------------------------------------------
\* pppOverSerialOpen and pppStart: the control block is new, the protocols are not.
PppOpen(p) ==
  LET q == [p EXCEPT !.open = TRUE, !.errCode = "none", !.ifUp = FALSE, !.addrs = None, !.told = "none"]
  IN [LcpLow!Open(LcpLow!LowerUp(q)) EXCEPT !.phase = "ESTABLISH"]

PppClose(p) == LcpClose([p EXCEPT !.errCode = "user"])

PppHup(p) == LinkTerminated(LcpLow!LowerDown(p))

\* pppInput: what comes before its phase is dropped. pppInput offers the
\* packet to the protocol; one that is not compiled in would be rejected.
PppInput(p, pkt) ==
  IF p.phase \in {"DEAD", "INITIALIZE", "ESTABLISH", "AUTHENTICATE"} /\ pkt.proto # "lcp"
     /\ ~(p.phase = "AUTHENTICATE" /\ pkt.proto \in {"chap", "pap"})
  THEN p
  ELSE CASE pkt.proto = "lcp" -> Lcp!Input(p, pkt)
         [] pkt.proto = "ipcp" -> Ipcp!Input(p, pkt)
         [] pkt.proto = "chap" -> Auth!ChapInput(p, pkt)
         [] pkt.proto = "pap" -> Auth!PapInput(p, pkt)

NewPeer(cfg) ==
  [cfg |-> cfg, lcp |-> LcpLow!Fresh, ipcp |-> IpcpLow!Fresh, chap |-> AuthLow!ChapFresh, pap |-> AuthLow!PapFresh,
   phase |-> "INITIALIZE", go |-> [auth |-> {}, magicOn |-> FALSE, magic |-> 0, comp |-> FALSE, loops |-> 0],
   ho |-> None, pending |-> {}, npOpen |-> 0, npUp |-> 0, seed |-> cfg.seed,
   echo |-> [pending |-> 0, timer |-> FALSE, running |-> FALSE],
   igo |-> [addr |-> FALSE, old |-> FALSE, our |-> 0, his |-> 0, vj |-> FALSE, slots |-> 0, dns |-> FALSE, server |-> 0],
   iho |-> [addr |-> FALSE, his |-> 0, slots |-> 0], askAddr |-> FALSE, heard |-> FALSE,
   open |-> FALSE, ifUp |-> FALSE, addrs |-> None, vj |-> 0, route |-> FALSE,
   errCode |-> "none", told |-> "none", out |-> None]
=============================================================================
