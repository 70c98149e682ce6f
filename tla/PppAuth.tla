------------------------------ MODULE PppAuth ------------------------------
(* CHAP (chap.c) and PAP (pap.c). A peer may demand a protocol of the other
   (server) and be asked for one itself (client). The constants are the
   functions of auth.c that take the outcome. A challenge is named by its id,
   which the response repeats; the response is right when the two sides share
   the secret (p.cfg.secret). The server's timer is ChapChallengeTimeout until
   the peer is authenticated and ChapRechallenge then. *)
EXTENDS Naturals, Sequences

CONSTANTS
  MaxChallenges, MaxAuthReqs,   \* max_transmits, us_maxtransmits
  AuthPeerSuccess(_, _), AuthWithPeerSuccess(_, _), \* peer, protocol -> peer
  AuthPeerFail(_), AuthWithPeerFail(_)              \* peer -> peer

ChapFresh == [client |-> "initial", server |-> "initial", clientTimer |-> FALSE, serverTimer |-> FALSE,
              id |-> 0, transmits |-> 0, respId |-> 0, digest |-> FALSE]
PapFresh == [client |-> "initial", server |-> "initial", clientTimer |-> FALSE, serverTimer |-> FALSE,
             id |-> 0, transmits |-> 0]

Put(p, proto, code, id, opts) ==
  [p EXCEPT !.out = Append(@, [proto |-> proto, code |-> code, id |-> id, opts |-> opts])]

ChapSendChallenge(p) ==
  [Put(p, "chap", "Challenge", p.chap.id, <<>>)
     EXCEPT !.chap.serverTimer = TRUE, !.chap.transmits = @ + 1]

\* ChapGenChallenge and ChapSendChallenge.
ChapChallenge(p, state) ==
  ChapSendChallenge([p EXCEPT !.chap.id = (@ + 1) % 256, !.chap.transmits = 0, !.chap.server = state])

ChapSendResponse(p) ==
  [Put(p, "chap", "Response", p.chap.respId, p.cfg.secret)
     EXCEPT !.chap.client = "response", !.chap.clientTimer = TRUE]

ChapSendStatus(p, code) == Put(p, "chap", code, p.chap.id, <<>>)

ChapAuthWithPeer(p) ==
  [p EXCEPT !.chap.client = IF @ \in {"initial", "pending"} THEN "pending" ELSE "listen",
            !.chap.digest = TRUE]

ChapAuthPeer(p) ==
  IF p.chap.server \in {"initial", "pending"} THEN [p EXCEPT !.chap.server = "pending"]
  ELSE ChapChallenge(p, "initialChal")

ChapLowerUp(p) ==
  LET q == [p EXCEPT !.chap.client = CASE @ = "initial" -> "closed"
                                       [] @ = "pending" -> "listen" [] OTHER -> @]
  IN CASE q.chap.server = "initial" -> [q EXCEPT !.chap.server = "closed"]
       [] q.chap.server = "pending" -> ChapChallenge(q, "initialChal")
       [] OTHER -> q

ChapLowerDown(p) ==
  [p EXCEPT !.chap.serverTimer =
              @ /\ ~(p.chap.server \in {"initialChal", "rechallenge"}
                       \/ (p.chap.server = "open" /\ p.cfg.rechallenges)),
            !.chap.clientTimer = @ /\ p.chap.client # "response",
            !.chap.client = "initial", !.chap.server = "initial"]

\* ChapChallengeTimeout, or ChapRechallenge when the peer is authenticated.
ChapServerTimeout(q) ==
  LET p == [q EXCEPT !.chap.serverTimer = FALSE] IN
  CASE p.chap.server \in {"initialChal", "rechallenge"} ->
         IF p.chap.transmits >= MaxChallenges
         THEN AuthPeerFail([p EXCEPT !.chap.server = "badAuth"])
         ELSE ChapSendChallenge(p)
    [] p.chap.server = "open" /\ p.cfg.rechallenges -> ChapChallenge(p, "rechallenge")
    [] OTHER -> p

\* Responses are repeated without a limit.
ChapResponseTimeout(q) ==
  LET p == [q EXCEPT !.chap.clientTimer = FALSE]
  IN IF p.chap.client = "response" THEN ChapSendResponse(p) ELSE p

\* The state "initial" is not refused: only an unknown digest then stops it.
ChapReceiveChallenge(p, pkt) ==
  IF p.chap.client \in {"closed", "pending"} THEN p
  ELSE LET q == [p EXCEPT !.chap.clientTimer = @ /\ p.chap.client # "response",
                          !.chap.respId = pkt.id]
       IN IF q.chap.digest THEN ChapSendResponse(q) ELSE q

ChapReceiveResponse(p, pkt) ==
  CASE p.chap.server \in {"closed", "pending"} \/ pkt.id # p.chap.id -> p
    [] p.chap.server = "open" /\ pkt.id = p.chap.id -> ChapSendStatus(p, "Success")
    [] p.chap.server = "badAuth" /\ pkt.id = p.chap.id -> ChapSendStatus(p, "Failure")
    [] OTHER ->
         LET q == [p EXCEPT !.chap.serverTimer = FALSE]
             open == [ChapSendStatus(q, "Success")
                        EXCEPT !.chap.server = "open",
                               !.chap.serverTimer = p.cfg.rechallenges]
         IN IF ~pkt.opts
            THEN AuthPeerFail([ChapSendStatus(q, "Failure") EXCEPT !.chap.server = "badAuth"])
            ELSE IF p.chap.server = "initialChal" THEN AuthPeerSuccess(open, "chapPeer") ELSE open

ChapReceiveSuccess(p) ==
  IF p.chap.client # "response" THEN p
  ELSE AuthWithPeerSuccess([p EXCEPT !.chap.clientTimer = FALSE, !.chap.client = "open"], "chapWith")

ChapReceiveFailure(p) ==
  IF p.chap.client # "response" THEN p
  ELSE AuthWithPeerFail([p EXCEPT !.chap.clientTimer = FALSE])

\* The first failure closes the link, which leaves nothing to the second.
ChapProtocolReject(p) ==
  ChapLowerDown(CASE p.chap.server \notin {"initial", "closed"} -> AuthPeerFail(p)
                  [] p.chap.server \in {"initial", "closed"} /\ p.chap.client \notin {"initial", "closed"} ->
                       AuthWithPeerFail(p)
                  [] OTHER -> p)

ChapInput(p, pkt) ==
  CASE pkt.code = "Challenge" -> ChapReceiveChallenge(p, pkt)
    [] pkt.code = "Response" -> ChapReceiveResponse(p, pkt)
    [] pkt.code = "Success" -> ChapReceiveSuccess(p)
    [] pkt.code = "Failure" -> ChapReceiveFailure(p)

-----------------------------------------------------------------------------
PapSendAuthReq(p) ==
  LET id == (p.pap.id + 1) % 256
  IN [Put(p, "pap", "AuthReq", id, p.cfg.secret)
        EXCEPT !.pap.id = id, !.pap.clientTimer = TRUE, !.pap.transmits = @ + 1,
               !.pap.client = "authReq"]

PapListen(p) == [p EXCEPT !.pap.server = "listen", !.pap.serverTimer = TRUE]

PapAuthWithPeer(p) ==
  LET q == [p EXCEPT !.pap.transmits = 0]
  IN IF q.pap.client \in {"initial", "pending"} THEN [q EXCEPT !.pap.client = "pending"]
     ELSE PapSendAuthReq(q)

PapAuthPeer(p) ==
  IF p.pap.server \in {"initial", "pending"} THEN [p EXCEPT !.pap.server = "pending"] ELSE PapListen(p)

PapLowerUp(p) ==
  LET q == CASE p.pap.client = "initial" -> [p EXCEPT !.pap.client = "closed"]
             [] p.pap.client = "pending" -> PapSendAuthReq(p)
             [] OTHER -> p
  IN CASE q.pap.server = "initial" -> [q EXCEPT !.pap.server = "closed"]
       [] q.pap.server = "pending" -> PapListen(q)
       [] OTHER -> q

PapLowerDown(p) ==
  [p EXCEPT !.pap.clientTimer = @ /\ p.pap.client # "authReq",
            !.pap.serverTimer = @ /\ p.pap.server # "listen",
            !.pap.client = "initial", !.pap.server = "initial"]

PapTimeout(q) ==
  LET p == [q EXCEPT !.pap.clientTimer = FALSE]
  IN IF p.pap.client # "authReq" THEN p
     ELSE IF p.pap.transmits >= MaxAuthReqs
          THEN AuthWithPeerFail([p EXCEPT !.pap.client = "badAuth"])
          ELSE PapSendAuthReq(p)

\* The state is set after the link went down, and stays.
PapReqTimeout(q) ==
  LET p == [q EXCEPT !.pap.serverTimer = FALSE]
  IN IF p.pap.server # "listen" THEN p
     ELSE [AuthPeerFail(p) EXCEPT !.pap.server = "badAuth"]

PapReceiveAuthReq(p, pkt) ==
  CASE p.pap.server \in {"initial", "closed", "pending"} -> p
    [] p.pap.server = "open" -> Put(p, "pap", "AuthAck", pkt.id, <<>>)
    [] p.pap.server = "badAuth" -> Put(p, "pap", "AuthNak", pkt.id, <<>>)
    [] p.pap.server = "listen" ->
         LET q == [p EXCEPT !.pap.serverTimer = FALSE]
         IN IF pkt.opts
            THEN AuthPeerSuccess([Put(q, "pap", "AuthAck", pkt.id, <<>>) EXCEPT !.pap.server = "open"], "papPeer")
            ELSE AuthPeerFail([Put(q, "pap", "AuthNak", pkt.id, <<>>) EXCEPT !.pap.server = "badAuth"])

PapReceiveAuthAck(p) ==
  IF p.pap.client # "authReq" THEN p
  ELSE AuthWithPeerSuccess([p EXCEPT !.pap.clientTimer = FALSE, !.pap.client = "open"], "papWith")

\* The timer is left running: it will find another state.
PapReceiveAuthNak(p) ==
  IF p.pap.client # "authReq" THEN p ELSE AuthWithPeerFail([p EXCEPT !.pap.client = "badAuth"])

PapProtocolReject(p) ==
  PapLowerDown(CASE p.pap.client = "authReq" -> AuthWithPeerFail(p)
                 [] p.pap.client # "authReq" /\ p.pap.server = "listen" -> AuthPeerFail(p)
                 [] OTHER -> p)

PapInput(p, pkt) ==
  CASE pkt.code = "AuthReq" -> PapReceiveAuthReq(p, pkt)
    [] pkt.code = "AuthAck" -> PapReceiveAuthAck(p)
    [] pkt.code = "AuthNak" -> PapReceiveAuthNak(p)
=============================================================================
