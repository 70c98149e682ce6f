------------------------------ MODULE PppProofs ------------------------------
(***************************************************************************)
(* Proofs about the PPP link, for every set of scenarios and every limit   *)
(* of retries.  An interface comes up in one place, ipcp_up, but there are *)
(* many ways into it and many ways the authentication behind it can stop   *)
(* being true.  So the proof says of one peer, whatever packet reaches it, *)
(* when it is sound, shows for every operator of fsm.c, lcp.c, auth.c,     *)
(* chap.c, pap.c and ipcp.c that it leaves a sound peer sound, and puts    *)
(* the two peers and the line together at the end.                         *)
(***************************************************************************)
EXTENDS PppNet, TLAPS

\* The values a field of a peer may have.
AuthOptions == {"chap", "pap"}
Protocols == {"lcp", "ipcp", "chap", "pap"}
PapServer == {"initial", "closed", "pending", "listen", "open", "badAuth"}
Phases == {"DEAD", "INITIALIZE", "ESTABLISH", "AUTHENTICATE", "NETWORK", "TERMINATE"}
PeerBits == {"chapPeer", "papPeer"}
Asleep == {"INITIAL", "STARTING"}
FsmStates == {"INITIAL", "STARTING", "CLOSED", "STOPPED", "CLOSING", "STOPPING", "REQSENT", "ACKRCVD", "ACKSENT", "OPENED"}

\* A peer has the fields the handlers read and write.
Shaped(p) ==
  /\ {"cfg", "phase", "pending", "open", "ifUp", "lcp", "ipcp", "chap", "pap", "go", "out", "echo"} \subseteq DOMAIN p
  /\ "state" \in DOMAIN p.lcp /\ "state" \in DOMAIN p.ipcp
  /\ {"client", "digest"} \subseteq DOMAIN p.chap /\ {"client", "server"} \subseteq DOMAIN p.pap
  /\ "auth" \in DOMAIN p.go /\ "pending" \in DOMAIN p.echo /\ p.pap.server \in PapServer

\* A packet as a peer that knows the secret, or does not, sends it: a proof is
\* right only if its sender knows the secret.
Proper(e, secret) ==
  /\ e.proto \in Protocols
  /\ e.proto = "chap" => e.code \in {"Challenge", "Response", "Success", "Failure"}
  /\ e.proto = "pap" => e.code \in {"AuthReq", "AuthAck", "AuthNak"}
  /\ e.code \in {"Response", "AuthReq"} => e.opts = secret
  /\ e.code = "ProtRej" => e.opts \in Protocols

\* A sequence of such packets.
Honest(s, secret) ==
  /\ s \in Seq({s[i] : i \in DOMAIN s})
  /\ \A i \in DOMAIN s : Proper(s[i], secret)

\* The authentication of the link has begun, or is over: this side answers a
\* challenge or asks to be let in, or IP is being negotiated.
Begun(p) ==
  \/ p.chap.digest \/ p.chap.client = "response"
  \/ p.pap.client \in {"pending", "authReq"} \/ p.phase = "NETWORK"
\* A peer configured as c has had the proof it demands, if it demands one: the
\* other side knows the secret, which k says.
Proven(c, k) == c.demand = {} \/ k

\* What holds of a peer also inside a handler, between two of the calls it
\* makes. c is its configuration and k tells whether the other side knows the
\* secret. An interface is up only over an open LCP and an open IPCP; above an
\* LCP that is not open IPCP sleeps; and once authentication has begun with no
\* proof of the other side outstanding, the other side knows the secret.
Loose(p, c, k) ==
  /\ Shaped(p) /\ p.cfg = c /\ Honest(p.out, c.secret)
  /\ p.go.auth \subseteq AuthOptions /\ c.demand \subseteq AuthOptions
  /\ p.ifUp => p.open /\ p.lcp.state = "OPENED" /\ p.ipcp.state = "OPENED"
  /\ p.lcp.state \in FsmStates /\ p.ipcp.state \in FsmStates /\ p.phase \in Phases
  /\ p.lcp.state # "OPENED" => p.ipcp.state \in Asleep
  /\ p.phase = "NETWORK" => p.pending = {}
  /\ Begun(p) /\ p.pending \cap PeerBits = {} => Proven(c, k)

\* What holds of a peer between two handlers.
Sound(p, c, k) ==
  /\ Loose(p, c, k)
  /\ p.ifUp => p.phase = "NETWORK"
  /\ p.phase = "TERMINATE" => p.ipcp.state \in Asleep

\* A peer whose layers above LCP are down.
Idle(p, c, k) == Sound(p, c, k) /\ p.ipcp.state \in Asleep

\* The inductive invariant: both peers are sound and what is on the line is
\* what its senders can know.
PppInv ==
  /\ DOMAIN peer = Ends /\ DOMAIN wire = Ends
  /\ \A x \in Ends : Sound(peer[x], peer[x].cfg, peer[Other(x)].cfg.secret)
  /\ \A x \in Ends : Honest(wire[x], peer[Other(x)].cfg.secret)

-----------------------------------------------------------------------------
\* An honest sequence with one more proper packet at its end is honest.
LEMMA HonestAppend ==
  ASSUME NEW s, NEW secret, Honest(s, secret), NEW e, Proper(e, secret)
  PROVE  Honest(Append(s, e), secret)
<1> DEFINE S == {s[i] : i \in DOMAIN s}
           T == S \cup {e}
           t == Append(s, e)
<1>1. s \in Seq(T) /\ e \in T
  BY DEF Honest
<1> HIDE DEF S, T
<1>2. t \in Seq(T) /\ Len(t) = Len(s) + 1 /\ \A i \in 1 .. Len(t) : t[i] = IF i = Len(s) + 1 THEN e ELSE s[i]
  BY <1>1
<1>3. DOMAIN s = 1 .. Len(s) /\ DOMAIN t = 1 .. Len(t) /\ Len(s) \in Nat
  BY <1>1, <1>2
<1> HIDE DEF t
<1>4. t \in Seq({t[i] : i \in DOMAIN t})
  BY <1>2, <1>3
<1>5. \A i \in DOMAIN t : Proper(t[i], secret)
  BY <1>2, <1>3 DEF Honest
<1>6. QED
  BY <1>4, <1>5 DEF Honest, t

\* q is p but for what the authentication protocols, the options asked for,
\* the counters and the timers say; what it sends meanwhile is honest.
Kept(q, p) ==
  /\ Shaped(q) /\ q.cfg = p.cfg /\ q.phase = p.phase /\ q.pending = p.pending /\ q.open = p.open /\ q.ifUp = p.ifUp
  /\ q.lcp.state = p.lcp.state /\ q.ipcp.state = p.ipcp.state
  /\ p.cfg.demand \subseteq AuthOptions /\ p.go.auth \subseteq AuthOptions => q.go.auth \subseteq AuthOptions
  /\ Honest(p.out, p.cfg.secret) => Honest(q.out, p.cfg.secret)

\* ... and the authentication of this side stands where it stood.
Alike(q, p) ==
  /\ Kept(q, p)
  /\ q.chap.digest = p.chap.digest /\ q.chap.client = p.chap.client /\ q.pap.client = p.pap.client

\* A peer like a shaped one is shaped.
LEMMA AlikeShaped ==
  ASSUME NEW p, NEW q, Alike(q, p)
  PROVE  Shaped(q)
  BY DEF Alike, Kept

\* A peer like one that is like a third is like the third.
LEMMA AlikeTwice ==
  ASSUME NEW p, NEW q, NEW r, Alike(r, q), Alike(q, p)
  PROVE  Alike(r, p)
  BY DEF Alike, Kept

\* A change that keeps a peer, and does not begin its authentication, keeps
\* each of the three conditions.
LEMMA KeptSound ==
  ASSUME NEW p, NEW q, Kept(q, p), Begun(q) => Begun(p), NEW c, NEW k
  PROVE  /\ Loose(p, c, k) => Loose(q, c, k)
         /\ Sound(p, c, k) => Sound(q, c, k)
         /\ Idle(p, c, k) => Idle(q, c, k)
<1>1. Loose(p, c, k) => Loose(q, c, k)
  BY DEF Kept, Loose
<1>2. Sound(p, c, k) => Sound(q, c, k)
  BY <1>1 DEF Kept, Sound
<1>3. QED
  BY <1>1, <1>2 DEF Kept, Idle

\* A change that leaves a peer alike keeps each of the three conditions.
LEMMA AlikeSound ==
  ASSUME NEW p, NEW q, Alike(q, p), NEW c, NEW k
  PROVE  /\ Loose(p, c, k) => Loose(q, c, k)
         /\ Sound(p, c, k) => Sound(q, c, k)
         /\ Idle(p, c, k) => Idle(q, c, k)
<1>1. Kept(q, p) /\ (Begun(q) => Begun(p))
  BY DEF Alike, Kept, Begun
<1>2. QED
  BY <1>1, KeptSound

\* fsm_sdata of LCP sends no proof of anything.
LEMMA LcpSData ==
  ASSUME NEW p, Shaped(p), NEW code, code \notin {"Response", "AuthReq", "ProtRej"}, NEW id, NEW opts
  PROVE  Alike(LcpLow!SData(p, code, id, opts), p)
<1> DEFINE e == [proto |-> "lcp", code |-> code, id |-> id, opts |-> opts]
<1>1. LcpLow!SData(p, code, id, opts) = [p EXCEPT !.out = Append(@, e)]
  BY DEF LcpLow!SData
<1>2. Proper(e, p.cfg.secret)
  BY DEF Proper, Protocols
<1> HIDE DEF e
<1>3. Honest(p.out, p.cfg.secret) => Honest(Append(p.out, e), p.cfg.secret)
  BY <1>2, HonestAppend
<1>4. QED
  BY <1>1, <1>3 DEF Alike, Kept, Shaped

\* The timers and the identifiers of LCP are of no concern.
LEMMA LcpTimerAlike ==
  ASSUME NEW p, Shaped(p)
  PROVE  Alike(LcpLow!Timeout(p), p) /\ Alike(LcpLow!Untimeout(p), p) /\ Alike(LcpLow!NextId(p), p)
  BY DEF LcpLow!Timeout, LcpLow!Untimeout, LcpLow!NextId, Alike, Kept, Shaped

\* Nor are the counters of LCP.
LEMMA LcpCountAlike ==
  ASSUME NEW p, Shaped(p), NEW n
  PROVE  /\ Alike([p EXCEPT !.lcp.nakloops = n], p) /\ Alike([p EXCEPT !.lcp.retransmits = n], p)
         /\ Alike([p EXCEPT !.lcp.seenAck = n], p) /\ Alike([p EXCEPT !.lcp.reqid = n], p)
  BY DEF Alike, Kept, Shaped

\* Nor is a new identifier for a request.
LEMMA LcpNewReqIdAlike ==
  ASSUME NEW p, Shaped(p)
  PROVE  Alike(LcpLow!NewReqId(p), p)
<1> DEFINE q == LcpLow!NextId(p)
<1>1. Alike(q, p) /\ Shaped(q)
  BY LcpTimerAlike, AlikeShaped
<1> HIDE DEF q
<1>2. Alike([q EXCEPT !.lcp.reqid = q.lcp.id], q)
  BY <1>1, LcpCountAlike
<1>3. LcpLow!NewReqId(p) = [q EXCEPT !.lcp.reqid = q.lcp.id]
  BY DEF LcpLow!NewReqId, q
<1>4. QED
  BY <1>1, <1>2, <1>3, AlikeTwice

\* lcp_resetci asks for what is configured.
LEMMA LcpResetAlike ==
  ASSUME NEW p, Shaped(p)
  PROVE  Alike(LcpResetCi(p), p)
  BY DEF LcpResetCi, Drawn, Magic, Alike, Kept, Shaped

\* fsm_sconfreq of LCP.
LEMMA LcpSConfReqAlike ==
  ASSUME NEW p, Shaped(p), NEW again
  PROVE  Alike(LcpLow!SConfReq(p, again), p)
<1> DEFINE asked == LcpLow!State(p) \in {"REQSENT", "ACKRCVD", "ACKSENT"}
           cleared == LcpResetCi(p)
           reset == IF asked THEN p ELSE [cleared EXCEPT !.lcp.nakloops = 0]
           refilled == [reset EXCEPT !.lcp.retransmits = MaxConfReqs]
           fresh == IF again THEN reset ELSE LcpLow!NewReqId(refilled)
           unseen == [fresh EXCEPT !.lcp.seenAck = FALSE]
           ready == Same(unseen)
           sent == LcpLow!SData(ready, "ConfReq", ready.lcp.reqid, LcpAddCi(ready))
           less == IF sent.lcp.retransmits = 0 THEN 0 ELSE sent.lcp.retransmits - 1
           counted == [sent EXCEPT !.lcp.retransmits = less]
<1>1. LcpLow!SConfReq(p, again) = LcpLow!Timeout(counted)
  BY DEF LcpLow!SConfReq, LcpLow!State
<1>2. Alike(p, p)
  BY DEF Alike, Kept
<1>3. Alike(reset, p)
  <2>1. Alike(cleared, p) /\ Shaped(cleared)
    BY LcpResetAlike, AlikeShaped
  <2> HIDE DEF cleared
  <2>2. Alike([cleared EXCEPT !.lcp.nakloops = 0], cleared)
    BY <2>1, LcpCountAlike
  <2>3. QED
    BY <1>2, <2>1, <2>2, AlikeTwice
<1> HIDE DEF reset
<1>4. Alike(fresh, p)
  <2>1. Alike(refilled, reset)
    BY <1>3, LcpCountAlike, AlikeShaped
  <2> HIDE DEF refilled
  <2>2. Alike(LcpLow!NewReqId(refilled), refilled)
    BY <2>1, LcpNewReqIdAlike, AlikeShaped
  <2>3. QED
    BY <1>3, <2>1, <2>2, AlikeTwice
<1> HIDE DEF fresh
<1>5. Alike(unseen, p)
  <2>1. Alike(unseen, fresh)
    BY <1>4, LcpCountAlike, AlikeShaped
  <2>2. QED
    BY <1>4, <2>1, AlikeTwice
<1> HIDE DEF unseen
<1>6. Alike(ready, p)
  BY <1>5, Zenon DEF Same
<1> HIDE DEF ready
<1>7. Alike(sent, p)
  <2>1. Alike(sent, ready)
    BY <1>6, LcpSData, AlikeShaped
  <2>2. QED
    BY <1>6, <2>1, AlikeTwice
<1> HIDE DEF sent, less
<1>8. Alike(counted, p)
  <2>1. Alike(counted, sent)
    BY <1>7, LcpCountAlike, AlikeShaped
  <2>2. QED
    BY <1>7, <2>1, AlikeTwice
<1> HIDE DEF counted
<1>9. Alike(LcpLow!Timeout(counted), counted)
  BY <1>8, LcpTimerAlike, AlikeShaped
<1>10. QED
  BY <1>1, <1>8, <1>9, AlikeTwice

\* The Terminate-Requests of LCP.
LEMMA LcpSTermReqAlike ==
  ASSUME NEW p, Shaped(p)
  PROVE  Alike(LcpLow!STermReq(p), p) /\ Alike(LcpLow!Terminate(p), p)
<1>1. ASSUME NEW r, Shaped(r) PROVE Alike(LcpLow!STermReq(r), r)
  <2> DEFINE q == LcpLow!NewReqId(r)
             sent == LcpLow!SData(q, "TermReq", q.lcp.reqid, <<>>)
             less == IF sent.lcp.retransmits = 0 THEN 0 ELSE sent.lcp.retransmits - 1
             counted == [sent EXCEPT !.lcp.retransmits = less]
  <2>1. LcpLow!STermReq(r) = LcpLow!Timeout(counted)
    BY DEF LcpLow!STermReq
  <2>2. Alike(q, r)
    BY <1>1, LcpNewReqIdAlike
  <2> HIDE DEF q
  <2>3. Alike(sent, q)
    BY <2>2, LcpSData, AlikeShaped
  <2> HIDE DEF sent, less
  <2>4. Alike(counted, sent)
    BY <2>3, LcpCountAlike, AlikeShaped
  <2> HIDE DEF counted
  <2>5. Alike(LcpLow!Timeout(counted), counted)
    BY <2>4, LcpTimerAlike, AlikeShaped
  <2>6. QED
    BY <2>1, <2>2, <2>3, <2>4, <2>5, AlikeTwice
<1>2. Alike([p EXCEPT !.lcp.retransmits = MaxTermReqs], p)
  BY LcpCountAlike
<1>3. Alike(LcpLow!STermReq([p EXCEPT !.lcp.retransmits = MaxTermReqs]), [p EXCEPT !.lcp.retransmits = MaxTermReqs])
  BY <1>1, <1>2, AlikeShaped
<1>4. Alike(LcpLow!Terminate(p), p)
  BY <1>2, <1>3, AlikeTwice DEF LcpLow!Terminate
<1>5. QED
  BY <1>1, <1>4

\* fsm_sdata of IPCP sends no proof of anything.
LEMMA IpcpSData ==
  ASSUME NEW p, Shaped(p), NEW code, code \notin {"Response", "AuthReq", "ProtRej"}, NEW id, NEW opts
  PROVE  Alike(IpcpLow!SData(p, code, id, opts), p)
<1> DEFINE e == [proto |-> "ipcp", code |-> code, id |-> id, opts |-> opts]
<1>1. IpcpLow!SData(p, code, id, opts) = [p EXCEPT !.out = Append(@, e)]
  BY DEF IpcpLow!SData
<1>2. Proper(e, p.cfg.secret)
  BY DEF Proper, Protocols
<1> HIDE DEF e
<1>3. Honest(p.out, p.cfg.secret) => Honest(Append(p.out, e), p.cfg.secret)
  BY <1>2, HonestAppend
<1>4. QED
  BY <1>1, <1>3 DEF Alike, Kept, Shaped

\* The timers and the identifiers of IPCP are of no concern.
LEMMA IpcpTimerAlike ==
  ASSUME NEW p, Shaped(p)
  PROVE  Alike(IpcpLow!Timeout(p), p) /\ Alike(IpcpLow!Untimeout(p), p) /\ Alike(IpcpLow!NextId(p), p)
  BY DEF IpcpLow!Timeout, IpcpLow!Untimeout, IpcpLow!NextId, Alike, Kept, Shaped

\* Nor are the counters of IPCP.
LEMMA IpcpCountAlike ==
  ASSUME NEW p, Shaped(p), NEW n
  PROVE  /\ Alike([p EXCEPT !.ipcp.nakloops = n], p) /\ Alike([p EXCEPT !.ipcp.retransmits = n], p)
         /\ Alike([p EXCEPT !.ipcp.seenAck = n], p) /\ Alike([p EXCEPT !.ipcp.reqid = n], p)
  BY DEF Alike, Kept, Shaped

\* Nor is a new identifier for a request.
LEMMA IpcpNewReqIdAlike ==
  ASSUME NEW p, Shaped(p)
  PROVE  Alike(IpcpLow!NewReqId(p), p)
<1> DEFINE q == IpcpLow!NextId(p)
<1>1. Alike(q, p) /\ Shaped(q)
  BY IpcpTimerAlike, AlikeShaped
<1> HIDE DEF q
<1>2. Alike([q EXCEPT !.ipcp.reqid = q.ipcp.id], q)
  BY <1>1, IpcpCountAlike
<1>3. IpcpLow!NewReqId(p) = [q EXCEPT !.ipcp.reqid = q.ipcp.id]
  BY DEF IpcpLow!NewReqId, q
<1>4. QED
  BY <1>1, <1>2, <1>3, AlikeTwice

\* ipcp_resetci.
LEMMA IpcpResetAlike ==
  ASSUME NEW p, Shaped(p)
  PROVE  Alike(IpcpResetCi(p), p)
  BY DEF IpcpResetCi, Alike, Kept, Shaped

\* What a request of IPCP asks for is prepared before each of them.
LEMMA IpcpPrepareAlike ==
  ASSUME NEW p, Shaped(p)
  PROVE  Alike(IpcpPrepareCi(p), p)
<1>1. ASSUME NEW q, Alike(q, p) PROVE Alike([q EXCEPT !.igo.vj = TRUE], p)
  BY <1>1 DEF Alike, Kept, Shaped
<1>2. Alike(p, p) /\ Alike([p EXCEPT !.igo.addr = TRUE, !.igo.old = TRUE], p)
  BY DEF Alike, Kept, Shaped
<1>3. QED
  BY <1>1, <1>2, Zenon DEF IpcpPrepareCi

\* fsm_sconfreq of IPCP.
LEMMA IpcpSConfReqAlike ==
  ASSUME NEW p, Shaped(p), NEW again
  PROVE  Alike(IpcpLow!SConfReq(p, again), p)
<1> DEFINE asked == IpcpLow!State(p) \in {"REQSENT", "ACKRCVD", "ACKSENT"}
           cleared == IpcpResetCi(p)
           reset == IF asked THEN p ELSE [cleared EXCEPT !.ipcp.nakloops = 0]
           refilled == [reset EXCEPT !.ipcp.retransmits = MaxConfReqs]
           fresh == IF again THEN reset ELSE IpcpLow!NewReqId(refilled)
           unseen == [fresh EXCEPT !.ipcp.seenAck = FALSE]
           ready == IpcpPrepareCi(unseen)
           sent == IpcpLow!SData(ready, "ConfReq", ready.ipcp.reqid, IpcpAddCi(ready))
           less == IF sent.ipcp.retransmits = 0 THEN 0 ELSE sent.ipcp.retransmits - 1
           counted == [sent EXCEPT !.ipcp.retransmits = less]
<1>1. IpcpLow!SConfReq(p, again) = IpcpLow!Timeout(counted)
  BY DEF IpcpLow!SConfReq, IpcpLow!State
<1>2. Alike(p, p)
  BY DEF Alike, Kept
<1>3. Alike(reset, p)
  <2>1. Alike(cleared, p) /\ Shaped(cleared)
    BY IpcpResetAlike, AlikeShaped
  <2> HIDE DEF cleared
  <2>2. Alike([cleared EXCEPT !.ipcp.nakloops = 0], cleared)
    BY <2>1, IpcpCountAlike
  <2>3. QED
    BY <1>2, <2>1, <2>2, AlikeTwice
<1> HIDE DEF reset
<1>4. Alike(fresh, p)
  <2>1. Alike(refilled, reset)
    BY <1>3, IpcpCountAlike, AlikeShaped
  <2> HIDE DEF refilled
  <2>2. Alike(IpcpLow!NewReqId(refilled), refilled)
    BY <2>1, IpcpNewReqIdAlike, AlikeShaped
  <2>3. QED
    BY <1>3, <2>1, <2>2, AlikeTwice
<1> HIDE DEF fresh
<1>5. Alike(unseen, p)
  <2>1. Alike(unseen, fresh)
    BY <1>4, IpcpCountAlike, AlikeShaped
  <2>2. QED
    BY <1>4, <2>1, AlikeTwice
<1> HIDE DEF unseen
<1>6. Alike(ready, p)
  <2>1. Alike(ready, unseen)
    BY <1>5, IpcpPrepareAlike, AlikeShaped
  <2>2. QED
    BY <1>5, <2>1, AlikeTwice
<1> HIDE DEF ready
<1>7. Alike(sent, p)
  <2>1. Alike(sent, ready)
    BY <1>6, IpcpSData, AlikeShaped
  <2>2. QED
    BY <1>6, <2>1, AlikeTwice
<1> HIDE DEF sent, less
<1>8. Alike(counted, p)
  <2>1. Alike(counted, sent)
    BY <1>7, IpcpCountAlike, AlikeShaped
  <2>2. QED
    BY <1>7, <2>1, AlikeTwice
<1> HIDE DEF counted
<1>9. Alike(IpcpLow!Timeout(counted), counted)
  BY <1>8, IpcpTimerAlike, AlikeShaped
<1>10. QED
  BY <1>1, <1>8, <1>9, AlikeTwice

\* The Terminate-Requests of IPCP.
LEMMA IpcpSTermReqAlike ==
  ASSUME NEW p, Shaped(p)
  PROVE  Alike(IpcpLow!STermReq(p), p) /\ Alike(IpcpLow!Terminate(p), p)
<1>1. ASSUME NEW r, Shaped(r) PROVE Alike(IpcpLow!STermReq(r), r)
  <2> DEFINE q == IpcpLow!NewReqId(r)
             sent == IpcpLow!SData(q, "TermReq", q.ipcp.reqid, <<>>)
             less == IF sent.ipcp.retransmits = 0 THEN 0 ELSE sent.ipcp.retransmits - 1
             counted == [sent EXCEPT !.ipcp.retransmits = less]
  <2>1. IpcpLow!STermReq(r) = IpcpLow!Timeout(counted)
    BY DEF IpcpLow!STermReq
  <2>2. Alike(q, r)
    BY <1>1, IpcpNewReqIdAlike
  <2> HIDE DEF q
  <2>3. Alike(sent, q)
    BY <2>2, IpcpSData, AlikeShaped
  <2> HIDE DEF sent, less
  <2>4. Alike(counted, sent)
    BY <2>3, IpcpCountAlike, AlikeShaped
  <2> HIDE DEF counted
  <2>5. Alike(IpcpLow!Timeout(counted), counted)
    BY <2>4, IpcpTimerAlike, AlikeShaped
  <2>6. QED
    BY <2>1, <2>2, <2>3, <2>4, <2>5, AlikeTwice
<1>2. Alike([p EXCEPT !.ipcp.retransmits = MaxTermReqs], p)
  BY IpcpCountAlike
<1>3. Alike(IpcpLow!STermReq([p EXCEPT !.ipcp.retransmits = MaxTermReqs]), [p EXCEPT !.ipcp.retransmits = MaxTermReqs])
  BY <1>1, <1>2, AlikeShaped
<1>4. Alike(IpcpLow!Terminate(p), p)
  BY <1>2, <1>3, AlikeTwice DEF IpcpLow!Terminate
<1>5. QED
  BY <1>1, <1>4

-----------------------------------------------------------------------------
\* Lcp and LcpLow, and Ipcp and IpcpLow, are the same automaton with other
\* callbacks: where no callback is called they are equal.
LEMMA SameOperators ==
  ASSUME NEW p, NEW a, NEW b, NEW d
  PROVE  /\ Lcp!State(p) = p.lcp.state /\ LcpLow!State(p) = p.lcp.state
         /\ Ipcp!State(p) = p.ipcp.state /\ IpcpLow!State(p) = p.ipcp.state
         /\ Lcp!Become(p, a) = LcpLow!Become(p, a) /\ Ipcp!Become(p, a) = IpcpLow!Become(p, a)
         /\ Lcp!Timeout(p) = LcpLow!Timeout(p) /\ Ipcp!Timeout(p) = IpcpLow!Timeout(p)
         /\ Lcp!Untimeout(p) = LcpLow!Untimeout(p) /\ Ipcp!Untimeout(p) = IpcpLow!Untimeout(p)
         /\ Lcp!NextId(p) = LcpLow!NextId(p) /\ Ipcp!NextId(p) = IpcpLow!NextId(p)
         /\ Lcp!SData(p, a, b, d) = LcpLow!SData(p, a, b, d) /\ Ipcp!SData(p, a, b, d) = IpcpLow!SData(p, a, b, d)
<1>1. Lcp!State(p) = p.lcp.state /\ LcpLow!State(p) = p.lcp.state
  BY DEF Lcp!State, LcpLow!State
<1>2. Ipcp!State(p) = p.ipcp.state /\ IpcpLow!State(p) = p.ipcp.state
  BY DEF Ipcp!State, IpcpLow!State
<1>3. Lcp!Become(p, a) = LcpLow!Become(p, a) /\ Ipcp!Become(p, a) = IpcpLow!Become(p, a)
  BY Zenon DEF Lcp!Become, LcpLow!Become, Ipcp!Become, IpcpLow!Become
<1>4. /\ Lcp!Timeout(p) = LcpLow!Timeout(p) /\ Ipcp!Timeout(p) = IpcpLow!Timeout(p)
      /\ Lcp!Untimeout(p) = LcpLow!Untimeout(p) /\ Ipcp!Untimeout(p) = IpcpLow!Untimeout(p)
  BY Zenon DEF Lcp!Timeout, LcpLow!Timeout, Ipcp!Timeout, IpcpLow!Timeout,
               Lcp!Untimeout, LcpLow!Untimeout, Ipcp!Untimeout, IpcpLow!Untimeout
<1>5. Lcp!NextId(p) = LcpLow!NextId(p) /\ Ipcp!NextId(p) = IpcpLow!NextId(p)
  BY Zenon DEF Lcp!NextId, LcpLow!NextId, Ipcp!NextId, IpcpLow!NextId, Lcp!U8, LcpLow!U8, Ipcp!U8, IpcpLow!U8
<1>6. Lcp!SData(p, a, b, d) = LcpLow!SData(p, a, b, d) /\ Ipcp!SData(p, a, b, d) = IpcpLow!SData(p, a, b, d)
  BY Zenon DEF Lcp!SData, LcpLow!SData, Ipcp!SData, IpcpLow!SData
<1>7. QED
  BY <1>1, <1>2, <1>3, <1>4, <1>5, <1>6

\* A new identifier calls nothing back.
LEMMA SameNewReqId ==
  ASSUME NEW p
  PROVE  Lcp!NewReqId(p) = LcpLow!NewReqId(p) /\ Ipcp!NewReqId(p) = IpcpLow!NewReqId(p)
<1>1. Lcp!NewReqId(p) = LcpLow!NewReqId(p)
  BY Zenon DEF Lcp!NewReqId, LcpLow!NewReqId, Lcp!NextId, LcpLow!NextId, Lcp!U8, LcpLow!U8
<1>2. Ipcp!NewReqId(p) = IpcpLow!NewReqId(p)
  BY Zenon DEF Ipcp!NewReqId, IpcpLow!NewReqId, Ipcp!NextId, IpcpLow!NextId, Ipcp!U8, IpcpLow!U8
<1>3. QED
  BY <1>1, <1>2

\* Nor does a Configure-Request of LCP.
LEMMA LcpSameSConfReq ==
  ASSUME NEW p, NEW again
  PROVE  Lcp!SConfReq(p, again) = LcpLow!SConfReq(p, again)
<1> DEFINE reset == IF p.lcp.state \in {"REQSENT", "ACKRCVD", "ACKSENT"} THEN p
                    ELSE [LcpResetCi(p) EXCEPT !.lcp.nakloops = 0]
           refilled == [reset EXCEPT !.lcp.retransmits = MaxConfReqs]
           fresh == IF again THEN reset ELSE Lcp!NewReqId(refilled)
           freshLow == IF again THEN reset ELSE LcpLow!NewReqId(refilled)
           Ready(f) == Same([f EXCEPT !.lcp.seenAck = FALSE])
           Sent(r) == Lcp!SData(r, "ConfReq", r.lcp.reqid, LcpAddCi(r))
           SentLow(r) == LcpLow!SData(r, "ConfReq", r.lcp.reqid, LcpAddCi(r))
           Counted(t) == [t EXCEPT !.lcp.retransmits = IF @ = 0 THEN 0 ELSE @ - 1]
           full == Counted(Sent(Ready(fresh)))
           fullLow == Counted(SentLow(Ready(freshLow)))
<1>1. Lcp!SConfReq(p, again) = Lcp!Timeout(full)
  BY DEF Lcp!SConfReq, Lcp!State
<1>2. LcpLow!SConfReq(p, again) = LcpLow!Timeout(fullLow)
  BY DEF LcpLow!SConfReq, LcpLow!State
<1>3. fresh = freshLow
  BY SameNewReqId
<1> HIDE DEF fresh, freshLow, Ready, Counted
<1>4. \A r : Sent(r) = SentLow(r)
  BY Zenon DEF Lcp!SData, LcpLow!SData
<1> HIDE DEF Sent, SentLow
<1>5. full = fullLow
  BY <1>3, <1>4, Zenon
<1> HIDE DEF full, fullLow
<1>6. Lcp!Timeout(full) = LcpLow!Timeout(full)
  BY Zenon DEF Lcp!Timeout, LcpLow!Timeout
<1>7. QED
  BY <1>1, <1>2, <1>5, <1>6

\* Nor do the Terminate-Requests of LCP.
LEMMA LcpSameSTermReq ==
  ASSUME NEW p
  PROVE  Lcp!STermReq(p) = LcpLow!STermReq(p) /\ Lcp!Terminate(p) = LcpLow!Terminate(p)
<1>1. \A q : Lcp!STermReq(q) = LcpLow!STermReq(q)
  BY ZenonT(30) DEF Lcp!STermReq, Lcp!NewReqId, Lcp!NextId, Lcp!SData, Lcp!Timeout, Lcp!U8,
               LcpLow!STermReq, LcpLow!NewReqId, LcpLow!NextId, LcpLow!SData, LcpLow!Timeout, LcpLow!U8
<1>2. Lcp!Terminate(p) = LcpLow!Terminate(p)
  BY <1>1, Zenon DEF Lcp!Terminate, LcpLow!Terminate
<1>3. QED
  BY <1>1, <1>2

\* Nor does a Configure-Request of IPCP.
LEMMA IpcpSameSConfReq ==
  ASSUME NEW p, NEW again
  PROVE  Ipcp!SConfReq(p, again) = IpcpLow!SConfReq(p, again)
<1> DEFINE reset == IF p.ipcp.state \in {"REQSENT", "ACKRCVD", "ACKSENT"} THEN p
                    ELSE [IpcpResetCi(p) EXCEPT !.ipcp.nakloops = 0]
           refilled == [reset EXCEPT !.ipcp.retransmits = MaxConfReqs]
           fresh == IF again THEN reset ELSE Ipcp!NewReqId(refilled)
           freshLow == IF again THEN reset ELSE IpcpLow!NewReqId(refilled)
           Ready(f) == IpcpPrepareCi([f EXCEPT !.ipcp.seenAck = FALSE])
           Sent(r) == Ipcp!SData(r, "ConfReq", r.ipcp.reqid, IpcpAddCi(r))
           SentLow(r) == IpcpLow!SData(r, "ConfReq", r.ipcp.reqid, IpcpAddCi(r))
           Counted(t) == [t EXCEPT !.ipcp.retransmits = IF @ = 0 THEN 0 ELSE @ - 1]
           full == Counted(Sent(Ready(fresh)))
           fullLow == Counted(SentLow(Ready(freshLow)))
<1>1. Ipcp!SConfReq(p, again) = Ipcp!Timeout(full)
  BY DEF Ipcp!SConfReq, Ipcp!State
<1>2. IpcpLow!SConfReq(p, again) = IpcpLow!Timeout(fullLow)
  BY DEF IpcpLow!SConfReq, IpcpLow!State
<1>3. fresh = freshLow
  BY SameNewReqId
<1> HIDE DEF fresh, freshLow, Ready, Counted
<1>4. \A r : Sent(r) = SentLow(r)
  BY Zenon DEF Ipcp!SData, IpcpLow!SData
<1> HIDE DEF Sent, SentLow
<1>5. full = fullLow
  BY <1>3, <1>4, Zenon
<1> HIDE DEF full, fullLow
<1>6. Ipcp!Timeout(full) = IpcpLow!Timeout(full)
  BY Zenon DEF Ipcp!Timeout, IpcpLow!Timeout
<1>7. QED
  BY <1>1, <1>2, <1>5, <1>6

\* Nor do the Terminate-Requests of IPCP.
LEMMA IpcpSameSTermReq ==
  ASSUME NEW p
  PROVE  Ipcp!STermReq(p) = IpcpLow!STermReq(p) /\ Ipcp!Terminate(p) = IpcpLow!Terminate(p)
<1>1. \A q : Ipcp!STermReq(q) = IpcpLow!STermReq(q)
  BY ZenonT(30) DEF Ipcp!STermReq, Ipcp!NewReqId, Ipcp!NextId, Ipcp!SData, Ipcp!Timeout, Ipcp!U8,
               IpcpLow!STermReq, IpcpLow!NewReqId, IpcpLow!NextId, IpcpLow!SData, IpcpLow!Timeout, IpcpLow!U8
<1>2. Ipcp!Terminate(p) = IpcpLow!Terminate(p)
  BY <1>1, Zenon DEF Ipcp!Terminate, IpcpLow!Terminate
<1>3. QED
  BY <1>1, <1>2

-----------------------------------------------------------------------------
\* A new state of LCP is all that changes with it.
LEMMA LcpBecomes ==
  ASSUME NEW p, Shaped(p), NEW s
  PROVE  LET q == LcpLow!Become(p, s) IN
         /\ Shaped(q) /\ q.cfg = p.cfg /\ q.phase = p.phase /\ q.pending = p.pending /\ q.open = p.open
         /\ q.ifUp = p.ifUp /\ q.lcp.state = s /\ q.ipcp.state = p.ipcp.state /\ q.out = p.out
         /\ q.go = p.go /\ q.chap = p.chap /\ q.pap = p.pap
  BY DEF LcpLow!Become, Shaped

\* A new state of IPCP is all that changes with it.
LEMMA IpcpBecomes ==
  ASSUME NEW p, Shaped(p), NEW s
  PROVE  LET q == IpcpLow!Become(p, s) IN
         /\ Shaped(q) /\ q.cfg = p.cfg /\ q.phase = p.phase /\ q.pending = p.pending /\ q.open = p.open
         /\ q.ifUp = p.ifUp /\ q.lcp.state = p.lcp.state /\ q.ipcp.state = s /\ q.out = p.out
         /\ q.go = p.go /\ q.chap = p.chap /\ q.pap = p.pap
  BY DEF IpcpLow!Become, Shaped

\* A peer that is idle may take any state of LCP.
LEMMA IdleLcpBecomes ==
  ASSUME NEW p, NEW c, NEW k, Idle(p, c, k), NEW s \in FsmStates
  PROVE  Idle(LcpLow!Become(p, s), c, k) /\ LcpLow!Become(p, s).lcp.state = s
<1> DEFINE q == LcpLow!Become(p, s)
<1>1. /\ Shaped(q) /\ q.cfg = p.cfg /\ q.phase = p.phase /\ q.pending = p.pending /\ q.open = p.open
      /\ q.ifUp = p.ifUp /\ q.lcp.state = s /\ q.ipcp.state = p.ipcp.state /\ q.out = p.out
      /\ q.go = p.go /\ q.chap = p.chap /\ q.pap = p.pap
  BY LcpBecomes DEF Idle, Sound, Loose
<1> HIDE DEF q
<1>2. Begun(q) <=> Begun(p)
  BY <1>1 DEF Begun
<1>3. QED
  BY <1>1, <1>2 DEF Idle, Sound, Loose, Asleep, q

\* A sound peer whose LCP is not open is idle.
LEMMA SoundIdle ==
  ASSUME NEW p, NEW c, NEW k, Sound(p, c, k), p.lcp.state # "OPENED"
  PROVE  Idle(p, c, k)
  BY DEF Idle, Sound, Loose

\* A peer whose authentication came to an end.
LEMMA PapLowerDownIs ==
  ASSUME NEW p, Shaped(p)
  PROVE  Kept(AuthLow!PapLowerDown(p), p) /\ (Begun(AuthLow!PapLowerDown(p)) => Begun(p))
<1> DEFINE q == AuthLow!PapLowerDown(p)
<1>1. Shaped(q) /\ q.pap.client = "initial"
  BY DEF AuthLow!PapLowerDown, Shaped, PapServer
<1>2. /\ q.cfg = p.cfg /\ q.phase = p.phase /\ q.pending = p.pending /\ q.open = p.open /\ q.ifUp = p.ifUp
      /\ q.lcp = p.lcp /\ q.ipcp = p.ipcp /\ q.out = p.out /\ q.go = p.go /\ q.chap = p.chap
  BY DEF AuthLow!PapLowerDown, Shaped
<1> HIDE DEF q
<1>3. QED
  BY <1>1, <1>2 DEF Kept, Begun, q

\* ChapLowerDown ends the authentication in both directions.
LEMMA ChapLowerDownIs ==
  ASSUME NEW p, Shaped(p)
  PROVE  Kept(AuthLow!ChapLowerDown(p), p) /\ (Begun(AuthLow!ChapLowerDown(p)) => Begun(p))
<1> DEFINE q == AuthLow!ChapLowerDown(p)
<1>1. Shaped(q) /\ q.chap.client = "initial" /\ q.chap.digest = p.chap.digest
  BY DEF AuthLow!ChapLowerDown, Shaped
<1>2. /\ q.cfg = p.cfg /\ q.phase = p.phase /\ q.pending = p.pending /\ q.open = p.open /\ q.ifUp = p.ifUp
      /\ q.lcp = p.lcp /\ q.ipcp = p.ipcp /\ q.out = p.out /\ q.go = p.go /\ q.pap = p.pap
  BY DEF AuthLow!ChapLowerDown, Shaped
<1> HIDE DEF q
<1>3. QED
  BY <1>1, <1>2 DEF Kept, Begun, q

\* ipcp_down: what an application that still has the session sees of it.
LEMMA IpcpDownIs ==
  ASSUME NEW p, Shaped(p), p.ifUp => p.open
  PROVE  LET q == IpcpDown(p) IN
         /\ Shaped(q) /\ q.cfg = p.cfg /\ q.phase = p.phase /\ q.pending = p.pending /\ q.open = p.open
         /\ ~q.ifUp /\ q.lcp = p.lcp /\ q.ipcp = p.ipcp /\ q.out = p.out
         /\ q.go = p.go /\ q.chap = p.chap /\ q.pap = p.pap
<1> DEFINE r == [p EXCEPT !.npUp = @ - 1, !.vj = 0, !.route = FALSE]
           q == [r EXCEPT !.ifUp = FALSE, !.told = "down", !.addrs = None]
<1>1. /\ Shaped(r) /\ r.cfg = p.cfg /\ r.phase = p.phase /\ r.pending = p.pending /\ r.open = p.open
      /\ r.ifUp = p.ifUp /\ r.lcp = p.lcp /\ r.ipcp = p.ipcp /\ r.out = p.out
      /\ r.go = p.go /\ r.chap = p.chap /\ r.pap = p.pap
  BY DEF Shaped
<1> HIDE DEF r
<1>2. /\ Shaped(q) /\ q.cfg = p.cfg /\ q.phase = p.phase /\ q.pending = p.pending /\ q.open = p.open
      /\ ~q.ifUp /\ q.lcp = p.lcp /\ q.ipcp = p.ipcp /\ q.out = p.out
      /\ q.go = p.go /\ q.chap = p.chap /\ q.pap = p.pap
  BY <1>1 DEF Shaped
<1> HIDE DEF q
<1>3. IpcpDown(p) = IF ~p.open THEN r ELSE q
  BY DEF IpcpDown, r, q
<1>4. CASE p.open
  <2>1. IpcpDown(p) = q
    BY <1>3, <1>4
  <2>2. QED
    BY <1>2, <2>1
<1>5. CASE ~p.open
  <2>1. IpcpDown(p) = r /\ ~p.ifUp
    BY <1>3, <1>5
  <2>2. QED
    BY <1>1, <2>1
<1>6. QED
  BY <1>4, <1>5

\* fsm_lowerdown and fsm_close of IPCP, as link_down calls them.
LEMMA IpcpEnds ==
  ASSUME NEW p, Shaped(p), p.ifUp => p.open /\ p.ipcp.state = "OPENED", p.ipcp.state \in FsmStates
  PROVE  LET q == IpcpLow!Close(IpcpLow!LowerDown(p)) IN
         /\ Shaped(q) /\ q.cfg = p.cfg /\ q.phase = p.phase /\ q.pending = p.pending /\ q.open = p.open
         /\ ~q.ifUp /\ q.lcp.state = p.lcp.state /\ q.ipcp.state = "INITIAL" /\ q.go = p.go
         /\ q.out = p.out /\ q.chap = p.chap /\ q.pap = p.pap
<1> DEFINE Like(q) == /\ Shaped(q) /\ q.cfg = p.cfg /\ q.phase = p.phase /\ q.pending = p.pending /\ q.open = p.open
                      /\ ~q.ifUp /\ q.lcp.state = p.lcp.state /\ q.go = p.go
                      /\ q.out = p.out /\ q.chap = p.chap /\ q.pap = p.pap
           down == IpcpLow!LowerDown(p)
<1>1. Like(down) /\ down.ipcp.state \in Asleep
  <2>0. ASSUME NEW s, ~p.ifUp PROVE Like(IpcpLow!Become(p, s)) /\ IpcpLow!Become(p, s).ipcp.state = s
    BY <2>0, IpcpBecomes
  <2>1. CASE p.ipcp.state \in {"CLOSED", "STOPPED"}
    <3>1. down = IpcpLow!Become(p, "INITIAL") \/ down = IpcpLow!Become(p, "STARTING")
      BY <2>1, Zenon DEF IpcpLow!LowerDown, IpcpLow!State
    <3>2. ~p.ifUp
      BY <2>1
    <3>3. QED
      BY <2>0, <3>1, <3>2 DEF Asleep
  <2>2. CASE p.ipcp.state \in {"CLOSING", "STOPPING", "REQSENT", "ACKRCVD", "ACKSENT"}
    <3>1. down = IpcpLow!Untimeout(IpcpLow!Become(p, "INITIAL")) \/ down = IpcpLow!Untimeout(IpcpLow!Become(p, "STARTING"))
      BY <2>2, Zenon DEF IpcpLow!LowerDown, IpcpLow!State
    <3>2. ~p.ifUp
      BY <2>2
    <3>3. ASSUME NEW q, Like(q) PROVE Like(IpcpLow!Untimeout(q)) /\ IpcpLow!Untimeout(q).ipcp.state = q.ipcp.state
      BY <3>3 DEF IpcpLow!Untimeout, Shaped
    <3>4. QED
      BY <2>0, <3>1, <3>2, <3>3 DEF Asleep
  <2>3. CASE p.ipcp.state = "OPENED"
    <3>1. down = IpcpLow!Become(IpcpDown(p), "STARTING")
      BY <2>3, Zenon DEF IpcpLow!LowerDown, IpcpLow!State
    <3>2. Like(IpcpDown(p))
      BY IpcpDownIs
    <3>3. QED
      BY <3>1, <3>2, IpcpBecomes DEF Asleep
  <2>4. CASE p.ipcp.state \in Asleep
    <3>1. down = p
      BY <2>4, Zenon DEF IpcpLow!LowerDown, IpcpLow!State, Asleep
    <3>2. ~p.ifUp
      BY <2>4 DEF Asleep
    <3>3. QED
      BY <2>4, <3>1, <3>2
  <2>5. QED
    BY <2>1, <2>2, <2>3, <2>4 DEF FsmStates, Asleep
<1> HIDE DEF down
<1>2. CASE down.ipcp.state = "STARTING"
  <2>1. IpcpLow!Close(down) = IpcpLow!Become(down, "INITIAL")
    BY <1>2, Zenon DEF IpcpLow!Close, IpcpLow!State
  <2>2. QED
    BY <1>1, <2>1, IpcpBecomes DEF down
<1>3. CASE down.ipcp.state = "INITIAL"
  <2>1. IpcpLow!Close(down) = down
    BY <1>3, Zenon DEF IpcpLow!Close, IpcpLow!State
  <2>2. QED
    BY <1>1, <1>3, <2>1 DEF down
<1>4. QED
  BY <1>1, <1>2, <1>3 DEF Asleep

\* link_down: whatever was up is down, in every phase.
LEMMA LinkDownIdle ==
  ASSUME NEW p, NEW c, NEW k, Loose(p, c, k)
  PROVE  Idle(LinkDown(p), c, k) /\ LinkDown(p).lcp.state = p.lcp.state
<1> DEFINE pap == AuthLow!PapLowerDown(p)
           chap == AuthLow!ChapLowerDown(pap)
           q == IpcpLow!Close(IpcpLow!LowerDown(chap))
           r == [q EXCEPT !.npOpen = 0, !.npUp = 0, !.phase = IF @ = "DEAD" THEN @ ELSE "TERMINATE"]
<1>1. Loose(pap, c, k) /\ pap.lcp.state = p.lcp.state
  BY PapLowerDownIs, KeptSound DEF Loose, Kept
<1> HIDE DEF pap
<1>2. Loose(chap, c, k) /\ chap.lcp.state = p.lcp.state
  BY <1>1, ChapLowerDownIs, KeptSound DEF Loose, Kept
<1> HIDE DEF chap
<1>3. /\ Shaped(q) /\ q.cfg = chap.cfg /\ q.phase = chap.phase /\ q.pending = chap.pending /\ q.open = chap.open
      /\ ~q.ifUp /\ q.lcp.state = p.lcp.state /\ q.ipcp.state = "INITIAL" /\ q.go = chap.go
      /\ q.out = chap.out /\ q.chap = chap.chap /\ q.pap = chap.pap
  BY <1>2, IpcpEnds DEF Loose
<1> HIDE DEF q
<1>4. /\ Shaped(r) /\ r.cfg = q.cfg /\ r.pending = q.pending /\ r.open = q.open
      /\ ~r.ifUp /\ r.lcp.state = q.lcp.state /\ r.ipcp.state = "INITIAL" /\ r.go = q.go
      /\ r.out = q.out /\ r.chap = q.chap /\ r.pap = q.pap /\ r.phase \in {"DEAD", "TERMINATE"}
  BY <1>3 DEF Shaped
<1>5. LinkDown(p) = r
  BY DEF LinkDown, r, q, chap, pap
<1> HIDE DEF r
<1>6. Begun(r) => Begun(chap)
  BY <1>3, <1>4 DEF Begun
<1>7. Idle(r, c, k)
  BY <1>2, <1>3, <1>4, <1>6 DEF Idle, Sound, Loose, Asleep, FsmStates, Phases
<1>8. QED
  BY <1>3, <1>4, <1>5, <1>7

\* lcp_down: the echoes stop, and what was up is down.
LEMMA LcpDownIdle ==
  ASSUME NEW p, NEW c, NEW k, Loose(p, c, k)
  PROVE  Idle(LcpDown(p), c, k) /\ LcpDown(p).lcp.state = p.lcp.state
<1> DEFINE q == [p EXCEPT !.echo.timer = @ /\ ~p.echo.running, !.echo.running = FALSE]
<1>1. Alike(q, p)
  BY DEF Alike, Kept, Shaped, Loose
<1>2. LcpDown(p) = LinkDown(q)
  BY DEF LcpDown
<1> HIDE DEF q
<1>3. Loose(q, c, k) /\ q.lcp.state = p.lcp.state
  <2>1. q.lcp.state = p.lcp.state
    BY <1>1 DEF Alike, Kept
  <2>2. QED
    BY <1>1, <2>1, AlikeSound
<1>4. QED
  BY <1>2, <1>3, LinkDownIdle

\* What the three conditions have in common.
LEMMA IdleShaped ==
  ASSUME NEW p, NEW c, NEW k
  PROVE  /\ Loose(p, c, k) => Shaped(p)
         /\ Sound(p, c, k) => Loose(p, c, k) /\ Shaped(p)
         /\ Idle(p, c, k) => Sound(p, c, k) /\ Loose(p, c, k) /\ Shaped(p) /\ ~p.ifUp
  BY DEF Idle, Sound, Loose, Asleep

\* An operator that changes nothing the invariant is about.
LEMMA LcpAlikeIdle ==
  ASSUME NEW p, NEW c, NEW k, Idle(p, c, k), NEW again
  PROVE  /\ Idle(LcpLow!Untimeout(p), c, k) /\ Idle(LcpLow!Timeout(p), c, k) /\ Idle(LcpLow!Terminate(p), c, k)
         /\ Idle(LcpLow!SConfReq(p, again), c, k) /\ Idle(LcpLow!STermReq(p), c, k)
<1>1. Shaped(p)
  BY IdleShaped
<1>2. /\ Alike(LcpLow!Untimeout(p), p) /\ Alike(LcpLow!Timeout(p), p) /\ Alike(LcpLow!Terminate(p), p)
      /\ Alike(LcpLow!SConfReq(p, again), p) /\ Alike(LcpLow!STermReq(p), p)
  BY <1>1, LcpTimerAlike, LcpSTermReqAlike, LcpSConfReqAlike
<1>3. QED
  BY <1>2, AlikeSound

\* fsm_close of LCP. The phase was set to TERMINATE, or the link is dead.
LEMMA LcpLowClose ==
  ASSUME NEW p, NEW c, NEW k, Loose(p, c, k), p.lcp.state # "OPENED" => Idle(p, c, k)
  PROVE  Idle(LcpLow!Close(p), c, k) /\ LcpLow!Close(p).lcp.state # "OPENED"
<1> DEFINE s == p.lcp.state
<1>1. CASE s \in {"STARTING", "STOPPED", "STOPPING"}
  <2>1. \E t \in FsmStates \ {"OPENED"} : LcpLow!Close(p) = LcpLow!Become(p, t)
    BY <1>1, Zenon DEF LcpLow!Close, LcpLow!State, FsmStates
  <2>2. Idle(p, c, k)
    BY <1>1
  <2>3. QED
    BY <2>1, <2>2, IdleLcpBecomes
<1>2. CASE s \in {"REQSENT", "ACKRCVD", "ACKSENT"}
  <2>1. LcpLow!Close(p) = LcpLow!Become(LcpLow!Terminate(LcpLow!Untimeout(p)), "CLOSING")
    BY <1>2, Zenon DEF LcpLow!Close, LcpLow!State
  <2>2. Idle(p, c, k)
    BY <1>2
  <2>3. Idle(LcpLow!Terminate(LcpLow!Untimeout(p)), c, k)
    BY <2>2, LcpAlikeIdle
  <2>4. QED
    BY <2>1, <2>3, IdleLcpBecomes DEF FsmStates
<1>3. CASE s = "OPENED"
  <2>1. LcpLow!Close(p) = LcpLow!Become(LcpLow!Terminate(LcpDown(p)), "CLOSING")
    BY <1>3, Zenon DEF LcpLow!Close, LcpLow!State
  <2>2. Idle(LcpLow!Terminate(LcpDown(p)), c, k)
    BY LcpDownIdle, LcpAlikeIdle
  <2>3. QED
    BY <2>1, <2>2, IdleLcpBecomes DEF FsmStates
<1>4. CASE s \in {"INITIAL", "CLOSED", "CLOSING"}
  <2>1. LcpLow!Close(p) = p
    BY <1>4, Zenon DEF LcpLow!Close, LcpLow!State
  <2>2. QED
    BY <1>4, <2>1
<1>5. s \in FsmStates
  BY DEF Loose
<1>6. QED
  BY <1>1, <1>2, <1>3, <1>4, <1>5 DEF FsmStates

\* lcp_close.
LEMMA LcpCloseIdle ==
  ASSUME NEW p, NEW c, NEW k, Loose(p, c, k)
  PROVE  Idle(LcpClose(p), c, k) /\ LcpClose(p).lcp.state # "OPENED"
<1> DEFINE q == [p EXCEPT !.phase = IF @ = "DEAD" THEN @ ELSE "TERMINATE"]
<1>1. /\ Shaped(q) /\ q.cfg = p.cfg /\ q.pending = p.pending /\ q.open = p.open
      /\ q.ifUp = p.ifUp /\ q.lcp = p.lcp /\ q.ipcp = p.ipcp /\ q.go = p.go
      /\ q.out = p.out /\ q.chap = p.chap /\ q.pap = p.pap /\ q.phase \in {"DEAD", "TERMINATE"}
  BY DEF Shaped, Loose
<1>2. LcpClose(p) = LcpLow!Close(q)
  BY DEF LcpClose
<1> HIDE DEF q
<1>3. Begun(q) => Begun(p)
  BY <1>1 DEF Begun
<1>4. Loose(q, c, k)
  BY <1>1, <1>3 DEF Loose, Phases
<1>5. q.lcp.state # "OPENED" => Idle(q, c, k)
  BY <1>1, <1>4 DEF Loose, Idle, Sound
<1>6. QED
  BY <1>2, <1>4, <1>5, LcpLowClose

\* link_terminated.
LEMMA LinkTerminatedIdle ==
  ASSUME NEW p, NEW c, NEW k, Idle(p, c, k)
  PROVE  Idle(LinkTerminated(p), c, k)
<1> DEFINE q == [p EXCEPT !.phase = "DEAD", !.open = FALSE,
                          !.told = IF p.errCode = "none" THEN "protocol" ELSE p.errCode]
<1>1. /\ Shaped(q) /\ q.cfg = p.cfg /\ q.pending = p.pending
      /\ q.ifUp = p.ifUp /\ q.lcp = p.lcp /\ q.ipcp = p.ipcp /\ q.go = p.go
      /\ q.out = p.out /\ q.chap = p.chap /\ q.pap = p.pap /\ q.phase = "DEAD"
  BY IdleShaped DEF Shaped
<1>2. LinkTerminated(p) = p \/ LinkTerminated(p) = q
  BY DEF LinkTerminated
<1> HIDE DEF q
<1>3. Begun(q) => Begun(p)
  BY <1>1 DEF Begun
<1>4. Idle(q, c, k)
  BY <1>1, <1>3, IdleShaped DEF Idle, Sound, Loose, Phases
<1>5. QED
  BY <1>2, <1>4

\* network_phase, for a peer that has been authenticated where that was demanded.
LEMMA NetworkPhaseSound ==
  ASSUME NEW p, NEW c, NEW k, Loose(p, c, k), p.pending = {}, Proven(c, k)
  PROVE  Sound(NetworkPhase(p), c, k)
<1> DEFINE q == [p EXCEPT !.phase = "NETWORK"]
           o == IpcpLow!Open(q)
           r == [o EXCEPT !.npOpen = @ + 1]
<1>1. /\ Shaped(q) /\ q.cfg = p.cfg /\ q.pending = p.pending /\ q.open = p.open
      /\ q.ifUp = p.ifUp /\ q.lcp = p.lcp /\ q.ipcp = p.ipcp /\ q.go = p.go
      /\ q.out = p.out /\ q.chap = p.chap /\ q.pap = p.pap /\ q.phase = "NETWORK"
  BY DEF Shaped, Loose
<1>2. NetworkPhase(p) = r
  BY DEF NetworkPhase
<1> HIDE DEF q
<1>3. Sound(q, c, k)
  BY <1>1 DEF Loose, Sound, Phases
<1>4. Sound(o, c, k)
  <2> DEFINE s == q.ipcp.state
  <2>1. ASSUME NEW a, Sound(a, c, k), a.phase = "NETWORK", NEW t \in FsmStates \ {"OPENED"}, ~a.ifUp,
               a.lcp.state # "OPENED" => t \in Asleep
        PROVE  Sound(IpcpLow!Become(a, t), c, k)
    <3> DEFINE b == IpcpLow!Become(a, t)
    <3>1. /\ Shaped(b) /\ b.cfg = a.cfg /\ b.phase = a.phase /\ b.pending = a.pending /\ b.open = a.open
          /\ b.ifUp = a.ifUp /\ b.lcp.state = a.lcp.state /\ b.ipcp.state = t /\ b.out = a.out
          /\ b.go = a.go /\ b.chap = a.chap /\ b.pap = a.pap
      BY <2>1, IpcpBecomes, IdleShaped
    <3> HIDE DEF b
    <3>2. Begun(b) <=> Begun(a)
      BY <3>1 DEF Begun
    <3>3. QED
      BY <2>1, <3>1, <3>2 DEF Sound, Loose, b
  <2>2. CASE s = "INITIAL"
    <3>1. o = IpcpLow!Become(q, "STARTING") /\ ~q.ifUp
      BY <1>3, <2>2, Zenon DEF IpcpLow!Open, IpcpLow!State, Sound, Loose
    <3>2. QED
      BY <1>1, <1>3, <2>1, <3>1 DEF FsmStates, Asleep
  <2>3. CASE s = "CLOSED"
    <3>1. o = IpcpLow!Become(IpcpLow!SConfReq(q, FALSE), "REQSENT")
      BY <2>3, Zenon DEF IpcpLow!Open, IpcpLow!State
    <3>2. Alike(IpcpLow!SConfReq(q, FALSE), q)
      BY <1>1, IpcpSConfReqAlike
    <3>3. q.lcp.state = "OPENED" /\ ~q.ifUp
      BY <1>3, <2>3 DEF Sound, Loose, Asleep
    <3> DEFINE a == IpcpLow!SConfReq(q, FALSE)
    <3>4. Sound(a, c, k) /\ a.phase = "NETWORK" /\ ~a.ifUp /\ a.lcp.state = "OPENED"
      <4>1. Sound(a, c, k)
        BY <1>3, <3>2, AlikeSound
      <4>2. QED
        BY <1>1, <3>2, <3>3, <4>1 DEF Alike, Kept
    <3> HIDE DEF a
    <3>5. QED
      BY <2>1, <3>1, <3>4 DEF FsmStates, a
  <2>4. CASE s = "CLOSING"
    <3>1. o = IpcpLow!Become(q, "STOPPING")
      BY <2>4, Zenon DEF IpcpLow!Open, IpcpLow!State
    <3>2. q.lcp.state = "OPENED" /\ ~q.ifUp
      BY <1>3, <2>4 DEF Sound, Loose, Asleep
    <3>3. QED
      BY <1>1, <1>3, <2>1, <3>1, <3>2 DEF FsmStates
  <2>5. CASE s \notin {"INITIAL", "CLOSED", "CLOSING"}
    <3>1. o = q
      BY <2>5, Zenon DEF IpcpLow!Open, IpcpLow!State
    <3>2. QED
      BY <1>3, <3>1
  <2>6. QED
    BY <2>2, <2>3, <2>4, <2>5
<1> HIDE DEF o
<1>5. Alike(r, o)
  BY <1>4, IdleShaped DEF Alike, Kept, Shaped
<1>6. QED
  BY <1>2, <1>4, <1>5, AlikeSound

\* auth_peer_success and auth_withpeer_success. Who demanded a proof has it.
LEMMA AuthSuccessSound ==
  ASSUME NEW p, NEW c, NEW k, Sound(p, c, k), NEW bit,
         (p.pending \ {bit}) \cap PeerBits = {} => Proven(c, k)
  PROVE  Sound(AuthSuccess(p, bit), c, k)
<1> DEFINE q == [p EXCEPT !.pending = @ \ {bit}]
<1>1. /\ Shaped(q) /\ q.cfg = p.cfg /\ q.pending = p.pending \ {bit} /\ q.open = p.open
      /\ q.ifUp = p.ifUp /\ q.lcp = p.lcp /\ q.ipcp = p.ipcp /\ q.go = p.go
      /\ q.out = p.out /\ q.chap = p.chap /\ q.pap = p.pap /\ q.phase = p.phase
  BY IdleShaped DEF Shaped
<1>2. AuthSuccess(p, bit) = IF q.pending = {} THEN NetworkPhase(q) ELSE q
  BY DEF AuthSuccess
<1> HIDE DEF q
<1>3. Sound(q, c, k)
  BY <1>1 DEF Sound, Loose
<1>4. CASE q.pending = {}
  <2>1. Proven(c, k)
    BY <1>1, <1>4
  <2>2. QED
    BY <1>2, <1>3, <1>4, <2>1, NetworkPhaseSound, IdleShaped
<1>5. QED
  BY <1>2, <1>3, <1>4

-----------------------------------------------------------------------------
\* What CHAP and PAP send, where nothing above them is called back.
LEMMA AuthLowPutAlike ==
  ASSUME NEW p, Shaped(p), NEW proto, NEW code, NEW id, NEW opts,
         Proper([proto |-> proto, code |-> code, id |-> id, opts |-> opts], p.cfg.secret)
  PROVE  Alike(AuthLow!Put(p, proto, code, id, opts), p)
<1> DEFINE e == [proto |-> proto, code |-> code, id |-> id, opts |-> opts]
<1>1. AuthLow!Put(p, proto, code, id, opts) = [p EXCEPT !.out = Append(@, e)]
  BY DEF AuthLow!Put
<1>2. Proper(e, p.cfg.secret)
  OBVIOUS
<1> HIDE DEF e
<1>3. Honest(p.out, p.cfg.secret) => Honest(Append(p.out, e), p.cfg.secret)
  BY <1>2, HonestAppend
<1>4. QED
  BY <1>1, <1>3 DEF Alike, Kept, Shaped

\* ChapSendChallenge of such a CHAP.
LEMMA AuthLowChallengeAlike ==
  ASSUME NEW p, Shaped(p), NEW state
  PROVE  Alike(AuthLow!ChapSendChallenge(p), p) /\ Alike(AuthLow!ChapChallenge(p, state), p)
<1>1. ASSUME NEW r, Shaped(r) PROVE Alike(AuthLow!ChapSendChallenge(r), r)
  <2> DEFINE q == AuthLow!Put(r, "chap", "Challenge", r.chap.id, <<>>)
  <2>1. Alike(q, r)
    BY <1>1, AuthLowPutAlike DEF Proper, Protocols
  <2>2. AuthLow!ChapSendChallenge(r) = [q EXCEPT !.chap.serverTimer = TRUE, !.chap.transmits = @ + 1]
    BY DEF AuthLow!ChapSendChallenge
  <2> HIDE DEF q
  <2>3. Alike([q EXCEPT !.chap.serverTimer = TRUE, !.chap.transmits = @ + 1], q)
    BY <2>1, AlikeShaped DEF Alike, Kept, Shaped
  <2>4. QED
    BY <2>1, <2>2, <2>3, AlikeTwice
<1> DEFINE id == (p.chap.id + 1) % 256
           r == [p EXCEPT !.chap.id = id, !.chap.transmits = 0, !.chap.server = state]
<1> HIDE DEF id
<1>2. Alike(r, p)
  BY DEF Alike, Kept, Shaped
<1> USE DEF id
<1>3. AuthLow!ChapChallenge(p, state) = AuthLow!ChapSendChallenge(r)
  BY DEF AuthLow!ChapChallenge
<1> HIDE DEF r
<1>4. QED
  BY <1>1, <1>2, <1>3, AlikeShaped, AlikeTwice

\* ChapSendResponse: the proof that is sent is as good as the secret.
LEMMA AuthLowResponseKept ==
  ASSUME NEW p, Shaped(p)
  PROVE  LET q == AuthLow!ChapSendResponse(p) IN
         Kept(q, p) /\ (p.chap.digest \/ p.chap.client = "response" => Begun(p))
<1> DEFINE r == AuthLow!Put(p, "chap", "Response", p.chap.respId, p.cfg.secret)
           q == [r EXCEPT !.chap.client = "response", !.chap.clientTimer = TRUE]
<1>1. Alike(r, p)
  BY AuthLowPutAlike DEF Proper, Protocols
<1>2. AuthLow!ChapSendResponse(p) = q
  BY DEF AuthLow!ChapSendResponse
<1> HIDE DEF r
<1>3. Kept(q, r)
  BY <1>1, AlikeShaped DEF Kept, Shaped
<1> HIDE DEF q
<1>4. Kept(q, p)
  BY <1>1, <1>3 DEF Alike, Kept
<1>5. p.chap.digest \/ p.chap.client = "response" => Begun(p)
  BY DEF Begun
<1>6. QED
  BY <1>2, <1>4, <1>5

\* PapSendAuthReq: so is the request that is sent.
LEMMA AuthLowAuthReqKept ==
  ASSUME NEW p, Shaped(p)
  PROVE  Kept(AuthLow!PapSendAuthReq(p), p)
<1> DEFINE id == (p.pap.id + 1) % 256
           r == AuthLow!Put(p, "pap", "AuthReq", id, p.cfg.secret)
           n == r.pap.transmits + 1
           q == [r EXCEPT !.pap.id = id, !.pap.clientTimer = TRUE, !.pap.transmits = n, !.pap.client = "authReq"]
<1>1. Alike(r, p)
  BY AuthLowPutAlike DEF Proper, Protocols
<1>2. AuthLow!PapSendAuthReq(p) = q
  BY DEF AuthLow!PapSendAuthReq
<1> HIDE DEF r, id, n
<1>3. Shaped(r)
  BY <1>1, AlikeShaped
<1>4. Shaped(q)
  BY <1>3 DEF Shaped
<1>5. Kept(q, r)
  BY <1>4 DEF Kept
<1> HIDE DEF q
<1>6. QED
  BY <1>1, <1>2, <1>5 DEF Alike, Kept

\* The same of CHAP and PAP as the link calls them.
LEMMA AuthPutAlike ==
  ASSUME NEW p, Shaped(p), NEW proto, NEW code, NEW id, NEW opts,
         Proper([proto |-> proto, code |-> code, id |-> id, opts |-> opts], p.cfg.secret)
  PROVE  Alike(Auth!Put(p, proto, code, id, opts), p)
<1> DEFINE e == [proto |-> proto, code |-> code, id |-> id, opts |-> opts]
<1>1. Auth!Put(p, proto, code, id, opts) = [p EXCEPT !.out = Append(@, e)]
  BY DEF Auth!Put
<1>2. Proper(e, p.cfg.secret)
  OBVIOUS
<1> HIDE DEF e
<1>3. Honest(p.out, p.cfg.secret) => Honest(Append(p.out, e), p.cfg.secret)
  BY <1>2, HonestAppend
<1>4. QED
  BY <1>1, <1>3 DEF Alike, Kept, Shaped

\* ChapSendChallenge.
LEMMA AuthChallengeAlike ==
  ASSUME NEW p, Shaped(p), NEW state
  PROVE  Alike(Auth!ChapSendChallenge(p), p) /\ Alike(Auth!ChapChallenge(p, state), p)
<1>1. ASSUME NEW r, Shaped(r) PROVE Alike(Auth!ChapSendChallenge(r), r)
  <2> DEFINE q == Auth!Put(r, "chap", "Challenge", r.chap.id, <<>>)
  <2>1. Alike(q, r)
    BY <1>1, AuthPutAlike DEF Proper, Protocols
  <2>2. Auth!ChapSendChallenge(r) = [q EXCEPT !.chap.serverTimer = TRUE, !.chap.transmits = @ + 1]
    BY DEF Auth!ChapSendChallenge
  <2> HIDE DEF q
  <2>3. Alike([q EXCEPT !.chap.serverTimer = TRUE, !.chap.transmits = @ + 1], q)
    BY <2>1, AlikeShaped DEF Alike, Kept, Shaped
  <2>4. QED
    BY <2>1, <2>2, <2>3, AlikeTwice
<1> DEFINE id == (p.chap.id + 1) % 256
           r == [p EXCEPT !.chap.id = id, !.chap.transmits = 0, !.chap.server = state]
<1> HIDE DEF id
<1>2. Alike(r, p)
  BY DEF Alike, Kept, Shaped
<1> USE DEF id
<1>3. Auth!ChapChallenge(p, state) = Auth!ChapSendChallenge(r)
  BY DEF Auth!ChapChallenge
<1> HIDE DEF r
<1>4. QED
  BY <1>1, <1>2, <1>3, AlikeShaped, AlikeTwice

\* ChapSendResponse.
LEMMA AuthResponseKept ==
  ASSUME NEW p, Shaped(p)
  PROVE  LET q == Auth!ChapSendResponse(p) IN
         Kept(q, p) /\ (p.chap.digest \/ p.chap.client = "response" => Begun(p))
<1> DEFINE r == Auth!Put(p, "chap", "Response", p.chap.respId, p.cfg.secret)
           q == [r EXCEPT !.chap.client = "response", !.chap.clientTimer = TRUE]
<1>1. Alike(r, p)
  BY AuthPutAlike DEF Proper, Protocols
<1>2. Auth!ChapSendResponse(p) = q
  BY DEF Auth!ChapSendResponse
<1> HIDE DEF r
<1>3. Kept(q, r)
  BY <1>1, AlikeShaped DEF Kept, Shaped
<1> HIDE DEF q
<1>4. Kept(q, p)
  BY <1>1, <1>3 DEF Alike, Kept
<1>5. p.chap.digest \/ p.chap.client = "response" => Begun(p)
  BY DEF Begun
<1>6. QED
  BY <1>2, <1>4, <1>5

\* PapSendAuthReq.
LEMMA AuthAuthReqKept ==
  ASSUME NEW p, Shaped(p)
  PROVE  Kept(Auth!PapSendAuthReq(p), p)
<1> DEFINE id == (p.pap.id + 1) % 256
           r == Auth!Put(p, "pap", "AuthReq", id, p.cfg.secret)
           n == r.pap.transmits + 1
           q == [r EXCEPT !.pap.id = id, !.pap.clientTimer = TRUE, !.pap.transmits = n, !.pap.client = "authReq"]
<1>1. Alike(r, p)
  BY AuthPutAlike DEF Proper, Protocols
<1>2. Auth!PapSendAuthReq(p) = q
  BY DEF Auth!PapSendAuthReq
<1> HIDE DEF r, id, n
<1>3. Shaped(r)
  BY <1>1, AlikeShaped
<1>4. Shaped(q)
  BY <1>3 DEF Shaped
<1>5. Kept(q, r)
  BY <1>4 DEF Kept
<1> HIDE DEF q
<1>6. QED
  BY <1>1, <1>2, <1>5 DEF Alike, Kept

\* What may be done once the peer has proved itself, or has been asked to.
LEMMA KeptAsked ==
  ASSUME NEW p, NEW q, Kept(q, p), NEW c, NEW k, Begun(p) \/ (p.pending \cap PeerBits = {} => Proven(c, k))
  PROVE  /\ Loose(p, c, k) => Loose(q, c, k)
         /\ Sound(p, c, k) => Sound(q, c, k)
         /\ Idle(p, c, k) => Idle(q, c, k)
<1>1. Loose(p, c, k) => Loose(q, c, k)
  BY DEF Kept, Loose
<1>2. Sound(p, c, k) => Sound(q, c, k)
  BY <1>1 DEF Kept, Sound
<1>3. QED
  BY <1>1, <1>2 DEF Kept, Idle

\* A peer kept from one that was kept is kept.
LEMMA KeptTwice ==
  ASSUME NEW p, NEW q, NEW r, Kept(r, q), Kept(q, p)
  PROVE  Kept(r, p)
  BY DEF Kept

\* A change that leaves a peer alike keeps it, and begins or ends nothing.
LEMMA AlikeKept ==
  ASSUME NEW p, NEW q, Alike(q, p)
  PROVE  Kept(q, p) /\ (Begun(q) <=> Begun(p))
  BY DEF Alike, Kept, Begun

\* A peer that was kept is shaped.
LEMMA KeptShaped ==
  ASSUME NEW p, NEW q, Kept(q, p)
  PROVE  Shaped(q)
  BY DEF Kept

\* ChapLowerUp and PapLowerUp: who was to be asked is asked, who was to prove himself does.
LEMMA ChapLowerUpIs ==
  ASSUME NEW p, Shaped(p)
  PROVE  Kept(AuthLow!ChapLowerUp(p), p) /\ (Begun(AuthLow!ChapLowerUp(p)) => Begun(p))
<1> DEFINE q == [p EXCEPT !.chap.client = CASE @ = "initial" -> "closed" [] @ = "pending" -> "listen" [] OTHER -> @]
           r == [q EXCEPT !.chap.server = "closed"]
<1>1. Kept(q, p) /\ (Begun(q) => Begun(p))
  <2> DEFINE s == CASE p.chap.client = "initial" -> "closed" [] p.chap.client = "pending" -> "listen"
                    [] OTHER -> p.chap.client
  <2>1. s = "response" => p.chap.client = "response"
    BY Zenon
  <2>2. q = [p EXCEPT !.chap.client = s]
    OBVIOUS
  <2> HIDE DEF s, q
  <2>3. Kept(q, p) /\ q.chap.client = s /\ q.chap.digest = p.chap.digest /\ q.pap = p.pap /\ q.phase = p.phase
    BY <2>2 DEF Kept, Shaped
  <2>4. QED
    BY <2>1, <2>3 DEF Begun
<1>2. /\ q.chap.server = "initial" => AuthLow!ChapLowerUp(p) = r
      /\ q.chap.server = "pending" => AuthLow!ChapLowerUp(p) = AuthLow!ChapChallenge(q, "initialChal")
      /\ q.chap.server \notin {"initial", "pending"} => AuthLow!ChapLowerUp(p) = q
  BY Zenon DEF AuthLow!ChapLowerUp
<1> HIDE DEF q
<1>3. Alike(r, q) /\ Alike(AuthLow!ChapChallenge(q, "initialChal"), q)
  <2>1. Shaped(q)
    BY <1>1, KeptShaped
  <2>2. Alike(r, q)
    BY <2>1 DEF Alike, Kept, Shaped
  <2>3. QED
    BY <2>1, <2>2, AuthLowChallengeAlike
<1> HIDE DEF r
<1>4. QED
  BY <1>1, <1>2, <1>3, AlikeKept, KeptTwice

\* PapLowerUp, which also starts what was waiting for the link.
LEMMA PapLowerUpIs ==
  ASSUME NEW p, Shaped(p)
  PROVE  Kept(AuthLow!PapLowerUp(p), p) /\ (Begun(AuthLow!PapLowerUp(p)) => Begun(p))
<1> DEFINE a == [p EXCEPT !.pap.client = "closed"]
           b == AuthLow!PapSendAuthReq(p)
           q == CASE p.pap.client = "initial" -> a [] p.pap.client = "pending" -> b [] OTHER -> p
           r == [q EXCEPT !.pap.server = "closed"]
<1>1. Kept(q, p) /\ (Begun(q) => Begun(p))
  <2>1. CASE p.pap.client = "initial"
    <3>1. q = a
      BY <2>1, Zenon
    <3>2. Kept(a, p) /\ (Begun(a) => Begun(p))
      BY DEF Kept, Shaped, Begun
    <3>3. QED
      BY <3>1, <3>2
  <2>2. CASE p.pap.client = "pending"
    <3>1. q = b
      BY <2>2, Zenon
    <3>2. Begun(p)
      BY <2>2 DEF Begun
    <3>3. QED
      BY <3>1, <3>2, AuthLowAuthReqKept
  <2>3. CASE p.pap.client \notin {"initial", "pending"}
    <3>1. q = p
      BY <2>3, Zenon
    <3>2. QED
      BY <3>1 DEF Kept
  <2>4. QED
    BY <2>1, <2>2, <2>3
<1>2. /\ q.pap.server = "initial" => AuthLow!PapLowerUp(p) = r
      /\ q.pap.server = "pending" => AuthLow!PapLowerUp(p) = AuthLow!PapListen(q)
      /\ q.pap.server \notin {"initial", "pending"} => AuthLow!PapLowerUp(p) = q
  BY Zenon DEF AuthLow!PapLowerUp
<1> HIDE DEF q
<1>3. Alike(r, q) /\ Alike(AuthLow!PapListen(q), q)
  <2>1. Shaped(q)
    BY <1>1, KeptShaped
  <2>2. QED
    BY <2>1 DEF Alike, Kept, Shaped, PapServer, AuthLow!PapListen
<1> HIDE DEF r
<1>4. QED
  BY <1>1, <1>2, <1>3, AlikeKept, KeptTwice

\* ChapAuthPeer, PapAuthPeer and ChapAuthWithPeer, PapAuthWithPeer.
LEMMA ServerStartsAlike ==
  ASSUME NEW p, Shaped(p)
  PROVE  Alike(ServerStarts(p), p)
<1>1. Alike(p, p)
  BY DEF Alike, Kept
<1>2. Alike(AuthLow!ChapAuthPeer(p), p)
  <2>1. Alike([p EXCEPT !.chap.server = "pending"], p)
    BY DEF Alike, Kept, Shaped
  <2>2. QED
    BY <2>1, AuthLowChallengeAlike, Zenon DEF AuthLow!ChapAuthPeer
<1>3. Alike(AuthLow!PapAuthPeer(p), p)
  <2>1. Alike([p EXCEPT !.pap.server = "pending"], p) /\ Alike(AuthLow!PapListen(p), p)
    BY DEF Alike, Kept, Shaped, PapServer, AuthLow!PapListen
  <2>2. QED
    BY <2>1, Zenon DEF AuthLow!PapAuthPeer
<1>4. QED
  BY <1>1, <1>2, <1>3, Zenon DEF ServerStarts

\* This side starts to prove itself.
LEMMA ClientStartsKept ==
  ASSUME NEW p, Shaped(p)
  PROVE  Kept(ClientStarts(p), p)
<1>1. Kept(p, p)
  BY DEF Kept
<1>2. Kept(AuthLow!ChapAuthWithPeer(p), p)
  BY DEF AuthLow!ChapAuthWithPeer, Kept, Shaped
<1>3. Kept(AuthLow!PapAuthWithPeer(p), p)
  <2> DEFINE q == [p EXCEPT !.pap.transmits = 0]
  <2>1. Kept(q, p)
    BY DEF Kept, Shaped
  <2>2. AuthLow!PapAuthWithPeer(p) = IF q.pap.client \in {"initial", "pending"} THEN [q EXCEPT !.pap.client = "pending"]
                                     ELSE AuthLow!PapSendAuthReq(q)
    BY DEF AuthLow!PapAuthWithPeer
  <2> HIDE DEF q
  <2>3. Kept([q EXCEPT !.pap.client = "pending"], q)
    BY <2>1, KeptShaped DEF Kept, Shaped
  <2>4. Kept(AuthLow!PapSendAuthReq(q), q)
    BY <2>1, KeptShaped, AuthLowAuthReqKept
  <2>5. QED
    BY <2>1, <2>2, <2>3, <2>4, KeptTwice
<1>4. QED
  BY <1>1, <1>2, <1>3, Zenon DEF ClientStarts

-----------------------------------------------------------------------------
\* fsm_lowerup of IPCP, as link_established calls it: IPCP is awake from now on.
LEMMA IpcpLowerUpIs ==
  ASSUME NEW p, NEW c, NEW k, Idle(p, c, k), p.lcp.state = "OPENED"
  PROVE  Loose(IpcpLow!LowerUp(p), c, k) /\ ~IpcpLow!LowerUp(p).ifUp
<1> DEFINE a == IpcpLow!SConfReq(p, FALSE)
<1>1. ASSUME NEW q, Idle(q, c, k), q.lcp.state = "OPENED", NEW s \in FsmStates
      PROVE  Loose(IpcpLow!Become(q, s), c, k) /\ ~IpcpLow!Become(q, s).ifUp
  <2> DEFINE b == IpcpLow!Become(q, s)
  <2>1. ~q.ifUp /\ Shaped(q)
    BY <1>1, IdleShaped
  <2>2. /\ Shaped(b) /\ b.cfg = q.cfg /\ b.phase = q.phase /\ b.pending = q.pending /\ b.open = q.open
        /\ b.ifUp = q.ifUp /\ b.lcp.state = q.lcp.state /\ b.ipcp.state = s /\ b.out = q.out
        /\ b.go = q.go /\ b.chap = q.chap /\ b.pap = q.pap
    BY <2>1, IpcpBecomes
  <2> HIDE DEF b
  <2>3. Begun(b) <=> Begun(q)
    BY <2>2 DEF Begun
  <2>4. QED
    BY <1>1, <2>1, <2>2, <2>3 DEF Idle, Sound, Loose, b
<1>2. Idle(a, c, k) /\ a.lcp.state = "OPENED"
  <2>1. Alike(a, p)
    BY IpcpSConfReqAlike, IdleShaped
  <2>2. QED
    BY <2>1, AlikeSound DEF Alike, Kept
<1>3. CASE p.ipcp.state = "INITIAL"
  <2>1. IpcpLow!LowerUp(p) = IpcpLow!Become(p, "CLOSED")
    BY <1>3, Zenon DEF IpcpLow!LowerUp, IpcpLow!State
  <2>2. QED
    BY <1>1, <2>1 DEF FsmStates
<1>4. CASE p.ipcp.state = "STARTING"
  <2>1. IpcpLow!LowerUp(p) = IpcpLow!Become(a, "REQSENT")
    BY <1>4, Zenon DEF IpcpLow!LowerUp, IpcpLow!State
  <2> HIDE DEF a
  <2>2. QED
    BY <1>1, <1>2, <2>1 DEF FsmStates
<1>5. QED
  BY <1>3, <1>4 DEF Idle, Asleep

\* link_established after it has told the layers above: who has to prove
\* himself is written down before anything else of the phase.
LEMMA AuthenticateSound ==
  ASSUME NEW p, NEW c, NEW k, Loose(p, c, k), ~p.ifUp
  PROVE  Sound(Authenticate(p), c, k)
<1> DEFINE bits == AuthBits(p)
           q == [p EXCEPT !.phase = "AUTHENTICATE", !.pending = bits]
           server == ServerStarts(q)
           client == ClientStarts(server)
<1>1. CASE p.cfg.demand # {} /\ p.go.auth = {}
  <2>1. Authenticate(p) = LcpClose(p)
    BY <1>1 DEF Authenticate
  <2>2. QED
    BY <2>1, LcpCloseIdle, IdleShaped
<1>2. CASE ~(p.cfg.demand # {} /\ p.go.auth = {})
  <2>1. Authenticate(p) = IF q.pending = {} THEN NetworkPhase(q) ELSE client
    BY <1>2 DEF Authenticate, AuthPhase
  <2>2. bits \cap PeerBits = {} => Proven(c, k)
    <3>1. p.go.auth \subseteq {"chap", "pap"} /\ c = p.cfg
      BY DEF Loose, AuthOptions
    <3>2. p.go.auth # {} => "chapPeer" \in bits \/ "papPeer" \in bits
      BY <3>1 DEF AuthBits
    <3>3. QED
      BY <1>2, <3>1, <3>2 DEF Proven, PeerBits
  <2>3. q.pending = bits
    BY DEF Loose, Shaped
  <2>4. Sound(q, c, k)
    <3> HIDE DEF bits
    <3>1. /\ Shaped(q) /\ q.cfg = p.cfg /\ q.pending = bits /\ q.open = p.open
          /\ q.ifUp = p.ifUp /\ q.lcp = p.lcp /\ q.ipcp = p.ipcp /\ q.go = p.go
          /\ q.out = p.out /\ q.chap = p.chap /\ q.pap = p.pap /\ q.phase = "AUTHENTICATE"
      BY DEF Loose, Shaped
    <3> HIDE DEF q
    <3>2. QED
      BY <2>2, <3>1 DEF Loose, Sound, Phases
  <2> HIDE DEF q
  <2>5. CASE q.pending = {}
    <3>1. Proven(c, k)
      BY <2>2, <2>3, <2>5
    <3>2. QED
      BY <2>1, <2>4, <2>5, <3>1, NetworkPhaseSound, IdleShaped
  <2>6. CASE q.pending # {}
    <3>1. Kept(server, q) /\ Shaped(server)
      BY <2>4, IdleShaped, ServerStartsAlike, AlikeKept, KeptShaped
    <3> HIDE DEF server
    <3>2. Kept(client, q)
      BY <3>1, ClientStartsKept, KeptTwice
    <3> HIDE DEF client
    <3>3. Sound(client, c, k)
      BY <2>2, <2>3, <2>4, <3>2, KeptAsked
    <3>4. QED
      BY <2>1, <2>6, <3>3
  <2>7. QED
    BY <2>5, <2>6
<1>3. QED
  BY <1>1, <1>2

\* lcp_echo_lowerup. No echo is open yet, so the first check cannot fail.
LEMMA LcpEchoLowerUpAlike ==
  ASSUME NEW p, Shaped(p)
  PROVE  Alike(LcpEchoLowerUp(p), p)
<1> DEFINE q == [p EXCEPT !.echo.pending = 0, !.echo.running = FALSE]
           sent == LcpSendEchoRequest(q)
           r == [sent EXCEPT !.echo.timer = TRUE, !.echo.running = TRUE]
<1>1. Alike(q, p) /\ q.echo.pending = 0
  BY DEF Alike, Kept, Shaped
<1>2. LcpEchoLowerUp(p) = IF p.cfg.echo THEN LcpEchoCheck(q) ELSE q
  BY DEF LcpEchoLowerUp
<1> HIDE DEF q
<1>3. EchoTested(q) = q
  BY <1>1, PppConstants DEF EchoTested
<1>4. LcpEchoCheck(q) = r
  BY <1>3 DEF LcpEchoCheck
<1>5. Alike(sent, q)
  <2> DEFINE s == LcpLow!SData(q, "EchoReq", 0, q.go.magic)
             t == [s EXCEPT !.echo.pending = @ + 1]
  <2>1. Alike(s, q) /\ Shaped(q)
    BY <1>1, LcpSData, AlikeShaped
  <2>2. LcpSendEchoRequest(q) = IF q.lcp.state # "OPENED" THEN q ELSE t
    BY DEF LcpSendEchoRequest
  <2> HIDE DEF s
  <2>3. Alike(t, s)
    BY <2>1, AlikeShaped DEF Alike, Kept, Shaped
  <2> HIDE DEF t
  <2>4. Alike(q, q)
    BY <2>1 DEF Alike, Kept
  <2>5. QED
    BY <2>1, <2>2, <2>3, <2>4, AlikeTwice
<1> HIDE DEF sent
<1>6. Alike(r, sent)
  BY <1>5, AlikeShaped DEF Alike, Kept, Shaped
<1> HIDE DEF r
<1>7. QED
  BY <1>1, <1>2, <1>4, <1>5, <1>6, AlikeTwice

\* lcp_up: the link is established with everything above it still asleep.
LEMMA LcpUpSound ==
  ASSUME NEW p, NEW c, NEW k, Idle(p, c, k), p.lcp.state = "OPENED"
  PROVE  Sound(LcpUp(p), c, k)
<1> DEFINE echo == LcpEchoLowerUp(p)
           pap == AuthLow!PapLowerUp(echo)
           chap == AuthLow!ChapLowerUp(pap)
           ipcp == IpcpLow!LowerUp(chap)
<1>1. Idle(echo, c, k) /\ echo.lcp.state = "OPENED"
  <2>1. Alike(echo, p)
    BY LcpEchoLowerUpAlike, IdleShaped
  <2>2. QED
    BY <2>1, AlikeSound DEF Alike, Kept
<1>2. LcpUp(p) = Authenticate(ipcp)
  BY DEF LcpUp, LinkEstablished
<1> HIDE DEF echo
<1>3. Idle(pap, c, k) /\ pap.lcp.state = "OPENED"
  <2>1. Kept(pap, echo) /\ (Begun(pap) => Begun(echo))
    BY <1>1, PapLowerUpIs, IdleShaped
  <2>2. QED
    BY <1>1, <2>1, KeptSound DEF Kept
<1> HIDE DEF pap
<1>4. Idle(chap, c, k) /\ chap.lcp.state = "OPENED"
  <2>1. Kept(chap, pap) /\ (Begun(chap) => Begun(pap))
    BY <1>3, ChapLowerUpIs, IdleShaped
  <2>2. QED
    BY <1>3, <2>1, KeptSound DEF Kept
<1> HIDE DEF chap
<1>5. Loose(ipcp, c, k) /\ ~ipcp.ifUp
  BY <1>4, IpcpLowerUpIs
<1> HIDE DEF ipcp
<1>6. QED
  BY <1>2, <1>5, AuthenticateSound

-----------------------------------------------------------------------------
\* auth_peer_fail and auth_withpeer_fail.
LEMMA AuthWithPeerFailIdle ==
  ASSUME NEW p, NEW c, NEW k, Loose(p, c, k)
  PROVE  Idle(AuthWithPeerFail(p), c, k)
<1> DEFINE q == [p EXCEPT !.errCode = "authFail"]
<1>1. Alike(q, p)
  BY IdleShaped DEF Alike, Kept, Shaped
<1>2. AuthWithPeerFail(p) = LcpClose(q)
  BY DEF AuthWithPeerFail
<1> HIDE DEF q
<1>3. QED
  BY <1>1, <1>2, AlikeSound, LcpCloseIdle

\* The fields of CHAP and of PAP the invariant does not speak of.
LEMMA ChapFieldAlike ==
  ASSUME NEW p, Shaped(p), NEW v
  PROVE  /\ Alike([p EXCEPT !.chap.server = v], p) /\ Alike([p EXCEPT !.chap.serverTimer = v], p)
         /\ Alike([p EXCEPT !.chap.clientTimer = v], p) /\ Alike([p EXCEPT !.chap.respId = v], p)
  BY DEF Alike, Kept, Shaped

\* The same fields of PAP.
LEMMA PapFieldAlike ==
  ASSUME NEW p, Shaped(p), NEW v, NEW s \in PapServer
  PROVE  /\ Alike([p EXCEPT !.pap.clientTimer = v], p) /\ Alike([p EXCEPT !.pap.serverTimer = v], p)
         /\ Alike([p EXCEPT !.pap.server = s], p) /\ [p EXCEPT !.pap.serverTimer = v].pap.server = p.pap.server
  BY DEF Alike, Kept, Shaped

\* A client that has been answered, or given up.
LEMMA ChapClientKept ==
  ASSUME NEW p, Shaped(p), NEW s
  PROVE  Kept([p EXCEPT !.chap.clientTimer = FALSE, !.chap.client = s], p)
  BY DEF Kept, Shaped

\* A client of PAP that has been answered, or given up.
LEMMA PapClientKept ==
  ASSUME NEW p, Shaped(p), NEW s
  PROVE  /\ Kept([p EXCEPT !.pap.clientTimer = FALSE, !.pap.client = s], p)
         /\ Kept([p EXCEPT !.pap.client = "badAuth"], p) /\ (Begun([p EXCEPT !.pap.client = "badAuth"]) => Begun(p))
<1>1. Kept([p EXCEPT !.pap.clientTimer = FALSE, !.pap.client = s], p)
  BY DEF Kept, Shaped
<1>2. Kept([p EXCEPT !.pap.client = "badAuth"], p) /\ (Begun([p EXCEPT !.pap.client = "badAuth"]) => Begun(p))
  BY DEF Kept, Shaped, Begun
<1>3. QED
  BY <1>1, <1>2

\* ChapChallengeTimeout and ChapRechallenge.
LEMMA ChapServerTimeoutSound ==
  ASSUME NEW p, NEW c, NEW k, Sound(p, c, k)
  PROVE  Sound(Auth!ChapServerTimeout(p), c, k)
<1> DEFINE q == [p EXCEPT !.chap.serverTimer = FALSE]
           bad == [q EXCEPT !.chap.server = "badAuth"]
<1>1. Sound(q, c, k)
  BY IdleShaped, ChapFieldAlike, AlikeSound
<1>2. \/ Auth!ChapServerTimeout(p) = LcpClose(bad) \/ Auth!ChapServerTimeout(p) = Auth!ChapSendChallenge(q)
      \/ Auth!ChapServerTimeout(p) = Auth!ChapChallenge(q, "rechallenge") \/ Auth!ChapServerTimeout(p) = q
  BY Zenon DEF Auth!ChapServerTimeout
<1> HIDE DEF q
<1>3. Sound(bad, c, k)
  BY <1>1, IdleShaped, ChapFieldAlike, AlikeSound
<1> HIDE DEF bad
<1>4. Sound(LcpClose(bad), c, k)
  BY <1>3, LcpCloseIdle, IdleShaped
<1>5. Sound(Auth!ChapSendChallenge(q), c, k) /\ Sound(Auth!ChapChallenge(q, "rechallenge"), c, k)
  BY <1>1, IdleShaped, AuthChallengeAlike, AlikeSound
<1>6. QED
  BY <1>1, <1>2, <1>4, <1>5

\* ChapResponseTimeout: what was said is said again.
LEMMA ChapResponseTimeoutSound ==
  ASSUME NEW p, NEW c, NEW k, Sound(p, c, k)
  PROVE  Sound(AuthLow!ChapResponseTimeout(p), c, k)
<1> DEFINE q == [p EXCEPT !.chap.clientTimer = FALSE]
<1>1. Sound(q, c, k)
  BY IdleShaped, ChapFieldAlike, AlikeSound
<1>2. AuthLow!ChapResponseTimeout(p) = IF q.chap.client = "response" THEN AuthLow!ChapSendResponse(q) ELSE q
  BY DEF AuthLow!ChapResponseTimeout
<1> HIDE DEF q
<1>3. CASE q.chap.client = "response"
  <2>1. Kept(AuthLow!ChapSendResponse(q), q) /\ Begun(q)
    BY <1>1, <1>3, AuthLowResponseKept, IdleShaped
  <2>2. QED
    BY <1>1, <1>2, <1>3, <2>1, KeptSound
<1>4. QED
  BY <1>1, <1>2, <1>3

\* ChapReceiveChallenge: only who has been told to prove himself answers.
LEMMA ChapChallengedSound ==
  ASSUME NEW p, NEW c, NEW k, Sound(p, c, k), NEW pkt
  PROVE  Sound(Auth!ChapReceiveChallenge(p, pkt), c, k)
<1> DEFINE timer == p.chap.clientTimer /\ p.chap.client # "response"
           r == [p EXCEPT !.chap.clientTimer = timer]
           q == [r EXCEPT !.chap.respId = pkt.id]
<1>1. Sound(r, c, k)
  BY IdleShaped, ChapFieldAlike, AlikeSound
<1>2. Auth!ChapReceiveChallenge(p, pkt) = IF p.chap.client \in {"closed", "pending"} THEN p
                                          ELSE IF q.chap.digest THEN Auth!ChapSendResponse(q) ELSE q
  BY DEF Auth!ChapReceiveChallenge
<1> HIDE DEF r
<1>3. Sound(q, c, k)
  BY <1>1, IdleShaped, ChapFieldAlike, AlikeSound
<1> HIDE DEF q
<1>4. CASE q.chap.digest
  <2>1. Kept(Auth!ChapSendResponse(q), q) /\ Begun(q)
    BY <1>3, <1>4, AuthResponseKept, IdleShaped
  <2>2. Sound(Auth!ChapSendResponse(q), c, k)
    BY <1>3, <2>1, KeptSound
  <2>3. QED
    BY <1>2, <1>4, <2>2
<1>5. QED
  BY <1>2, <1>3, <1>4

\* ChapReceiveResponse: a response is right when the other side knows the secret.
LEMMA ChapAnsweredSound ==
  ASSUME NEW p, NEW c, NEW k, Sound(p, c, k), NEW pkt, pkt.opts => k
  PROVE  Sound(Auth!ChapReceiveResponse(p, pkt), c, k)
<1> DEFINE q == [p EXCEPT !.chap.serverTimer = FALSE]
           good == Auth!ChapSendStatus(q, "Success")
           wrong == Auth!ChapSendStatus(q, "Failure")
           opened == [good EXCEPT !.chap.server = "open"]
           again == p.cfg.rechallenges
           open == [opened EXCEPT !.chap.serverTimer = again]
           bad == [wrong EXCEPT !.chap.server = "badAuth"]
           all == Auth!ChapReceiveResponse(p, pkt)
<1>1. ASSUME NEW a, Sound(a, c, k), NEW code \in {"Success", "Failure"} PROVE Sound(Auth!ChapSendStatus(a, code), c, k)
  <2>1. Alike(Auth!Put(a, "chap", code, a.chap.id, <<>>), a)
    BY <1>1, AuthPutAlike, IdleShaped DEF Proper, Protocols
  <2>2. QED
    BY <1>1, <2>1, AlikeSound DEF Auth!ChapSendStatus
<1>2. open = [good EXCEPT !.chap.server = "open", !.chap.serverTimer = p.cfg.rechallenges]
  BY IdleShaped
<1>3. \/ all = p \/ all = Auth!ChapSendStatus(p, "Success") \/ all = Auth!ChapSendStatus(p, "Failure")
      \/ all = LcpClose(bad) \/ all = open \/ (pkt.opts /\ all = AuthSuccess(open, "chapPeer"))
  <2> HIDE DEF open
  <2>1. QED
    BY <1>2, ZenonT(30) DEF Auth!ChapReceiveResponse
<1>4. Sound(q, c, k)
  BY IdleShaped, ChapFieldAlike, AlikeSound
<1> HIDE DEF q
<1>5. Sound(good, c, k) /\ Sound(wrong, c, k)
  BY <1>1, <1>4
<1> HIDE DEF good, wrong
<1>6. Sound(opened, c, k) /\ Sound(bad, c, k)
  BY <1>5, IdleShaped, ChapFieldAlike, AlikeSound
<1> HIDE DEF opened, bad, again
<1>7. Sound(open, c, k)
  <2>1. Shaped(opened)
    BY <1>6, IdleShaped
  <2>2. Alike(open, opened)
    BY <2>1, ChapFieldAlike
  <2>3. QED
    BY <1>6, <2>2, AlikeSound
<1> HIDE DEF open, all
<1>8. ASSUME pkt.opts PROVE Sound(AuthSuccess(open, "chapPeer"), c, k)
  <2>1. Proven(c, k)
    BY <1>8 DEF Proven
  <2>2. QED
    BY <1>7, <2>1, AuthSuccessSound
<1>9. Sound(LcpClose(bad), c, k)
  BY <1>6, LcpCloseIdle, IdleShaped
<1>10. QED
  BY <1>1, <1>3, <1>7, <1>8, <1>9 DEF all

\* ChapReceiveSuccess and ChapReceiveFailure.
LEMMA ChapOutcomeSound ==
  ASSUME NEW p, NEW c, NEW k, Sound(p, c, k)
  PROVE  Sound(Auth!ChapReceiveSuccess(p), c, k) /\ Sound(Auth!ChapReceiveFailure(p), c, k)
<1> DEFINE q == [p EXCEPT !.chap.clientTimer = FALSE, !.chap.client = "open"]
           f == [p EXCEPT !.chap.clientTimer = FALSE]
<1>1. Sound(Auth!ChapReceiveSuccess(p), c, k)
  <2>1. Auth!ChapReceiveSuccess(p) = IF p.chap.client # "response" THEN p ELSE AuthSuccess(q, "chapWith")
    BY DEF Auth!ChapReceiveSuccess
  <2>2. Kept(q, p) /\ q.pending = p.pending
    BY IdleShaped, ChapClientKept DEF Kept
  <2> HIDE DEF q
  <2>3. CASE p.chap.client = "response"
    <3>1. Begun(p)
      BY <2>3 DEF Begun
    <3>2. Sound(q, c, k)
      BY <2>2, <3>1, KeptAsked
    <3>3. (q.pending \ {"chapWith"}) \cap PeerBits = {} => Proven(c, k)
      BY <2>2, <3>1 DEF PeerBits, Sound, Loose
    <3>4. QED
      BY <2>1, <2>3, <3>2, <3>3, AuthSuccessSound
  <2>4. QED
    BY <2>1, <2>3
<1>2. Sound(Auth!ChapReceiveFailure(p), c, k)
  <2>1. Auth!ChapReceiveFailure(p) = IF p.chap.client # "response" THEN p ELSE AuthWithPeerFail(f)
    BY DEF Auth!ChapReceiveFailure
  <2>2. Sound(f, c, k)
    BY IdleShaped, ChapFieldAlike, AlikeSound
  <2> HIDE DEF f
  <2>3. QED
    BY <2>1, <2>2, AuthWithPeerFailIdle, IdleShaped
<1>3. QED
  BY <1>1, <1>2

\* ChapInput.
LEMMA ChapInputSound ==
  ASSUME NEW p, NEW c, NEW k, Sound(p, c, k), NEW pkt, pkt.proto = "chap", Proper(pkt, k)
  PROVE  Sound(Auth!ChapInput(p, pkt), c, k)
<1>1. pkt.code \in {"Challenge", "Response", "Success", "Failure"}
  BY DEF Proper
<1>2. CASE pkt.code = "Challenge"
  BY <1>2, ChapChallengedSound, Zenon DEF Auth!ChapInput
<1>3. CASE pkt.code = "Response"
  <2>1. pkt.opts = k
    BY <1>3 DEF Proper
  <2>2. Auth!ChapInput(p, pkt) = Auth!ChapReceiveResponse(p, pkt)
    BY <1>3, Zenon DEF Auth!ChapInput
  <2>3. pkt.opts => k
    BY <2>1
  <2>4. QED
    BY <2>2, <2>3, ChapAnsweredSound
<1>4. CASE pkt.code = "Success"
  BY <1>4, ChapOutcomeSound, Zenon DEF Auth!ChapInput
<1>5. CASE pkt.code = "Failure"
  BY <1>5, ChapOutcomeSound, Zenon DEF Auth!ChapInput
<1>6. QED
  BY <1>1, <1>2, <1>3, <1>4, <1>5

\* ChapProtocolReject: the link is closed, and CHAP starts afresh.
LEMMA ChapRejectedSound ==
  ASSUME NEW p, NEW c, NEW k, Sound(p, c, k)
  PROVE  Sound(Auth!ChapProtocolReject(p), c, k)
<1>1. \E q : (q = p \/ q = LcpClose(p) \/ q = AuthWithPeerFail(p)) /\ Auth!ChapProtocolReject(p) = Auth!ChapLowerDown(q)
  BY Zenon DEF Auth!ChapProtocolReject
<1>2. PICK q : (q = p \/ q = LcpClose(p) \/ q = AuthWithPeerFail(p)) /\ Auth!ChapProtocolReject(p) = Auth!ChapLowerDown(q)
  BY <1>1
<1>3. Sound(q, c, k)
  BY <1>2, LcpCloseIdle, AuthWithPeerFailIdle, IdleShaped
<1>4. Auth!ChapLowerDown(q) = AuthLow!ChapLowerDown(q)
  BY Zenon DEF Auth!ChapLowerDown, AuthLow!ChapLowerDown
<1>5. QED
  BY <1>2, <1>3, <1>4, ChapLowerDownIs, KeptSound, IdleShaped

\* PapTimeout: the request is repeated a number of times.
LEMMA PapTimeoutSound ==
  ASSUME NEW p, NEW c, NEW k, Sound(p, c, k)
  PROVE  Sound(Auth!PapTimeout(p), c, k)
<1> DEFINE q == [p EXCEPT !.pap.clientTimer = FALSE]
           bad == [q EXCEPT !.pap.client = "badAuth"]
<1>1. Sound(q, c, k)
  <2>1. Alike(q, p)
    BY IdleShaped DEF Alike, Kept, Shaped
  <2>2. QED
    BY <2>1, AlikeSound
<1>2. Auth!PapTimeout(p) \in {q, AuthWithPeerFail(bad)}
      \/ (q.pap.client = "authReq" /\ Auth!PapTimeout(p) = Auth!PapSendAuthReq(q))
  BY DEF Auth!PapTimeout
<1> HIDE DEF q
<1>3. Sound(bad, c, k)
  <2>1. Shaped(q)
    BY <1>1, IdleShaped
  <2>2. Kept(bad, q) /\ (Begun(bad) => Begun(q))
    BY <2>1, PapClientKept
  <2> HIDE DEF bad
  <2>3. QED
    BY <1>1, <2>2, KeptSound
<1> HIDE DEF bad
<1>4. Sound(AuthWithPeerFail(bad), c, k)
  BY <1>3, AuthWithPeerFailIdle, IdleShaped
<1>5. ASSUME q.pap.client = "authReq" PROVE Sound(Auth!PapSendAuthReq(q), c, k)
  <2>1. Begun(q)
    BY <1>5 DEF Begun
  <2>2. QED
    BY <1>1, <2>1, AuthAuthReqKept, KeptSound, IdleShaped
<1>6. QED
  BY <1>1, <1>2, <1>4, <1>5

\* PapReqTimeout: the client did not ask in time.
LEMMA PapReqTimeoutSound ==
  ASSUME NEW p, NEW c, NEW k, Sound(p, c, k)
  PROVE  Sound(Auth!PapReqTimeout(p), c, k)
<1> DEFINE q == [p EXCEPT !.pap.serverTimer = FALSE]
           r == LcpClose(q)
<1>1. Sound(q, c, k)
  <2>1. Alike(q, p)
    BY IdleShaped DEF Alike, Kept, Shaped
  <2>2. QED
    BY <2>1, AlikeSound
<1>2. Auth!PapReqTimeout(p) \in {q, [r EXCEPT !.pap.server = "badAuth"]}
  BY DEF Auth!PapReqTimeout
<1> HIDE DEF q
<1>3. Sound(r, c, k)
  BY <1>1, LcpCloseIdle, IdleShaped
<1> HIDE DEF r
<1>4. Sound([r EXCEPT !.pap.server = "badAuth"], c, k)
  <2>1. Alike([r EXCEPT !.pap.server = "badAuth"], r)
    BY <1>3, IdleShaped DEF Alike, Kept, Shaped, PapServer
  <2>2. QED
    BY <1>3, <2>1, AlikeSound
<1>5. QED
  BY <1>1, <1>2, <1>4

\* pap_rauthreq: a request is right when the other side knows the secret.
LEMMA PapAskedSound ==
  ASSUME NEW p, NEW c, NEW k, Sound(p, c, k), NEW pkt, pkt.opts => k
  PROVE  Sound(Auth!PapReceiveAuthReq(p, pkt), c, k)
<1> DEFINE q == [p EXCEPT !.pap.serverTimer = FALSE]
           ack == Auth!Put(q, "pap", "AuthAck", pkt.id, <<>>)
           nak == Auth!Put(q, "pap", "AuthNak", pkt.id, <<>>)
           open == [ack EXCEPT !.pap.server = "open"]
           bad == [nak EXCEPT !.pap.server = "badAuth"]
           all == Auth!PapReceiveAuthReq(p, pkt)
<1>1. ASSUME NEW a, Sound(a, c, k)
      PROVE  Sound(Auth!Put(a, "pap", "AuthAck", pkt.id, <<>>), c, k) /\ Sound(Auth!Put(a, "pap", "AuthNak", pkt.id, <<>>), c, k)
  <2>1. Alike(Auth!Put(a, "pap", "AuthAck", pkt.id, <<>>), a) /\ Alike(Auth!Put(a, "pap", "AuthNak", pkt.id, <<>>), a)
    BY <1>1, AuthPutAlike, IdleShaped DEF Proper, Protocols
  <2>2. QED
    BY <1>1, <2>1, AlikeSound
<1>2. p.pap.server \in PapServer
  BY IdleShaped DEF Shaped
<1>3. \/ all = p \/ all = Auth!Put(p, "pap", "AuthAck", pkt.id, <<>>) \/ all = Auth!Put(p, "pap", "AuthNak", pkt.id, <<>>)
      \/ all = LcpClose(bad) \/ (pkt.opts /\ all = AuthSuccess(open, "papPeer"))
  <2>1. CASE p.pap.server \in {"initial", "closed", "pending"}
    BY <2>1, Zenon DEF Auth!PapReceiveAuthReq
  <2>2. CASE p.pap.server = "open"
    BY <2>2, Zenon DEF Auth!PapReceiveAuthReq
  <2>3. CASE p.pap.server = "badAuth"
    BY <2>3, Zenon DEF Auth!PapReceiveAuthReq
  <2>4. CASE p.pap.server = "listen"
    <3>1. all = IF pkt.opts THEN AuthSuccess(open, "papPeer") ELSE LcpClose(bad)
      BY <2>4, Zenon DEF Auth!PapReceiveAuthReq
    <3> HIDE DEF all, open, bad
    <3>2. QED
      BY <3>1
  <2>5. QED
    BY <1>2, <2>1, <2>2, <2>3, <2>4 DEF PapServer
<1>4. Sound(q, c, k)
  <2>1. Alike(q, p)
    BY IdleShaped DEF Alike, Kept, Shaped
  <2>2. QED
    BY <2>1, AlikeSound
<1> HIDE DEF q
<1>5. Sound(ack, c, k) /\ Sound(nak, c, k)
  BY <1>1, <1>4
<1> HIDE DEF ack, nak
<1>6. Sound(open, c, k) /\ Sound(bad, c, k)
  <2>1. Alike(open, ack) /\ Alike(bad, nak)
    BY <1>5, IdleShaped DEF Alike, Kept, Shaped, PapServer
  <2>2. QED
    BY <1>5, <2>1, AlikeSound
<1> HIDE DEF open, bad, all
<1>7. ASSUME pkt.opts PROVE Sound(AuthSuccess(open, "papPeer"), c, k)
  <2>1. Proven(c, k)
    BY <1>7 DEF Proven
  <2>2. QED
    BY <1>6, <2>1, AuthSuccessSound
<1>8. Sound(LcpClose(bad), c, k)
  BY <1>6, LcpCloseIdle, IdleShaped
<1>9. QED
  BY <1>1, <1>3, <1>7, <1>8 DEF all

\* pap_rauthack and pap_rauthnak.
LEMMA PapOutcomeSound ==
  ASSUME NEW p, NEW c, NEW k, Sound(p, c, k)
  PROVE  Sound(Auth!PapReceiveAuthAck(p), c, k) /\ Sound(Auth!PapReceiveAuthNak(p), c, k)
<1> DEFINE q == [p EXCEPT !.pap.clientTimer = FALSE, !.pap.client = "open"]
           bad == [p EXCEPT !.pap.client = "badAuth"]
<1>1. Sound(Auth!PapReceiveAuthAck(p), c, k)
  <2>1. Auth!PapReceiveAuthAck(p) = IF p.pap.client # "authReq" THEN p ELSE AuthSuccess(q, "papWith")
    BY DEF Auth!PapReceiveAuthAck
  <2>2. Kept(q, p) /\ q.pending = p.pending
    BY IdleShaped, PapClientKept DEF Kept
  <2> HIDE DEF q
  <2>3. CASE p.pap.client = "authReq"
    <3>1. Begun(p)
      BY <2>3 DEF Begun
    <3>2. Sound(q, c, k)
      BY <2>2, <3>1, KeptAsked
    <3>3. (q.pending \ {"papWith"}) \cap PeerBits = {} => Proven(c, k)
      BY <2>2, <3>1 DEF PeerBits, Sound, Loose
    <3>4. QED
      BY <2>1, <2>3, <3>2, <3>3, AuthSuccessSound
  <2>4. QED
    BY <2>1, <2>3
<1>2. Sound(Auth!PapReceiveAuthNak(p), c, k)
  <2>1. Auth!PapReceiveAuthNak(p) = IF p.pap.client # "authReq" THEN p ELSE AuthWithPeerFail(bad)
    BY DEF Auth!PapReceiveAuthNak
  <2>2. Kept(bad, p) /\ (Begun(bad) => Begun(p))
    BY PapClientKept, IdleShaped
  <2> HIDE DEF bad
  <2>3. Sound(bad, c, k)
    BY <2>2, KeptSound
  <2>4. QED
    BY <2>1, <2>3, AuthWithPeerFailIdle, IdleShaped
<1>3. QED
  BY <1>1, <1>2

\* PapInput.
LEMMA PapInputSound ==
  ASSUME NEW p, NEW c, NEW k, Sound(p, c, k), NEW pkt, pkt.proto = "pap", Proper(pkt, k)
  PROVE  Sound(Auth!PapInput(p, pkt), c, k)
<1>1. pkt.code \in {"AuthReq", "AuthAck", "AuthNak"}
  BY DEF Proper
<1>2. CASE pkt.code = "AuthReq"
  <2>1. pkt.opts = k
    BY <1>2 DEF Proper
  <2>2. Auth!PapInput(p, pkt) = Auth!PapReceiveAuthReq(p, pkt)
    BY <1>2, Zenon DEF Auth!PapInput
  <2>3. pkt.opts => k
    BY <2>1
  <2>4. QED
    BY <2>2, <2>3, PapAskedSound
<1>3. CASE pkt.code = "AuthAck"
  BY <1>3, PapOutcomeSound, Zenon DEF Auth!PapInput
<1>4. CASE pkt.code = "AuthNak"
  BY <1>4, PapOutcomeSound, Zenon DEF Auth!PapInput
<1>5. QED
  BY <1>1, <1>2, <1>3, <1>4

\* PapProtocolReject: the link is closed, and PAP starts afresh.
LEMMA PapRejectedSound ==
  ASSUME NEW p, NEW c, NEW k, Sound(p, c, k)
  PROVE  Sound(Auth!PapProtocolReject(p), c, k)
<1>1. \E q : (q = p \/ q = LcpClose(p) \/ q = AuthWithPeerFail(p)) /\ Auth!PapProtocolReject(p) = Auth!PapLowerDown(q)
  BY Zenon DEF Auth!PapProtocolReject
<1>2. PICK q : (q = p \/ q = LcpClose(p) \/ q = AuthWithPeerFail(p)) /\ Auth!PapProtocolReject(p) = Auth!PapLowerDown(q)
  BY <1>1
<1>3. Sound(q, c, k)
  BY <1>2, LcpCloseIdle, AuthWithPeerFailIdle, IdleShaped
<1>4. Auth!PapLowerDown(q) = AuthLow!PapLowerDown(q)
  BY Zenon DEF Auth!PapLowerDown, AuthLow!PapLowerDown
<1>5. QED
  BY <1>2, <1>3, <1>4, PapLowerDownIs, KeptSound, IdleShaped

-----------------------------------------------------------------------------
\* The echoes are of no concern to the invariant.
LEMMA EchoFieldAlike ==
  ASSUME NEW p, Shaped(p), NEW v
  PROVE  /\ Alike([p EXCEPT !.echo.timer = v], p) /\ Alike([p EXCEPT !.echo.running = v], p)
         /\ Alike([p EXCEPT !.echo.pending = v], p)
  BY DEF Alike, Kept, Shaped

\* LcpEchoTimeout: a peer that does not answer ends the link.
LEMMA LcpEchoTimeoutSound ==
  ASSUME NEW p, NEW c, NEW k, Sound(p, c, k)
  PROVE  Sound(LcpEchoTimeout(p), c, k)
<1>1. ASSUME NEW a, Sound(a, c, k) PROVE Sound(EchoTested(a), c, k)
  <2> DEFINE f == LcpLinkFailure(a)
             g == [f EXCEPT !.echo.pending = 0]
  <2>1. EchoTested(a) = a \/ EchoTested(a) = g
    BY DEF EchoTested
  <2>2. Sound(f, c, k)
    BY <1>1, LcpCloseIdle, IdleShaped DEF LcpLinkFailure
  <2> HIDE DEF f
  <2>3. Sound(g, c, k)
    BY <2>2, EchoFieldAlike, AlikeSound, IdleShaped
  <2>4. QED
    BY <1>1, <2>1, <2>3
<1>2. ASSUME NEW a, Sound(a, c, k) PROVE Sound(LcpSendEchoRequest(a), c, k)
  <2> DEFINE s == LcpLow!SData(a, "EchoReq", 0, a.go.magic)
             more == s.echo.pending + 1
             t == [s EXCEPT !.echo.pending = more]
  <2>1. LcpSendEchoRequest(a) = a \/ LcpSendEchoRequest(a) = t
    BY DEF LcpSendEchoRequest
  <2>2. Sound(s, c, k)
    BY <1>2, LcpSData, AlikeSound, IdleShaped
  <2> HIDE DEF s, more
  <2>3. Sound(t, c, k)
    BY <2>2, EchoFieldAlike, AlikeSound, IdleShaped
  <2>4. QED
    BY <1>2, <2>1, <2>3
<1>3. ASSUME NEW a, Sound(a, c, k) PROVE Sound(LcpEchoCheck(a), c, k)
  <2> DEFINE s == LcpSendEchoRequest(EchoTested(a))
             t == [s EXCEPT !.echo.timer = TRUE]
             u == [t EXCEPT !.echo.running = TRUE]
  <2>1. LcpEchoCheck(a) = u
    BY DEF LcpEchoCheck
  <2>2. Sound(s, c, k)
    BY <1>1, <1>2, <1>3
  <2> HIDE DEF s
  <2>3. Sound(t, c, k)
    BY <2>2, EchoFieldAlike, AlikeSound, IdleShaped
  <2> HIDE DEF t
  <2>4. Sound(u, c, k)
    BY <2>3, EchoFieldAlike, AlikeSound, IdleShaped
  <2>5. QED
    BY <2>1, <2>4
<1> DEFINE q == [p EXCEPT !.echo.timer = FALSE]
           r == [q EXCEPT !.echo.running = FALSE]
<1>4. LcpEchoTimeout(p) = IF q.echo.running THEN LcpEchoCheck(r) ELSE q
  BY DEF LcpEchoTimeout
<1>5. Sound(q, c, k)
  BY EchoFieldAlike, AlikeSound, IdleShaped
<1> HIDE DEF q
<1>6. Sound(r, c, k)
  BY <1>5, EchoFieldAlike, AlikeSound, IdleShaped
<1> HIDE DEF r
<1>7. QED
  BY <1>3, <1>4, <1>5, <1>6

-----------------------------------------------------------------------------
\* The automaton of LCP. A peer whose LCP is not open is idle, so every answer
\* starts from an idle peer, or takes the layers above down first.
LEMMA LcpShaped ==
  ASSUME NEW p, NEW c, NEW k
  PROVE  /\ Sound(p, c, k) => Loose(p, c, k) /\ Shaped(p)
         /\ Idle(p, c, k) => Sound(p, c, k) /\ Shaped(p)
  BY IdleShaped

\* What the automaton of LCP does on an idle peer.
LEMMA LcpLowOps ==
  ASSUME NEW p, NEW c, NEW k, Idle(p, c, k), NEW again
  PROVE  /\ Idle(Lcp!Untimeout(p), c, k) /\ Idle(Lcp!Timeout(p), c, k) /\ Idle(Lcp!STermReq(p), c, k)
         /\ Idle(Lcp!SConfReq(p, again), c, k) /\ Idle(Lcp!Terminate(p), c, k)
  BY LcpAlikeIdle, SameOperators, LcpSameSConfReq, LcpSameSTermReq

\* ... and the states it may take.
LEMMA LcpLowBecomes ==
  ASSUME NEW p, NEW c, NEW k, Idle(p, c, k), NEW s \in FsmStates
  PROVE  Idle(Lcp!Become(p, s), c, k) /\ Lcp!Become(p, s).lcp.state = s
<1>1. Lcp!Become(p, s) = LcpLow!Become(p, s)
  BY Zenon DEF Lcp!Become, LcpLow!Become
<1>2. QED
  BY <1>1, IdleLcpBecomes

\* What LCP may send from any peer.
LEMMA LcpAnyOps ==
  ASSUME NEW p, NEW c, NEW k, NEW id, NEW opts, NEW code, code \notin {"Response", "AuthReq", "ProtRej"}
  PROVE  /\ Sound(p, c, k) => Sound(Lcp!SData(p, code, id, opts), c, k)
         /\ Idle(p, c, k) => Idle(Lcp!SData(p, code, id, opts), c, k)
<1>1. Shaped(p) => Alike(Lcp!SData(p, code, id, opts), p)
  BY LcpSData, SameOperators
<1>2. QED
  BY <1>1, AlikeSound, LcpShaped

\* The counters LCP may change on any peer.
LEMMA LcpAnyCounts ==
  ASSUME NEW p, NEW c, NEW k, NEW n
  PROVE  /\ Sound(p, c, k) => /\ Sound([p EXCEPT !.lcp.nakloops = n], c, k)
                              /\ Sound([p EXCEPT !.lcp.retransmits = n], c, k)
                              /\ Sound([p EXCEPT !.lcp.seenAck = n], c, k)
         /\ Idle(p, c, k) => /\ Idle([p EXCEPT !.lcp.nakloops = n], c, k)
                             /\ Idle([p EXCEPT !.lcp.retransmits = n], c, k)
                             /\ Idle([p EXCEPT !.lcp.seenAck = n], c, k)
  BY LcpCountAlike, AlikeSound, LcpShaped

\* The magic number is drawn from the own sequence.
LEMMA DrawnAlike ==
  ASSUME NEW p, Shaped(p)
  PROVE  Alike(Drawn(p), p)
  BY DEF Drawn, Alike, Kept, Shaped

\* The answer to a Configure-Request is one of three.
LEMMA AnswerCode ==
  ASSUME NEW v, NEW asked, NEW offer
  PROVE  Answer(v, asked, offer).code \in {"ConfAck", "ConfNak", "ConfRej"}
<1>1. \/ \E o : Answer(v, asked, offer) = [code |-> ConfRej, opts |-> o]
      \/ \E o : Answer(v, asked, offer) = [code |-> ConfNak, opts |-> o]
      \/ Answer(v, asked, offer) = [code |-> ConfAck, opts |-> asked]
  BY Zenon DEF Answer
<1>2. QED
  BY <1>1 DEF ConfRej, ConfNak, ConfAck

\* lcp_reqci.
LEMMA LcpReqCiLow ==
  ASSUME NEW p, NEW c, NEW k, Idle(p, c, k), NEW asked, NEW reject
  PROVE  Idle(LcpReqCi(p, asked, reject).peer, c, k) /\ LcpReqCi(p, asked, reject).code \in {"ConfAck", "ConfNak", "ConfRej"}
<1> DEFINE verdict == [o \in DOMAIN asked |-> LcpVerdict(p, o, asked)]
           offer == [auth |-> IF "chap" \in p.cfg.allow THEN "chap" ELSE "pap", magic |-> Magic(p)]
           a == Answer([o \in DOMAIN asked |-> Firm(o, verdict[o], reject)], asked, offer)
           taken == Restrict(asked, {o \in DOMAIN asked : verdict[o] = ConfAck})
           q == [p EXCEPT !.ho = taken]
           r == IF Looped(p, asked) THEN Drawn(q) ELSE q
<1>1. LcpReqCi(p, asked, reject) = [code |-> a.code, opts |-> a.opts, peer |-> r]
  BY Zenon DEF LcpReqCi
<1>2. a.code \in {"ConfAck", "ConfNak", "ConfRej"}
  BY AnswerCode
<1> HIDE DEF a, taken
<1>3. Alike(q, p)
  BY LcpShaped DEF Alike, Kept, Shaped
<1> HIDE DEF q
<1>4. Alike(Drawn(q), q)
  BY <1>3, DrawnAlike, AlikeShaped
<1>5. Idle(q, c, k) /\ Idle(Drawn(q), c, k)
  BY <1>3, <1>4, AlikeSound
<1>6. QED
  BY <1>1, <1>2, <1>5

\* What is asked for changes only while the link is being negotiated.
LEMMA LcpAdoptSound ==
  ASSUME NEW p, NEW c, NEW k, Sound(p, c, k), NEW go, "auth" \in DOMAIN go, go.auth \subseteq AuthOptions
  PROVE  Sound(LcpAdopt(p, go), c, k)
<1> DEFINE q == [p EXCEPT !.go = go]
<1>1. Alike(q, p)
  BY LcpShaped DEF Alike, Kept, Shaped
<1>2. LcpAdopt(p, go) = p \/ LcpAdopt(p, go) = q
  BY DEF LcpAdopt
<1>3. Sound(q, c, k)
  BY <1>1, AlikeSound
<1>4. QED
  BY <1>2, <1>3

\* lcp_nakci and lcp_rejci.
LEMMA LcpNakRejPre ==
  ASSUME NEW p, NEW c, NEW k, Sound(p, c, k), NEW opts
  PROVE  Sound(LcpNakCi(p, opts).peer, c, k) /\ Sound(LcpRejCi(p, opts).peer, c, k)
<1>0. "auth" \in DOMAIN p.go /\ p.go.auth \subseteq AuthOptions
  BY LcpShaped DEF Loose, Shaped
<1>1. Sound(LcpRejCi(p, opts).peer, c, k)
  <2> DEFINE auth == IF Has(opts, "auth") THEN {} ELSE p.go.auth
             magic == p.go.magicOn /\ ~Has(opts, "magic")
             comp == p.go.comp /\ ~Has(opts, "comp")
             go == [p.go EXCEPT !.auth = auth, !.magicOn = magic, !.comp = comp]
             ok == AmongAsked(opts, LcpAddCi(p))
  <2>1. LcpRejCi(p, opts) = [ok |-> ok, peer |-> LcpAdopt(p, go)]
    BY Zenon DEF LcpRejCi
  <2>2. auth \subseteq AuthOptions
    BY <1>0
  <2> HIDE DEF auth, magic, comp, ok
  <2>3. "auth" \in DOMAIN go /\ go.auth \subseteq AuthOptions
    BY <1>0, <2>2
  <2> HIDE DEF go
  <2>4. QED
    BY <2>1, <2>3, LcpAdoptSound
<1>2. Sound(LcpNakCi(p, opts).peer, c, k)
  <2> DEFINE v == IF Has(opts, "auth") /\ p.go.auth # {} THEN opts["auth"] ELSE "none"
             auth == NakAuth(p.go.auth, v)
             mine == Has(opts, "magic") /\ p.go.magicOn
             loops == IF mine THEN p.go.loops + 1 ELSE 0
             comp == p.go.comp /\ ~Has(opts, "comp")
             magic == IF mine THEN Magic(p) ELSE p.go.magic
             try == [p.go EXCEPT !.auth = auth, !.loops = loops, !.comp = comp, !.magic = magic]
             drawn == IF mine THEN Drawn(p) ELSE p
             fails == mine /\ p.go.loops + 1 >= LoopbackFail /\ p.lcp.state # "OPENED"
             ok == v = "pap" => "chap" \in p.go.auth
             r == IF fails THEN LcpClose(drawn) ELSE drawn
  <2>1. LcpNakCi(p, opts) = [ok |-> ok, peer |-> LcpAdopt(r, try)]
    BY Zenon DEF LcpNakCi
  <2>2. auth \subseteq AuthOptions
    <3>1. auth = p.go.auth \ {"chap"} \/ auth = p.go.auth \ {"pap"} \/ auth = p.go.auth
      BY Zenon DEF NakAuth
    <3>2. QED
      BY <1>0, <3>1
  <2> HIDE DEF auth, loops, comp, magic, ok
  <2>3. "auth" \in DOMAIN try /\ try.auth \subseteq AuthOptions
    BY <1>0, <2>2
  <2> HIDE DEF try, fails, mine
  <2>4. Sound(drawn, c, k)
    BY DrawnAlike, AlikeSound, LcpShaped
  <2> HIDE DEF drawn
  <2>5. Sound(r, c, k)
    BY <2>4, LcpCloseIdle, LcpShaped
  <2> HIDE DEF r
  <2>6. QED
    BY <2>1, <2>3, <2>5, LcpAdoptSound
<1>3. QED
  BY <1>1, <1>2

\* lcp_down of a sound peer.
LEMMA LcpDownLow ==
  ASSUME NEW p, NEW c, NEW k, Sound(p, c, k)
  PROVE  Idle(LcpDown(p), c, k)
  BY LcpDownIdle, LcpShaped

\* lcp_finished, which is link_terminated.
LEMMA LcpFinishedLow ==
  ASSUME NEW p, NEW c, NEW k, Idle(p, c, k)
  PROVE  Sound(LinkTerminated(p), c, k)
  BY LinkTerminatedIdle, LcpShaped

\* A peer whose LCP is not open is idle already.
LEMMA LcpPreLow ==
  ASSUME NEW p, NEW c, NEW k, Sound(p, c, k), p.lcp.state # "OPENED"
  PROVE  Idle(p, c, k)
  BY SoundIdle

\* A new round of requests, after whatever was open has been taken down.
LEMMA LcpRestartLow ==
  ASSUME NEW p, NEW c, NEW k, Idle(p, c, k)
  PROVE  Idle(Lcp!Restart(p), c, k)
<1> DEFINE q == Lcp!SConfReq(p, FALSE)
<1>1. Idle(q, c, k)
  BY LcpLowOps
<1>2. Lcp!Restart(p) = Lcp!Become(q, "REQSENT")
  BY DEF Lcp!Restart
<1> HIDE DEF q
<1>3. QED
  BY <1>1, <1>2, LcpLowBecomes DEF FsmStates

\* fsm_rconfreq.
LEMMA LcpRConfReqSound ==
  ASSUME NEW p, NEW c, NEW k, Sound(p, c, k), NEW pkt
  PROVE  Sound(Lcp!RConfReq(p, pkt), c, k)
<1> DEFINE ready == CASE Lcp!State(p) = "OPENED" -> Lcp!SConfReq(LcpDown(p), FALSE)
                      [] Lcp!State(p) = "STOPPED" -> Lcp!Restart(p)
                      [] OTHER -> p
           many == ready.lcp.nakloops >= MaxNakLoops
           r == LcpReqCi(ready, pkt.opts, many)
           q == Lcp!SData(r.peer, r.code, pkt.id, r.opts)
           agreed == [q EXCEPT !.lcp.nakloops = 0]
           timed == Lcp!Untimeout(agreed)
           opened == Lcp!Become(timed, "OPENED")
           s == IF q.lcp.state = "ACKRCVD" THEN q ELSE Lcp!Become(q, "REQSENT")
           more == s.lcp.nakloops + 1
           naked == [s EXCEPT !.lcp.nakloops = more]
           all == Lcp!RConfReq(p, pkt)
<1>1. CASE p.lcp.state = "CLOSED"
  <2>1. all = Lcp!SData(p, "TermAck", pkt.id, <<>>)
    BY <1>1, Zenon DEF Lcp!RConfReq, Lcp!State
  <2>2. QED
    BY <2>1, LcpAnyOps, LcpShaped
<1>2. CASE p.lcp.state \in {"CLOSING", "STOPPING"}
  <2>1. all = p
    BY <1>2, Zenon DEF Lcp!RConfReq, Lcp!State
  <2>2. QED
    BY <2>1, LcpShaped
<1>3. CASE p.lcp.state \notin {"CLOSED", "CLOSING", "STOPPING"}
  <2>1. all = IF r.code = "ConfAck" THEN IF Lcp!State(q) = "ACKRCVD" THEN LcpUp(opened) ELSE Lcp!Become(agreed, "ACKSENT")
              ELSE IF r.code = "ConfNak" THEN naked ELSE s
    BY <1>3, Zenon DEF Lcp!RConfReq, Lcp!State
  <2>2. Idle(ready, c, k)
    <3>1. CASE p.lcp.state = "OPENED"
      <4>1. ready = Lcp!SConfReq(LcpDown(p), FALSE)
        BY <3>1, Zenon DEF Lcp!State
      <4> HIDE DEF ready
      <4>2. QED
        BY <4>1, LcpDownLow, LcpLowOps
    <3>2. CASE p.lcp.state = "STOPPED"
      <4>1. ready = Lcp!Restart(p)
        BY <3>2, Zenon DEF Lcp!State
      <4> HIDE DEF ready
      <4>2. QED
        BY <3>2, <4>1, LcpPreLow, LcpRestartLow
    <3>3. CASE p.lcp.state \notin {"OPENED", "STOPPED"}
      <4>1. ready = p
        BY <3>3, Zenon DEF Lcp!State
      <4> HIDE DEF ready
      <4>2. QED
        BY <3>3, <4>1, LcpPreLow
    <3>4. QED
      BY <3>1, <3>2, <3>3
  <2> HIDE DEF ready, many
  <2>3. Idle(r.peer, c, k) /\ r.code \in {"ConfAck", "ConfNak", "ConfRej"}
    BY <2>2, LcpReqCiLow
  <2> HIDE DEF r
  <2>4. Idle(q, c, k)
    BY <2>3, LcpAnyOps
  <2> HIDE DEF q
  <2>5. Idle(agreed, c, k)
    BY <2>4, LcpAnyCounts
  <2> HIDE DEF agreed
  <2>6. Idle(timed, c, k)
    BY <2>5, LcpLowOps
  <2> HIDE DEF timed
  <2>7. Idle(opened, c, k) /\ opened.lcp.state = "OPENED"
    BY <2>6, LcpLowBecomes DEF FsmStates
  <2> HIDE DEF opened
  <2>8. Sound(LcpUp(opened), c, k)
    BY <2>7, LcpUpSound
  <2>9. Sound(Lcp!Become(agreed, "ACKSENT"), c, k)
    <3>1. Idle(Lcp!Become(agreed, "ACKSENT"), c, k)
      BY <2>5, LcpLowBecomes DEF FsmStates
    <3>2. QED
      BY <3>1, LcpShaped
  <2>10. Idle(s, c, k)
    <3>1. Idle(Lcp!Become(q, "REQSENT"), c, k)
      BY <2>4, LcpLowBecomes DEF FsmStates
    <3>2. QED
      BY <2>4, <3>1
  <2> HIDE DEF s, more
  <2>11. Idle(naked, c, k)
    BY <2>10, LcpAnyCounts
  <2> HIDE DEF naked, all
  <2>12. Sound(all, c, k)
    BY <2>1, <2>8, <2>9, <2>10, <2>11, LcpShaped
  <2>13. QED
    BY <2>12 DEF all
<1>4. QED
  BY <1>1, <1>2, <1>3

\* fsm_rconfack.
LEMMA LcpRConfAckSound ==
  ASSUME NEW p, NEW c, NEW k, Sound(p, c, k), NEW pkt
  PROVE  Sound(Lcp!RConfAck(p, pkt), c, k)
<1> DEFINE q == [p EXCEPT !.lcp.seenAck = TRUE]
           again == [q EXCEPT !.lcp.retransmits = MaxConfReqs]
           timed == Lcp!Untimeout(again)
           opened == Lcp!Become(timed, "OPENED")
           all == Lcp!RConfAck(p, pkt)
<1>1. CASE ~(Lcp!Expected(p, pkt) /\ LcpAckCi(p, pkt.opts))
  <2>1. all = p
    BY <1>1, Zenon DEF Lcp!RConfAck
  <2>2. QED
    BY <2>1, LcpShaped
<1>2. CASE Lcp!Expected(p, pkt) /\ LcpAckCi(p, pkt.opts)
  <2>1. /\ Lcp!State(q) \in {"CLOSED", "STOPPED"} => all = Lcp!SData(q, "TermAck", pkt.id, <<>>)
        /\ Lcp!State(q) = "REQSENT" => all = Lcp!Become(again, "ACKRCVD")
        /\ Lcp!State(q) = "ACKRCVD" => all = Lcp!Restart(Lcp!Untimeout(q))
        /\ Lcp!State(q) = "ACKSENT" => all = LcpUp(opened)
        /\ Lcp!State(q) = "OPENED" => all = Lcp!Restart(LcpDown(q))
        /\ Lcp!State(q) \notin {"CLOSED", "STOPPED", "REQSENT", "ACKRCVD", "ACKSENT", "OPENED"} => all = q
    BY <1>2, Zenon DEF Lcp!RConfAck
  <2>2. Sound(q, c, k)
    BY LcpAnyCounts
  <2> HIDE DEF q, all
  <2>3. Lcp!State(q) = q.lcp.state
    BY DEF Lcp!State
  <2>4. CASE q.lcp.state = "OPENED"
    <3>1. Idle(Lcp!Restart(LcpDown(q)), c, k)
      BY <2>2, LcpDownLow, LcpRestartLow
    <3>2. Sound(all, c, k)
      BY <2>1, <2>3, <2>4, <3>1, LcpShaped
    <3>3. QED
      BY <3>2 DEF all
  <2>5. CASE q.lcp.state # "OPENED"
    <3>1. Idle(q, c, k)
      BY <2>2, <2>5, LcpPreLow
    <3>2. Idle(again, c, k)
      BY <3>1, LcpAnyCounts
    <3> HIDE DEF again
    <3>3. Idle(timed, c, k)
      BY <3>2, LcpLowOps
    <3> HIDE DEF timed
    <3>4. Idle(opened, c, k) /\ opened.lcp.state = "OPENED"
      BY <3>3, LcpLowBecomes DEF FsmStates
    <3> HIDE DEF opened
    <3>5. Sound(LcpUp(opened), c, k)
      BY <3>4, LcpUpSound
    <3>6. Idle(Lcp!SData(q, "TermAck", pkt.id, <<>>), c, k)
      BY <3>1, LcpAnyOps
    <3>7. Idle(Lcp!Become(again, "ACKRCVD"), c, k)
      BY <3>2, LcpLowBecomes DEF FsmStates
    <3>8. Idle(Lcp!Restart(Lcp!Untimeout(q)), c, k)
      BY <3>1, LcpLowOps, LcpRestartLow
    <3>9. Sound(all, c, k)
      BY <2>1, <2>3, <2>5, <3>1, <3>5, <3>6, <3>7, <3>8, LcpShaped
    <3>10. QED
      BY <3>9 DEF all
  <2>6. QED
    BY <2>4, <2>5
<1>3. QED
  BY <1>1, <1>2

\* fsm_rconfnakrej.
LEMMA LcpRConfNakRejSound ==
  ASSUME NEW p, NEW c, NEW k, Sound(p, c, k), NEW pkt
  PROVE  Sound(Lcp!RConfNakRej(p, pkt), c, k)
<1> DEFINE r == IF pkt.code = "ConfNak" THEN LcpNakCi(p, pkt.opts) ELSE LcpRejCi(p, pkt.opts)
           q == [r.peer EXCEPT !.lcp.seenAck = TRUE]
           all == Lcp!RConfNakRej(p, pkt)
<1>1. CASE ~Lcp!Expected(p, pkt) \/ ~r.ok
  <2>1. all = p
    BY <1>1, Zenon DEF Lcp!RConfNakRej
  <2>2. QED
    BY <2>1, LcpShaped
<1>2. CASE Lcp!Expected(p, pkt) /\ r.ok
  <2>1. /\ Lcp!State(q) \in {"CLOSED", "STOPPED"} => all = Lcp!SData(q, "TermAck", pkt.id, <<>>)
        /\ Lcp!State(q) \in {"REQSENT", "ACKSENT"} => all = Lcp!SConfReq(Lcp!Untimeout(q), FALSE)
        /\ Lcp!State(q) = "ACKRCVD" => all = Lcp!Restart(Lcp!Untimeout(q))
        /\ Lcp!State(q) = "OPENED" => all = Lcp!Restart(LcpDown(q))
        /\ Lcp!State(q) \notin {"CLOSED", "STOPPED", "REQSENT", "ACKRCVD", "ACKSENT", "OPENED"} => all = q
    BY <1>2, Zenon DEF Lcp!RConfNakRej
  <2>2. Sound(r.peer, c, k)
    BY LcpNakRejPre
  <2> HIDE DEF r
  <2>3. Sound(q, c, k)
    BY <2>2, LcpAnyCounts
  <2> HIDE DEF q, all
  <2>4. Lcp!State(q) = q.lcp.state
    BY DEF Lcp!State
  <2>5. CASE q.lcp.state = "OPENED"
    <3>1. Idle(Lcp!Restart(LcpDown(q)), c, k)
      BY <2>3, LcpDownLow, LcpRestartLow
    <3>2. Sound(all, c, k)
      BY <2>1, <2>4, <2>5, <3>1, LcpShaped
    <3>3. QED
      BY <3>2 DEF all
  <2>6. CASE q.lcp.state # "OPENED"
    <3>1. Idle(q, c, k)
      BY <2>3, <2>6, LcpPreLow
    <3>2. Idle(Lcp!SData(q, "TermAck", pkt.id, <<>>), c, k)
      BY <3>1, LcpAnyOps
    <3>3. Idle(Lcp!Untimeout(q), c, k)
      BY <3>1, LcpLowOps
    <3>4. Idle(Lcp!SConfReq(Lcp!Untimeout(q), FALSE), c, k) /\ Idle(Lcp!Restart(Lcp!Untimeout(q)), c, k)
      BY <3>3, LcpLowOps, LcpRestartLow
    <3>5. Sound(all, c, k)
      BY <2>1, <2>4, <2>6, <3>1, <3>2, <3>4, LcpShaped
    <3>6. QED
      BY <3>5 DEF all
  <2>7. QED
    BY <2>5, <2>6
<1>3. QED
  BY <1>1, <1>2

\* fsm_rtermreq, fsm_rtermack and fsm_rcoderej.
LEMMA LcpRTermReqSound ==
  ASSUME NEW p, NEW c, NEW k, Sound(p, c, k), NEW pkt
  PROVE  Sound(Lcp!RTermReq(p, pkt), c, k)
<1> DEFINE down == LcpDown(p)
           last == [down EXCEPT !.lcp.retransmits = 0]
           stopping == Lcp!Become(last, "STOPPING")
           q == CASE Lcp!State(p) \in {"ACKRCVD", "ACKSENT"} -> Lcp!Become(p, "REQSENT")
                  [] Lcp!State(p) = "OPENED" -> Lcp!Timeout(stopping)
                  [] OTHER -> p
<1>1. Lcp!RTermReq(p, pkt) = Lcp!SData(q, "TermAck", pkt.id, <<>>)
  BY Zenon DEF Lcp!RTermReq
<1>2. Idle(q, c, k)
  <2>1. CASE p.lcp.state = "OPENED"
    <3>1. q = Lcp!Timeout(stopping)
      BY <2>1, Zenon DEF Lcp!State
    <3> HIDE DEF q
    <3>2. Idle(down, c, k)
      BY LcpDownLow
    <3> HIDE DEF down
    <3>3. Idle(last, c, k)
      BY <3>2, LcpAnyCounts
    <3> HIDE DEF last
    <3>4. Idle(stopping, c, k)
      BY <3>3, LcpLowBecomes DEF FsmStates
    <3> HIDE DEF stopping
    <3>5. QED
      BY <3>1, <3>4, LcpLowOps
  <2>2. CASE p.lcp.state # "OPENED"
    <3>1. q = p \/ q = Lcp!Become(p, "REQSENT")
      BY <2>2, Zenon DEF Lcp!State
    <3> HIDE DEF q
    <3>2. Idle(p, c, k)
      BY <2>2, LcpPreLow
    <3>3. Idle(Lcp!Become(p, "REQSENT"), c, k)
      BY <3>2, LcpLowBecomes DEF FsmStates
    <3>4. QED
      BY <3>1, <3>2, <3>3
  <2>3. QED
    BY <2>1, <2>2
<1> HIDE DEF q
<1>3. Idle(Lcp!SData(q, "TermAck", pkt.id, <<>>), c, k)
  BY <1>2, LcpAnyOps
<1>4. QED
  BY <1>1, <1>3, LcpShaped

\* fsm_rtermack and fsm_rcoderej.
LEMMA LcpRTermAckSound ==
  ASSUME NEW p, NEW c, NEW k, Sound(p, c, k)
  PROVE  Sound(Lcp!RTermAck(p), c, k) /\ Sound(Lcp!RCodeRej(p), c, k)
<1> DEFINE closed == Lcp!Become(Lcp!Untimeout(p), "CLOSED")
           stopped == Lcp!Become(Lcp!Untimeout(p), "STOPPED")
           asking == Lcp!Become(p, "REQSENT")
<1>1. CASE p.lcp.state = "OPENED"
  <2>1. Lcp!RTermAck(p) = Lcp!SConfReq(LcpDown(p), FALSE) /\ Lcp!RCodeRej(p) = p
    BY <1>1, Zenon DEF Lcp!RTermAck, Lcp!RCodeRej, Lcp!State
  <2>2. Idle(Lcp!SConfReq(LcpDown(p), FALSE), c, k)
    BY LcpDownLow, LcpLowOps
  <2>3. QED
    BY <2>1, <2>2, LcpShaped
<1>2. CASE p.lcp.state # "OPENED"
  <2>1. /\ \/ Lcp!RTermAck(p) = LinkTerminated(closed) \/ Lcp!RTermAck(p) = LinkTerminated(stopped)
           \/ Lcp!RTermAck(p) = asking \/ Lcp!RTermAck(p) = p
        /\ Lcp!RCodeRej(p) = asking \/ Lcp!RCodeRej(p) = p
    BY <1>2, Zenon DEF Lcp!RTermAck, Lcp!RCodeRej, Lcp!State
  <2>2. Idle(p, c, k) /\ Idle(Lcp!Untimeout(p), c, k)
    BY <1>2, LcpPreLow, LcpLowOps
  <2>3. Idle(closed, c, k) /\ Idle(stopped, c, k) /\ Idle(asking, c, k)
    BY <2>2, LcpLowBecomes DEF FsmStates
  <2> HIDE DEF closed, stopped, asking
  <2>4. Sound(LinkTerminated(closed), c, k) /\ Sound(LinkTerminated(stopped), c, k)
    BY <2>3, LcpFinishedLow
  <2>5. QED
    BY <2>1, <2>2, <2>3, <2>4, LcpShaped
<1>3. QED
  BY <1>1, <1>2

-----------------------------------------------------------------------------
\* The automaton of IPCP runs on a link that is open and not being closed. It
\* is answered in the phase NETWORK only, and lowered when it carries no IP.
Net(p, c, k, ph) == Sound(p, c, k) /\ p.lcp.state = "OPENED" /\ p.phase = ph /\ ph # "TERMINATE"
Lowered(p, c, k, ph) == Net(p, c, k, ph) /\ ~p.ifUp

\* What the two conditions of IPCP imply.
LEMMA IpcpShaped ==
  ASSUME NEW p, NEW c, NEW k, NEW ph
  PROVE  /\ Net(p, c, k, ph) => Sound(p, c, k) /\ Shaped(p)
         /\ Lowered(p, c, k, ph) => Net(p, c, k, ph) /\ Sound(p, c, k) /\ Shaped(p)
  BY IdleShaped DEF Net, Lowered

\* A change that leaves a peer alike keeps both.
LEMMA AlikeNet ==
  ASSUME NEW p, NEW q, Alike(q, p), NEW c, NEW k, NEW ph
  PROVE  /\ Net(p, c, k, ph) => Net(q, c, k, ph)
         /\ Lowered(p, c, k, ph) => Lowered(q, c, k, ph)
<1>1. Sound(p, c, k) => Sound(q, c, k)
  BY AlikeSound
<1>2. QED
  BY <1>1 DEF Alike, Kept, Net, Lowered

\* What the automaton of IPCP does while the interface is down.
LEMMA IpcpLowOps ==
  ASSUME NEW p, NEW c, NEW k, NEW ph, Lowered(p, c, k, ph), NEW again
  PROVE  /\ Lowered(Ipcp!Untimeout(p), c, k, ph) /\ Lowered(Ipcp!Timeout(p), c, k, ph) /\ Lowered(Ipcp!STermReq(p), c, k, ph)
         /\ Lowered(Ipcp!SConfReq(p, again), c, k, ph) /\ Lowered(Ipcp!Terminate(p), c, k, ph)
<1>1. Shaped(p)
  BY IpcpShaped
<1>2. Alike(Ipcp!Untimeout(p), p) /\ Alike(Ipcp!Timeout(p), p)
  BY <1>1, IpcpTimerAlike, SameOperators
<1>3. Alike(Ipcp!STermReq(p), p) /\ Alike(Ipcp!Terminate(p), p)
  BY <1>1, IpcpSTermReqAlike, IpcpSameSTermReq
<1>4. Alike(Ipcp!SConfReq(p, again), p)
  BY <1>1, IpcpSConfReqAlike, IpcpSameSConfReq
<1>5. QED
  BY <1>2, <1>3, <1>4, AlikeNet

\* ... and the states it may take.
LEMMA IpcpLowBecomes ==
  ASSUME NEW p, NEW c, NEW k, NEW ph, Lowered(p, c, k, ph), NEW s \in FsmStates
  PROVE  Lowered(Ipcp!Become(p, s), c, k, ph) /\ Ipcp!Become(p, s).ipcp.state = s
<1> DEFINE q == IpcpLow!Become(p, s)
<1>1. /\ Shaped(q) /\ q.cfg = p.cfg /\ q.phase = p.phase /\ q.pending = p.pending /\ q.open = p.open
      /\ q.ifUp = p.ifUp /\ q.lcp.state = p.lcp.state /\ q.ipcp.state = s /\ q.out = p.out
      /\ q.go = p.go /\ q.chap = p.chap /\ q.pap = p.pap
  BY IpcpBecomes, IpcpShaped
<1> HIDE DEF q
<1>2. Begun(q) <=> Begun(p)
  BY <1>1 DEF Begun
<1>3. Lowered(q, c, k, ph)
  BY <1>1, <1>2 DEF Lowered, Net, Sound, Loose
<1>4. Ipcp!Become(p, s) = q
  BY Zenon DEF Ipcp!Become, IpcpLow!Become, q
<1>5. QED
  BY <1>1, <1>3, <1>4

\* What IPCP may send from any peer.
LEMMA IpcpAnyOps ==
  ASSUME NEW p, NEW c, NEW k, NEW ph, NEW id, NEW opts, NEW code, code \notin {"Response", "AuthReq", "ProtRej"}
  PROVE  /\ Net(p, c, k, ph) => Net(Ipcp!SData(p, code, id, opts), c, k, ph)
         /\ Lowered(p, c, k, ph) => Lowered(Ipcp!SData(p, code, id, opts), c, k, ph)
<1>1. Shaped(p) => Alike(Ipcp!SData(p, code, id, opts), p)
  BY IpcpSData, SameOperators
<1>2. QED
  BY <1>1, AlikeNet, IpcpShaped

\* The counters IPCP may change on any peer.
LEMMA IpcpAnyCounts ==
  ASSUME NEW p, NEW c, NEW k, NEW ph, NEW n
  PROVE  /\ Net(p, c, k, ph) => /\ Net([p EXCEPT !.ipcp.nakloops = n], c, k, ph)
                                /\ Net([p EXCEPT !.ipcp.retransmits = n], c, k, ph)
                                /\ Net([p EXCEPT !.ipcp.seenAck = n], c, k, ph)
         /\ Lowered(p, c, k, ph) => /\ Lowered([p EXCEPT !.ipcp.nakloops = n], c, k, ph)
                                    /\ Lowered([p EXCEPT !.ipcp.retransmits = n], c, k, ph)
                                    /\ Lowered([p EXCEPT !.ipcp.seenAck = n], c, k, ph)
  BY IpcpCountAlike, AlikeNet, IpcpShaped

\* ipcp_reqci.
LEMMA IpcpReqCiLow ==
  ASSUME NEW p, NEW c, NEW k, NEW ph, Lowered(p, c, k, ph), NEW asked, NEW reject
  PROVE  /\ Lowered(IpcpReqCi(p, asked, reject).peer, c, k, ph)
         /\ IpcpReqCi(p, asked, reject).code \in {"ConfAck", "ConfNak", "ConfRej"}
<1> DEFINE verdict == [o \in DOMAIN asked |-> OptionVerdict(p, o, asked[o])]
           offer == [addr |-> p.cfg.his, dns |-> p.cfg.dns, vj |-> p.cfg.slots]
           firm == [o \in DOMAIN verdict |-> IF reject /\ verdict[o] = ConfNak THEN ConfRej ELSE verdict[o]]
           a == Answer(firm, asked, offer)
           known == Has(asked, "addr") /\ verdict["addr"] # ConfRej
           ho == [addr |-> known, his |-> IF known THEN asked["addr"] ELSE 0,
                  slots |-> IF Has(asked, "vj") /\ verdict["vj"] # ConfRej THEN HisSlots(p, asked) ELSE 0]
           lost == Has(asked, "addr") /\ verdict["addr"] = ConfRej
           demands == a.code # ConfRej /\ ~known /\ p.askAddr /\ ~lost /\ ~reject
           ask == p.askAddr /\ ~lost /\ ~(demands /\ a.code = ConfAck)
           q == [p EXCEPT !.heard = TRUE, !.iho = ho, !.askAddr = @ /\ ~lost /\ ~(demands /\ a.code = ConfAck)]
           mine == [addr |-> p.cfg.his]
           more == IF a.code = ConfAck THEN mine
                   ELSE [o \in DOMAIN a.opts \cup {"addr"} |-> IF o = "addr" THEN p.cfg.his ELSE a.opts[o]]
<1>1. IpcpReqCi(p, asked, reject) = IF ~demands THEN [code |-> a.code, opts |-> a.opts, peer |-> q]
                                    ELSE [code |-> ConfNak, peer |-> q, opts |-> more]
  BY ZenonT(60) DEF IpcpReqCi
<1>2. a.code \in {"ConfAck", "ConfNak", "ConfRej"}
  BY AnswerCode
<1>3. q = [p EXCEPT !.heard = TRUE, !.iho = ho, !.askAddr = ask]
  OBVIOUS
<1> HIDE DEF q, ho, ask, more, a, demands
<1>4. Lowered(q, c, k, ph)
  <2>1. Alike(q, p)
    BY <1>3, IpcpShaped DEF Alike, Kept, Shaped
  <2>2. QED
    BY <2>1, AlikeNet
<1>5. QED
  BY <1>1, <1>2, <1>4 DEF ConfNak

\* ipcp_nakci and ipcp_rejci.
LEMMA IpcpNakRejPre ==
  ASSUME NEW p, NEW c, NEW k, NEW ph, Net(p, c, k, ph), NEW opts
  PROVE  Net(IpcpNakCi(p, opts).peer, c, k, ph) /\ Net(IpcpRejCi(p, opts).peer, c, k, ph)
<1>1. ASSUME NEW go PROVE Net(Adopt(p, go), c, k, ph)
  <2>1. Alike([p EXCEPT !.igo = go], p)
    BY IpcpShaped DEF Alike, Kept, Shaped
  <2>2. QED
    BY <2>1, AlikeNet DEF Adopt
<1>2. \E ok, go : IpcpNakCi(p, opts) = [ok |-> ok, peer |-> Adopt(p, go)]
  BY Zenon DEF IpcpNakCi
<1>3. \E ok, go : IpcpRejCi(p, opts) = [ok |-> ok, peer |-> Adopt(p, go)]
  BY Zenon DEF IpcpRejCi
<1>4. QED
  BY <1>1, <1>2, <1>3

\* ipcp_down takes the interface down.
LEMMA IpcpDownLow ==
  ASSUME NEW p, NEW c, NEW k, NEW ph, Net(p, c, k, ph)
  PROVE  Lowered(IpcpDown(p), c, k, ph)
<1> DEFINE q == IpcpDown(p)
<1>1. p.ifUp => p.open
  BY DEF Net, Sound, Loose
<1>2. /\ Shaped(q) /\ q.cfg = p.cfg /\ q.phase = p.phase /\ q.pending = p.pending /\ q.open = p.open
      /\ ~q.ifUp /\ q.lcp = p.lcp /\ q.ipcp = p.ipcp /\ q.out = p.out
      /\ q.go = p.go /\ q.chap = p.chap /\ q.pap = p.pap
  BY <1>1, IpcpDownIs, IpcpShaped
<1> HIDE DEF q
<1>3. Begun(q) <=> Begun(p)
  BY <1>2 DEF Begun
<1>4. QED
  BY <1>2, <1>3 DEF Lowered, Net, Sound, Loose, q

\* np_finished.
LEMMA IpcpFinishedLow ==
  ASSUME NEW p, NEW c, NEW k, NEW ph, Lowered(p, c, k, ph)
  PROVE  Sound(IpcpFinished(p), c, k)
<1> DEFINE q == [p EXCEPT !.npOpen = @ - 1]
<1>1. Alike(q, p)
  BY IpcpShaped DEF Alike, Kept, Shaped
<1>2. IpcpFinished(p) = LcpClose(q) \/ IpcpFinished(p) = q
  BY DEF IpcpFinished
<1> HIDE DEF q
<1>3. Sound(q, c, k)
  BY <1>1, AlikeSound, IpcpShaped
<1>4. QED
  BY <1>2, <1>3, LcpCloseIdle, LcpShaped

\* ipcp_up: the interface comes up in the phase NETWORK, for an application
\* that has the session, or IPCP is closed again.
LEMMA IpcpGoesUpSound ==
  ASSUME NEW p, NEW c, NEW k, NEW ph, ph = "NETWORK", Lowered(p, c, k, ph), p.ipcp.state = "OPENED"
  PROVE  Sound(IpcpGoesUp(p), c, k)
<1> DEFINE his == IF p.iho.addr THEN p.iho.his ELSE p.cfg.his
           q == [p EXCEPT !.npUp = @ + 1, !.iho.his = his]
           addrs == <<p.igo.our, his>>
           u == [q EXCEPT !.addrs = addrs, !.vj = p.iho.slots, !.ifUp = TRUE,
                          !.errCode = "none", !.told = "up", !.route = TRUE]
<1>1. IpcpGoesUp(p) = IF his = 0 \/ p.igo.our = 0 \/ ~p.open THEN IpcpLow!Close(q) ELSE u
  BY DEF IpcpGoesUp, IpcpUp
<1> HIDE DEF his, addrs
<1>2. Alike(q, p)
  BY IpcpShaped DEF Alike, Kept, Shaped
<1> HIDE DEF q
<1>3. Lowered(q, c, k, ph) /\ q.ipcp.state = "OPENED" /\ q.open = p.open
  <2>1. Lowered(q, c, k, ph)
    BY <1>2, AlikeNet
  <2>2. QED
    BY <1>2, <2>1 DEF Alike, Kept
<1>4. Sound(IpcpLow!Close(q), c, k)
  <2> DEFINE d == IpcpDown(q)
             t == IpcpLow!Terminate(d)
  <2>1. IpcpLow!Close(q) = IpcpLow!Become(t, "CLOSING")
    BY <1>3, Zenon DEF IpcpLow!Close, IpcpLow!State
  <2>2. Lowered(d, c, k, ph)
    BY <1>3, IpcpDownLow, IpcpShaped
  <2> HIDE DEF d
  <2>3. Lowered(t, c, k, ph)
    BY <2>2, IpcpSTermReqAlike, AlikeNet, IpcpShaped
  <2> HIDE DEF t
  <2>4. IpcpLow!Become(t, "CLOSING") = Ipcp!Become(t, "CLOSING")
    BY Zenon DEF Ipcp!Become, IpcpLow!Become
  <2>5. Lowered(Ipcp!Become(t, "CLOSING"), c, k, ph)
    BY <2>3, IpcpLowBecomes DEF FsmStates
  <2>6. QED
    BY <2>1, <2>4, <2>5, IpcpShaped
<1>5. ASSUME p.open PROVE Sound(u, c, k)
  <2>1. /\ Shaped(u) /\ u.cfg = q.cfg /\ u.phase = q.phase /\ u.pending = q.pending /\ u.open = q.open
        /\ u.lcp = q.lcp /\ u.ipcp = q.ipcp /\ u.out = q.out /\ u.go = q.go /\ u.chap = q.chap /\ u.pap = q.pap
    BY <1>3, IpcpShaped DEF Shaped
  <2> HIDE DEF u
  <2>2. Begun(u) <=> Begun(q)
    BY <2>1 DEF Begun
  <2>3. QED
    BY <1>3, <1>5, <2>1, <2>2 DEF Lowered, Net, Sound, Loose
<1> HIDE DEF u
<1>6. CASE p.open
  BY <1>1, <1>4, <1>5, <1>6
<1>7. CASE ~p.open
  BY <1>1, <1>4, <1>7
<1>8. QED
  BY <1>6, <1>7

\* The interface is down while IPCP is not open.
LEMMA IpcpPreLow ==
  ASSUME NEW p, NEW c, NEW k, NEW ph, Net(p, c, k, ph), p.ipcp.state # "OPENED"
  PROVE  Lowered(p, c, k, ph)
  BY DEF Net, Lowered, Sound, Loose

\* A new round of requests, after whatever was open has been taken down.
LEMMA IpcpRestartLow ==
  ASSUME NEW p, NEW c, NEW k, NEW ph, Lowered(p, c, k, ph)
  PROVE  Lowered(Ipcp!Restart(p), c, k, ph)
<1> DEFINE q == Ipcp!SConfReq(p, FALSE)
<1>1. Lowered(q, c, k, ph)
  BY IpcpLowOps
<1>2. Ipcp!Restart(p) = Ipcp!Become(q, "REQSENT")
  BY DEF Ipcp!Restart
<1> HIDE DEF q
<1>3. QED
  BY <1>1, <1>2, IpcpLowBecomes DEF FsmStates

\* fsm_rconfreq.
LEMMA IpcpRConfReqSound ==
  ASSUME NEW p, NEW c, NEW k, NEW ph, ph = "NETWORK", Net(p, c, k, ph), NEW pkt
  PROVE  Sound(Ipcp!RConfReq(p, pkt), c, k)
<1> DEFINE ready == CASE Ipcp!State(p) = "OPENED" -> Ipcp!SConfReq(IpcpDown(p), FALSE)
                      [] Ipcp!State(p) = "STOPPED" -> Ipcp!Restart(p)
                      [] OTHER -> p
           many == ready.ipcp.nakloops >= MaxNakLoops
           r == IpcpReqCi(ready, pkt.opts, many)
           q == Ipcp!SData(r.peer, r.code, pkt.id, r.opts)
           agreed == [q EXCEPT !.ipcp.nakloops = 0]
           timed == Ipcp!Untimeout(agreed)
           opened == Ipcp!Become(timed, "OPENED")
           s == IF q.ipcp.state = "ACKRCVD" THEN q ELSE Ipcp!Become(q, "REQSENT")
           more == s.ipcp.nakloops + 1
           naked == [s EXCEPT !.ipcp.nakloops = more]
           all == Ipcp!RConfReq(p, pkt)
<1>1. CASE p.ipcp.state = "CLOSED"
  <2>1. all = Ipcp!SData(p, "TermAck", pkt.id, <<>>)
    BY <1>1, Zenon DEF Ipcp!RConfReq, Ipcp!State
  <2>2. QED
    BY <2>1, IpcpAnyOps, IpcpShaped
<1>2. CASE p.ipcp.state \in {"CLOSING", "STOPPING"}
  <2>1. all = p
    BY <1>2, Zenon DEF Ipcp!RConfReq, Ipcp!State
  <2>2. QED
    BY <2>1, IpcpShaped
<1>3. CASE p.ipcp.state \notin {"CLOSED", "CLOSING", "STOPPING"}
  <2>1. all = IF r.code = "ConfAck" THEN IF Ipcp!State(q) = "ACKRCVD" THEN IpcpGoesUp(opened) ELSE Ipcp!Become(agreed, "ACKSENT")
              ELSE IF r.code = "ConfNak" THEN naked ELSE s
    BY <1>3, Zenon DEF Ipcp!RConfReq, Ipcp!State
  <2>2. Lowered(ready, c, k, ph)
    <3>1. CASE p.ipcp.state = "OPENED"
      <4>1. ready = Ipcp!SConfReq(IpcpDown(p), FALSE)
        BY <3>1, Zenon DEF Ipcp!State
      <4> HIDE DEF ready
      <4>2. QED
        BY <4>1, IpcpDownLow, IpcpLowOps
    <3>2. CASE p.ipcp.state = "STOPPED"
      <4>1. ready = Ipcp!Restart(p)
        BY <3>2, Zenon DEF Ipcp!State
      <4> HIDE DEF ready
      <4>2. QED
        BY <3>2, <4>1, IpcpPreLow, IpcpRestartLow
    <3>3. CASE p.ipcp.state \notin {"OPENED", "STOPPED"}
      <4>1. ready = p
        BY <3>3, Zenon DEF Ipcp!State
      <4> HIDE DEF ready
      <4>2. QED
        BY <3>3, <4>1, IpcpPreLow
    <3>4. QED
      BY <3>1, <3>2, <3>3
  <2> HIDE DEF ready, many
  <2>3. Lowered(r.peer, c, k, ph) /\ r.code \in {"ConfAck", "ConfNak", "ConfRej"}
    BY <2>2, IpcpReqCiLow
  <2> HIDE DEF r
  <2>4. Lowered(q, c, k, ph)
    BY <2>3, IpcpAnyOps
  <2> HIDE DEF q
  <2>5. Lowered(agreed, c, k, ph)
    BY <2>4, IpcpAnyCounts
  <2> HIDE DEF agreed
  <2>6. Lowered(timed, c, k, ph)
    BY <2>5, IpcpLowOps
  <2> HIDE DEF timed
  <2>7. Lowered(opened, c, k, ph) /\ opened.ipcp.state = "OPENED"
    BY <2>6, IpcpLowBecomes DEF FsmStates
  <2> HIDE DEF opened
  <2>8. Sound(IpcpGoesUp(opened), c, k)
    BY <2>7, IpcpGoesUpSound
  <2>9. Sound(Ipcp!Become(agreed, "ACKSENT"), c, k)
    <3>1. Lowered(Ipcp!Become(agreed, "ACKSENT"), c, k, ph)
      BY <2>5, IpcpLowBecomes DEF FsmStates
    <3>2. QED
      BY <3>1, IpcpShaped
  <2>10. Lowered(s, c, k, ph)
    <3>1. Lowered(Ipcp!Become(q, "REQSENT"), c, k, ph)
      BY <2>4, IpcpLowBecomes DEF FsmStates
    <3>2. QED
      BY <2>4, <3>1
  <2> HIDE DEF s, more
  <2>11. Lowered(naked, c, k, ph)
    BY <2>10, IpcpAnyCounts
  <2> HIDE DEF naked, all
  <2>12. Sound(all, c, k)
    BY <2>1, <2>8, <2>9, <2>10, <2>11, IpcpShaped
  <2>13. QED
    BY <2>12 DEF all
<1>4. QED
  BY <1>1, <1>2, <1>3

\* fsm_rconfack.
LEMMA IpcpRConfAckSound ==
  ASSUME NEW p, NEW c, NEW k, NEW ph, ph = "NETWORK", Net(p, c, k, ph), NEW pkt
  PROVE  Sound(Ipcp!RConfAck(p, pkt), c, k)
<1> DEFINE q == [p EXCEPT !.ipcp.seenAck = TRUE]
           again == [q EXCEPT !.ipcp.retransmits = MaxConfReqs]
           timed == Ipcp!Untimeout(again)
           opened == Ipcp!Become(timed, "OPENED")
           all == Ipcp!RConfAck(p, pkt)
<1>1. CASE ~(Ipcp!Expected(p, pkt) /\ IpcpAckCi(p, pkt.opts))
  <2>1. all = p
    BY <1>1, Zenon DEF Ipcp!RConfAck
  <2>2. QED
    BY <2>1, IpcpShaped
<1>2. CASE Ipcp!Expected(p, pkt) /\ IpcpAckCi(p, pkt.opts)
  <2>1. /\ Ipcp!State(q) \in {"CLOSED", "STOPPED"} => all = Ipcp!SData(q, "TermAck", pkt.id, <<>>)
        /\ Ipcp!State(q) = "REQSENT" => all = Ipcp!Become(again, "ACKRCVD")
        /\ Ipcp!State(q) = "ACKRCVD" => all = Ipcp!Restart(Ipcp!Untimeout(q))
        /\ Ipcp!State(q) = "ACKSENT" => all = IpcpGoesUp(opened)
        /\ Ipcp!State(q) = "OPENED" => all = Ipcp!Restart(IpcpDown(q))
        /\ Ipcp!State(q) \notin {"CLOSED", "STOPPED", "REQSENT", "ACKRCVD", "ACKSENT", "OPENED"} => all = q
    BY <1>2, Zenon DEF Ipcp!RConfAck
  <2>2. Net(q, c, k, ph)
    BY IpcpAnyCounts
  <2> HIDE DEF q, all
  <2>3. Ipcp!State(q) = q.ipcp.state
    BY DEF Ipcp!State
  <2>4. CASE q.ipcp.state = "OPENED"
    <3>1. Lowered(Ipcp!Restart(IpcpDown(q)), c, k, ph)
      BY <2>2, IpcpDownLow, IpcpRestartLow
    <3>2. Sound(all, c, k)
      BY <2>1, <2>3, <2>4, <3>1, IpcpShaped
    <3>3. QED
      BY <3>2 DEF all
  <2>5. CASE q.ipcp.state # "OPENED"
    <3>1. Lowered(q, c, k, ph)
      BY <2>2, <2>5, IpcpPreLow
    <3>2. Lowered(again, c, k, ph)
      BY <3>1, IpcpAnyCounts
    <3> HIDE DEF again
    <3>3. Lowered(timed, c, k, ph)
      BY <3>2, IpcpLowOps
    <3> HIDE DEF timed
    <3>4. Lowered(opened, c, k, ph) /\ opened.ipcp.state = "OPENED"
      BY <3>3, IpcpLowBecomes DEF FsmStates
    <3> HIDE DEF opened
    <3>5. Sound(IpcpGoesUp(opened), c, k)
      BY <3>4, IpcpGoesUpSound
    <3>6. Lowered(Ipcp!SData(q, "TermAck", pkt.id, <<>>), c, k, ph)
      BY <3>1, IpcpAnyOps
    <3>7. Lowered(Ipcp!Become(again, "ACKRCVD"), c, k, ph)
      BY <3>2, IpcpLowBecomes DEF FsmStates
    <3>8. Lowered(Ipcp!Restart(Ipcp!Untimeout(q)), c, k, ph)
      BY <3>1, IpcpLowOps, IpcpRestartLow
    <3>9. Sound(all, c, k)
      BY <2>1, <2>3, <2>5, <3>1, <3>5, <3>6, <3>7, <3>8, IpcpShaped
    <3>10. QED
      BY <3>9 DEF all
  <2>6. QED
    BY <2>4, <2>5
<1>3. QED
  BY <1>1, <1>2

\* fsm_rconfnakrej.
LEMMA IpcpRConfNakRejSound ==
  ASSUME NEW p, NEW c, NEW k, NEW ph, Net(p, c, k, ph), NEW pkt
  PROVE  Sound(Ipcp!RConfNakRej(p, pkt), c, k)
<1> DEFINE r == IF pkt.code = "ConfNak" THEN IpcpNakCi(p, pkt.opts) ELSE IpcpRejCi(p, pkt.opts)
           q == [r.peer EXCEPT !.ipcp.seenAck = TRUE]
           all == Ipcp!RConfNakRej(p, pkt)
<1>1. CASE ~Ipcp!Expected(p, pkt) \/ ~r.ok
  <2>1. all = p
    BY <1>1, Zenon DEF Ipcp!RConfNakRej
  <2>2. QED
    BY <2>1, IpcpShaped
<1>2. CASE Ipcp!Expected(p, pkt) /\ r.ok
  <2>1. /\ Ipcp!State(q) \in {"CLOSED", "STOPPED"} => all = Ipcp!SData(q, "TermAck", pkt.id, <<>>)
        /\ Ipcp!State(q) \in {"REQSENT", "ACKSENT"} => all = Ipcp!SConfReq(Ipcp!Untimeout(q), FALSE)
        /\ Ipcp!State(q) = "ACKRCVD" => all = Ipcp!Restart(Ipcp!Untimeout(q))
        /\ Ipcp!State(q) = "OPENED" => all = Ipcp!Restart(IpcpDown(q))
        /\ Ipcp!State(q) \notin {"CLOSED", "STOPPED", "REQSENT", "ACKRCVD", "ACKSENT", "OPENED"} => all = q
    BY <1>2, Zenon DEF Ipcp!RConfNakRej
  <2>2. Net(r.peer, c, k, ph)
    BY IpcpNakRejPre
  <2> HIDE DEF r
  <2>3. Net(q, c, k, ph)
    BY <2>2, IpcpAnyCounts
  <2> HIDE DEF q, all
  <2>4. Ipcp!State(q) = q.ipcp.state
    BY DEF Ipcp!State
  <2>5. CASE q.ipcp.state = "OPENED"
    <3>1. Lowered(Ipcp!Restart(IpcpDown(q)), c, k, ph)
      BY <2>3, IpcpDownLow, IpcpRestartLow
    <3>2. Sound(all, c, k)
      BY <2>1, <2>4, <2>5, <3>1, IpcpShaped
    <3>3. QED
      BY <3>2 DEF all
  <2>6. CASE q.ipcp.state # "OPENED"
    <3>1. Lowered(q, c, k, ph)
      BY <2>3, <2>6, IpcpPreLow
    <3>2. Lowered(Ipcp!SData(q, "TermAck", pkt.id, <<>>), c, k, ph)
      BY <3>1, IpcpAnyOps
    <3>3. Lowered(Ipcp!Untimeout(q), c, k, ph)
      BY <3>1, IpcpLowOps
    <3>4. Lowered(Ipcp!SConfReq(Ipcp!Untimeout(q), FALSE), c, k, ph) /\ Lowered(Ipcp!Restart(Ipcp!Untimeout(q)), c, k, ph)
      BY <3>3, IpcpLowOps, IpcpRestartLow
    <3>5. Sound(all, c, k)
      BY <2>1, <2>4, <2>6, <3>1, <3>2, <3>4, IpcpShaped
    <3>6. QED
      BY <3>5 DEF all
  <2>7. QED
    BY <2>5, <2>6
<1>3. QED
  BY <1>1, <1>2

\* fsm_rtermreq, fsm_rtermack and fsm_rcoderej.
LEMMA IpcpRTermReqSound ==
  ASSUME NEW p, NEW c, NEW k, NEW ph, Net(p, c, k, ph), NEW pkt
  PROVE  Sound(Ipcp!RTermReq(p, pkt), c, k)
<1> DEFINE down == IpcpDown(p)
           last == [down EXCEPT !.ipcp.retransmits = 0]
           stopping == Ipcp!Become(last, "STOPPING")
           q == CASE Ipcp!State(p) \in {"ACKRCVD", "ACKSENT"} -> Ipcp!Become(p, "REQSENT")
                  [] Ipcp!State(p) = "OPENED" -> Ipcp!Timeout(stopping)
                  [] OTHER -> p
<1>1. Ipcp!RTermReq(p, pkt) = Ipcp!SData(q, "TermAck", pkt.id, <<>>)
  BY Zenon DEF Ipcp!RTermReq
<1>2. Lowered(q, c, k, ph)
  <2>1. CASE p.ipcp.state = "OPENED"
    <3>1. q = Ipcp!Timeout(stopping)
      BY <2>1, Zenon DEF Ipcp!State
    <3> HIDE DEF q
    <3>2. Lowered(down, c, k, ph)
      BY IpcpDownLow
    <3> HIDE DEF down
    <3>3. Lowered(last, c, k, ph)
      BY <3>2, IpcpAnyCounts
    <3> HIDE DEF last
    <3>4. Lowered(stopping, c, k, ph)
      BY <3>3, IpcpLowBecomes DEF FsmStates
    <3> HIDE DEF stopping
    <3>5. QED
      BY <3>1, <3>4, IpcpLowOps
  <2>2. CASE p.ipcp.state # "OPENED"
    <3>1. q = p \/ q = Ipcp!Become(p, "REQSENT")
      BY <2>2, Zenon DEF Ipcp!State
    <3> HIDE DEF q
    <3>2. Lowered(p, c, k, ph)
      BY <2>2, IpcpPreLow
    <3>3. Lowered(Ipcp!Become(p, "REQSENT"), c, k, ph)
      BY <3>2, IpcpLowBecomes DEF FsmStates
    <3>4. QED
      BY <3>1, <3>2, <3>3
  <2>3. QED
    BY <2>1, <2>2
<1> HIDE DEF q
<1>3. Lowered(Ipcp!SData(q, "TermAck", pkt.id, <<>>), c, k, ph)
  BY <1>2, IpcpAnyOps
<1>4. QED
  BY <1>1, <1>3, IpcpShaped

\* fsm_rtermack and fsm_rcoderej.
LEMMA IpcpRTermAckSound ==
  ASSUME NEW p, NEW c, NEW k, NEW ph, Net(p, c, k, ph)
  PROVE  Sound(Ipcp!RTermAck(p), c, k) /\ Sound(Ipcp!RCodeRej(p), c, k)
<1> DEFINE closed == Ipcp!Become(Ipcp!Untimeout(p), "CLOSED")
           stopped == Ipcp!Become(Ipcp!Untimeout(p), "STOPPED")
           asking == Ipcp!Become(p, "REQSENT")
<1>1. CASE p.ipcp.state = "OPENED"
  <2>1. Ipcp!RTermAck(p) = Ipcp!SConfReq(IpcpDown(p), FALSE) /\ Ipcp!RCodeRej(p) = p
    BY <1>1, Zenon DEF Ipcp!RTermAck, Ipcp!RCodeRej, Ipcp!State
  <2>2. Lowered(Ipcp!SConfReq(IpcpDown(p), FALSE), c, k, ph)
    BY IpcpDownLow, IpcpLowOps
  <2>3. QED
    BY <2>1, <2>2, IpcpShaped
<1>2. CASE p.ipcp.state # "OPENED"
  <2>1. /\ \/ Ipcp!RTermAck(p) = IpcpFinished(closed) \/ Ipcp!RTermAck(p) = IpcpFinished(stopped)
           \/ Ipcp!RTermAck(p) = asking \/ Ipcp!RTermAck(p) = p
        /\ Ipcp!RCodeRej(p) = asking \/ Ipcp!RCodeRej(p) = p
    BY <1>2, Zenon DEF Ipcp!RTermAck, Ipcp!RCodeRej, Ipcp!State
  <2>2. Lowered(p, c, k, ph) /\ Lowered(Ipcp!Untimeout(p), c, k, ph)
    BY <1>2, IpcpPreLow, IpcpLowOps
  <2>3. Lowered(closed, c, k, ph) /\ Lowered(stopped, c, k, ph) /\ Lowered(asking, c, k, ph)
    BY <2>2, IpcpLowBecomes DEF FsmStates
  <2> HIDE DEF closed, stopped, asking
  <2>4. Sound(IpcpFinished(closed), c, k) /\ Sound(IpcpFinished(stopped), c, k)
    BY <2>3, IpcpFinishedLow
  <2>5. QED
    BY <2>1, <2>2, <2>3, <2>4, IpcpShaped
<1>3. QED
  BY <1>1, <1>2

\* fsm_input of IPCP, for a packet of the phase NETWORK or of the end of the link.
LEMMA IpcpInputSound ==
  ASSUME NEW p, NEW c, NEW k, Sound(p, c, k), p.phase \in {"NETWORK", "TERMINATE"}, NEW pkt
  PROVE  Sound(Ipcp!Input(p, pkt), c, k)
<1> DEFINE all == Ipcp!Input(p, pkt)
           rej == Ipcp!SData(Ipcp!NextId(p), "CodeRej", Ipcp!NextId(p).ipcp.id, <<>>)
<1>1. CASE p.ipcp.state \in Asleep
  <2>1. all = p
    BY <1>1, Zenon DEF Ipcp!Input, Ipcp!State, Asleep
  <2>2. QED
    BY <2>1
<1>2. CASE p.ipcp.state \notin Asleep
  <2>1. \/ all = Ipcp!RConfReq(p, pkt) \/ all = Ipcp!RConfAck(p, pkt) \/ all = Ipcp!RConfNakRej(p, pkt)
        \/ all = Ipcp!RTermReq(p, pkt) \/ all = Ipcp!RTermAck(p) \/ all = Ipcp!RCodeRej(p) \/ all = rej
    <3>1. ~NotHandled(p, pkt).ok
      BY DEF NotHandled
    <3>2. QED
      BY <1>2, <3>1, Zenon DEF Ipcp!Input, Ipcp!State, Asleep
  <2>2. Net(p, c, k, "NETWORK")
    BY <1>2 DEF Net, Sound, Loose
  <2>3. Sound(rej, c, k)
    <3> DEFINE q == Ipcp!NextId(p)
    <3>1. Alike(q, p)
      BY IpcpTimerAlike, SameOperators, IdleShaped
    <3>2. Net(q, c, k, "NETWORK")
      BY <2>2, <3>1, AlikeNet
    <3> HIDE DEF q
    <3>3. Net(Ipcp!SData(q, "CodeRej", q.ipcp.id, <<>>), c, k, "NETWORK")
      BY <3>2, IpcpAnyOps
    <3>4. QED
      BY <3>3, IpcpShaped DEF q
  <2> HIDE DEF all, rej
  <2>4. Sound(all, c, k)
    BY <2>1, <2>2, <2>3, IpcpRConfReqSound, IpcpRConfAckSound, IpcpRConfNakRejSound, IpcpRTermReqSound, IpcpRTermAckSound
  <2>5. QED
    BY <2>4 DEF all
<1>3. QED
  BY <1>1, <1>2

\* fsm_timeout of IPCP.
LEMMA IpcpTimeoutSound ==
  ASSUME NEW p, NEW c, NEW k, Sound(p, c, k)
  PROVE  Sound(Ipcp!FsmTimeout(p), c, k)
<1> DEFINE q == Ipcp!Untimeout(p)
           closed == Ipcp!Become(q, "CLOSED")
           stopped == Ipcp!Become(q, "STOPPED")
           sent == Ipcp!SConfReq(q, TRUE)
           all == Ipcp!FsmTimeout(p)
           ph == q.phase
<1>1. Sound(q, c, k)
  <2>1. Alike(q, p)
    BY IpcpTimerAlike, SameOperators, IdleShaped
  <2>2. QED
    BY <2>1, AlikeSound
<1>2. CASE q.ipcp.state \in {"CLOSING", "STOPPING", "REQSENT", "ACKRCVD", "ACKSENT"}
  <2>1. \/ all = IpcpFinished(closed) \/ all = IpcpFinished(stopped) \/ all = Ipcp!STermReq(q)
        \/ all = Ipcp!Become(sent, "REQSENT") \/ all = sent
    BY <1>2, Zenon DEF Ipcp!FsmTimeout, Ipcp!State
  <2> HIDE DEF q, all
  <2>2. Lowered(q, c, k, ph)
    BY <1>1, <1>2 DEF Lowered, Net, Sound, Loose, Asleep
  <2> HIDE DEF ph
  <2>3. Lowered(closed, c, k, ph) /\ Lowered(stopped, c, k, ph)
    BY <2>2, IpcpLowBecomes DEF FsmStates
  <2>4. Lowered(sent, c, k, ph) /\ Lowered(Ipcp!STermReq(q), c, k, ph)
    BY <2>2, IpcpLowOps
  <2> HIDE DEF closed, stopped, sent
  <2>5. Lowered(Ipcp!Become(sent, "REQSENT"), c, k, ph)
    BY <2>4, IpcpLowBecomes DEF FsmStates
  <2>6. Sound(IpcpFinished(closed), c, k) /\ Sound(IpcpFinished(stopped), c, k)
    BY <2>3, IpcpFinishedLow
  <2>7. Sound(all, c, k)
    BY <2>1, <2>4, <2>5, <2>6, IpcpShaped
  <2>8. QED
    BY <2>7 DEF all
<1>3. CASE q.ipcp.state \notin {"CLOSING", "STOPPING", "REQSENT", "ACKRCVD", "ACKSENT"}
  <2>1. all = q
    BY <1>3, Zenon DEF Ipcp!FsmTimeout, Ipcp!State
  <2>2. QED
    BY <1>1, <2>1
<1>4. QED
  BY <1>2, <1>3

\* fsm_lowerdown of IPCP, which the other side has rejected.
LEMMA IpcpLowerDownSound ==
  ASSUME NEW p, NEW c, NEW k, Sound(p, c, k)
  PROVE  Sound(Ipcp!LowerDown(p), c, k)
<1>1. ASSUME NEW q, Sound(q, c, k), ~q.ifUp, NEW s \in Asleep PROVE Sound(Ipcp!Become(q, s), c, k)
  <2> DEFINE r == IpcpLow!Become(q, s)
  <2>1. /\ Shaped(r) /\ r.cfg = q.cfg /\ r.phase = q.phase /\ r.pending = q.pending /\ r.open = q.open
        /\ r.ifUp = q.ifUp /\ r.lcp.state = q.lcp.state /\ r.ipcp.state = s /\ r.out = q.out
        /\ r.go = q.go /\ r.chap = q.chap /\ r.pap = q.pap
    BY <1>1, IpcpBecomes, IdleShaped
  <2> HIDE DEF r
  <2>2. Begun(r) <=> Begun(q)
    BY <2>1 DEF Begun
  <2>3. Sound(r, c, k)
    BY <1>1, <2>1, <2>2 DEF Sound, Loose, Asleep, FsmStates
  <2>4. Ipcp!Become(q, s) = r
    BY Zenon DEF Ipcp!Become, IpcpLow!Become, r
  <2>5. QED
    BY <2>3, <2>4
<1>2. ASSUME NEW q, Sound(q, c, k) PROVE Sound(Ipcp!Untimeout(q), c, k)
  <2>1. Alike(Ipcp!Untimeout(q), q)
    BY <1>2, IpcpTimerAlike, SameOperators, IdleShaped
  <2>2. QED
    BY <1>2, <2>1, AlikeSound
<1>3. CASE p.ipcp.state = "OPENED"
  <2> DEFINE ph == p.phase
             d == IpcpDown(p)
  <2>1. Ipcp!LowerDown(p) = Ipcp!Become(d, "STARTING")
    BY <1>3, Zenon DEF Ipcp!LowerDown, Ipcp!State
  <2>2. Net(p, c, k, ph)
    BY <1>3 DEF Net, Sound, Loose, Asleep
  <2>3. Sound(d, c, k) /\ ~d.ifUp
    BY <2>2, IpcpDownLow, IpcpShaped DEF Lowered
  <2> HIDE DEF d
  <2>4. QED
    BY <1>1, <2>1, <2>3 DEF Asleep
<1>4. CASE p.ipcp.state # "OPENED"
  <2>1. ~p.ifUp
    BY <1>4 DEF Sound, Loose
  <2>2. \E s \in Asleep : \/ Ipcp!LowerDown(p) = p \/ Ipcp!LowerDown(p) = Ipcp!Become(p, s)
                          \/ Ipcp!LowerDown(p) = Ipcp!Untimeout(Ipcp!Become(p, s))
    <3>1. \/ Ipcp!LowerDown(p) = p
          \/ Ipcp!LowerDown(p) = Ipcp!Become(p, "INITIAL") \/ Ipcp!LowerDown(p) = Ipcp!Become(p, "STARTING")
          \/ Ipcp!LowerDown(p) = Ipcp!Untimeout(Ipcp!Become(p, "INITIAL"))
          \/ Ipcp!LowerDown(p) = Ipcp!Untimeout(Ipcp!Become(p, "STARTING"))
      BY <1>4, Zenon DEF Ipcp!LowerDown, Ipcp!State
    <3>2. QED
      BY <3>1 DEF Asleep
  <2>3. QED
    BY <1>1, <1>2, <2>1, <2>2
<1>5. QED
  BY <1>3, <1>4

-----------------------------------------------------------------------------
\* The packets of LCP that fsm.c does not know.
LEMMA LcpExtCodeSound ==
  ASSUME NEW p, NEW c, NEW k, Sound(p, c, k), NEW pkt, Proper(pkt, k)
  PROVE  Sound(LcpExtCode(p, pkt).peer, c, k)
<1>1. CASE pkt.code = "ProtRej"
  <2>1. LcpExtCode(p, pkt).peer = LcpReceivedProtRej(p, pkt.opts)
    <3>1. \E ok : LcpExtCode(p, pkt) = [ok |-> ok, peer |-> LcpReceivedProtRej(p, pkt.opts)]
      BY <1>1, Zenon DEF LcpExtCode
    <3>2. QED
      BY <3>1
  <2>2. pkt.opts \in Protocols
    BY <1>1 DEF Proper
  <2>3. CASE p.lcp.state # "OPENED"
    BY <2>1, <2>3 DEF LcpReceivedProtRej
  <2>4. CASE p.lcp.state = "OPENED"
    <3>1. CASE pkt.opts = "ipcp"
      <4>1. LcpReceivedProtRej(p, pkt.opts) = Ipcp!LowerDown(p)
        BY <2>4, <3>1, Zenon DEF LcpReceivedProtRej
      <4>2. QED
        BY <2>1, <4>1, IpcpLowerDownSound
    <3>2. CASE pkt.opts = "chap"
      <4>1. LcpReceivedProtRej(p, pkt.opts) = Auth!ChapProtocolReject(p)
        BY <2>4, <3>2, Zenon DEF LcpReceivedProtRej
      <4>2. QED
        BY <2>1, <4>1, ChapRejectedSound
    <3>3. CASE pkt.opts = "pap"
      <4>1. LcpReceivedProtRej(p, pkt.opts) = Auth!PapProtocolReject(p)
        BY <2>4, <3>3, Zenon DEF LcpReceivedProtRej
      <4>2. QED
        BY <2>1, <4>1, PapRejectedSound
    <3>4. CASE pkt.opts = "lcp"
      <4> DEFINE d == LcpDown(p)
      <4>1. LcpReceivedProtRej(p, pkt.opts) = LcpLow!ProtReject(p)
        BY <2>4, <3>4, Zenon DEF LcpReceivedProtRej
      <4>2. LcpLow!ProtReject(p) = LcpLow!Become(LcpLow!Terminate(d), "STOPPING")
        BY <2>4, Zenon DEF LcpLow!ProtReject, LcpLow!State
      <4>3. Idle(d, c, k)
        BY LcpDownLow
      <4> HIDE DEF d
      <4>4. Idle(LcpLow!Become(LcpLow!Terminate(d), "STOPPING"), c, k)
        BY <4>3, LcpAlikeIdle, IdleLcpBecomes DEF FsmStates
      <4>5. QED
        BY <2>1, <4>1, <4>2, <4>4, LcpShaped
    <3>5. QED
      BY <2>2, <3>1, <3>2, <3>3, <3>4 DEF Protocols
  <2>5. QED
    BY <2>3, <2>4
<1>2. CASE pkt.code # "ProtRej"
  <2> DEFINE e == LcpLow!SData(p, "EchoRep", pkt.id, p.go.magic)
             r == LcpReceivedEchoReply(p, pkt.opts)
  <2>1. \E ok : \/ LcpExtCode(p, pkt) = [ok |-> ok, peer |-> e] \/ LcpExtCode(p, pkt) = [ok |-> ok, peer |-> r]
                \/ LcpExtCode(p, pkt) = [ok |-> ok, peer |-> p]
    BY <1>2, Zenon DEF LcpExtCode
  <2>2. Sound(e, c, k)
    BY LcpSData, AlikeSound, IdleShaped
  <2>3. Sound(r, c, k)
    BY EchoFieldAlike, AlikeSound, IdleShaped DEF LcpReceivedEchoReply
  <2> HIDE DEF e, r
  <2>4. QED
    BY <2>1, <2>2, <2>3
<1>3. QED
  BY <1>1, <1>2

\* fsm_input of LCP.
LEMMA LcpInputSound ==
  ASSUME NEW p, NEW c, NEW k, Sound(p, c, k), NEW pkt, Proper(pkt, k)
  PROVE  Sound(Lcp!Input(p, pkt), c, k)
<1> DEFINE all == Lcp!Input(p, pkt)
           q == Lcp!NextId(p)
           rej == Lcp!SData(q, "CodeRej", q.lcp.id, <<>>)
           ext == LcpExtCode(p, pkt)
<1>1. \/ all = p \/ all = Lcp!RConfReq(p, pkt) \/ all = Lcp!RConfAck(p, pkt) \/ all = Lcp!RConfNakRej(p, pkt)
      \/ all = Lcp!RTermReq(p, pkt) \/ all = Lcp!RTermAck(p) \/ all = Lcp!RCodeRej(p) \/ all = ext.peer \/ all = rej
  BY Zenon DEF Lcp!Input
<1>2. Sound(q, c, k)
  <2>1. Alike(q, p)
    BY LcpTimerAlike, SameOperators, IdleShaped
  <2>2. QED
    BY <2>1, AlikeSound
<1> HIDE DEF q
<1>3. Sound(rej, c, k)
  BY <1>2, LcpAnyOps
<1>4. Sound(ext.peer, c, k)
  BY LcpExtCodeSound
<1> HIDE DEF all, rej, ext
<1>5. Sound(all, c, k)
  BY <1>1, <1>3, <1>4, LcpRConfReqSound, LcpRConfAckSound, LcpRConfNakRejSound, LcpRTermReqSound, LcpRTermAckSound
<1>6. QED
  BY <1>5 DEF all

\* fsm_timeout of LCP.
LEMMA LcpTimeoutSound ==
  ASSUME NEW p, NEW c, NEW k, Sound(p, c, k)
  PROVE  Sound(LcpLow!FsmTimeout(p), c, k)
<1> DEFINE q == LcpLow!Untimeout(p)
           closed == LcpLow!Become(q, "CLOSED")
           stopped == LcpLow!Become(q, "STOPPED")
           sent == LcpLow!SConfReq(q, TRUE)
           all == LcpLow!FsmTimeout(p)
<1>1. Sound(q, c, k)
  <2>1. Alike(q, p)
    BY LcpTimerAlike, IdleShaped
  <2>2. QED
    BY <2>1, AlikeSound
<1>2. CASE q.lcp.state \in {"CLOSING", "STOPPING", "REQSENT", "ACKRCVD", "ACKSENT"}
  <2>1. \/ all = LinkTerminated(closed) \/ all = LinkTerminated(stopped) \/ all = LcpLow!STermReq(q)
        \/ all = LcpLow!Become(sent, "REQSENT") \/ all = sent
    BY <1>2, Zenon DEF LcpLow!FsmTimeout, LcpLow!State
  <2> HIDE DEF q, all
  <2>2. Idle(q, c, k)
    BY <1>1, <1>2, SoundIdle
  <2>3. Idle(closed, c, k) /\ Idle(stopped, c, k)
    BY <2>2, IdleLcpBecomes DEF FsmStates
  <2>4. Idle(sent, c, k) /\ Idle(LcpLow!STermReq(q), c, k)
    BY <2>2, LcpAlikeIdle
  <2> HIDE DEF closed, stopped, sent
  <2>5. Idle(LcpLow!Become(sent, "REQSENT"), c, k)
    BY <2>4, IdleLcpBecomes DEF FsmStates
  <2>6. Idle(LinkTerminated(closed), c, k) /\ Idle(LinkTerminated(stopped), c, k)
    BY <2>3, LinkTerminatedIdle
  <2>7. Sound(all, c, k)
    BY <2>1, <2>4, <2>5, <2>6, LcpShaped
  <2>8. QED
    BY <2>7 DEF all
<1>3. CASE q.lcp.state \notin {"CLOSING", "STOPPING", "REQSENT", "ACKRCVD", "ACKSENT"}
  <2>1. all = q
    BY <1>3, Zenon DEF LcpLow!FsmTimeout, LcpLow!State
  <2>2. QED
    BY <1>1, <2>1
<1>4. QED
  BY <1>2, <1>3

-----------------------------------------------------------------------------
\* The calls of the application, the modem and the line.
LEMMA PppOpenSound ==
  ASSUME NEW p, NEW c, NEW k, Sound(p, c, k), ~p.open
  PROVE  Sound(PppOpen(p), c, k)
<1> DEFINE q == [p EXCEPT !.open = TRUE, !.errCode = "none", !.ifUp = FALSE, !.addrs = None, !.told = "none"]
           up == LcpLow!LowerUp(q)
           o == LcpLow!Open(up)
           r == [o EXCEPT !.phase = "ESTABLISH"]
<1>1. PppOpen(p) = r
  BY DEF PppOpen
<1>2. Sound(q, c, k) /\ ~q.ifUp
  <2>1. /\ Shaped(q) /\ q.cfg = p.cfg /\ q.phase = p.phase /\ q.pending = p.pending /\ ~q.ifUp
        /\ q.lcp = p.lcp /\ q.ipcp = p.ipcp /\ q.out = p.out /\ q.go = p.go /\ q.chap = p.chap /\ q.pap = p.pap
    BY IdleShaped DEF Shaped
  <2> HIDE DEF q
  <2>2. Begun(q) <=> Begun(p)
    BY <2>1 DEF Begun
  <2>3. QED
    BY <2>1, <2>2 DEF Sound, Loose
<1> HIDE DEF q
<1>3. Sound(o, c, k) /\ ~o.ifUp
  <2>1. CASE q.lcp.state = "OPENED"
    <3>1. up = q
      BY <2>1, Zenon DEF LcpLow!LowerUp, LcpLow!State
    <3>2. LcpLow!Open(q) = q
      BY <2>1, Zenon DEF LcpLow!Open, LcpLow!State
    <3>3. QED
      BY <1>2, <3>1, <3>2
  <2>2. CASE q.lcp.state # "OPENED"
    <3>1. ASSUME NEW a, Idle(a, c, k) PROVE Idle(LcpLow!Become(LcpLow!SConfReq(a, FALSE), "REQSENT"), c, k)
      BY <3>1, LcpAlikeIdle, IdleLcpBecomes DEF FsmStates
    <3>2. ASSUME NEW a, Idle(a, c, k), NEW s \in FsmStates PROVE Idle(LcpLow!Become(a, s), c, k)
      BY <3>2, IdleLcpBecomes
    <3>3. up = LcpLow!Become(q, "CLOSED") \/ up = LcpLow!Become(LcpLow!SConfReq(q, FALSE), "REQSENT") \/ up = q
      BY Zenon DEF LcpLow!LowerUp
    <3>4. Idle(up, c, k)
      BY <1>2, <2>2, <3>1, <3>2, <3>3, SoundIdle DEF FsmStates
    <3> HIDE DEF up
    <3>5. \/ o = LcpLow!Become(up, "STARTING") \/ o = LcpLow!Become(LcpLow!SConfReq(up, FALSE), "REQSENT")
          \/ o = LcpLow!Become(up, "STOPPING") \/ o = up
      BY Zenon DEF LcpLow!Open
    <3>6. Idle(o, c, k)
      BY <3>1, <3>2, <3>4, <3>5 DEF FsmStates
    <3>7. QED
      BY <3>6, IdleShaped
  <2>3. QED
    BY <2>1, <2>2
<1> HIDE DEF up, o
<1>4. /\ Shaped(r) /\ r.cfg = o.cfg /\ r.phase = "ESTABLISH" /\ r.pending = o.pending /\ ~r.ifUp
      /\ r.lcp = o.lcp /\ r.ipcp = o.ipcp /\ r.out = o.out /\ r.go = o.go /\ r.chap = o.chap /\ r.pap = o.pap
  BY <1>3, IdleShaped DEF Shaped
<1> HIDE DEF r
<1>5. Begun(r) => Begun(o)
  BY <1>4 DEF Begun
<1>6. Sound(r, c, k)
  BY <1>3, <1>4, <1>5 DEF Sound, Loose, Phases
<1>7. QED
  BY <1>1, <1>6

\* pppClose.
LEMMA PppCloseSound ==
  ASSUME NEW p, NEW c, NEW k, Sound(p, c, k)
  PROVE  Sound(PppClose(p), c, k)
<1> DEFINE q == [p EXCEPT !.errCode = "user"]
<1>1. Alike(q, p)
  BY IdleShaped DEF Alike, Kept, Shaped
<1>2. PppClose(p) = LcpClose(q)
  BY DEF PppClose
<1> HIDE DEF q
<1>3. QED
  BY <1>1, <1>2, AlikeSound, LcpCloseIdle, LcpShaped

\* pppHup: the modem has lost the line.
LEMMA PppHupSound ==
  ASSUME NEW p, NEW c, NEW k, Sound(p, c, k)
  PROVE  Sound(PppHup(p), c, k)
<1> DEFINE d == LcpDown(p)
           q == LcpLow!LowerDown(p)
<1>1. Idle(q, c, k)
  <2>1. CASE p.lcp.state = "OPENED"
    <3>1. q = LcpLow!Become(d, "STARTING")
      BY <2>1, Zenon DEF LcpLow!LowerDown, LcpLow!State
    <3>2. Idle(d, c, k)
      BY LcpDownLow
    <3> HIDE DEF d, q
    <3>3. QED
      BY <3>1, <3>2, IdleLcpBecomes DEF FsmStates
  <2>2. CASE p.lcp.state # "OPENED"
    <3>1. \/ q = LcpLow!Become(p, "INITIAL") \/ q = LcpLow!Become(p, "STARTING")
          \/ q = LcpLow!Untimeout(LcpLow!Become(p, "INITIAL"))
          \/ q = LcpLow!Untimeout(LcpLow!Become(p, "STARTING")) \/ q = p
      BY <2>2, Zenon DEF LcpLow!LowerDown, LcpLow!State
    <3>2. Idle(p, c, k)
      BY <2>2, SoundIdle
    <3>3. Idle(LcpLow!Become(p, "INITIAL"), c, k) /\ Idle(LcpLow!Become(p, "STARTING"), c, k)
      BY <3>2, IdleLcpBecomes DEF FsmStates
    <3> HIDE DEF q
    <3>4. QED
      BY <3>1, <3>2, <3>3, LcpAlikeIdle
  <2>3. QED
    BY <2>1, <2>2
<1>2. PppHup(p) = LinkTerminated(q)
  BY DEF PppHup
<1> HIDE DEF q
<1>3. QED
  BY <1>1, <1>2, LcpFinishedLow

\* pppInput: the packet goes to its protocol, or is rejected, or dropped.
LEMMA PppInputSound ==
  ASSUME NEW p, NEW c, NEW k, Sound(p, c, k), NEW pkt, Proper(pkt, k)
  PROVE  Sound(PppInput(p, pkt), c, k)
<1> DEFINE all == PppInput(p, pkt)
<1>1. pkt.proto \in Protocols /\ p.phase \in Phases
  BY DEF Proper, Sound, Loose
<1>2. CASE pkt.proto = "lcp"
  <2>1. all = p \/ all = Lcp!Input(p, pkt)
    BY <1>2, Zenon DEF PppInput
  <2>2. QED
    BY <2>1, LcpInputSound
<1>3. CASE pkt.proto = "ipcp"
  <2>1. all = p \/ (p.phase \in {"NETWORK", "TERMINATE"} /\ all = Ipcp!Input(p, pkt))
    <3>1. CASE p.phase \in {"NETWORK", "TERMINATE"}
      BY <1>3, <3>1, Zenon DEF PppInput
    <3>2. CASE p.phase \in {"DEAD", "INITIALIZE", "ESTABLISH", "AUTHENTICATE"}
      BY <1>3, <3>2, Zenon DEF PppInput
    <3>3. QED
      BY <1>1, <3>1, <3>2 DEF Phases
  <2>2. QED
    BY <2>1, IpcpInputSound
<1>4. CASE pkt.proto = "chap"
  <2>1. all = p \/ all = Auth!ChapInput(p, pkt)
    BY <1>4, Zenon DEF PppInput
  <2>2. QED
    BY <1>4, <2>1, ChapInputSound
<1>5. CASE pkt.proto = "pap"
  <2>1. all = p \/ all = Auth!PapInput(p, pkt)
    BY <1>5, Zenon DEF PppInput
  <2>2. QED
    BY <1>5, <2>1, PapInputSound
<1>6. QED
  BY <1>1, <1>2, <1>3, <1>4, <1>5 DEF Protocols

-----------------------------------------------------------------------------
\* Nothing sent is honest.
LEMMA HonestNone ==
  ASSUME NEW secret
  PROVE  Honest(None, secret)
  BY DEF Honest, None

\* Honest packets behind honest packets are honest.
LEMMA HonestConcat ==
  ASSUME NEW secret, NEW s, NEW t, Honest(s, secret), Honest(t, secret)
  PROVE  Honest(s \o t, secret)
<1> DEFINE T == {s[i] : i \in DOMAIN s} \cup {t[i] : i \in DOMAIN t}
           u == s \o t
<1>1. s \in Seq(T) /\ t \in Seq(T)
  BY DEF Honest
<1> HIDE DEF T
<1>2. /\ u \in Seq(T) /\ Len(u) = Len(s) + Len(t) /\ Len(s) \in Nat /\ Len(t) \in Nat
      /\ \A i \in 1 .. Len(u) : u[i] = IF i <= Len(s) THEN s[i] ELSE t[i - Len(s)]
  BY <1>1
<1>3. DOMAIN s = 1 .. Len(s) /\ DOMAIN t = 1 .. Len(t) /\ DOMAIN u = 1 .. Len(u)
  BY <1>1, <1>2
<1> HIDE DEF u
<1>4. u \in Seq({u[i] : i \in DOMAIN u})
  BY <1>2, <1>3
<1>5. ASSUME NEW i \in DOMAIN u PROVE Proper(u[i], secret)
  <2>1. CASE i <= Len(s)
    BY <1>2, <1>3, <2>1 DEF Honest
  <2>2. CASE i > Len(s)
    <3>1. i - Len(s) \in DOMAIN t /\ u[i] = t[i - Len(s)]
      BY <1>2, <1>3, <2>2
    <3>2. QED
      BY <3>1 DEF Honest
  <2>3. QED
    BY <1>2, <1>3, <2>1, <2>2
<1>6. QED
  BY <1>4, <1>5 DEF Honest, u

\* The first packet of an honest line is proper, and the rest is honest.
LEMMA HonestTail ==
  ASSUME NEW secret, NEW s, Honest(s, secret), s # None
  PROVE  Proper(Head(s), secret) /\ Honest(Tail(s), secret)
<1> DEFINE T == {s[i] : i \in DOMAIN s}
           u == Tail(s)
<1>1. s \in Seq(T) /\ s # <<>>
  BY DEF Honest, None
<1> HIDE DEF T
<1>2. /\ u \in Seq(T) /\ Len(u) = Len(s) - 1 /\ Len(s) \in Nat \ {0} /\ Head(s) = s[1]
      /\ \A i \in 1 .. Len(u) : u[i] = s[i + 1]
  BY <1>1
<1>3. DOMAIN s = 1 .. Len(s) /\ DOMAIN u = 1 .. Len(u)
  BY <1>1, <1>2
<1> HIDE DEF u
<1>4. u \in Seq({u[i] : i \in DOMAIN u})
  BY <1>2, <1>3
<1>5. \A i \in DOMAIN u : i + 1 \in DOMAIN s /\ u[i] = s[i + 1]
  BY <1>2, <1>3
<1>6. 1 \in DOMAIN s
  BY <1>2, <1>3
<1>7. QED
  BY <1>2, <1>4, <1>5, <1>6 DEF Honest, u

-----------------------------------------------------------------------------
\* The secret that the other side of the line knows.
Known(x) == peer[Other(x)].cfg.secret

\* The two ends are each other's other end.
LEMMA OtherEnds ==
  ASSUME NEW x \in Ends
  PROVE  Other(x) \in Ends /\ Other(Other(x)) = x
  BY DEF Ends, Other

\* What x does leaves the invariant alone if it leaves x sound.
LEMMA BecomesKeepsInv ==
  ASSUME PppInv, NEW x \in Ends, NEW q, Sound(q, peer[x].cfg, Known(x)),
         NEW rest, DOMAIN rest = Ends, \A y \in Ends : Honest(rest[y], Known(y)), Becomes(x, q, rest)
  PROVE  PppInv'
<1> DEFINE r == [q EXCEPT !.out = None]
           c == peer[x].cfg
           k == Known(x)
           sent == q.out
           more == rest[Other(x)] \o sent
<1>1. /\ peer' = [peer EXCEPT ![x] = r] /\ wire' = [rest EXCEPT ![Other(x)] = more] /\ looped' = looped
  BY DEF Becomes
<1>2. Sound(r, c, k) /\ r.cfg = c
  <2>1. /\ Shaped(r) /\ r.cfg = q.cfg /\ r.phase = q.phase /\ r.pending = q.pending /\ r.open = q.open /\ r.ifUp = q.ifUp
        /\ r.lcp = q.lcp /\ r.ipcp = q.ipcp /\ r.out = None /\ r.go = q.go /\ r.chap = q.chap /\ r.pap = q.pap
    BY IdleShaped DEF Shaped
  <2> HIDE DEF r, k
  <2>2. Begun(r) <=> Begun(q)
    BY <2>1 DEF Begun
  <2>3. QED
    BY <2>1, <2>2, HonestNone DEF Sound, Loose, k
<1>3. Honest(sent, c.secret) /\ Honest(rest[Other(x)], c.secret)
  <2>1. Honest(sent, c.secret)
    BY DEF Sound, Loose
  <2>2. Other(x) \in Ends /\ Known(Other(x)) = c.secret
    BY OtherEnds DEF Known
  <2>3. QED
    BY <2>1, <2>2
<1>4. Honest(more, c.secret)
  BY <1>3, HonestConcat
<1> HIDE DEF r, sent, more
<1>5. /\ DOMAIN peer' = Ends /\ DOMAIN wire' = Ends
      /\ peer'[x] = r /\ \A y \in Ends \ {x} : peer'[y] = peer[y]
      /\ wire'[Other(x)] = more /\ \A y \in Ends \ {Other(x)} : wire'[y] = rest[y]
  BY <1>1, OtherEnds DEF PppInv
<1>6. \A y \in Ends : peer'[y].cfg = peer[y].cfg
  BY <1>2, <1>5
<1>7. \A y \in Ends : Other(y)' = Other(y) /\ Other(y) \in Ends /\ Other(Other(y)) = y
  BY <1>1, OtherEnds DEF Other
<1>8. ASSUME NEW y \in Ends PROVE Sound(peer'[y], peer'[y].cfg, peer'[Other(y)'].cfg.secret)
  <2>1. peer'[y].cfg = peer[y].cfg /\ peer'[Other(y)'].cfg.secret = Known(y)
    BY <1>6, <1>7 DEF Known
  <2>2. Sound(peer'[y], peer[y].cfg, Known(y))
    BY <1>2, <1>5 DEF PppInv, Known
  <2>3. QED
    BY <2>1, <2>2
<1>9. ASSUME NEW y \in Ends PROVE Honest(wire'[y], peer'[Other(y)'].cfg.secret)
  <2>1. peer'[Other(y)'].cfg.secret = Known(y)
    BY <1>6, <1>7 DEF Known
  <2>2. Honest(wire'[y], Known(y))
    BY <1>4, <1>5, <1>7 DEF Known
  <2>3. QED
    BY <2>1, <2>2
<1>10. QED
  BY <1>5, <1>8, <1>9 DEF PppInv

\* The same of a call that takes nothing from the line.
LEMMA CallKeepsInv ==
  ASSUME PppInv, NEW x \in Ends, NEW q, Sound(q, peer[x].cfg, Known(x)), Becomes(x, q, wire)
  PROVE  PppInv'
<1>1. DOMAIN wire = Ends /\ \A y \in Ends : Honest(wire[y], Known(y))
  BY DEF PppInv, Known
<1>2. QED
  BY <1>1, BecomesKeepsInv

\* The line without its first packet.
LEMMA TakenFrom ==
  ASSUME PppInv, NEW x \in Ends, wire[x] # None
  PROVE  LET rest == [wire EXCEPT ![x] = Tail(@)] IN
         Proper(Head(wire[x]), Known(x)) /\ DOMAIN rest = Ends /\ \A y \in Ends : Honest(rest[y], Known(y))
<1>1. DOMAIN wire = Ends /\ \A y \in Ends : Honest(wire[y], Known(y))
  BY DEF PppInv, Known
<1>2. Proper(Head(wire[x]), Known(x)) /\ Honest(Tail(wire[x]), Known(x))
  BY <1>1, HonestTail
<1>3. QED
  BY <1>1, <1>2

\* The invariant holds before anything was sent: no link is open.
LEMMA PppInitInv ==
  ASSUME PppInit
  PROVE  PppInv
<1>1. PICK s \in Scenarios :
        /\ peer = [x \in Ends |-> NewPeer(IF x = "near" THEN s.near ELSE s.far)]
        /\ looped = s.looped /\ wire = [x \in Ends |-> <<>>]
  BY DEF PppInit
<1>2. ASSUME NEW c, NEW k, c.demand \subseteq AuthOptions PROVE Sound(NewPeer(c), c, k) /\ NewPeer(c).cfg = c
  <2> DEFINE q == NewPeer(c)
  <2>1. /\ q.cfg = c /\ q.phase = "INITIALIZE" /\ q.pending = {} /\ q.open = FALSE /\ q.ifUp = FALSE /\ q.out = None
        /\ q.lcp = LcpLow!Fresh /\ q.ipcp = IpcpLow!Fresh /\ q.chap = AuthLow!ChapFresh /\ q.pap = AuthLow!PapFresh
        /\ q.go.auth = {} /\ "auth" \in DOMAIN q.go /\ "pending" \in DOMAIN q.echo
        /\ {"cfg", "phase", "pending", "open", "ifUp", "lcp", "ipcp", "chap", "pap", "go", "out", "echo"} \subseteq DOMAIN q
    BY DEF NewPeer
  <2> HIDE DEF q
  <2>2. /\ q.lcp.state = "INITIAL" /\ "state" \in DOMAIN q.lcp /\ q.ipcp.state = "INITIAL" /\ "state" \in DOMAIN q.ipcp
    BY <2>1 DEF LcpLow!Fresh, IpcpLow!Fresh
  <2>3. /\ q.chap.digest = FALSE /\ q.chap.client = "initial" /\ {"client", "digest"} \subseteq DOMAIN q.chap
        /\ q.pap.client = "initial" /\ q.pap.server = "initial" /\ {"client", "server"} \subseteq DOMAIN q.pap
    BY <2>1 DEF AuthLow!ChapFresh, AuthLow!PapFresh
  <2>4. Shaped(q) /\ ~Begun(q)
    BY <2>1, <2>2, <2>3 DEF Shaped, Begun, PapServer
  <2>5. Sound(q, c, k)
    BY <1>2, <2>1, <2>2, <2>4, HonestNone DEF Sound, Loose, FsmStates, Asleep, Phases
  <2>6. QED
    BY <2>1, <2>5 DEF q
<1>3. \A x \in Ends : peer[x].cfg.demand \subseteq AuthOptions /\ Sound(peer[x], peer[x].cfg, Known(x))
  <2>1. s.near.demand \subseteq AuthOptions /\ s.far.demand \subseteq AuthOptions
    BY PppConstants DEF AuthOptions
  <2>2. ASSUME NEW x \in Ends PROVE peer[x].cfg.demand \subseteq AuthOptions /\ Sound(peer[x], peer[x].cfg, Known(x))
    <3> DEFINE c == IF x = "near" THEN s.near ELSE s.far
    <3>1. c.demand \subseteq AuthOptions /\ peer[x] = NewPeer(c)
      BY <1>1, <2>1
    <3> HIDE DEF c
    <3>2. Sound(NewPeer(c), c, Known(x)) /\ NewPeer(c).cfg = c
      BY <1>2, <3>1
    <3>3. QED
      BY <3>1, <3>2
  <2>3. QED
    BY <2>2
<1>4. \A x \in Ends : Honest(wire[x], Known(x))
  BY <1>1, HonestNone DEF None
<1>5. QED
  BY <1>1, <1>3, <1>4 DEF PppInv, Known

\* Every step keeps the invariant, and so does a stutter.
LEMMA PppNextInv ==
  ASSUME PppInv, [PppNext]_pppVars
  PROVE  PppInv'
<1>1. CASE UNCHANGED pppVars
  BY <1>1 DEF pppVars, PppInv, Other
<1>2. ASSUME NEW x \in Ends,
             \/ Opens(x) \/ Closes(x) \/ HangsUp(x) \/ Receives(x) \/ Rejects(x) \/ Loses(x)
             \/ LcpTimer(x) \/ IpcpTimer(x) \/ EchoTimer(x)
             \/ ChapServerTimer(x) \/ ChapClientTimer(x) \/ PapTimer(x) \/ PapReqTimer(x)
      PROVE  PppInv'
  <2> DEFINE p == peer[x]
             c == p.cfg
             k == Known(x)
  <2>1. Sound(p, c, k)
    BY DEF PppInv, Known
  <2> HIDE DEF k
  <2>2. CASE Opens(x)
    BY <2>1, <2>2, PppOpenSound, CallKeepsInv DEF Opens, Call, k
  <2>3. CASE Closes(x)
    BY <2>1, <2>3, PppCloseSound, CallKeepsInv DEF Closes, Call, k
  <2>4. CASE HangsUp(x)
    <3> DEFINE rest == [y \in Ends |-> None]
    <3>1. DOMAIN rest = Ends /\ \A y \in Ends : Honest(rest[y], Known(y))
      BY HonestNone
    <3>2. Becomes(x, PppHup(p), rest)
      BY <2>4 DEF HangsUp
    <3> HIDE DEF rest
    <3>3. QED
      BY <2>1, <3>1, <3>2, PppHupSound, BecomesKeepsInv DEF k
  <2>5. CASE Receives(x)
    <3> DEFINE rest == [wire EXCEPT ![x] = Tail(@)]
               pkt == Head(wire[x])
    <3>1. wire[x] # None /\ Becomes(x, PppInput(p, pkt), rest)
      BY <2>5 DEF Receives
    <3>2. Proper(pkt, k) /\ DOMAIN rest = Ends /\ \A y \in Ends : Honest(rest[y], Known(y))
      BY <3>1, TakenFrom DEF k
    <3> HIDE DEF rest, pkt
    <3>3. QED
      BY <2>1, <3>1, <3>2, PppInputSound, BecomesKeepsInv DEF k
  <2>6. CASE Rejects(x)
    <3> DEFINE rest == [wire EXCEPT ![x] = Tail(@)]
               proto == Head(wire[x]).proto
               a == LcpLow!NextId(p)
               e == [proto |-> "lcp", code |-> "ProtRej", id |-> 0, opts |-> proto]
               q == [a EXCEPT !.out = Append(@, e)]
    <3>1. wire[x] # None /\ Becomes(x, q, rest)
      BY <2>6 DEF Rejects, LcpLow!SData
    <3>2. Proper(e, c.secret) /\ DOMAIN rest = Ends /\ \A y \in Ends : Honest(rest[y], Known(y))
      <4>1. Proper(Head(wire[x]), Known(x)) /\ DOMAIN rest = Ends /\ \A y \in Ends : Honest(rest[y], Known(y))
        BY <3>1, TakenFrom
      <4>2. proto \in Protocols
        BY <4>1 DEF Proper
      <4> HIDE DEF proto
      <4>3. Proper(e, c.secret)
        BY <4>2 DEF Proper, Protocols
      <4>4. QED
        BY <4>1, <4>3
    <3> HIDE DEF rest, e
    <3>3. Alike(a, p)
      BY <2>1, LcpTimerAlike, IdleShaped
    <3>4. Sound(a, c, k)
      BY <2>1, <3>3, AlikeSound
    <3> HIDE DEF a
    <3>5. Alike(q, a)
      <4>1. a.cfg = c
        BY <3>4 DEF Sound, Loose
      <4>2. Honest(a.out, a.cfg.secret) => Honest(Append(a.out, e), a.cfg.secret)
        BY <3>2, <4>1, HonestAppend
      <4>3. QED
        BY <3>4, <4>2, IdleShaped DEF Alike, Kept, Shaped
    <3> HIDE DEF q
    <3>6. Sound(q, c, k)
      BY <3>4, <3>5, AlikeSound
    <3>7. QED
      BY <3>1, <3>2, <3>6, BecomesKeepsInv DEF k
  <2>7. CASE Loses(x)
    <3> DEFINE rest == [wire EXCEPT ![x] = Tail(@)]
    <3>1. wire[x] # None /\ wire' = rest /\ peer' = peer /\ looped' = looped
      BY <2>7 DEF Loses
    <3>2. DOMAIN rest = Ends /\ \A y \in Ends : Honest(rest[y], Known(y))
      BY <3>1, TakenFrom
    <3> HIDE DEF rest
    <3>3. QED
      BY <3>1, <3>2 DEF PppInv, Known, Other
  <2>8. CASE LcpTimer(x)
    BY <2>1, <2>8, LcpTimeoutSound, CallKeepsInv DEF LcpTimer, Tick, k
  <2>9. CASE IpcpTimer(x)
    BY <2>1, <2>9, IpcpTimeoutSound, CallKeepsInv DEF IpcpTimer, Ticks, Tick, k
  <2>10. CASE EchoTimer(x)
    BY <2>1, <2>10, LcpEchoTimeoutSound, CallKeepsInv DEF EchoTimer, Ticks, Tick, k
  <2>11. CASE ChapServerTimer(x)
    BY <2>1, <2>11, ChapServerTimeoutSound, CallKeepsInv DEF ChapServerTimer, Ticks, Tick, k
  <2>12. CASE ChapClientTimer(x)
    BY <2>1, <2>12, ChapResponseTimeoutSound, CallKeepsInv DEF ChapClientTimer, Ticks, Tick, k
  <2>13. CASE PapTimer(x)
    BY <2>1, <2>13, PapTimeoutSound, CallKeepsInv DEF PapTimer, Ticks, Tick, k
  <2>14. CASE PapReqTimer(x)
    BY <2>1, <2>14, PapReqTimeoutSound, CallKeepsInv DEF PapReqTimer, Ticks, Tick, k
  <2>15. QED
    BY <1>2, <2>2, <2>3, <2>4, <2>5, <2>6, <2>7, <2>8, <2>9, <2>10, <2>11, <2>12, <2>13, <2>14
<1>3. QED
  BY <1>1, <1>2 DEF PppNext

\* For every set of scenarios that demand CHAP, PAP or nothing, and for every
\* limit of retries, losses and calls: an interface is up only in the phase
\* NETWORK, with no authentication pending, and, where one was demanded, only
\* towards a peer that knows the secret.
THEOREM PppIsAuthenticated == PppSpec => []UpOnlyWhenAuthenticated
<1>1. PppInv => UpOnlyWhenAuthenticated
  <2> SUFFICES ASSUME PppInv, NEW x \in Ends, peer[x].ifUp
               PROVE  /\ peer[x].pending = {} /\ peer[x].phase = "NETWORK"
                      /\ peer[x].cfg.demand # {} => peer[Other(x)].cfg.secret
    BY DEF UpOnlyWhenAuthenticated
  <2>1. Sound(peer[x], peer[x].cfg, Known(x))
    BY DEF PppInv, Known
  <2>2. peer[x].phase = "NETWORK" /\ peer[x].pending = {}
    BY <2>1 DEF Sound, Loose
  <2>3. Proven(peer[x].cfg, Known(x))
    BY <2>1, <2>2 DEF Sound, Loose, Begun
  <2>4. QED
    BY <2>2, <2>3 DEF Proven, Known
<1>2. QED
  BY <1>1, PppInitInv, PppNextInv, PTL DEF PppSpec

=============================================================================
