------------------------------- MODULE PppNet -------------------------------
(* Two peers of PPP on a serial line. The far one stands for any peer that
   follows the same rules with another configuration; on a looped line the
   near one hears itself. The line keeps the order and may lose packets, and
   carrier may be lost. Any timer may fire at any time, which includes every
   order the clocks of the two peers allow. *)
EXTENDS PppLcp

CONSTANT Scenarios \* records [near, far, looped, ticks] to start from
CONSTANTS MaxLosses, MaxCalls \* bounds on lost packets and on calls
ASSUME PppConstants ==
  /\ MaxEchoFails \in Nat \* lcp_echo_fails
  /\ \A s \in Scenarios : s.near.demand \cup s.far.demand \subseteq {"chap", "pap"}

VARIABLES peer, wire, looped,
          cut,  \* carrier was lost, IPCP rejected, or a side gave up unheard
          losses, calls,
          ticks \* timers that may still fire
pppVars == <<peer, wire, looped, cut, losses, ticks, calls>>

Ends == {"near", "far"}
Other(x) == IF looped THEN x ELSE IF x = "near" THEN "far" ELSE "near"

PppInit ==
  \E s \in Scenarios :
    /\ peer = [x \in Ends |-> NewPeer(IF x = "near" THEN s.near ELSE s.far)]
    /\ looped = s.looped
    /\ wire = [x \in Ends |-> <<>>] \* wire[x]: the packets on their way to x
    /\ cut = FALSE /\ losses = 0 /\ ticks = s.ticks /\ calls = 0

\* Peer x becomes q; what it sent goes on the line.
Becomes(x, q, rest) ==
  /\ peer' = [peer EXCEPT ![x] = [q EXCEPT !.out = None]]
  /\ wire' = [rest EXCEPT ![Other(x)] = @ \o q.out]
  /\ UNCHANGED looped

Call(x, q) == calls < MaxCalls /\ calls' = calls + 1 /\ Becomes(x, q, wire) /\ UNCHANGED <<cut, losses, ticks>>

Opens(x) == ~peer[x].open /\ Call(x, PppOpen(peer[x]))
Closes(x) == peer[x].open /\ Call(x, PppClose(peer[x]))

\* The carrier is lost: what is on the line is gone, the modem tells x.
HangsUp(x) ==
  /\ peer[x].open /\ calls < MaxCalls /\ calls' = calls + 1 /\ cut' = TRUE
  /\ Becomes(x, PppHup(peer[x]), [y \in Ends |-> None])
  /\ UNCHANGED <<losses, ticks>>

Receives(x) ==
  /\ wire[x] # None
  /\ Becomes(x, PppInput(peer[x], Head(wire[x])), [wire EXCEPT ![x] = Tail(@)])
  /\ UNCHANGED <<cut, losses, ticks, calls>>

\* lcp_sprotrej of a far peer without one of the protocols.
Rejects(x) ==
  /\ x = "far" /\ calls < MaxCalls /\ calls' = calls + 1 /\ cut' = TRUE
  /\ wire[x] # None /\ Head(wire[x]).proto # "lcp" /\ peer[x].lcp.state = "OPENED"
  /\ Becomes(x, LcpLow!SData(LcpLow!NextId(peer[x]), "ProtRej", 0, Head(wire[x]).proto),
             [wire EXCEPT ![x] = Tail(@)])
  /\ UNCHANGED <<losses, ticks>>

Loses(x) ==
  /\ wire[x] # None /\ losses < MaxLosses /\ losses' = losses + 1
  /\ wire' = [wire EXCEPT ![x] = Tail(@)]
  /\ UNCHANGED <<peer, looped, cut, ticks, calls>>

Tick(x, q) == ticks > 0 /\ ticks' = ticks - 1 /\ Becomes(x, q, wire) /\ UNCHANGED <<losses, calls>>
Ticks(x, q) == Tick(x, q) /\ UNCHANGED cut

LcpTimer(x) ==
  /\ peer[x].lcp.timer /\ Tick(x, LcpLow!FsmTimeout(peer[x]))
  /\ cut' = (cut \/ peer[x].lcp.retransmits = 0)
IpcpTimer(x) == peer[x].ipcp.timer /\ Ticks(x, Ipcp!FsmTimeout(peer[x]))
ChapServerTimer(x) == peer[x].chap.serverTimer /\ Ticks(x, Auth!ChapServerTimeout(peer[x]))
ChapClientTimer(x) == peer[x].chap.clientTimer /\ Ticks(x, AuthLow!ChapResponseTimeout(peer[x]))
PapTimer(x) == peer[x].pap.clientTimer /\ Ticks(x, Auth!PapTimeout(peer[x]))
PapReqTimer(x) == peer[x].pap.serverTimer /\ Ticks(x, Auth!PapReqTimeout(peer[x]))
EchoTimer(x) == peer[x].echo.timer /\ Ticks(x, LcpEchoTimeout(peer[x]))

PppNext == \E x \in Ends :
  \/ Opens(x) \/ Closes(x) \/ HangsUp(x)
  \/ Receives(x) \/ Rejects(x) \/ Loses(x)
  \/ LcpTimer(x) \/ IpcpTimer(x) \/ EchoTimer(x)
  \/ ChapServerTimer(x) \/ ChapClientTimer(x) \/ PapTimer(x) \/ PapReqTimer(x)

PppSpec == PppInit /\ [][PppNext]_pppVars

-----------------------------------------------------------------------------
TimerRuns(p) == p.lcp.timer \/ p.ipcp.timer \/ p.echo.timer \/ p.chap.serverTimer
                  \/ p.chap.clientTimer \/ p.pap.clientTimer \/ p.pap.serverTimer

Quiet == \A x \in Ends : wire[x] = None /\ ~TimerRuns(peer[x])

\* What each side asked for last is what the other believes it agreed to.
\* This holds once nothing is on the line and no answer is waited for.
OptionsAgree ==
  Quiet => \A x \in Ends : LET p == peer[x] q == peer[Other(x)] IN
    /\ p.lcp.state = "OPENED" /\ q.lcp.state = "OPENED" => q.ho = LcpAddCi(p)
    /\ p.ipcp.state = "OPENED" /\ q.ipcp.state = "OPENED" /\ ~looped =>
         /\ p.addrs = <<q.addrs[2], q.addrs[1]>>
         /\ p.vj = IF q.igo.vj THEN q.igo.slots ELSE 0

\* An interface is up only for a peer that has proved to know the secret, where
\* it was asked to.
UpOnlyWhenAuthenticated ==
  /\ \A x \in Ends : peer[x].ifUp => peer[x].pending = {} /\ peer[x].phase = "NETWORK"
  /\ \A x \in Ends : peer[x].ifUp /\ peer[x].cfg.demand # {} => peer[Other(x)].cfg.secret

\* When nothing happens any more, a link that one side holds open is open on
\* both, carries IP on both and has told both applications so. A line that
\* returns what was sent never carries IP.
NoHalfOpenLink ==
  /\ Quiet /\ ~cut => \A x \in Ends : peer[x].lcp.state = "OPENED" =>
       \A y \in {x, Other(x)} : peer[y].lcp.state = "OPENED" /\ peer[y].ifUp /\ peer[y].told = "up"
  /\ looped => ~peer["near"].ifUp
=============================================================================
