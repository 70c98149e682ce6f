---------------------------- MODULE LwipAddress ----------------------------
(***************************************************************************)
(* One interface, module LwipDhcp, a DHCP server and the other hosts of    *)
(* its network.  Messages are lost, overtaken and duplicated.              *)
(***************************************************************************)
EXTENDS LwipDhcp, FiniteSets

CONSTANTS
  MaxXid,    \* transactions
  MaxWire,   \* messages on their way
  MaxTrouble \* budget of failures, and of calls of the application

\* An address of the server is not a link-local one.
ASSUME AddressAssumption == NumLeases \in Nat /\ NumLeases < 100

VARIABLES
  netif,   \* the interface
  wire,    \* messages on their way
  granted, \* addresses the server has acknowledged and the client not given up
  stale,   \* an old lease meddles in the negotiation of a new one: its timer went off,
           \* or dhcp_start found the interface up
  mute,    \* an OFFER did not say whose it was
  vain,    \* addresses were given up, and for want of memory the transaction is the same
  trouble

addressVars == <<netif, wire, granted, stale, mute, vain, trouble>>

AddressInit ==
  /\ LET w == DhcpStart(NewNetif)
     IN netif = [w EXCEPT !.out = {}] /\ wire = w.out
  /\ granted = {} /\ stale = FALSE /\ mute = FALSE /\ vain = FALSE /\ trouble = 0

None == [type |-> "none"]

\* A down interface starts to negotiate anew in a transaction of its own.
StartsAfresh(w) == w.d.st = "selecting" /\ ~w.up /\ w.d.xid # netif.d.xid

\* The interface becomes w on message m, which is kept on the wire or not.
Turns(w, m, kept) ==
  /\ w.xid <= MaxXid /\ netif' = [w EXCEPT !.out = {}, !.gave = {}, !.mem = TRUE]
  /\ wire' = (wire \ ({m} \ kept)) \cup {n \in w.out : n.type \in {"discover", "request"}}
  /\ Cardinality(wire') <= MaxWire
  /\ granted' = granted \ w.gave
  /\ mute' = (~w.d.timer /\ (mute \/ (m.type = "offer" /\ ~m.sid)))
  /\ vain' = (~StartsAfresh(w) /\ (vain \/ (w.gave # {} /\ ~w.mem /\ w.d.xid = netif.d.xid)))

Renewed == (netif.d.st = "checking" /\ netif'.d.st = "bound") \/ (netif'.d.st = "selecting" /\ ~netif'.up)
Still == stale' = (stale /\ ~Renewed)

\* What a handler finds, and what it costs: n, and more if there is no memory.
With(mem) == [netif EXCEPT !.mem = mem]
Spends(n, mem) == trouble' = trouble + n + (IF mem THEN 0 ELSE 1) /\ trouble' <= MaxTrouble
Handles(Handler(_), n) ==
  ~netif.crashed /\ \E mem \in BOOLEAN : Spends(n, mem) /\ Turns(Handler(With(mem)), None, {})

Starts == Handles(DhcpStart, 1) /\ stale' = netif.up
Stops == netif.d.pcb /\ Handles(DhcpStop, 1) /\ Still
Releases == netif.d.pcb /\ Handles(DhcpRelease, 1) /\ Still
LinkFails ==
  /\ netif.link /\ Spends(1, TRUE) /\ netif' = [netif EXCEPT !.link = FALSE]
  /\ UNCHANGED <<wire, granted, stale, mute, vain>>
LinkReturns == ~netif.link /\ Handles(SetLinkUp, 0) /\ Still

FineTmr == netif.d.timer /\ Handles(DhcpTimeout, 0) /\ Still
CoarseTmr ==
  /\ netif.d.leased /\ (Handles(DhcpT1Timeout, 0) \/ Handles(DhcpT2Timeout, 0))
  /\ stale' = (stale \/ netif.d.st = "requesting")
AutoipTicks == netif.a.st \in {"probing", "announcing"} /\ Handles(AutoipTmr, 0) /\ Still
ConflictForgotten ==
  /\ netif.a.conflict /\ netif' = [netif EXCEPT !.a.conflict = FALSE]
  /\ UNCHANGED <<wire, granted, stale, mute, vain, trouble>>

\* Another host uses an address, or asks whether somebody does.
OtherHost(reply, sip, dip) ==
  /\ ~netif.crashed /\ netif.link
  /\ \E mem \in BOOLEAN : Spends(1, mem) /\ Turns(ArpInput(With(mem), reply, sip, dip), None, {})
  /\ Still

Serves(m, x) ==
  /\ m \in wire
  /\ UNCHANGED <<netif, stale, mute, vain>>
  /\ \/ /\ m.type = "discover"
        /\ \E sid \in BOOLEAN :
             /\ wire' = (wire \ {m}) \cup {[type |-> "offer", xid |-> m.xid, addr |-> x, sid |-> sid]}
             /\ Spends(IF sid THEN 0 ELSE 1, TRUE)
        /\ UNCHANGED granted
     \/ /\ m.type = "request" /\ m.addr = x
        /\ wire' = (wire \ {m}) \cup {[type |-> "ack", xid |-> m.xid, addr |-> x]}
        /\ granted' = IF m.xid = netif.d.xid THEN granted \cup {x} ELSE granted
        /\ UNCHANGED trouble
     \/ /\ m.type = "request" /\ Spends(1, TRUE)
        /\ wire' = (wire \ {m}) \cup {[type |-> "nak", xid |-> m.xid]}
        /\ UNCHANGED granted

Replies == {m \in wire : m.type \in {"offer", "ack", "nak"}}

Lost(m) == wire' = wire \ {m} /\ UNCHANGED <<netif, granted, stale, mute, vain, trouble>>

\* A message that arrives twice stays on the wire.
Arrive(m) ==
  /\ m \in Replies /\ ~netif.crashed /\ netif.link
  /\ \E mem \in BOOLEAN, kept \in {{}, {m}} :
       Spends(IF kept = {} THEN 0 ELSE 1, mem) /\ Turns(DhcpRecv(With(mem), m), m, kept)
  /\ Still

AddressNext ==
  \/ Starts \/ Stops \/ Releases \/ LinkFails \/ LinkReturns
  \/ FineTmr \/ CoarseTmr \/ AutoipTicks \/ ConflictForgotten
  \/ \E reply \in BOOLEAN, sip \in {netif.a.ll, netif.d.offered}, dip \in {AnyAddr, netif.a.ll} :
       OtherHost(reply, sip, dip)
  \/ \E m \in wire : (\E x \in Leases : Serves(m, x)) \/ Arrive(m) \/ Lost(m)

AddressSpec == AddressInit /\ [][AddressNext]_addressVars

-----------------------------------------------------------------------------
\* A second dhcp_start forgot an AutoIP that goes on.
Doubled == netif.a.st \notin {"none", "off"} /\ ~netif.d.coop

\* The interface is up only with an address the server acknowledged in the
\* exchange the client is in and it did not give up since, or with the link-local
\* address that AutoIP probed and now defends; a bound lease has the interface.
\* (An old lease that meddles with a new one, answers to a transaction that ought
\* to be over, and a second dhcp_start break this.)
AddressSound ==
  netif.up =>
    /\ netif.ip # AnyAddr
    /\ netif.ip \in Leases => netif.ip \in granted \/ stale \/ vain
    /\ IsLinkLocal(netif.ip) => netif.ip = netif.a.ll /\ Taken(netif)
    /\ netif.d.st = "bound" /\ ~Doubled => netif.ip = netif.d.offered

\* A client without a lease has a timer running, whatever was lost or refused,
\* and one with a lease has the interface up.  (An OFFER that does not say whose
\* it is stops the timer for ever.)
KeepsAsking ==
  /\ netif.d.st \notin {"off", "bound"} => netif.d.timer \/ (mute /\ netif.d.st = "selecting")
  /\ netif.d.st = "bound" => netif.up \/ Doubled
=============================================================================
