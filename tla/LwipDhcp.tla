------------------------------ MODULE LwipDhcp ------------------------------
(***************************************************************************)
(* How an interface of lwIP gets its address: dhcp.c and autoip.c, which   *)
(* share it (LWIP_DHCP_AUTOIP_COOP), with what they change in netif.c.     *)
(*                                                                         *)
(* A handler maps the interface w to the interface it leaves.  w.out is    *)
(* what it sent, w.mem whether there is memory for its messages, w.gave    *)
(* the addresses it gave up.  A timer that counts is a flag: it may go off *)
(* at any time.                                                            *)
(***************************************************************************)
EXTENDS Integers

CONSTANTS
  NumLeases,   \* addresses the server has
  CoopTries,   \* LWIP_DHCP_AUTOIP_COOP_TRIES
  SelectTries, RebindTries, RebootTries, \* requests before the client starts over
  ProbeNum, AnnounceNum,                 \* PROBE_NUM, ANNOUNCE_NUM
  MaxTries     \* `tries' counts no further

AnyAddr == 0
Leases == 1 .. NumLeases
LinkLocal(k) == 100 + k
IsLinkLocal(ip) == ip >= 100

\* What dhcp_start's memset leaves, and an autoip that was never started.
NewDhcp == [st |-> "off", tries |-> 0, timer |-> FALSE, xid |-> 0, offered |-> AnyAddr,
            coop |-> FALSE, leased |-> FALSE, pcb |-> TRUE]
NewAutoip == [st |-> "none", sent |-> 0, ll |-> AnyAddr, tried |-> 0, conflict |-> FALSE]
NewNetif == [up |-> FALSE, link |-> TRUE, ip |-> AnyAddr, xid |-> 0, d |-> [NewDhcp EXCEPT !.pcb = FALSE],
             a |-> NewAutoip, out |-> {}, mem |-> TRUE, gave |-> {}, crashed |-> FALSE]

SetIpaddr(w, ip) == [w EXCEPT !.ip = ip]
SetUp(w) == [w EXCEPT !.up = TRUE]
SetDown(w) == [w EXCEPT !.up = FALSE]
Unconfigure(w) == [SetIpaddr(SetDown(w), AnyAddr) EXCEPT !.gave = Leases]

-----------------------------------------------------------------------------
(* AutoIP.                                                                 *)

AutoipStartProbing(w) == [w EXCEPT !.a.st = "probing", !.a.sent = 0]

AutoipStart(w) ==
  LET down == SetIpaddr(SetDown(w), AnyAddr)
  IN IF w.a.st = "none" /\ ~w.mem THEN down
     ELSE AutoipStartProbing([down EXCEPT !.a.ll = LinkLocal(w.a.tried), !.a.conflict = FALSE])

AutoipRestart(w) == AutoipStart([w EXCEPT !.a.tried = @ + 1])

\* autoip_start may have failed, for lack of memory, without anybody noticing.
AutoipStop(w) ==
  IF w.a.st = "none" THEN [w EXCEPT !.crashed = TRUE] ELSE SetDown([w EXCEPT !.a.st = "off"])

AutoipNetworkChanged(w) ==
  IF w.a.st \in {"none", "off"} THEN w ELSE AutoipStartProbing(SetDown(w))

AutoipBind(w) == SetUp(SetIpaddr(w, w.a.ll))

\* ttw has run out.
AutoipTmr(w) ==
  IF w.a.st = "probing"
  THEN IF w.a.sent >= ProbeNum THEN [w EXCEPT !.a.st = "announcing", !.a.sent = 0]
       ELSE [w EXCEPT !.a.sent = @ + 1]
  ELSE LET b == IF w.a.sent = 0 THEN AutoipBind(w) ELSE w
       IN IF w.a.sent + 1 >= AnnounceNum THEN [b EXCEPT !.a.st = "bound", !.a.sent = 0]
          ELSE [b EXCEPT !.a.sent = @ + 1]

Taken(w) == w.a.st = "bound" \/ (w.a.st = "announcing" /\ w.a.sent > 0)

\* Another host sends from address `sip', or asks for `dip'.
AutoipArpReply(w, sip, dip) ==
  IF w.a.st \in {"none", "off"} THEN w
  ELSE IF ~Taken(w) THEN IF w.a.ll \in {sip, dip} THEN AutoipRestart(w) ELSE w
  ELSE IF sip # w.a.ll THEN w
  ELSE IF w.a.conflict THEN AutoipRestart(w) ELSE [w EXCEPT !.a.conflict = TRUE]

-----------------------------------------------------------------------------
(* DHCP.                                                                   *)

SetState(w, st) ==
  IF w.d.st = st THEN w ELSE [w EXCEPT !.d.st = st, !.d.tries = 0, !.d.timer = FALSE]

\* Mutant: every exchange has the same transaction.
NextXidSame(w) == 1

\* The transaction is a new one with the first try, if there is memory for it.
NextXid(w) == IF w.d.tries = 0 THEN w.xid + 1 ELSE w.xid

CreateMsg(w, type, addr) ==
  IF ~w.mem THEN w
  ELSE [w EXCEPT !.xid = NextXid(w), !.d.xid = NextXid(w),
                 !.out = @ \cup {[type |-> type, xid |-> NextXid(w), addr |-> addr]}]

Tried(w) == [w EXCEPT !.d.tries = IF @ < MaxTries THEN @ + 1 ELSE @]
Retries(w) == [Tried(w) EXCEPT !.d.timer = TRUE]
Ask(w, st, type, addr) == Retries(CreateMsg(SetState(w, st), type, addr))

\* A release names no address: ciaddr is left out of it.
DhcpRelease(w) ==
  Unconfigure(Ask([w EXCEPT !.d.offered = AnyAddr, !.d.leased = FALSE], "off", "release", AnyAddr))

DhcpDiscover(w) ==
  LET d == Ask([w EXCEPT !.d.offered = AnyAddr], "selecting", "discover", AnyAddr)
  IN IF d.d.tries >= CoopTries /\ ~d.d.coop THEN AutoipStart([d EXCEPT !.d.coop = TRUE]) ELSE d

DhcpSelect(w) == Ask(w, "requesting", "request", w.d.offered)
DhcpRenew(w) == Ask(w, "renewing", "request", w.ip)
DhcpRebind(w) == Ask(w, "rebinding", "request", w.ip)
DhcpReboot(w) == Ask(w, "rebooting", "request", w.d.offered)

\* dhcp_check does without create_msg.
DhcpCheck(w) == Retries(SetState(w, "checking"))

DhcpDecline(w) ==
  [Ask(w, "backingOff", "decline", w.d.offered) EXCEPT !.gave = @ \cup {w.d.offered}]

CoopStop(w) == IF w.d.coop THEN AutoipStop([w EXCEPT !.d.coop = FALSE]) ELSE w

DhcpBind(w) ==
  SetState(SetUp(SetIpaddr(CoopStop([w EXCEPT !.d.leased = TRUE]), w.d.offered)), "bound")

\* Mutant: after a NAK the client backs off, and nothing wakes it.
DhcpHandleNakWaiting(w) == SetState(Unconfigure(w), "backingOff")

DhcpHandleNak(w) == DhcpDiscover(SetState(Unconfigure(w), "backingOff"))

\* request_timeout has run out.
DhcpTimeout(w) ==
  LET d == [w EXCEPT !.d.timer = FALSE]
      st == w.d.st
      over == DhcpDiscover(DhcpRelease(d))
  IN CASE st \in {"backingOff", "selecting"} -> DhcpDiscover(d)
       [] st = "requesting" -> IF w.d.tries <= SelectTries THEN DhcpSelect(d) ELSE over
       [] st = "checking" -> IF w.d.tries <= 1 THEN DhcpCheck(d) ELSE DhcpBind(d)
       [] st = "renewing" -> DhcpRenew(d)
       [] st = "rebinding" -> IF w.d.tries <= RebindTries THEN DhcpRebind(d) ELSE over
       [] st = "rebooting" -> IF w.d.tries < RebootTries THEN DhcpReboot(d) ELSE DhcpDiscover(d)
       [] OTHER -> d

Renewable(w) == w.d.st \in {"requesting", "bound", "renewing"}
DhcpT1Timeout(w) == IF Renewable(w) THEN DhcpRenew(w) ELSE w
DhcpT2Timeout(w) == IF Renewable(w) THEN DhcpRebind(w) ELSE w

DhcpStop(w) == SetState([CoopStop(w) EXCEPT !.d.pcb = FALSE], "off")

\* dhcp_start again forgets what it knew: AutoIP goes on without it.
DhcpStart(w) ==
  LET d == DhcpDiscover([w EXCEPT !.d = NewDhcp]) IN IF w.mem THEN d ELSE DhcpStop(d)

DhcpNetworkChanged(w) ==
  LET again == [w EXCEPT !.d.tries = 0]
  IN CASE w.d.st \in {"rebinding", "renewing", "bound", "rebooting"} -> DhcpReboot(SetDown(again))
       [] w.d.st = "off" -> w
       [] OTHER -> DhcpDiscover(CoopStop(again))

SetLinkUp(w) == AutoipNetworkChanged(DhcpNetworkChanged([w EXCEPT !.link = TRUE]))

DhcpArpReply(w, sip) == IF w.d.st = "checking" /\ sip = w.d.offered THEN DhcpDecline(w) ELSE w
ArpInput(w, reply, sip, dip) ==
  LET a == AutoipArpReply(w, sip, dip) IN IF reply THEN DhcpArpReply(a, sip) ELSE a

\* An OFFER stops the timer even if it does not say whose it is.
DhcpHandleOffer(w, m) ==
  LET d == [w EXCEPT !.d.timer = FALSE]
  IN IF m.sid THEN DhcpSelect([d EXCEPT !.d.offered = m.addr]) ELSE d

\* In answer to a renewal nothing of the ACK is read.
DhcpHandleAck(w, m) ==
  IF w.d.st = "requesting" THEN DhcpCheck([w EXCEPT !.d.offered = m.addr]) ELSE DhcpBind(w)

Renewing == {"rebooting", "rebinding", "renewing"}
DhcpRecv(w, m) ==
  IF ~w.d.pcb \/ m.xid # w.d.xid THEN w
  ELSE CASE m.type = "ack" /\ w.d.st \in Renewing \cup {"requesting"} -> DhcpHandleAck(w, m)
         [] m.type = "nak" /\ w.d.st \in Renewing \cup {"requesting"} -> DhcpHandleNak(w)
         [] m.type = "offer" /\ w.d.st = "selecting" -> DhcpHandleOffer(w, m)
         [] OTHER -> w
=============================================================================
