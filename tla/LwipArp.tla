------------------------------ MODULE LwipArp ------------------------------
(***************************************************************************)
(* lwIP's ARP (etharp.c): the table of hardware addresses, the packets     *)
(* that wait for one, and the two interfaces and their hosts around it.    *)
(*                                                                         *)
(* A handler maps the state w to the state it leaves.  w.sent are the      *)
(* packets the running call hands to linkoutput.  Questions go to all and  *)
(* may be lost: a host answers, or speaks unasked, at any time.            *)
(***************************************************************************)
EXTENDS Integers, Sequences, FiniteSetsExt

CONSTANTS
  ArpTableSize,
  ArpMaxAge, ArpRerequestAge, ArpMaxPending, \* in calls of etharp_tmr
  ArpPools,      \* values of MEMP_NUM_ARP_QUEUE, 0 for a build without ARP_QUEUEING
  MaxPackets,    \* packets the layer above sends
  MaxArpFaults   \* failures of memory, moves of a host, interfaces taken down

ASSUME ArpAssumption ==
  /\ ArpTableSize \in Nat \ {0} /\ ArpMaxPending \in Nat \ {0}
  /\ ArpMaxAge \in Nat /\ ArpRerequestAge \in Nat
  /\ ArpPools \subseteq Nat /\ MaxPackets \in Nat /\ MaxArpFaults \in Nat

\* Two interfaces; the hosts beyond each, the first being the gateway of its interface.
Nets == {"lan", "wan"}
HostNet == [gw |-> "lan", pc |-> "lan", isp |-> "wan"]
Hosts == DOMAIN HostNet
Gateway == [lan |-> "gw", wan |-> "any"]

\* Where a packet may go: a neighbour, past the gateway, to everybody on the link.
Targets == {x \in Nets \X (Hosts \cup {"far", "broadcast"}) : x[2] \in Hosts => HostNet[x[2]] = x[1]}

VARIABLES
  arp,      \* the table, as w
  heard,    \* the hardware address each host gave last; a host may move
  sentTo,   \* the last packet sent to each neighbour
  packets,  \* packets handed down so far
  mishaps,  \* what was wrong with a step, see ArpSound
  arpFaults

arpVars == <<arp, heard, sentTo, packets, mishaps, arpFaults>>

Slots == 1 .. ArpTableSize
NoEntry == [st |-> "empty", ip |-> "any", netif |-> "none", mac |-> 0, ctime |-> 0, q |-> <<>>]

Memory == {"ask", "copy"}

NewArp(size) ==
  [tbl |-> [i \in Slots |-> NoEntry], hint |-> 1, pool |-> size, size |-> size, queueing |-> size > 0, mem |-> Memory,
   sent |-> <<>>]

\* A check for use where one for an answer belongs.
Occupied(e) == e.st # "empty"
Known(e) == e.st \in {"stable", "rerequesting", "static"}

\* The places in the queues of some entries, and how many they took from the pool.
Waiting(w, S) == UNION {{i} \X DOMAIN w.tbl[i].q : i \in S}
Held(w, S) == IF w.queueing THEN Cardinality(Waiting(w, S)) ELSE 0

ArpFreeEntries(w, S) ==
  [w EXCEPT !.pool = @ + Held(w, S),
            !.tbl = [i \in Slots |-> IF i \in S THEN [NoEntry EXCEPT !.netif = w.tbl[i].netif] ELSE w.tbl[i]]]

EtharpTmr(w) ==
  LET Older(e) == [e EXCEPT !.ctime = @ + 1]
      Expired(e) == e.ctime + 1 >= ArpMaxAge \/ (e.st = "pending" /\ e.ctime + 1 >= ArpMaxPending)
      Aging == {i \in Slots : w.tbl[i].st \notin {"empty", "static"}}
      Dying == {i \in Aging : Expired(w.tbl[i])}
      aged == [w EXCEPT !.tbl = [i \in Slots |->
                 LET e == w.tbl[i] IN
                 IF i \notin Aging THEN e
                 ELSE IF e.st = "rerequesting" /\ i \notin Dying THEN [Older(e) EXCEPT !.st = "stable"]
                 ELSE Older(e)]]
  IN ArpFreeEntries(aged, Dying)

\* The last of the oldest entries of a set.
OldestOf(w, S) ==
  CHOOSE i \in S : \A j \in S \ {i} : w.tbl[j].ctime < w.tbl[i].ctime
                                       \/ (w.tbl[j].ctime = w.tbl[i].ctime /\ j < i)

\* The entry to give up when the table is full: 0 if all are static.
Victim(w) ==
  LET Stable == {i \in Slots : w.tbl[i].st \in {"stable", "rerequesting"}}
      Pending(queue) == {i \in Slots : w.tbl[i].st = "pending" /\ (w.tbl[i].q # <<>>) = queue}
  IN IF Stable # {} THEN OldestOf(w, Stable)
     ELSE IF Pending(FALSE) # {} THEN OldestOf(w, Pending(FALSE))
     ELSE IF Pending(TRUE) # {} THEN OldestOf(w, Pending(TRUE))
     ELSE 0

\* The state and the index of the entry for ip, 0 for ERR_MEM.  A new entry
\* stays empty until the caller gives it a state.
ArpFindEntry(w, ip, tryHard, findOnly) ==
  LET Match == {i \in Slots : w.tbl[i].st # "empty" /\ w.tbl[i].ip = ip}
      Free == {i \in Slots : w.tbl[i].st = "empty"}
      Found(v, i) == [w |-> v, i |-> i]
      Fresh(v, i) == Found([v EXCEPT !.tbl[i] = [@ EXCEPT !.ip = ip, !.ctime = 0]], i)
  IN IF Match # {} THEN Found(w, Min(Match))
     ELSE IF findOnly \/ (Free = {} /\ ~tryHard) THEN Found(w, 0)
     ELSE IF Free # {} THEN Fresh(w, Min(Free))
     ELSE IF Victim(w) = 0 THEN Found(w, 0)
     ELSE Fresh(ArpFreeEntries(w, {Victim(w)}), Victim(w))

\* Sends the packets q to a neighbour.
EtharpSendIp(w, q, to, mac) ==
  [w EXCEPT !.sent = [k \in DOMAIN q |-> [n |-> q[k], to |-> to, mac |-> mac]]]

\* What waited for the address is sent, oldest first.
UpdateArpEntry(w, ifc, ip, mac, tryHard, static) ==
  LET f == ArpFindEntry(w, ip, tryHard, ~tryHard)
      e == f.w.tbl[f.i]
      known == [f.w EXCEPT !.tbl[f.i] = [e EXCEPT !.st = IF static THEN "static" ELSE "stable",
                                                  !.netif = ifc, !.mac = mac, !.ctime = 0, !.q = <<>>],
                           !.pool = @ + Held(f.w, {f.i})]
  IN IF f.i = 0 THEN w ELSE EtharpSendIp(known, e.q, ip, mac)

AddStaticEntry(w, ifc, ip, mac) == UpdateArpEntry(w, ifc, ip, mac, TRUE, TRUE)

RemoveStaticEntry(w, ip) ==
  LET f == ArpFindEntry(w, ip, FALSE, TRUE)
  IN IF f.i = 0 \/ w.tbl[f.i].st # "static" THEN w ELSE ArpFreeEntries(w, {f.i})

\* An entry remembers its interface from its last answer, also while pending.
CleanupNetif(w, ifc) == ArpFreeEntries(w, {i \in Slots : w.tbl[i].st # "empty" /\ w.tbl[i].netif = ifc})

\* Sends to an entry that is known, entered again when it will expire soon.
OutputToIndex(w, n, i) ==
  LET e == w.tbl[i]
      renew == e.st = "stable" /\ e.ctime >= ArpRerequestAge /\ "ask" \in w.mem
  IN EtharpSendIp(IF renew THEN [w EXCEPT !.tbl[i].st = "rerequesting"] ELSE w, <<n>>, e.ip, e.mac)

\* n is the packet to send, 0 if the caller only wants the address.
EtharpQuery(w, ip, n) ==
  LET f == ArpFindEntry(w, ip, TRUE, FALSE)
      i == f.i
      entered == IF f.w.tbl[i].st = "empty" THEN [f.w EXCEPT !.tbl[i].st = "pending"] ELSE f.w
      e == entered.tbl[i]
  IN IF i = 0 THEN w
     ELSE IF n = 0 THEN entered
     ELSE IF e.st # "pending" THEN EtharpSendIp([entered EXCEPT !.hint = i], <<n>>, ip, e.mac)
     ELSE IF "copy" \notin w.mem \/ (w.queueing /\ entered.pool = 0) THEN entered
     ELSE IF w.queueing THEN [entered EXCEPT !.tbl[i].q = Append(@, n), !.pool = @ - 1]
     ELSE [entered EXCEPT !.tbl[i].q = <<n>>]

\* The neighbour a packet goes to: "any" when there is no gateway.
NextHop(ifc, t) == IF t = "far" THEN Gateway[ifc] ELSE t

EtharpOutput(w, ifc, t, n) ==
  LET ip == NextHop(ifc, t)
      Hit == {i \in Slots : Known(w.tbl[i]) /\ w.tbl[i].ip = ip}
  IN IF t = "broadcast" THEN EtharpSendIp(w, <<n>>, t, 0)
     ELSE IF ip = "any" THEN w
     ELSE IF w.hint \in Hit THEN OutputToIndex(w, n, w.hint)
     ELSE IF Hit # {} THEN OutputToIndex([w EXCEPT !.hint = Min(Hit)], n, Min(Hit))
     ELSE EtharpQuery(w, ip, n)

\* An ARP packet of host ip, for us (a question or an answer) or for another.
EtharpArpInput(w, ifc, ip, mac, forUs) == UpdateArpEntry(w, ifc, ip, mac, forUs, FALSE)

-----------------------------------------------------------------------------
ArpInit ==
  /\ arp \in {NewArp(size) : size \in ArpPools}
  /\ heard = [h \in Hosts |-> 1] /\ sentTo = [h \in Hosts |-> 0]
  /\ packets = 0 /\ mishaps = {} /\ arpFaults = 0

GivesUpQueue(w) ==
  \E i, j \in Slots : /\ arp.tbl[i].q # <<>> /\ w.tbl[i].ip \notin {arp.tbl[i].ip, "any"}
                      /\ arp.tbl[j].st # "static" /\ arp.tbl[j].q = <<>>

\* The packets of w.sent for neighbours, and for one of them.
ToHosts(w) == {k \in DOMAIN w.sent : w.sent[k].to \in Hosts}
SentTo(w, h) == {k \in DOMAIN w.sent : w.sent[k].to = h}

\* What goes wrong when the table becomes w.
Mishaps(w) ==
  {x \in {"order", "address", "queue"} :
     \/ /\ x = "order"
        /\ \E k \in ToHosts(w) : \/ w.sent[k].n <= sentTo[w.sent[k].to]
                                 \/ \E j \in ToHosts(w) : j < k /\ w.sent[k].n <= w.sent[j].n
     \/ x = "address" /\ \E k \in ToHosts(w) : w.sent[k].mac # heard'[w.sent[k].to]
     \/ x = "queue" /\ GivesUpQueue(w)}

\* A handler turns the table into w.
Handled(Handler(_), mem) ==
  LET w == Handler([arp EXCEPT !.mem = mem])
  IN /\ arp' = [w EXCEPT !.sent = <<>>, !.mem = Memory]
     /\ mishaps' = mishaps \cup Mishaps(w)
     /\ sentTo' = [h \in Hosts |-> IF SentTo(w, h) = {} THEN sentTo[h] ELSE w.sent[Max(SentTo(w, h))].n]

ArpFault == arpFaults < MaxArpFaults /\ arpFaults' = arpFaults + 1

\* The layer above calls, and some memory may be missing.
Called(Handler(_)) ==
  /\ UNCHANGED heard
  /\ \/ arpFaults' = arpFaults /\ Handled(Handler, Memory)
     \/ ArpFault /\ \E mem \in SUBSET Memory \ {Memory} : Handled(Handler, mem)

Outputs(ifc, t) ==
  /\ packets < MaxPackets /\ packets' = packets + 1
  /\ Called(LAMBDA w : EtharpOutput(w, ifc, t, packets + 1))

\* The check of DHCP for somebody who uses an address.
Queries(h) == Called(LAMBDA w : EtharpQuery(w, h, 0)) /\ UNCHANGED packets

ArpTicks == UNCHANGED <<heard, packets, arpFaults>> /\ Handled(EtharpTmr, Memory)

\* A host answers, or speaks unasked: to us or to others, as a new card perhaps.
Answers(h) ==
  /\ UNCHANGED <<heard, packets, arpFaults>>
  /\ Handled(LAMBDA w : EtharpArpInput(w, HostNet[h], h, heard[h], TRUE), Memory)
Speaks(h, mac, forUs) ==
  /\ ArpFault /\ heard' = [heard EXCEPT ![h] = mac] /\ UNCHANGED packets
  /\ Handled(LAMBDA w : EtharpArpInput(w, HostNet[h], h, mac, forUs), Memory)

\* The application enters an address by hand or removes it again, or takes an
\* interface down.
AddsStatic(h) ==
  /\ ArpFault /\ UNCHANGED <<heard, packets>>
  /\ Handled(LAMBDA w : AddStaticEntry(w, HostNet[h], h, heard[h]), Memory)
RemovesStatic(h) ==
  /\ UNCHANGED <<heard, packets, arpFaults>> /\ Handled(LAMBDA w : RemoveStaticEntry(w, h), Memory)
TakesDown(ifc) ==
  /\ ArpFault /\ UNCHANGED <<heard, packets>> /\ Handled(LAMBDA w : CleanupNetif(w, ifc), Memory)

ArpNext ==
  \/ ArpTicks
  \/ \E x \in Targets : Outputs(x[1], x[2])
  \/ Queries("pc") \/ AddsStatic("isp") \/ RemovesStatic("isp")
  \/ \E h \in Hosts : Answers(h)
  \/ \E mac \in {1, 2}, forUs \in BOOLEAN : Speaks("pc", mac, forUs)
  \/ \E ifc \in Nets : TakesDown(ifc)

ArpSpec == ArpInit /\ [][ArpNext]_arpVars

-----------------------------------------------------------------------------
\* One entry for an address; only an entry that is asked about has a queue, and
\* not for longer than ArpMaxPending ticks; a known one has the address that its
\* host gave last.
ArpTableSound ==
  \A i \in Slots : LET e == arp.tbl[i] IN e.st # "empty" =>
    /\ \A j \in Slots \ {i} : arp.tbl[j].st # "empty" => arp.tbl[j].ip # e.ip
    /\ IF e.st = "pending" THEN e.ctime < ArpMaxPending ELSE e.q = <<>> /\ e.mac = heard[e.ip]

\* A packet that waits was handed down after all its neighbour got.
ArpQueuesInOrder ==
  \A i \in Slots : LET q == arp.tbl[i].q IN
    \A k \in DOMAIN q : q[k] > (IF k = 1 THEN sentTo[arp.tbl[i].ip] ELSE q[k - 1])

\* Each entry of the pool is free or in a queue.
ArpPoolKept == arp.queueing => arp.pool + Cardinality(Waiting(arp, Slots)) = arp.size

\* A neighbour gets its packets in the order they were handed down, none twice,
\* at the hardware address it gave last, whether they had to wait or not, and
\* packets that wait make room for a new neighbour only when every entry has some.
ArpSound == ArpTableSound /\ ArpQueuesInOrder /\ ArpPoolKept /\ mishaps = {}
=============================================================================
