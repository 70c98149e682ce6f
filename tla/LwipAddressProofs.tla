-------------------------- MODULE LwipAddressProofs --------------------------
(***************************************************************************)
(* An interface of lwIP that DHCP and AutoIP configure, for any number of  *)
(* leases, messages, transactions and failures: it is up only with an      *)
(* address it may use, and a client without a lease keeps asking.          *)
(***************************************************************************)
EXTENDS LwipAddress, TLAPS

DhcpStates == {"off", "selecting", "requesting", "checking", "bound", "renewing",
               "rebinding", "rebooting", "backingOff"}
AutoipStates == {"none", "off", "probing", "announcing", "bound"}

\* The states in which an address is held, and those in which one was offered.
Leased == {"bound", "renewing", "rebinding", "rebooting"}
Offered == Leased \cup {"requesting", "checking"}

Kinds == {"discover", "request", "release", "decline"}
Sent == [type : Kinds, xid : Nat, addr : Nat]
Received ==
  [type : {"offer"}, xid : Nat, addr : Leases, sid : BOOLEAN]
    \cup [type : {"ack"}, xid : Nat, addr : Leases]
    \cup [type : {"nak"}, xid : Nat]

Dhcp == [st : DhcpStates, tries : Nat, timer : BOOLEAN, xid : Nat, offered : Nat,
         coop : BOOLEAN, leased : BOOLEAN, pcb : BOOLEAN]
Autoip == [st : AutoipStates, sent : Nat, ll : Nat, tried : Nat, conflict : BOOLEAN]
Netif == [up : BOOLEAN, link : BOOLEAN, ip : Nat, xid : Nat, d : Dhcp, a : Autoip,
          out : SUBSET Sent, mem : BOOLEAN, gave : SUBSET Nat, crashed : BOOLEAN]

-----------------------------------------------------------------------------
(* The invariant.                                                          *)

\* AutoIP runs and DHCP does not know of it.
Forgot(w) == w.a.st \notin {"none", "off"} /\ ~w.d.coop

LeaseSane(w) ==
  /\ w.d.st \in Offered => w.d.offered \in Leases
  /\ w.d.st = "bound" => ~w.d.coop
  /\ w.d.st = "bound" /\ ~Forgot(w) => w.up /\ w.ip = w.d.offered

AddressSane(w) ==
  /\ w.a.st # "none" => w.a.ll >= 100
  /\ w.up => w.ip \in Leases \/ (w.ip = w.a.ll /\ Taken(w))

\* Transactions are numbered upwards; the client is in the last one.
XidSane(w) ==
  /\ w.xid >= 1 /\ w.d.xid <= w.xid
  /\ w.d.xid = w.xid \/ (w.d.st = "off" /\ ~w.d.pcb)
  /\ \A m \in w.out : m.xid \in 1 .. w.xid

Sane(w) == w \in Netif /\ LeaseSane(w) /\ AddressSane(w) /\ XidSane(w)

AddressTypes ==
  /\ Sane(netif) /\ netif.out = {} /\ netif.gave = {}
  /\ wire \subseteq Sent \cup Received
  /\ \A m \in wire : m.xid \in 1 .. netif.xid

\* The states in which the address of the interface is the lease's.
Owns == {"bound", "renewing", "rebinding", "off"}

\* What the client acts on was granted.
Granted ==
  /\ \A m \in wire : m.type = "ack" /\ m.xid = netif.d.xid /\ netif.d.st # "off" =>
       m.addr \in granted \/ vain
  /\ netif.d.st = "checking" => netif.d.offered \in granted \/ vain
  /\ netif.d.st \in Leased => netif.d.offered \in granted \/ stale \/ vain
  /\ netif.up /\ netif.ip \in Leases =>
       /\ netif.d.st \in Owns \/ stale \/ vain
       /\ netif.ip \in granted \/ stale \/ vain

Asking == netif.d.st \notin {"off", "bound"} => netif.d.timer \/ (mute /\ netif.d.st = "selecting")

AddressInv == AddressTypes /\ Granted /\ Asking

-----------------------------------------------------------------------------
(* Messages and states.                                                    *)

\* The transaction stays or is followed by a new one.
XidStep(w, v) ==
  /\ v.mem = w.mem
  /\ \/ v.xid = w.xid /\ v.d.xid = w.d.xid
     \/ v.xid > w.xid /\ v.d.xid = v.xid

OutSane(w) == w.xid >= 1 /\ \A m \in w.out : m.xid \in 1 .. w.xid

\* The transaction is a new one, and the only new message is of it.
Fresh(w, v) ==
  v.xid = w.xid + 1 /\ v.d.xid = v.xid /\ \A m \in v.out : m \in w.out \/ m.xid = v.xid

\* The interface itself and AutoIP stay as they are.
SameAddress(w, v) == v.a = w.a /\ v.up = w.up /\ v.ip = w.ip

\* What DHCP knows, but for its state, the counters and the transaction.
SameLease(w, v) ==
  v.d.offered = w.d.offered /\ v.d.coop = w.d.coop /\ v.d.leased = w.d.leased /\ v.d.pcb = w.d.pcb

\* All but what DHCP knows.
Same(w, v) == v.a = w.a /\ v.up = w.up /\ v.ip = w.ip /\ v.xid = w.xid /\ v.out = w.out
              /\ v.gave = w.gave /\ v.mem = w.mem

LEMMA PutDhcp ==
  ASSUME NEW w \in Netif, NEW x \in Dhcp
  PROVE  LET v == [w EXCEPT !.d = x]
         IN v \in Netif /\ v.d = x /\ Same(w, v)
BY DEF Netif, Same

LEMMA SetStateIs ==
  ASSUME NEW w \in Netif, NEW st \in DhcpStates
  PROVE  LET v == SetState(w, st)
         IN /\ v \in Netif /\ v.d.st = st /\ SameLease(w, v) /\ SameAddress(w, v)
            /\ v.xid = w.xid /\ v.d.xid = w.d.xid /\ v.out = w.out /\ v.gave = w.gave
            /\ v.mem = w.mem
            /\ w.d.st # st => v.d.tries = 0
            /\ w.d.st = st => v = w
<1>1. SetState(w, st) \in Netif
  BY DEF SetState, Netif, Dhcp
<1> QED
  BY <1>1 DEF SetState, Netif, Dhcp, SameLease, SameAddress

LEMMA CreateMsgType ==
  ASSUME NEW w \in Netif, NEW t \in Kinds, NEW addr \in Nat
  PROVE  CreateMsg(w, t, addr) \in Netif
<1> DEFINE x == NextXid(w)
           n == [type |-> t, xid |-> x, addr |-> addr]
<1>1. x \in Nat
  BY DEF NextXid, Netif
<1>2. n \in Sent
  BY <1>1 DEF Sent
<1>3. [w.d EXCEPT !.xid = x] \in Dhcp
  BY <1>1 DEF Netif, Dhcp
<1>4. w.out \cup {n} \in SUBSET Sent
  BY <1>2 DEF Netif
<1>5. CreateMsg(w, t, addr) =
        IF ~w.mem THEN w ELSE [w EXCEPT !.xid = x, !.d = [w.d EXCEPT !.xid = x], !.out = w.out \cup {n}]
  BY DEF CreateMsg, Netif
<1> HIDE DEF x, n
<1> QED
  BY <1>1, <1>3, <1>4, <1>5 DEF Netif

LEMMA CreateMsgFields ==
  ASSUME NEW w \in Netif, NEW t \in Kinds, NEW addr \in Nat
  PROVE  LET v == CreateMsg(w, t, addr)
         IN /\ v.d.st = w.d.st /\ v.d.timer = w.d.timer /\ SameLease(w, v) /\ SameAddress(w, v)
            /\ v.gave = w.gave /\ v.mem = w.mem
            /\ v.xid = IF w.mem THEN NextXid(w) ELSE w.xid
            /\ v.d.xid = IF w.mem THEN NextXid(w) ELSE w.d.xid
            /\ \A m \in v.out : m \in w.out \/ m.xid = v.xid
<1> DEFINE v == CreateMsg(w, t, addr)
<1>1. /\ v.d.st = w.d.st /\ v.d.timer = w.d.timer /\ SameLease(w, v) /\ SameAddress(w, v)
      /\ v.gave = w.gave /\ v.mem = w.mem
  BY DEF CreateMsg, Netif, Dhcp, SameLease, SameAddress
<1>2. /\ v.xid = IF w.mem THEN NextXid(w) ELSE w.xid
      /\ v.d.xid = IF w.mem THEN NextXid(w) ELSE w.d.xid
  BY DEF CreateMsg, Netif, Dhcp
<1>3. v.out = IF w.mem THEN w.out \cup {[type |-> t, xid |-> NextXid(w), addr |-> addr]} ELSE w.out
  BY DEF CreateMsg, Netif
<1> HIDE DEF v
<1>4. \A m \in v.out : m \in w.out \/ m.xid = v.xid
  BY <1>2, <1>3
<1> QED
  BY <1>1, <1>2, <1>4 DEF v

LEMMA RetriesIs ==
  ASSUME NEW w \in Netif
  PROVE  LET v == Retries(w)
         IN /\ v \in Netif /\ v.d.st = w.d.st /\ v.d.timer /\ SameLease(w, v) /\ SameAddress(w, v)
            /\ v.xid = w.xid /\ v.d.xid = w.d.xid /\ v.out = w.out /\ v.gave = w.gave
            /\ v.mem = w.mem
<1> DEFINE n == IF w.d.tries < MaxTries THEN w.d.tries + 1 ELSE w.d.tries
           x == [w.d EXCEPT !.tries = n, !.timer = TRUE]
<1>1. n \in Nat /\ w.d \in Dhcp
  BY DEF Netif, Dhcp
<1>2. Retries(w) = [w EXCEPT !.d = x]
  BY DEF Retries, Tried, Netif, Dhcp
<1> HIDE DEF n
<1>3. /\ x \in Dhcp /\ x.st = w.d.st /\ x.timer /\ x.xid = w.d.xid /\ x.offered = w.d.offered
      /\ x.coop = w.d.coop /\ x.leased = w.d.leased /\ x.pcb = w.d.pcb
  BY <1>1 DEF Dhcp
<1> HIDE DEF x
<1> QED
  BY <1>2, <1>3, PutDhcp DEF Same, SameLease, SameAddress

\* A message is sent in the last transaction, or in a new one on a change of state.
LEMMA AskIs ==
  ASSUME NEW w \in Netif, NEW st \in DhcpStates, NEW t \in Kinds, NEW addr \in Nat,
         w.d.xid = w.xid \/ w.d.st # st
  PROVE  LET v == Ask(w, st, t, addr)
         IN /\ v \in Netif /\ v.d.st = st /\ v.d.timer /\ SameLease(w, v) /\ SameAddress(w, v)
            /\ XidStep(w, v) /\ v.gave = w.gave
            /\ OutSane(w) => OutSane(v)
            /\ w.mem /\ w.d.st # st => Fresh(w, v)
<1> DEFINE s == SetState(w, st)
           c == CreateMsg(s, t, addr)
<1>1. /\ s \in Netif /\ s.d.st = st /\ SameLease(w, s) /\ SameAddress(w, s)
      /\ s.xid = w.xid /\ s.d.xid = w.d.xid /\ s.out = w.out /\ s.gave = w.gave
      /\ w.d.st # st => s.d.tries = 0
      /\ s.mem = w.mem
  BY SetStateIs
<1> HIDE DEF s
<1>2. /\ c \in Netif /\ c.d.st = st /\ SameLease(s, c) /\ SameAddress(s, c) /\ c.gave = s.gave
      /\ c.mem = s.mem
      /\ c.xid = (IF s.mem THEN NextXid(s) ELSE s.xid)
      /\ c.d.xid = (IF s.mem THEN NextXid(s) ELSE s.d.xid)
      /\ \A m \in c.out : m \in s.out \/ m.xid = c.xid
  BY <1>1, CreateMsgType, CreateMsgFields
<1>3. XidStep(w, c)
  BY <1>1, <1>2 DEF XidStep, NextXid, Netif
<1>4. OutSane(w) => OutSane(c)
  <2>1. c.xid \in Nat /\ w.xid \in Nat /\ c.xid >= w.xid
    BY <1>2, <1>3 DEF XidStep, Netif
  <2> QED
    BY <1>1, <1>2, <2>1 DEF OutSane
<1>6. w.mem /\ w.d.st # st => Fresh(w, c)
  BY <1>1, <1>2 DEF Fresh, NextXid
<1> HIDE DEF c
<1>5. Ask(w, st, t, addr) = Retries(c)
  BY DEF Ask, c, s
<1> QED
  BY <1>1, <1>2, <1>3, <1>4, <1>5, <1>6, RetriesIs DEF SameLease, SameAddress, XidStep, OutSane, Fresh

-----------------------------------------------------------------------------
(* AutoIP leaves DHCP and its messages alone.                              *)

AutoSane(w) == w.a.st # "none" => w.a.ll >= 100

SameDhcp(w, v) ==
  v.d = w.d /\ v.xid = w.xid /\ v.out = w.out /\ v.gave = w.gave /\ v.mem = w.mem

LEMMA AutoipStartIs ==
  ASSUME NEW w \in Netif
  PROVE  LET v == AutoipStart(w)
         IN /\ v \in Netif /\ SameDhcp(w, v)
            /\ AutoSane(v) /\ ~v.up /\ v.ip = 0
<1> DEFINE down == [w EXCEPT !.up = FALSE, !.ip = 0]
           y == [w.a EXCEPT !.ll = 100 + w.a.tried, !.conflict = FALSE]
           u == [down EXCEPT !.a = y]
           x == [y EXCEPT !.st = "probing", !.sent = 0]
           v == [u EXCEPT !.a = x]
<1>1. w.a \in Autoip /\ w.a.tried \in Nat
  BY DEF Netif, Autoip
<1>2. down \in Netif /\ SameDhcp(w, down) /\ ~down.up /\ down.ip = 0 /\ down.a = w.a
  BY DEF Netif, SameDhcp
<1>3. AutoipStart(w) = IF w.a.st = "none" /\ ~w.mem THEN down
                       ELSE AutoipStartProbing([down EXCEPT !.a.ll = 100 + w.a.tried, !.a.conflict = FALSE])
  BY DEF AutoipStart, SetIpaddr, SetDown, AnyAddr, LinkLocal
<1> HIDE DEF down
<1>4. [down EXCEPT !.a.ll = 100 + w.a.tried, !.a.conflict = FALSE] = u
  BY <1>1, <1>2 DEF Netif, Autoip
<1>5. y \in Autoip /\ y.ll >= 100
  <2>1. 100 + w.a.tried \in Nat /\ 100 + w.a.tried >= 100
    BY <1>1
  <2>2. y.ll = 100 + w.a.tried
    BY <1>1 DEF Autoip
  <2> QED
    BY <1>1, <2>1, <2>2 DEF Autoip
<1> HIDE DEF y
<1>6. u \in Netif /\ SameDhcp(w, u) /\ ~u.up /\ u.ip = 0 /\ u.a = y
  BY <1>2, <1>5 DEF Netif, SameDhcp
<1> HIDE DEF u
<1>7. AutoipStartProbing(u) = v
  BY <1>5, <1>6 DEF AutoipStartProbing, Netif, Autoip
<1>8. x \in Autoip /\ x.ll = y.ll
  BY <1>5 DEF Autoip, AutoipStates
<1> HIDE DEF x
<1>9. v \in Netif /\ SameDhcp(w, v) /\ ~v.up /\ v.ip = 0 /\ v.a = x
  BY <1>6, <1>8 DEF Netif, SameDhcp
<1>10. AutoSane(v) /\ (w.a.st = "none" => AutoSane(down))
  BY <1>2, <1>5, <1>8, <1>9 DEF AutoSane
<1>11. AutoipStart(w) = IF w.a.st = "none" /\ ~w.mem THEN down ELSE v
  BY <1>3, <1>4, <1>7
<1> HIDE DEF v
<1> QED
  BY <1>2, <1>9, <1>10, <1>11

LEMMA AutoipRestartIs ==
  ASSUME NEW w \in Netif
  PROVE  LET v == AutoipRestart(w)
         IN /\ v \in Netif /\ SameDhcp(w, v)
            /\ AutoSane(v) /\ ~v.up /\ v.ip = 0
<1> DEFINE x == [w.a EXCEPT !.tried = w.a.tried + 1]
           u == [w EXCEPT !.a = x]
<1>1. x \in Autoip
  BY DEF Netif, Autoip
<1>2. AutoipRestart(w) = AutoipStart(u)
  BY DEF AutoipRestart, Netif, Autoip
<1> HIDE DEF x
<1>3. u \in Netif /\ SameDhcp(w, u)
  BY <1>1 DEF Netif, SameDhcp
<1> HIDE DEF u
<1> QED
  BY <1>2, <1>3, AutoipStartIs DEF SameDhcp

LEMMA AutoipStopIs ==
  ASSUME NEW w \in Netif
  PROVE  LET v == AutoipStop(w)
         IN /\ v \in Netif /\ SameDhcp(w, v) /\ v.ip = w.ip
            /\ AutoSane(w) => AutoSane(v)
            /\ v.up => w.up /\ v.a = w.a
<1>1. CASE w.a.st = "none"
  <2>1. AutoipStop(w) = [w EXCEPT !.crashed = TRUE]
    BY <1>1 DEF AutoipStop
  <2> DEFINE v == [w EXCEPT !.crashed = TRUE]
  <2>2. v \in Netif /\ SameDhcp(w, v) /\ v.ip = w.ip /\ v.up = w.up /\ v.a = w.a
    BY DEF Netif, SameDhcp
  <2> QED
    BY <2>1, <2>2 DEF AutoSane
<1>2. CASE w.a.st # "none"
  <2> DEFINE x == [w.a EXCEPT !.st = "off"]
  <2>1. x \in Autoip /\ x.ll = w.a.ll
    BY DEF Netif, Autoip, AutoipStates
  <2>2. AutoipStop(w) = [w EXCEPT !.a = x, !.up = FALSE]
    BY <1>2 DEF AutoipStop, SetDown, Netif, Autoip
  <2> HIDE DEF x
  <2> QED
    BY <1>2, <2>1, <2>2 DEF Netif, SameDhcp, AutoSane
<1> QED
  BY <1>1, <1>2

LEMMA AutoipNetworkChangedIs ==
  ASSUME NEW w \in Netif, AutoSane(w)
  PROVE  LET v == AutoipNetworkChanged(w)
         IN /\ v \in Netif /\ SameDhcp(w, v) /\ AutoSane(v)
            /\ v = w \/ ~v.up
<1>1. CASE w.a.st \in {"none", "off"}
  BY <1>1 DEF AutoipNetworkChanged, SameDhcp
<1>2. CASE w.a.st \notin {"none", "off"}
  <2> DEFINE x == [w.a EXCEPT !.st = "probing", !.sent = 0]
  <2>1. x \in Autoip /\ x.ll = w.a.ll
    BY DEF Netif, Autoip, AutoipStates
  <2>2. AutoipNetworkChanged(w) = [w EXCEPT !.up = FALSE, !.a = x]
    BY <1>2 DEF AutoipNetworkChanged, AutoipStartProbing, SetDown, Netif, Autoip
  <2> HIDE DEF x
  <2> QED
    BY <1>2, <2>1, <2>2 DEF Netif, SameDhcp, AutoSane
<1> QED
  BY <1>1, <1>2

\* What AutoIP does to an interface it holds.
AutoipMoves(w, v) ==
  /\ v \in Netif /\ SameDhcp(w, v)
  /\ AddressSane(v)
  /\ v.up => (w.up /\ v.ip = w.ip) \/ v.ip >= 100
  /\ w.a.st \in {"none", "off"} => v = w
  /\ w.a.st \notin {"none", "off"} => v.a.st \notin {"none", "off"}

LEMMA AutoipTmrMoves ==
  ASSUME NEW w \in Netif, AddressSane(w), w.a.st \in {"probing", "announcing"}
  PROVE  AutoipMoves(w, AutoipTmr(w))
<1> DEFINE next == [w.a EXCEPT !.sent = w.a.sent + 1]
           on(st) == [w.a EXCEPT !.st = st, !.sent = 0]
           bind == [w EXCEPT !.ip = w.a.ll, !.up = TRUE]
<1>0. w.a \in Autoip /\ w.a.ll \in Nat /\ w.a.ll >= 100
  BY DEF Netif, Autoip, AddressSane
<1>1. /\ next \in Autoip /\ next.st = w.a.st /\ next.ll = w.a.ll /\ next.sent > 0
      /\ \A st \in AutoipStates : on(st) \in Autoip /\ on(st).st = st /\ on(st).ll = w.a.ll
  <2>1. /\ next \in Autoip /\ next.st = w.a.st /\ next.ll = w.a.ll
        /\ next.sent = w.a.sent + 1 /\ w.a.sent \in Nat
    BY <1>0 DEF Autoip
  <2>2. ASSUME NEW st \in AutoipStates
        PROVE  on(st) \in Autoip /\ on(st).st = st /\ on(st).ll = w.a.ll
    BY <1>0 DEF Autoip
  <2>3. next.sent > 0
    BY <2>1
  <2> QED
    BY <2>1, <2>2, <2>3
<1>2. /\ bind \in Netif /\ SameDhcp(w, bind) /\ bind.a = w.a
      /\ bind.up /\ bind.ip = w.a.ll
  BY DEF Netif, Autoip, SameDhcp
<1>3. w.a.st = "probing" =>
        AutoipTmr(w) \in {[w EXCEPT !.a = next], [w EXCEPT !.a = on("announcing")]}
  BY DEF AutoipTmr, Netif, Autoip
<1>4. w.a.st = "announcing" =>
        LET b == IF w.a.sent = 0 THEN bind ELSE w
        IN  AutoipTmr(w) \in {[b EXCEPT !.a = next], [b EXCEPT !.a = on("bound")]}
  BY DEF AutoipTmr, AutoipBind, SetUp, SetIpaddr, Netif, Autoip
<1> HIDE DEF next, on, bind
<1>5. ASSUME NEW b \in {w, bind}, NEW x \in Autoip, x.ll = w.a.ll, x.st \notin {"none", "off"},
             b = bind \/ w.a.sent # 0 \/ w.a.st = "probing",
             b = w \/ w.a.st = "announcing",
             w.a.st = "announcing" => x.st = "bound" \/ (x.st = "announcing" /\ x.sent > 0)
      PROVE  AutoipMoves(w, [b EXCEPT !.a = x])
  <2> DEFINE v == [b EXCEPT !.a = x]
  <2>1. /\ v \in Netif /\ SameDhcp(w, v) /\ v.a = x /\ v.up = b.up /\ v.ip = b.ip
        /\ b = w \/ (v.up /\ v.ip = w.a.ll)
    BY <1>2, <1>5 DEF Netif, SameDhcp
  <2> HIDE DEF v
  <2>2. w.a.st \in {"probing", "announcing"}
    OBVIOUS
  <2>3. v.ip = w.a.ll => v.ip >= 100
    BY <1>0
  <2>4. (v.up => (w.up /\ v.ip = w.ip) \/ v.ip >= 100) /\ v.a.ll >= 100
    BY <2>1, <2>3, <1>0, <1>5
  <2>5. w.a.st = "announcing" => Taken(v)
    BY <2>1, <1>5 DEF Taken
  <2>6. w.a.st = "probing" => ~Taken(w)
    BY DEF Taken
  <2>7. v.up /\ v.ip \notin Leases => v.ip = v.a.ll /\ w.a.st = "announcing"
    BY <2>1, <2>2, <2>6, <1>0, <1>5 DEF AddressSane
  <2>8. AddressSane(v)
    BY <2>4, <2>5, <2>7 DEF AddressSane
  <2> QED
    BY <2>1, <2>2, <2>4, <2>8, <1>5 DEF AutoipMoves, v
<1> QED
  BY <1>1, <1>3, <1>4, <1>5 DEF AutoipStates, Netif, Autoip

LEMMA AutoipArpReplyMoves ==
  ASSUME NEW w \in Netif, AddressSane(w), NEW sip \in Nat, NEW dip \in Nat
  PROVE  AutoipMoves(w, AutoipArpReply(w, sip, dip))
<1> DEFINE x == [w.a EXCEPT !.conflict = TRUE]
           c == [w EXCEPT !.a = x]
           r == AutoipRestart(w)
           v == AutoipArpReply(w, sip, dip)
<1>1. \/ v = w
      \/ w.a.st \notin {"none", "off"} /\ (v = r \/ v = c)
  BY DEF AutoipArpReply, Netif, Autoip
<1>2. AutoipMoves(w, w)
  BY DEF AutoipMoves, SameDhcp
<1>3. w.a.st \notin {"none", "off"} => AutoipMoves(w, c)
  <2>1. x \in Autoip /\ x.st = w.a.st /\ x.sent = w.a.sent /\ x.ll = w.a.ll
    BY DEF Netif, Autoip
  <2> HIDE DEF x
  <2>2. c \in Netif /\ SameDhcp(w, c) /\ c.up = w.up /\ c.ip = w.ip /\ c.a = x
    BY <2>1 DEF Netif, SameDhcp
  <2>3. AddressSane(c)
    BY <2>1, <2>2 DEF AddressSane, Taken
  <2> QED
    BY <2>1, <2>2, <2>3 DEF AutoipMoves
<1>4. w.a.st \notin {"none", "off"} => AutoipMoves(w, r)
  <2>1. w.a.st \notin {"none", "off"} => r.a.st \notin {"none", "off"}
    BY DEF AutoipRestart, AutoipStart, AutoipStartProbing, SetIpaddr, SetDown, Netif, Autoip
  <2> HIDE DEF r
  <2>2. r \in Netif /\ SameDhcp(w, r) /\ AutoSane(r) /\ ~r.up /\ r.ip = 0
    BY AutoipRestartIs DEF r
  <2> QED
    BY <2>1, <2>2 DEF AutoipMoves, AddressSane, AutoSane
<1> QED
  BY <1>1, <1>2, <1>3, <1>4

-----------------------------------------------------------------------------
(* DHCP.                                                                   *)

\* Messages go out, in this transaction or in new ones.
Sends(w, v) == v \in Netif /\ XidStep(w, v) /\ (OutSane(w) => OutSane(v))

LEMMA SendsTwice ==
  ASSUME NEW w \in Netif, NEW u, NEW v, Sends(w, u), Sends(u, v)
  PROVE  Sends(w, v)
<1>1. u \in Netif /\ v \in Netif
  BY DEF Sends
<1>2. w.xid \in Nat /\ u.xid \in Nat /\ v.xid \in Nat
  BY <1>1 DEF Netif
<1> QED
  BY <1>1, <1>2 DEF Sends, XidStep

\* The address is given up, and with it every other.
LEMMA UnconfigureIs ==
  ASSUME NEW w \in Netif
  PROVE  LET v == Unconfigure(w)
         IN /\ v \in Netif /\ v.d = w.d /\ v.a = w.a /\ v.xid = w.xid /\ v.out = w.out
            /\ ~v.up /\ v.gave = Leases /\ v.mem = w.mem
<1> DEFINE u == [[w EXCEPT !.up = FALSE] EXCEPT !.ip = 0]
           v == [u EXCEPT !.gave = Leases]
<1>1. Leases \in SUBSET Nat
  BY DEF Leases
<1>2. Unconfigure(w) = v
  BY DEF Unconfigure, SetIpaddr, SetDown, AnyAddr
<1>3. /\ u \in Netif /\ u.d = w.d /\ u.a = w.a /\ u.xid = w.xid /\ u.out = w.out /\ ~u.up
      /\ u.mem = w.mem
  BY DEF Netif
<1> HIDE DEF u
<1>4. /\ v \in Netif /\ v.d = u.d /\ v.a = u.a /\ v.xid = u.xid /\ v.out = u.out
      /\ v.up = u.up /\ v.gave = Leases /\ v.mem = u.mem
  BY <1>1, <1>3 DEF Netif
<1> QED
  BY <1>2, <1>3, <1>4

LEMMA DiscoverIs ==
  ASSUME NEW w \in Netif, AutoSane(w), w.d.xid = w.xid \/ w.d.st # "selecting"
  PROVE  LET v == DhcpDiscover(w)
         IN /\ Sends(w, v) /\ v.d.st = "selecting" /\ v.d.timer /\ v.d.pcb = w.d.pcb
            /\ v.gave = w.gave /\ AutoSane(v)
            /\ SameAddress(w, v) \/ ~v.up
            /\ w.mem /\ w.d.st # "selecting" => Fresh(w, v)
<1> DEFINE x == [w.d EXCEPT !.offered = 0]
           u == [w EXCEPT !.d = x]
           d == Ask(u, "selecting", "discover", 0)
           y == [d.d EXCEPT !.coop = TRUE]
           c == [d EXCEPT !.d = y]
           s == AutoipStart(c)
<1>1. /\ x \in Dhcp /\ x.st = w.d.st /\ x.xid = w.d.xid /\ x.pcb = w.d.pcb
      /\ DhcpDiscover(w) \in {d, s}
  <2>1. x \in Dhcp /\ x.st = w.d.st /\ x.xid = w.d.xid /\ x.pcb = w.d.pcb
    BY DEF Netif, Dhcp
  <2>2. u = [w EXCEPT !.d.offered = AnyAddr] /\ c = [d EXCEPT !.d.coop = TRUE]
    BY DEF AnyAddr
  <2> QED
    BY <2>1, <2>2 DEF DhcpDiscover, AnyAddr
<1> HIDE DEF x
<1>2. u \in Netif /\ u.d = x /\ Same(w, u)
  BY <1>1, PutDhcp
<1> HIDE DEF u
<1>3. /\ d \in Netif /\ d.d.st = "selecting" /\ d.d.timer /\ SameLease(u, d) /\ SameAddress(u, d)
      /\ XidStep(u, d) /\ d.gave = u.gave /\ (OutSane(u) => OutSane(d))
      /\ u.mem /\ u.d.st # "selecting" => Fresh(u, d)
  <2>1. "selecting" \in DhcpStates /\ "discover" \in Kinds /\ 0 \in Nat
    BY DEF DhcpStates, Kinds
  <2>2. u.d.xid = u.xid \/ u.d.st # "selecting"
    BY <1>1, <1>2 DEF Same
  <2> QED
    BY <1>2, <2>1, <2>2, AskIs
<1> HIDE DEF d
<1>4. /\ Sends(w, d) /\ d.d.st = "selecting" /\ d.d.timer /\ d.d.pcb = w.d.pcb
      /\ d.gave = w.gave /\ AutoSane(d) /\ SameAddress(w, d)
      /\ w.mem /\ w.d.st # "selecting" => Fresh(w, d)
  BY <1>1, <1>2, <1>3 DEF Sends, Same, SameLease, SameAddress, XidStep, OutSane, AutoSane, Fresh
<1>5. /\ y \in Dhcp /\ y.st = d.d.st /\ y.timer = d.d.timer /\ y.pcb = d.d.pcb /\ y.xid = d.d.xid
  BY <1>3 DEF Netif, Dhcp
<1> HIDE DEF y
<1>6. c \in Netif /\ c.d = y /\ Same(d, c)
  BY <1>3, <1>5, PutDhcp
<1> HIDE DEF c
<1>7. s \in Netif /\ SameDhcp(c, s) /\ AutoSane(s) /\ ~s.up
  BY <1>6, AutoipStartIs
<1> HIDE DEF s
<1>8. /\ s \in Netif /\ s.d.st = "selecting" /\ s.d.timer /\ s.d.pcb = w.d.pcb
      /\ s.gave = w.gave /\ AutoSane(s)
      /\ s.xid = d.xid /\ s.d.xid = d.d.xid /\ s.out = d.out /\ s.mem = d.mem
  BY <1>4, <1>5, <1>6, <1>7 DEF Same, SameDhcp
<1>9. Sends(w, s) /\ (w.mem /\ w.d.st # "selecting" => Fresh(w, s))
  BY <1>4, <1>8 DEF Sends, XidStep, OutSane, Fresh
<1> QED
  BY <1>1, <1>4, <1>7, <1>8, <1>9

LEMMA ReleaseIs ==
  ASSUME NEW w \in Netif, w.d.xid = w.xid \/ w.d.st # "off"
  PROVE  LET v == DhcpRelease(w)
         IN /\ Sends(w, v) /\ v.d.st = "off" /\ v.d.pcb = w.d.pcb
            /\ v.a = w.a /\ ~v.up
            /\ w.mem /\ w.d.st # "off" => v.d.xid > w.xid
<1> DEFINE x == [w.d EXCEPT !.offered = 0, !.leased = FALSE]
           u == [w EXCEPT !.d = x]
           d == Ask(u, "off", "release", 0)
           v == Unconfigure(d)
<1>1. x \in Dhcp /\ x.st = w.d.st /\ x.xid = w.d.xid /\ x.pcb = w.d.pcb
  BY DEF Netif, Dhcp
<1>2. DhcpRelease(w) = v
  BY DEF DhcpRelease, AnyAddr, Netif, Dhcp
<1> HIDE DEF x
<1>3. u \in Netif /\ u.d = x /\ Same(w, u)
  BY <1>1, PutDhcp
<1> HIDE DEF u
<1>4. /\ d \in Netif /\ d.d.st = "off" /\ SameLease(u, d) /\ SameAddress(u, d)
      /\ XidStep(u, d) /\ (OutSane(u) => OutSane(d))
      /\ u.mem /\ u.d.st # "off" => Fresh(u, d)
  <2>1. "off" \in DhcpStates /\ "release" \in Kinds /\ 0 \in Nat
    BY DEF DhcpStates, Kinds
  <2>2. u.d.xid = u.xid \/ u.d.st # "off"
    BY <1>1, <1>3 DEF Same
  <2> QED
    BY <1>3, <2>1, <2>2, AskIs
<1> HIDE DEF d
<1>5. /\ v \in Netif /\ v.d = d.d /\ v.a = d.a /\ v.xid = d.xid /\ v.out = d.out /\ ~v.up
      /\ v.mem = d.mem
  BY <1>4, UnconfigureIs
<1> HIDE DEF v
<1>6. w.mem /\ w.d.st # "off" => v.d.xid > w.xid
  <2>1. w.xid \in Nat
    BY DEF Netif
  <2> QED
    BY <1>1, <1>3, <1>4, <1>5, <2>1 DEF Same, Fresh
<1> QED
  BY <1>1, <1>2, <1>3, <1>4, <1>5, <1>6 DEF Sends, Same, SameLease, SameAddress, XidStep, OutSane

\* The client asks for an address it has or was offered.
LEMMA AsksIs ==
  ASSUME NEW w \in Netif, NEW st \in DhcpStates, NEW addr \in Nat,
         w.d.xid = w.xid \/ w.d.st # st
  PROVE  LET v == Ask(w, st, "request", addr)
         IN /\ Sends(w, v) /\ v.d.st = st /\ v.d.timer /\ SameLease(w, v) /\ SameAddress(w, v)
            /\ v.gave = w.gave
<1>1. "request" \in Kinds
  BY DEF Kinds
<1> QED
  BY <1>1, AskIs DEF Sends

LEMMA CheckIs ==
  ASSUME NEW w \in Netif
  PROVE  LET v == DhcpCheck(w)
         IN /\ Sends(w, v) /\ v.d.st = "checking" /\ v.d.timer /\ SameLease(w, v) /\ SameAddress(w, v)
            /\ v.gave = w.gave
<1> DEFINE s == SetState(w, "checking")
<1>1. "checking" \in DhcpStates
  BY DEF DhcpStates
<1>2. /\ s \in Netif /\ s.d.st = "checking" /\ SameLease(w, s) /\ SameAddress(w, s)
      /\ s.xid = w.xid /\ s.d.xid = w.d.xid /\ s.out = w.out /\ s.gave = w.gave
      /\ s.mem = w.mem
  BY <1>1, SetStateIs
<1> HIDE DEF s
<1>3. DhcpCheck(w) = Retries(s)
  BY DEF DhcpCheck, s
<1> QED
  BY <1>2, <1>3, RetriesIs DEF Sends, XidStep, OutSane, SameLease, SameAddress

LEMMA DeclineIs ==
  ASSUME NEW w \in Netif, w.d.xid = w.xid \/ w.d.st # "backingOff"
  PROVE  LET v == DhcpDecline(w)
         IN /\ Sends(w, v) /\ v.d.st = "backingOff" /\ v.d.timer /\ SameLease(w, v) /\ SameAddress(w, v)
            /\ w.mem /\ w.d.st # "backingOff" => v.d.xid > w.xid
<1> DEFINE d == Ask(w, "backingOff", "decline", w.d.offered)
           g == d.gave \cup {w.d.offered}
           v == [d EXCEPT !.gave = g]
<1>1. "backingOff" \in DhcpStates /\ "decline" \in Kinds /\ w.d.offered \in Nat
  BY DEF DhcpStates, Kinds, Netif, Dhcp
<1>2. /\ d \in Netif /\ d.d.st = "backingOff" /\ d.d.timer /\ SameLease(w, d) /\ SameAddress(w, d)
      /\ XidStep(w, d) /\ (OutSane(w) => OutSane(d))
      /\ w.mem /\ w.d.st # "backingOff" => Fresh(w, d)
  BY <1>1, AskIs
<1>3. DhcpDecline(w) = v
  BY DEF DhcpDecline
<1> HIDE DEF d
<1>4. g \in SUBSET Nat
  BY <1>1, <1>2 DEF Netif
<1> HIDE DEF g
<1>5. /\ v \in Netif /\ v.d = d.d /\ SameAddress(d, v) /\ v.xid = d.xid /\ v.out = d.out
      /\ v.mem = d.mem
  BY <1>2, <1>4 DEF Netif, SameAddress
<1> HIDE DEF v
<1>6. w.mem /\ w.d.st # "backingOff" => v.d.xid > w.xid
  <2>1. w.xid \in Nat
    BY DEF Netif
  <2> QED
    BY <1>2, <1>5, <2>1 DEF Fresh
<1> QED
  BY <1>2, <1>3, <1>5, <1>6 DEF Sends, XidStep, OutSane, SameLease, SameAddress

LEMMA CoopStopIs ==
  ASSUME NEW w \in Netif
  PROVE  LET v == CoopStop(w)
         IN /\ v \in Netif /\ ~v.d.coop
            /\ v.d.st = w.d.st /\ v.d.tries = w.d.tries /\ v.d.timer = w.d.timer /\ v.d.xid = w.d.xid
            /\ v.d.offered = w.d.offered /\ v.d.leased = w.d.leased /\ v.d.pcb = w.d.pcb
            /\ v.xid = w.xid /\ v.out = w.out /\ v.gave = w.gave /\ v.ip = w.ip /\ v.mem = w.mem
            /\ AutoSane(w) => AutoSane(v)
            /\ v.up => w.up /\ v.a = w.a
<1> DEFINE x == [w.d EXCEPT !.coop = FALSE]
           u == [w EXCEPT !.d = x]
<1>1. CASE w.d.coop
  <2>1. /\ x \in Dhcp /\ ~x.coop
        /\ x.st = w.d.st /\ x.tries = w.d.tries /\ x.timer = w.d.timer /\ x.xid = w.d.xid
        /\ x.offered = w.d.offered /\ x.leased = w.d.leased /\ x.pcb = w.d.pcb
    BY DEF Netif, Dhcp
  <2>2. CoopStop(w) = AutoipStop(u)
    BY <1>1 DEF CoopStop
  <2> HIDE DEF x
  <2>3. u \in Netif /\ u.d = x /\ Same(w, u)
    BY <2>1, PutDhcp
  <2> HIDE DEF u
  <2>4. LET v == AutoipStop(u)
        IN /\ v \in Netif /\ SameDhcp(u, v) /\ v.ip = u.ip
           /\ AutoSane(u) => AutoSane(v)
           /\ v.up => u.up /\ v.a = u.a
    BY <2>3, AutoipStopIs
  <2> QED
    BY <2>1, <2>2, <2>3, <2>4 DEF Same, SameDhcp, AutoSane
<1>2. CASE ~w.d.coop
  BY <1>2 DEF CoopStop
<1> QED
  BY <1>1, <1>2

LEMMA BindIs ==
  ASSUME NEW w \in Netif
  PROVE  LET v == DhcpBind(w)
         IN /\ Sends(w, v) /\ v.d.st = "bound" /\ ~v.d.coop /\ v.d.offered = w.d.offered
            /\ v.d.pcb = w.d.pcb /\ v.d.xid = w.d.xid /\ v.xid = w.xid
            /\ v.gave = w.gave /\ v.up /\ v.ip = w.d.offered
            /\ AutoSane(w) => AutoSane(v)
<1> DEFINE x == [w.d EXCEPT !.leased = TRUE]
           u == [w EXCEPT !.d = x]
           c == CoopStop(u)
           p == [c EXCEPT !.ip = w.d.offered, !.up = TRUE]
           v == SetState(p, "bound")
<1>1. /\ x \in Dhcp /\ x.st = w.d.st /\ x.xid = w.d.xid
      /\ x.offered = w.d.offered /\ x.pcb = w.d.pcb /\ w.d.offered \in Nat
  BY DEF Netif, Dhcp
<1>2. DhcpBind(w) = v
  BY DEF DhcpBind, SetUp, SetIpaddr
<1> HIDE DEF x
<1>3. u \in Netif /\ u.d = x /\ Same(w, u)
  BY <1>1, PutDhcp
<1> HIDE DEF u
<1>4. /\ c \in Netif /\ ~c.d.coop /\ c.d.xid = u.d.xid
      /\ c.d.offered = u.d.offered /\ c.d.pcb = u.d.pcb
      /\ c.xid = u.xid /\ c.out = u.out /\ c.gave = u.gave /\ c.mem = u.mem
      /\ AutoSane(u) => AutoSane(c)
  BY <1>3, CoopStopIs
<1> HIDE DEF c
<1>5. /\ p \in Netif /\ p.d = c.d /\ p.a = c.a /\ p.xid = c.xid /\ p.out = c.out /\ p.gave = c.gave
      /\ p.up /\ p.ip = w.d.offered /\ p.mem = c.mem
  BY <1>1, <1>4 DEF Netif
<1> HIDE DEF p
<1>6. /\ v \in Netif /\ v.d.st = "bound" /\ SameLease(p, v) /\ SameAddress(p, v)
      /\ v.xid = p.xid /\ v.d.xid = p.d.xid /\ v.out = p.out /\ v.gave = p.gave /\ v.mem = p.mem
  <2>1. "bound" \in DhcpStates
    BY DEF DhcpStates
  <2> QED
    BY <1>5, <2>1, SetStateIs
<1> HIDE DEF v
<1> QED
  BY <1>1, <1>2, <1>3, <1>4, <1>5, <1>6
  DEF Sends, XidStep, OutSane, SameLease, SameAddress, Same, AutoSane

-----------------------------------------------------------------------------
(* What a handler makes of a sane interface w.                             *)

\* With memory, a client that gives addresses up ends their transaction; only
\* dhcp_start wakes one that is off.
Renews(w, v) ==
  /\ v.mem = w.mem
  /\ w.d.st = "off" => v.d.st = "off"
  /\ v.mem /\ v.gave # {} => v.d.st = "off" \/ v.d.xid > w.xid

\* The negotiation goes on in the transaction or in a new one; an address to check
\* was being checked or is granted; a lease stays the same lease; an address from
\* the server that the interface has is the lease, or it had it before.
Effect(w, v) ==
  /\ Renews(w, v)
  /\ v.xid >= w.xid
  /\ v.d.xid \in {w.d.xid, 0} \/ v.d.xid > w.xid
  /\ v.d.st = "checking" =>
       /\ v.gave = {}
       /\ (w.d.st = "checking" /\ v.d.offered = w.d.offered) \/ v.d.offered \in granted \/ vain
  /\ v.d.st \in Leased =>
       /\ v.gave = {} /\ v.d.offered = w.d.offered
       /\ w.d.st \in Leased \/ (w.d.st = "checking" /\ v.d.st = "bound")
  /\ v.up /\ v.ip \in Leases =>
       \/ v.d.st = "bound" /\ v.ip = v.d.offered
       \/ /\ w.up /\ v.ip = w.ip
          /\ w.d.st \notin Owns => v.d.st # "bound"
          /\ w.d.st \in Owns => v.d.st \in Owns /\ v.gave = {}

\* No timer of a negotiation stops.
Awake(w, v) ==
  v.d.st \notin {"off", "bound"} => v.d.timer \/ (v.d.st = w.d.st /\ v.d.timer = w.d.timer)

Proper(w, v) == Sane(v) /\ Effect(w, v) /\ Awake(w, v)

LEMMA NothingIsProper ==
  ASSUME NEW w, Sane(w), w.gave = {}
  PROVE  Proper(w, w)
<1>1. w.xid \in Nat
  BY DEF Sane, Netif
<1>2. Effect(w, w)
  BY <1>1 DEF Effect, Owns, Renews
<1> QED
  BY <1>2 DEF Proper, Awake

LEMMA SendsSane ==
  ASSUME NEW w, NEW v, Sane(w), w.d.xid = w.xid, Sends(w, v)
  PROVE  /\ v \in Netif /\ XidSane(v) /\ v.mem = w.mem
         /\ v.xid >= w.xid /\ (v.d.xid = w.d.xid \/ v.d.xid > w.xid)
<1>1. w \in Netif /\ v \in Netif /\ XidStep(w, v) /\ OutSane(v)
  BY DEF Sane, XidSane, Sends, OutSane
<1>2. w.xid \in Nat /\ v.xid \in Nat
  BY <1>1 DEF Netif
<1> QED
  BY <1>1, <1>2 DEF XidSane, OutSane, XidStep

\* The client goes to another state of the negotiation and keeps its address.
LEMMA GoesOn ==
  ASSUME NEW w, NEW v, Sane(w), w.d.xid = w.xid, Sends(w, v),
         SameLease(w, v), v.a = w.a, ~v.up \/ (w.up /\ v.ip = w.ip),
         v.d.timer, v.d.st \notin {"bound", "off"},
         v.d.st \in Offered => w.d.offered \in Leases /\ v.gave = {},
         v.d.st \in Leased => w.d.st \in Leased,
         v.d.st = "checking" => w.d.st = "checking",
         w.d.st \in Owns => v.d.st \in {"renewing", "rebinding"} \/ ~v.up,
         w.d.st # "off", w.mem /\ v.gave # {} => v.d.xid > w.xid
  PROVE  Proper(w, v)
<1>1. /\ v \in Netif /\ XidSane(v) /\ v.mem = w.mem
      /\ v.xid >= w.xid /\ (v.d.xid = w.d.xid \/ v.d.xid > w.xid)
  BY SendsSane
<1>2. LeaseSane(v) /\ AddressSane(v)
  BY DEF Sane, LeaseSane, AddressSane, SameLease, Taken
<1>3. Effect(w, v)
  BY <1>1 DEF Effect, Renews, SameLease, Offered, Leased, Owns
<1> QED
  BY <1>1, <1>2, <1>3 DEF Proper, Sane, Awake

\* The client starts over.
LEMMA StartsOver ==
  ASSUME NEW w, NEW v, Sane(w), w.d.xid = w.xid, Sends(w, v),
         v.d.st = "selecting", v.d.timer, AutoSane(v),
         ~v.up \/ (w.up /\ v.ip = w.ip /\ v.a = w.a /\ w.d.st \notin Owns),
         w.d.st # "off", w.mem /\ v.gave # {} => v.d.xid > w.xid
  PROVE  Proper(w, v)
<1>1. /\ v \in Netif /\ XidSane(v) /\ v.mem = w.mem
      /\ v.xid >= w.xid /\ (v.d.xid = w.d.xid \/ v.d.xid > w.xid)
  BY SendsSane
<1>2. LeaseSane(v) /\ AddressSane(v)
  BY DEF Sane, LeaseSane, AddressSane, AutoSane, Offered, Leased, Taken
<1>3. Effect(w, v)
  BY <1>1 DEF Effect, Renews, Leased
<1> QED
  BY <1>1, <1>2, <1>3 DEF Proper, Sane, Awake

LEMMA BindProper ==
  ASSUME NEW w, Sane(w), w.d.st \in Leased \cup {"checking"}, w.gave = {}
  PROVE  Proper(w, DhcpBind(w))
<1> DEFINE v == DhcpBind(w)
<1>1. /\ w \in Netif /\ w.d.offered \in Leases /\ AutoSane(w)
      /\ w.d.xid = w.xid
  BY DEF Sane, LeaseSane, AddressSane, AutoSane, XidSane, Leased, Offered
<1>2. /\ Sends(w, v) /\ v.d.st = "bound" /\ ~v.d.coop /\ v.d.offered = w.d.offered
      /\ v.d.pcb = w.d.pcb /\ v.d.xid = w.d.xid /\ v.xid = w.xid
      /\ v.gave = w.gave /\ v.up /\ v.ip = w.d.offered
      /\ AutoSane(v)
  BY <1>1, BindIs
<1> HIDE DEF v
<1>3. /\ v \in Netif /\ XidSane(v) /\ v.mem = w.mem
      /\ v.xid >= w.xid /\ (v.d.xid = w.d.xid \/ v.d.xid > w.xid)
  BY <1>1, <1>2, SendsSane
<1>4. LeaseSane(v) /\ AddressSane(v)
  BY <1>1, <1>2 DEF LeaseSane, AddressSane, AutoSane
<1>5. Effect(w, v)
  BY <1>2, <1>3 DEF Effect, Renews, Leased
<1> QED
  BY <1>2, <1>3, <1>4, <1>5 DEF Proper, Sane, Awake, v

-----------------------------------------------------------------------------
(* The handlers.                                                           *)

\* The transaction of a client that negotiates is the last one.
LEMMA Transacts ==
  ASSUME NEW w, Sane(w), w.d.st # "off" \/ w.d.pcb
  PROVE  w.d.xid = w.xid /\ w \in Netif /\ AutoSane(w) /\ w.d.offered \in Nat /\ w.ip \in Nat
BY DEF Sane, XidSane, AddressSane, AutoSane, Netif, Dhcp

LEMMA HandleNakProper ==
  ASSUME NEW w, Sane(w), w.d.st # "off", w.d.st # "backingOff"
  PROVE  Proper(w, DhcpHandleNak(w))
<1> DEFINE u == Unconfigure(w)
           s == SetState(u, "backingOff")
           v == DhcpDiscover(s)
<1>1. w.d.xid = w.xid /\ w \in Netif /\ AutoSane(w)
  BY Transacts
<1>2. u \in Netif /\ u.d = w.d /\ u.a = w.a /\ u.xid = w.xid /\ u.out = w.out /\ ~u.up /\ u.mem = w.mem
  BY <1>1, UnconfigureIs
<1> HIDE DEF u
<1>3. /\ s \in Netif /\ s.d.st = "backingOff" /\ SameAddress(u, s)
      /\ s.xid = u.xid /\ s.d.xid = u.d.xid /\ s.out = u.out /\ s.mem = u.mem
  <2>1. "backingOff" \in DhcpStates
    BY DEF DhcpStates
  <2> QED
    BY <1>2, <2>1, SetStateIs
<1>4. DhcpHandleNak(w) = v
  BY DEF DhcpHandleNak, u
<1> HIDE DEF s
<1>5. /\ Sends(s, v) /\ v.d.st = "selecting" /\ v.d.timer /\ AutoSane(v) /\ ~v.up
      /\ s.mem => Fresh(s, v)
  <2>1. AutoSane(s) /\ s.d.st # "selecting" /\ ~s.up
    BY <1>1, <1>2, <1>3 DEF AutoSane, SameAddress
  <2> QED
    BY <1>3, <2>1, DiscoverIs DEF SameAddress
<1> HIDE DEF v
<1>6. Sends(w, v)
  BY <1>1, <1>2, <1>3, <1>5 DEF Sends, XidStep, OutSane
<1>7. w.mem => v.d.xid > w.xid
  <2>1. w.xid \in Nat
    BY <1>1 DEF Netif
  <2> QED
    BY <1>2, <1>3, <1>5, <2>1 DEF Fresh
<1> QED
  BY <1>1, <1>4, <1>5, <1>6, <1>7, StartsOver

LEMMA TimeoutProper ==
  ASSUME NEW w, Sane(w), w.gave = {}
  PROVE  Proper(w, DhcpTimeout(w))
<1> DEFINE x == [w.d EXCEPT !.timer = FALSE]
           d == [w EXCEPT !.d = x]
           r == DhcpRelease(d)
           over == DhcpDiscover(r)
           st == w.d.st
<1>0. w \in Netif
  BY DEF Sane
<1>1. /\ x \in Dhcp /\ x.st = st /\ x.xid = w.d.xid /\ x.pcb = w.d.pcb
      /\ x.offered = w.d.offered /\ x.coop = w.d.coop /\ x.leased = w.d.leased
      /\ ~x.timer
  BY <1>0 DEF Netif, Dhcp
<1> HIDE DEF x
<1>2. d \in Netif /\ d.d = x /\ Same(w, d)
  BY <1>0, <1>1, PutDhcp
<1> HIDE DEF d
<1>3. /\ st \in {"backingOff", "selecting"} => DhcpTimeout(w) = DhcpDiscover(d)
      /\ st = "requesting" => DhcpTimeout(w) \in {DhcpSelect(d), over}
      /\ st = "checking" => DhcpTimeout(w) \in {DhcpCheck(d), DhcpBind(d)}
      /\ st = "renewing" => DhcpTimeout(w) = DhcpRenew(d)
      /\ st = "rebinding" => DhcpTimeout(w) \in {DhcpRebind(d), over}
      /\ st = "rebooting" => DhcpTimeout(w) \in {DhcpReboot(d), DhcpDiscover(d)}
      /\ st \in {"off", "bound"} => DhcpTimeout(w) = d
  BY DEF DhcpTimeout, d, x
<1>4. LeaseSane(d) /\ AddressSane(d) /\ XidSane(d) /\ Sane(d)
  BY <1>1, <1>2 DEF Sane, LeaseSane, AddressSane, XidSane, Same, Forgot, Taken
<1>5. ASSUME NEW v, Proper(d, v), v.d.timer \/ v.d.st \in {"off", "bound"}
      PROVE  Proper(w, v)
  BY <1>1, <1>2, <1>5 DEF Proper, Awake, Effect, Renews, Same
<1>6. ASSUME st # "off"
      PROVE  /\ d.d.xid = d.xid /\ AutoSane(d) /\ d.d.offered \in Nat /\ d.ip \in Nat
             /\ st \in Offered => d.d.offered \in Leases
             /\ SameLease(d, d) /\ d.gave = {}
  BY <1>1, <1>2, <1>4, <1>6, Transacts DEF LeaseSane, SameLease, Same
<1>7. ASSUME st \notin {"off", "bound"}
      PROVE  st \notin Owns => Proper(w, DhcpDiscover(d))
  <2> DEFINE v == DhcpDiscover(d)
  <2>1. /\ Sends(d, v) /\ v.d.st = "selecting" /\ v.d.timer /\ AutoSane(v) /\ (SameAddress(d, v) \/ ~v.up)
        /\ v.gave = {}
    BY <1>2, <1>6, <1>7, DiscoverIs
  <2> HIDE DEF v
  <2>2. st \notin Owns => Proper(d, v)
    BY <1>1, <1>2, <1>4, <1>6, <1>7, <2>1, StartsOver DEF SameAddress
  <2> QED
    BY <1>5, <2>1, <2>2 DEF v
<1>8. ASSUME st \notin {"off", "bound"}
      PROVE  Proper(w, over)
  <2>1. /\ Sends(d, r) /\ r.d.st = "off" /\ r.a = d.a /\ ~r.up
        /\ d.mem => r.d.xid > d.xid
    BY <1>1, <1>2, <1>6, <1>8, ReleaseIs
  <2> HIDE DEF r
  <2>2. r \in Netif /\ AutoSane(r)
    BY <1>6, <1>8, <2>1 DEF Sends, AutoSane
  <2>3. /\ Sends(r, over) /\ over.d.st = "selecting" /\ over.d.timer /\ AutoSane(over) /\ ~over.up
        /\ r.mem => Fresh(r, over)
    BY <2>1, <2>2, DiscoverIs DEF SameAddress
  <2> HIDE DEF over
  <2>4. Sends(d, over)
    BY <1>2, <2>1, <2>3, SendsTwice
  <2>6. d.mem => over.d.xid > d.xid
    <3>1. r.xid \in Nat /\ d.xid \in Nat /\ r.xid >= d.xid /\ (d.mem => r.mem)
      BY <1>2, <2>1, <2>2 DEF Sends, XidStep, Netif
    <3> QED
      BY <2>3, <3>1 DEF Fresh
  <2>5. Proper(d, over)
    BY <1>1, <1>2, <1>4, <1>6, <1>8, <2>3, <2>4, <2>6, StartsOver
  <2> QED
    BY <1>5, <2>3, <2>5
<1>9. ASSUME NEW to \in {"requesting", "renewing", "rebinding", "rebooting"}, NEW addr \in Nat,
             to = st
      PROVE  Proper(w, Ask(d, to, "request", addr))
  <2> DEFINE v == Ask(d, to, "request", addr)
  <2>1. to \in DhcpStates /\ st # "off" /\ to \in Offered
    BY <1>9 DEF DhcpStates, Offered, Leased
  <2>2. Sends(d, v) /\ v.d.st = to /\ v.d.timer /\ SameLease(d, v) /\ SameAddress(d, v) /\ v.gave = d.gave
    BY <1>2, <1>6, <2>1, AsksIs
  <2> HIDE DEF v
  <2>3. Proper(d, v)
    BY <1>1, <1>2, <1>4, <1>6, <1>9, <2>1, <2>2, GoesOn DEF SameAddress, Owns
  <2> QED
    BY <1>5, <2>2, <2>3 DEF v
<1>10. ASSUME st = "checking"
       PROVE  Proper(w, DhcpCheck(d))
  <2> DEFINE v == DhcpCheck(d)
  <2>1. Sends(d, v) /\ v.d.st = "checking" /\ v.d.timer /\ SameLease(d, v) /\ SameAddress(d, v) /\ v.gave = d.gave
    BY <1>2, CheckIs
  <2> HIDE DEF v
  <2>2. Proper(d, v)
    BY <1>1, <1>2, <1>4, <1>6, <1>10, <2>1, GoesOn DEF SameAddress, Owns, Offered, Leased
  <2> QED
    BY <1>5, <2>1, <2>2 DEF v
<1>11. ASSUME st = "checking"
       PROVE  Proper(w, DhcpBind(d))
  <2>1. Proper(d, DhcpBind(d))
    BY <1>1, <1>2, <1>4, <1>6, <1>11, BindProper
  <2>2. DhcpBind(d).d.st = "bound"
    BY <1>2, BindIs
  <2> QED
    BY <1>5, <2>1, <2>2
<1>12. st \in {"off", "bound"} => Proper(w, d)
  <2>1. d.gave = {}
    BY <1>2 DEF Same
  <2> QED
    BY <1>1, <1>2, <1>4, <1>5, <2>1, NothingIsProper
<1>13. st \in DhcpStates /\ d.ip \in Nat /\ d.d.offered \in Nat
  BY <1>0, <1>2 DEF Netif, Dhcp
<1> HIDE DEF over
<1> QED
  BY <1>3, <1>7, <1>8, <1>9, <1>10, <1>11, <1>12, <1>13
  DEF DhcpStates, Owns, DhcpSelect, DhcpRenew, DhcpRebind, DhcpReboot

\* A request of a client that has, or was offered, an address.
LEMMA RenewsSane ==
  ASSUME NEW w, Sane(w), w.gave = {}, w.d.st \in {"requesting", "bound", "renewing"},
         NEW st \in {"renewing", "rebinding"}
  PROVE  LET v == Ask(w, st, "request", w.ip)
         IN /\ Sane(v) /\ v.d.st = st /\ v.d.timer /\ v.gave = {}
            /\ v.xid >= w.xid /\ (v.d.xid = w.d.xid \/ v.d.xid > w.xid)
            /\ w.d.st # "requesting" => Proper(w, v)
<1> DEFINE v == Ask(w, st, "request", w.ip)
<1>1. w.d.xid = w.xid /\ w \in Netif /\ w.ip \in Nat /\ w.d.offered \in Leases
  <2>1. w.d.st # "off" /\ w.d.st \in Offered
    BY DEF Offered, Leased
  <2> QED
    BY <2>1, Transacts DEF Sane, LeaseSane
<1>2. Sends(w, v) /\ v.d.st = st /\ v.d.timer /\ SameLease(w, v) /\ SameAddress(w, v) /\ v.gave = {}
  <2>1. st \in DhcpStates
    BY DEF DhcpStates
  <2> QED
    BY <1>1, <2>1, AsksIs
<1> HIDE DEF v
<1>3. /\ v \in Netif /\ XidSane(v) /\ v.mem = w.mem
      /\ v.xid >= w.xid /\ (v.d.xid = w.d.xid \/ v.d.xid > w.xid)
  BY <1>1, <1>2, SendsSane
<1>4. LeaseSane(v) /\ AddressSane(v)
  BY <1>1, <1>2 DEF Sane, LeaseSane, AddressSane, SameLease, SameAddress, Taken
<1>5. w.d.st # "requesting" => Proper(w, v)
  <2>1. v.d.st \in Leased /\ (w.d.st # "requesting" => w.d.st \in Leased)
    BY <1>2 DEF Leased
  <2> QED
    BY <1>1, <1>2, <2>1, GoesOn DEF SameAddress
<1> QED
  BY <1>2, <1>3, <1>4, <1>5 DEF Sane, v

\* A timer of an old lease makes a request of its own of a negotiation.
LEMMA RenewTimersProper ==
  ASSUME NEW w, Sane(w), w.gave = {}, NEW v \in {DhcpT1Timeout(w), DhcpT2Timeout(w)}
  PROVE  \/ Proper(w, v)
         \/ /\ w.d.st = "requesting" /\ Sane(v) /\ v.d.st \in Leased /\ v.d.timer /\ v.gave = {}
            /\ v.xid >= w.xid /\ (v.d.xid = w.d.xid \/ v.d.xid > w.xid)
<1>1. CASE ~Renewable(w)
  BY <1>1, NothingIsProper DEF DhcpT1Timeout, DhcpT2Timeout
<1>2. CASE Renewable(w)
  <2>1. PICK st \in {"renewing", "rebinding"} : v = Ask(w, st, "request", w.ip)
    BY <1>2 DEF DhcpT1Timeout, DhcpT2Timeout, DhcpRenew, DhcpRebind
  <2> QED
    BY <1>2, <2>1, RenewsSane DEF Renewable, Leased
<1> QED
  BY <1>1, <1>2

LEMMA StopIs ==
  ASSUME NEW w \in Netif
  PROVE  LET v == DhcpStop(w)
         IN /\ v \in Netif /\ v.d.st = "off" /\ ~v.d.pcb /\ v.d.xid = w.d.xid
            /\ v.xid = w.xid /\ v.out = w.out /\ v.gave = w.gave /\ v.ip = w.ip /\ v.mem = w.mem
            /\ AutoSane(w) => AutoSane(v)
            /\ v.up => w.up /\ v.a = w.a
<1> DEFINE c == CoopStop(w)
           x == [c.d EXCEPT !.pcb = FALSE]
           u == [c EXCEPT !.d = x]
           v == SetState(u, "off")
<1>1. DhcpStop(w) = v
  BY DEF DhcpStop
<1>2. /\ c \in Netif /\ c.d.xid = w.d.xid
      /\ c.xid = w.xid /\ c.out = w.out /\ c.gave = w.gave /\ c.ip = w.ip /\ c.mem = w.mem
      /\ AutoSane(w) => AutoSane(c)
      /\ c.up => w.up /\ c.a = w.a
  BY CoopStopIs
<1> HIDE DEF c
<1>3. x \in Dhcp /\ x.xid = c.d.xid /\ ~x.pcb
  BY <1>2 DEF Netif, Dhcp
<1> HIDE DEF x
<1>4. u \in Netif /\ u.d = x /\ Same(c, u)
  BY <1>2, <1>3, PutDhcp
<1> HIDE DEF u
<1>5. /\ v \in Netif /\ v.d.st = "off" /\ SameLease(u, v) /\ SameAddress(u, v)
      /\ v.xid = u.xid /\ v.d.xid = u.d.xid /\ v.out = u.out /\ v.gave = u.gave /\ v.mem = u.mem
  <2>1. "off" \in DhcpStates
    BY DEF DhcpStates
  <2> QED
    BY <1>4, <2>1, SetStateIs
<1> HIDE DEF v
<1> QED
  BY <1>1, <1>2, <1>3, <1>4, <1>5 DEF Same, SameLease, SameAddress, AutoSane

LEMMA StopProper ==
  ASSUME NEW w, Sane(w), w.gave = {}
  PROVE  Proper(w, DhcpStop(w))
<1> DEFINE v == DhcpStop(w)
<1>1. w \in Netif /\ AutoSane(w) /\ w.xid \in Nat
  BY DEF Sane, AddressSane, AutoSane, Netif
<1>2. /\ v \in Netif /\ v.d.st = "off" /\ ~v.d.pcb /\ v.d.xid = w.d.xid
      /\ v.xid = w.xid /\ v.out = w.out /\ v.gave = w.gave /\ v.ip = w.ip /\ v.mem = w.mem
      /\ AutoSane(v)
      /\ v.up => w.up /\ v.a = w.a
  BY <1>1, StopIs
<1> HIDE DEF v
<1>3. LeaseSane(v) /\ AddressSane(v) /\ XidSane(v)
  BY <1>2 DEF Sane, LeaseSane, AddressSane, XidSane, AutoSane, Offered, Leased, Taken
<1>4. Effect(w, v)
  BY <1>1, <1>2 DEF Effect, Renews, Leased, Owns
<1> QED
  BY <1>2, <1>3, <1>4 DEF Proper, Sane, Awake, v

LEMMA ReleaseProper ==
  ASSUME NEW w, Sane(w), w.d.pcb
  PROVE  Proper(w, DhcpRelease(w))
<1> DEFINE v == DhcpRelease(w)
<1>1. w.d.xid = w.xid /\ w \in Netif /\ AutoSane(w)
  BY Transacts
<1>2. Sends(w, v) /\ v.d.st = "off" /\ v.a = w.a /\ ~v.up
  BY <1>1, ReleaseIs
<1> HIDE DEF v
<1>3. /\ v \in Netif /\ XidSane(v) /\ v.mem = w.mem
      /\ v.xid >= w.xid /\ (v.d.xid = w.d.xid \/ v.d.xid > w.xid)
  BY <1>1, <1>2, SendsSane
<1>4. LeaseSane(v) /\ AddressSane(v) /\ Effect(w, v)
  BY <1>1, <1>2, <1>3 DEF LeaseSane, AddressSane, AutoSane, Effect, Renews, Offered, Leased
<1> QED
  BY <1>2, <1>3, <1>4 DEF Proper, Sane, Awake, v

\* dhcp_start begins a transaction, or gives up for lack of memory.
LEMMA StartIs ==
  ASSUME NEW w \in Netif, AutoSane(w)
  PROVE  LET v == DhcpStart(w)
         IN /\ v \in Netif /\ AutoSane(v) /\ v.gave = w.gave
            /\ ~v.up \/ (w.up /\ v.ip = w.ip /\ v.a = w.a)
            /\ w.mem => v.d.st = "selecting" /\ v.d.timer /\ Fresh(w, v)
            /\ ~w.mem => /\ v.d.st = "off" /\ ~v.d.pcb
                         /\ v.xid >= w.xid /\ (v.d.xid = 0 \/ (v.d.xid = v.xid /\ v.xid > w.xid))
                         /\ OutSane(w) => OutSane(v)
<1> DEFINE u == [w EXCEPT !.d = NewDhcp]
           d == DhcpDiscover(u)
           v == DhcpStop(d)
<1>1. NewDhcp \in Dhcp /\ NewDhcp.st = "off" /\ NewDhcp.xid = 0
  BY DEF NewDhcp, Dhcp, DhcpStates, AnyAddr
<1>2. u \in Netif /\ u.d = NewDhcp /\ Same(w, u)
  BY <1>1, PutDhcp
<1>3. DhcpStart(w) = IF w.mem THEN d ELSE v
  BY DEF DhcpStart
<1> HIDE DEF u
<1>4. /\ Sends(u, d) /\ d.d.st = "selecting" /\ d.d.timer
      /\ d.gave = u.gave /\ AutoSane(d)
      /\ SameAddress(u, d) \/ ~d.up
      /\ u.mem => Fresh(u, d)
  <2>1. AutoSane(u) /\ u.d.st # "selecting"
    BY <1>1, <1>2 DEF AutoSane, Same
  <2> QED
    BY <1>2, <2>1, DiscoverIs
<1> HIDE DEF d
<1>5. /\ v \in Netif /\ v.d.st = "off" /\ ~v.d.pcb /\ v.d.xid = d.d.xid
      /\ v.xid = d.xid /\ v.out = d.out /\ v.gave = d.gave /\ v.ip = d.ip
      /\ AutoSane(v)
      /\ v.up => d.up /\ v.a = d.a
  BY <1>4, StopIs DEF Sends
<1> HIDE DEF v
<1>6. w.mem => /\ d \in Netif /\ AutoSane(d) /\ d.gave = w.gave
               /\ ~d.up \/ (w.up /\ d.ip = w.ip /\ d.a = w.a)
               /\ Fresh(w, d)
  BY <1>2, <1>4 DEF Same, SameAddress, Sends, Fresh
<1>7. /\ ~v.up \/ (w.up /\ v.ip = w.ip /\ v.a = w.a)
      /\ v.gave = w.gave /\ (OutSane(w) => OutSane(v))
  BY <1>2, <1>4, <1>5 DEF Same, SameAddress, Sends, OutSane
<1>8. v.xid >= w.xid /\ (v.d.xid = 0 \/ (v.d.xid = v.xid /\ v.xid > w.xid))
  <2>1. w.xid \in Nat /\ d.xid \in Nat
    BY <1>4 DEF Sends, Netif
  <2> QED
    BY <1>1, <1>2, <1>4, <1>5, <2>1 DEF Same, Sends, XidStep
<1> QED
  BY <1>3, <1>4, <1>5, <1>6, <1>7, <1>8

LEMMA StartSane ==
  ASSUME NEW w, Sane(w), w.gave = {}
  PROVE  LET v == DhcpStart(w)
         IN /\ Sane(v) /\ v.gave = {} /\ (v.up => w.up)
            /\ v.xid >= w.xid /\ (v.d.xid = 0 \/ v.d.xid > w.xid)
            /\ v.d.st = "off" \/ (v.d.st = "selecting" /\ v.d.timer /\ v.d.xid > w.xid)
<1> DEFINE v == DhcpStart(w)
<1>1. w \in Netif /\ AutoSane(w) /\ w.xid \in Nat /\ OutSane(w)
  BY DEF Sane, AddressSane, AutoSane, Netif, XidSane, OutSane
<1>2. /\ v \in Netif /\ AutoSane(v) /\ v.gave = w.gave
      /\ ~v.up \/ (w.up /\ v.ip = w.ip /\ v.a = w.a)
      /\ w.mem => v.d.st = "selecting" /\ v.d.timer /\ Fresh(w, v)
      /\ ~w.mem => /\ v.d.st = "off" /\ ~v.d.pcb
                   /\ v.xid >= w.xid /\ (v.d.xid = 0 \/ (v.d.xid = v.xid /\ v.xid > w.xid))
                   /\ OutSane(v)
  BY <1>1, StartIs
<1> HIDE DEF v
<1>3. LeaseSane(v) /\ AddressSane(v)
  BY <1>2 DEF Sane, LeaseSane, AddressSane, AutoSane, Offered, Leased, Taken
<1>4. w.mem => XidSane(v) /\ v.xid > w.xid /\ v.d.xid > w.xid
  <2>1. v.xid \in Nat /\ v.out \subseteq Sent
    BY <1>2 DEF Netif
  <2>2. w.mem => v.xid = w.xid + 1 /\ v.d.xid = v.xid /\ v.xid >= 1
    BY <1>1, <1>2 DEF Fresh
  <2>3. w.mem => \A m \in v.out : m.xid \in 1 .. v.xid
    BY <1>1, <1>2, <2>1, <2>2 DEF Fresh, OutSane
  <2> QED
    BY <1>1, <2>1, <2>2, <2>3 DEF XidSane
<1>5. ~w.mem => XidSane(v) /\ v.xid >= w.xid /\ (v.d.xid = 0 \/ v.d.xid > w.xid)
  <2>1. v.xid \in Nat
    BY <1>2 DEF Netif
  <2> QED
    BY <1>1, <1>2, <2>1 DEF XidSane, OutSane
<1>6. v.xid >= w.xid /\ XidSane(v) /\ (v.d.xid = 0 \/ v.d.xid > w.xid)
  <2>1. v.xid \in Nat
    BY <1>2 DEF Netif
  <2> QED
    BY <1>1, <1>4, <1>5, <2>1
<1>7. v.d.st = "off" \/ (v.d.st = "selecting" /\ v.d.timer /\ v.d.xid > w.xid)
  BY <1>2, <1>4
<1> QED
  BY <1>2, <1>3, <1>6, <1>7 DEF Sane, v

LEMMA NetworkChangedProper ==
  ASSUME NEW w, Sane(w), w.gave = {}
  PROVE  LET v == DhcpNetworkChanged(w) IN Proper(w, v) /\ v.d.st # "bound"
<1> DEFINE x == [w.d EXCEPT !.tries = 0]
           g == [w EXCEPT !.d = x]
           k == SetDown(g)
           r == DhcpReboot(k)
           c == CoopStop(g)
           v == DhcpDiscover(c)
<1>0. w \in Netif
  BY DEF Sane
<1>1. /\ x \in Dhcp /\ x.st = w.d.st /\ x.xid = w.d.xid /\ x.pcb = w.d.pcb
      /\ x.offered = w.d.offered /\ x.coop = w.d.coop /\ x.leased = w.d.leased
  BY <1>0 DEF Netif, Dhcp
<1> HIDE DEF x
<1>2. g \in Netif /\ g.d = x /\ Same(w, g)
  BY <1>0, <1>1, PutDhcp
<1>3. /\ w.d.st \in Leased => DhcpNetworkChanged(w) = r
      /\ w.d.st = "off" => DhcpNetworkChanged(w) = w
      /\ w.d.st \notin Leased \cup {"off"} => DhcpNetworkChanged(w) = v
  BY DEF DhcpNetworkChanged, Leased, x
<1> HIDE DEF g
<1>4. ASSUME w.d.st # "off"
      PROVE  w.d.xid = w.xid /\ AutoSane(w)
  BY <1>4, Transacts
<1>5. ASSUME w.d.st \in Leased
      PROVE  Proper(w, r) /\ r.d.st # "bound"
  <2>1. /\ k \in Netif /\ k.d = g.d /\ k.a = g.a /\ k.xid = g.xid /\ k.out = g.out /\ k.gave = g.gave /\ ~k.up
        /\ k.mem = g.mem
    BY <1>2 DEF SetDown, Netif
  <2> HIDE DEF k
  <2>2. Sends(k, r) /\ r.d.st = "rebooting" /\ r.d.timer /\ SameLease(k, r) /\ SameAddress(k, r) /\ r.gave = k.gave
    <3>1. "rebooting" \in DhcpStates /\ w.d.st # "off"
      BY <1>5 DEF DhcpStates, Leased
    <3>2. k.d.offered \in Nat /\ k.d.xid = k.xid
      BY <1>1, <1>2, <1>4, <2>1, <3>1 DEF Same, Netif, Dhcp
    <3> QED
      BY <2>1, <3>1, <3>2, AsksIs DEF DhcpReboot
  <2> HIDE DEF r
  <2>3. Sends(w, r)
    BY <1>1, <1>2, <2>1, <2>2 DEF Same, Sends, XidStep, OutSane
  <2>4. w.d.offered \in Leases /\ w.d.st # "off"
    BY <1>5 DEF Sane, LeaseSane, Offered, Leased
  <2>5. SameLease(w, r) /\ r.a = w.a /\ ~r.up /\ r.gave = {}
    BY <1>1, <1>2, <2>1, <2>2 DEF Same, SameLease, SameAddress
  <2> QED
    BY <1>4, <1>5, <2>2, <2>3, <2>4, <2>5, GoesOn
<1>6. ASSUME w.d.st \notin Leased, w.d.st # "off"
      PROVE  Proper(w, v) /\ v.d.st # "bound"
  <2>1. /\ c \in Netif /\ c.d.st = g.d.st /\ c.d.xid = g.d.xid
        /\ c.xid = g.xid /\ c.out = g.out /\ c.ip = g.ip /\ c.mem = g.mem /\ c.gave = g.gave
        /\ AutoSane(g) => AutoSane(c)
        /\ c.up => g.up /\ c.a = g.a
    BY <1>2, CoopStopIs
  <2> HIDE DEF c
  <2>2. /\ Sends(c, v) /\ v.d.st = "selecting" /\ v.d.timer /\ AutoSane(v) /\ (SameAddress(c, v) \/ ~v.up)
        /\ v.gave = c.gave
    <3>1. AutoSane(c) /\ c.d.xid = c.xid
      BY <1>1, <1>2, <1>4, <1>6, <2>1 DEF Same, AutoSane
    <3> QED
      BY <2>1, <3>1, DiscoverIs
  <2> HIDE DEF v
  <2>3. Sends(w, v)
    BY <1>1, <1>2, <2>1, <2>2 DEF Same, Sends, XidStep, OutSane
  <2>4. ~v.up \/ (w.up /\ v.ip = w.ip /\ v.a = w.a /\ w.d.st \notin Owns)
    BY <1>2, <1>6, <2>1, <2>2 DEF Same, SameAddress, Leased, Owns
  <2>5. v.gave = {}
    BY <1>2, <2>1, <2>2 DEF Same
  <2> QED
    BY <1>4, <1>6, <2>2, <2>3, <2>4, <2>5, StartsOver
<1> HIDE DEF r, v
<1> QED
  BY <1>3, <1>5, <1>6, NothingIsProper

LEMMA LinkUpProper ==
  ASSUME NEW w, Sane(w), w.gave = {}
  PROVE  Proper(w, SetLinkUp(w))
<1> DEFINE l == [w EXCEPT !.link = TRUE]
           n == DhcpNetworkChanged(l)
           v == AutoipNetworkChanged(n)
<1>1. w \in Netif /\ l \in Netif /\ l.d = w.d /\ Same(w, l)
  BY DEF Sane, Netif, Same
<1>2. SetLinkUp(w) = v
  BY DEF SetLinkUp
<1> HIDE DEF l
<1>3. Sane(l) /\ l.gave = {}
  BY <1>1 DEF Same, Sane, LeaseSane, AddressSane, XidSane, Forgot, Taken
<1>4. Proper(l, n) /\ n.d.st # "bound"
  BY <1>3, NetworkChangedProper
<1> HIDE DEF n
<1>5. Proper(w, n)
  BY <1>1, <1>4 DEF Proper, Effect, Renews, Awake, Same
<1>6. v \in Netif /\ SameDhcp(n, v) /\ AutoSane(v) /\ (v = n \/ ~v.up)
  BY <1>4, AutoipNetworkChangedIs DEF Proper, Sane, AddressSane, AutoSane
<1> HIDE DEF v
<1>7. Sane(v)
  BY <1>4, <1>6 DEF Proper, SameDhcp, Sane, LeaseSane, AddressSane, AutoSane, XidSane
<1>8. Effect(w, v) /\ Awake(w, v)
  BY <1>5, <1>6 DEF Proper, Effect, Renews, Awake, SameDhcp
<1> QED
  BY <1>2, <1>7, <1>8 DEF Proper

\* AutoIP does nothing to an interface that has a lease.
LEMMA AutoipProper ==
  ASSUME NEW w, Sane(w), w.gave = {}, NEW v, AutoipMoves(w, v)
  PROVE  Proper(w, v)
<1>1. LeaseSane(v)
  BY DEF Sane, LeaseSane, AutoipMoves, SameDhcp, Forgot
<1>2. XidSane(v) /\ v.gave = {} /\ v.mem = w.mem /\ v.d = w.d /\ v \in Netif /\ AddressSane(v)
  BY DEF Sane, XidSane, AutoipMoves, SameDhcp
<1>3. Effect(w, v)
  <2>1. v.xid = w.xid /\ v.ip \in Nat /\ w.xid \in Nat
    BY <1>2 DEF AutoipMoves, SameDhcp, Sane, Netif
  <2>2. v.up /\ v.ip \in Leases => w.up /\ v.ip = w.ip
    BY <2>1, AddressAssumption DEF AutoipMoves, Leases
  <2> QED
    BY <1>2, <2>1, <2>2 DEF Effect, Renews, Owns
<1> QED
  BY <1>1, <1>2, <1>3 DEF Proper, Sane, Awake

LEMMA ArpInputProper ==
  ASSUME NEW w, Sane(w), w.gave = {}, NEW reply \in BOOLEAN, NEW sip \in Nat, NEW dip \in Nat
  PROVE  Proper(w, ArpInput(w, reply, sip, dip))
<1> DEFINE a == AutoipArpReply(w, sip, dip)
           v == DhcpDecline(a)
<1>1. w \in Netif /\ AddressSane(w)
  BY DEF Sane
<1>2. AutoipMoves(w, a)
  BY <1>1, AutoipArpReplyMoves
<1>3. /\ ArpInput(w, reply, sip, dip) \in {a, v}
      /\ ArpInput(w, reply, sip, dip) = a \/ a.d.st = "checking"
  BY DEF ArpInput, DhcpArpReply
<1> HIDE DEF a
<1>4. Proper(w, a)
  BY <1>2, AutoipProper
<1>5. ASSUME a.d.st = "checking"
      PROVE  Proper(w, v)
  <2>1. a \in Netif /\ a.d = w.d /\ a.xid = w.xid /\ a.mem = w.mem /\ a.d.xid = a.xid /\ Sane(a)
    BY <1>2, <1>4, <1>5, Transacts DEF AutoipMoves, SameDhcp, Proper
  <2>2. /\ Sends(a, v) /\ v.d.st = "backingOff" /\ v.d.timer /\ SameLease(a, v) /\ SameAddress(a, v)
        /\ a.mem => v.d.xid > a.xid
    BY <1>5, <2>1, DeclineIs
  <2> HIDE DEF v
  <2>3. Proper(a, v)
    BY <1>5, <2>1, <2>2, GoesOn DEF SameAddress, Offered, Leased, Owns
  <2>4. Effect(w, v)
    <3>1. v.up /\ v.ip \in Leases => w.up /\ v.ip = w.ip
      BY <1>4, <1>5, <2>2 DEF Proper, Effect, SameAddress
    <3> QED
      BY <1>5, <2>1, <2>2, <2>3, <3>1 DEF Proper, Effect, Renews, Leased, Owns
  <2> QED
    BY <2>2, <2>3, <2>4 DEF Proper, Awake
<1> HIDE DEF v
<1> QED
  BY <1>3, <1>4, <1>5

\* The address of an OFFER is asked for, and that of an ACK checked.
LEMMA RecvProper ==
  ASSUME NEW w, Sane(w), w.gave = {}, NEW m \in Received,
         m.type = "ack" /\ m.xid = w.d.xid /\ w.d.st # "off" => m.addr \in granted \/ vain
  PROVE  LET v == DhcpRecv(w, m)
         IN  \/ Proper(w, v)
             \/ /\ Sane(v) /\ Effect(w, v) /\ v.d.st = "selecting"
                /\ m.type = "offer" /\ ~m.sid
<1>1. w \in Netif /\ w.d \in Dhcp
  BY DEF Sane, Netif
<1>2. /\ m.type = "offer" => m.addr \in Leases /\ m.sid \in BOOLEAN
      /\ m.type = "ack" => m.addr \in Leases
      /\ \A a \in Leases : a \in Nat
  BY DEF Received, Leases
<1>3. CASE ~w.d.pcb \/ m.xid # w.d.xid
  BY <1>3, NothingIsProper DEF DhcpRecv
<1>4. ASSUME w.d.pcb, m.xid = w.d.xid, m.type = "ack", w.d.st = "requesting"
      PROVE  Proper(w, DhcpHandleAck(w, m))
  <2> DEFINE x == [w.d EXCEPT !.offered = m.addr]
             u == [w EXCEPT !.d = x]
             v == DhcpCheck(u)
  <2>1. /\ x \in Dhcp /\ x.st = w.d.st /\ x.xid = w.d.xid /\ x.offered = m.addr
        /\ x.coop = w.d.coop /\ x.leased = w.d.leased /\ x.pcb = w.d.pcb
    BY <1>1, <1>2, <1>4 DEF Dhcp
  <2>2. DhcpHandleAck(w, m) = v
    BY <1>4 DEF DhcpHandleAck
  <2> HIDE DEF x
  <2>3. u \in Netif /\ u.d = x /\ Same(w, u)
    BY <1>1, <2>1, PutDhcp
  <2> HIDE DEF u
  <2>4. Sends(u, v) /\ v.d.st = "checking" /\ v.d.timer /\ SameLease(u, v) /\ SameAddress(u, v) /\ v.gave = u.gave
    BY <2>3, CheckIs
  <2> HIDE DEF v
  <2>5. Sends(w, v)
    BY <2>1, <2>3, <2>4 DEF Same, Sends, XidStep, OutSane
  <2>6. /\ v \in Netif /\ XidSane(v) /\ v.mem = w.mem
        /\ v.xid >= w.xid /\ (v.d.xid = w.d.xid \/ v.d.xid > w.xid)
    BY <1>4, <2>5, Transacts, SendsSane
  <2>7. v.up = w.up /\ v.ip = w.ip /\ v.a = w.a /\ v.gave = {} /\ v.d.offered = m.addr
    BY <2>1, <2>3, <2>4 DEF Same, SameLease, SameAddress
  <2>8. LeaseSane(v) /\ AddressSane(v)
    BY <1>2, <1>4, <2>4, <2>7 DEF Sane, LeaseSane, AddressSane, Taken
  <2>9. Effect(w, v)
    BY <1>4, <2>4, <2>6, <2>7 DEF Effect, Renews, Leased, Owns
  <2> QED
    BY <2>2, <2>4, <2>6, <2>8, <2>9 DEF Proper, Sane, Awake
<1>5. ASSUME w.d.st \in Renewing
      PROVE  Proper(w, DhcpHandleAck(w, m))
  BY <1>5, BindProper DEF DhcpHandleAck, Renewing, Leased
<1>6. ASSUME w.d.st \in Renewing \cup {"requesting"}
      PROVE  Proper(w, DhcpHandleNak(w))
  BY <1>6, HandleNakProper DEF Renewing
<1>7. ASSUME w.d.pcb, m.xid = w.d.xid, m.type = "offer", w.d.st = "selecting", m.sid
      PROVE  Proper(w, DhcpHandleOffer(w, m))
  <2> DEFINE x == [w.d EXCEPT !.timer = FALSE, !.offered = m.addr]
             u == [w EXCEPT !.d = x]
             v == Ask(u, "requesting", "request", u.d.offered)
  <2>1. /\ x \in Dhcp /\ x.st = w.d.st /\ x.xid = w.d.xid /\ x.offered = m.addr
    BY <1>1, <1>2, <1>7 DEF Dhcp
  <2>2. DhcpHandleOffer(w, m) = v
    BY <1>1, <1>7 DEF DhcpHandleOffer, DhcpSelect, Netif, Dhcp
  <2> HIDE DEF x
  <2>3. u \in Netif /\ u.d = x /\ Same(w, u)
    BY <1>1, <2>1, PutDhcp
  <2> HIDE DEF u
  <2>4. /\ Sends(u, v) /\ v.d.st = "requesting" /\ v.d.timer /\ SameLease(u, v) /\ SameAddress(u, v)
        /\ v.gave = u.gave
    <3>1. "requesting" \in DhcpStates /\ u.d.offered \in Nat /\ u.d.st # "requesting"
      BY <1>2, <1>7, <2>1, <2>3 DEF DhcpStates
    <3> QED
      BY <2>3, <3>1, AsksIs
  <2> HIDE DEF v
  <2>5. Sends(w, v)
    BY <2>1, <2>3, <2>4 DEF Same, Sends, XidStep, OutSane
  <2>6. /\ v \in Netif /\ XidSane(v) /\ v.mem = w.mem
        /\ v.xid >= w.xid /\ (v.d.xid = w.d.xid \/ v.d.xid > w.xid)
    BY <1>7, <2>5, Transacts, SendsSane
  <2>7. v.up = w.up /\ v.ip = w.ip /\ v.a = w.a /\ v.gave = {} /\ v.d.offered = m.addr
    BY <2>1, <2>3, <2>4 DEF Same, SameLease, SameAddress
  <2>8. LeaseSane(v) /\ AddressSane(v)
    BY <1>2, <1>7, <2>4, <2>7 DEF Sane, LeaseSane, AddressSane, Taken
  <2>9. Effect(w, v)
    BY <1>7, <2>4, <2>6, <2>7 DEF Effect, Renews, Leased, Owns
  <2> QED
    BY <2>2, <2>4, <2>6, <2>8, <2>9 DEF Proper, Sane, Awake
<1>8. ASSUME w.d.pcb, m.type = "offer", w.d.st = "selecting", ~m.sid
      PROVE  LET v == DhcpHandleOffer(w, m)
             IN Sane(v) /\ Effect(w, v) /\ v.d.st = "selecting"
  <2> DEFINE x == [w.d EXCEPT !.timer = FALSE]
             v == [w EXCEPT !.d = x]
  <2>1. /\ x \in Dhcp /\ x.st = w.d.st /\ x.xid = w.d.xid /\ x.pcb = w.d.pcb
    BY <1>1 DEF Dhcp
  <2>2. DhcpHandleOffer(w, m) = v
    BY <1>8 DEF DhcpHandleOffer
  <2> HIDE DEF x
  <2>3. v \in Netif /\ v.d = x /\ Same(w, v)
    BY <1>1, <2>1, PutDhcp
  <2> HIDE DEF v
  <2>4. LeaseSane(v) /\ AddressSane(v) /\ XidSane(v)
    BY <1>8, <2>1, <2>3 DEF Same, Sane, LeaseSane, AddressSane, XidSane, Offered, Leased, Taken
  <2>5. w.xid \in Nat
    BY <1>1 DEF Netif
  <2>6. Effect(w, v)
    BY <1>8, <2>1, <2>3, <2>5 DEF Same, Effect, Renews, Leased, Owns
  <2> QED
    BY <1>8, <2>1, <2>2, <2>3, <2>4, <2>6 DEF Sane
<1>9. CASE w.d.pcb /\ m.xid = w.d.xid
  <2>1. Proper(w, w)
    BY NothingIsProper
  <2>2. \/ DhcpRecv(w, m) = w
        \/ /\ DhcpRecv(w, m) = DhcpHandleAck(w, m) /\ m.type = "ack"
           /\ w.d.st \in Renewing \cup {"requesting"}
        \/ DhcpRecv(w, m) = DhcpHandleNak(w) /\ w.d.st \in Renewing \cup {"requesting"}
        \/ DhcpRecv(w, m) = DhcpHandleOffer(w, m) /\ m.type = "offer" /\ w.d.st = "selecting"
    BY <1>9 DEF DhcpRecv
  <2> QED
    BY <1>2, <1>4, <1>5, <1>6, <1>7, <1>8, <1>9, <2>1, <2>2
<1> QED
  BY <1>3, <1>9

-----------------------------------------------------------------------------
(* The steps.                                                              *)

LEMMA Found ==
  ASSUME AddressInv, NEW mem \in BOOLEAN
  PROVE  LET w == With(mem)
         IN /\ Sane(w) /\ w.gave = {} /\ w.d = netif.d /\ w.a = netif.a
            /\ w.up = netif.up /\ w.ip = netif.ip /\ w.xid = netif.xid
<1> DEFINE w == With(mem)
<1>1. netif \in Netif /\ Sane(netif) /\ netif.gave = {}
  BY DEF AddressInv, AddressTypes, Sane
<1>2. /\ w \in Netif /\ w.gave = {} /\ w.d = netif.d /\ w.a = netif.a /\ w.out = netif.out
      /\ w.up = netif.up /\ w.ip = netif.ip /\ w.xid = netif.xid
  BY <1>1 DEF With, Netif
<1> HIDE DEF w
<1>3. Sane(w)
  BY <1>1, <1>2 DEF Sane, LeaseSane, AddressSane, XidSane, Forgot, Taken
<1> QED
  BY <1>2, <1>3 DEF w

\* The interface after a step.
LEMMA Left ==
  ASSUME NEW v, Sane(v), NEW m, NEW kept, Turns(v, m, kept)
  PROVE  /\ Sane(netif') /\ netif'.out = {} /\ netif'.gave = {}
         /\ netif'.d = v.d /\ netif'.a = v.a /\ netif'.up = v.up /\ netif'.ip = v.ip
         /\ netif'.xid = v.xid
<1> DEFINE n == [[[v EXCEPT !.out = {}] EXCEPT !.gave = {}] EXCEPT !.mem = TRUE]
<1>1. netif' = n
  BY DEF Turns
<1>2. /\ n \in Netif /\ n.out = {} /\ n.gave = {} /\ n.d = v.d /\ n.a = v.a
      /\ n.up = v.up /\ n.ip = v.ip /\ n.xid = v.xid
  BY DEF Sane, Netif
<1> HIDE DEF n
<1>3. Sane(n)
  BY <1>2 DEF Sane, LeaseSane, AddressSane, XidSane, Forgot, Taken
<1> QED
  BY <1>1, <1>2, <1>3

\* A step keeps the invariant if what the client acts on is granted then.
LEMMA StepKeeps ==
  ASSUME AddressInv, NEW v, Sane(v), NEW m, NEW kept, Turns(v, m, kept),
         v.xid >= netif.xid, v.d.xid \in {netif.d.xid, 0} \/ v.d.xid > netif.xid,
         v.d.st = "off" \/ v.d.xid > netif.xid \/ (netif.d.st # "off" /\ (v.mem => v.gave = {})),
         v.d.st = "checking" => v.d.offered \in granted' \/ vain',
         v.d.st \in Leased => v.d.offered \in granted' \/ stale' \/ vain',
         v.up /\ v.ip \in Leases =>
           /\ v.d.st \in Owns \/ stale' \/ vain'
           /\ v.ip \in granted' \/ stale' \/ vain',
         v.d.st \notin {"off", "bound"} => v.d.timer \/ (mute' /\ v.d.st = "selecting")
  PROVE  AddressInv'
<1>1. /\ Sane(netif)' /\ netif'.out = {} /\ netif'.gave = {}
      /\ netif'.d = v.d /\ netif'.up = v.up /\ netif'.ip = v.ip
      /\ netif'.xid = v.xid
  BY Left
<1>2. /\ netif.xid \in Nat /\ v.xid \in Nat /\ netif.d.xid \in Nat
      /\ \A n \in v.out : n \in Sent /\ n.xid \in 1 .. v.xid
  BY DEF AddressInv, AddressTypes, Sane, XidSane, Netif, Dhcp
<1>3. \A n \in wire' : n \in wire \/ (n \in v.out /\ n.type \in {"discover", "request"})
  BY DEF Turns
<1>4. AddressTypes'
  <2>1. \A n \in wire : n \in Sent \cup Received /\ n.xid \in 1 .. netif.xid
    BY DEF AddressInv, AddressTypes
  <2>2. \A n \in wire' : n \in Sent \cup Received /\ n.xid \in 1 .. v.xid
    BY <1>2, <1>3, <2>1
  <2> QED
    BY <1>1, <2>2 DEF AddressTypes
<1>5. ASSUME NEW n \in wire', n.type = "ack", n.xid = v.d.xid, v.d.st # "off"
      PROVE  n.addr \in granted' \/ vain'
  <2>1. n \in wire /\ n.xid \in 1 .. netif.xid
    BY <1>3, <1>5 DEF AddressInv, AddressTypes
  <2>2. n.xid = netif.d.xid /\ v.d.xid = netif.d.xid
    BY <1>2, <1>5, <2>1
  <2>3. /\ n.addr \in granted \/ vain
        /\ v.mem => v.gave = {}
    <3>1. ~(v.d.xid > netif.xid)
      BY <1>2, <1>5, <2>1
    <3> QED
      BY <1>5, <2>1, <2>2, <3>1 DEF AddressInv, Granted
  <2> QED
    BY <2>2, <2>3 DEF Turns, StartsAfresh
<1>6. Granted'
  BY <1>1, <1>5 DEF Granted
<1>7. Asking'
  BY <1>1 DEF Asking
<1> QED
  BY <1>4, <1>6, <1>7 DEF AddressInv

\* And so does the step of a handler that does what is proper.
LEMMA EffectKeeps ==
  ASSUME AddressInv, NEW mem \in BOOLEAN, NEW v, NEW m, NEW kept,
         Sane(v), Effect(With(mem), v), Turns(v, m, kept),
         Awake(With(mem), v) \/ (v.d.st = "selecting" /\ m.type = "offer" /\ ~m.sid),
         Still \/ stale' = (stale \/ netif.d.st = "requesting")
  PROVE  AddressInv'
<1> DEFINE w == With(mem)
<1>1. /\ Sane(w) /\ w.gave = {} /\ w.d = netif.d /\ w.a = netif.a
      /\ w.up = netif.up /\ w.ip = netif.ip /\ w.xid = netif.xid
  BY Found
<1>2. Effect(w, v) /\ (Awake(w, v) \/ (v.d.st = "selecting" /\ m.type = "offer" /\ ~m.sid))
  OBVIOUS
<1> HIDE DEF w
<1>3. netif'.d = v.d /\ netif'.up = v.up
  BY Left
<1>4. /\ v.xid >= netif.xid /\ (v.d.xid \in {netif.d.xid, 0} \/ v.d.xid > netif.xid)
  BY <1>1, <1>2 DEF Effect
<1>5. vain => vain' \/ (v.d.st = "selecting" /\ ~v.up)
  BY DEF Turns, StartsAfresh
<1>6. stale => \/ stale' \/ (v.d.st = "selecting" /\ ~v.up)
               \/ (netif.d.st = "checking" /\ v.d.st = "bound")
  BY <1>3 DEF Still, Renewed
<1>7. v.gave = {} => granted' = granted
  BY DEF Turns
<1>12. v.d.st = "off" \/ v.d.xid > netif.xid \/ (netif.d.st # "off" /\ (v.mem => v.gave = {}))
  BY <1>1, <1>2 DEF Effect, Renews
<1>8. v.d.st = "checking" => v.d.offered \in granted' \/ vain'
  BY <1>1, <1>2, <1>5, <1>7 DEF Effect, AddressInv, Granted
<1>9. v.d.st \in Leased => v.d.offered \in granted' \/ stale' \/ vain'
  BY <1>1, <1>2, <1>5, <1>6, <1>7 DEF Effect, AddressInv, Granted, Leased
<1>10. ASSUME v.up, v.ip \in Leases
       PROVE  /\ v.d.st \in Owns \/ stale' \/ vain'
              /\ v.ip \in granted' \/ stale' \/ vain'
  <2>1. CASE v.d.st = "bound" /\ v.ip = v.d.offered
    BY <1>9, <2>1 DEF Owns, Leased
  <2>2. CASE w.up /\ v.ip = w.ip /\ w.d.st \notin Owns /\ v.d.st # "bound"
    BY <1>1, <1>5, <1>6, <1>10, <2>2 DEF AddressInv, Granted
  <2>3. CASE w.up /\ v.ip = w.ip /\ w.d.st \in Owns /\ v.d.st \in Owns /\ v.gave = {}
    BY <1>1, <1>5, <1>6, <1>7, <1>10, <2>3 DEF AddressInv, Granted, Owns
  <2> QED
    BY <1>2, <1>10, <2>1, <2>2, <2>3 DEF Effect
<1>11. v.d.st \notin {"off", "bound"} => v.d.timer \/ (mute' /\ v.d.st = "selecting")
  BY <1>1, <1>2 DEF Awake, AddressInv, Asking, Turns
<1> QED
  BY <1>4, <1>8, <1>9, <1>10, <1>11, <1>12, StepKeeps

LEMMA AddressStarts ==
  AddressInit => AddressInv
<1> SUFFICES ASSUME AddressInit PROVE AddressInv
  OBVIOUS
<1> DEFINE w == DhcpStart(NewNetif)
<1>1. /\ NewNetif \in Netif /\ NewNetif.xid = 0 /\ NewNetif.out = {} /\ NewNetif.gave = {}
      /\ NewNetif.mem /\ ~NewNetif.up /\ AutoSane(NewNetif)
  <2>1. [NewDhcp EXCEPT !.pcb = FALSE] \in Dhcp /\ NewAutoip \in Autoip /\ NewAutoip.st = "none"
    BY DEF NewDhcp, NewAutoip, Dhcp, DhcpStates, Autoip, AutoipStates, AnyAddr
  <2> QED
    BY <2>1 DEF NewNetif, Netif, AnyAddr, AutoSane
<1>2. /\ w \in Netif /\ AutoSane(w) /\ w.gave = {} /\ ~w.up
      /\ w.d.st = "selecting" /\ w.d.timer
      /\ w.xid = 1 /\ w.d.xid = 1 /\ \A m \in w.out : m.xid = 1
  BY <1>1, StartIs DEF Fresh
<1>3. netif = [w EXCEPT !.out = {}] /\ wire = w.out
  BY DEF AddressInit
<1> HIDE DEF w
<1>4. /\ netif \in Netif /\ netif.out = {} /\ netif.gave = {} /\ ~netif.up /\ AutoSane(netif)
      /\ netif.d.st = "selecting" /\ netif.d.timer /\ netif.xid = 1 /\ netif.d.xid = 1
  BY <1>2, <1>3 DEF Netif, AutoSane
<1>5. wire \subseteq Sent /\ \A m \in wire : m.xid = 1
  BY <1>2, <1>3 DEF Netif
<1>6. Sane(netif)
  BY <1>4 DEF Sane, LeaseSane, AddressSane, AutoSane, XidSane, Offered, Leased
<1>7. Granted
  <2>1. \A m \in wire : m.type # "ack"
    BY <1>5 DEF Sent, Kinds
  <2> QED
    BY <1>4, <2>1 DEF Granted, Leased
<1> QED
  BY <1>4, <1>5, <1>6, <1>7 DEF AddressInv, AddressTypes, Asking

LEMMA ServesKeeps ==
  ASSUME AddressInv, NEW m \in wire, NEW x \in Leases, Serves(m, x)
  PROVE  AddressInv'
<1>1. m \in Sent \cup Received /\ m.xid \in 1 .. netif.xid /\ netif.xid \in Nat
  BY DEF AddressInv, AddressTypes, Sane, Netif
<1>2. m.xid \in Nat
  BY <1>1
<1>3. ASSUME NEW n \in Received, n.xid = m.xid, wire' = (wire \ {m}) \cup {n}, granted \subseteq granted',
             n.type = "ack" /\ n.xid = netif.d.xid => n.addr \in granted'
      PROVE  AddressInv'
  <2>1. netif' = netif /\ stale' = stale /\ mute' = mute /\ vain' = vain
    BY DEF Serves
  <2>2. AddressTypes'
    BY <1>1, <1>3, <2>1 DEF AddressInv, AddressTypes
  <2>3. Granted'
    BY <1>3, <2>1 DEF AddressInv, Granted
  <2> QED
    BY <2>1, <2>2, <2>3 DEF AddressInv, Asking
<1>4. CASE m.type = "discover" /\ UNCHANGED granted /\
           \E sid \in BOOLEAN :
             wire' = (wire \ {m}) \cup {[type |-> "offer", xid |-> m.xid, addr |-> x, sid |-> sid]}
  <2>1. PICK sid \in BOOLEAN :
          wire' = (wire \ {m}) \cup {[type |-> "offer", xid |-> m.xid, addr |-> x, sid |-> sid]}
    BY <1>4
  <2> DEFINE n == [type |-> "offer", xid |-> m.xid, addr |-> x, sid |-> sid]
  <2>2. n \in Received /\ n.xid = m.xid /\ n.type = "offer"
    BY <1>2 DEF Received
  <2> QED
    BY <1>3, <1>4, <2>1, <2>2
<1>5. CASE /\ wire' = (wire \ {m}) \cup {[type |-> "ack", xid |-> m.xid, addr |-> x]}
           /\ granted' = IF m.xid = netif.d.xid THEN granted \cup {x} ELSE granted
  <2> DEFINE n == [type |-> "ack", xid |-> m.xid, addr |-> x]
  <2>1. n \in Received /\ n.xid = m.xid /\ n.addr = x
    BY <1>2 DEF Received
  <2> QED
    BY <1>3, <1>5, <2>1
<1>6. CASE wire' = (wire \ {m}) \cup {[type |-> "nak", xid |-> m.xid]} /\ UNCHANGED granted
  <2> DEFINE n == [type |-> "nak", xid |-> m.xid]
  <2>1. n \in Received /\ n.xid = m.xid /\ n.type = "nak"
    BY <1>2 DEF Received
  <2> QED
    BY <1>3, <1>6, <2>1
<1> QED
  BY <1>4, <1>5, <1>6 DEF Serves

\* Only the flag of the link, or the conflict AutoIP saw, changes.
LEMMA FlagKeeps ==
  ASSUME AddressInv, netif' \in {[netif EXCEPT !.link = FALSE], [netif EXCEPT !.a.conflict = FALSE]},
         UNCHANGED <<wire, granted, stale, mute, vain>>
  PROVE  AddressInv'
<1> DEFINE x == [netif.a EXCEPT !.conflict = FALSE]
           c == [netif EXCEPT !.a = x]
           l == [netif EXCEPT !.link = FALSE]
<1>1. netif \in Netif /\ Sane(netif) /\ netif.out = {} /\ netif.gave = {}
  BY DEF AddressInv, AddressTypes, Sane
<1>2. x \in Autoip /\ x.st = netif.a.st /\ x.sent = netif.a.sent /\ x.ll = netif.a.ll
  BY <1>1 DEF Netif, Autoip
<1>3. netif' \in {l, c}
  BY DEF l
<1> HIDE DEF x
<1>4. ASSUME NEW n \in {l, c}
      PROVE  /\ n \in Netif /\ n.d = netif.d /\ n.out = {} /\ n.gave = {} /\ n.up = netif.up
             /\ n.ip = netif.ip /\ n.xid = netif.xid
             /\ n.a.st = netif.a.st /\ n.a.sent = netif.a.sent /\ n.a.ll = netif.a.ll
  BY <1>1, <1>2 DEF Netif
<1> HIDE DEF l, c
<1>5. Sane(netif')
  BY <1>1, <1>3, <1>4 DEF Sane, LeaseSane, AddressSane, XidSane, Forgot, Taken
<1>6. AddressTypes'
  BY <1>3, <1>4, <1>5 DEF AddressInv, AddressTypes
<1> QED
  BY <1>3, <1>4, <1>6 DEF AddressInv, Granted, Asking

LEMMA HandlesKeeps ==
  ASSUME AddressInv, NEW mem \in BOOLEAN, NEW v, Proper(With(mem), v), Turns(v, None, {}),
         Still \/ stale' = (stale \/ netif.d.st = "requesting")
  PROVE  AddressInv'
BY EffectKeeps DEF Proper

LEMMA StartKeeps ==
  ASSUME AddressInv, NEW mem \in BOOLEAN, Turns(DhcpStart(With(mem)), None, {}), stale' = netif.up
  PROVE  AddressInv'
<1> DEFINE v == DhcpStart(With(mem))
<1>1. /\ Sane(v) /\ v.gave = {} /\ (v.up => netif.up)
      /\ v.xid >= netif.xid /\ (v.d.xid = 0 \/ v.d.xid > netif.xid)
      /\ v.d.st = "off" \/ (v.d.st = "selecting" /\ v.d.timer /\ v.d.xid > netif.xid)
  BY Found, StartSane
<1> HIDE DEF v
<1> QED
  BY <1>1, StepKeeps DEF Leased, v

LEMMA RenewTimersKeep ==
  ASSUME AddressInv, NEW mem \in BOOLEAN,
         NEW v \in {DhcpT1Timeout(With(mem)), DhcpT2Timeout(With(mem))},
         Turns(v, None, {}), stale' = (stale \/ netif.d.st = "requesting")
  PROVE  AddressInv'
<1>1. \/ Proper(With(mem), v)
      \/ /\ netif.d.st = "requesting" /\ Sane(v) /\ v.d.st \in Leased /\ v.d.timer /\ v.gave = {}
         /\ v.xid >= netif.xid /\ (v.d.xid = netif.d.xid \/ v.d.xid > netif.xid)
  BY Found, RenewTimersProper
<1>2. CASE Proper(With(mem), v)
  BY <1>2, HandlesKeeps
<1>3. CASE netif.d.st = "requesting" /\ Sane(v) /\ v.d.st \in Leased /\ v.d.timer
           /\ v.gave = {} /\ v.xid >= netif.xid /\ (v.d.xid = netif.d.xid \/ v.d.xid > netif.xid)
  BY <1>3, StepKeeps DEF Leased
<1> QED
  BY <1>1, <1>2, <1>3

LEMMA ArriveKeeps ==
  ASSUME AddressInv, NEW m \in wire, Arrive(m)
  PROVE  AddressInv'
<1>1. PICK mem \in BOOLEAN, kept \in {{}, {m}} : Turns(DhcpRecv(With(mem), m), m, kept)
  BY DEF Arrive
<1>2. m \in Received
  BY DEF Arrive, Replies, AddressInv, AddressTypes, Sent, Kinds
<1> DEFINE v == DhcpRecv(With(mem), m)
<1>3. \/ Proper(With(mem), v)
      \/ Sane(v) /\ Effect(With(mem), v) /\ v.d.st = "selecting" /\ m.type = "offer" /\ ~m.sid
  BY <1>2, Found, RecvProper DEF AddressInv, Granted
<1> HIDE DEF v
<1>4. Sane(v) /\ Effect(With(mem), v)
      /\ (Awake(With(mem), v) \/ (v.d.st = "selecting" /\ m.type = "offer" /\ ~m.sid))
  BY <1>3 DEF Proper
<1> QED
  BY <1>1, <1>4, EffectKeeps DEF Arrive, v

LEMMA AddressStep ==
  AddressInv /\ [AddressNext]_addressVars => AddressInv'
<1> SUFFICES ASSUME AddressInv, [AddressNext]_addressVars PROVE AddressInv'
  OBVIOUS
<1>1. ASSUME NEW mem \in BOOLEAN
      PROVE  /\ Sane(With(mem)) /\ With(mem).gave = {} /\ With(mem).d = netif.d /\ With(mem).a = netif.a
             /\ netif.a.ll \in Nat /\ netif.d.offered \in Nat /\ AddressSane(With(mem))
             /\ With(mem) \in Netif
  <2>1. netif.a.ll \in Nat /\ netif.d.offered \in Nat
    BY DEF AddressInv, AddressTypes, Sane, Netif, Dhcp, Autoip
  <2> QED
    BY <2>1, Found DEF Sane
<1>2. CASE Starts
  BY <1>2, StartKeeps DEF Starts, Handles
<1>3. CASE Stops
  BY <1>1, <1>3, StopProper, HandlesKeeps DEF Stops, Handles
<1>4. CASE Releases
  BY <1>1, <1>4, ReleaseProper, HandlesKeeps DEF Releases, Handles
<1>5. CASE LinkFails
  BY <1>5, FlagKeeps DEF LinkFails
<1>6. CASE LinkReturns
  BY <1>1, <1>6, LinkUpProper, HandlesKeeps DEF LinkReturns, Handles
<1>7. CASE FineTmr
  BY <1>1, <1>7, TimeoutProper, HandlesKeeps DEF FineTmr, Handles
<1>8. CASE CoarseTmr
  BY <1>8, RenewTimersKeep DEF CoarseTmr, Handles
<1>9. CASE AutoipTicks
  BY <1>1, <1>9, AutoipTmrMoves, AutoipProper, HandlesKeeps DEF AutoipTicks, Handles
<1>10. CASE ConflictForgotten
  BY <1>10, FlagKeeps DEF ConflictForgotten
<1>11. ASSUME NEW reply \in BOOLEAN, NEW sip \in {netif.a.ll, netif.d.offered},
              NEW dip \in {AnyAddr, netif.a.ll}, OtherHost(reply, sip, dip)
       PROVE  AddressInv'
  <2>1. PICK mem \in BOOLEAN : Turns(ArpInput(With(mem), reply, sip, dip), None, {})
    BY <1>11 DEF OtherHost
  <2>2. sip \in Nat /\ dip \in Nat
    BY <1>1 DEF AnyAddr
  <2>3. Proper(With(mem), ArpInput(With(mem), reply, sip, dip))
    BY <1>1, <2>2, ArpInputProper
  <2> QED
    BY <1>11, <2>1, <2>3, HandlesKeeps DEF OtherHost
<1>12. ASSUME NEW m \in wire, NEW x \in Leases, Serves(m, x)
       PROVE  AddressInv'
  BY <1>12, ServesKeeps
<1>13. ASSUME NEW m \in wire, Arrive(m)
       PROVE  AddressInv'
  BY <1>13, ArriveKeeps
<1>14. ASSUME NEW m \in wire, Lost(m)
       PROVE  AddressInv'
  BY <1>14 DEF Lost, AddressInv, AddressTypes, Granted, Asking
<1>15. CASE UNCHANGED addressVars
  BY <1>15 DEF addressVars, AddressInv, AddressTypes, Granted, Asking
<1> QED
  BY <1>2, <1>3, <1>4, <1>5, <1>6, <1>7, <1>8, <1>9, <1>10, <1>11, <1>12, <1>13, <1>14, <1>15
  DEF AddressNext

LEMMA AddressInvariant ==
  AddressSpec => []AddressInv
BY AddressStarts, AddressStep, PTL DEF AddressSpec

\* The interface is up only with an address that the server granted in the exchange
\* the client is in, or that AutoIP probed and defends, and a bound lease has it.
THEOREM AddressIsSound ==
  AddressSpec => []AddressSound
<1>1. AddressInv => AddressSound
  <2> SUFFICES ASSUME AddressInv, netif.up PROVE AddressSound
    BY DEF AddressSound
  <2>1. /\ netif.ip \in Nat /\ netif.a.ll \in Nat
        /\ LeaseSane(netif) /\ AddressSane(netif)
    BY DEF AddressInv, AddressTypes, Sane, Netif, Autoip
  <2>2. netif.ip \in Leases \/ (netif.ip = netif.a.ll /\ netif.a.ll >= 100 /\ Taken(netif))
    BY <2>1 DEF AddressSane, Taken
  <2>3. netif.ip # AnyAddr /\ (IsLinkLocal(netif.ip) => netif.ip = netif.a.ll /\ Taken(netif))
    BY <2>1, <2>2, AddressAssumption DEF AnyAddr, Leases, IsLinkLocal
  <2>4. netif.ip \in Leases => netif.ip \in granted \/ stale \/ vain
    BY DEF AddressInv, Granted
  <2>5. netif.d.st = "bound" /\ ~Doubled => netif.ip = netif.d.offered
    BY <2>1 DEF LeaseSane, Forgot, Doubled
  <2> QED
    BY <2>3, <2>4, <2>5 DEF AddressSound
<1> QED
  BY <1>1, AddressInvariant, PTL

\* A client without a lease has a timer running, whatever was lost, refused or out
\* of memory, and one with a lease has its interface up.
THEOREM ClientKeepsAsking ==
  AddressSpec => []KeepsAsking
<1>1. AddressInv => KeepsAsking
  BY DEF AddressInv, AddressTypes, Sane, LeaseSane, Asking, KeepsAsking, Forgot, Doubled
<1> QED
  BY <1>1, AddressInvariant, PTL
=============================================================================
