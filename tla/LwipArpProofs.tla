---------------------------- MODULE LwipArpProofs ----------------------------
(***************************************************************************)
(* lwIP's ARP table is sound for any number of entries, packets, ticks,    *)
(* failures and moves of hosts, and any size of the pool of its queues.    *)
(***************************************************************************)
EXTENDS LwipArp, FiniteSetTheorems, WellFoundedInduction, TLAPS

EntryStates == {"empty", "pending", "stable", "rerequesting", "static"}
Entry == [st : EntryStates, ip : Hosts \cup {"any"}, netif : Nets \cup {"none"}, mac : Nat,
          ctime : 0 .. ArpMaxAge, q : Seq(Nat)]
Packet == [n : Nat, to : Hosts \cup {"broadcast"}, mac : Nat]
Table == [tbl : [Slots -> Entry], hint : Slots, pool : Nat, size : Nat, queueing : BOOLEAN,
          mem : SUBSET Memory, sent : Seq(Packet)]

-----------------------------------------------------------------------------
(* The invariant, of a state w in which the hosts gave the addresses hd,   *)
(* got the packets sTo last, and p packets were handed down.               *)

EntrySound(w, i, hd) ==
  LET e == w.tbl[i] IN
  /\ e.st = "empty" => e.q = <<>>
  /\ e.st # "empty" =>
       e.ip \in Hosts /\ \A j \in Slots \ {i} : w.tbl[j].st # "empty" => w.tbl[j].ip # e.ip
  /\ e.st = "pending" => e.ctime < ArpMaxPending
  /\ e.st \notin {"empty", "pending"} => e.q = <<>> /\ e.mac = hd[e.ip]

QueueSound(e, sTo, p) ==
  \A k \in DOMAIN e.q : /\ e.q[k] <= p /\ e.q[k] > sTo[e.ip]
                        /\ \A j \in DOMAIN e.q : j < k => e.q[j] < e.q[k]

PoolSound(w) == w.queueing => w.pool + Cardinality(Waiting(w, Slots)) = w.size

Whole(w, hd, sTo, p) ==
  /\ w \in Table /\ PoolSound(w)
  /\ \A i \in Slots : EntrySound(w, i, hd)
  /\ \A i \in Slots : QueueSound(w.tbl[i], sTo, p)

ArpInv ==
  /\ packets \in Nat /\ heard \in [Hosts -> Nat] /\ sentTo \in [Hosts -> 0 .. packets]
  /\ Whole(arp, heard, sentTo, packets)
  /\ arp.sent = <<>> /\ mishaps = {}

-----------------------------------------------------------------------------
(* Extremes exist.                                                         *)

\* A set of numbers that is not empty has a least one.
LEMMA MinIs ==
  ASSUME NEW S \in SUBSET Nat, S # {}
  PROVE  Min(S) \in S /\ \A x \in S : Min(S) <= x
  <1>1. PICK m \in S : \A y \in S : <<y, m>> \notin OpToRel(<, Nat)
    BY NatLessThanWellFounded, WFMin
  <1>2. ASSUME NEW y \in S PROVE m <= y
    <2>1. y \in Nat /\ m \in Nat
      OBVIOUS
    <2>2. ~(y < m)
      BY <1>1, <2>1 DEF OpToRel
    <2> QED BY <2>1, <2>2
  <1> QED BY <1>2 DEF Min

\* A set of numbers up to a bound has a greatest one.
LEMMA GreatestExists ==
  ASSUME NEW b \in Nat, NEW S \in SUBSET (0 .. b), S # {}
  PROVE  \E m \in S : \A x \in S : x <= m
  <1> DEFINE R == {b - x : x \in S}
  <1>1. R \in SUBSET Nat /\ R # {}
    <2>1. \A x \in S : b - x \in Nat
      OBVIOUS
    <2> QED BY <2>1
  <1>2. Min(R) \in R /\ \A x \in R : Min(R) <= x
    BY <1>1, MinIs
  <1>3. PICK m \in S : Min(R) = b - m
    BY <1>2
  <1>4. \A x \in S : b - m <= b - x
    BY <1>2, <1>3
  <1> QED BY <1>4

\* An interval ends with its greatest number.
LEMMA MaxOfInterval ==
  ASSUME NEW n \in Nat, n > 0
  PROVE  Max(1 .. n) = n
  <1>1. n \in 1 .. n /\ \A y \in 1 .. n : n >= y
    OBVIOUS
  <1>2. \A m \in 1 .. n : (\A y \in 1 .. n : m >= y) => m = n
    BY <1>1
  <1> QED BY <1>1, <1>2 DEF Max

\* Some entries have a last one among the oldest.
LEMMA OldestIs ==
  ASSUME NEW w \in Table, NEW S \in SUBSET Slots, S # {}
  PROVE  OldestOf(w, S) \in S
  <1> USE ArpAssumption
  <1> DEFINE Ages == {w.tbl[i].ctime : i \in S}
  <1>1. \A i \in S : w.tbl[i].ctime \in 0 .. ArpMaxAge
    BY DEF Table, Entry
  <1>2. Ages \in SUBSET (0 .. ArpMaxAge) /\ Ages # {}
    BY <1>1
  <1>3. PICK a \in Ages : \A x \in Ages : x <= a
    BY <1>2, GreatestExists
  <1> DEFINE Last == {i \in S : w.tbl[i].ctime = a}
  <1>4. Last \in SUBSET (0 .. ArpTableSize) /\ Last # {}
    <2>1. Last # {}
      BY <1>3
    <2>2. \A i \in Slots : i \in 0 .. ArpTableSize
      BY DEF Slots
    <2> QED BY <2>1, <2>2
  <1>5. PICK m \in Last : \A i \in Last : i <= m
    BY <1>4, GreatestExists
  <1>6. \A j \in S \ {m} : w.tbl[j].ctime < w.tbl[m].ctime \/ (w.tbl[j].ctime = w.tbl[m].ctime /\ j < m)
    <2> SUFFICES ASSUME NEW j \in S \ {m}
                 PROVE  w.tbl[j].ctime < a \/ (w.tbl[j].ctime = a /\ j < m)
      BY <1>5
    <2>1. w.tbl[j].ctime <= a /\ w.tbl[j].ctime \in Nat /\ a \in Nat
      BY <1>1, <1>2, <1>3
    <2>2. CASE w.tbl[j].ctime = a
      <3>1. j <= m /\ j # m
        BY <1>5, <2>2
      <3>2. j \in Nat /\ m \in Nat
        BY DEF Slots
      <3> QED BY <3>1, <3>2, <2>2
    <2>3. CASE w.tbl[j].ctime # a
      BY <2>1, <2>3
    <2> QED BY <2>2, <2>3
  <1>7. m \in S
    BY <1>5
  <1> QED BY <1>6, <1>7 DEF OldestOf

-----------------------------------------------------------------------------
(* The pool of the queues.                                                 *)

LEMMA WaitingIs ==
  ASSUME NEW w, NEW S
  PROVE  \A x : x \in Waiting(w, S) <=> \E i \in S : \E k \in DOMAIN w.tbl[i].q : x = <<i, k>>
  BY DEF Waiting

\* What waits is finite, and what some entries have is a part of it.
LEMMA WaitingFinite ==
  ASSUME NEW w \in Table, NEW S \in SUBSET Slots
  PROVE  /\ IsFiniteSet(Waiting(w, S)) /\ Cardinality(Waiting(w, S)) \in Nat
  <1> USE ArpAssumption
  <1> DEFINE F == [i \in S |-> {i} \X DOMAIN w.tbl[i].q]
             T == {{i} \X DOMAIN w.tbl[i].q : i \in S}
  <1>1. IsFiniteSet(S)
    <2>1. IsFiniteSet(Slots)
      BY FS_Interval DEF Slots
    <2> QED BY <2>1, FS_Subset
  <1>2. F \in Surjection(S, T)
    BY DEF Surjection
  <1>3. IsFiniteSet(T)
    <2> HIDE DEF F, T
    <2> QED BY <1>1, <1>2, FS_Surjection
  <1>4. \A i \in S : IsFiniteSet({i} \X DOMAIN w.tbl[i].q)
    <2> SUFFICES ASSUME NEW i \in S PROVE IsFiniteSet({i} \X DOMAIN w.tbl[i].q)
      OBVIOUS
    <2>1. w.tbl[i].q \in Seq(Nat)
      BY DEF Table, Entry
    <2>2. DOMAIN w.tbl[i].q = 1 .. Len(w.tbl[i].q) /\ Len(w.tbl[i].q) \in Nat
      BY <2>1
    <2>3. IsFiniteSet(DOMAIN w.tbl[i].q)
      BY <2>2, FS_Interval
    <2> QED BY <2>3, FS_Singleton, FS_Product
  <1>5. IsFiniteSet(UNION T)
    <2>1. \A U \in T : IsFiniteSet(U)
      BY <1>4
    <2> HIDE DEF T
    <2> QED BY <1>3, <2>1, FS_UNION
  <1> QED BY <1>5, FS_CardinalityType DEF Waiting

\* The places of the entries S return to the pool with their queues.
LEMMA PoolGetsBack ==
  ASSUME NEW w \in Table, PoolSound(w), NEW S \in SUBSET Slots, NEW v,
         v.queueing = w.queueing, v.size = w.size, v.pool = w.pool + Held(w, S),
         \A i \in Slots : v.tbl[i].q = IF i \in S THEN <<>> ELSE w.tbl[i].q
  PROVE  v.pool \in Nat /\ PoolSound(v)
  <1> DEFINE A == Waiting(w, Slots)
             B == Waiting(w, S)
  <1>1. IsFiniteSet(A) /\ IsFiniteSet(B) /\ Cardinality(A) \in Nat /\ Cardinality(B) \in Nat
    BY WaitingFinite
  <1>2. w.pool \in Nat /\ w.size \in Nat
    BY DEF Table
  <1>3. v.pool \in Nat
    BY <1>1, <1>2 DEF Held
  <1>4. Waiting(v, Slots) = A \ B
    BY WaitingIs
  <1>5. A \cap B = B
    BY WaitingIs
  <1>6. Cardinality(A \ B) = Cardinality(A) - Cardinality(B)
    <2> HIDE DEF A, B
    <2>1. Cardinality(A \ B) = Cardinality(A) - Cardinality(A \cap B)
      BY <1>1, FS_Difference
    <2> QED BY <1>5, <2>1
  <1>7. ASSUME v.queueing PROVE v.pool + Cardinality(Waiting(v, Slots)) = v.size
    <2>1. v.pool = w.pool + Cardinality(B) /\ w.pool + Cardinality(A) = w.size
      BY <1>7 DEF Held, PoolSound
    <2> QED BY <2>1, <1>1, <1>2, <1>4, <1>6
  <1> QED BY <1>3, <1>7 DEF PoolSound

\* The pool goes by the queues.
LEMMA PoolStays ==
  ASSUME NEW w, PoolSound(w), NEW v, v.queueing = w.queueing, v.size = w.size, v.pool = w.pool,
         \A i \in Slots : v.tbl[i].q = w.tbl[i].q
  PROVE  PoolSound(v)
  <1>1. \A x : x \in Waiting(v, Slots) <=> \E i \in Slots : \E k \in DOMAIN w.tbl[i].q : x = <<i, k>>
    BY WaitingIs
  <1>2. \A x : x \in Waiting(w, Slots) <=> \E i \in Slots : \E k \in DOMAIN w.tbl[i].q : x = <<i, k>>
    BY WaitingIs
  <1>3. Waiting(v, Slots) = Waiting(w, Slots)
    BY <1>1, <1>2
  <1> QED BY <1>3 DEF PoolSound

\* A packet that waits takes a place from the pool.
LEMMA PoolGives ==
  ASSUME NEW w \in Table, PoolSound(w), NEW i \in Slots, NEW n \in Nat, NEW v,
         v.queueing = w.queueing, v.size = w.size, v.pool = w.pool - 1,
         \A j \in Slots : v.tbl[j].q = IF j = i THEN Append(w.tbl[i].q, n) ELSE w.tbl[j].q
  PROVE  PoolSound(v)
  <1> DEFINE x == <<i, Len(w.tbl[i].q) + 1>>
  <1>1. w.tbl[i].q \in Seq(Nat)
    BY DEF Table, Entry
  <1>2. DOMAIN w.tbl[i].q = 1 .. Len(w.tbl[i].q) /\ Len(w.tbl[i].q) \in Nat
    BY <1>1
  <1>3. DOMAIN v.tbl[i].q = 1 .. (Len(w.tbl[i].q) + 1)
    <2>1. v.tbl[i].q = Append(w.tbl[i].q, n)
      OBVIOUS
    <2> QED BY <1>1, <2>1
  <1>4. Waiting(v, Slots) = Waiting(w, Slots) \cup {x}
    <2>1. \A k : k \in DOMAIN v.tbl[i].q <=> k \in DOMAIN w.tbl[i].q \/ k = Len(w.tbl[i].q) + 1
      BY <1>2, <1>3
    <2>2. \A y : y \in Waiting(v, Slots) <=> \E j \in Slots : \E k \in DOMAIN v.tbl[j].q : y = <<j, k>>
      BY WaitingIs
    <2>3. \A y : y \in Waiting(w, Slots) <=> \E j \in Slots : \E k \in DOMAIN w.tbl[j].q : y = <<j, k>>
      BY WaitingIs
    <2>4. \A j \in Slots : j # i => v.tbl[j].q = w.tbl[j].q
      OBVIOUS
    <2>5. \A y : y \in Waiting(v, Slots) <=> y \in Waiting(w, Slots) \/ y = x
      BY <2>1, <2>2, <2>3, <2>4
    <2> QED BY <2>5
  <1>5. x \notin Waiting(w, Slots)
    <2>1. x \in Waiting(w, Slots) => \E j \in Slots : \E k \in DOMAIN w.tbl[j].q : x = <<j, k>>
      BY WaitingIs
    <2>2. Len(w.tbl[i].q) + 1 \notin DOMAIN w.tbl[i].q
      BY <1>2
    <2> QED BY <2>1, <2>2
  <1>6. IsFiniteSet(Waiting(w, Slots)) /\ Cardinality(Waiting(w, Slots)) \in Nat
    BY WaitingFinite
  <1>7. Cardinality(Waiting(v, Slots)) = Cardinality(Waiting(w, Slots)) + 1
    <2> HIDE DEF x
    <2> QED BY <1>4, <1>5, <1>6, FS_AddElement
  <1>8. w.pool \in Nat
    BY DEF Table
  <1> QED BY <1>6, <1>7, <1>8 DEF PoolSound

-----------------------------------------------------------------------------
(* Entries that change.                                                    *)

\* An entry is given up, or ages, or is asked for again.
Calm(e, f) ==
  \/ f.st = "empty" /\ f.q = <<>>
  \/ /\ f.st # "empty" /\ e.st # "empty"
     /\ f.ip = e.ip /\ f.q = e.q /\ f.mac = e.mac
     /\ f.st = "pending" <=> e.st = "pending"
     /\ f.st = "pending" => f.ctime < ArpMaxPending

LEMMA CalmSteps ==
  ASSUME NEW w, NEW hd, NEW sTo, NEW p \in Nat, NEW p2 \in Nat, p <= p2, Whole(w, hd, sTo, p),
         NEW v \in Table, PoolSound(v), \A i \in Slots : Calm(w.tbl[i], v.tbl[i])
  PROVE  Whole(v, hd, sTo, p2)
  <1> SUFFICES ASSUME NEW i \in Slots
               PROVE  EntrySound(v, i, hd) /\ QueueSound(v.tbl[i], sTo, p2)
    BY DEF Whole
  <1> DEFINE e == w.tbl[i]
             f == v.tbl[i]
  <1>1. w \in Table /\ (\A j \in Slots : EntrySound(w, j, hd)) /\ QueueSound(e, sTo, p)
    BY DEF Whole
  <1>2. \A j \in Slots : v.tbl[j].st # "empty" => w.tbl[j].st # "empty" /\ v.tbl[j].ip = w.tbl[j].ip
    BY DEF Calm
  <1>3. Calm(e, f)
    OBVIOUS
  <1>4. EntrySound(v, i, hd)
    <2>1. EntrySound(w, i, hd)
      BY <1>1
    <2>2. CASE f.st = "empty"
      BY <1>3, <2>2 DEF EntrySound, Calm
    <2>3. CASE f.st # "empty"
      <3>1. e.st # "empty" /\ f.ip = e.ip /\ f.q = e.q /\ f.mac = e.mac
            /\ (f.st = "pending" <=> e.st = "pending") /\ (f.st = "pending" => f.ctime < ArpMaxPending)
        BY <1>3, <2>3 DEF Calm
      <3>2. f.ip \in Hosts /\ \A j \in Slots \ {i} : v.tbl[j].st # "empty" => v.tbl[j].ip # f.ip
        BY <1>2, <2>1, <3>1 DEF EntrySound
      <3>3. f.st \notin {"empty", "pending"} => f.q = <<>> /\ f.mac = hd[f.ip]
        BY <2>1, <3>1 DEF EntrySound
      <3> QED BY <2>3, <3>1, <3>2, <3>3 DEF EntrySound
    <2> QED BY <2>2, <2>3
  <1>5. QueueSound(f, sTo, p2)
    <2>1. e.q \in Seq(Nat)
      BY <1>1 DEF Table, Entry
    <2>2. CASE f.q = <<>>
      BY <2>2 DEF QueueSound
    <2>3. CASE f.q = e.q /\ f.ip = e.ip
      <3>1. \A k \in DOMAIN e.q : e.q[k] \in Nat
        BY <2>1
      <3> QED BY <1>1, <2>3, <3>1 DEF QueueSound
    <2> QED BY <1>3, <2>2, <2>3 DEF Calm
  <1> QED BY <1>4, <1>5

\* The only entry for an address is entered, or its host or queue changes.
Placed(w, v, i, ip, hd, hd2, sTo, sTo2, p2) ==
  /\ \A j \in Slots \ {i} : v.tbl[j] = w.tbl[j] /\ (w.tbl[j].st # "empty" => w.tbl[j].ip # ip)
  /\ \A h \in Hosts \ {ip} : hd2[h] = hd[h] /\ sTo2[h] = sTo[h]
  /\ v.tbl[i].ip = ip /\ v.tbl[i].st # "empty"
  /\ v.tbl[i].st = "pending" => v.tbl[i].ctime < ArpMaxPending
  /\ v.tbl[i].st # "pending" => v.tbl[i].q = <<>> /\ v.tbl[i].mac = hd2[ip]
  /\ QueueSound(v.tbl[i], sTo2, p2)

LEMMA EntryPlaced ==
  ASSUME NEW w, NEW hd, NEW hd2, NEW sTo, NEW sTo2, NEW p \in Nat, NEW p2 \in Nat, p <= p2,
         Whole(w, hd, sTo, p), NEW i \in Slots, NEW ip \in Hosts, NEW v \in Table, PoolSound(v),
         Placed(w, v, i, ip, hd, hd2, sTo, sTo2, p2)
  PROVE  Whole(v, hd2, sTo2, p2)
  <1> USE DEF Placed
  <1>1. w \in Table /\ (\A j \in Slots : EntrySound(w, j, hd)) /\ (\A j \in Slots : QueueSound(w.tbl[j], sTo, p))
    BY DEF Whole
  <1>2. EntrySound(v, i, hd2)
    BY DEF EntrySound
  <1>3. ASSUME NEW j \in Slots \ {i} PROVE EntrySound(v, j, hd2) /\ QueueSound(v.tbl[j], sTo2, p2)
    <2> DEFINE e == w.tbl[j]
    <2>1. v.tbl[j] = e /\ EntrySound(w, j, hd) /\ QueueSound(e, sTo, p)
      BY <1>1
    <2>2. e.st # "empty" => e.ip \in Hosts \ {ip}
      BY <2>1 DEF EntrySound
    <2>3. EntrySound(v, j, hd2)
      <3>1. e.st # "empty" => \A k \in Slots \ {j} : v.tbl[k].st # "empty" => v.tbl[k].ip # e.ip
        <4> SUFFICES ASSUME e.st # "empty", NEW k \in Slots \ {j}, v.tbl[k].st # "empty"
                     PROVE  v.tbl[k].ip # e.ip
          OBVIOUS
        <4>1. CASE k = i
          BY <2>2, <4>1
        <4>2. CASE k # i
          BY <2>1, <4>2 DEF EntrySound
        <4> QED BY <4>1, <4>2
      <3>2. e.st \notin {"empty", "pending"} => e.q = <<>> /\ e.mac = hd2[e.ip]
        BY <2>1, <2>2 DEF EntrySound
      <3> QED BY <2>1, <2>2, <3>1, <3>2 DEF EntrySound
    <2>4. QueueSound(e, sTo2, p2)
      <3>1. e.q \in Seq(Nat)
        BY <1>1 DEF Table, Entry
      <3>2. \A k \in DOMAIN e.q : e.q[k] \in Nat
        BY <3>1
      <3>3. DOMAIN e.q # {} => sTo2[e.ip] = sTo[e.ip]
        BY <2>1, <2>2 DEF EntrySound
      <3> QED BY <2>1, <3>2, <3>3 DEF QueueSound
    <2> QED BY <2>1, <2>3, <2>4
  <1> QED BY <1>2, <1>3 DEF Whole

LEMMA EmptySeqIs == <<>> \in Seq(Nat) /\ 0 \in 0 .. ArpMaxAge
  BY ArpAssumption

\* v is w without the entries S.
Without(w, v, S) ==
  /\ v.sent = w.sent /\ v.mem = w.mem /\ v.queueing = w.queueing
  /\ \A i \in Slots : v.tbl[i] = IF i \in S THEN [NoEntry EXCEPT !.netif = w.tbl[i].netif] ELSE w.tbl[i]

LEMMA FreedIs ==
  ASSUME NEW w, NEW hd, NEW sTo, NEW p \in Nat, Whole(w, hd, sTo, p), NEW S \in SUBSET Slots
  PROVE  Whole(ArpFreeEntries(w, S), hd, sTo, p) /\ Without(w, ArpFreeEntries(w, S), S)
  <1> USE ArpAssumption
  <1> DEFINE v == ArpFreeEntries(w, S)
             tbl == [i \in Slots |-> IF i \in S THEN [NoEntry EXCEPT !.netif = w.tbl[i].netif] ELSE w.tbl[i]]
             pool == w.pool + Held(w, S)
  <1>1. w \in Table /\ PoolSound(w) /\ (\A j \in Slots : EntrySound(w, j, hd))
    BY DEF Whole
  <1>2. tbl \in [Slots -> Entry]
    <2>1. \A i \in Slots : w.tbl[i] \in Entry
      BY <1>1 DEF Table
    <2>2. \A x \in Nets \cup {"none"} : [NoEntry EXCEPT !.netif = x] \in Entry
      BY EmptySeqIs DEF NoEntry, Entry, EntryStates
    <2>3. \A i \in Slots : [NoEntry EXCEPT !.netif = w.tbl[i].netif] \in Entry
      BY <2>1, <2>2 DEF Entry
    <2> QED BY <2>1, <2>3
  <1>3. \A i \in Slots : tbl[i].q = IF i \in S THEN <<>> ELSE w.tbl[i].q
    BY DEF NoEntry
  <1>4. \A i \in Slots : Calm(w.tbl[i], tbl[i])
    <2> SUFFICES ASSUME NEW i \in Slots PROVE Calm(w.tbl[i], tbl[i])
      OBVIOUS
    <2>1. CASE i \in S
      BY <2>1 DEF NoEntry, Calm
    <2>2. CASE i \notin S
      <3>1. EntrySound(w, i, hd) /\ tbl[i] = w.tbl[i]
        BY <1>1, <2>2
      <3> QED BY <3>1 DEF EntrySound, Calm
    <2> QED BY <2>1, <2>2
  <1> HIDE DEF tbl
  <1>5. v = [w EXCEPT !.pool = pool, !.tbl = tbl]
    BY DEF ArpFreeEntries, tbl
  <1> HIDE DEF pool
  <1>6. /\ v.tbl = tbl /\ v.queueing = w.queueing /\ v.size = w.size /\ v.pool = pool
        /\ v.sent = w.sent /\ v.mem = w.mem
    BY <1>1, <1>5 DEF Table
  <1> HIDE DEF v
  <1>7. v.pool \in Nat /\ PoolSound(v)
    BY <1>1, <1>3, <1>6, PoolGetsBack DEF pool
  <1>8. v \in Table
    <2>1. pool \in Nat
      BY <1>6, <1>7
    <2> QED BY <1>1, <1>2, <1>5, <2>1 DEF Table
  <1>9. Whole(v, hd, sTo, p)
    <2>1. \A i \in Slots : Calm(w.tbl[i], v.tbl[i])
      BY <1>4, <1>6
    <2> QED BY <1>7, <1>8, <2>1, CalmSteps
  <1> QED BY <1>6, <1>9 DEF v, tbl, Without

-----------------------------------------------------------------------------
(* The entry for an address.                                               *)

\* A queue is given up for another neighbour though an entry has none.
GivesUp(u, v) ==
  \E i, j \in Slots : /\ u.tbl[i].q # <<>> /\ v.tbl[i].ip \notin {u.tbl[i].ip, "any"}
                      /\ u.tbl[j].st # "static" /\ u.tbl[j].q = <<>>

\* The entries for ip, of which there is at most one.
Match(w, ip) == {i \in Slots : w.tbl[i].st # "empty" /\ w.tbl[i].ip = ip}

LEMMA OneMatches ==
  ASSUME NEW w, NEW hd, NEW sTo, NEW p, Whole(w, hd, sTo, p), NEW ip, Match(w, ip) # {}
  PROVE  /\ Min(Match(w, ip)) \in Match(w, ip)
         /\ \A j \in Slots \ {Min(Match(w, ip))} : w.tbl[j].st # "empty" => w.tbl[j].ip # ip
  <1> DEFINE S == Match(w, ip)
  <1>1. S \in SUBSET Nat /\ S # {}
    BY DEF Match, Slots
  <1>2. Min(S) \in S
    BY <1>1, MinIs
  <1>3. EntrySound(w, Min(S), hd)
    BY <1>2 DEF Whole, Match
  <1>4. w.tbl[Min(S)].st # "empty" /\ w.tbl[Min(S)].ip = ip
    BY <1>2 DEF Match
  <1> HIDE DEF S
  <1>5. \A j \in Slots \ {Min(S)} : w.tbl[j].st # "empty" => w.tbl[j].ip # ip
    BY <1>3, <1>4 DEF EntrySound
  <1> QED BY <1>2, <1>5 DEF S

\* The entry that makes room: packets are lost only if every entry has some.
LEMMA VictimIs ==
  ASSUME NEW w \in Table, \A i \in Slots : w.tbl[i].st # "empty"
  PROVE  /\ Victim(w) \in Slots \cup {0}
         /\ Victim(w) # 0 /\ (\A i \in Slots : w.tbl[i].st \notin {"empty", "pending"} => w.tbl[i].q = <<>>)
            /\ w.tbl[Victim(w)].q # <<>> =>
              \A j \in Slots : w.tbl[j].st = "static" \/ w.tbl[j].q # <<>>
  <1> DEFINE Stable == {i \in Slots : w.tbl[i].st \in {"stable", "rerequesting"}}
             Pending(queue) == {i \in Slots : w.tbl[i].st = "pending" /\ (w.tbl[i].q # <<>>) = queue}
  <1>1. Victim(w) = IF Stable # {} THEN OldestOf(w, Stable)
                    ELSE IF Pending(FALSE) # {} THEN OldestOf(w, Pending(FALSE))
                    ELSE IF Pending(TRUE) # {} THEN OldestOf(w, Pending(TRUE))
                    ELSE 0
    BY DEF Victim
  <1>2. Stable \in SUBSET Slots /\ Pending(FALSE) \in SUBSET Slots /\ Pending(TRUE) \in SUBSET Slots
    OBVIOUS
  <1>3. CASE Stable # {}
    <2>1. Victim(w) \in Stable
      BY <1>1, <1>2, <1>3, OldestIs
    <2> QED BY <2>1
  <1>4. CASE Stable = {} /\ Pending(FALSE) # {}
    <2>1. Victim(w) \in Pending(FALSE)
      BY <1>1, <1>2, <1>4, OldestIs
    <2> QED BY <2>1
  <1>5. CASE Stable = {} /\ Pending(FALSE) = {}
    <2>1. Victim(w) \in Slots \cup {0}
      <3>1. CASE Pending(TRUE) # {}
        BY <1>1, <1>2, <1>5, <3>1, OldestIs
      <3>2. CASE Pending(TRUE) = {}
        BY <1>1, <1>5, <3>2
      <3> QED BY <3>1, <3>2
    <2>2. \A j \in Slots : w.tbl[j].st \in EntryStates
      BY DEF Table, Entry
    <2>3. \A j \in Slots : w.tbl[j].st = "static" \/ w.tbl[j].q # <<>>
      BY <1>5, <2>2 DEF EntryStates
    <2> QED BY <2>1, <2>3
  <1> QED BY <1>3, <1>4, <1>5

\* A free entry is prepared for ip, as v.
Prepare(w, i, ip) == [w EXCEPT !.tbl[i] = [@ EXCEPT !.ip = ip, !.ctime = 0]]
Prepared(w, v, i, ip) ==
  /\ v.sent = w.sent /\ v.mem = w.mem /\ v.queueing = w.queueing
  /\ v.tbl[i].ip = ip /\ v.tbl[i].st = "empty" /\ v.tbl[i].q = <<>> /\ v.tbl[i].ctime = 0
  /\ \A j \in Slots \ {i} : v.tbl[j] = w.tbl[j]

LEMMA FreshIs ==
  ASSUME NEW w, NEW hd, NEW sTo, NEW p \in Nat, Whole(w, hd, sTo, p),
         NEW i \in Slots, w.tbl[i].st = "empty", NEW ip \in Hosts
  PROVE  Whole(Prepare(w, i, ip), hd, sTo, p) /\ Prepared(w, Prepare(w, i, ip), i, ip)
  <1> DEFINE f == [w.tbl[i] EXCEPT !.ip = ip, !.ctime = 0]
             tbl == [w.tbl EXCEPT ![i] = f]
             v == [w EXCEPT !.tbl = tbl]
  <1>1. w \in Table /\ PoolSound(w) /\ (\A j \in Slots : EntrySound(w, j, hd))
    BY DEF Whole
  <1>2. w.tbl \in [Slots -> Entry] /\ w.tbl[i].q = <<>>
    BY <1>1 DEF Table, EntrySound
  <1>3. f \in Entry /\ f.ip = ip /\ f.st = "empty" /\ f.q = <<>> /\ f.ctime = 0
    <2>1. w.tbl[i] \in Entry /\ 0 \in 0 .. ArpMaxAge
      BY <1>2, EmptySeqIs
    <2> QED BY <1>2, <2>1 DEF Entry
  <1>4. Prepare(w, i, ip) = v
    BY DEF Prepare
  <1> HIDE DEF f
  <1>5. tbl \in [Slots -> Entry] /\ tbl[i] = f /\ \A j \in Slots \ {i} : tbl[j] = w.tbl[j]
    BY <1>2, <1>3
  <1> HIDE DEF tbl
  <1>6. v \in Table /\ v.tbl = tbl /\ v.sent = w.sent /\ v.mem = w.mem
        /\ v.pool = w.pool /\ v.size = w.size /\ v.queueing = w.queueing
    BY <1>1, <1>5 DEF Table
  <1> HIDE DEF v
  <1>7. \A j \in Slots : v.tbl[j].q = w.tbl[j].q
    BY <1>2, <1>3, <1>5, <1>6
  <1>8. PoolSound(v)
    BY <1>1, <1>6, <1>7, PoolStays
  <1>9. \A j \in Slots : Calm(w.tbl[j], v.tbl[j])
    <2> SUFFICES ASSUME NEW j \in Slots PROVE Calm(w.tbl[j], v.tbl[j])
      OBVIOUS
    <2>1. CASE j = i
      BY <2>1, <1>3, <1>5, <1>6 DEF Calm
    <2>2. CASE j # i
      <3>1. v.tbl[j] = w.tbl[j] /\ EntrySound(w, j, hd)
        BY <1>1, <1>5, <1>6, <2>2
      <3> QED BY <3>1 DEF Calm, EntrySound
    <2> QED BY <2>1, <2>2
  <1>10. Whole(v, hd, sTo, p)
    BY <1>6, <1>8, <1>9, CalmSteps
  <1> QED BY <1>3, <1>4, <1>5, <1>6, <1>10 DEF Prepared

\* What etharp_find_entry gives its caller.
Entered(w, f, ip, findOnly) ==
  /\ f.i \in Slots \cup {0}
  /\ f.w.sent = w.sent /\ f.w.mem = w.mem /\ f.w.queueing = w.queueing
  /\ f.i = 0 => f.w = w
  /\ f.i = 0 => \A j \in Slots : w.tbl[j].st # "empty" => w.tbl[j].ip # ip
  /\ f.i # 0 => f.w.tbl[f.i].ip = ip
  /\ f.i # 0 => \A j \in Slots \ {f.i} : f.w.tbl[j].st # "empty" => f.w.tbl[j].ip # ip
  /\ f.w = w \/ (~findOnly /\ f.i # 0 /\ f.w.tbl[f.i].st = "empty")
  /\ f.i # 0 /\ f.w.tbl[f.i].st = "empty" => f.w.tbl[f.i].ctime = 0
  /\ findOnly /\ f.i # 0 => f.w.tbl[f.i].st # "empty"
  /\ ~GivesUp(w, f.w)

LEMMA FindIs ==
  ASSUME NEW w, NEW hd, NEW sTo, NEW p \in Nat, Whole(w, hd, sTo, p),
         NEW ip \in Hosts, NEW tryHard \in BOOLEAN, NEW findOnly \in BOOLEAN
  PROVE  LET f == ArpFindEntry(w, ip, tryHard, findOnly) IN
         Whole(f.w, hd, sTo, p) /\ Entered(w, f, ip, findOnly)
  <1> DEFINE f == ArpFindEntry(w, ip, tryHard, findOnly)
             Free == {i \in Slots : w.tbl[i].st = "empty"}
             i0 == Victim(w)
  <1>1. w \in Table /\ (\A j \in Slots : EntrySound(w, j, hd))
    BY DEF Whole
  <1>2. f = IF Match(w, ip) # {} THEN [w |-> w, i |-> Min(Match(w, ip))]
            ELSE IF findOnly \/ (Free = {} /\ ~tryHard) THEN [w |-> w, i |-> 0]
            ELSE IF Free # {} THEN [w |-> Prepare(w, Min(Free), ip), i |-> Min(Free)]
            ELSE IF i0 = 0 THEN [w |-> w, i |-> 0]
            ELSE [w |-> Prepare(ArpFreeEntries(w, {i0}), i0, ip), i |-> i0]
    BY DEF ArpFindEntry, Match, Prepare
  <1>3. ~GivesUp(w, w) /\ 0 \notin Slots
    BY DEF GivesUp, Slots
  <1>4. Match(w, ip) = {} => \A j \in Slots : w.tbl[j].st # "empty" => w.tbl[j].ip # ip
    BY DEF Match
  <1> HIDE DEF f
  <1>5. CASE Match(w, ip) # {}
    <2> DEFINE i == Min(Match(w, ip))
    <2>1. f.w = w /\ f.i = i
      BY <1>2, <1>5
    <2>2. i \in Match(w, ip) /\ \A j \in Slots \ {i} : w.tbl[j].st # "empty" => w.tbl[j].ip # ip
      BY <1>5, OneMatches
    <2> HIDE DEF i
    <2>3. i \in Slots /\ w.tbl[i].st # "empty" /\ w.tbl[i].ip = ip
      BY <2>2 DEF Match
    <2> QED BY <1>3, <2>1, <2>2, <2>3 DEF Entered, f
  <1>6. CASE Match(w, ip) = {} /\ f = [w |-> w, i |-> 0]
    <2>1. f.w = w /\ f.i = 0
      BY <1>6
    <2> QED BY <1>3, <1>4, <1>6, <2>1 DEF Entered, f
  <1>7. CASE Match(w, ip) = {} /\ ~findOnly /\ Free # {}
    <2> DEFINE i == Min(Free)
               v == Prepare(w, i, ip)
    <2>1. f.w = v /\ f.i = i
      BY <1>2, <1>7
    <2>2. i \in Free
      <3>1. Free \in SUBSET Nat
        BY DEF Slots
      <3> QED BY <1>7, <3>1, MinIs
    <2>3. i \in Slots /\ w.tbl[i].st = "empty" /\ w.tbl[i].q = <<>>
      BY <1>1, <2>2 DEF EntrySound
    <2> HIDE DEF i
    <2>4. Whole(v, hd, sTo, p) /\ Prepared(w, v, i, ip)
      BY <2>3, FreshIs
    <2> HIDE DEF v
    <2>5. ~GivesUp(w, v)
      BY <2>3, <2>4 DEF GivesUp, Prepared
    <2>6. \A j \in Slots \ {i} : v.tbl[j].st # "empty" => v.tbl[j].ip # ip
      BY <1>4, <1>7, <2>4 DEF Prepared
    <2> QED BY <1>3, <1>7, <2>1, <2>3, <2>4, <2>5, <2>6 DEF Entered, f, Prepared
  <1>8. CASE Match(w, ip) = {} /\ ~findOnly /\ Free = {} /\ i0 # 0 /\ tryHard
    <2> DEFINE u == ArpFreeEntries(w, {i0})
               v == Prepare(u, i0, ip)
    <2>1. f.w = v /\ f.i = i0
      BY <1>2, <1>8
    <2>2. \A i \in Slots : w.tbl[i].st # "empty"
      BY <1>8
    <2>3. \A i \in Slots : w.tbl[i].st \notin {"empty", "pending"} => w.tbl[i].q = <<>>
      BY <1>1 DEF EntrySound
    <2>4. i0 \in Slots /\ (w.tbl[i0].q # <<>> => \A j \in Slots : w.tbl[j].st = "static" \/ w.tbl[j].q # <<>>)
      BY <1>1, <1>8, <2>2, <2>3, VictimIs
    <2> HIDE DEF i0
    <2>a. Whole(u, hd, sTo, p) /\ Without(w, u, {i0})
      <3>1. {i0} \in SUBSET Slots
        BY <2>4
      <3> QED BY <3>1, FreedIs
    <2>5. /\ u.sent = w.sent /\ u.mem = w.mem /\ u.queueing = w.queueing
          /\ u.tbl[i0] = [NoEntry EXCEPT !.netif = w.tbl[i0].netif]
          /\ \A j \in Slots \ {i0} : u.tbl[j] = w.tbl[j]
      BY <2>a, <2>4 DEF Without
    <2>6. u.tbl[i0].st = "empty"
      BY <2>5 DEF NoEntry
    <2> HIDE DEF u
    <2>b. Whole(v, hd, sTo, p) /\ Prepared(u, v, i0, ip)
      BY <2>4, <2>a, <2>6, FreshIs
    <2>7. /\ v.sent = u.sent /\ v.mem = u.mem /\ v.queueing = u.queueing
          /\ v.tbl[i0].ip = ip /\ v.tbl[i0].st = "empty" /\ v.tbl[i0].ctime = 0
          /\ \A j \in Slots \ {i0} : v.tbl[j] = u.tbl[j]
      BY <2>b DEF Prepared
    <2> HIDE DEF v
    <2>8. ~GivesUp(w, v)
      BY <2>4, <2>5, <2>7 DEF GivesUp
    <2>9. \A j \in Slots \ {i0} : v.tbl[j].st # "empty" => v.tbl[j].ip # ip
      BY <1>4, <1>8, <2>5, <2>7
    <2> QED BY <1>3, <1>8, <2>1, <2>4, <2>5, <2>b, <2>7, <2>8, <2>9 DEF Entered, f
  <1>9. CASE Match(w, ip) = {} /\ (findOnly \/ (Free = {} /\ ~tryHard) \/ (Free = {} /\ i0 = 0))
    BY <1>2, <1>6, <1>9
  <1> QED BY <1>5, <1>7, <1>8, <1>9

-----------------------------------------------------------------------------
(* What a handler leaves, and what it sent.                                *)

\* The last packet each host got, when the handler leaves v.
After(sTo, v) ==
  [h \in Hosts |-> IF SentTo(v, h) = {} THEN sTo[h] ELSE v.sent[Max(SentTo(v, h))].n]

\* The packets go to their hosts in order and at their addresses.
Straight(v, sTo, hd) ==
  \A k \in ToHosts(v) :
    /\ v.sent[k].n > sTo[v.sent[k].to] /\ v.sent[k].mac = hd[v.sent[k].to]
    /\ \A j \in ToHosts(v) : j < k => v.sent[j].n < v.sent[k].n

Done(w, v, hd, sTo, p) ==
  /\ Whole(v, hd, After(sTo, v), p) /\ After(sTo, v) \in [Hosts -> 0 .. p]
  /\ Straight(v, sTo, hd) /\ ~GivesUp(w, v)

\* Nothing was sent.
LEMMA QuietIs ==
  ASSUME NEW w, NEW v, NEW hd, NEW p \in Nat, NEW sTo \in [Hosts -> 0 .. p],
         Whole(v, hd, sTo, p), v.sent = <<>>, ~GivesUp(w, v)
  PROVE  Done(w, v, hd, sTo, p)
  <1>1. ToHosts(v) = {} /\ \A h \in Hosts : SentTo(v, h) = {}
    BY DEF ToHosts, SentTo
  <1>2. After(sTo, v) = sTo
    BY <1>1 DEF After
  <1> QED BY <1>1, <1>2 DEF Done, Straight

\* The table stays.
LEMMA TableStays ==
  ASSUME NEW w, NEW hd, NEW sTo, NEW p \in Nat, NEW p2 \in Nat, p <= p2, Whole(w, hd, sTo, p),
         NEW v \in Table, v.tbl = w.tbl, v.pool = w.pool, v.size = w.size, v.queueing = w.queueing
  PROVE  Whole(v, hd, sTo, p2)
  <1>1. PoolSound(w) /\ (\A j \in Slots : EntrySound(w, j, hd))
    BY DEF Whole
  <1>2. PoolSound(v)
    BY <1>1, PoolStays
  <1>3. \A i \in Slots : Calm(w.tbl[i], v.tbl[i])
    <2> SUFFICES ASSUME NEW i \in Slots PROVE Calm(w.tbl[i], w.tbl[i])
      OBVIOUS
    <2>1. EntrySound(w, i, hd)
      BY <1>1
    <2> QED BY <2>1 DEF Calm, EntrySound
  <1> QED BY <1>2, <1>3, CalmSteps

\* No entry is for the host whose address changed.
LEMMA StrangerMoves ==
  ASSUME NEW w, NEW hd, NEW hd2, NEW sTo, NEW p, Whole(w, hd, sTo, p), NEW ip,
         \A h \in Hosts \ {ip} : hd2[h] = hd[h],
         \A j \in Slots : w.tbl[j].st # "empty" => w.tbl[j].ip # ip
  PROVE  Whole(w, hd2, sTo, p)
  <1>1. ASSUME NEW i \in Slots PROVE EntrySound(w, i, hd2)
    <2>1. EntrySound(w, i, hd)
      BY DEF Whole
    <2>2. w.tbl[i].st # "empty" => w.tbl[i].ip \in Hosts \ {ip}
      BY <2>1 DEF EntrySound
    <2>3. w.tbl[i].st \notin {"empty", "pending"} => hd2[w.tbl[i].ip] = hd[w.tbl[i].ip]
      BY <2>2
    <2> QED BY <2>1, <2>3 DEF EntrySound
  <1> QED BY <1>1 DEF Whole

\* The queue q is sent to a host.
LastOf(q, sTo, to) == IF q = <<>> THEN sTo ELSE [sTo EXCEPT ![to] = q[Len(q)]]

LEMMA SendIs ==
  ASSUME NEW w \in Table, NEW q \in Seq(Nat), NEW to \in Hosts, NEW mac \in Nat,
         NEW p \in Nat, NEW sTo \in [Hosts -> 0 .. p],
         \A k \in DOMAIN q : /\ q[k] <= p /\ q[k] > sTo[to]
                             /\ \A j \in DOMAIN q : j < k => q[j] < q[k],
         NEW hd, hd[to] = mac
  PROVE  LET v == EtharpSendIp(w, q, to, mac) IN
         /\ v \in Table /\ v.tbl = w.tbl /\ v.pool = w.pool /\ v.size = w.size /\ v.queueing = w.queueing
         /\ Straight(v, sTo, hd)
         /\ After(sTo, v) = LastOf(q, sTo, to) /\ LastOf(q, sTo, to) \in [Hosts -> 0 .. p]
  <1> DEFINE sent == [k \in DOMAIN q |-> [n |-> q[k], to |-> to, mac |-> mac]]
             v == [w EXCEPT !.sent = sent]
  <1>1. EtharpSendIp(w, q, to, mac) = v
    BY DEF EtharpSendIp
  <1>2. Len(q) \in Nat /\ DOMAIN q = 1 .. Len(q) /\ \A k \in DOMAIN q : q[k] \in Nat
    OBVIOUS
  <1>3. sent \in Seq(Packet)
    <2>1. \A k \in 1 .. Len(q) : sent[k] \in Packet
      BY <1>2 DEF Packet
    <2>2. sent = [k \in 1 .. Len(q) |-> sent[k]]
      BY <1>2
    <2> HIDE DEF sent
    <2> QED BY <1>2, <2>1, <2>2
  <1>4. DOMAIN sent = DOMAIN q /\ \A k \in DOMAIN q : sent[k].n = q[k] /\ sent[k].to = to /\ sent[k].mac = mac
    OBVIOUS
  <1> HIDE DEF sent
  <1>5. v \in Table /\ v.tbl = w.tbl /\ v.pool = w.pool /\ v.size = w.size /\ v.queueing = w.queueing
        /\ v.sent = sent
    BY <1>3 DEF Table
  <1> HIDE DEF v
  <1>6. ToHosts(v) = DOMAIN q
    BY <1>4, <1>5 DEF ToHosts
  <1>7. Straight(v, sTo, hd)
    BY <1>4, <1>5, <1>6 DEF Straight
  <1>8. SentTo(v, to) = DOMAIN q /\ \A h \in Hosts \ {to} : SentTo(v, h) = {}
    BY <1>4, <1>5 DEF SentTo
  <1>9. CASE q = <<>>
    <2>1. \A h \in Hosts : SentTo(v, h) = {}
      BY <1>8, <1>9
    <2>2. After(sTo, v) = sTo
      BY <2>1 DEF After
    <2> QED BY <1>1, <1>5, <1>7, <1>9, <2>2 DEF LastOf
  <1>10. CASE q # <<>>
    <2>1. Len(q) > 0 /\ Len(q) \in DOMAIN q
      BY <1>2, <1>10
    <2>2. Max(SentTo(v, to)) = Len(q)
      BY <1>2, <1>8, <2>1, MaxOfInterval
    <2>3. v.sent[Max(SentTo(v, to))].n = q[Len(q)] /\ SentTo(v, to) # {}
      BY <1>4, <1>5, <1>8, <2>1, <2>2
    <2>4. After(sTo, v) = [sTo EXCEPT ![to] = q[Len(q)]]
      BY <1>8, <2>3 DEF After
    <2>5. q[Len(q)] \in 0 .. p
      BY <1>2, <2>1
    <2>6. [sTo EXCEPT ![to] = q[Len(q)]] \in [Hosts -> 0 .. p]
      BY <2>5
    <2> QED BY <1>1, <1>5, <1>7, <1>10, <2>4, <2>6 DEF LastOf
  <1> QED BY <1>9, <1>10

\* What is sent when the table is v, after the queue of the only entry for the
\* host: the last packets the hosts got are then as the table wants them.
LEMMA SentIs ==
  ASSUME NEW w, NEW v, NEW hd, NEW p \in Nat, NEW sTo \in [Hosts -> 0 .. p],
         NEW q \in Seq(Nat), NEW to \in Hosts, NEW mac \in Nat, hd[to] = mac,
         \A k \in DOMAIN q : /\ q[k] <= p /\ q[k] > sTo[to]
                             /\ \A j \in DOMAIN q : j < k => q[j] < q[k],
         Whole(v, hd, LastOf(q, sTo, to), p), ~GivesUp(w, v)
  PROVE  Done(w, EtharpSendIp(v, q, to, mac), hd, sTo, p)
  <1> DEFINE u == EtharpSendIp(v, q, to, mac)
  <1>1. v \in Table
    BY DEF Whole
  <1>2. /\ u \in Table /\ u.tbl = v.tbl /\ u.pool = v.pool /\ u.size = v.size /\ u.queueing = v.queueing
        /\ Straight(u, sTo, hd)
        /\ After(sTo, u) = LastOf(q, sTo, to) /\ LastOf(q, sTo, to) \in [Hosts -> 0 .. p]
    BY <1>1, SendIs
  <1> HIDE DEF u
  <1>3. Whole(u, hd, LastOf(q, sTo, to), p)
    BY <1>2, TableStays
  <1>4. ~GivesUp(w, u)
    BY <1>2 DEF GivesUp
  <1>5. Done(w, u, hd, sTo, p)
    BY <1>2, <1>3, <1>4 DEF Done
  <1> QED BY <1>5 DEF u

\* A host gives its address: what waited for it is sent.
LEMMA UpdateIs ==
  ASSUME NEW w, NEW hd, NEW p \in Nat, NEW sTo \in [Hosts -> 0 .. p],
         Whole(w, hd, sTo, p), w.sent = <<>>,
         NEW ifc \in Nets, NEW ip \in Hosts, NEW mac \in Nat, NEW tryHard \in BOOLEAN, NEW static \in BOOLEAN,
         NEW hd2, hd2[ip] = mac, \A h \in Hosts \ {ip} : hd2[h] = hd[h]
  PROVE  Done(w, UpdateArpEntry(w, ifc, ip, mac, tryHard, static), hd2, sTo, p)
  <1> DEFINE f == ArpFindEntry(w, ip, tryHard, ~tryHard)
             i == f.i
             u == f.w
             e == u.tbl[i]
             e2 == [e EXCEPT !.st = IF static THEN "static" ELSE "stable",
                             !.netif = ifc, !.mac = mac, !.ctime = 0, !.q = <<>>]
             pool == u.pool + Held(u, {i})
             known == [u EXCEPT !.tbl[i] = e2, !.pool = pool]
             x == UpdateArpEntry(w, ifc, ip, mac, tryHard, static)
  <1>1. x = IF i = 0 THEN w ELSE EtharpSendIp(known, e.q, ip, mac)
    BY DEF UpdateArpEntry
  <1>2. Whole(u, hd, sTo, p) /\ Entered(w, f, ip, ~tryHard)
    BY FindIs
  <1> HIDE DEF x, f
  <1>3. CASE i = 0
    <2>0. \A j \in Slots : w.tbl[j].st # "empty" => w.tbl[j].ip # ip
      BY <1>2, <1>3 DEF Entered
    <2>1. Whole(w, hd2, sTo, p)
      BY <2>0, StrangerMoves
    <2>2. ~GivesUp(w, w)
      BY DEF GivesUp
    <2> QED BY <1>1, <1>3, <2>1, <2>2, QuietIs DEF x
  <1>4. CASE i # 0
    <2>1. i \in Slots /\ u.tbl[i].ip = ip /\ ~GivesUp(w, u)
          /\ \A j \in Slots \ {i} : u.tbl[j].st # "empty" => u.tbl[j].ip # ip
      BY <1>2, <1>4 DEF Entered
    <2>2. u \in Table /\ PoolSound(u) /\ QueueSound(e, sTo, p)
      BY <1>2, <2>1 DEF Whole
    <2>3. u.tbl \in [Slots -> Entry] /\ e \in Entry
      BY <2>1, <2>2 DEF Table
    <2>4. e.q \in Seq(Nat)
      BY <2>3 DEF Entry
    <2> HIDE DEF e, u, i
    <2>5. /\ e2 \in Entry /\ e2.ip = ip /\ e2.mac = mac /\ e2.q = <<>> /\ e2.st \in {"static", "stable"}
      BY <2>1, <2>3, EmptySeqIs DEF Entry, EntryStates, e
    <2> HIDE DEF e2
    <2> DEFINE tbl == [u.tbl EXCEPT ![i] = e2]
    <2>6. known = [u EXCEPT !.tbl = tbl, !.pool = pool]
      OBVIOUS
    <2>7. tbl \in [Slots -> Entry] /\ tbl[i] = e2 /\ \A j \in Slots \ {i} : tbl[j] = u.tbl[j]
      BY <2>1, <2>3, <2>5
    <2> HIDE DEF tbl, pool
    <2>8. known.tbl = tbl /\ known.pool = pool /\ known.size = u.size /\ known.queueing = u.queueing
      BY <2>2, <2>6 DEF Table
    <2> HIDE DEF known
    <2>9. pool \in Nat /\ PoolSound(known)
      <3>1. \A j \in Slots : known.tbl[j].q = IF j \in {i} THEN <<>> ELSE u.tbl[j].q
        BY <2>5, <2>7, <2>8
      <3>2. {i} \in SUBSET Slots
        BY <2>1
      <3>3. known.pool \in Nat /\ PoolSound(known)
        BY <2>2, <2>8, <3>1, <3>2, PoolGetsBack DEF pool
      <3> QED BY <2>8, <3>3
    <2>10. known \in Table
      BY <2>2, <2>6, <2>7, <2>9 DEF Table
    <2> DEFINE sTo2 == LastOf(e.q, sTo, ip)
    <2>11. \A k \in DOMAIN e.q : /\ e.q[k] <= p /\ e.q[k] > sTo[ip]
                                 /\ \A j \in DOMAIN e.q : j < k => e.q[j] < e.q[k]
      BY <2>1, <2>2 DEF QueueSound, e
    <2>12. \A h \in Hosts \ {ip} : sTo2[h] = sTo[h]
      BY DEF LastOf
    <2> HIDE DEF sTo2
    <2>13. Whole(known, hd2, sTo2, p)
      <3>1. known.tbl[i] = e2
        BY <2>7, <2>8
      <3>2. QueueSound(known.tbl[i], sTo2, p)
        BY <2>5, <3>1 DEF QueueSound
      <3>3. \A j \in Slots \ {i} : known.tbl[j] = u.tbl[j] /\ (u.tbl[j].st # "empty" => u.tbl[j].ip # ip)
        BY <2>1, <2>7, <2>8
      <3>4. \A h \in Hosts \ {ip} : hd2[h] = hd[h] /\ sTo2[h] = sTo[h]
        BY <2>12
      <3>5. /\ known.tbl[i].ip = ip /\ known.tbl[i].st # "empty"
            /\ known.tbl[i].st = "pending" => known.tbl[i].ctime < ArpMaxPending
            /\ known.tbl[i].st # "pending" => known.tbl[i].q = <<>> /\ known.tbl[i].mac = hd2[ip]
        BY <2>5, <3>1
      <3>6. Whole(u, hd, sTo, p)
        BY <1>2 DEF u
      <3>7. p <= p /\ i \in Slots /\ PoolSound(known)
        BY <2>1, <2>9
      <3>8. Placed(u, known, i, ip, hd, hd2, sTo, sTo2, p)
        BY <3>2, <3>3, <3>4, <3>5 DEF Placed
      <3> QED BY <2>10, <3>6, <3>7, <3>8, EntryPlaced
    <2>14. ~GivesUp(w, known)
      <3>1. \A j \in Slots : known.tbl[j].ip = u.tbl[j].ip
        BY <2>1, <2>5, <2>7, <2>8
      <3> QED BY <2>1, <3>1 DEF GivesUp
    <2>15. Done(w, EtharpSendIp(known, e.q, ip, mac), hd2, sTo, p)
      BY <2>4, <2>11, <2>13, <2>14, SentIs DEF sTo2
    <2>16. x = EtharpSendIp(known, e.q, ip, mac)
      BY <1>1, <1>4 DEF known, e, u, i
    <2> QED BY <2>15, <2>16 DEF x
  <1> QED BY <1>3, <1>4

\* Entries that are given up, in a call that sends nothing.
LEMMA FreeIsDone ==
  ASSUME NEW w, NEW hd, NEW p \in Nat, NEW sTo \in [Hosts -> 0 .. p], Whole(w, hd, sTo, p), w.sent = <<>>,
         NEW S \in SUBSET Slots
  PROVE  Done(w, ArpFreeEntries(w, S), hd, sTo, p)
  <1> DEFINE v == ArpFreeEntries(w, S)
  <1>1. Whole(v, hd, sTo, p) /\ Without(w, v, S)
    BY FreedIs
  <1> HIDE DEF v
  <1>2. \A i \in Slots : v.tbl[i].ip \in {w.tbl[i].ip, "any"}
    BY <1>1 DEF Without, NoEntry
  <1>3. ~GivesUp(w, v) /\ v.sent = <<>>
    BY <1>1, <1>2 DEF GivesUp, Without
  <1>4. Done(w, v, hd, sTo, p)
    BY <1>1, <1>3, QuietIs
  <1> QED BY <1>4 DEF v

LEMMA RemoveIs ==
  ASSUME NEW w, NEW hd, NEW p \in Nat, NEW sTo \in [Hosts -> 0 .. p], Whole(w, hd, sTo, p), w.sent = <<>>,
         NEW ip \in Hosts
  PROVE  Done(w, RemoveStaticEntry(w, ip), hd, sTo, p)
  <1> DEFINE f == ArpFindEntry(w, ip, FALSE, TRUE)
  <1>1. Entered(w, f, ip, TRUE)
    BY FindIs
  <1>2. ~GivesUp(w, w)
    BY DEF GivesUp
  <1>3. RemoveStaticEntry(w, ip) = IF f.i = 0 \/ w.tbl[f.i].st # "static" THEN w ELSE ArpFreeEntries(w, {f.i})
    BY DEF RemoveStaticEntry
  <1> HIDE DEF f
  <1>4. f.i # 0 => {f.i} \in SUBSET Slots
    BY <1>1 DEF Entered
  <1>5. CASE f.i = 0 \/ w.tbl[f.i].st # "static"
    BY <1>2, <1>3, <1>5, QuietIs
  <1>6. CASE ~(f.i = 0 \/ w.tbl[f.i].st # "static")
    BY <1>3, <1>4, <1>6, FreeIsDone
  <1> QED BY <1>5, <1>6

LEMMA CleanupIs ==
  ASSUME NEW w, NEW hd, NEW p \in Nat, NEW sTo \in [Hosts -> 0 .. p], Whole(w, hd, sTo, p), w.sent = <<>>,
         NEW ifc \in Nets
  PROVE  Done(w, CleanupNetif(w, ifc), hd, sTo, p)
  BY FreeIsDone DEF CleanupNetif

\* The table a second older.
LEMMA TicksIs ==
  ASSUME NEW w, NEW hd, NEW p \in Nat, NEW sTo \in [Hosts -> 0 .. p], Whole(w, hd, sTo, p), w.sent = <<>>
  PROVE  Done(w, EtharpTmr(w), hd, sTo, p)
  <1> USE ArpAssumption
  <1> DEFINE Older(e) == [e EXCEPT !.ctime = @ + 1]
             Expired(e) == e.ctime + 1 >= ArpMaxAge \/ (e.st = "pending" /\ e.ctime + 1 >= ArpMaxPending)
             Aging == {i \in Slots : w.tbl[i].st \notin {"empty", "static"}}
             Dying == {i \in Aging : Expired(w.tbl[i])}
             Aged(i) == IF i \notin Aging THEN w.tbl[i]
                        ELSE IF w.tbl[i].st = "rerequesting" /\ i \notin Dying
                             THEN [Older(w.tbl[i]) EXCEPT !.st = "stable"]
                        ELSE Older(w.tbl[i])
             aged == [w EXCEPT !.tbl = [i \in Slots |-> Aged(i)]]
             tbl == [i \in Slots |-> IF i \in Dying THEN [NoEntry EXCEPT !.netif = Aged(i).netif] ELSE Aged(i)]
             pool == w.pool + Held(w, Dying)
             v == [w EXCEPT !.pool = pool, !.tbl = tbl]
  <1>1. w \in Table /\ PoolSound(w) /\ (\A j \in Slots : EntrySound(w, j, hd))
    BY DEF Whole
  <1>2. \A i \in Slots : w.tbl[i] \in Entry
    BY <1>1 DEF Table
  <1>3. EtharpTmr(w) = ArpFreeEntries(aged, Dying)
    BY DEF EtharpTmr
  <1>4. \A i \in Slots : Aged(i).q = w.tbl[i].q /\ Aged(i).netif = w.tbl[i].netif /\ Aged(i).ip = w.tbl[i].ip
    BY <1>2 DEF Entry
  <1>5. /\ aged.tbl = [i \in Slots |-> Aged(i)] /\ aged.pool = w.pool /\ aged.queueing = w.queueing
    BY <1>1 DEF Table
  <1>6. Held(aged, Dying) = Held(w, Dying)
    <2>1. \A i \in Dying : aged.tbl[i].q = w.tbl[i].q
      BY <1>4, <1>5
    <2> HIDE DEF aged, Dying
    <2>2. Waiting(aged, Dying) = Waiting(w, Dying)
      <3>1. \A x : x \in Waiting(aged, Dying) <=> \E i \in Dying : \E k \in DOMAIN w.tbl[i].q : x = <<i, k>>
        BY <2>1, WaitingIs
      <3>2. \A x : x \in Waiting(w, Dying) <=> \E i \in Dying : \E k \in DOMAIN w.tbl[i].q : x = <<i, k>>
        BY WaitingIs
      <3> QED BY <3>1, <3>2
    <2> QED BY <1>5, <2>2 DEF Held
  <1>7. EtharpTmr(w) = v
    <2>1. ArpFreeEntries(aged, Dying) = [aged EXCEPT !.pool = pool, !.tbl = tbl]
      <3>1. [i \in Slots |-> IF i \in Dying THEN [NoEntry EXCEPT !.netif = aged.tbl[i].netif] ELSE aged.tbl[i]] = tbl
        BY <1>5
      <3> HIDE DEF aged, Dying, tbl
      <3> QED BY <1>5, <1>6, <3>1 DEF ArpFreeEntries
    <2> HIDE DEF pool, tbl, Aged, Dying
    <2>2. [aged EXCEPT !.pool = pool, !.tbl = tbl] = v
      BY <1>1 DEF Table
    <2> QED BY <1>3, <2>1, <2>2
  <1>8. ASSUME NEW i \in Slots
        PROVE  tbl[i] \in Entry /\ Calm(w.tbl[i], tbl[i]) /\ tbl[i].ip \in {w.tbl[i].ip, "any"}
               /\ tbl[i].q = IF i \in Dying THEN <<>> ELSE w.tbl[i].q
    <2> DEFINE e == w.tbl[i]
    <2>1. e \in Entry /\ EntrySound(w, i, hd)
      BY <1>1, <1>2
    <2>2. e.ctime \in Nat /\ e.ctime <= ArpMaxAge
      BY <2>1 DEF Entry
    <2>3. CASE i \in Dying
      <3>1. tbl[i] = [NoEntry EXCEPT !.netif = e.netif]
        BY <1>4, <2>3
      <3>2. e.netif \in Nets \cup {"none"}
        BY <2>1 DEF Entry
      <3>3. [NoEntry EXCEPT !.netif = e.netif] \in Entry
        BY <3>2, EmptySeqIs DEF NoEntry, Entry, EntryStates
      <3> QED BY <2>3, <3>1, <3>3 DEF NoEntry, Calm
    <2>4. CASE i \notin Aging
      <3>1. tbl[i] = e
        BY <2>4
      <3> QED BY <2>1, <2>4, <3>1 DEF Calm, EntrySound
    <2>5. CASE i \in Aging /\ i \notin Dying
      <3>1. e.ctime + 1 < ArpMaxAge /\ (e.st = "pending" => e.ctime + 1 < ArpMaxPending)
            /\ e.st \notin {"empty", "static"}
        <4>1. ~Expired(e) /\ e.st \notin {"empty", "static"}
          BY <2>5
        <4> QED BY <2>2, <4>1
      <3>2. e.ctime + 1 \in 0 .. ArpMaxAge
        BY <2>2, <3>1
      <3>3. Older(e) \in Entry /\ Older(e).st = e.st /\ Older(e).ip = e.ip /\ Older(e).q = e.q
            /\ Older(e).mac = e.mac /\ Older(e).ctime = e.ctime + 1
        BY <2>1, <3>2 DEF Entry
      <3>4. CASE e.st = "rerequesting"
        <4>1. tbl[i] = [Older(e) EXCEPT !.st = "stable"]
          BY <2>5, <3>4
        <4> HIDE DEF Older
        <4>2. tbl[i] \in Entry /\ tbl[i].st = "stable" /\ tbl[i].ip = e.ip /\ tbl[i].q = e.q /\ tbl[i].mac = e.mac
          BY <3>3, <4>1 DEF Entry, EntryStates
        <4> QED BY <2>5, <3>4, <4>2 DEF Calm
      <3>5. CASE e.st # "rerequesting"
        <4>1. tbl[i] = Older(e)
          BY <2>5, <3>5
        <4> HIDE DEF Older, tbl
        <4> QED BY <2>5, <3>1, <3>3, <4>1 DEF Calm
      <3> QED BY <3>4, <3>5
    <2> QED BY <2>3, <2>4, <2>5
  <1>9. tbl \in [Slots -> Entry] /\ Dying \in SUBSET Slots
    BY <1>8
  <1> HIDE DEF tbl, Dying, pool
  <1>10. v.tbl = tbl /\ v.pool = pool /\ v.queueing = w.queueing /\ v.size = w.size /\ v.sent = w.sent
    BY <1>1 DEF Table
  <1>11. pool \in Nat /\ PoolSound(v)
    <2> HIDE DEF v
    <2>1. \A i \in Slots : v.tbl[i].q = IF i \in Dying THEN <<>> ELSE w.tbl[i].q
      BY <1>8, <1>10
    <2>2. v.pool \in Nat /\ PoolSound(v)
      BY <1>1, <1>9, <1>10, <2>1, PoolGetsBack DEF pool
    <2> QED BY <1>10, <2>2
  <1>12. v \in Table
    BY <1>1, <1>9, <1>11 DEF Table
  <1> HIDE DEF v
  <1>13. Whole(v, hd, sTo, p)
    <2>1. \A i \in Slots : Calm(w.tbl[i], v.tbl[i])
      BY <1>8, <1>10
    <2> QED BY <1>11, <1>12, <2>1, CalmSteps
  <1>14. ~GivesUp(w, v)
    BY <1>8, <1>10 DEF GivesUp
  <1>15. Done(w, v, hd, sTo, p)
    BY <1>10, <1>13, <1>14, QuietIs
  <1> QED BY <1>7, <1>15

-----------------------------------------------------------------------------
(* Packets of the layer above.                                             *)

\* The next packet is sent to a host whose address is known.
LEMMA SendNow ==
  ASSUME NEW w0, NEW w, NEW hd, NEW p \in Nat, NEW sTo \in [Hosts -> 0 .. p], Whole(w, hd, sTo, p),
         NEW i \in Slots, NEW v \in Table, PoolSound(v), ~GivesUp(w0, v),
         \A j \in Slots \ {i} : v.tbl[j] = w.tbl[j],
         w.tbl[i].st \notin {"empty", "pending"}, v.tbl[i].st \notin {"empty", "pending"},
         v.tbl[i].ip = w.tbl[i].ip, v.tbl[i].q = w.tbl[i].q, v.tbl[i].mac = w.tbl[i].mac
  PROVE  Done(w0, EtharpSendIp(v, <<p + 1>>, w.tbl[i].ip, w.tbl[i].mac), hd, sTo, p + 1)
  <1> DEFINE ip == w.tbl[i].ip
             mac == w.tbl[i].mac
             q == <<p + 1>>
             sTo2 == LastOf(q, sTo, ip)
  <1>1. EntrySound(w, i, hd) /\ w \in Table
    BY DEF Whole
  <1>2. ip \in Hosts /\ mac = hd[ip] /\ v.tbl[i].q = <<>> /\ mac \in Nat
        /\ \A j \in Slots \ {i} : w.tbl[j].st # "empty" => w.tbl[j].ip # ip
    BY <1>1 DEF EntrySound, Table, Entry
  <1>3. q \in Seq(Nat) /\ Len(q) = 1 /\ q[1] = p + 1 /\ DOMAIN q = {1} /\ q # <<>>
    OBVIOUS
  <1> HIDE DEF q, ip, mac
  <1>4. \A h \in Hosts \ {ip} : sTo2[h] = sTo[h]
    BY <1>2 DEF LastOf
  <1> HIDE DEF sTo2
  <1>5. QueueSound(v.tbl[i], sTo2, p + 1)
    BY <1>2 DEF QueueSound
  <1>6. Placed(w, v, i, ip, hd, hd, sTo, sTo2, p + 1)
    BY <1>2, <1>4, <1>5 DEF Placed, ip, mac
  <1>7. Whole(v, hd, sTo2, p + 1)
    <2>1. p + 1 \in Nat /\ p <= p + 1
      OBVIOUS
    <2> QED BY <1>2, <1>6, <2>1, EntryPlaced
  <1>8. \A k \in DOMAIN q : /\ q[k] <= p + 1 /\ q[k] > sTo[ip]
                            /\ \A j \in DOMAIN q : j < k => q[j] < q[k]
    <2>1. sTo[ip] \in 0 .. p
      BY <1>2
    <2> QED BY <1>3, <2>1
  <1>9. p + 1 \in Nat /\ sTo \in [Hosts -> 0 .. (p + 1)]
    <2>1. \A h \in Hosts : sTo[h] \in 0 .. (p + 1)
      OBVIOUS
    <2> QED BY <2>1
  <1>10. Done(w0, EtharpSendIp(v, q, ip, mac), hd, sTo, p + 1)
    BY <1>2, <1>3, <1>7, <1>8, <1>9, SentIs DEF sTo2
  <1> QED BY <1>10 DEF q, ip, mac

\* An entry with a packet at the end of its queue.
LEMMA QueueGrows ==
  ASSUME NEW e \in Entry, NEW p \in Nat, NEW sTo \in [Hosts -> 0 .. p], e.ip \in Hosts,
         QueueSound(e, sTo, p), NEW f, f.ip = e.ip,
         f.q = Append(e.q, p + 1) \/ f.q = <<p + 1>>
  PROVE  QueueSound(f, sTo, p + 1)
  <1>1. e.q \in Seq(Nat) /\ sTo[e.ip] \in 0 .. p
    BY DEF Entry
  <1>2. CASE f.q = <<p + 1>>
    <2>1. DOMAIN f.q = {1} /\ f.q[1] = p + 1
      BY <1>2
    <2> QED BY <1>1, <2>1 DEF QueueSound
  <1>3. CASE f.q = Append(e.q, p + 1)
    <2> DEFINE n == Len(e.q)
    <2>1. n \in Nat /\ DOMAIN e.q = 1 .. n /\ \A k \in 1 .. n : e.q[k] \in Nat
      BY <1>1
    <2>2. DOMAIN f.q = 1 .. (n + 1) /\ f.q[n + 1] = p + 1 /\ \A k \in 1 .. n : f.q[k] = e.q[k]
      BY <1>1, <1>3
    <2> HIDE DEF n
    <2>3. ASSUME NEW k \in DOMAIN f.q
          PROVE  /\ f.q[k] <= p + 1 /\ f.q[k] > sTo[f.ip]
                 /\ \A j \in DOMAIN f.q : j < k => f.q[j] < f.q[k]
      <3>1. CASE k = n + 1
        <4>1. \A j \in DOMAIN f.q : j < k => f.q[j] < f.q[k]
          <5> SUFFICES ASSUME NEW j \in DOMAIN f.q, j < k PROVE f.q[j] < f.q[k]
            OBVIOUS
          <5>1. j \in 1 .. n
            BY <2>1, <2>2, <3>1
          <5>2. e.q[j] \in Nat /\ e.q[j] <= p
            BY <2>1, <5>1 DEF QueueSound
          <5> QED BY <2>2, <3>1, <5>1, <5>2
        <4> QED BY <1>1, <2>2, <3>1, <4>1
      <3>2. CASE k \in 1 .. n
        <4>1. /\ e.q[k] <= p /\ e.q[k] > sTo[e.ip]
              /\ \A j \in 1 .. n : j < k => e.q[j] < e.q[k]
          BY <2>1, <3>2 DEF QueueSound
        <4>2. e.q[k] \in Nat /\ f.q[k] = e.q[k]
          BY <2>1, <2>2, <3>2
        <4>3. \A j \in DOMAIN f.q : j < k => j \in 1 .. n /\ f.q[j] = e.q[j]
          BY <2>1, <2>2, <3>2
        <4>4. \A j \in DOMAIN f.q : j < k => f.q[j] < f.q[k]
          BY <4>1, <4>2, <4>3
        <4>5. f.q[k] <= p + 1 /\ f.q[k] > sTo[f.ip]
          BY <4>1, <4>2
        <4> QED BY <4>4, <4>5
      <3> QED BY <2>1, <2>2, <3>1, <3>2
    <2> QED BY <2>3 DEF QueueSound
  <1> QED BY <1>2, <1>3

\* An entry of the table gets the state st.
LEMMA StateIs ==
  ASSUME NEW w \in Table, NEW i \in Slots, NEW st \in EntryStates
  PROVE  LET v == [w EXCEPT !.tbl[i].st = st] IN
         /\ v \in Table /\ v.pool = w.pool /\ v.size = w.size /\ v.queueing = w.queueing
         /\ v.sent = w.sent
         /\ v.tbl[i].st = st /\ v.tbl[i].ip = w.tbl[i].ip /\ v.tbl[i].q = w.tbl[i].q
         /\ v.tbl[i].mac = w.tbl[i].mac /\ v.tbl[i].ctime = w.tbl[i].ctime
         /\ \A j \in Slots \ {i} : v.tbl[j] = w.tbl[j]
  <1> DEFINE f == [w.tbl[i] EXCEPT !.st = st]
             tbl == [w.tbl EXCEPT ![i] = f]
             v == [w EXCEPT !.tbl = tbl]
  <1>1. w.tbl \in [Slots -> Entry] /\ w.tbl[i] \in Entry
    BY DEF Table
  <1>2. f \in Entry /\ f.st = st /\ f.ip = w.tbl[i].ip /\ f.q = w.tbl[i].q /\ f.mac = w.tbl[i].mac
        /\ f.ctime = w.tbl[i].ctime
    BY <1>1 DEF Entry
  <1>3. [w EXCEPT !.tbl[i].st = st] = v
    OBVIOUS
  <1> HIDE DEF f
  <1>4. tbl \in [Slots -> Entry] /\ tbl[i] = f /\ \A j \in Slots \ {i} : tbl[j] = w.tbl[j]
    BY <1>1, <1>2
  <1> HIDE DEF tbl
  <1>5. v \in Table
    BY <1>4 DEF Table
  <1>6. v.tbl = tbl /\ v.pool = w.pool /\ v.size = w.size /\ v.queueing = w.queueing /\ v.sent = w.sent
    BY DEF Table
  <1> QED BY <1>2, <1>3, <1>4, <1>5, <1>6

\* The queue of an entry becomes q, and the pool is what that leaves.
WithQueue(w, i, q, pool) == [w EXCEPT !.tbl[i].q = q, !.pool = pool]

LEMMA QueueIs ==
  ASSUME NEW w \in Table, NEW i \in Slots, NEW q \in Seq(Nat), NEW pool \in Nat
  PROVE  LET v == WithQueue(w, i, q, pool) IN
         /\ v \in Table /\ v.pool = pool /\ v.size = w.size /\ v.queueing = w.queueing
         /\ v.sent = w.sent
         /\ v.tbl[i].st = w.tbl[i].st /\ v.tbl[i].ip = w.tbl[i].ip /\ v.tbl[i].q = q
         /\ v.tbl[i].ctime = w.tbl[i].ctime
         /\ \A j \in Slots \ {i} : v.tbl[j] = w.tbl[j]
  <1> DEFINE f == [w.tbl[i] EXCEPT !.q = q]
             tbl == [w.tbl EXCEPT ![i] = f]
             v == [w EXCEPT !.tbl = tbl, !.pool = pool]
  <1>1. w.tbl \in [Slots -> Entry] /\ w.tbl[i] \in Entry
    BY DEF Table
  <1>2. f \in Entry /\ f.st = w.tbl[i].st /\ f.ip = w.tbl[i].ip /\ f.q = q /\ f.ctime = w.tbl[i].ctime
    BY <1>1 DEF Entry
  <1>3. WithQueue(w, i, q, pool) = v
    BY DEF WithQueue
  <1> HIDE DEF f
  <1>4. tbl \in [Slots -> Entry] /\ tbl[i] = f /\ \A j \in Slots \ {i} : tbl[j] = w.tbl[j]
    BY <1>1, <1>2
  <1> HIDE DEF tbl
  <1>5. v \in Table /\ v.tbl = tbl /\ v.pool = pool /\ v.size = w.size /\ v.queueing = w.queueing
        /\ v.sent = w.sent
    BY <1>4 DEF Table
  <1> QED BY <1>2, <1>3, <1>4, <1>5

\* A known entry is used, and asked for again.
LEMMA IndexIs ==
  ASSUME NEW w0, NEW w, NEW hd, NEW p \in Nat, NEW sTo \in [Hosts -> 0 .. p], Whole(w, hd, sTo, p),
         NEW i \in Slots, Known(w.tbl[i]), ~GivesUp(w0, w)
  PROVE  Done(w0, OutputToIndex(w, p + 1, i), hd, sTo, p + 1)
  <1> DEFINE e == w.tbl[i]
             renew == e.st = "stable" /\ e.ctime >= ArpRerequestAge /\ "ask" \in w.mem
             v == [w EXCEPT !.tbl[i].st = "rerequesting"]
  <1>1. w \in Table /\ PoolSound(w)
    BY DEF Whole
  <1>2. e.st \notin {"empty", "pending"}
    BY DEF Known
  <1>3. OutputToIndex(w, p + 1, i) = EtharpSendIp(IF renew THEN v ELSE w, <<p + 1>>, e.ip, e.mac)
    BY DEF OutputToIndex
  <1>4. CASE ~renew
    <2>1. Done(w0, EtharpSendIp(w, <<p + 1>>, w.tbl[i].ip, w.tbl[i].mac), hd, sTo, p + 1)
      BY <1>1, <1>2, SendNow
    <2> QED BY <1>3, <1>4, <2>1
  <1>5. CASE renew
    <2>1. "rerequesting" \in EntryStates
      BY DEF EntryStates
    <2>2. /\ v \in Table /\ v.pool = w.pool /\ v.size = w.size /\ v.queueing = w.queueing
          /\ v.tbl[i].st = "rerequesting" /\ v.tbl[i].ip = e.ip /\ v.tbl[i].q = e.q
          /\ v.tbl[i].mac = e.mac
          /\ \A j \in Slots \ {i} : v.tbl[j] = w.tbl[j]
      BY <1>1, <2>1, StateIs
    <2> HIDE DEF v
    <2>3. \A j \in Slots : v.tbl[j].q = w.tbl[j].q /\ v.tbl[j].ip = w.tbl[j].ip
      BY <2>2
    <2>4. PoolSound(v) /\ ~GivesUp(w0, v)
      <3>1. PoolSound(v)
        BY <1>1, <2>2, <2>3, PoolStays
      <3> QED BY <2>3, <3>1 DEF GivesUp
    <2>5. v.tbl[i].st \notin {"empty", "pending"}
      BY <2>2
    <2>6. Done(w0, EtharpSendIp(v, <<p + 1>>, w.tbl[i].ip, w.tbl[i].mac), hd, sTo, p + 1)
      BY <1>2, <2>2, <2>4, <2>5, SendNow
    <2> QED BY <1>3, <1>5, <2>6
  <1> QED BY <1>4, <1>5

\* A packet for a host whose address may be unknown, or only the question.
LEMMA QueryIs ==
  ASSUME NEW w, NEW hd, NEW p \in Nat, NEW sTo \in [Hosts -> 0 .. p], Whole(w, hd, sTo, p), w.sent = <<>>,
         NEW ip \in Hosts, NEW n, NEW p2 \in Nat, (n = 0 /\ p2 = p) \/ (n = p + 1 /\ p2 = p + 1)
  PROVE  Done(w, EtharpQuery(w, ip, n), hd, sTo, p2)
  <1> USE ArpAssumption
  <1> DEFINE f == ArpFindEntry(w, ip, TRUE, FALSE)
             i == f.i
             u == f.w
             entered == IF u.tbl[i].st = "empty" THEN [u EXCEPT !.tbl[i].st = "pending"] ELSE u
             e == entered.tbl[i]
             x == EtharpQuery(w, ip, n)
  <1>1. x = IF i = 0 THEN w
            ELSE IF n = 0 THEN entered
            ELSE IF e.st # "pending" THEN EtharpSendIp([entered EXCEPT !.hint = i], <<n>>, ip, e.mac)
            ELSE IF "copy" \notin w.mem \/ (w.queueing /\ entered.pool = 0) THEN entered
            ELSE IF w.queueing THEN [entered EXCEPT !.tbl[i].q = Append(@, n), !.pool = @ - 1]
            ELSE [entered EXCEPT !.tbl[i].q = <<n>>]
    BY DEF EtharpQuery
  <1>2. Whole(u, hd, sTo, p) /\ Entered(w, f, ip, FALSE)
    BY FindIs
  <1>3. p <= p2 /\ sTo \in [Hosts -> 0 .. p2]
    <2>1. \A h \in Hosts : sTo[h] \in 0 .. p2
      OBVIOUS
    <2> QED BY <2>1
  <1> HIDE DEF x, f
  <1>4. CASE i = 0
    <2>1. Whole(w, hd, sTo, p2) /\ ~GivesUp(w, w)
      <3>1. w \in Table
        BY DEF Whole
      <3>2. Whole(w, hd, sTo, p2)
        BY <1>3, <3>1, TableStays
      <3> QED BY <3>2 DEF GivesUp
    <2> QED BY <1>1, <1>3, <1>4, <2>1, QuietIs DEF x
  <1>5. CASE i # 0
    <2>1. i \in Slots /\ u.tbl[i].ip = ip /\ ~GivesUp(w, u) /\ u.sent = w.sent
          /\ (\A j \in Slots \ {i} : u.tbl[j].st # "empty" => u.tbl[j].ip # ip)
          /\ (u.tbl[i].st = "empty" => u.tbl[i].ctime = 0)
      BY <1>2, <1>5 DEF Entered
    <2>2. u \in Table /\ PoolSound(u) /\ EntrySound(u, i, hd) /\ QueueSound(u.tbl[i], sTo, p)
      BY <1>2, <2>1 DEF Whole
    <2> HIDE DEF u, i
    <2>3. /\ entered \in Table /\ entered.pool = u.pool /\ entered.size = u.size /\ entered.queueing = u.queueing
          /\ entered.sent = <<>> /\ entered.tbl[i].ip = ip /\ entered.tbl[i].q = u.tbl[i].q
          /\ entered.tbl[i].mac = u.tbl[i].mac /\ entered.tbl[i].ctime = u.tbl[i].ctime
          /\ entered.tbl[i].st = (IF u.tbl[i].st = "empty" THEN "pending" ELSE u.tbl[i].st)
          /\ \A j \in Slots \ {i} : entered.tbl[j] = u.tbl[j]
      <3>1. CASE u.tbl[i].st # "empty"
        BY <2>1, <2>2, <3>1
      <3>2. CASE u.tbl[i].st = "empty"
        <4>1. "pending" \in EntryStates
          BY DEF EntryStates
        <4> DEFINE v == [u EXCEPT !.tbl[i].st = "pending"]
        <4>2. /\ v \in Table /\ v.pool = u.pool /\ v.size = u.size /\ v.queueing = u.queueing
              /\ v.sent = u.sent
              /\ v.tbl[i].st = "pending" /\ v.tbl[i].ip = u.tbl[i].ip /\ v.tbl[i].q = u.tbl[i].q
              /\ v.tbl[i].mac = u.tbl[i].mac /\ v.tbl[i].ctime = u.tbl[i].ctime
              /\ \A j \in Slots \ {i} : v.tbl[j] = u.tbl[j]
          BY <2>1, <2>2, <4>1, StateIs
        <4>3. entered = v
          BY <3>2
        <4> HIDE DEF entered, v
        <4> QED BY <2>1, <3>2, <4>2, <4>3
      <3> QED BY <3>1, <3>2
    <2>4. x = IF n = 0 THEN entered
              ELSE IF e.st # "pending" THEN EtharpSendIp([entered EXCEPT !.hint = i], <<n>>, ip, e.mac)
              ELSE IF "copy" \notin w.mem \/ (w.queueing /\ entered.pool = 0) THEN entered
              ELSE IF w.queueing THEN [entered EXCEPT !.tbl[i].q = Append(@, n), !.pool = @ - 1]
              ELSE [entered EXCEPT !.tbl[i].q = <<n>>]
      BY <1>1, <1>5 DEF i
    <2> HIDE DEF entered
    <2>5. PoolSound(entered) /\ ~GivesUp(w, entered)
      <3>1. \A j \in Slots : entered.tbl[j].q = u.tbl[j].q /\ entered.tbl[j].ip = u.tbl[j].ip
        BY <2>1, <2>3
      <3>2. PoolSound(entered)
        BY <2>2, <2>3, <3>1, PoolStays
      <3> QED BY <2>1, <3>1, <3>2 DEF GivesUp
    <2>6. e \in Entry /\ e.q \in Seq(Nat) /\ (e.st = "pending" => e.ctime < ArpMaxPending)
      <3>1. e \in Entry
        BY <2>1, <2>3 DEF Table
      <3>2. e.st = "pending" => e.ctime < ArpMaxPending
        BY <2>1, <2>2, <2>3 DEF EntrySound
      <3> QED BY <3>1, <3>2 DEF Entry
    <2>7. QueueSound(e, sTo, p) /\ e.st # "empty"
      <3>1. QueueSound(e, sTo, p)
        BY <2>1, <2>2, <2>3 DEF QueueSound
      <3> QED BY <2>3, <3>1
    <2>8. e.st # "pending" => e.q = <<>> /\ e.mac = hd[ip]
      BY <2>1, <2>2, <2>3 DEF EntrySound
    <2>9. Whole(entered, hd, sTo, p) /\ Whole(entered, hd, sTo, p2)
      <3>1. Placed(u, entered, i, ip, hd, hd, sTo, sTo, p)
        BY <2>1, <2>3, <2>6, <2>7, <2>8 DEF Placed
      <3>2. Whole(u, hd, sTo, p) /\ p <= p
        BY <1>2 DEF u
      <3>3. Whole(entered, hd, sTo, p)
        BY <2>1, <2>3, <2>5, <3>1, <3>2, EntryPlaced
      <3>4. Whole(entered, hd, sTo, p2)
        BY <1>3, <2>3, <3>3, TableStays
      <3> QED BY <3>3, <3>4
    <2>10. Done(w, entered, hd, sTo, p2)
      BY <1>3, <2>3, <2>5, <2>9, QuietIs
    <2>11. CASE n # 0 /\ e.st # "pending"
      <3> DEFINE v == [entered EXCEPT !.hint = i]
      <3>1. /\ v \in Table /\ v.tbl = entered.tbl /\ v.pool = entered.pool /\ v.size = entered.size
            /\ v.queueing = entered.queueing
        BY <2>1, <2>3 DEF Table
      <3> HIDE DEF v
      <3>2. PoolSound(v) /\ ~GivesUp(w, v)
        <4>1. PoolSound(v)
          BY <2>5, <3>1, PoolStays
        <4> QED BY <2>5, <3>1, <4>1 DEF GivesUp
      <3>3. entered.tbl[i].st \notin {"empty", "pending"}
        BY <2>7, <2>11
      <3>4. Done(w, EtharpSendIp(v, <<p + 1>>, entered.tbl[i].ip, entered.tbl[i].mac), hd, sTo, p + 1)
        BY <2>1, <2>9, <3>1, <3>2, <3>3, SendNow
      <3>5. n = p + 1 /\ p2 = p + 1
        BY <2>11
      <3>6. x = EtharpSendIp(v, <<n>>, ip, e.mac)
        BY <2>4, <2>11 DEF v
      <3> QED BY <2>3, <3>4, <3>5, <3>6 DEF x
    <2>12. CASE n # 0 /\ e.st = "pending" /\ "copy" \in w.mem /\ ~(w.queueing /\ entered.pool = 0)
      <3> DEFINE q == IF w.queueing THEN Append(e.q, n) ELSE <<n>>
                 pool == IF w.queueing THEN entered.pool - 1 ELSE entered.pool
                 v == WithQueue(entered, i, q, pool)
      <3>1. n = p + 1 /\ p2 = p + 1 /\ n \in Nat
        BY <2>12
      <3>2. w.queueing = u.queueing
        BY <1>2 DEF Entered, u
      <3>3. q \in Seq(Nat) /\ pool \in Nat /\ (q = Append(e.q, p + 1) \/ q = <<p + 1>>)
        <4>1. entered.pool \in Nat
          BY <2>3 DEF Table
        <4>2. w.queueing => entered.pool - 1 \in Nat
          BY <2>12, <4>1
        <4>3. Append(e.q, n) \in Seq(Nat) /\ <<n>> \in Seq(Nat)
          <5> HIDE DEF e
          <5> QED BY <2>6, <3>1
        <4>4. q \in Seq(Nat) /\ (q = Append(e.q, p + 1) \/ q = <<p + 1>>)
          <5> HIDE DEF e
          <5> QED BY <3>1, <4>3
        <4>5. pool \in Nat
          BY <4>1, <4>2
        <4> QED BY <4>4, <4>5
      <3>4. x = v
        <4>1. CASE w.queueing
          <5>1. x = [entered EXCEPT !.tbl[i].q = Append(@, n), !.pool = @ - 1]
            BY <2>4, <2>12, <4>1
          <5> QED BY <4>1, <5>1 DEF WithQueue
        <4>2. CASE ~w.queueing
          <5>1. x = [entered EXCEPT !.tbl[i].q = <<n>>]
            BY <2>4, <2>12, <4>2
          <5>2. [entered EXCEPT !.tbl[i].q = <<n>>] = [entered EXCEPT !.tbl[i].q = <<n>>, !.pool = entered.pool]
            BY <2>3 DEF Table
          <5> QED BY <4>2, <5>1, <5>2 DEF WithQueue
        <4> QED BY <4>1, <4>2
      <3>5. (w.queueing => q = Append(e.q, n) /\ pool = entered.pool - 1)
        OBVIOUS
      <3> HIDE DEF q, pool
      <3>6. /\ v \in Table /\ v.pool = pool /\ v.size = entered.size /\ v.queueing = entered.queueing
            /\ v.sent = entered.sent
            /\ v.tbl[i].st = entered.tbl[i].st /\ v.tbl[i].ip = entered.tbl[i].ip /\ v.tbl[i].q = q
            /\ v.tbl[i].ctime = entered.tbl[i].ctime
            /\ \A j \in Slots \ {i} : v.tbl[j] = entered.tbl[j]
        <4>1. q \in Seq(Nat) /\ pool \in Nat /\ i \in Slots /\ entered \in Table
          BY <2>1, <2>3, <3>3
        <4> QED BY <4>1, QueueIs
      <3> HIDE DEF v
      <3>7. PoolSound(v)
        <4>1. CASE w.queueing
          <5>1. \A j \in Slots : v.tbl[j].q = IF j = i THEN Append(entered.tbl[i].q, n) ELSE entered.tbl[j].q
            BY <3>5, <3>6, <4>1
          <5>2. v.pool = entered.pool - 1
            BY <3>5, <3>6, <4>1
          <5> QED BY <2>1, <2>3, <2>5, <3>1, <3>6, <5>1, <5>2, PoolGives
        <4>2. CASE ~w.queueing
          BY <2>3, <3>2, <3>6, <4>2 DEF PoolSound
        <4> QED BY <4>1, <4>2
      <3>8. QueueSound(v.tbl[i], sTo, p + 1)
        BY <2>3, <2>6, <2>7, <3>3, <3>6, QueueGrows
      <3>9. Placed(entered, v, i, ip, hd, hd, sTo, sTo, p + 1)
        <4>1. \A j \in Slots \ {i} : v.tbl[j] = entered.tbl[j] /\ (entered.tbl[j].st # "empty" => entered.tbl[j].ip # ip)
          BY <2>1, <2>3, <3>6
        <4> QED BY <2>3, <2>6, <2>12, <3>6, <3>8, <4>1 DEF Placed
      <3>10. Whole(v, hd, sTo, p2)
        BY <1>3, <2>1, <2>9, <3>1, <3>6, <3>7, <3>9, EntryPlaced
      <3>11. ~GivesUp(w, v)
        <4>1. \A j \in Slots : v.tbl[j].ip = entered.tbl[j].ip
          BY <3>6
        <4> QED BY <2>5, <4>1 DEF GivesUp
      <3>12. Done(w, v, hd, sTo, p2)
        BY <1>3, <2>3, <3>6, <3>10, <3>11, QuietIs
      <3> QED BY <3>4, <3>12 DEF x
    <2> QED BY <2>4, <2>10, <2>11, <2>12 DEF x
  <1> QED BY <1>4, <1>5

LEMMA HostsAre ==
  /\ Hosts = {"gw", "pc", "isp"}
  /\ \A h \in Hosts : HostNet[h] \in Nets
  /\ \A x \in Targets : x[1] \in Nets /\ (x[2] \in Hosts \/ x[2] \in {"far", "broadcast"})
  BY DEF Hosts, HostNet, Nets, Targets

\* A packet to a neighbour, through the gateway or to everybody.
LEMMA OutputIs ==
  ASSUME NEW w, NEW hd, NEW p \in Nat, NEW sTo \in [Hosts -> 0 .. p], Whole(w, hd, sTo, p), w.sent = <<>>,
         NEW x \in Targets
  PROVE  Done(w, EtharpOutput(w, x[1], x[2], p + 1), hd, sTo, p + 1)
  <1> DEFINE ifc == x[1]
             t == x[2]
             ip == NextHop(ifc, t)
             Hit == {i \in Slots : Known(w.tbl[i]) /\ w.tbl[i].ip = ip}
             v == EtharpOutput(w, ifc, t, p + 1)
  <1>1. v = IF t = "broadcast" THEN EtharpSendIp(w, <<p + 1>>, t, 0)
            ELSE IF ip = "any" THEN w
            ELSE IF w.hint \in Hit THEN OutputToIndex(w, p + 1, w.hint)
            ELSE IF Hit # {} THEN OutputToIndex([w EXCEPT !.hint = Min(Hit)], p + 1, Min(Hit))
            ELSE EtharpQuery(w, ip, p + 1)
    BY DEF EtharpOutput
  <1>2. ifc \in Nets /\ (t \in Hosts \/ t \in {"far", "broadcast"})
    BY HostsAre
  <1>3. t # "broadcast" => ip \in Hosts \cup {"any"}
    BY <1>2, HostsAre DEF NextHop, Gateway, Nets
  <1>4. w \in Table /\ ~GivesUp(w, w) /\ PoolSound(w)
    BY DEF Whole, GivesUp
  <1>5. p + 1 \in Nat /\ p <= p + 1 /\ sTo \in [Hosts -> 0 .. (p + 1)]
    <2>1. \A h \in Hosts : sTo[h] \in 0 .. (p + 1)
      OBVIOUS
    <2> QED BY <2>1
  <1>6. Whole(w, hd, sTo, p + 1)
    BY <1>4, <1>5, TableStays
  <1>7. "any" \notin Hosts /\ "broadcast" \notin Hosts
    BY HostsAre
  <1> HIDE DEF v, ip, ifc
  <1>8. CASE t = "broadcast"
    <2> DEFINE sent == [k \in DOMAIN <<p + 1>> |-> [n |-> <<p + 1>>[k], to |-> t, mac |-> 0]]
               u == [w EXCEPT !.sent = sent]
    <2>1. v = u
      BY <1>1, <1>8 DEF EtharpSendIp
    <2>2. sent \in Seq(Packet) /\ \A k \in DOMAIN sent : sent[k].to = "broadcast"
      <3> DEFINE one == [n |-> p + 1, to |-> "broadcast", mac |-> 0]
      <3>1. sent = <<one>>
        BY <1>8
      <3>2. one \in Packet /\ one.to = "broadcast"
        BY DEF Packet
      <3> HIDE DEF one, sent
      <3> QED BY <3>1, <3>2
    <2> HIDE DEF sent
    <2>3. /\ u \in Table /\ u.tbl = w.tbl /\ u.pool = w.pool /\ u.size = w.size /\ u.queueing = w.queueing
          /\ u.sent = sent
      BY <1>4, <2>2 DEF Table
    <2> HIDE DEF u
    <2>4. Whole(u, hd, sTo, p + 1)
      BY <1>5, <1>6, <2>3, TableStays
    <2>5. ToHosts(u) = {} /\ \A h \in Hosts : SentTo(u, h) = {}
      BY <1>7, <2>2, <2>3 DEF ToHosts, SentTo
    <2>6. After(sTo, u) = sTo
      BY <2>5 DEF After
    <2>7. Straight(u, sTo, hd) /\ ~GivesUp(w, u)
      BY <2>3, <2>5 DEF Straight, GivesUp
    <2> QED BY <1>5, <2>1, <2>4, <2>6, <2>7 DEF Done, v, ifc
  <1>9. CASE t # "broadcast" /\ ip = "any"
    <2>1. v = w
      BY <1>1, <1>9
    <2> QED BY <1>4, <1>5, <1>6, <2>1, QuietIs DEF v, ifc
  <1>10. CASE t # "broadcast" /\ ip # "any" /\ w.hint \in Hit
    <2>1. v = OutputToIndex(w, p + 1, w.hint) /\ w.hint \in Slots /\ Known(w.tbl[w.hint])
      BY <1>1, <1>10
    <2> QED BY <1>4, <2>1, IndexIs DEF v, ifc
  <1>11. CASE t # "broadcast" /\ ip # "any" /\ w.hint \notin Hit /\ Hit # {}
    <2> DEFINE i == Min(Hit)
               u == [w EXCEPT !.hint = i]
    <2>1. v = OutputToIndex(u, p + 1, i)
      BY <1>1, <1>11
    <2>2. i \in Hit
      <3>1. Hit \in SUBSET Nat
        BY DEF Slots
      <3> HIDE DEF Hit
      <3> QED BY <1>11, <3>1, MinIs
    <2>3. i \in Slots /\ Known(w.tbl[i])
      BY <2>2
    <2> HIDE DEF i, Hit
    <2>4. /\ u \in Table /\ u.tbl = w.tbl /\ u.pool = w.pool /\ u.size = w.size /\ u.queueing = w.queueing
      BY <1>4, <2>3 DEF Table
    <2> HIDE DEF u
    <2>5. Whole(u, hd, sTo, p)
      BY <2>4, TableStays
    <2>6. ~GivesUp(w, u)
      BY <1>4, <2>4 DEF GivesUp
    <2> QED BY <2>1, <2>3, <2>4, <2>5, <2>6, IndexIs DEF v, ifc
  <1>12. CASE t # "broadcast" /\ ip # "any" /\ w.hint \notin Hit /\ Hit = {}
    <2>1. v = EtharpQuery(w, ip, p + 1)
      BY <1>1, <1>12
    <2>2. ip \in Hosts
      BY <1>3, <1>12
    <2> QED BY <1>5, <2>1, <2>2, QueryIs DEF v, ifc
  <1> QED BY <1>8, <1>9, <1>10, <1>11, <1>12

-----------------------------------------------------------------------------
(* Steps.                                                                  *)

\* A handler left v.
Left(v) ==
  /\ arp' = [v EXCEPT !.sent = <<>>, !.mem = Memory]
  /\ mishaps' = mishaps \cup Mishaps(v)
  /\ sentTo' = After(sentTo, v)

LEMMA LeftIs ==
  ASSUME ArpInv, NEW mem \in SUBSET Memory, NEW v, Left(v),
         packets' \in Nat, heard' \in [Hosts -> Nat],
         Done([arp EXCEPT !.mem = mem], v, heard', sentTo, packets')
  PROVE  ArpInv'
  <1> DEFINE w == [arp EXCEPT !.mem = mem]
  <1>1. Whole(v, heard', sentTo', packets') /\ sentTo' \in [Hosts -> 0 .. packets']
        /\ Straight(v, sentTo, heard') /\ ~GivesUp(w, v)
    BY DEF Done, Left
  <1>2. v \in Table /\ arp \in Table
    BY <1>1 DEF Whole, ArpInv
  <1>3. arp' \in Table /\ arp'.sent = <<>> /\ arp'.tbl = v.tbl /\ arp'.pool = v.pool
        /\ arp'.size = v.size /\ arp'.queueing = v.queueing
    <2>1. <<>> \in Seq(Packet) /\ Memory \in SUBSET Memory
      OBVIOUS
    <2>2. arp' = [v EXCEPT !.sent = <<>>, !.mem = Memory]
      BY DEF Left
    <2> QED BY <1>2, <2>1, <2>2 DEF Table
  <1>4. Whole(arp', heard', sentTo', packets')
    BY <1>1, <1>3, TableStays
  <1>5. w.tbl = arp.tbl
    BY <1>2 DEF Table
  <1>6. Mishaps(v) = {}
    <2>1. ~GivesUpQueue(v)
      BY <1>1, <1>5 DEF GivesUp, GivesUpQueue
    <2>2. ASSUME NEW k \in ToHosts(v)
          PROVE  /\ ~(v.sent[k].n <= sentTo[v.sent[k].to])
                 /\ \A j \in ToHosts(v) : ~(j < k /\ v.sent[k].n <= v.sent[j].n)
                 /\ v.sent[k].mac = heard'[v.sent[k].to]
      <3>1. \A j \in ToHosts(v) : v.sent[j].n \in Nat /\ v.sent[j].to \in Hosts
        <4> SUFFICES ASSUME NEW j \in ToHosts(v) PROVE v.sent[j].n \in Nat /\ v.sent[j].to \in Hosts
          OBVIOUS
        <4>1. v.sent \in Seq(Packet)
          BY <1>2 DEF Table
        <4>2. j \in DOMAIN v.sent /\ v.sent[j].to \in Hosts
          BY DEF ToHosts
        <4>3. v.sent[j] \in Packet
          BY <4>1, <4>2
        <4> QED BY <4>2, <4>3 DEF Packet
      <3>2. sentTo[v.sent[k].to] \in Nat
        BY <3>1 DEF ArpInv
      <3>3. /\ v.sent[k].n > sentTo[v.sent[k].to] /\ v.sent[k].mac = heard'[v.sent[k].to]
            /\ \A j \in ToHosts(v) : j < k => v.sent[j].n < v.sent[k].n
        BY <1>1 DEF Straight
      <3> QED BY <3>1, <3>2, <3>3
    <2> QED BY <2>1, <2>2 DEF Mishaps
  <1>7. mishaps' = {}
    BY <1>6 DEF Left, ArpInv
  <1> QED BY <1>1, <1>3, <1>4, <1>7 DEF ArpInv

\* What a handler finds.
LEMMA HandlerFinds ==
  ASSUME ArpInv, NEW mem \in SUBSET Memory
  PROVE  /\ Whole([arp EXCEPT !.mem = mem], heard, sentTo, packets)
         /\ [arp EXCEPT !.mem = mem].sent = <<>>
         /\ packets \in Nat /\ heard \in [Hosts -> Nat] /\ sentTo \in [Hosts -> 0 .. packets]
  <1> DEFINE w == [arp EXCEPT !.mem = mem]
  <1>1. arp \in Table /\ packets \in Nat
    BY DEF ArpInv, Whole
  <1>2. /\ w \in Table /\ w.tbl = arp.tbl /\ w.pool = arp.pool /\ w.size = arp.size /\ w.queueing = arp.queueing
        /\ w.sent = arp.sent
    BY <1>1 DEF Table
  <1> HIDE DEF w
  <1>3. Whole(w, heard, sentTo, packets)
    BY <1>1, <1>2, TableStays DEF ArpInv
  <1> QED BY <1>2, <1>3 DEF ArpInv, w

\* The initial states.
LEMMA ArpStarts == ArpInit => ArpInv
  <1> USE ArpAssumption
  <1> SUFFICES ASSUME ArpInit PROVE ArpInv
    OBVIOUS
  <1>1. PICK size \in ArpPools : arp = NewArp(size)
    BY DEF ArpInit
  <1> DEFINE tbl == [i \in Slots |-> NoEntry]
  <1>2. arp = [tbl |-> tbl, hint |-> 1, pool |-> size, size |-> size, queueing |-> size > 0, mem |-> Memory,
               sent |-> <<>>]
    BY <1>1 DEF NewArp
  <1>3. NoEntry \in Entry
    BY EmptySeqIs DEF NoEntry, Entry, EntryStates
  <1>4. size \in Nat /\ (size > 0) \in BOOLEAN /\ 1 \in Slots
    BY DEF Slots
  <1>5. arp \in Table
    <2>1. tbl \in [Slots -> Entry]
      BY <1>3
    <2>2. <<>> \in Seq(Packet)
      OBVIOUS
    <2> HIDE DEF tbl
    <2> QED BY <1>2, <1>4, <2>1, <2>2 DEF Table
  <1>6. \A i \in Slots : arp.tbl[i] = NoEntry
    BY <1>2
  <1>7. Waiting(arp, Slots) = {}
    BY <1>6, WaitingIs DEF NoEntry
  <1>8. PoolSound(arp)
    <2>1. arp.pool = size /\ arp.size = size /\ Cardinality(Waiting(arp, Slots)) = 0
      BY <1>2, <1>7, FS_EmptySet
    <2> QED BY <1>4, <2>1 DEF PoolSound
  <1>9. \A i \in Slots : EntrySound(arp, i, heard) /\ QueueSound(arp.tbl[i], sentTo, packets)
    BY <1>6 DEF EntrySound, QueueSound, NoEntry
  <1>10. packets = 0 /\ heard \in [Hosts -> Nat] /\ sentTo \in [Hosts -> 0 .. packets] /\ mishaps = {}
    BY DEF ArpInit
  <1> QED BY <1>2, <1>5, <1>8, <1>9, <1>10 DEF ArpInv, Whole

\* Each step.
LEMMA ArpSteps == ArpInv /\ [ArpNext]_arpVars => ArpInv'
  <1> SUFFICES ASSUME ArpInv, [ArpNext]_arpVars PROVE ArpInv'
    OBVIOUS
  <1> DEFINE w == [arp EXCEPT !.mem = Memory]
  <1>1. Memory \in SUBSET Memory
    OBVIOUS
  <1>2. /\ Whole(w, heard, sentTo, packets) /\ w.sent = <<>>
        /\ packets \in Nat /\ heard \in [Hosts -> Nat] /\ sentTo \in [Hosts -> 0 .. packets]
    BY <1>1, HandlerFinds
  <1>3. CASE UNCHANGED arpVars
    BY <1>3 DEF ArpInv, arpVars, Whole, PoolSound, EntrySound, QueueSound, Waiting
  <1>4. CASE ArpTicks
    <2>1. Left(EtharpTmr(w)) /\ UNCHANGED <<heard, packets>>
      BY <1>4 DEF ArpTicks, Handled, Left, After
    <2>2. Done(w, EtharpTmr(w), heard', sentTo, packets')
      BY <1>2, <2>1, TicksIs
    <2> QED BY <1>1, <1>2, <2>1, <2>2, LeftIs
  <1>5. ASSUME NEW x \in Targets, Outputs(x[1], x[2]) PROVE ArpInv'
    <2>1. packets' = packets + 1 /\ UNCHANGED heard
      BY <1>5 DEF Outputs, Called
    <2>2. PICK mem \in SUBSET Memory : Left(EtharpOutput([arp EXCEPT !.mem = mem], x[1], x[2], packets + 1))
      BY <1>1, <1>5 DEF Outputs, Called, Handled, Left, After
    <2>3. Done([arp EXCEPT !.mem = mem], EtharpOutput([arp EXCEPT !.mem = mem], x[1], x[2], packets + 1),
               heard', sentTo, packets')
      BY <2>1, HandlerFinds, OutputIs
    <2>4. packets' \in Nat /\ heard' \in [Hosts -> Nat]
      BY <1>2, <2>1
    <2> QED BY <2>2, <2>3, <2>4, LeftIs
  <1>6. CASE Queries("pc")
    <2>1. UNCHANGED <<heard, packets>>
      BY <1>6 DEF Queries, Called
    <2>2. PICK mem \in SUBSET Memory : Left(EtharpQuery([arp EXCEPT !.mem = mem], "pc", 0))
      BY <1>1, <1>6 DEF Queries, Called, Handled, Left, After
    <2>3. Done([arp EXCEPT !.mem = mem], EtharpQuery([arp EXCEPT !.mem = mem], "pc", 0), heard', sentTo, packets')
      BY <2>1, HandlerFinds, QueryIs, HostsAre
    <2> QED BY <1>2, <2>1, <2>2, <2>3, LeftIs
  <1>7. CASE AddsStatic("isp")
    <2>1. Left(AddStaticEntry(w, HostNet["isp"], "isp", heard["isp"])) /\ UNCHANGED <<heard, packets>>
      BY <1>7 DEF AddsStatic, Handled, Left, After
    <2>2. Done(w, AddStaticEntry(w, HostNet["isp"], "isp", heard["isp"]), heard', sentTo, packets')
      BY <1>2, <2>1, UpdateIs, HostsAre DEF AddStaticEntry
    <2> QED BY <1>1, <1>2, <2>1, <2>2, LeftIs
  <1>8. CASE RemovesStatic("isp")
    <2>1. Left(RemoveStaticEntry(w, "isp")) /\ UNCHANGED <<heard, packets>>
      BY <1>8 DEF RemovesStatic, Handled, Left, After
    <2>2. Done(w, RemoveStaticEntry(w, "isp"), heard', sentTo, packets')
      BY <1>2, <2>1, RemoveIs, HostsAre
    <2> QED BY <1>1, <1>2, <2>1, <2>2, LeftIs
  <1>9. ASSUME NEW h \in Hosts, Answers(h) PROVE ArpInv'
    <2>1. Left(EtharpArpInput(w, HostNet[h], h, heard[h], TRUE)) /\ UNCHANGED <<heard, packets>>
      BY <1>9 DEF Answers, Handled, Left, After
    <2>2. Done(w, EtharpArpInput(w, HostNet[h], h, heard[h], TRUE), heard', sentTo, packets')
      BY <1>2, <2>1, UpdateIs, HostsAre DEF EtharpArpInput
    <2> QED BY <1>1, <1>2, <2>1, <2>2, LeftIs
  <1>10. ASSUME NEW mac \in {1, 2}, NEW forUs \in BOOLEAN, Speaks("pc", mac, forUs) PROVE ArpInv'
    <2>1. Left(EtharpArpInput(w, HostNet["pc"], "pc", mac, forUs)) /\ UNCHANGED packets
          /\ heard' = [heard EXCEPT !["pc"] = mac]
      BY <1>10 DEF Speaks, Handled, Left, After
    <2>2. mac \in Nat /\ "pc" \in Hosts /\ HostNet["pc"] \in Nets
      BY HostsAre
    <2>3. heard' \in [Hosts -> Nat] /\ heard'["pc"] = mac /\ \A h \in Hosts \ {"pc"} : heard'[h] = heard[h]
      BY <1>2, <2>1, <2>2
    <2>4. Done(w, EtharpArpInput(w, HostNet["pc"], "pc", mac, forUs), heard', sentTo, packets')
      BY <1>2, <2>1, <2>2, <2>3, UpdateIs DEF EtharpArpInput
    <2> QED BY <1>1, <1>2, <2>1, <2>3, <2>4, LeftIs
  <1>11. ASSUME NEW ifc \in Nets, TakesDown(ifc) PROVE ArpInv'
    <2>1. Left(CleanupNetif(w, ifc)) /\ UNCHANGED <<heard, packets>>
      BY <1>11 DEF TakesDown, Handled, Left, After
    <2>2. Done(w, CleanupNetif(w, ifc), heard', sentTo, packets')
      BY <1>2, <2>1, CleanupIs
    <2> QED BY <1>1, <1>2, <2>1, <2>2, LeftIs
  <1> QED BY <1>3, <1>4, <1>5, <1>6, <1>7, <1>8, <1>9, <1>10, <1>11 DEF ArpNext

\* The invariant says what is wanted.
LEMMA ArpInvIsSound == ArpInv => ArpSound
  <1> SUFFICES ASSUME ArpInv PROVE ArpSound
    OBVIOUS
  <1>1. /\ arp \in Table /\ PoolSound(arp)
        /\ \A i \in Slots : EntrySound(arp, i, heard) /\ QueueSound(arp.tbl[i], sentTo, packets)
    BY DEF ArpInv, Whole
  <1>2. ArpTableSound
    BY <1>1 DEF ArpTableSound, EntrySound
  <1>3. ArpQueuesInOrder
    <2> SUFFICES ASSUME NEW i \in Slots, NEW k \in DOMAIN arp.tbl[i].q
                 PROVE  arp.tbl[i].q[k] > (IF k = 1 THEN sentTo[arp.tbl[i].ip] ELSE arp.tbl[i].q[k - 1])
      BY DEF ArpQueuesInOrder
    <2> DEFINE q == arp.tbl[i].q
    <2>1. q \in Seq(Nat)
      BY <1>1 DEF Table, Entry
    <2>2. q[k] > sentTo[arp.tbl[i].ip] /\ \A j \in DOMAIN q : j < k => q[j] < q[k]
      BY <1>1 DEF QueueSound
    <2>3. k # 1 => k - 1 \in DOMAIN q /\ k - 1 < k
      BY <2>1
    <2>4. \A j \in DOMAIN q : q[j] \in Nat
      BY <2>1
    <2> HIDE DEF q
    <2>5. k # 1 => q[k] > q[k - 1]
      BY <2>2, <2>3, <2>4
    <2> QED BY <2>2, <2>5 DEF q
  <1>4. ArpPoolKept
    BY <1>1 DEF ArpPoolKept, PoolSound
  <1> QED BY <1>2, <1>3, <1>4 DEF ArpSound, ArpInv

\* A neighbour gets its packets in the order in which they were handed down,
\* none twice, at the address it gave last, and packets that wait make room for
\* a new neighbour only when every entry has some, whatever etharp.c is called
\* for and whenever memory fails: see ArpSound.
THEOREM ArpIsSound == ArpSpec => []ArpSound
  <1>1. ArpSpec => []ArpInv
    BY ArpStarts, ArpSteps, PTL DEF ArpSpec
  <1> QED BY <1>1, ArpInvIsSound, PTL
=============================================================================
