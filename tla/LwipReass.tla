----------------------------- MODULE LwipReass -----------------------------
(***************************************************************************)
(* lwIP's fragments (ip_frag.c): senders, a router that cuts again what it *)
(* forwards, a network that reorders, loses and repeats, and the host that *)
(* puts datagrams together.                                                *)
(*                                                                         *)
(* Offsets and sizes count the smallest pieces a router cuts, each of      *)
(* which has a pbuf of its own; a datagram's number is its identification. *)
(* A handler maps the state w of the host to the state it leaves.          *)
(* w.failed is the assertion that aborts the program.                      *)
(***************************************************************************)
EXTENDS Integers, FiniteSetsExt, SequencesExt

CONSTANTS
  ReassMaxAge,   \* in calls of ip_reass_tmr
  ReassMaxPbufs, \* IP_REASS_MAX_PBUFS
  NumReassData,  \* MEMP_NUM_REASSDATA
  NumDatagrams,
  FirstSize, OtherSize, \* of the first datagram and of the others
  Mtus,          \* of the first links
  MaxRepeats     \* fragments the network delivers once more

VARIABLES
  host,    \* w
  onWire,  \* fragments that may arrive
  unsent,  \* datagrams
  repeats

reassVars == <<host, onWire, unsent, repeats>>

Datagrams == 1 .. NumDatagrams
DatagramSizes == [d \in Datagrams |-> IF d = 1 THEN FirstSize ELSE OtherSize]
Fragment(d, start, end, more) == [d |-> d, start |-> start, end |-> end, more |-> more]

\* A packet, or a fragment of one, for a link of a smaller MTU.
IpFrag(p, mtu) ==
  {Fragment(p.d, o, Min({o + mtu, p.end}), p.more \/ o + mtu < p.end) :
     o \in {o \in p.start .. p.end - 1 : (o - p.start) % mtu = 0}}

\* A datagram in work: hdr is the fragment whose header is kept.
NewReassData(f) == [hdr |-> f, last |-> FALSE, len |-> 0, q |-> <<>>, timer |-> ReassMaxAge]

NewHost == [list |-> <<>>, count |-> 0, failed |-> "none", passed |-> {}, told |-> {}]

Asserts(w, name, cond) == IF cond \/ w.failed # "none" THEN w ELSE [w EXCEPT !.failed = name]

Size(f) == f.end - f.start
Pbufs(q) == FoldLeft(LAMBDA n, f : n + Size(f), 0, q)

\* Datagram i is given up; prev is the one the caller takes for its predecessor,
\* 0 if there is none.  The sender hears of it if its header is known.
FreeCompleteDatagram(w, i, prev) ==
  LET e == w.list[i]
      free == [w EXCEPT !.list = RemoveAt(@, i), !.count = @ - Pbufs(e.q),
                        !.told = @ \cup (IF e.q[1].start = 0 THEN {e.hdr} ELSE {})]
  IN Asserts(free, "prev", prev # i)

\* The list has the youngest datagram first, so those whose time is over last.
ReassTmr(w) ==
  LET Over == {i \in DOMAIN w.list : w.list[i].timer = 0}
      older == [w EXCEPT !.list = [i \in DOMAIN @ |-> [@[i] EXCEPT !.timer = IF @ > 0 THEN @ - 1 ELSE 0]]]
  IN FoldRight(LAMBDA i, v : IF i \in Over THEN FreeCompleteDatagram(v, i, i - 1) ELSE v,
               [i \in DOMAIN w.list |-> i], older)

\* The last of the oldest datagrams other than that of f is given up, until
\* enough pbufs are free or none but one is left.
RECURSIVE RemoveOldestDatagram(_, _, _, _)
RemoveOldestDatagram(w, f, needed, freed) ==
  LET Others == {i \in DOMAIN w.list : w.list[i].hdr.d # f.d}
      oldest == CHOOSE i \in Others : \A j \in Others :
                  w.list[i].timer < w.list[j].timer \/ (w.list[i].timer = w.list[j].timer /\ j <= i)
      v == FreeCompleteDatagram(w, oldest, Len(w.list) - 1)
      total == freed + Pbufs(w.list[oldest].q)
  IN IF Others = {} THEN [w |-> w, freed |-> freed]
     ELSE IF total < needed /\ Cardinality(Others) > 1 THEN RemoveOldestDatagram(v, f, needed, total)
     ELSE [w |-> v, freed |-> total]

EnqueueNewDatagram(w, f) ==
  LET r == RemoveOldestDatagram(w, f, Size(f), 0)
      room == IF Len(w.list) < NumReassData THEN w ELSE r.w
      made == Len(w.list) < NumReassData \/ (r.freed >= Size(f) /\ Len(r.w.list) < NumReassData)
  IN IF made THEN [room EXCEPT !.list = <<NewReassData(f)>> \o @] ELSE room

\* Where f goes among the fragments of its datagram, which are in order: before
\* position k.  A first fragment may overlap the next.
Place(q, f) == Cardinality({k \in DOMAIN q : q[k].start < f.start}) + 1
Overlaps(q, f) ==
  LET k == Place(q, f)
  IN \/ k <= Len(q) /\ q[k].start = f.start
     \/ k > 1 /\ f.start < q[k - 1].end
     \/ k > 1 /\ k <= Len(q) /\ f.end > q[k].start

Joined(q, J) == \A k \in J : q[k - 1].end = q[k].start
NoGaps(q) == q[1].start = 0 /\ Joined(q, 2 .. Len(q))

\* A mistake: those before k do not count.
LooksCompleteLater(q, k) == q[1].start = 0 /\ Joined(q, k + 1 .. Len(q))

\* Whether the chain q is taken for complete with its fragment k new: all its gaps
\* count but the one before k, unless k is the end.
LooksComplete(q, k) == q[1].start = 0 /\ Joined(q, 2 .. Len(q) \ (IF k < Len(q) THEN {k} ELSE {}))

\* f enters the chain of datagram i, which is passed up when it looks complete.
ChainFrag(w, i, f) ==
  LET e == w.list[i]
      k == Place(e.q, f)
      q == InsertAt(e.q, k, f)
      sound == Asserts(Asserts(w, "one", Len(q) > 1), "len", q[Len(q)].end = e.len)
  IN IF Overlaps(e.q, f) THEN [w EXCEPT !.count = @ - Size(f)]
     ELSE IF e.last /\ LooksComplete(q, k)
     THEN [sound EXCEPT !.list = RemoveAt(@, i), !.count = @ - Pbufs(q),
                        !.passed = @ \cup {[hdr |-> e.hdr, q |-> q, k |-> k]}]
     ELSE [w EXCEPT !.list[i].q = q]

IpReass(w, f) ==
  LET full == w.count + Size(f) > ReassMaxPbufs
      v == IF full THEN RemoveOldestDatagram(w, f, Size(f), 0).w ELSE w
      Known(u) == {i \in DOMAIN u.list : u.list[i].hdr.d = f.d}
      u == IF Known(v) = {} THEN EnqueueNewDatagram(v, f) ELSE v
      i == CHOOSE i \in Known(u) : TRUE
      e == u.list[i]
      counted == [u EXCEPT !.count = @ + Size(f),
                           !.list[i] = [e EXCEPT !.hdr = IF f.start = 0 /\ @.start # 0 THEN f ELSE @,
                                                 !.last = @ \/ ~f.more,
                                                 !.len = IF f.more THEN @ ELSE f.end]]
  IN IF v.failed # "none" \/ v.count + Size(f) > ReassMaxPbufs THEN v
     ELSE IF u.failed # "none" \/ Known(u) = {} THEN u
     ELSE ChainFrag(counted, i, f)

-----------------------------------------------------------------------------
ReassInit == host = NewHost /\ onWire = {} /\ unsent = Datagrams /\ repeats = 0

\* A sender's link has MTU mtu.
SendsDatagram(d, mtu) ==
  /\ d \in unsent /\ unsent' = unsent \ {d}
  /\ onWire' = onWire \cup IpFrag(Fragment(d, 0, DatagramSizes[d], FALSE), mtu)
  /\ UNCHANGED <<host, repeats>>

\* The network delivers f, and may keep another copy of it.
Copies(f) ==
  \/ onWire' = onWire \ {f} /\ repeats' = repeats
  \/ repeats < MaxRepeats /\ repeats' = repeats + 1 /\ onWire' = onWire

\* A router on the way cuts f for a link with the smallest MTU.
Cuts(f) ==
  /\ Size(f) > 1 /\ repeats < MaxRepeats /\ repeats' = repeats + 1
  /\ onWire' \in {onWire \cup IpFrag(f, 1), (onWire \ {f}) \cup IpFrag(f, 1)} /\ UNCHANGED <<host, unsent>>

Handles(w) == host.failed = "none" /\ host' = w /\ UNCHANGED unsent

\* A packet that is whole never gets here.
FragmentArrives(f) ==
  (f.more \/ f.start > 0) /\ Copies(f) /\ Handles(IpReass([host EXCEPT !.passed = {}, !.told = {}], f))
ReassTicks == Handles(ReassTmr([host EXCEPT !.passed = {}, !.told = {}])) /\ UNCHANGED <<onWire, repeats>>

ReassNext ==
  \/ \E d \in Datagrams, mtu \in Mtus : SendsDatagram(d, mtu)
  \/ \E f \in onWire : Cuts(f) \/ FragmentArrives(f)
  \/ ReassTicks

ReassSpec == ReassInit /\ [][ReassNext]_reassVars

-----------------------------------------------------------------------------
\* A datagram is passed up when its last piece arrives, not later and, but for
\* a gap just before the piece that came last, not before; its pieces are all its
\* own and in order, its header is that of its first piece, and its sender hears
\* that it was given up only under such a header; each pbuf is counted; and no
\* assertion fails but one about a predecessor and one about the length.
ReassSound ==
  host.failed \in {"none", "prev", "len"} /\ (host.failed = "none" =>
    /\ \A p \in host.passed :
         /\ p.hdr.start = 0 /\ \A k \in DOMAIN p.q : p.q[k].d = p.hdr.d
         /\ p.q[1].start = 0 /\ p.q[Len(p.q)].end = DatagramSizes[p.hdr.d]
         /\ \A k \in 2 .. Len(p.q) : p.q[k - 1].end <= p.q[k].start /\ (k # p.k => p.q[k - 1].end = p.q[k].start)
    /\ \A h \in host.told : h.start = 0
    /\ \A i \in DOMAIN host.list : LET e == host.list[i] IN
         ~(~e.q[Len(e.q)].more /\ NoGaps(e.q)) /\ \A j \in DOMAIN host.list \ {i} : host.list[j].hdr.d # e.hdr.d
    /\ host.count = FoldLeft(LAMBDA n, e : n + Pbufs(e.q), 0, host.list) /\ host.count <= ReassMaxPbufs)

\* A datagram that is passed up has no holes.
NoHoles == \A p \in host.passed : host.failed = "none" => NoGaps(p.q)
=============================================================================
