------------------------------ MODULE LwipPbuf ------------------------------
(***************************************************************************)
(* lwIP's packet buffers (pbuf.c): chains with reference counts, shared    *)
(* between holders who follow the rules that the comments of pbuf.c give   *)
(* them.  A heap h maps a place to the pbuf there, 0 is NULL.  A pbuf      *)
(* holds its bytes, room is the space in front of them.                    *)
(***************************************************************************)
EXTENDS Integers, FiniteSetsExt, SequencesExt

CONSTANTS
  PoolBufs,    \* PBUF_POOL_SIZE
  OtherBufs,   \* pbufs the heap and MEMP_PBUF have room for
  BufSize,     \* PBUF_POOL_BUFSIZE
  HeaderLen,   \* room that layer PBUF_IP leaves, PBUF_RAW leaves none
  Holders,
  MaxPacket,   \* bytes
  MaxEdits     \* changes of bytes

VARIABLES
  heap,
  held,  \* held[x]: the pbuf holder x refers to
  want,  \* want[x]: the bytes it must find there
  edits

pbufVars == <<heap, held, want, edits>>

PoolPlaces == 1 .. PoolBufs
OtherPlaces == PoolBufs + 1 .. PoolBufs + OtherBufs
Places == PoolPlaces \cup OtherPlaces
NoPbuf == [type |-> "free", room |-> 0, data |-> <<>>, tot |-> 0, ref |-> 0, next |-> 0]
FreePlaces(h, S) == {p \in S : h[p].type = "free"}

RECURSIVE ChainOf(_, _)
ChainOf(h, p) == IF p = 0 THEN <<>> ELSE <<p>> \o ChainOf(h, h[p].next)
Clen(h, p) == Len(ChainOf(h, p))
BytesOf(h, p) == FoldLeft(LAMBDA s, q : s \o h[q].data, <<>>, ChainOf(h, p))

\* A pbuf nobody refers to any more returns, and gives up its reference to the next.
RECURSIVE PbufFree(_, _)
PbufFree(h, p) ==
  IF p = 0 THEN h
  ELSE IF h[p].ref > 1 THEN [h EXCEPT ![p].ref = @ - 1]
  ELSE PbufFree([h EXCEPT ![p] = NoPbuf], h[p].next)
PbufRef(h, p) == [h EXCEPT ![p].ref = @ + 1]

\* The heap and the pbuf for bytes, 0 if there is no memory: one in RAM, one that
\* refers to memory of the caller, or a chain from the pool.
RECURSIVE PoolChain(_, _, _)
PoolChain(h, bytes, room) ==
  LET n == Min({Len(bytes), BufSize - room})
      Rest == PoolChain([h EXCEPT ![Min(FreePlaces(h, PoolPlaces))].type = "pool"], SubSeq(bytes, n + 1, Len(bytes)), 0)
      p == Min(FreePlaces(h, PoolPlaces))
      made(g, next) == [h |-> [g EXCEPT ![p] = [type |-> "pool", room |-> room, data |-> SubSeq(bytes, 1, n),
                                                tot |-> Len(bytes), ref |-> 1, next |-> next]], p |-> p]
  IN IF FreePlaces(h, PoolPlaces) = {} THEN [h |-> h, p |-> 0]
     ELSE IF n = Len(bytes) THEN made(h, 0)
     ELSE IF Rest.p = 0 THEN [h |-> h, p |-> 0]
     ELSE made(Rest.h, Rest.p)

PbufAlloc(h, layer, bytes, type) ==
  LET room == IF layer = "ip" THEN HeaderLen ELSE 0
      p == Min(FreePlaces(h, OtherPlaces))
  IN IF type = "pool" THEN PoolChain(h, bytes, room)
     ELSE IF FreePlaces(h, OtherPlaces) = {} THEN [h |-> h, p |-> 0]
     ELSE [h |-> [h EXCEPT ![p] = [type |-> type, room |-> IF type = "ram" THEN room ELSE 0, data |-> bytes,
                                   tot |-> Len(bytes), ref |-> 1, next |-> 0]], p |-> p]

\* The chain is cut to n bytes, in the pbuf that has the last of them.
RECURSIVE PbufRealloc(_, _, _)
PbufRealloc(h, p, n) ==
  LET e == h[p]
  IN IF n >= e.tot THEN h
     ELSE IF n > Len(e.data) THEN PbufRealloc([h EXCEPT ![p].tot = n], e.next, n - Len(e.data))
     ELSE PbufFree([h EXCEPT ![p] = [@ EXCEPT !.data = SubSeq(@, 1, n), !.tot = n, !.next = 0]], e.next)

\* Makes room for header in front, or hides as many bytes as -hide says; the
\* heap stays as it is where that cannot be done.
PbufHeader(h, p, header) ==
  IF h[p].room < Len(header) THEN h \* a pbuf that refers to memory has no room
  ELSE [h EXCEPT ![p] = [@ EXCEPT !.data = header \o @, !.tot = @ + Len(header), !.room = @ - Len(header)]]
PbufHide(h, p, n) ==
  IF n > Len(h[p].data) THEN h
  ELSE [h EXCEPT ![p] = [@ EXCEPT !.data = SubSeq(@, n + 1, Len(@)), !.tot = @ - n,
                                  !.room = IF h[p].type = "ref" THEN 0 ELSE @ + n]]

PbufCat(h, p, t) ==
  LET c == ChainOf(h, p)
  IN FoldLeft(LAMBDA g, q : [g EXCEPT ![q].tot = @ + h[t].tot, ![q].next = IF q = c[Len(c)] THEN t ELSE @], h, c)
\* A mistake: the caller of pbuf_chain keeps t, but is not counted.
PbufChainUncounted(h, p, t) == PbufCat(h, p, t)
PbufChain(h, p, t) == PbufRef(PbufCat(h, p, t), t)
PbufDechain(h, p) ==
  LET q == h[p].next
  IN IF q = 0 THEN h
     ELSE PbufFree([h EXCEPT ![q].tot = h[p].tot - Len(h[p].data), ![p].next = 0, ![p].tot = Len(h[p].data)], q)

-----------------------------------------------------------------------------
\* From the bytes of a chain, pbuf by pbuf: n bytes from offset on.
CopyPartial(h, p, n, offset) ==
  FoldLeft(LAMBDA a, q : LET d == h[q].data
                             some == SubSeq(d, a.skip + 1, Min({a.skip + a.left, Len(d)}))
                         IN IF a.left = 0 THEN a
                            ELSE IF a.skip # 0 /\ a.skip >= Len(d) THEN [a EXCEPT !.skip = @ - Len(d)]
                            ELSE [a EXCEPT !.got = @ \o some, !.left = @ - Len(some), !.skip = 0],
           [got |-> <<>>, left |-> n, skip |-> offset], ChainOf(h, p)).got

\* The pbuf with the byte at an offset and its offset there, pbuf 0 if there is none.
RECURSIVE Find(_, _, _)
Find(h, q, n) == IF q # 0 /\ Len(h[q].data) <= n THEN Find(h, h[q].next, n - Len(h[q].data)) ELSE [q |-> q, n |-> n]
GetAt(h, p, offset) ==
  LET f == Find(h, p, offset) IN IF f.q = 0 THEN 0 ELSE h[f.q].data[f.n + 1]

\* 0 if the bytes are there, else one more than how many agree.
Nowhere == -1 \* 0xFFFF
Memcmp(h, p, offset, bytes) ==
  LET f == Find(h, p, offset)
      Differ == {i \in DOMAIN bytes : GetAt(h, f.q, f.n + i - 1) # bytes[i]}
  IN IF f.q = 0 THEN Nowhere ELSE IF Differ = {} THEN 0 ELSE Min(Differ)

\* The offset of bytes in the chain.  What differed is not looked at again.
RECURSIVE MemfindFrom(_, _, _, _)
MemfindFrom(h, p, bytes, i) ==
  LET plus == Memcmp(h, p, i, bytes)
  IN IF i > h[p].tot - Len(bytes) THEN Nowhere
     ELSE IF plus = 0 THEN i ELSE MemfindFrom(h, p, bytes, i + plus)
Memfind(h, p, bytes) == IF h[p].tot < Len(bytes) THEN Nowhere ELSE MemfindFrom(h, p, bytes, 0)

\* The bytes are stored in the pbufs of the chain p, from its front.
PbufTake(h, p, bytes) ==
  LET f == FoldLeft(LAMBDA a, q : LET n == Min({Len(a.left), Len(a.h[q].data)})
                                  IN [h |-> [a.h EXCEPT ![q].data = [i \in DOMAIN @ |-> IF i <= n THEN a.left[i] ELSE @[i]]],
                                      left |-> SubSeq(a.left, n + 1, Len(a.left))],
                    [h |-> h, left |-> bytes], ChainOf(h, p))
  IN IF h[p].tot < Len(bytes) THEN h ELSE f.h

\* Copies the chain from to the chain to, piece by piece: a piece ends where a
\* pbuf of either ends.  ot and of are offsets in the first pbufs.
RECURSIVE CopyRest(_, _, _, _, _)
CopyRest(h, to, from, ot, of) ==
  LET n == Min({Len(h[to].data) - ot, Len(h[from].data) - of})
      g == [h EXCEPT ![to].data = [i \in DOMAIN @ |-> IF i > ot /\ i <= ot + n THEN h[from].data[i - ot + of] ELSE @[i]]]
      endF == of + n >= Len(h[from].data)
      endT == ot + n = Len(h[to].data)
      f == IF endF THEN h[from].next ELSE from
      t == IF endT THEN h[to].next ELSE to
  IN IF f = 0 \/ t = 0 THEN g
     ELSE CopyRest(g, t, f, IF endT THEN 0 ELSE ot + n, IF endF THEN 0 ELSE of + n)
PbufCopy(h, to, from) == IF h[to].tot < h[from].tot THEN h ELSE CopyRest(h, to, from, 0, 0)

\* One pbuf with the same bytes, or p itself.
PbufCoalesce(h, p, layer) ==
  LET a == PbufAlloc(h, layer, [i \in 1 .. h[p].tot |-> 0], "ram")
  IN IF h[p].next = 0 \/ a.p = 0 THEN [h |-> h, p |-> p]
     ELSE [h |-> PbufFree(PbufCopy(a.h, a.p, p), p), p |-> a.p]

-----------------------------------------------------------------------------
PbufInit ==
  /\ heap = [p \in Places |-> NoPbuf] /\ held = [x \in Holders |-> 0] /\ want = [x \in Holders |-> <<>>]
  /\ edits = 0

Of(x) == Range(ChainOf(heap, held[x]))
OfOthers(x) == UNION {Of(y) : y \in Holders \ {x}}

\* Holder x has the packet p of the heap h now, with these bytes.
Has(x, h, p, bytes) == heap' = h /\ held' = [held EXCEPT ![x] = p] /\ want' = [want EXCEPT ![x] = bytes]

\* The packets of two holders differ in their last bytes.
Packet(x, n) == [i \in 1 .. n |-> IF i = n THEN x ELSE 0]

Allocs(x, type, layer, n) ==
  /\ held[x] = 0
  /\ LET a == PbufAlloc(heap, layer, Packet(x, n), type)
     IN Has(x, a.h, a.p, IF a.p = 0 THEN <<>> ELSE Packet(x, n))
Frees(x) == held[x] # 0 /\ Has(x, PbufFree(heap, held[x]), 0, <<>>)
Shares(x, y) == held[x] = 0 /\ held[y] # 0 /\ Has(x, PbufRef(heap, held[y]), held[y], want[y])

\* x puts the packet of y behind its own, and y keeps it or not.
Joins(x, y) ==
  /\ x # y /\ held[x] # 0 /\ held[y] # 0 /\ Of(x) \cap OfOthers(x) = {} /\ Len(want[x]) + Len(want[y]) <= MaxPacket
  /\ \/ Has(x, PbufChain(heap, held[x], held[y]), held[x], want[x] \o want[y])
     \/ /\ heap' = PbufCat(heap, held[x], held[y]) /\ held' = [held EXCEPT ![y] = 0]
        /\ want' = [want EXCEPT ![x] = @ \o want[y], ![y] = <<>>]

\* x changes the first pbuf of its packet, which is no other's.
Own(x) == held[x] # 0 /\ held[x] \notin OfOthers(x)
Parts(x) == Own(x) /\ Has(x, PbufDechain(heap, held[x]), held[x], heap[held[x]].data)
Heads(x) ==
  /\ Own(x) /\ Len(want[x]) < MaxPacket
  /\ Has(x, PbufHeader(heap, held[x], <<0>>), held[x], IF heap[held[x]].room = 0 THEN want[x] ELSE <<0>> \o want[x])
Hides(x, n) ==
  /\ Own(x)
  /\ Has(x, PbufHide(heap, held[x], n), held[x],
         IF n > Len(heap[held[x]].data) THEN want[x] ELSE SubSeq(want[x], n + 1, Len(want[x])))

\* The pbufs x cuts off may be those of others.
Cuts(x, n) ==
  /\ held[x] # 0 /\ n < Len(want[x])
  /\ LET c == ChainOf(heap, held[x])
     IN \A k \in DOMAIN c : c[k] \in OfOthers(x) => k > 1 /\ n <= Len(BytesOf(heap, c[1])) - Len(BytesOf(heap, c[k]))
  /\ Has(x, PbufRealloc(heap, held[x], n), held[x], SubSeq(want[x], 1, n))
Coalesces(x, layer) ==
  held[x] # 0 /\ LET c == PbufCoalesce(heap, held[x], layer) IN Has(x, c.h, c.p, want[x])

\* x overwrites the bytes of its packet: with those of the packet of y, or given ones.
Overwritten(x, bytes) ==
  IF Len(bytes) > Len(want[x]) THEN want[x] ELSE bytes \o SubSeq(want[x], Len(bytes) + 1, Len(want[x]))
Overwrites(x) ==
  /\ held[x] # 0 /\ Of(x) \cap OfOthers(x) = {}
  /\ \/ \E y \in Holders \ {x} : held[y] # 0 /\ Has(x, PbufCopy(heap, held[x], held[y]), held[x], Overwritten(x, want[y]))
     \/ Has(x, PbufTake(heap, held[x], <<0, x>>), held[x], Overwritten(x, <<0, x>>))

Refers(x) ==
  \/ \E n \in 1 .. MaxPacket : Allocs(x, "pool", "ip", n) \/ Allocs(x, "ram", "ip", n) \/ Allocs(x, "ref", "raw", n)
  \/ Frees(x) \/ Parts(x) \/ Coalesces(x, "raw")
  \/ \E y \in Holders : Shares(x, y) \/ Joins(x, y)

Edits(x) == Heads(x) \/ Overwrites(x) \/ \E n \in 0 .. MaxPacket - 1 : Hides(x, n) \/ Cuts(x, n)

PbufNext == \E x \in Holders :
  \/ Refers(x) /\ UNCHANGED edits
  \/ edits < MaxEdits /\ edits' = edits + 1 /\ Edits(x)

PbufSpec == PbufInit /\ [][PbufNext]_pbufVars

-----------------------------------------------------------------------------
\* What the functions that look into the chain of x must return.
ReadsRight(x) ==
  LET p == held[x]
      b == want[x]
      Spots == {s \in (DOMAIN b) \X (DOMAIN b) : s[1] <= s[2]}
  IN /\ \A n, o \in 0 .. MaxPacket : CopyPartial(heap, p, n, o) = SubSeq(b, o + 1, Min({o + n, Len(b)}))
     /\ \A o \in 0 .. MaxPacket : GetAt(heap, p, o) = IF o < Len(b) THEN b[o + 1] ELSE 0
     /\ \A s \in Spots : LET found == Memfind(heap, p, SubSeq(b, s[1], s[2])) IN
          /\ found # Nowhere => SubSeq(b, found + 1, found + s[2] - s[1] + 1) = SubSeq(b, s[1], s[2])
          /\ (\A i \in 1 .. s[1] - 1 : b[i] # b[s[1]]) => found = s[1] - 1

\* A pbuf lives as long as somebody refers to it, is counted as often as it is
\* referred to and knows how many bytes follow; each holder finds the bytes that it
\* put there, whatever the others do, in whole and in part.  (A search may miss an
\* occurrence after a false start.)
PbufSound ==
  /\ \A p \in Places : LET e == heap[p] IN
       /\ e.ref = Cardinality({x \in Holders : held[x] = p}) + Cardinality({q \in Places : heap[q].next = p})
       /\ (e.ref = 0) = (e.type = "free") /\ e.tot = Len(BytesOf(heap, p))
  /\ \A x \in Holders : held[x] # 0 => BytesOf(heap, held[x]) = want[x] /\ ReadsRight(x)
=============================================================================
