------------------------------ MODULE LwipDns ------------------------------
(***************************************************************************)
(* lwIP's DNS client (dns.c), its servers and the network between them,    *)
(* which loses, delays and repeats.  A request is a call of                *)
(* dns_gethostbyname that has to wait for an answer.                       *)
(*                                                                         *)
(* A handler maps the state w to the state it leaves.  w.again is the name *)
(* the application looks up inside a callback (0 if it looks up none),        *)
(* w.told the calls of callbacks, w.remote the server the pcb is connected *)
(* to.  Names are numbered in the order of their first use.  The address   *)
(* of a name is its number; a row that never had one has address 0.        *)
(***************************************************************************)
EXTENDS Integers, SequencesExt, FiniteSetsExt

CONSTANTS
  DnsTableSize, DnsMaxRetries, DnsMaxTtl,
  SeqnoSpace,   \* dns_seqno is taken modulo this (256 in the code)
  TtlSpace,     \* and ttl modulo this (2^32)
  MaxRequests,  \* calls of dns_gethostbyname that have to wait
  MaxQuestions  \* questions a server may still answer

DnsMaxServers == 2
DnsNames == 1 .. MaxRequests
NotFound == -1

VARIABLES
  dns,       \* w
  questions, \* sent: any of them may be answered, now or late, once or often, or be lost
  waiting,   \* the requests whose callback has to be called yet, with their names
  dnsMishaps \* see DnsSound

dnsVars == <<dns, questions, waiting, dnsMishaps>>

Rows == 0 .. DnsTableSize - 1
NoRow == [st |-> "unused", name |-> 0, addr |-> 0, ttl |-> 0, seqno |-> 0,
          numdns |-> 0, tmr |-> 0, retries |-> 0, found |-> 0]
\* The address stays behind in a row that is no longer used.
Cleared(e) == [NoRow EXCEPT !.addr = e.addr]
NewDns(servers) ==
  [tbl |-> [i \in Rows |-> NoRow],
   seqno |-> 0, servers |-> servers, again |-> 0,
   asks |-> {}, told |-> <<>>, lastId |-> 0, clobbered |-> {}, mem |-> TRUE, remote |-> 0]

\* What dns_lookup finds in the table.
Lookup(w, name) ==
  LET Done == {i \in Rows : w.tbl[i].st = "done" /\ w.tbl[i].name = name}
  IN IF Done # {} THEN w.tbl[Min(Done)].addr ELSE NotFound

DnsSend(w, i) ==
  LET e == w.tbl[i]
  IN IF w.mem THEN [w EXCEPT !.asks = @ \cup {[id |-> i, name |-> e.name, server |-> e.numdns]}, !.remote = e.numdns]
     ELSE w

\* The entry for a new question, -1 for ERR_MEM: a free one, else the used one
\* whose seqno is the furthest behind.  The distance is computed without modulus.
DnsRowFor(w) ==
  LET Unused == {i \in Rows : w.tbl[i].st = "unused"}
      Distance(i) == w.seqno - w.tbl[i].seqno
      Behind == {i \in Rows : w.tbl[i].st = "done" /\ Distance(i) > 0}
      i == IF Behind = {} THEN 0
           ELSE Min({k \in Behind : \A j \in Behind : Distance(j) <= Distance(k)})
  IN IF Unused # {} THEN Min(Unused) ELSE IF w.tbl[i].st = "done" THEN i ELSE -1

\* dns_enqueue, with what dns_check_entry does to a new entry.  The callback of
\* the request is its number.
DnsEnqueue(w, name) ==
  LET i == DnsRowFor(w)
      r == w.lastId + 1
  IN IF i = -1 THEN w
     ELSE DnsSend([w EXCEPT !.seqno = (@ + 1) % SeqnoSpace, !.lastId = r,
                            !.tbl[i] = [@ EXCEPT !.st = "asking", !.seqno = w.seqno, !.found = r, !.name = name,
                                                 !.numdns = 0, !.tmr = 1, !.retries = 0]], i)

\* dns_gethostbyname for a name that is no address, nor localhost.
GetHostByName(w, name) == IF Lookup(w, name) # NotFound THEN w ELSE DnsEnqueue(w, name)

\* The callback of row i is called; the application may look up another name.
Tell(w, i, addr) ==
  LET v == [w EXCEPT !.told = Append(@, [r |-> w.tbl[i].found, addr |-> addr])]
  IN IF w.again = 0 THEN v ELSE GetHostByName(v, w.again)

\* The row is told that there is no address, and cleared, whoever has it by then.
DnsGiveUp(w, i) ==
  LET v == Tell(w, i, NotFound)
  IN [v EXCEPT !.tbl[i] = Cleared(@),
               !.clobbered = @ \cup ({v.tbl[i].found} \ {w.tbl[i].found})]

DnsCheckEntry(w, i) ==
  LET e == w.tbl[i]
      r == e.retries + 1
      ttl == (e.ttl - 1) % TtlSpace
  IN CASE e.st = "asking" /\ e.tmr > 1 -> [w EXCEPT !.tbl[i].tmr = @ - 1]
       [] e.st = "asking" /\ e.tmr = 1 /\ r < DnsMaxRetries ->
            DnsSend([w EXCEPT !.tbl[i].tmr = r, !.tbl[i].retries = r], i)
       [] e.st = "asking" /\ e.tmr = 1 /\ r = DnsMaxRetries ->
            IF e.numdns + 1 < w.servers
            THEN [w EXCEPT !.tbl[i].numdns = @ + 1, !.tbl[i].tmr = 1, !.tbl[i].retries = 0]
            ELSE DnsGiveUp(w, i)
       [] e.st = "done" -> [w EXCEPT !.tbl[i] = IF ttl = 0 THEN Cleared(@) ELSE [@ EXCEPT !.ttl = ttl]]
       [] OTHER -> w

DnsTmr(w) == FoldLeft(DnsCheckEntry, w, [k \in 1 .. DnsTableSize |-> k - 1])

\* Without the comparison of names the number of the row alone would tell.
AnyQuestion(e, m) == TRUE
SameQuestion(e, m) == m.name = e.name

\* A message that answers question m.id about m.name, with an address or without.
DnsRecv(w, m) ==
  LET v == [w EXCEPT !.tbl[m.id].st = "done"]
  IN IF w.tbl[m.id].st # "asking" THEN w
     ELSE IF m.kind = "failure" \/ ~SameQuestion(w.tbl[m.id], m) THEN DnsGiveUp(v, m.id)
     ELSE Tell([v EXCEPT !.tbl[m.id].ttl = Min({m.ttl, DnsMaxTtl}), !.tbl[m.id].addr = m.name], m.id, m.name)

-----------------------------------------------------------------------------
DnsInit ==
  /\ \E servers \in 1 .. DnsMaxServers : \* the numbers wrap with the last number of servers only
       dns = [NewDns(servers) EXCEPT !.seqno = IF servers < DnsMaxServers THEN 0 ELSE SeqnoSpace - 1]
  /\ questions = {} /\ waiting = {} /\ dnsMishaps = {}

\* A handler turns dns into w; the requests it takes are for name.
DnsTurns(Handler(_), name, again, mem) ==
  LET w == Handler([dns EXCEPT !.again = again, !.mem = mem])
      answered == {w.told[k].r : k \in DOMAIN w.told}
      taken == {[r |-> r, name |-> name] : r \in dns.lastId + 1 .. w.lastId}
  IN /\ w.lastId <= MaxRequests
     /\ dns' = [w EXCEPT !.asks = {}, !.told = <<>>, !.again = 0, !.mem = TRUE]
     /\ questions' = questions \cup w.asks /\ Cardinality(questions') <= MaxQuestions
     /\ waiting' = {x \in waiting \cup taken : x.r \notin answered}
     /\ dnsMishaps' = dnsMishaps \cup {w.told[k] : k \in {k \in DOMAIN w.told :
          ~\E x \in waiting : x.r = w.told[k].r /\ w.told[k].addr \in {x.name, NotFound}}}

NextNames == DnsNames \cap (1 .. dns.lastId + 1)
Maybe == NextNames \cup {0}

\* The table is full, no number has wrapped, and the row that is given up was not
\* the first to be asked for of those that could be, or none was.
WrongRow ==
  LET Done == {i \in Rows : dns.tbl[i].st = "done"}
      i == DnsRowFor(dns)
  IN /\ \A j \in Rows : dns.tbl[j].st # "unused" /\ dns.tbl[j].seqno < dns.seqno
     /\ IF i = -1 THEN Done # {} ELSE \E j \in Done : dns.tbl[j].found < dns.tbl[i].found

Calls(name) ==
  /\ Lookup(dns, name) = NotFound
  /\ \E mem \in BOOLEAN : DnsTurns(LAMBDA w : GetHostByName(w, name), name, 0, mem)

DnsTicks == DnsTurns(DnsTmr, 0, 0, FALSE) \/ \E again \in Maybe : DnsTurns(DnsTmr, again, again, TRUE)

\* A server answers; the pcb only hears the server that was asked last.
ServerAnswers(q) ==
  /\ q.server = dns.remote
  /\ \E m \in [id : {q.id}, name : {q.name}, kind : {"address"}, ttl : {0, DnsMaxTtl + 1}]
               \cup {[id |-> q.id, name |-> q.name, kind |-> "failure"]} :
       \E again \in Maybe : DnsTurns(LAMBDA w : DnsRecv(w, m), again, again, TRUE)
QuestionLost(q) == questions' = questions \ {q} /\ UNCHANGED <<dns, waiting, dnsMishaps>>

DnsNext ==
  \/ DnsTicks
  \/ \E name \in NextNames : Calls(name)
  \/ \E q \in questions : ServerAnswers(q) \/ QuestionLost(q)

DnsSpec == DnsInit /\ [][DnsNext]_dnsVars

-----------------------------------------------------------------------------
\* Each request waits in one row, which has a timer that ends; a callback is called
\* once, for its own request and with an address of its name; what a later call
\* finds in the table is the address of its name; and a new request takes the row
\* that was asked for first.  (A request made inside a callback that is told of
\* a failure may be wiped out.)
DnsSound ==
  /\ dnsMishaps = {} /\ ~WrongRow
  /\ \A x \in waiting : x.r \in dns.clobbered \/
       \E i \in Rows : LET e == dns.tbl[i] IN
         e.found = x.r /\ e.name = x.name /\ e.st = "asking" /\ e.tmr \in 1 .. DnsMaxRetries
  /\ \A i \in Rows : LET e == dns.tbl[i] IN
       /\ e.st = "asking" => \E x \in waiting : x.r = e.found
       /\ e.st = "done" => e.addr = e.name
=============================================================================
