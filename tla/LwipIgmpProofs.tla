-------------------------- MODULE LwipIgmpProofs --------------------------
(***************************************************************************)
(* lwIP's IGMP is sound for any pool of groups, any timer settings, any    *)
(* number of joins, and any failures.                                      *)
(*                                                                         *)
(* First what each function of igmp.c does to a station, then that each    *)
(* step keeps IgmpInv. Its heart is Known: while the router waits for      *)
(* answers, each member of group g is delaying, and its timer ends no      *)
(* later than the router's wait. So the first whose timer goes off answers *)
(* for all, before the router forgets the group; those it silences have    *)
(* nothing to answer any more.                                             *)
(***************************************************************************)
EXTENDS LwipIgmp, TLAPS

GroupStates == [st : {"none", "non", "idle", "delaying"}, timer : Nat, last : BOOLEAN, use : Nat]
Messages == [type : {"report", "leave"}, n : Links, a : Groups]
StationStates ==
  [grp : [Links -> [Groups -> GroupStates]], filter : SUBSET (Links \X Groups), out : Seq(Messages), rand : Nat,
   mem : BOOLEAN, traps : BOOLEAN, trapped : BOOLEAN, err : {"ok", "mem"}, waived : SUBSET Links]

GroupOK(e) == e.st # "non" /\ (e.st = "none" <=> e.use = 0) /\ (e.st = "idle" => e.timer = 0)
StationOK(w) ==
  /\ w \in StationStates /\ w.filter = Present(w)
  /\ \A n \in Links, a \in Groups : GroupOK(w.grp[n][a])
  /\ \A n \in Links : Member(w, n, "g") => Member(w, n, "all")

-----------------------------------------------------------------------------
Put(w, n, a, e) == [w EXCEPT !.grp[n][a] = e]

\* What neither the groups nor what is sent nor a trap concerns is as it was.
SameRest(v, w) ==
  /\ v.filter = w.filter /\ v.rand = w.rand /\ v.mem = w.mem /\ v.traps = w.traps
  /\ v.err = w.err /\ v.waived = w.waived
SameGroupsBut(v, w, n, a) ==
  \A m \in Links, b \in Groups : m # n \/ b # a => v.grp[m][b] = w.grp[m][b]

\* Writing one group leaves the others, the filter and what is to be sent alone.
LEMMA PutIsOne ==
  ASSUME NEW w \in StationStates, NEW n \in Links, NEW a \in Groups, NEW e \in GroupStates
  PROVE  /\ Put(w, n, a, e) \in StationStates /\ SameRest(Put(w, n, a, e), w)
         /\ Put(w, n, a, e).out = w.out /\ Put(w, n, a, e).trapped = w.trapped
         /\ Put(w, n, a, e).grp[n][a] = e /\ SameGroupsBut(Put(w, n, a, e), w, n, a)
<1> DEFINE g == [w.grp[n] EXCEPT ![a] = e]
           h == [w.grp EXCEPT ![n] = g]
<1>1. w.grp \in [Links -> [Groups -> GroupStates]] /\ w.grp[n] \in [Groups -> GroupStates]
  BY DEF StationStates
<1>2. /\ g \in [Groups -> GroupStates] /\ g[a] = e
      /\ \A b \in Groups : b # a => g[b] = w.grp[n][b]
  BY <1>1
<1>3. Put(w, n, a, e) = [w EXCEPT !.grp = h]
  BY DEF Put
<1> HIDE DEF g
<1>4. h \in [Links -> [Groups -> GroupStates]] /\ h[n] = g /\ \A m \in Links : m # n => h[m] = w.grp[m]
  BY <1>1, <1>2
<1> HIDE DEF h
<1>5. /\ [w EXCEPT !.grp = h] \in StationStates /\ [w EXCEPT !.grp = h].grp = h
      /\ SameRest([w EXCEPT !.grp = h], w)
      /\ [w EXCEPT !.grp = h].out = w.out /\ [w EXCEPT !.grp = h].trapped = w.trapped
  BY <1>4 DEF StationStates, SameRest
<1>6. QED
  BY <1>2, <1>3, <1>4, <1>5 DEF SameGroupsBut

\* A station with nothing to send says nothing on the lan.
LEMMA NothingSaid == \A w, t, a : w.out = <<>> => ~Said(w, t, a)
  BY DEF Said, Lan

\* What is said depends on nothing but what is sent.
LEMMA SaidAgain == \A v, w, t, a : v.out = w.out => (Said(v, t, a) <=> Said(w, t, a))
  BY DEF Said, Lan

\* One more message sent says what was said before, and what it says.
LEMMA SaidNow ==
  ASSUME NEW v, NEW w, NEW m \in Messages, w.out \in Seq(Messages), v.out = Append(w.out, m), NEW t, NEW a
  PROVE  Said(v, t, a) <=> Said(w, t, a) \/ (m.n = "lan" /\ m.type = t /\ m.a = a)
<1>1. ASSUME NEW u PROVE Said(u, t, a) <=> \E k \in DOMAIN u.out : u.out[k].n = "lan" /\ u.out[k].type = t /\ u.out[k].a = a
  BY DEF Said, Lan
<1>2. /\ DOMAIN w.out = 1 .. Len(w.out) /\ DOMAIN v.out = 1 .. Len(w.out) + 1 /\ Len(w.out) \in Nat
      /\ \A k \in 1 .. Len(w.out) : v.out[k] = w.out[k]
      /\ v.out[Len(w.out) + 1] = m
  OBVIOUS
<1>3. \A k : k \in DOMAIN v.out <=> k \in DOMAIN w.out \/ k = Len(w.out) + 1
  BY <1>2
<1>4. QED
  BY <1>1, <1>2, <1>3

\* The timer of a group was started.
Timed(v, w, n, a, time) ==
  /\ v \in StationStates /\ SameGroupsBut(v, w, n, a)
  /\ v.grp[n][a].st = w.grp[n][a].st /\ v.grp[n][a].use = w.grp[n][a].use /\ v.grp[n][a].last = w.grp[n][a].last
  /\ v.grp[n][a].timer \in Nat \ {0}
  /\ time > 1 => v.grp[n][a].timer < time
  /\ v.trapped = IF time > 1 THEN w.trapped ELSE w.traps
  /\ SameRest(v, w) /\ v.out = w.out

\* igmp_start_timer: the timer of that group is set between 1 and the answer time, and nothing traps,
\* unless the time is one period or none.
LEMMA StartTimerIsTimed ==
  ASSUME NEW w \in StationStates, NEW n \in Links, NEW a \in Groups, NEW time \in Nat
  PROVE  Timed(StartTimer(w, n, a, time), w, n, a, time)
<1> DEFINE t == IF time > 1 THEN (w.rand % (time - 1)) + 1 ELSE w.rand + 1
           e == [w.grp[n][a] EXCEPT !.timer = t]
           p == Put(w, n, a, e)
<1>1. t \in Nat \ {0} /\ (time > 1 => t < time) /\ w.traps \in BOOLEAN
  <2>1. w.rand \in Nat /\ w.traps \in BOOLEAN
    BY DEF StationStates
  <2>2. CASE time > 1
    <3>1. time - 1 \in Nat \ {0}
      BY <2>2
    <3>2. w.rand % (time - 1) \in 0 .. (time - 1) - 1
      BY <2>1, <3>1
    <3>3. QED
      BY <2>1, <2>2, <3>1, <3>2
  <2>3. CASE ~(time > 1)
    BY <2>1, <2>3
  <2>4. QED
    BY <2>2, <2>3
<1>2. w.grp[n][a] \in GroupStates
  BY DEF StationStates
<1>3. StartTimer(w, n, a, time) = IF time > 1 THEN p ELSE [p EXCEPT !.trapped = w.traps]
  BY DEF StartTimer, Put
<1> HIDE DEF t
<1>4. /\ e \in GroupStates /\ e.timer = t /\ e.st = w.grp[n][a].st
      /\ e.use = w.grp[n][a].use /\ e.last = w.grp[n][a].last
  BY <1>1, <1>2 DEF GroupStates
<1> HIDE DEF e
<1>5. p \in StationStates /\ SameRest(p, w) /\ p.grp[n][a] = e /\ SameGroupsBut(p, w, n, a)
      /\ p.out = w.out /\ p.trapped = w.trapped
  BY <1>4, PutIsOne
<1> HIDE DEF p
<1>6. CASE time > 1
  <2>1. StartTimer(w, n, a, time) = p
    BY <1>3, <1>6
  <2>2. QED
    BY <2>1, <1>1, <1>4, <1>5, <1>6 DEF Timed, SameRest
<1>7. CASE ~(time > 1)
  <2> DEFINE q == [p EXCEPT !.trapped = w.traps]
  <2>1. /\ q \in StationStates /\ q.grp = p.grp /\ q.trapped = w.traps
        /\ SameRest(q, w) /\ q.out = w.out
    BY <1>1, <1>5 DEF SameRest, StationStates
  <2>2. StartTimer(w, n, a, time) = q
    BY <1>3, <1>7
  <2> HIDE DEF q
  <2>3. SameGroupsBut(q, w, n, a)
    BY <2>1, <1>5 DEF SameGroupsBut
  <2>4. QED
    BY <2>1, <2>2, <2>3, <1>1, <1>4, <1>5, <1>7 DEF Timed
<1>8. QED
  BY <1>6, <1>7

\* A report or a leave message was sent, if there was a pbuf for it.
Sent(v, w, n, a, type) ==
  /\ v \in StationStates /\ SameGroupsBut(v, w, n, a)
  /\ v.grp[n][a].st = w.grp[n][a].st /\ v.grp[n][a].use = w.grp[n][a].use /\ v.grp[n][a].timer = w.grp[n][a].timer
  /\ v.trapped = w.trapped /\ SameRest(v, w)
  /\ \A t, b : Said(v, t, b) <=> Said(w, t, b) \/ (w.mem /\ n = "lan" /\ type = t /\ a = b)

\* igmp_send: with a pbuf the message is said, and after a report the group was reported last.
LEMMA IgmpSendIsSent ==
  ASSUME NEW w \in StationStates, NEW n \in Links, NEW a \in Groups, NEW type \in {"report", "leave"}
  PROVE  Sent(IgmpSend(w, n, a, type), w, n, a, type)
<1>1. CASE ~w.mem
  BY <1>1 DEF IgmpSend, Sent, SameGroupsBut, SameRest, StationStates
<1>2. CASE w.mem
  <2> DEFINE m == [type |-> type, n |-> n, a |-> a]
             e == [w.grp[n][a] EXCEPT !.last = @ \/ type = "report"]
             p == Put(w, n, a, e)
             q == [p EXCEPT !.out = Append(w.out, m)]
  <2>1. IgmpSend(w, n, a, type) = q
    BY <1>2 DEF IgmpSend, Put, StationStates
  <2>2. w.grp[n][a] \in GroupStates /\ w.out \in Seq(Messages) /\ m \in Messages
    BY DEF StationStates, Messages
  <2>3. e \in GroupStates /\ e.st = w.grp[n][a].st /\ e.use = w.grp[n][a].use /\ e.timer = w.grp[n][a].timer
    BY <2>2 DEF GroupStates
  <2> HIDE DEF e
  <2>4. p \in StationStates /\ SameRest(p, w) /\ p.grp[n][a] = e /\ SameGroupsBut(p, w, n, a)
        /\ p.out = w.out /\ p.trapped = w.trapped
    BY <2>3, PutIsOne
  <2> HIDE DEF p
  <2>5. Append(w.out, m) \in Seq(Messages) /\ m.type = type /\ m.n = n /\ m.a = a
    BY <2>2
  <2> HIDE DEF m
  <2>6. /\ q \in StationStates /\ q.grp = p.grp /\ q.out = Append(w.out, m) /\ q.trapped = w.trapped
        /\ SameRest(q, w)
    BY <2>4, <2>5 DEF SameRest, StationStates
  <2> HIDE DEF q
  <2>7. ASSUME NEW t, NEW b
        PROVE  Said(q, t, b) <=> Said(w, t, b) \/ (n = "lan" /\ type = t /\ a = b)
    <3>0. m \in Messages /\ w.out \in Seq(Messages) /\ q.out = Append(w.out, m)
      BY <2>2, <2>6
    <3>1. Said(q, t, b) <=> Said(w, t, b) \/ (m.n = "lan" /\ m.type = t /\ m.a = b)
      BY <3>0, SaidNow
    <3>2. QED
      BY <3>1, <2>5
  <2>8. SameGroupsBut(q, w, n, a)
    BY <2>4, <2>6 DEF SameGroupsBut
  <2>9. QED
    BY <1>2, <2>1, <2>3, <2>4, <2>6, <2>7, <2>8 DEF Sent
<1>3. QED
  BY <1>1, <1>2

-----------------------------------------------------------------------------
\* The station answers within the same time as before, if it has to.
Ready(w, due) ==
  Member(w, "lan", "g") => w.grp["lan"]["g"].st = "delaying" /\ w.grp["lan"]["g"].timer \in 1 .. due
AsReady(v, w) == \A due \in Nat : Ready(w, due) => Ready(v, due)

SameUses(v, w) == v.waived = w.waived /\ \A n \in Links, a \in Groups : v.grp[n][a].use = w.grp[n][a].use

\* The same members, the same set of them.
LEMMA SamePresent ==
  ASSUME NEW v, NEW w, \A n \in Links, a \in Groups : Member(v, n, a) <=> Member(w, n, a)
  PROVE  Present(v) = Present(w)
  BY DEF Present

\* A group is a member if and only if it is used, and its state is sound.
LEMMA MembersUse ==
  ASSUME NEW w, StationOK(w), NEW n \in Links, NEW a \in Groups
  PROVE  /\ Member(w, n, a) <=> w.grp[n][a].use # 0
         /\ w.grp[n][a] \in GroupStates /\ GroupOK(w.grp[n][a])
  BY DEF Member, StationOK, GroupOK, StationStates

\* A station whose one group changed its state, but not its use, is sound if that group is.
LEMMA OneGroupOK ==
  ASSUME NEW v \in StationStates, NEW w, StationOK(w), NEW n \in Links, NEW a \in Groups,
         SameGroupsBut(v, w, n, a), SameRest(v, w), v.grp[n][a].use = w.grp[n][a].use, GroupOK(v.grp[n][a])
  PROVE  StationOK(v) /\ SameUses(v, w)
<1>1. ASSUME NEW m \in Links, NEW b \in Groups PROVE GroupOK(v.grp[m][b]) /\ v.grp[m][b].use = w.grp[m][b].use
  <2>1. CASE m = n /\ b = a
    BY <2>1
  <2>2. CASE ~(m = n /\ b = a)
    BY <2>2 DEF SameGroupsBut, StationOK
  <2>3. QED
    BY <2>1, <2>2
<1>2. \A m \in Links, b \in Groups : Member(v, m, b) <=> Member(w, m, b)
  BY <1>1, MembersUse DEF Member, GroupOK
<1>3. Present(v) = Present(w)
  BY <1>2, SamePresent
<1>4. QED
  BY <1>1, <1>2, <1>3 DEF StationOK, SameUses, SameRest, Groups

\* A group was asked about, to answer within some time.
Delayed(v, w, n, a, time) ==
  /\ StationOK(v) /\ SameUses(v, w) /\ SameRest(v, w) /\ v.out = w.out
  /\ time > 1 => v.trapped = w.trapped /\ AsReady(v, w)
  /\ time > 1 /\ n = "lan" /\ a = "g" => Ready(v, time)

\* igmp_delaying_member: a member asked about answers within the time asked for or an earlier one;
\* one whose timer went off, but which is still delaying, starts it again.
LEMMA DelayingMemberIsDelayed ==
  ASSUME NEW w, StationOK(w), NEW n \in Links, NEW a \in Groups, NEW time \in Nat
  PROVE  Delayed(DelayingMember(w, n, a, time), w, n, a, time)
<1> DEFINE old == w.grp[n][a]
<1>1. w \in StationStates /\ old \in GroupStates /\ GroupOK(old) /\ old.timer \in Nat
  BY MembersUse DEF StationOK, GroupStates
<1>2. CASE ~AsksAgain(old, time)
  <2>1. DelayingMember(w, n, a, time) = w
    BY <1>2 DEF DelayingMember
  <2>2. n = "lan" /\ a = "g" /\ time > 1 => Ready(w, time)
    BY <1>1, <1>2 DEF Ready, AsksAgain, Member, GroupOK, GroupStates
  <2>3. QED
    BY <2>1, <2>2 DEF Delayed, SameUses, SameRest, AsReady
<1>3. CASE AsksAgain(old, time)
  <2> DEFINE u == StartTimer(w, n, a, time)
             e == [u.grp[n][a] EXCEPT !.st = "delaying"]
             v == Put(u, n, a, e)
  <2>1. DelayingMember(w, n, a, time) = v
    BY <1>3 DEF DelayingMember, Put
  <2>2. Timed(u, w, n, a, time)
    BY <1>1, StartTimerIsTimed
  <2> HIDE DEF u
  <2>3. u \in StationStates /\ u.grp[n][a] \in GroupStates
    BY <2>2 DEF Timed, StationStates
  <2>4. e \in GroupStates /\ e.st = "delaying" /\ e.timer = u.grp[n][a].timer /\ e.use = u.grp[n][a].use
    BY <2>3 DEF GroupStates
  <2> HIDE DEF e
  <2>5. /\ v \in StationStates /\ SameRest(v, u) /\ v.grp[n][a] = e /\ SameGroupsBut(v, u, n, a)
        /\ v.out = u.out /\ v.trapped = u.trapped
    BY <2>3, <2>4, PutIsOne
  <2> HIDE DEF v
  <2>6. SameRest(v, w) /\ v.out = w.out /\ SameGroupsBut(v, w, n, a) /\ (time > 1 => v.trapped = w.trapped)
    BY <2>2, <2>5 DEF Timed, SameRest, SameGroupsBut
  <2>7. /\ v.grp[n][a].use = old.use /\ old.st # "none" /\ v.grp[n][a].timer \in Nat \ {0}
        /\ time > 1 => v.grp[n][a].timer < time
        /\ v.grp[n][a].st = "delaying"
    BY <2>2, <2>4, <2>5, <1>3 DEF Timed, AsksAgain
  <2>8. GroupOK(v.grp[n][a])
    BY <1>1, <2>7 DEF GroupOK
  <2>9. StationOK(v) /\ SameUses(v, w)
    BY <2>5, <2>6, <2>7, <2>8, OneGroupOK
  <2>10. ASSUME time > 1, NEW due \in Nat, Ready(w, due)
         PROVE  Ready(v, due)
    <3>1. CASE n = "lan" /\ a = "g"
      <4>1. old.st = "delaying" /\ old.timer \in 1 .. due
        BY <3>1, <2>7, <2>10 DEF Ready, Member
      <4>2. time < old.timer
        BY <4>1, <1>1, <1>3 DEF AsksAgain
      <4>3. v.grp[n][a].timer \in 1 .. due
        BY <4>1, <4>2, <2>7, <2>10
      <4>4. QED
        BY <3>1, <4>3, <2>7 DEF Ready
    <3>2. CASE ~(n = "lan" /\ a = "g")
      <4>1. v.grp["lan"]["g"] = w.grp["lan"]["g"]
        BY <3>2, <2>6 DEF SameGroupsBut, Links, Groups
      <4>2. QED
        BY <4>1, <2>10 DEF Ready, Member
    <3>3. QED
      BY <3>1, <3>2
  <2>11. time > 1 /\ n = "lan" /\ a = "g" => Ready(v, time)
    BY <2>7 DEF Ready
  <2>12. QED
    BY <2>1, <2>6, <2>9, <2>10, <2>11 DEF Delayed, AsReady
<1>4. QED
  BY <1>2, <1>3

\* What a station does when it hears others.
Unsaid(v, w) == StationOK(v) /\ SameUses(v, w) /\ SameRest(v, w) /\ v.out = w.out

\* The report of another station silences that group and changes no other.
LEMMA IgmpReportIsUnsaid ==
  ASSUME NEW w, StationOK(w), NEW n \in Links, NEW a \in Groups
  PROVE  /\ Unsaid(IgmpReport(w, n, a), w) /\ IgmpReport(w, n, a).trapped = w.trapped
         /\ SameGroupsBut(IgmpReport(w, n, a), w, n, a)
<1>1. CASE w.grp[n][a].st # "delaying"
  BY <1>1 DEF IgmpReport, Unsaid, SameUses, SameRest, SameGroupsBut
<1>2. CASE w.grp[n][a].st = "delaying"
  <2> DEFINE e == [w.grp[n][a] EXCEPT !.timer = 0, !.st = "idle", !.last = FALSE]
             v == Put(w, n, a, e)
  <2>1. IgmpReport(w, n, a) = v
    BY <1>2 DEF IgmpReport, Put
  <2>2. w \in StationStates /\ w.grp[n][a] \in GroupStates /\ GroupOK(w.grp[n][a])
    BY MembersUse DEF StationOK
  <2>3. e \in GroupStates /\ e.use = w.grp[n][a].use /\ e.st = "idle" /\ e.timer = 0
    BY <2>2 DEF GroupStates
  <2> HIDE DEF e
  <2>4. /\ v \in StationStates /\ SameRest(v, w) /\ v.grp[n][a] = e /\ SameGroupsBut(v, w, n, a)
        /\ v.out = w.out /\ v.trapped = w.trapped
    BY <2>2, <2>3, PutIsOne
  <2> HIDE DEF v
  <2>5. GroupOK(v.grp[n][a]) /\ v.grp[n][a].use = w.grp[n][a].use
    BY <1>2, <2>2, <2>3, <2>4 DEF GroupOK
  <2>6. StationOK(v) /\ SameUses(v, w)
    BY <2>4, <2>5, OneGroupOK
  <2>7. QED
    BY <2>1, <2>4, <2>6 DEF Unsaid
<1>3. QED
  BY <1>1, <1>2

\* Two such steps are one.
LEMMA UnsaidTwice ==
  ASSUME NEW u, NEW v, NEW w, Unsaid(u, v), Unsaid(v, w)
  PROVE  Unsaid(u, w)
  BY DEF Unsaid, SameUses, SameRest

\* What another station sends changes group g only if it is a report of g.
LEMMA HearsIsUnsaid ==
  ASSUME NEW v, NEW w, StationOK(v)
  PROVE  /\ Unsaid(Hears(v, w), v) /\ Hears(v, w).trapped = v.trapped
         /\ ~Said(w, "report", "g") => Hears(v, w).grp["lan"]["g"] = v.grp["lan"]["g"]
<1> DEFINE x == HearsOf(v, w, "all")
           y == HearsOf(x, w, "g")
<1>0. Hears(v, w) = y /\ "lan" \in Links /\ "all" \in Groups /\ "g" \in Groups /\ Unsaid(v, v)
  BY DEF Hears, Links, Groups, Unsaid, SameUses, SameRest
<1>1. Unsaid(x, v) /\ x.trapped = v.trapped /\ x.grp["lan"]["g"] = v.grp["lan"]["g"]
  BY <1>0, IgmpReportIsUnsaid DEF HearsOf, SameGroupsBut
<1> HIDE DEF x
<1>2. StationOK(x)
  BY <1>1 DEF Unsaid
<1>3. Unsaid(x, x)
  BY <1>2 DEF Unsaid, SameUses, SameRest
<1>4. Unsaid(y, x) /\ y.trapped = x.trapped /\ (~Said(w, "report", "g") => y = x)
  BY <1>0, <1>2, <1>3, IgmpReportIsUnsaid DEF HearsOf
<1> HIDE DEF y
<1>5. Unsaid(y, v)
  BY <1>1, <1>4, UnsaidTwice
<1>6. QED
  BY <1>0, <1>1, <1>4, <1>5

\* igmp_report_groups, when a link comes up, makes no member answer later than it would have.
LEMMA ReportGroupsIsUnsaid ==
  ASSUME NEW w, StationOK(w), NEW n \in Links
  PROVE  /\ Unsaid(ReportGroups(w, n), w) /\ ReportGroups(w, n).trapped = w.trapped
         /\ AsReady(ReportGroups(w, n), w)
<1> DEFINE x == DelayingMember(w, n, "all", JoinTmr)
           y == DelayingMember(x, n, "g", JoinTmr)
<1>0. ReportGroups(w, n) = y /\ "all" \in Groups /\ "g" \in Groups /\ JoinTmr \in Nat /\ JoinTmr > 1
  BY IgmpTimes DEF ReportGroups, Groups
<1>1. Delayed(x, w, n, "all", JoinTmr)
  BY <1>0, DelayingMemberIsDelayed
<1> HIDE DEF x
<1>2. StationOK(x)
  BY <1>1 DEF Delayed
<1>3. Delayed(y, x, n, "g", JoinTmr)
  BY <1>0, <1>2, DelayingMemberIsDelayed
<1> HIDE DEF y
<1>4. Unsaid(x, w) /\ x.trapped = w.trapped /\ AsReady(x, w) /\ Unsaid(y, x) /\ y.trapped = x.trapped /\ AsReady(y, x)
  BY <1>0, <1>1, <1>3 DEF Delayed, Unsaid
<1>5. Unsaid(y, w)
  BY <1>4, UnsaidTwice
<1>6. AsReady(y, w)
  BY <1>4 DEF AsReady
<1>7. QED
  BY <1>0, <1>4, <1>5, <1>6

\* igmp_input: after a query every member of the group answers within its time.
LEMMA IgmpQueryIsUnsaid ==
  ASSUME NEW w, StationOK(w), NEW a \in {"any", "g"}, NEW time \in Nat
  PROVE  /\ Unsaid(IgmpQuery(w, "lan", a, time), w)
         /\ AnswerTime(a, time) > 1 =>
              /\ IgmpQuery(w, "lan", a, time).trapped = w.trapped
              /\ Ready(IgmpQuery(w, "lan", a, time), AnswerTime(a, time))
<1> DEFINE v == IgmpQuery(w, "lan", a, time)
           t == AnswerTime(a, time)
<1>1. t \in Nat /\ "lan" \in Links /\ "g" \in Groups
  BY IgmpTimes DEF AnswerTime, Links, Groups
<1>2. CASE ~Member(w, "lan", "all")
  <2>1. v = w
    BY <1>2 DEF IgmpQuery
  <2>2. ~Member(w, "lan", "g")
    BY <1>1, <1>2 DEF StationOK
  <2>3. QED
    BY <2>1, <2>2 DEF Unsaid, SameUses, SameRest, Ready
<1>3. CASE Member(w, "lan", "all")
  <2>1. v = DelayingMember(w, "lan", "g", t)
    BY <1>3 DEF IgmpQuery
  <2>2. Delayed(v, w, "lan", "g", t)
    BY <1>1, <2>1, DelayingMemberIsDelayed
  <2>3. QED
    BY <2>2 DEF Delayed, Unsaid
<1>4. QED
  BY <1>2, <1>3

-----------------------------------------------------------------------------
\* A tick of the timer of a group.
Ticked(v, w, n, a) ==
  /\ StationOK(v) /\ SameUses(v, w) /\ SameRest(v, w) /\ v.trapped = w.trapped
  /\ Said(w, "report", "g") => Said(v, "report", "g")
  /\ IF n = "lan" /\ a = "g"
     THEN w.mem => \A due \in Nat \ {0} : Ready(w, due) => Said(v, "report", "g") \/ Ready(v, due - 1)
     ELSE v.grp["lan"]["g"] = w.grp["lan"]["g"]

\* igmp_tmr of one group: a member that had to answer within some periods has one less, or reports now.
LEMMA TimerOfTicks ==
  ASSUME NEW w, StationOK(w), NEW n \in Links, NEW a \in Groups
  PROVE  Ticked(TimerOf(w, n, a), w, n, a)
<1> DEFINE old == w.grp[n][a]
           e == [old EXCEPT !.timer = @ - 1]
           v == Put(w, n, a, e)
           z == TimerOf(w, n, a)
<1>1. w \in StationStates /\ old \in GroupStates /\ GroupOK(old) /\ old.timer \in Nat
  BY MembersUse DEF StationOK, GroupStates
<1>2. CASE old.timer = 0
  <2>1. z = w
    BY <1>2 DEF TimerOf
  <2>2. n = "lan" /\ a = "g" => \A due \in Nat \ {0} : Ready(w, due) => Ready(w, due - 1)
    BY <1>2 DEF Ready
  <2>3. QED
    BY <2>1, <2>2 DEF Ticked, SameUses, SameRest
<1>3. CASE old.timer # 0
  <2>1. z = IF v.grp[n][a].timer = 0 THEN IgmpTimeout(v, n, a) ELSE v
    BY <1>3 DEF TimerOf, Put
  <2>2. e \in GroupStates /\ e.timer = old.timer - 1 /\ e.st = old.st /\ e.use = old.use
    BY <1>1, <1>3 DEF GroupStates
  <2> HIDE DEF e
  <2>3. /\ v \in StationStates /\ SameRest(v, w) /\ v.grp[n][a] = e /\ SameGroupsBut(v, w, n, a)
        /\ v.out = w.out /\ v.trapped = w.trapped
    BY <1>1, <2>2, PutIsOne
  <2> HIDE DEF v
  <2>4. Said(v, "report", "g") <=> Said(w, "report", "g")
    BY <2>3, SaidAgain
  <2> DEFINE sends == v.grp[n][a].timer = 0 /\ v.grp[n][a].st = "delaying"
  <2>5. /\ z \in StationStates /\ SameRest(z, w) /\ SameGroupsBut(z, w, n, a) /\ z.trapped = w.trapped
        /\ z.grp[n][a].st = e.st /\ z.grp[n][a].timer = e.timer /\ z.grp[n][a].use = e.use
        /\ Said(w, "report", "g") => Said(z, "report", "g")
        /\ sends /\ w.mem /\ n = "lan" /\ a = "g" => Said(z, "report", "g")
    <3>1. CASE sends
      <4>1. z = IgmpSend(v, n, a, "report")
        BY <2>1, <3>1 DEF IgmpTimeout
      <4>2. Sent(z, v, n, a, "report")
        BY <2>3, <4>1, IgmpSendIsSent
      <4>3. QED
        BY <2>3, <2>4, <4>2 DEF Sent, SameRest, SameGroupsBut
    <3>2. CASE ~sends
      <4>1. z = v
        BY <2>1, <3>2 DEF IgmpTimeout
      <4>2. QED
        BY <2>3, <2>4, <3>2, <4>1
    <3>3. QED
      BY <3>1, <3>2
  <2> HIDE DEF z
  <2>6. GroupOK(z.grp[n][a]) /\ z.grp[n][a].use = old.use
    BY <1>1, <1>3, <2>2, <2>5 DEF GroupOK
  <2>7. StationOK(z) /\ SameUses(z, w)
    BY <2>5, <2>6, OneGroupOK
  <2>8. ASSUME n = "lan", a = "g", w.mem, NEW due \in Nat \ {0}, Ready(w, due)
        PROVE  Said(z, "report", "g") \/ Ready(z, due - 1)
    <3>1. CASE old.st = "none"
      BY <2>2, <2>5, <2>8, <3>1 DEF Ready, Member
    <3>2. CASE old.st # "none"
      <4>1. old.st = "delaying" /\ old.timer \in 1 .. due
        BY <2>8, <3>2 DEF Ready, Member
      <4>2. CASE old.timer = 1
        BY <2>2, <2>3, <2>5, <2>8, <4>1, <4>2
      <4>3. CASE old.timer # 1
        <5>1. old.timer - 1 \in 1 .. due - 1
          BY <4>1, <4>3, <2>8
        <5>2. QED
          BY <2>2, <2>5, <2>8, <4>1, <5>1 DEF Ready
      <4>4. QED
        BY <4>2, <4>3
    <3>3. QED
      BY <3>1, <3>2
  <2>9. ~(n = "lan" /\ a = "g") => z.grp["lan"]["g"] = w.grp["lan"]["g"]
    BY <2>5 DEF SameGroupsBut, Links, Groups
  <2>10. QED
    BY <2>5, <2>7, <2>8, <2>9 DEF Ticked, z
<1>4. QED
  BY <1>2, <1>3

\* igmp_tmr of a station: group g of the lan ticks once, whatever the other groups do.
LEMMA IgmpTmrTicks ==
  ASSUME NEW w, StationOK(w)
  PROVE  Ticked(IgmpTmr(w), w, "lan", "g")
<1> DEFINE v1 == TimerOf(w, "lan", "all")
           v2 == TimerOf(v1, "lan", "g")
           v3 == TimerOf(v2, "wan", "all")
           v4 == TimerOf(v3, "wan", "g")
<1>0. IgmpTmr(w) = v4 /\ "lan" \in Links /\ "wan" \in Links /\ "all" \in Groups /\ "g" \in Groups
  BY DEF IgmpTmr, TimersOf, Links, Groups
<1>1. Ticked(v1, w, "lan", "all")
  BY <1>0, TimerOfTicks
<1> HIDE DEF v1
<1>2. Ticked(v2, v1, "lan", "g")
  BY <1>0, <1>1, TimerOfTicks DEF Ticked
<1> HIDE DEF v2
<1>3. Ticked(v3, v2, "wan", "all")
  BY <1>0, <1>2, TimerOfTicks DEF Ticked
<1> HIDE DEF v3
<1>4. Ticked(v4, v3, "wan", "g")
  BY <1>0, <1>3, TimerOfTicks DEF Ticked
<1> HIDE DEF v4
<1>5. /\ StationOK(v4) /\ v4.trapped = w.trapped /\ (Said(w, "report", "g") => Said(v4, "report", "g"))
      /\ Said(v2, "report", "g") => Said(v4, "report", "g")
      /\ v4.grp["lan"]["g"] = v2.grp["lan"]["g"] /\ v1.grp["lan"]["g"] = w.grp["lan"]["g"]
  BY <1>1, <1>2, <1>3, <1>4 DEF Ticked
<1>6. SameUses(v4, w) /\ SameRest(v4, w) /\ v1.mem = w.mem
  BY <1>1, <1>2, <1>3, <1>4 DEF Ticked, SameUses, SameRest
<1>7. ASSUME w.mem, NEW due \in Nat \ {0}, Ready(w, due)
      PROVE  Said(v4, "report", "g") \/ Ready(v4, due - 1)
  <2>1. Ready(v1, due)
    BY <1>5, <1>7 DEF Ready, Member
  <2>2. Said(v2, "report", "g") \/ Ready(v2, due - 1)
    BY <1>2, <1>6, <1>7, <2>1 DEF Ticked
  <2>3. QED
    BY <1>5, <2>2 DEF Ready, Member
<1>8. QED
  BY <1>0, <1>5, <1>6, <1>7 DEF Ticked

-----------------------------------------------------------------------------
\* No new member, and those there were answer within the same time.
Silent(v, w) == (Member(v, "lan", "g") => Member(w, "lan", "g")) /\ AsReady(v, w)
\* A call of the application: a station that becomes a member says so.
Called(v, w) ==
  /\ StationOK(v) /\ v.mem = w.mem /\ v.trapped = w.trapped
  /\ \A n \in Links : Member(v, n, "all") <=> Member(w, n, "all")
  /\ Said(w, "report", "g") => Said(v, "report", "g")
  /\ Said(v, "report", "g") \/ ~w.mem \/ Silent(v, w)

\* Two calls for two links are one call.
LEMMA CalledTwice ==
  ASSUME NEW u, NEW v, NEW w, Called(u, v), Called(v, w)
  PROVE  Called(u, w)
<1>1. CASE Said(u, "report", "g") \/ ~w.mem
  BY <1>1 DEF Called
<1>2. CASE ~(Said(u, "report", "g") \/ ~w.mem)
  <2>1. Silent(u, v) /\ Silent(v, w)
    BY <1>2 DEF Called
  <2>2. Silent(u, w)
    BY <2>1 DEF Silent, AsReady
  <2>3. QED
    BY <2>2 DEF Called
<1>3. QED
  BY <1>1, <1>2

\* A call that concerns no link changes nothing.
LEMMA NotCalled ==
  ASSUME NEW w, StationOK(w)
  PROVE  Called(w, w)
  BY DEF Called, Silent, AsReady

\* A filter is the set of members if they agree at every link and group.
LEMMA FilterIs ==
  ASSUME NEW w, NEW F \in SUBSET (Links \X Groups)
  PROVE  F = Present(w) <=> \A n \in Links, a \in Groups : <<n, a>> \in F <=> Member(w, n, a)
<1>1. \A n \in Links, a \in Groups : <<n, a>> \in Present(w) <=> Member(w, n, a)
  BY DEF Present
<1>2. ASSUME \A n \in Links, a \in Groups : <<n, a>> \in F <=> Member(w, n, a)
      PROVE  F = Present(w)
  <2>1. ASSUME NEW x \in Links \X Groups
        PROVE  x \in F <=> x \in Present(w)
    <3>1. PICK n \in Links, a \in Groups : x = <<n, a>>
      OBVIOUS
    <3>2. QED
      BY <1>1, <1>2, <3>1
  <2>2. Present(w) \in SUBSET (Links \X Groups)
    BY DEF Present
  <2>3. QED
    BY <2>1, <2>2
<1>3. QED
  BY <1>1, <1>2

\* A station whose use of group g at one link changed is sound if that group and the filter of it are.
LEMMA GroupChangedOK ==
  ASSUME NEW v \in StationStates, NEW w, StationOK(w), NEW n \in Links, Member(w, n, "all"),
         SameGroupsBut(v, w, n, "g"), GroupOK(v.grp[n]["g"]),
         \A m \in Links, b \in Groups :
            <<m, b>> \in v.filter <=> IF m = n /\ b = "g" THEN Member(v, n, "g") ELSE <<m, b>> \in w.filter
  PROVE  /\ StationOK(v) /\ \A m \in Links : Member(v, m, "all") <=> Member(w, m, "all")
         /\ n # "lan" => Silent(v, w)
<1>1. ASSUME NEW m \in Links, NEW b \in Groups, ~(m = n /\ b = "g") PROVE v.grp[m][b] = w.grp[m][b]
  BY <1>1 DEF SameGroupsBut
<1>2. ASSUME NEW m \in Links, NEW b \in Groups PROVE GroupOK(v.grp[m][b])
  BY <1>1 DEF StationOK
<1>3. ASSUME NEW m \in Links, NEW b \in Groups, ~(m = n /\ b = "g") PROVE Member(v, m, b) <=> Member(w, m, b)
  BY <1>1, <1>3 DEF Member
<1>4. v.filter \in SUBSET (Links \X Groups) /\ w.filter \in SUBSET (Links \X Groups) /\ w.filter = Present(w)
  BY DEF StationStates, StationOK
<1>5. \A m \in Links, b \in Groups : <<m, b>> \in w.filter <=> Member(w, m, b)
  BY <1>4, FilterIs
<1>6. \A m \in Links, b \in Groups : <<m, b>> \in v.filter <=> Member(v, m, b)
  BY <1>3, <1>5
<1>7. v.filter = Present(v)
  BY <1>4, <1>6, FilterIs
<1>8. \A m \in Links : Member(v, m, "all") <=> Member(w, m, "all")
  BY <1>3 DEF Groups
<1>9. \A m \in Links : Member(v, m, "g") => Member(v, m, "all")
  BY <1>3, <1>8 DEF StationOK, Groups
<1>10. ASSUME n # "lan" PROVE Silent(v, w)
  <2>1. v.grp["lan"]["g"] = w.grp["lan"]["g"]
    BY <1>1, <1>10 DEF Links, Groups
  <2>2. QED
    BY <2>1 DEF Silent, AsReady, Ready, Member
<1>11. QED
  BY <1>2, <1>7, <1>8, <1>9, <1>10 DEF StationOK

-----------------------------------------------------------------------------
\* A group used more or less often, but still, is neither reported nor silenced.
LEMMA OtherUse ==
  ASSUME NEW w, StationOK(w), NEW n \in Links, Member(w, n, "g"), NEW k \in Nat \ {0}, NEW v,
         v = Put(w, n, "g", [w.grp[n]["g"] EXCEPT !.use = k])
  PROVE  Called(v, w) /\ SameGroupsBut(v, w, n, "g") /\ v.grp[n]["g"].use = k /\ SameRest(v, w)
<1> DEFINE e == [w.grp[n]["g"] EXCEPT !.use = k]
<1>0. "g" \in Groups
  BY DEF Groups
<1>1. /\ w.grp[n]["g"] \in GroupStates /\ GroupOK(w.grp[n]["g"]) /\ w.grp[n]["g"].st # "none"
      /\ w \in StationStates /\ Member(w, n, "all")
  BY <1>0, MembersUse DEF Member, StationOK
<1>3. /\ e \in GroupStates /\ e.use = k /\ e.st = w.grp[n]["g"].st
      /\ e.timer = w.grp[n]["g"].timer
  BY <1>1 DEF GroupStates
<1>2. v = Put(w, n, "g", e)
  OBVIOUS
<1> HIDE DEF e
<1>4. /\ v \in StationStates /\ SameRest(v, w) /\ v.grp[n]["g"] = e /\ SameGroupsBut(v, w, n, "g")
      /\ v.out = w.out /\ v.trapped = w.trapped
  BY <1>0, <1>1, <1>2, <1>3, PutIsOne
<1>5. GroupOK(v.grp[n]["g"]) /\ Member(v, n, "g")
  BY <1>1, <1>3, <1>4 DEF GroupOK, Member
<1>6. w.filter \in SUBSET (Links \X Groups) /\ w.filter = Present(w) /\ v.filter = w.filter
  BY <1>1, <1>4 DEF StationStates, StationOK, SameRest
<1>7. \A m \in Links, b \in Groups : <<m, b>> \in w.filter <=> Member(w, m, b)
  BY <1>6, FilterIs
<1>8. \A m \in Links, b \in Groups :
         <<m, b>> \in v.filter <=> IF m = n /\ b = "g" THEN Member(v, n, "g") ELSE <<m, b>> \in w.filter
  BY <1>5, <1>6, <1>7
<1>9. StationOK(v) /\ \A m \in Links : Member(v, m, "all") <=> Member(w, m, "all")
  BY <1>1, <1>4, <1>5, <1>8, GroupChangedOK
<1>10. Said(v, "report", "g") <=> Said(w, "report", "g")
  BY <1>4, SaidAgain
<1>11. Silent(v, w)
  <2>1. CASE n = "lan"
    BY <1>1, <1>3, <1>4, <1>5, <2>1 DEF Silent, AsReady, Ready, Member
  <2>2. CASE n # "lan"
    BY <1>1, <1>4, <1>5, <1>8, <2>2, GroupChangedOK
  <2>3. QED
    BY <2>1, <2>2
<1>12. QED
  BY <1>3, <1>4, <1>9, <1>10, <1>11 DEF Called, SameRest

\* The station joined the group at a link.
Joined(v, w, n) ==
  /\ Called(v, w) /\ SameGroupsBut(v, w, n, "g") /\ v.grp[n]["g"].use = w.grp[n]["g"].use + 1
  /\ v.err = "ok" /\ v.waived = w.waived

\* igmp_joingroup of a group the link is in: one more use.
LEMMA JoinOnAgain ==
  ASSUME NEW w, StationOK(w), w.err = "ok", NEW n \in Links, Member(w, n, "g")
  PROVE  Joined(JoinOn(w, n), w, n)
<1>1. /\ w.grp[n]["g"].use \in Nat /\ w.grp[n]["g"].st # "none" /\ w.grp[n]["g"].st # "non"
  BY MembersUse DEF Member, GroupOK, GroupStates, Groups
<1>2. JoinOn(w, n) = Put(w, n, "g", [w.grp[n]["g"] EXCEPT !.use = w.grp[n]["g"].use + 1])
  BY <1>1 DEF JoinOn, LookupGroup, Put
<1>3. w.grp[n]["g"].use + 1 \in Nat \ {0}
  BY <1>1
<1> DEFINE v == JoinOn(w, n)
<1>4. Called(v, w) /\ SameGroupsBut(v, w, n, "g") /\ v.grp[n]["g"].use = w.grp[n]["g"].use + 1 /\ SameRest(v, w)
  BY <1>2, <1>3, OtherUse
<1>5. QED
  BY <1>4 DEF Joined, SameRest

\* igmp_joingroup of a group the link is not in: the filter lets it through, a report is sent if there
\* is a pbuf, and the use is 1.
LEMMA JoinOnFirst ==
  ASSUME NEW w, StationOK(w), w.err = "ok", NEW n \in Links, ~Member(w, n, "g"), Member(w, n, "all"),
         Cardinality(Present(w)) # IgmpPool
  PROVE  Joined(JoinOn(w, n), w, n)
<1> DEFINE e0 == [NoGroup EXCEPT !.st = "non"]
           v0 == Put(w, n, "g", e0)
           F == w.filter \cup {<<n, "g">>}
           v1 == [v0 EXCEPT !.filter = F]
           v2 == IgmpSend(v1, n, "g", "report")
           v3 == StartTimer(v2, n, "g", JoinTmr)
           e4 == [v3.grp[n]["g"] EXCEPT !.st = "delaying"]
           v4 == Put(v3, n, "g", e4)
           e5 == [v4.grp[n]["g"] EXCEPT !.use = @ + 1]
           v5 == Put(v4, n, "g", e5)
<1>0. "g" \in Groups /\ JoinTmr \in Nat /\ JoinTmr > 1
  BY IgmpTimes DEF Groups
<1>1. /\ w.grp[n]["g"] \in GroupStates /\ w.grp[n]["g"].use = 0 /\ w \in StationStates
      /\ w.filter \in SUBSET (Links \X Groups)
  BY <1>0, MembersUse DEF Member, StationOK, StationStates
<1>2. LookupGroup(w, n, "g") = v0
  BY DEF LookupGroup, Put
<1>3. e0 \in GroupStates /\ e0.st = "non" /\ e0.use = 0
  BY DEF GroupStates, NoGroup
<1> HIDE DEF e0
<1>4. /\ v0 \in StationStates /\ SameRest(v0, w) /\ v0.grp[n]["g"] = e0 /\ SameGroupsBut(v0, w, n, "g")
      /\ v0.out = w.out /\ v0.trapped = w.trapped
  BY <1>0, <1>1, <1>3, PutIsOne
<1>5. v0.err = "ok" /\ v0.grp[n]["g"].st = "non"
  BY <1>3, <1>4 DEF SameRest
<1>6. JoinOn(w, n) = v5
  BY <1>2, <1>4, <1>5 DEF JoinOn, Put, SameRest
<1> HIDE DEF v0
<1> F \in SUBSET (Links \X Groups)
  BY <1>0, <1>1
<1> HIDE DEF F
<1>7. /\ v1 \in StationStates /\ v1.grp = v0.grp /\ v1.filter = F /\ v1.mem = w.mem
      /\ v1.out = w.out /\ v1.trapped = w.trapped /\ v1.err = w.err /\ v1.waived = w.waived
  BY <1>0, <1>4 DEF SameRest, StationStates
<1> HIDE DEF v1
<1>8. Sent(v2, v1, n, "g", "report")
  BY <1>0, <1>7, IgmpSendIsSent
<1>9. Said(w, "report", "g") <=> Said(v1, "report", "g")
  BY <1>7, SaidAgain
<1> HIDE DEF v2
<1>10. Timed(v3, v2, n, "g", JoinTmr)
  BY <1>0, <1>8, StartTimerIsTimed DEF Sent
<1> HIDE DEF v3
<1>11. v3 \in StationStates /\ v3.grp[n]["g"] \in GroupStates /\ v3.grp[n]["g"].use = 0 /\ v3.out = v2.out
  BY <1>0, <1>3, <1>4, <1>7, <1>8, <1>10 DEF Sent, Timed, StationStates
<1>12. e4 \in GroupStates /\ e4.use = 0 /\ e4.st = "delaying"
  BY <1>11 DEF GroupStates
<1> HIDE DEF e4
<1>13. /\ v4 \in StationStates /\ SameRest(v4, v3) /\ v4.grp[n]["g"] = e4 /\ SameGroupsBut(v4, v3, n, "g")
       /\ v4.out = v3.out /\ v4.trapped = v3.trapped
  BY <1>0, <1>11, <1>12, PutIsOne
<1> HIDE DEF v4
<1>14. e5 \in GroupStates /\ e5.use = 1 /\ e5.st = "delaying"
  BY <1>12, <1>13 DEF GroupStates
<1> HIDE DEF e5
<1>15. /\ v5 \in StationStates /\ SameRest(v5, v4) /\ v5.grp[n]["g"] = e5 /\ SameGroupsBut(v5, v4, n, "g")
       /\ v5.out = v4.out /\ v5.trapped = v4.trapped
  BY <1>0, <1>13, <1>14, PutIsOne
<1> HIDE DEF v5
<1>16. SameGroupsBut(v5, w, n, "g")
  BY <1>4, <1>7, <1>8, <1>10, <1>13, <1>15 DEF SameGroupsBut, Sent, Timed
<1>17. /\ v5.filter = F /\ v5.mem = w.mem /\ v5.err = "ok" /\ v5.waived = w.waived
       /\ v5.trapped = w.trapped /\ v5.out = v2.out
  BY <1>0, <1>7, <1>8, <1>10, <1>13, <1>15 DEF SameRest, Sent, Timed
<1>18. GroupOK(v5.grp[n]["g"]) /\ Member(v5, n, "g")
  BY <1>14, <1>15 DEF GroupOK, Member
<1>19. \A m \in Links, b \in Groups :
          <<m, b>> \in v5.filter <=> IF m = n /\ b = "g" THEN Member(v5, n, "g") ELSE <<m, b>> \in w.filter
  BY <1>17, <1>18 DEF F
<1>20. /\ StationOK(v5) /\ \A m \in Links : Member(v5, m, "all") <=> Member(w, m, "all")
       /\ n # "lan" => Silent(v5, w)
  BY <1>15, <1>16, <1>18, <1>19, GroupChangedOK
<1>21. Said(v5, "report", "g") <=> Said(v2, "report", "g")
  BY <1>17, SaidAgain
<1>22. Said(v2, "report", "g") <=> Said(v1, "report", "g") \/ (v1.mem /\ n = "lan")
  BY <1>8 DEF Sent
<1>23. Called(v5, w)
  BY <1>7, <1>9, <1>17, <1>20, <1>21, <1>22 DEF Called
<1>24. QED
  BY <1>1, <1>6, <1>14, <1>15, <1>16, <1>17, <1>23 DEF Joined

\* igmp_joingroup at one link, when it succeeds.
LEMMA JoinOnJoins ==
  ASSUME NEW w, StationOK(w), w.err = "ok", NEW n \in Links, Member(w, n, "all"), JoinOn(w, n).err = "ok"
  PROVE  Joined(JoinOn(w, n), w, n)
<1>1. CASE ~Member(w, n, "g") /\ Cardinality(Present(w)) = IgmpPool
  <2>1. LookupGroup(w, n, "g") = [w EXCEPT !.err = "mem"]
    BY <1>1 DEF LookupGroup
  <2>2. LookupGroup(w, n, "g").err = "mem"
    BY <2>1 DEF StationOK, StationStates
  <2>3. JoinOn(w, n) = LookupGroup(w, n, "g")
    BY <2>2 DEF JoinOn
  <2>4. QED
    BY <2>2, <2>3
<1>2. QED
  BY <1>1, JoinOnAgain, JoinOnFirst

\* The links of S were joined for x, as far as there was room.
Partly(v, w, x, S) ==
  /\ Called(v, w)
  /\ IF v.err = "ok"
     THEN /\ v.waived = w.waived
          /\ \A m \in Links : v.grp[m]["g"].use = w.grp[m]["g"].use + (IF m \in At(w, x) \cap S THEN 1 ELSE 0)
     ELSE /\ w.waived \subseteq v.waived
          /\ \A m \in Links \ v.waived : v.grp[m]["g"].use = w.grp[m]["g"].use

\* One more link in the loop of igmp_joingroup: joined, or the reason that the call fails.
LEMMA JoinNextJoins ==
  ASSUME NEW v, NEW w, NEW x, NEW S, Partly(v, w, x, S), StationOK(w), NEW n \in Links, n \notin S
  PROVE  Partly(JoinNext(w, v, x, n), w, x, S \cup {n})
<1> DEFINE u == JoinNext(w, v, x, n)
<1>0. StationOK(v) /\ v \in StationStates /\ "g" \in Groups
  BY DEF Partly, Called, StationOK, Groups
<1>1. CASE n \notin At(w, x) \/ v.err # "ok"
  <2>1. u = v
    BY <1>1 DEF JoinNext
  <2>2. v.err = "ok" => At(w, x) \cap (S \cup {n}) = At(w, x) \cap S
    BY <1>1
  <2>3. QED
    BY <2>1, <2>2 DEF Partly
<1>2. CASE n \in At(w, x) /\ v.err = "ok" /\ JoinOn(v, n).err = "ok"
  <2>1. Member(v, n, "all")
    BY <1>2 DEF Partly, Called, At
  <2>2. Joined(JoinOn(v, n), v, n) /\ u = JoinOn(v, n)
    BY <1>0, <1>2, <2>1, JoinOnJoins DEF JoinNext
  <2>3. Called(u, w)
    BY <2>2, CalledTwice DEF Joined, Partly
  <2>4. \A m \in Links : u.grp[m]["g"].use = w.grp[m]["g"].use + (IF m \in At(w, x) \cap (S \cup {n}) THEN 1 ELSE 0)
    <3> SUFFICES ASSUME NEW m \in Links
                 PROVE  u.grp[m]["g"].use = w.grp[m]["g"].use + (IF m \in At(w, x) \cap (S \cup {n}) THEN 1 ELSE 0)
      OBVIOUS
    <3>1. w.grp[m]["g"].use \in Nat
      BY <1>0, MembersUse DEF GroupStates
    <3>2. v.grp[m]["g"].use = w.grp[m]["g"].use + (IF m \in At(w, x) \cap S THEN 1 ELSE 0)
      BY <1>2 DEF Partly
    <3>3. CASE m = n
      BY <1>2, <2>2, <3>1, <3>2, <3>3 DEF Joined
    <3>4. CASE m # n
      <4>1. u.grp[m]["g"] = v.grp[m]["g"]
        BY <1>0, <2>2, <3>4 DEF Joined, SameGroupsBut
      <4>2. QED
        BY <3>2, <3>4, <4>1
    <3>5. QED
      BY <3>3, <3>4
  <2>5. QED
    BY <1>2, <2>2, <2>3, <2>4 DEF Partly, Joined
<1>3. CASE n \in At(w, x) /\ v.err = "ok" /\ JoinOn(v, n).err # "ok"
  <2> DEFINE W == v.waived \cup {m \in Links : v.grp[m]["g"].use # w.grp[m]["g"].use}
             z == [v EXCEPT !.err = "mem", !.waived = W]
  <2>1. u = z
    BY <1>3 DEF JoinNext
  <2>2. W \in SUBSET Links /\ v.waived \subseteq W /\ \A m \in Links \ W : v.grp[m]["g"].use = w.grp[m]["g"].use
    BY <1>0 DEF StationStates
  <2> HIDE DEF W
  <2>3. /\ z \in StationStates /\ z.grp = v.grp /\ z.filter = v.filter /\ z.mem = v.mem /\ z.trapped = v.trapped
        /\ z.out = v.out /\ z.err = "mem" /\ z.waived = W
    BY <1>0, <2>2 DEF StationStates
  <2> HIDE DEF z
  <2>4. \A m, b : Member(z, m, b) <=> Member(v, m, b)
    BY <2>3 DEF Member
  <2>5. Present(z) = Present(v)
    BY <2>4, SamePresent
  <2>6. StationOK(z)
    BY <1>0, <2>3, <2>4, <2>5 DEF StationOK
  <2>7. Said(z, "report", "g") <=> Said(v, "report", "g")
    BY <2>3, SaidAgain
  <2>8. Called(z, v)
    BY <2>3, <2>4, <2>6, <2>7 DEF Called, Silent, AsReady, Ready
  <2>9. Called(z, w)
    BY <2>8, CalledTwice DEF Partly
  <2>10. w.waived \subseteq W
    BY <1>3, <2>2 DEF Partly
  <2>11. QED
    BY <2>1, <2>2, <2>3, <2>9, <2>10 DEF Partly
<1>4. QED
  BY <1>1, <1>2, <1>3

\* igmp_joingroup of all links it is called for.
LEMMA JoinGroupJoins ==
  ASSUME NEW w, StationOK(w), w.err = "ok", NEW x
  PROVE  Partly(JoinGroup(w, x), w, x, Links)
<1> DEFINE v == JoinNext(w, w, x, "lan")
<1>0. \A m \in Links : w.grp[m]["g"].use \in Nat
  BY MembersUse DEF GroupStates, Groups
<1>1. Partly(w, w, x, {})
  BY <1>0, NotCalled DEF Partly
<1>2. Partly(v, w, x, {} \cup {"lan"})
  BY <1>1, JoinNextJoins DEF Links
<1> HIDE DEF v
<1>3. {} \cup {"lan"} = {"lan"} /\ "wan" \notin {"lan"} /\ "wan" \in Links /\ {"lan"} \cup {"wan"} = Links
  BY DEF Links
<1>4. Partly(JoinNext(w, v, x, "wan"), w, x, Links)
  BY <1>2, <1>3, JoinNextJoins
<1>5. QED
  BY <1>4 DEF JoinGroup, v

-----------------------------------------------------------------------------
\* The station gave up one use of the group at a link.
Left(v, w, n) ==
  /\ Called(v, w) /\ SameGroupsBut(v, w, n, "g") /\ v.waived = w.waived
  /\ v.grp[n]["g"].use = IF w.grp[n]["g"].use = 0 THEN 0 ELSE w.grp[n]["g"].use - 1

\* igmp_leavegroup of a group used more than once: one use less.
LEMMA LeaveOnKeeps ==
  ASSUME NEW w, StationOK(w), NEW n \in Links, Member(w, n, "g"), w.grp[n]["g"].use > 1
  PROVE  Left(LeaveOn(w, n), w, n)
<1>1. w.grp[n]["g"].use \in Nat
  BY MembersUse DEF GroupStates, Groups
<1>2. LeaveOn(w, n) = Put(w, n, "g", [w.grp[n]["g"] EXCEPT !.use = w.grp[n]["g"].use - 1])
  BY <1>1 DEF LeaveOn, Put
<1>3. w.grp[n]["g"].use - 1 \in Nat \ {0}
  BY <1>1
<1> DEFINE v == LeaveOn(w, n)
<1>4. Called(v, w) /\ SameGroupsBut(v, w, n, "g") /\ v.grp[n]["g"].use = w.grp[n]["g"].use - 1 /\ SameRest(v, w)
  BY <1>2, <1>3, OtherUse
<1>5. QED
  BY <1>1, <1>4 DEF Left, SameRest

\* igmp_leavegroup of a group used once: no member any more, and the filter lets nothing through.
LEMMA LeaveOnEnds ==
  ASSUME NEW w, StationOK(w), NEW n \in Links, Member(w, n, "all"), Member(w, n, "g"), w.grp[n]["g"].use <= 1
  PROVE  Left(LeaveOn(w, n), w, n)
<1> DEFINE u == IF w.grp[n]["g"].last THEN IgmpSend(w, n, "g", "leave") ELSE w
           p == Put(u, n, "g", NoGroup)
           F == u.filter \ {<<n, "g">>}
           v == [p EXCEPT !.filter = F]
<1>0. "g" \in Groups /\ NoGroup \in GroupStates
  BY DEF Groups, NoGroup, GroupStates
<1>1. w \in StationStates /\ w.grp[n]["g"].use = 1
  <2>1. w.grp[n]["g"].use \in Nat /\ w.grp[n]["g"].use # 0
    BY <1>0, MembersUse DEF GroupStates
  <2>2. QED
    BY <2>1 DEF StationOK
<1>2. LeaveOn(w, n) = v
  BY DEF LeaveOn, Put
<1>3. /\ u \in StationStates /\ SameGroupsBut(u, w, n, "g") /\ SameRest(u, w) /\ u.trapped = w.trapped
      /\ Said(w, "report", "g") => Said(u, "report", "g")
  <2>1. CASE w.grp[n]["g"].last
    <3>1. Sent(u, w, n, "g", "leave")
      BY <1>0, <1>1, <2>1, IgmpSendIsSent
    <3>2. QED
      BY <3>1 DEF Sent
  <2>2. CASE ~w.grp[n]["g"].last
    BY <1>1, <2>2 DEF SameGroupsBut, SameRest
  <2>3. QED
    BY <2>1, <2>2
<1> HIDE DEF u
<1>4. /\ p \in StationStates /\ SameRest(p, u) /\ p.grp[n]["g"] = NoGroup /\ SameGroupsBut(p, u, n, "g")
      /\ p.out = u.out /\ p.trapped = u.trapped
  BY <1>0, <1>3, PutIsOne
<1> HIDE DEF p
<1>5. F \in SUBSET (Links \X Groups)
  BY <1>3 DEF StationStates
<1> HIDE DEF F
<1>6. /\ v \in StationStates /\ v.grp = p.grp /\ v.filter = F /\ v.mem = w.mem /\ v.trapped = w.trapped
      /\ v.out = u.out /\ v.waived = w.waived
  BY <1>3, <1>4, <1>5 DEF SameRest, StationStates
<1> HIDE DEF v
<1>7. SameGroupsBut(v, w, n, "g") /\ v.grp[n]["g"] = NoGroup
  BY <1>3, <1>4, <1>6 DEF SameGroupsBut
<1>8. GroupOK(v.grp[n]["g"]) /\ ~Member(v, n, "g") /\ v.grp[n]["g"].use = 0
  BY <1>7 DEF GroupOK, NoGroup, Member
<1>9. \A m \in Links, b \in Groups :
         <<m, b>> \in v.filter <=> IF m = n /\ b = "g" THEN Member(v, n, "g") ELSE <<m, b>> \in w.filter
  BY <1>3, <1>6, <1>8 DEF F, SameRest
<1>10. /\ StationOK(v) /\ \A m \in Links : Member(v, m, "all") <=> Member(w, m, "all")
       /\ n # "lan" => Silent(v, w)
  BY <1>6, <1>7, <1>8, <1>9, GroupChangedOK
<1>11. Silent(v, w)
  BY <1>8, <1>10 DEF Silent, AsReady, Ready
<1>12. Said(v, "report", "g") <=> Said(u, "report", "g")
  BY <1>6, SaidAgain
<1>13. Called(v, w)
  BY <1>3, <1>6, <1>10, <1>11, <1>12 DEF Called
<1>14. QED
  BY <1>1, <1>2, <1>6, <1>7, <1>8, <1>13 DEF Left

\* igmp_leavegroup at one link.
LEMMA LeaveOnLeaves ==
  ASSUME NEW w, StationOK(w), NEW n \in Links, Member(w, n, "all")
  PROVE  Left(LeaveOn(w, n), w, n)
<1>1. w.grp[n]["g"].use \in Nat /\ (Member(w, n, "g") <=> w.grp[n]["g"].use # 0)
  BY MembersUse DEF GroupStates, Groups
<1>2. CASE ~Member(w, n, "g")
  <2>1. LeaveOn(w, n) = w
    BY <1>2 DEF LeaveOn
  <2>2. QED
    BY <1>1, <1>2, <2>1, NotCalled DEF Left, SameGroupsBut
<1>3. CASE Member(w, n, "g")
  BY <1>1, <1>3, LeaveOnKeeps, LeaveOnEnds
<1>4. QED
  BY <1>2, <1>3

\* The links of S were left for x.
Fewer(v, w, x, S) ==
  /\ Called(v, w) /\ v.waived = w.waived
  /\ \A m \in Links :
       v.grp[m]["g"].use = IF m \in At(w, x) \cap S /\ w.grp[m]["g"].use # 0 THEN w.grp[m]["g"].use - 1 ELSE w.grp[m]["g"].use

\* One more link in the loop of igmp_leavegroup.
LEMMA LeaveNextLeaves ==
  ASSUME NEW v, NEW w, NEW x, NEW S, Fewer(v, w, x, S), StationOK(w), NEW n \in Links, n \notin S
  PROVE  Fewer(LeaveNext(w, v, x, n), w, x, S \cup {n})
<1> DEFINE u == LeaveNext(w, v, x, n)
<1>0. StationOK(v) /\ "g" \in Groups
  BY DEF Fewer, Called, Groups
<1>1. CASE n \notin At(w, x)
  <2>1. u = v
    BY <1>1 DEF LeaveNext
  <2>2. At(w, x) \cap (S \cup {n}) = At(w, x) \cap S
    BY <1>1
  <2>3. QED
    BY <2>1, <2>2 DEF Fewer
<1>2. CASE n \in At(w, x)
  <2>1. Member(v, n, "all")
    BY <1>2 DEF Fewer, Called, At
  <2>2. Left(u, v, n)
    BY <1>0, <1>2, <2>1, LeaveOnLeaves DEF LeaveNext
  <2>3. Called(u, w)
    BY <2>2, CalledTwice DEF Left, Fewer
  <2>4. ASSUME NEW m \in Links
        PROVE  u.grp[m]["g"].use = IF m \in At(w, x) \cap (S \cup {n}) /\ w.grp[m]["g"].use # 0
                                   THEN w.grp[m]["g"].use - 1 ELSE w.grp[m]["g"].use
    <3>1. v.grp[m]["g"].use = IF m \in At(w, x) \cap S /\ w.grp[m]["g"].use # 0
                              THEN w.grp[m]["g"].use - 1 ELSE w.grp[m]["g"].use
      BY DEF Fewer
    <3>2. CASE m = n
      BY <1>2, <2>2, <3>1, <3>2 DEF Left
    <3>3. CASE m # n
      <4>1. u.grp[m]["g"] = v.grp[m]["g"]
        BY <1>0, <2>2, <3>3 DEF Left, SameGroupsBut
      <4>2. QED
        BY <3>1, <3>3, <4>1
    <3>4. QED
      BY <3>2, <3>3
  <2>5. QED
    BY <2>2, <2>3, <2>4 DEF Fewer, Left
<1>3. QED
  BY <1>1, <1>2

\* igmp_leavegroup of all links it is called for.
LEMMA LeaveGroupLeaves ==
  ASSUME NEW w, StationOK(w), NEW x
  PROVE  Fewer(LeaveGroup(w, x), w, x, Links)
<1> DEFINE v == LeaveNext(w, w, x, "lan")
<1>1. Fewer(w, w, x, {})
  BY NotCalled DEF Fewer
<1>2. Fewer(v, w, x, {} \cup {"lan"})
  BY <1>1, LeaveNextLeaves DEF Links
<1> HIDE DEF v
<1>3. {} \cup {"lan"} = {"lan"} /\ "wan" \notin {"lan"} /\ "wan" \in Links /\ {"lan"} \cup {"wan"} = Links
  BY DEF Links
<1>4. Fewer(LeaveNext(w, v, x, "wan"), w, x, Links)
  BY <1>2, <1>3, LeaveNextLeaves
<1>5. QED
  BY <1>4 DEF LeaveGroup, v

-----------------------------------------------------------------------------
\* igmp_stop frees the groups of that link, their filter with them, and leaves the other links alone.
LEMMA IgmpStopStops ==
  ASSUME NEW w, StationOK(w), NEW n \in Links
  PROVE  LET v == IgmpStop(w, n) IN
         /\ StationOK(v) /\ v.mem = w.mem /\ v.trapped = w.trapped /\ v.out = w.out /\ v.err = w.err /\ v.waived = w.waived
         /\ \A a \in Groups : v.grp[n][a] = NoGroup
         /\ \A m \in Links \ {n} : v.grp[m] = w.grp[m]
<1> DEFINE none == [a \in Groups |-> NoGroup]
           h == [w.grp EXCEPT ![n] = none]
           F == {x \in w.filter : x[1] # n}
           v == [w EXCEPT !.grp = h, !.filter = F]
<1>1. /\ w \in StationStates /\ w.grp \in [Links -> [Groups -> GroupStates]] /\ w.filter \in SUBSET (Links \X Groups)
      /\ w.filter = Present(w)
  BY DEF StationOK, StationStates
<1>2. none \in [Groups -> GroupStates] /\ \A a \in Groups : none[a] = NoGroup
  BY DEF NoGroup, GroupStates
<1>3. IgmpStop(w, n) = v
  BY DEF IgmpStop
<1> HIDE DEF none
<1>4. h \in [Links -> [Groups -> GroupStates]] /\ h[n] = none /\ \A m \in Links \ {n} : h[m] = w.grp[m]
  BY <1>1, <1>2
<1>5. /\ F \in SUBSET (Links \X Groups)
      /\ \A m \in Links, b \in Groups : <<m, b>> \in F <=> m # n /\ <<m, b>> \in w.filter
  BY <1>1
<1> HIDE DEF h, F
<1>6. /\ v \in StationStates /\ v.grp = h /\ v.filter = F /\ v.mem = w.mem /\ v.trapped = w.trapped
      /\ v.out = w.out /\ v.err = w.err /\ v.waived = w.waived
  BY <1>1, <1>4, <1>5 DEF StationStates
<1> HIDE DEF v
<1>7. \A a \in Groups : v.grp[n][a] = NoGroup
  BY <1>2, <1>4, <1>6
<1>8. \A m \in Links \ {n} : v.grp[m] = w.grp[m]
  BY <1>4, <1>6
<1>9. \A m \in Links, b \in Groups : GroupOK(v.grp[m][b])
  <2> TAKE m \in Links, b \in Groups
  <2>1. GroupOK(NoGroup)
    BY DEF GroupOK, NoGroup
  <2>2. QED
    BY <1>7, <1>8, <2>1 DEF StationOK
<1>10. \A m \in Links, b \in Groups : Member(v, m, b) <=> m # n /\ Member(w, m, b)
  BY <1>7, <1>8 DEF Member, NoGroup
<1>11. \A m \in Links, b \in Groups : <<m, b>> \in w.filter <=> Member(w, m, b)
  BY <1>1, FilterIs
<1>12. \A m \in Links, b \in Groups : <<m, b>> \in v.filter <=> Member(v, m, b)
  BY <1>5, <1>6, <1>10, <1>11
<1>13. v.filter = Present(v)
  BY <1>5, <1>6, <1>12, FilterIs
<1>14. \A m \in Links : Member(v, m, "g") => Member(v, m, "all")
  BY <1>10 DEF StationOK, Groups
<1>15. StationOK(v)
  BY <1>6, <1>9, <1>13, <1>14 DEF StationOK
<1>16. QED
  BY <1>3, <1>6, <1>7, <1>8, <1>15

\* The state igmp_start gives the group all systems are in.
LEMMA IdleMemberIsIdle ==
  ASSUME NEW e \in GroupStates
  PROVE  LET f == IdleMember(e) IN
         f \in GroupStates /\ f.st = "idle" /\ f.use = e.use + 1 /\ f.timer = e.timer
<1> DEFINE f == [e EXCEPT !.st = "idle"]
<1>1. f \in GroupStates /\ f.use = e.use /\ f.st = "idle" /\ f.timer = e.timer
  BY DEF GroupStates
<1>2. IdleMember(e) = [f EXCEPT !.use = f.use + 1]
  BY <1>1 DEF IdleMember
<1> HIDE DEF f
<1>3. QED
  BY <1>1, <1>2 DEF GroupStates

\* igmp_start of a link without groups makes it a member of all systems, if the pool has a group left.
LEMMA IgmpStartStarts ==
  ASSUME NEW w, StationOK(w), w.err = "ok", NEW n \in Links, ~Member(w, n, "all")
  PROVE  LET v == IgmpStart(w, n) IN
         /\ StationOK(v) /\ v.mem = w.mem /\ v.trapped = w.trapped /\ v.out = w.out /\ v.waived = w.waived
         /\ SameGroupsBut(v, w, n, "all")
<1>0. "all" \in Groups /\ w \in StationStates /\ w.err \in {"ok", "mem"}
  BY DEF Groups, StationOK, StationStates
<1>1. CASE Cardinality(Present(w)) = IgmpPool
  <2> DEFINE z == [w EXCEPT !.err = "mem"]
  <2>1. LookupGroup(w, n, "all") = z
    BY <1>1 DEF LookupGroup
  <2>2. /\ z \in StationStates /\ z.grp = w.grp /\ z.filter = w.filter /\ z.mem = w.mem /\ z.trapped = w.trapped
        /\ z.out = w.out /\ z.err = "mem" /\ z.waived = w.waived
    BY <1>0 DEF StationStates
  <2>3. IgmpStart(w, n) = z
    BY <2>1, <2>2 DEF IgmpStart
  <2> HIDE DEF z
  <2>4. \A m, b : Member(z, m, b) <=> Member(w, m, b)
    BY <2>2 DEF Member
  <2>5. Present(z) = Present(w)
    BY <2>4, SamePresent
  <2>6. StationOK(z)
    BY <2>2, <2>4, <2>5 DEF StationOK
  <2>7. QED
    BY <2>2, <2>3, <2>6 DEF SameGroupsBut
<1>2. CASE Cardinality(Present(w)) # IgmpPool
  <2> DEFINE e0 == [NoGroup EXCEPT !.st = "non"]
             v0 == Put(w, n, "all", e0)
             e == IdleMember(e0)
             p == Put(v0, n, "all", e)
             F == w.filter \cup {<<n, "all">>}
             v == [p EXCEPT !.filter = F]
  <2>1. LookupGroup(w, n, "all") = v0
    BY <1>2 DEF LookupGroup, Put
  <2>2. e0 \in GroupStates /\ e0.st = "non" /\ e0.use = 0 /\ e0.timer = 0
    BY DEF GroupStates, NoGroup
  <2> HIDE DEF e0
  <2>3. /\ v0 \in StationStates /\ SameRest(v0, w) /\ v0.grp[n]["all"] = e0 /\ SameGroupsBut(v0, w, n, "all")
        /\ v0.out = w.out /\ v0.trapped = w.trapped
    BY <1>0, <2>2, PutIsOne
  <2>4. IgmpStart(w, n) = v
    <3>1. v0.err = "ok" /\ v0.filter = w.filter /\ v0.grp[n]["all"] = e0
      BY <2>3 DEF SameRest
    <3> HIDE DEF v0
    <3>2. QED
      BY <2>1, <3>1 DEF IgmpStart, Put
  <2> HIDE DEF v0
  <2>5. e \in GroupStates /\ e.st = "idle" /\ e.use = 1 /\ e.timer = 0
    BY <2>2, IdleMemberIsIdle
  <2> HIDE DEF e
  <2>6. /\ p \in StationStates /\ SameRest(p, v0) /\ p.grp[n]["all"] = e /\ SameGroupsBut(p, v0, n, "all")
        /\ p.out = v0.out /\ p.trapped = v0.trapped
    BY <1>0, <2>3, <2>5, PutIsOne
  <2> HIDE DEF p
  <2>7. F \in SUBSET (Links \X Groups)
    BY <1>0 DEF StationStates
  <2>8. \A m \in Links, b \in Groups : <<m, b>> \in F <=> (m = n /\ b = "all") \/ <<m, b>> \in w.filter
    OBVIOUS
  <2> HIDE DEF F
  <2>9. /\ v \in StationStates /\ v.grp = p.grp /\ v.filter = F /\ v.mem = w.mem /\ v.trapped = w.trapped
        /\ v.out = w.out /\ v.waived = w.waived
    BY <2>3, <2>6, <2>7 DEF SameRest, StationStates
  <2> HIDE DEF v
  <2>10. SameGroupsBut(v, w, n, "all") /\ v.grp[n]["all"] = e
    BY <2>3, <2>6, <2>9 DEF SameGroupsBut
  <2>11. ASSUME NEW m \in Links, NEW b \in Groups
         PROVE  GroupOK(v.grp[m][b]) /\ (Member(v, m, b) <=> (m = n /\ b = "all") \/ Member(w, m, b))
    <3>1. CASE m = n /\ b = "all"
      BY <2>5, <2>10, <3>1 DEF GroupOK, Member
    <3>2. CASE ~(m = n /\ b = "all")
      BY <2>10, <3>2 DEF SameGroupsBut, StationOK, Member
    <3>3. QED
      BY <3>1, <3>2
  <2>12. w.filter \in SUBSET (Links \X Groups) /\ w.filter = Present(w)
    BY <1>0 DEF StationStates, StationOK
  <2>13. \A m \in Links, b \in Groups : <<m, b>> \in w.filter <=> Member(w, m, b)
    BY <2>12, FilterIs
  <2>14. \A m \in Links, b \in Groups : <<m, b>> \in v.filter <=> Member(v, m, b)
    BY <2>8, <2>9, <2>11, <2>13
  <2>15. v.filter = Present(v)
    BY <2>7, <2>9, <2>14, FilterIs
  <2>16. \A m \in Links : Member(v, m, "g") => Member(v, m, "all")
    BY <2>11 DEF StationOK, Groups
  <2>17. StationOK(v)
    BY <2>9, <2>11, <2>15, <2>16 DEF StationOK
  <2>18. QED
    BY <2>4, <2>9, <2>10, <2>17
<1>3. QED
  BY <1>1, <1>2

Idle(w) == w.out = <<>> /\ w.rand = 0 /\ w.mem = TRUE /\ w.traps = FALSE /\ w.err = "ok"

\* A station that is done keeps its groups.
LEMMA SettledIsIdle ==
  ASSUME NEW w, StationOK(w)
  PROVE  /\ StationOK(Settled(w)) /\ Idle(Settled(w)) /\ Settled(w).grp = w.grp
         /\ Settled(w).waived = w.waived /\ Settled(w).trapped = w.trapped
<1> DEFINE z == Settled(w)
<1>1. /\ z \in StationStates /\ z.grp = w.grp /\ z.filter = w.filter /\ z.waived = w.waived
      /\ z.trapped = w.trapped /\ Idle(z)
  <2>1. w \in StationStates
    BY DEF StationOK
  <2>2. <<>> \in Seq(Messages)
    OBVIOUS
  <2>3. QED
    BY <2>1, <2>2 DEF Settled, StationStates, Idle
<1> HIDE DEF z
<1>2. \A m, b : Member(z, m, b) <=> Member(w, m, b)
  BY <1>1 DEF Member
<1>3. Present(z) = Present(w)
  BY <1>2, SamePresent
<1>4. StationOK(z)
  BY <1>1, <1>2, <1>3 DEF StationOK
<1>5. QED
  BY <1>1, <1>4 DEF z

-----------------------------------------------------------------------------
RouterStates == [knows : BOOLEAN, due : Nat, left : BOOLEAN, hasty : BOOLEAN, unheard : BOOLEAN]
Trusted(r) == ~r.unheard /\ ~r.hasty
UsedAsHeld(w, h) ==
  \A n \in Links \ w.waived : w.grp[n]["g"].use = IF Member(w, n, "all") THEN h[n] + h["any"] ELSE 0
Fits(w, h, r) == StationOK(w) /\ Idle(w) /\ UsedAsHeld(w, h) /\ (w.trapped => r.hasty)

\* The router knows of the members, and when it waits for answers each of them is about to answer.
Known(r, st) ==
  Trusted(r) =>
    \A s \in Stations :
      /\ Member(st[s], "lan", "g") => r.knows
      /\ r.due > 0 => Ready(st[s], r.due)

IgmpInv ==
  /\ holds \in [Stations -> [Links \cup {"any"} -> Nat]] /\ router \in RouterStates
  /\ station \in [Stations -> StationStates]
  /\ \A s \in Stations : Fits(station[s], holds[s], router)
  /\ Known(router, station)

\* What the invariant says of one station.
LEMMA KnownSays ==
  ASSUME NEW r, NEW st, Known(r, st), Trusted(r), NEW s \in Stations
  PROVE  /\ Member(st[s], "lan", "g") => r.knows
         /\ r.due > 0 => Ready(st[s], r.due)
<1>1. Member(st[s], "lan", "g") => r.knows
  BY Zenon DEF Known
<1>2. r.due > 0 => Ready(st[s], r.due)
  BY Zenon DEF Known
<1>3. QED
  BY <1>1, <1>2

\* The invariant implies what the run checks.
LEMMA SoundFromInv == IgmpInv => IgmpSound
<1> SUFFICES ASSUME IgmpInv PROVE IgmpSound
  OBVIOUS
<1>1. Known(router, station) /\ \A s \in Stations : Fits(station[s], holds[s], router)
  BY DEF IgmpInv
<1>2. ASSUME NEW s \in Stations
      PROVE  LET w == station[s] IN
             /\ w.filter = Present(w)
             /\ \A n \in Links \ w.waived :
                  w.grp[n]["g"].use = IF Member(w, n, "all") THEN holds[s][n] + holds[s]["any"] ELSE 0
             /\ \A n \in Links, a \in Groups : w.grp[n][a].st = "idle" => w.grp[n][a].timer = 0
             /\ w.trapped => router.hasty
  <2>1. Fits(station[s], holds[s], router)
    BY <1>1
  <2>2. \A n \in Links \ station[s].waived :
           station[s].grp[n]["g"].use = IF Member(station[s], n, "all") THEN holds[s][n] + holds[s]["any"] ELSE 0
    BY <2>1 DEF Fits, UsedAsHeld
  <2>3. station[s].filter = Present(station[s])
    BY <2>1 DEF Fits, StationOK
  <2>4. \A n \in Links, a \in Groups : station[s].grp[n][a].st = "idle" => station[s].grp[n][a].timer = 0
    BY <2>1 DEF Fits, StationOK, GroupOK
  <2>5. station[s].trapped => router.hasty
    BY <2>1, Zenon DEF Fits
  <2>6. QED
    BY <2>2, <2>3, <2>4, <2>5
<1>3. ~router.unheard /\ ~router.hasty /\ (\E s \in Stations : Member(station[s], "lan", "g")) => router.knows
  <2>1. SUFFICES ASSUME ~router.unheard /\ ~router.hasty, NEW s \in Stations, Member(station[s], "lan", "g")
                 PROVE  router.knows
    BY Zenon
  <2>2. Trusted(router)
    BY <2>1 DEF Trusted
  <2>3. Known(router, station)
    BY <1>1
  <2>4. QED
    BY <2>1, <2>2, <2>3, KnownSays
<1>4. QED
  BY <1>2, <1>3, Zenon DEF IgmpSound

\* A station that uses its groups as before uses them as often as they are held.
LEMMA SameHeld ==
  ASSUME NEW v, NEW w, NEW h, StationOK(v), StationOK(w), SameUses(v, w), UsedAsHeld(w, h)
  PROVE  UsedAsHeld(v, h) /\ \A n \in Links, a \in Groups : Member(v, n, a) <=> Member(w, n, a)
<1>1. \A n \in Links, a \in Groups : Member(v, n, a) <=> Member(w, n, a)
  BY MembersUse DEF SameUses
<1>2. QED
  BY <1>1 DEF UsedAsHeld, SameUses, Groups

\* A station whose groups and filter are as before is as sound as before.
LEMMA SameGroupsOK ==
  ASSUME NEW w, StationOK(w), NEW v \in StationStates, v.grp = w.grp, v.filter = w.filter
  PROVE  StationOK(v) /\ \A n, a : Member(v, n, a) <=> Member(w, n, a)
<1>1. \A n, a : Member(v, n, a) <=> Member(w, n, a)
  BY DEF Member
<1>2. Present(v) = Present(w)
  BY <1>1, SamePresent
<1>3. QED
  BY <1>1, <1>2 DEF StationOK

\* The station about to do something.
Running(w, s) ==
  /\ StationOK(w) /\ w.grp = station[s].grp /\ w.trapped = station[s].trapped /\ w.out = <<>>
  /\ w.waived = station[s].waived /\ w.err = "ok"

\* A station that starts to handle a call is sound.
LEMMA RunsOK ==
  ASSUME NEW s \in Stations, StationOK(station[s]), Idle(station[s]), NEW mem, mem \in BOOLEAN, NEW rand \in Nat
  PROVE  Running(Runs(s, mem, rand), s)
<1> DEFINE w == Runs(s, mem, rand)
<1>0. station[s] \in StationStates
  BY DEF StationOK
<1>1. /\ w \in StationStates /\ w.grp = station[s].grp /\ w.trapped = station[s].trapped /\ w.out = <<>>
      /\ w.waived = station[s].waived /\ w.err = "ok" /\ w.filter = station[s].filter
  BY <1>0 DEF Runs, StationStates, Idle
<1> HIDE DEF w
<1>2. StationOK(w)
  BY <1>1, SameGroupsOK
<1>3. QED
  BY <1>1, <1>2 DEF w, Running

\* A random number is a natural number.
LEMMA RandsAreNat == Rands \subseteq Nat
  BY IgmpTimes DEF Rands

\* What a station became that may have spoken.
Spoken(v, w) ==
  /\ StationOK(v) /\ v.mem = w.mem /\ v.trapped = w.trapped
  /\ Said(v, "report", "g") \/ ~w.mem \/ Silent(v, w)

\* What the router knows after it heard a station.
LEMMA RouterHearsIs ==
  ASSUME NEW r \in RouterStates, NEW w
  PROVE  LET q == RouterHears(r, w) IN
         /\ q \in RouterStates /\ q.hasty = r.hasty /\ q.unheard = r.unheard
         /\ q.knows = (r.knows \/ Said(w, "report", "g"))
         /\ q.due = IF Said(w, "report", "g") THEN 0 ELSE r.due
<1> DEFINE yes == Said(w, "report", "g")
           bye == Said(w, "leave", "g")
           q == [r EXCEPT !.knows = @ \/ yes, !.due = IF yes THEN 0 ELSE @, !.left = @ \/ bye]
<1>1. RouterHears(r, w) = q
  BY DEF RouterHears
<1>2. yes \in BOOLEAN /\ bye \in BOOLEAN
  BY DEF Said
<1> HIDE DEF yes, bye
<1>3. /\ q \in RouterStates /\ q.hasty = r.hasty /\ q.unheard = r.unheard /\ q.knows = (r.knows \/ yes)
      /\ q.due = IF yes THEN 0 ELSE r.due
  BY <1>2 DEF RouterStates
<1>4. QED
  BY <1>1, <1>3 DEF yes

\* Whatever station s did: if it said so when it became a member, and answers no later than before,
\* the router still knows of the members, and those that wait still answer in time. Silenced members
\* are no exception: the report that silences them answers the router.
LEMMA ActsKeeps ==
  ASSUME IgmpInv, NEW s \in Stations, NEW w0, NEW w, w0.grp = station[s].grp, w0.trapped = station[s].trapped,
         Spoken(w, w0), Acts(s, w)
  PROVE  /\ station' \in [Stations -> StationStates] /\ router' \in RouterStates /\ router'.hasty = router.hasty
         /\ Known(router', station') /\ station'[s] = Settled(w)
         /\ \A x \in Stations :
              /\ StationOK(station'[x]) /\ Idle(station'[x])
              /\ station'[x].trapped => router'.hasty
              /\ x # s => SameUses(station'[x], station[x])
<1> DEFINE q == RouterHears(router, w)
           yes == Said(w, "report", "g")
<1>1. router \in RouterStates /\ Known(router, station) /\ \A x \in Stations : Fits(station[x], holds[x], router)
  BY DEF IgmpInv
<1>2. /\ q \in RouterStates /\ q.hasty = router.hasty /\ q.unheard = router.unheard
      /\ q.knows = (router.knows \/ yes) /\ q.due = IF yes THEN 0 ELSE router.due
  BY <1>1, RouterHearsIs
<1>3. StationOK(w) /\ w \in StationStates /\ w.mem \in BOOLEAN
  BY DEF Spoken, StationOK, StationStates
<1>4. router' = [q EXCEPT !.unheard = @ \/ ~w.mem]
  BY DEF Acts
<1> HIDE DEF q, yes
<1>5. /\ router' \in RouterStates /\ router'.hasty = router.hasty /\ router'.unheard = (router.unheard \/ ~w.mem)
      /\ router'.knows = (router.knows \/ yes) /\ router'.due = IF yes THEN 0 ELSE router.due
  BY <1>2, <1>3, <1>4 DEF RouterStates
<1>6. station' = [x \in Stations |-> IF x = s THEN Settled(w) ELSE Hears(station[x], w)]
  BY DEF Acts
<1>7. /\ StationOK(station'[s]) /\ Idle(station'[s]) /\ station'[s].grp = w.grp /\ station'[s].trapped = station[s].trapped
      /\ station'[s] = Settled(w)
  BY <1>3, <1>6, SettledIsIdle DEF Spoken
<1>8. ASSUME NEW x \in Stations, x # s
      PROVE  /\ StationOK(station'[x]) /\ Idle(station'[x]) /\ SameUses(station'[x], station[x])
             /\ station'[x].trapped = station[x].trapped
             /\ ~yes => station'[x].grp["lan"]["g"] = station[x].grp["lan"]["g"]
  <2>1. StationOK(station[x]) /\ Idle(station[x]) /\ station'[x] = Hears(station[x], w)
    BY <1>1, <1>6, <1>8 DEF Fits
  <2>2. /\ Unsaid(station'[x], station[x]) /\ station'[x].trapped = station[x].trapped
        /\ ~yes => station'[x].grp["lan"]["g"] = station[x].grp["lan"]["g"]
    BY <2>1, HearsIsUnsaid DEF yes
  <2>3. QED
    BY <2>1, <2>2 DEF Unsaid, SameRest, Idle
<1>9. \A x \in Stations : station'[x].trapped => router'.hasty
  BY <1>1, <1>5, <1>7, <1>8 DEF Fits
<1>10. station' \in [Stations -> StationStates]
  <2>1. \A x \in Stations : station'[x] \in StationStates
    BY <1>7, <1>8 DEF StationOK
  <2>2. QED
    BY <1>6, <2>1
<1>11. Known(router', station')
  <2> SUFFICES ASSUME Trusted(router'), NEW x \in Stations
               PROVE  /\ Member(station'[x], "lan", "g") => router'.knows
                      /\ router'.due > 0 => Ready(station'[x], router'.due)
    BY DEF Known
  <2>1. Trusted(router) /\ w.mem /\ w0.mem
    BY <1>3, <1>5 DEF Trusted, Spoken
  <2>2. CASE yes
    <3>1. router'.knows
      BY <1>5, <2>2, Zenon
    <3>2. ~(router'.due > 0)
      BY <1>5, <2>2
    <3>3. QED
      BY <3>1, <3>2
  <2>3. CASE ~yes
    <3>1. router'.knows = router.knows /\ router'.due = router.due /\ router.due \in Nat /\ router.knows \in BOOLEAN
      BY <1>1, <1>5, <2>3 DEF RouterStates
    <3>2. /\ Member(station[x], "lan", "g") => router.knows
          /\ router.due > 0 => Ready(station[x], router.due)
      BY <1>1, <2>1, KnownSays
    <3>3. CASE x = s
      <4>1. Silent(w, w0)
        BY <2>1, <2>3 DEF Spoken, yes
      <4>2. /\ Member(w0, "lan", "g") <=> Member(station[s], "lan", "g")
            /\ Member(w, "lan", "g") <=> Member(station'[s], "lan", "g")
            /\ Ready(station[s], router.due) => Ready(w0, router.due)
            /\ Ready(w, router.due) => Ready(station'[s], router.due)
        BY <1>7 DEF Member, Ready
      <4>3. Ready(w0, router.due) => Ready(w, router.due)
        BY <3>1, <4>1 DEF Silent, AsReady
      <4>4. QED
        BY <3>1, <3>2, <3>3, <4>1, <4>2, <4>3 DEF Silent
    <3>4. CASE x # s
      <4>1. station'[x].grp["lan"]["g"] = station[x].grp["lan"]["g"]
        BY <1>8, <2>3, <3>4
      <4>2. QED
        BY <3>1, <3>2, <4>1 DEF Ready, Member
    <3>5. QED
      BY <3>3, <3>4
  <2>4. QED
    BY <2>2, <2>3
<1>12. QED
  BY <1>5, <1>7, <1>8, <1>9, <1>10, <1>11

\* A station that acts keeps the invariant if its groups are used as often as they are held afterwards.
LEMMA ActsInv ==
  ASSUME IgmpInv, NEW s \in Stations, NEW w0, NEW w, w0.grp = station[s].grp, w0.trapped = station[s].trapped,
         Spoken(w, w0), Acts(s, w), UsedAsHeld(w, holds'[s]),
         holds' \in [Stations -> [Links \cup {"any"} -> Nat]], \A x \in Stations \ {s} : holds'[x] = holds[x]
  PROVE  IgmpInv'
<1>1. /\ station' \in [Stations -> StationStates] /\ router' \in RouterStates /\ router'.hasty = router.hasty
      /\ Known(router', station') /\ station'[s] = Settled(w)
      /\ \A x \in Stations :
           /\ StationOK(station'[x]) /\ Idle(station'[x])
           /\ station'[x].trapped => router'.hasty
           /\ x # s => SameUses(station'[x], station[x])
  BY ActsKeeps
<1>2. UsedAsHeld(station'[s], holds'[s])
  <2>1. station'[s].grp = w.grp /\ station'[s].waived = w.waived
    BY <1>1, SettledIsIdle DEF Spoken
  <2>2. QED
    BY <2>1 DEF UsedAsHeld, Member
<1>3. ASSUME NEW x \in Stations, x # s PROVE UsedAsHeld(station'[x], holds'[x])
  <2>1. StationOK(station[x]) /\ UsedAsHeld(station[x], holds[x])
    BY DEF IgmpInv, Fits
  <2>2. StationOK(station'[x]) /\ SameUses(station'[x], station[x]) /\ holds'[x] = holds[x]
    BY <1>1, <1>3
  <2>3. QED
    BY <2>1, <2>2, SameHeld
<1>4. ASSUME NEW x \in Stations PROVE Fits(station'[x], holds'[x], router')
  BY <1>1, <1>2, <1>3 DEF Fits
<1>5. QED
  BY <1>1, <1>4 DEF IgmpInv

\* A call of the application speaks up.
LEMMA CalledIsSpoken ==
  ASSUME NEW v, NEW w, Called(v, w)
  PROVE  Spoken(v, w)
  BY DEF Called, Spoken

\* What the invariant says of one station's uses.
LEMMA StationFromInv ==
  ASSUME IgmpInv, NEW s \in Stations
  PROVE  /\ StationOK(station[s]) /\ Idle(station[s]) /\ UsedAsHeld(station[s], holds[s])
         /\ holds[s] \in [Links \cup {"any"} -> Nat]
         /\ \A n \in Links : station[s].grp[n]["g"].use \in Nat
  BY MembersUse DEF IgmpInv, Fits, GroupStates, Groups

\* igmp_joingroup keeps the invariant, with or without a group in the pool or a pbuf for the report.
LEMMA JoinsKeeps ==
  ASSUME IgmpInv, NEW s \in Stations, NEW x \in Links \cup {"any"}, Joins(s, x)
  PROVE  IgmpInv'
<1>1. PICK mem \in BOOLEAN, rand \in Rands :
        LET w == JoinGroup(Runs(s, mem, rand), x)
        IN /\ Acts(s, w)
           /\ holds' = IF w.err = "ok" /\ At(w, x) # {} THEN [holds EXCEPT ![s][x] = @ + 1] ELSE holds
  BY DEF Joins
<1> DEFINE w0 == Runs(s, mem, rand)
           w == JoinGroup(w0, x)
<1>2. /\ StationOK(station[s]) /\ Idle(station[s]) /\ UsedAsHeld(station[s], holds[s])
      /\ holds[s] \in [Links \cup {"any"} -> Nat]
      /\ \A n \in Links : station[s].grp[n]["g"].use \in Nat
  BY StationFromInv
<1>3. /\ StationOK(w0) /\ w0.grp = station[s].grp /\ w0.trapped = station[s].trapped /\ w0.waived = station[s].waived
      /\ w0.err = "ok"
  <2>1. mem \in BOOLEAN /\ rand \in Nat
    BY RandsAreNat
  <2>2. QED
    BY <1>2, <2>1, RunsOK DEF Running
<1> HIDE DEF w0
<1>4. Partly(w, w0, x, Links)
  BY <1>3, JoinGroupJoins
<1> HIDE DEF w
<1>5. Spoken(w, w0) /\ \A n \in Links : Member(w, n, "all") <=> Member(station[s], n, "all")
  BY <1>3, <1>4, CalledIsSpoken DEF Partly, Called, Member
<1>6. Acts(s, w) /\ holds' = IF w.err = "ok" /\ At(w, x) # {} THEN [holds EXCEPT ![s][x] = @ + 1] ELSE holds
  BY <1>1 DEF w, w0
<1>7. holds \in [Stations -> [Links \cup {"any"} -> Nat]]
  BY DEF IgmpInv
<1>8. \A n \in Links : n \in At(w, x) <=> n \in At(w0, x)
  BY <1>3, <1>5 DEF At, Member
<1>9. \A n \in Links : n \in At(w0, x) <=> Member(station[s], n, "all") /\ x \in {n, "any"}
  BY <1>3 DEF At, Member
<1>10. CASE w.err = "ok" /\ At(w, x) # {}
  <2> DEFINE h == [holds[s] EXCEPT ![x] = @ + 1]
  <2>1. holds' = [holds EXCEPT ![s] = h]
    BY <1>6, <1>10
  <2>2. h \in [Links \cup {"any"} -> Nat] /\ \A y \in Links \cup {"any"} : h[y] = IF y = x THEN holds[s][y] + 1 ELSE holds[s][y]
    BY <1>2
  <2> HIDE DEF h
  <2>3. /\ holds' \in [Stations -> [Links \cup {"any"} -> Nat]] /\ holds'[s] = h
        /\ \A y \in Stations \ {s} : holds'[y] = holds[y]
    BY <1>7, <2>1, <2>2
  <2>4. ASSUME NEW n \in Links, n \notin w.waived
        PROVE  w.grp[n]["g"].use = IF Member(w, n, "all") THEN h[n] + h["any"] ELSE 0
    <3>1. n \notin station[s].waived /\ w.grp[n]["g"].use = station[s].grp[n]["g"].use + (IF n \in At(w0, x) THEN 1 ELSE 0)
      BY <1>3, <1>4, <1>10, <2>4 DEF Partly
    <3>2. station[s].grp[n]["g"].use = IF Member(station[s], n, "all") THEN holds[s][n] + holds[s]["any"] ELSE 0
      BY <1>2, <3>1 DEF UsedAsHeld
    <3>3. n # "any" /\ holds[s][n] \in Nat /\ holds[s]["any"] \in Nat
      BY <1>2 DEF Links
    <3>4. CASE Member(station[s], n, "all")
      <4>1. n \in At(w0, x) <=> x = n \/ x = "any"
        BY <1>9, <3>4
      <4>2. h[n] = (IF n = x THEN holds[s][n] + 1 ELSE holds[s][n]) /\ h["any"] = IF "any" = x THEN holds[s]["any"] + 1 ELSE holds[s]["any"]
        BY <2>2
      <4>3. Member(w, n, "all")
        BY <1>5, <3>4
      <4>4. QED
        BY <3>1, <3>2, <3>3, <3>4, <4>1, <4>2, <4>3
    <3>5. CASE ~Member(station[s], n, "all")
      BY <1>5, <1>9, <3>1, <3>2, <3>5
    <3>6. QED
      BY <3>4, <3>5
  <2>5. UsedAsHeld(w, holds'[s])
    BY <2>3, <2>4 DEF UsedAsHeld
  <2>6. QED
    BY <1>3, <1>5, <1>6, <2>3, <2>5, ActsInv
<1>11. CASE ~(w.err = "ok" /\ At(w, x) # {})
  <2>1. holds' = holds
    BY <1>6, <1>11
  <2>2. ASSUME NEW n \in Links, n \notin w.waived
        PROVE  n \notin station[s].waived /\ w.grp[n]["g"].use = station[s].grp[n]["g"].use
    <3>1. CASE w.err # "ok"
      BY <1>3, <1>4, <2>2, <3>1 DEF Partly
    <3>2. CASE w.err = "ok"
      <4>1. n \notin At(w0, x)
        BY <1>8, <1>11, <3>2
      <4>2. n \notin station[s].waived /\ w.grp[n]["g"].use = station[s].grp[n]["g"].use + 0
        BY <1>3, <1>4, <2>2, <3>2, <4>1 DEF Partly
      <4>3. QED
        BY <1>2, <4>2
    <3>3. QED
      BY <3>1, <3>2
  <2>3. UsedAsHeld(w, holds'[s])
    BY <1>2, <1>5, <2>1, <2>2 DEF UsedAsHeld
  <2>4. QED
    BY <1>3, <1>5, <1>6, <1>7, <2>1, <2>3, ActsInv
<1>12. QED
  BY <1>10, <1>11

\* igmp_leavegroup keeps the invariant.
LEMMA LeavesKeeps ==
  ASSUME IgmpInv, NEW s \in Stations, NEW x \in Links \cup {"any"}, Leaves(s, x)
  PROVE  IgmpInv'
<1>1. PICK mem \in BOOLEAN : Acts(s, LeaveGroup(Runs(s, mem, 0), x))
  BY DEF Leaves
<1> DEFINE w0 == Runs(s, mem, 0)
           w == LeaveGroup(w0, x)
           h == [holds[s] EXCEPT ![x] = @ - 1]
<1>2. /\ StationOK(station[s]) /\ Idle(station[s]) /\ UsedAsHeld(station[s], holds[s])
      /\ holds[s] \in [Links \cup {"any"} -> Nat]
      /\ \A n \in Links : station[s].grp[n]["g"].use \in Nat
  BY StationFromInv
<1>3. /\ StationOK(w0) /\ w0.grp = station[s].grp /\ w0.trapped = station[s].trapped /\ w0.waived = station[s].waived
  <2>1. mem \in BOOLEAN /\ 0 \in Nat
    OBVIOUS
  <2>2. QED
    BY <1>2, <2>1, RunsOK DEF Running
<1> HIDE DEF w0
<1>4. Fewer(w, w0, x, Links)
  BY <1>3, LeaveGroupLeaves
<1> HIDE DEF w
<1>5. Spoken(w, w0) /\ \A n \in Links : Member(w, n, "all") <=> Member(station[s], n, "all")
  BY <1>3, <1>4, CalledIsSpoken DEF Fewer, Called, Member
<1>6. Acts(s, w) /\ holds[s][x] > 0 /\ holds' = [holds EXCEPT ![s] = h]
  BY <1>1 DEF w, w0, Leaves
<1>7. holds \in [Stations -> [Links \cup {"any"} -> Nat]]
  BY DEF IgmpInv
<1>8. h \in [Links \cup {"any"} -> Nat] /\ \A y \in Links \cup {"any"} : h[y] = IF y = x THEN holds[s][y] - 1 ELSE holds[s][y]
  BY <1>2, <1>6
<1> HIDE DEF h
<1>9. /\ holds' \in [Stations -> [Links \cup {"any"} -> Nat]] /\ holds'[s] = h
      /\ \A y \in Stations \ {s} : holds'[y] = holds[y]
  BY <1>6, <1>7, <1>8
<1>10. ASSUME NEW n \in Links, n \notin w.waived
       PROVE  w.grp[n]["g"].use = IF Member(w, n, "all") THEN h[n] + h["any"] ELSE 0
  <2>1. /\ n \notin station[s].waived
        /\ w.grp[n]["g"].use = IF n \in At(w0, x) /\ station[s].grp[n]["g"].use # 0
                              THEN station[s].grp[n]["g"].use - 1 ELSE station[s].grp[n]["g"].use
    BY <1>3, <1>4, <1>10 DEF Fewer
  <2>2. station[s].grp[n]["g"].use = IF Member(station[s], n, "all") THEN holds[s][n] + holds[s]["any"] ELSE 0
    BY <1>2, <2>1 DEF UsedAsHeld
  <2>3. n # "any" /\ holds[s][n] \in Nat /\ holds[s]["any"] \in Nat
    BY <1>2 DEF Links
  <2>4. n \in At(w0, x) <=> Member(station[s], n, "all") /\ x \in {n, "any"}
    BY <1>3 DEF At, Member
  <2>5. CASE Member(station[s], n, "all")
    <3>1. h[n] = (IF n = x THEN holds[s][n] - 1 ELSE holds[s][n]) /\ h["any"] = IF "any" = x THEN holds[s]["any"] - 1 ELSE holds[s]["any"]
      BY <1>8
    <3>2. Member(w, n, "all")
      BY <1>5, <2>5
    <3>3. QED
      BY <1>6, <2>1, <2>2, <2>3, <2>4, <2>5, <3>1, <3>2
  <2>6. CASE ~Member(station[s], n, "all")
    BY <1>5, <2>1, <2>2, <2>4, <2>6
  <2>7. QED
    BY <2>5, <2>6
<1>11. UsedAsHeld(w, holds'[s])
  BY <1>9, <1>10 DEF UsedAsHeld
<1>12. QED
  BY <1>3, <1>5, <1>6, <1>9, <1>11, ActsInv

\* An interface removed and added again keeps the invariant; its uses are waived from then on.
LEMMA ReaddsKeeps ==
  ASSUME IgmpInv, Readds("a", "wan")
  PROVE  IgmpInv'
<1> DEFINE s == "a"
           n == "wan"
           u == IgmpStop(station[s], n)
           v == IgmpStart(u, n)
           w == [v EXCEPT !.waived = @ \cup {n}]
<1>0. s \in Stations /\ n \in Links /\ "lan" \in Links \ {n} /\ "g" \in Groups /\ "all" \in Groups /\ "g" # "all"
  BY DEF Stations, Links, Groups
<1>1. Acts(s, w) /\ holds' = holds
  BY DEF Readds
<1>2. StationOK(station[s]) /\ Idle(station[s]) /\ UsedAsHeld(station[s], holds[s])
  BY <1>0, StationFromInv
<1> HIDE DEF s, n
<1>3. /\ StationOK(u) /\ u.mem = station[s].mem /\ u.trapped = station[s].trapped /\ u.err = "ok"
      /\ u.waived = station[s].waived /\ u.grp["lan"] = station[s].grp["lan"] /\ u.grp[n]["all"] = NoGroup
      /\ \A m \in Links \ {n} : u.grp[m] = station[s].grp[m]
  BY <1>0, <1>2, IgmpStopStops DEF Idle
<1> HIDE DEF u
<1>4. ~Member(u, n, "all")
  BY <1>3 DEF Member, NoGroup
<1>5. /\ StationOK(v) /\ v.mem = u.mem /\ v.trapped = u.trapped /\ v.waived = u.waived
      /\ SameGroupsBut(v, u, n, "all")
  BY <1>0, <1>3, <1>4, IgmpStartStarts
<1> HIDE DEF v
<1>6. v \in StationStates
  BY <1>5 DEF StationOK
<1>7. /\ w \in StationStates /\ w.grp = v.grp /\ w.filter = v.filter /\ w.mem = v.mem /\ w.trapped = v.trapped
      /\ w.waived = v.waived \cup {n}
  BY <1>0, <1>6 DEF StationStates
<1> HIDE DEF w
<1>8. StationOK(w)
  BY <1>5, <1>7, SameGroupsOK
<1>9. \A m \in Links \ {n} : \A a \in Groups : w.grp[m][a] = station[s].grp[m][a]
  BY <1>3, <1>5, <1>7 DEF SameGroupsBut
<1>10. Silent(w, station[s])
  BY <1>0, <1>9 DEF Silent, AsReady, Ready, Member
<1>11. Spoken(w, station[s])
  BY <1>3, <1>5, <1>7, <1>8, <1>10 DEF Spoken
<1>12. UsedAsHeld(w, holds[s])
  BY <1>0, <1>2, <1>3, <1>5, <1>7, <1>9 DEF UsedAsHeld, Member
<1>13. holds \in [Stations -> [Links \cup {"any"} -> Nat]]
  BY DEF IgmpInv
<1>14. w.trapped = station[s].trapped
  BY <1>3, <1>5, <1>7
<1>15. QED
  BY <1>0, <1>1, <1>11, <1>12, <1>13, ActsInv

\* A link that comes up keeps the invariant.
LEMMA LinkComesUpKeeps ==
  ASSUME IgmpInv, LinkComesUp("b", "lan")
  PROVE  IgmpInv'
<1> DEFINE s == "b"
<1>0. s \in Stations /\ "lan" \in Links
  BY DEF Stations, Links
<1>1. PICK rand \in Rands : Acts(s, ReportGroups(Runs(s, TRUE, rand), "lan")) /\ holds' = holds
  BY DEF LinkComesUp
<1> HIDE DEF s
<1> DEFINE w0 == Runs(s, TRUE, rand)
           w == ReportGroups(w0, "lan")
<1>2. StationOK(station[s]) /\ Idle(station[s]) /\ UsedAsHeld(station[s], holds[s])
  BY <1>0, StationFromInv
<1>3. Running(w0, s)
  <2>1. TRUE \in BOOLEAN /\ rand \in Nat
    BY RandsAreNat
  <2>2. QED
    BY <1>0, <1>2, <2>1, RunsOK
<1> HIDE DEF w0
<1>4. Unsaid(w, w0) /\ w.trapped = w0.trapped /\ AsReady(w, w0)
  BY <1>0, <1>3, ReportGroupsIsUnsaid DEF Running
<1> HIDE DEF w
<1>5. UsedAsHeld(w0, holds[s])
  BY <1>2, <1>3 DEF Running, UsedAsHeld, Member
<1>6. UsedAsHeld(w, holds[s]) /\ \A n \in Links, a \in Groups : Member(w, n, a) <=> Member(w0, n, a)
  BY <1>3, <1>4, <1>5, SameHeld DEF Unsaid, Running
<1>7. Silent(w, w0)
  BY <1>0, <1>4, <1>6 DEF Silent, Groups
<1>8. Spoken(w, w0)
  BY <1>4, <1>7 DEF Spoken, Unsaid, SameRest
<1>9. holds \in [Stations -> [Links \cup {"any"} -> Nat]]
  BY DEF IgmpInv
<1>10. Acts(s, w) /\ w0.grp = station[s].grp /\ w0.trapped = station[s].trapped
  BY <1>1, <1>3 DEF w, w0, Running
<1>11. QED
  BY <1>0, <1>1, <1>6, <1>8, <1>9, <1>10, ActsInv

\* A query of the router keeps the invariant: from then on every member is about to answer.
LEMMA AsksKeeps ==
  ASSUME IgmpInv, NEW a \in {"any", "g"}, NEW time \in {0, 1, V1Tmr}, Asks(a, time)
  PROVE  IgmpInv'
<1>1. PICK rand \in [Stations -> Rands], traps \in BOOLEAN :
        station' = [s \in Stations |->
          IF Working(s) THEN Settled(IgmpQuery([Runs(s, TRUE, rand[s]) EXCEPT !.traps = traps], "lan", a, time))
          ELSE station[s]]
  BY DEF Asks
<1> DEFINE t == AnswerTime(a, time)
           d == IF time = 0 THEN V1Tmr ELSE time
<1>2. t \in Nat /\ d \in Nat /\ (t > 1 => t = d) /\ time \in Nat
  BY IgmpTimes DEF AnswerTime
<1>3. /\ router' = [router EXCEPT !.due = d, !.left = FALSE, !.hasty = @ \/ t <= 1]
      /\ router.knows /\ holds' = holds
  BY DEF Asks
<1> HIDE DEF t, d
<1>4. router \in RouterStates
  BY DEF IgmpInv
<1>5. /\ router' \in RouterStates /\ router'.knows /\ router'.due = d /\ router'.unheard = router.unheard
      /\ router'.hasty = (router.hasty \/ t <= 1)
  BY <1>2, <1>3, <1>4 DEF RouterStates
<1>6. ASSUME NEW s \in Stations
      PROVE  /\ Fits(station'[s], holds'[s], router')
             /\ Working(s) /\ t > 1 => Ready(station'[s], t)
  <2>0. Fits(station[s], holds[s], router)
    BY DEF IgmpInv
  <2>1. CASE ~Working(s)
    <3>1. station'[s] = station[s]
      BY <1>1, <2>1
    <3>2. station[s].trapped => router'.hasty
      BY <1>5, <2>0, Zenon DEF Fits
    <3>3. QED
      BY <1>3, <2>0, <2>1, <3>1, <3>2 DEF Fits
  <2>2. CASE Working(s)
    <3> DEFINE u == Runs(s, TRUE, rand[s])
               w0 == [u EXCEPT !.traps = traps]
               w == IgmpQuery(w0, "lan", a, time)
    <3>1. Running(u, s)
      <4>1. TRUE \in BOOLEAN /\ rand[s] \in Nat
        BY RandsAreNat
      <4>2. QED
        BY <2>0, <4>1, RunsOK DEF Fits
    <3>2. station'[s] = Settled(w)
      BY <1>1, <2>2
    <3> HIDE DEF u
    <3>3. u \in StationStates
      BY <3>1 DEF Running, StationOK
    <3>4. /\ w0 \in StationStates /\ w0.grp = u.grp /\ w0.filter = u.filter /\ w0.trapped = u.trapped
          /\ w0.waived = u.waived
      BY <3>3 DEF StationStates
    <3> HIDE DEF w0
    <3>5. StationOK(w0)
      BY <3>1, <3>4, SameGroupsOK DEF Running
    <3>6. Unsaid(w, w0) /\ (t > 1 => w.trapped = w0.trapped /\ Ready(w, t))
      BY <1>2, <3>5, IgmpQueryIsUnsaid DEF t
    <3> HIDE DEF w
    <3>7. UsedAsHeld(w0, holds[s])
      BY <2>0, <3>1, <3>4 DEF Fits, Running, UsedAsHeld, Member
    <3>8. UsedAsHeld(w, holds[s]) /\ StationOK(w)
      BY <3>5, <3>6, <3>7, SameHeld DEF Unsaid
    <3>9. /\ StationOK(station'[s]) /\ Idle(station'[s]) /\ station'[s].grp = w.grp
          /\ station'[s].waived = w.waived /\ station'[s].trapped = w.trapped
      BY <3>2, <3>8, SettledIsIdle
    <3>10. UsedAsHeld(station'[s], holds'[s])
      BY <1>3, <3>8, <3>9 DEF UsedAsHeld, Member
    <3>11. station'[s].trapped => router'.hasty
      <4>1. CASE t > 1
        <5>1. station'[s].trapped = station[s].trapped
          BY <3>1, <3>4, <3>6, <3>9, <4>1 DEF Running
        <5>2. QED
          BY <1>5, <2>0, <5>1, Zenon DEF Fits
      <4>2. CASE ~(t > 1)
        <5>1. t <= 1
          BY <1>2, <4>2
        <5>2. QED
          BY <1>5, <5>1, Zenon
      <4>3. QED
        BY <4>1, <4>2
    <3>12. t > 1 => Ready(station'[s], t)
      BY <3>6, <3>9 DEF Ready, Member
    <3>13. QED
      BY <3>9, <3>10, <3>11, <3>12 DEF Fits
  <2>3. QED
    BY <2>1, <2>2
<1>7. Known(router', station')
  <2> SUFFICES ASSUME Trusted(router'), NEW s \in Stations
               PROVE  /\ Member(station'[s], "lan", "g") => router'.knows
                      /\ router'.due > 0 => Ready(station'[s], router'.due)
    BY DEF Known
  <2>1. ~router.hasty /\ ~(t <= 1)
    BY <1>5, Zenon DEF Trusted
  <2>2. Working(s)
    BY <2>1, Zenon DEF Working, IgmpInv, Fits
  <2>3. t > 1
    BY <1>2, <2>1
  <2>4. Ready(station'[s], t) /\ t = d
    BY <1>2, <1>6, <2>2, <2>3
  <2>5. QED
    BY <1>5, <2>4
<1>8. /\ station' \in [Stations -> StationStates]
      /\ holds' \in [Stations -> [Links \cup {"any"} -> Nat]]
  <2>1. \A s \in Stations : station'[s] \in StationStates
    BY <1>6 DEF Fits, StationOK
  <2>2. QED
    BY <1>1, <1>3, <2>1 DEF IgmpInv
<1>9. QED
  BY <1>5, <1>6, <1>7, <1>8 DEF IgmpInv

\* What a station becomes in a period: it ticks, unless it trapped.
Period(v, w) ==
  /\ StationOK(v) /\ SameUses(v, w) /\ SameRest(v, w) /\ v.trapped = w.trapped
  /\ ~w.trapped /\ w.mem => \A due \in Nat \ {0} : Ready(w, due) => Said(v, "report", "g") \/ Ready(v, due - 1)

\* A period of a station, trapped or not.
LEMMA PeriodOf ==
  ASSUME NEW w, StationOK(w), NEW v, v = IF ~w.trapped THEN IgmpTmr(w) ELSE w
  PROVE  Period(v, w)
<1>1. CASE w.trapped
  BY <1>1, Zenon DEF Period, SameUses, SameRest
<1>2. CASE ~w.trapped
  <2>1. Ticked(v, w, "lan", "g")
    BY <1>2, IgmpTmrTicks
  <2>2. QED
    BY <2>1 DEF Ticked, Period
<1>3. QED
  BY <1>1, <1>2, Zenon

\* A period keeps the invariant: when the router's wait ends, each member has answered or heard an answer,
\* whichever station ticks first.
LEMMA TicksKeeps ==
  ASSUME IgmpInv, NEW first \in Stations, IgmpTicks(first)
  PROVE  IgmpInv'
<1> DEFINE other == IF first = "a" THEN "b" ELSE "a"
           w == IF Working(first) THEN IgmpTmr(station[first]) ELSE station[first]
           heard == Hears(station[other], w)
           v == IF Working(other) THEN IgmpTmr(heard) ELSE heard
           back == Hears(w, v)
           r1 == RouterHears(router, w)
           r == RouterHears(r1, v)
           saidW == Said(w, "report", "g")
           saidV == Said(v, "report", "g")
<1>0. other \in Stations /\ other # first /\ \A s \in Stations : s # first => s = other
  BY DEF Stations
<1>1. /\ station' = [s \in Stations |-> Settled(IF s = first THEN back ELSE v)]
      /\ router' = [r EXCEPT !.knows = @ /\ r.due # 1, !.due = IF @ > 0 THEN @ - 1 ELSE 0]
      /\ holds' = holds
  BY DEF IgmpTicks
<1> HIDE DEF other
<1>2. \A s \in Stations : Fits(station[s], holds[s], router)
  BY DEF IgmpInv
<1>3. Period(w, station[first])
  BY <1>2, PeriodOf DEF Fits, Working
<1> HIDE DEF w
<1>4. /\ Unsaid(heard, station[other]) /\ heard.trapped = station[other].trapped
      /\ ~saidW => heard.grp["lan"]["g"] = station[other].grp["lan"]["g"]
  BY <1>0, <1>2, HearsIsUnsaid DEF Fits
<1> HIDE DEF heard
<1>5. Period(v, heard)
  <2>1. v = IF ~heard.trapped THEN IgmpTmr(heard) ELSE heard
    BY <1>4 DEF Working
  <2>2. QED
    BY <1>4, <2>1, PeriodOf DEF Unsaid
<1> HIDE DEF v
<1>6. /\ Unsaid(back, w) /\ back.trapped = w.trapped
      /\ ~saidV => back.grp["lan"]["g"] = w.grp["lan"]["g"]
  BY <1>3, HearsIsUnsaid DEF Period
<1> HIDE DEF back
<1>7. /\ StationOK(back) /\ SameUses(back, station[first]) /\ back.trapped = station[first].trapped
      /\ StationOK(v) /\ SameUses(v, station[other]) /\ v.trapped = station[other].trapped
  BY <1>3, <1>4, <1>5, <1>6 DEF Period, Unsaid, SameUses
<1>8. /\ station'[first] = Settled(back) /\ station'[other] = Settled(v)
  BY <1>0, <1>1
<1>9. ASSUME NEW s \in Stations, NEW z, station'[s] = Settled(z), StationOK(z), SameUses(z, station[s]),
             z.trapped = station[s].trapped
      PROVE  /\ StationOK(station'[s]) /\ Idle(station'[s]) /\ UsedAsHeld(station'[s], holds'[s])
             /\ station'[s].trapped = station[s].trapped
             /\ station'[s].grp = z.grp
             /\ \A n \in Links, a \in Groups : Member(station'[s], n, a) <=> Member(station[s], n, a)
  <2>1. StationOK(station[s]) /\ UsedAsHeld(station[s], holds[s])
    BY <1>2 DEF Fits
  <2>2. UsedAsHeld(z, holds[s]) /\ \A n \in Links, a \in Groups : Member(z, n, a) <=> Member(station[s], n, a)
    BY <1>9, <2>1, SameHeld
  <2>3. /\ StationOK(station'[s]) /\ Idle(station'[s]) /\ station'[s].grp = z.grp
        /\ station'[s].waived = z.waived /\ station'[s].trapped = z.trapped
    BY <1>9, SettledIsIdle
  <2>4. QED
    BY <1>1, <1>9, <2>2, <2>3 DEF UsedAsHeld, Member
<1>10. ASSUME NEW s \in Stations
       PROVE  /\ StationOK(station'[s]) /\ Idle(station'[s]) /\ UsedAsHeld(station'[s], holds'[s])
              /\ station'[s].trapped = station[s].trapped
              /\ Member(station'[s], "lan", "g") <=> Member(station[s], "lan", "g")
  <2>1. "lan" \in Links /\ "g" \in Groups
    BY DEF Links, Groups
  <2>2. CASE s = first
    BY <1>7, <1>8, <1>9, <2>1, <2>2
  <2>3. CASE s = other
    BY <1>0, <1>7, <1>8, <1>9, <2>1, <2>3
  <2>4. QED
    BY <1>0, <2>2, <2>3
<1>11. router \in RouterStates
  BY DEF IgmpInv
<1>12. /\ r1 \in RouterStates /\ r1.hasty = router.hasty /\ r1.unheard = router.unheard
       /\ r1.knows = (router.knows \/ saidW) /\ r1.due = IF saidW THEN 0 ELSE router.due
  BY <1>11, RouterHearsIs
<1> HIDE DEF r1
<1>13. /\ r \in RouterStates /\ r.hasty = r1.hasty /\ r.unheard = r1.unheard
       /\ r.knows = (r1.knows \/ saidV) /\ r.due = IF saidV THEN 0 ELSE r1.due
  BY <1>12, RouterHearsIs
<1> HIDE DEF r, saidW, saidV
<1> DEFINE late == r.due # 1
           d == IF r.due > 0 THEN r.due - 1 ELSE 0
<1>14. late \in BOOLEAN /\ d \in Nat /\ r.due \in Nat
  BY <1>13 DEF RouterStates
<1>15. router' = [r EXCEPT !.knows = @ /\ late, !.due = d]
  BY <1>1
<1> HIDE DEF late, d
<1>16. /\ router' \in RouterStates /\ router'.hasty = r.hasty /\ router'.unheard = r.unheard
       /\ router'.knows = (r.knows /\ late) /\ router'.due = d
  BY <1>13, <1>14, <1>15 DEF RouterStates
<1>17. router'.hasty = router.hasty /\ router'.unheard = router.unheard
  BY <1>12, <1>13, <1>16
<1>18. ASSUME NEW s \in Stations PROVE Fits(station'[s], holds'[s], router')
  <2>1. station[s].trapped => router.hasty
    BY <1>2 DEF Fits
  <2>2. station'[s].trapped => router'.hasty
    BY <1>10, <1>17, <2>1, Zenon
  <2>3. QED
    BY <1>10, <2>2 DEF Fits
<1>19. Known(router', station')
  <2> SUFFICES ASSUME Trusted(router'), NEW s \in Stations
               PROVE  /\ Member(station'[s], "lan", "g") => router'.knows
                      /\ router'.due > 0 => Ready(station'[s], router'.due)
    BY DEF Known
  <2>1. Trusted(router) /\ ~router.hasty
    BY <1>17, Zenon DEF Trusted
  <2>2. ~station[first].trapped /\ ~station[other].trapped /\ station[first].mem /\ station[other].mem
    BY <1>0, <1>2, <2>1, Zenon DEF Fits, Idle
  <2>3. CASE saidW \/ saidV
    <3>1. r.due = 0
      BY <1>12, <1>13, <2>3
    <3>2. r.knows
      BY <1>12, <1>13, <2>3, Zenon
    <3>3. late /\ d = 0
      BY <3>1 DEF late, d
    <3>4. router'.knows
      BY <1>16, <3>2, <3>3, Zenon
    <3>5. ~(router'.due > 0)
      BY <1>16, <3>3
    <3>6. QED
      BY <3>4, <3>5
  <2>4. CASE ~saidW /\ ~saidV
    <3>1. r.due = router.due
      BY <1>12, <1>13, <2>4
    <3>2. r.knows = router.knows
      <4>1. router.knows \in BOOLEAN
        BY <1>11 DEF RouterStates
      <4>2. QED
        BY <1>12, <1>13, <2>4, <4>1, Zenon
    <3>3. /\ Member(station[s], "lan", "g") => router.knows
          /\ router.due > 0 => Ready(station[s], router.due)
      BY <2>1, KnownSays DEF IgmpInv
    <3>4. CASE router.due = 0
      <4>1. late /\ d = 0
        BY <3>1, <3>4 DEF late, d
      <4>2. ~(router'.due > 0)
        BY <1>16, <4>1
      <4>3. Member(station'[s], "lan", "g") => router'.knows
        BY <1>10, <1>16, <3>2, <3>3, <4>1, Zenon
      <4>4. QED
        BY <4>2, <4>3
    <3>5. CASE router.due # 0
      <4>1. router.due \in Nat \ {0} /\ router.due > 0 /\ d = router.due - 1
        BY <1>14, <3>1, <3>5 DEF d
      <4>2. Ready(station[first], router.due) /\ Ready(station[other], router.due)
        BY <1>0, <2>1, <4>1, KnownSays DEF IgmpInv
      <4>3. Ready(w, d)
        BY <1>3, <2>2, <2>4, <4>1, <4>2 DEF Period, saidW
      <4>4. Ready(heard, router.due)
        BY <1>4, <2>4, <4>2 DEF Ready, Member
      <4>5. ~heard.trapped /\ heard.mem
        BY <1>4, <2>2, Zenon DEF Unsaid, SameRest
      <4>6. Ready(v, d)
        BY <1>5, <2>4, <4>1, <4>4, <4>5 DEF Period, saidV
      <4>7. Ready(back, d)
        BY <1>6, <2>4, <4>3 DEF Ready, Member
      <4>8. Ready(station'[s], d)
        <5>1. station'[first].grp = back.grp /\ station'[other].grp = v.grp
          BY <1>0, <1>7, <1>8, <1>9
        <5>2. Ready(station'[first], d) /\ Ready(station'[other], d)
          BY <4>6, <4>7, <5>1 DEF Ready, Member
        <5>3. QED
          BY <1>0, <5>2
      <4>9. CASE router.due = 1
        <5>1. ~Member(station'[s], "lan", "g")
          BY <4>1, <4>8, <4>9 DEF Ready
        <5>2. ~(router'.due > 0)
          BY <1>16, <4>1, <4>9
        <5>3. QED
          BY <5>1, <5>2
      <4>10. CASE router.due # 1
        <5>1. late
          BY <3>1, <4>10 DEF late
        <5>2. Member(station'[s], "lan", "g") => router'.knows
          BY <1>10, <1>16, <3>2, <3>3, <5>1, Zenon
        <5>3. QED
          BY <1>16, <4>8, <5>2
      <4>11. QED
        BY <4>9, <4>10
    <3>6. QED
      BY <3>4, <3>5
  <2>5. QED
    BY <2>3, <2>4
<1>20. /\ station' \in [Stations -> StationStates]
       /\ holds' \in [Stations -> [Links \cup {"any"} -> Nat]]
  <2>1. \A s \in Stations : station'[s] \in StationStates
    BY <1>10 DEF StationOK
  <2>2. QED
    BY <1>1, <2>1 DEF IgmpInv
<1>21. QED
  BY <1>16, <1>18, <1>19, <1>20 DEF IgmpInv

-----------------------------------------------------------------------------
\* A station that has no group is sound.
LEMMA NewStationOK == StationOK(NewStation) /\ NewStation.err = "ok"
<1>1. NoGroup \in GroupStates /\ GroupOK(NoGroup) /\ NoGroup.st = "none"
  BY DEF NoGroup, GroupStates, GroupOK
<1>2. <<>> \in Seq(Messages)
  OBVIOUS
<1>3. NewStation \in StationStates /\ NewStation.filter = {} /\ NewStation.err = "ok"
  BY <1>1, <1>2 DEF NewStation, StationStates
<1>4. \A n \in Links, a \in Groups : NewStation.grp[n][a] = NoGroup
  BY DEF NewStation
<1>5. \A n \in Links, a \in Groups : GroupOK(NewStation.grp[n][a]) /\ ~Member(NewStation, n, a)
  BY <1>1, <1>4 DEF Member
<1>6. {} = Present(NewStation)
  BY <1>5, FilterIs
<1>7. QED
  BY <1>3, <1>5, <1>6 DEF StationOK, Groups

\* No group was joined, nothing else happened.
Fresh(w) ==
  /\ StationOK(w) /\ w.err = "ok" /\ w.waived = {} /\ w.trapped = FALSE
  /\ \A n \in Links : w.grp[n]["g"] = NoGroup

\* igmp_start of one more link of a station that joined nothing.
LEMMA StartedIsFresh ==
  ASSUME NEW w, Fresh(w), NEW n \in Links, ~Member(w, n, "all")
  PROVE  /\ Fresh(Started(w, n)) /\ Idle(Started(w, n))
         /\ \A m \in Links \ {n} : Started(w, n).grp[m]["all"] = w.grp[m]["all"]
<1> DEFINE v == IgmpStart(w, n)
<1>0. "g" \in Groups /\ "all" \in Groups /\ "g" # "all"
  BY DEF Groups
<1>1. /\ StationOK(v) /\ v.trapped = w.trapped /\ v.waived = w.waived
      /\ SameGroupsBut(v, w, n, "all")
  BY IgmpStartStarts DEF Fresh
<1> HIDE DEF v
<1>2. /\ StationOK(Settled(v)) /\ Idle(Settled(v)) /\ Settled(v).grp = v.grp
      /\ Settled(v).waived = v.waived /\ Settled(v).trapped = v.trapped
  BY <1>1, SettledIsIdle
<1>3. \A m \in Links : v.grp[m]["g"] = NoGroup
  BY <1>0, <1>1 DEF SameGroupsBut, Fresh
<1>4. \A m \in Links \ {n} : v.grp[m]["all"] = w.grp[m]["all"]
  BY <1>0, <1>1 DEF SameGroupsBut
<1>5. Fresh(Settled(v)) /\ Idle(Settled(v))
  BY <1>1, <1>2, <1>3 DEF Fresh, Idle
<1>6. QED
  BY <1>2, <1>4, <1>5 DEF Started, v

\* The invariant holds once the interfaces are up.
LEMMA InitKeeps == IgmpInit => IgmpInv
<1> SUFFICES ASSUME IgmpInit PROVE IgmpInv
  OBVIOUS
<1> DEFINE lan == Started(NewStation, "lan")
           both == Started(lan, "wan")
<1>0. "lan" \in Links /\ "wan" \in Links \ {"lan"} /\ "all" \in Groups
  BY DEF Links, Groups
<1>1. Fresh(NewStation) /\ ~Member(NewStation, "lan", "all") /\ NewStation.grp["wan"]["all"] = NoGroup
  BY <1>0, NewStationOK DEF Fresh, NewStation, Member, NoGroup, Groups
<1>2. Fresh(lan) /\ Idle(lan) /\ lan.grp["wan"]["all"] = NoGroup
  BY <1>0, <1>1, StartedIsFresh
<1> HIDE DEF lan
<1>3. ~Member(lan, "wan", "all")
  BY <1>2 DEF Member, NoGroup
<1>4. Fresh(both) /\ Idle(both)
  BY <1>0, <1>2, <1>3, StartedIsFresh
<1> HIDE DEF both
<1>5. station = [a |-> both, b |-> lan] /\ router = NoRouter
  BY DEF IgmpInit, both, lan
<1>6. /\ holds \in [Stations -> [Links \cup {"any"} -> Nat]]
      /\ \A s \in Stations, x \in Links \cup {"any"} : holds[s][x] = 0
  BY DEF IgmpInit
<1>7. station \in [Stations -> StationStates] /\ \A s \in Stations : Fresh(station[s]) /\ Idle(station[s])
  <2>1. both \in StationStates /\ lan \in StationStates
    BY <1>2, <1>4 DEF Fresh, StationOK
  <2>2. station["a"] = both /\ station["b"] = lan /\ station = [s \in Stations |-> station[s]]
    BY <1>5 DEF Stations
  <2>3. QED
    BY <1>2, <1>4, <2>1, <2>2 DEF Stations
<1>8. /\ router \in RouterStates /\ router.due = 0
  BY <1>5 DEF NoRouter, RouterStates
<1>9. ASSUME NEW s \in Stations
      PROVE  Fits(station[s], holds[s], router) /\ ~Member(station[s], "lan", "g")
  <2>1. \A n \in Links : station[s].grp[n]["g"] = NoGroup /\ holds[s][n] + holds[s]["any"] = 0
    BY <1>6, <1>7 DEF Fresh
  <2>2. UsedAsHeld(station[s], holds[s]) /\ ~Member(station[s], "lan", "g")
    BY <1>0, <2>1 DEF UsedAsHeld, Member, NoGroup
  <2>3. ~station[s].trapped
    BY <1>7 DEF Fresh
  <2>4. QED
    BY <1>7, <2>2, <2>3 DEF Fits, Fresh
<1>10. Known(router, station)
  BY <1>8, <1>9 DEF Known
<1>11. QED
  BY <1>6, <1>7, <1>8, <1>9, <1>10 DEF IgmpInv

\* The invariant is about nothing but the variables.
LEMMA StutterKeeps == ASSUME IgmpInv, UNCHANGED igmpVars PROVE IgmpInv'
<1>1. station' = station /\ holds' = holds /\ router' = router
  BY DEF igmpVars
<1>2. QED
  BY <1>1 DEF IgmpInv, Fits, Idle, UsedAsHeld, Known, Trusted, Ready, Member, StationOK, Present

\* Every step keeps the invariant.
LEMMA NextKeeps == IgmpInv /\ [IgmpNext]_igmpVars => IgmpInv'
<1> SUFFICES ASSUME IgmpInv, [IgmpNext]_igmpVars PROVE IgmpInv'
  OBVIOUS
<1>1. ASSUME NEW s \in Stations, NEW x \in Links \cup {"any"}, Joins(s, x) \/ Leaves(s, x) PROVE IgmpInv'
  BY <1>1, JoinsKeeps, LeavesKeeps
<1>2. CASE Readds("a", "wan")
  BY <1>2, ReaddsKeeps
<1>3. CASE LinkComesUp("b", "lan")
  BY <1>3, LinkComesUpKeeps
<1>4. ASSUME NEW a \in {"any", "g"}, NEW time \in {0, 1, V1Tmr}, Asks(a, time) PROVE IgmpInv'
  BY <1>4, AsksKeeps
<1>5. ASSUME NEW s \in Stations, IgmpTicks(s) PROVE IgmpInv'
  BY <1>5, TicksKeeps
<1>6. CASE UNCHANGED igmpVars
  BY <1>6, StutterKeeps
<1>7. QED
  BY <1>1, <1>2, <1>3, <1>4, <1>5, <1>6 DEF IgmpNext

\* igmp.c for any pool of groups and any timer settings of two periods or more: while a station of the lan
\* is a member the router knows of one, unless a report found no pbuf or the router asked for answers within
\* one period; a group is used as often as it is held; the filter of an interface lets through the groups it
\* is in and no other; an idle member runs no timer; and nothing divides by zero but after such a query.
THEOREM IgmpIsSound == IgmpSpec => []IgmpSound
<1>1. IgmpSpec => []IgmpInv
  BY InitKeeps, NextKeeps, PTL DEF IgmpSpec
<1>2. QED
  BY <1>1, SoundFromInv, PTL

=============================================================================
