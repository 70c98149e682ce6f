------------------------------ MODULE LwipIgmp ------------------------------
(***************************************************************************)
(* lwIP's IGMP (igmp.c) on two stations of one link, whose router asks who *)
(* is still a member of a group, and on another link of station a.  What a *)
(* station sends reaches the other and the router before anything else is  *)
(* sent.                                                                   *)
(*                                                                         *)
(* A handler maps the state w of a station to the state it leaves.  w.rand *)
(* is the random number it draws, w.traps is whether a division by zero  *)
(* ends the program, w.mem whether there is a pbuf for a report.           *)
(***************************************************************************)
EXTENDS Integers, FiniteSets, Sequences

CONSTANTS
  IgmpPool,     \* MEMP_NUM_IGMP_GROUP
  V1Tmr, JoinTmr, \* IGMP_V1_DELAYING_MEMBER_TMR, IGMP_JOIN_DELAYING_MEMBER_TMR
  MaxHolds,     \* joins an application holds
  MaxIgmpTrouble \* reports without memory, interfaces stopped or taken up again

\* igmp.h sets 10 and 5; a pool that is full is an error like any other.
ASSUME IgmpTimes == V1Tmr \in Nat \ {0, 1} /\ JoinTmr \in Nat \ {0, 1}

Links == {"lan", "wan"} \* in the order of netif_list
Stations == {"a", "b"}
Groups == {"all", "g"}  \* the group all systems are in, and another

VARIABLES
  station,   \* w of each
  holds,     \* holds[s][x]: how often the application of s has joined g at x, a link or "any"
  router,    \* what the router of the lan knows about g
  igmpTrouble

igmpVars == <<station, holds, router, igmpTrouble>>

NoGroup == [st |-> "none", timer |-> 0, last |-> FALSE, use |-> 0]
NewStation ==
  [grp |-> [n \in Links |-> [a \in Groups |-> NoGroup]], filter |-> {}, out |-> <<>>, rand |-> 0,
   mem |-> TRUE, traps |-> FALSE, trapped |-> FALSE, err |-> "ok", waived |-> {}]

Member(w, n, a) == w.grp[n][a].st # "none"
Present(w) == {x \in Links \X Groups : Member(w, x[1], x[2])}

\* A group that is new has no member yet.
LookupGroup(w, n, a) ==
  IF Member(w, n, a) THEN w
  ELSE IF Cardinality(Present(w)) = IgmpPool THEN [w EXCEPT !.err = "mem"]
  ELSE [w EXCEPT !.grp[n][a] = [NoGroup EXCEPT !.st = "non"]]

IdleMember(e) == [e EXCEPT !.st = "idle", !.use = @ + 1]
IgmpStart(w, n) ==
  LET v == LookupGroup(w, n, "all")
  IN IF v.err # "ok" THEN v
     ELSE [v EXCEPT !.grp[n]["all"] = IdleMember(@), !.filter = @ \cup {<<n, "all">>}]

IgmpStop(w, n) == [w EXCEPT !.grp[n] = [a \in Groups |-> NoGroup], !.filter = {x \in @ : x[1] # n}]

\* A remainder by zero traps, or is the dividend.
StartTimer(w, n, a, time) ==
  IF time > 1 THEN [w EXCEPT !.grp[n][a].timer = (w.rand % (time - 1)) + 1]
  ELSE [w EXCEPT !.grp[n][a].timer = w.rand + 1, !.trapped = w.traps]

\* Whether a group that is asked about starts its timer; and a mistake, with which
\* one whose timer went off before stays silent.
AsksOnce(e, time) == e.st = "idle" \/ (e.st = "delaying" /\ time < e.timer)
AsksAgain(e, time) == e.st = "idle" \/ (e.st = "delaying" /\ (e.timer = 0 \/ time < e.timer))

DelayingMember(w, n, a, time) ==
  IF AsksAgain(w.grp[n][a], time) THEN [StartTimer(w, n, a, time) EXCEPT !.grp[n][a].st = "delaying"] ELSE w

IgmpSend(w, n, a, type) ==
  IF ~w.mem THEN w
  ELSE [w EXCEPT !.out = Append(@, [type |-> type, n |-> n, a |-> a]),
                 !.grp[n][a].last = @ \/ type = "report"]

ReportGroups(w, n) == DelayingMember(DelayingMember(w, n, "all", JoinTmr), n, "g", JoinTmr)

\* A query for group a; "any" is all groups but that of all systems.
AnswerTime(a, time) == IF a = "any" /\ time = 0 THEN V1Tmr ELSE time
IgmpQuery(w, n, a, time) ==
  IF ~Member(w, n, "all") THEN w
  ELSE DelayingMember(w, n, IF a = "any" THEN "g" ELSE a, AnswerTime(a, time))

IgmpReport(w, n, a) ==
  IF w.grp[n][a].st # "delaying" THEN w
  ELSE [w EXCEPT !.grp[n][a] = [@ EXCEPT !.timer = 0, !.st = "idle", !.last = FALSE]]

\* Joins the group on one link.
JoinOn(w, n) ==
  LET v == LookupGroup(w, n, "g")
      first == StartTimer(IgmpSend([v EXCEPT !.filter = @ \cup {<<n, "g">>}], n, "g", "report"), n, "g", JoinTmr)
      joined == IF v.grp[n]["g"].st = "non" THEN [first EXCEPT !.grp[n]["g"].st = "delaying"] ELSE v
  IN IF v.err # "ok" THEN v ELSE [joined EXCEPT !.grp[n]["g"].use = @ + 1]

LeaveOn(w, n) ==
  LET e == w.grp[n]["g"]
      said == IF e.last THEN IgmpSend(w, n, "g", "leave") ELSE w
  IN IF ~Member(w, n, "g") THEN w
     ELSE IF e.use <= 1 THEN [said EXCEPT !.grp[n]["g"] = NoGroup, !.filter = @ \ {<<n, "g">>}]
     ELSE [w EXCEPT !.grp[n]["g"].use = @ - 1]

\* The links a call for x is about: those that have IGMP.
At(w, x) == {n \in Links : Member(w, n, "all") /\ x \in {n, "any"}}

\* The first link without memory ends the call, those before it keep the use.
JoinNext(w, v, x, n) ==
  IF n \notin At(w, x) \/ v.err # "ok" THEN v
  ELSE IF JoinOn(v, n).err = "ok" THEN JoinOn(v, n)
  ELSE [v EXCEPT !.err = "mem", !.waived = @ \cup {m \in Links : v.grp[m]["g"].use # w.grp[m]["g"].use}]
JoinGroup(w, x) == JoinNext(w, JoinNext(w, w, x, "lan"), x, "wan")

LeaveNext(w, v, x, n) == IF n \in At(w, x) THEN LeaveOn(v, n) ELSE v
LeaveGroup(w, x) == LeaveNext(w, LeaveNext(w, w, x, "lan"), x, "wan")

IgmpTimeout(w, n, a) == IF w.grp[n][a].st = "delaying" THEN IgmpSend(w, n, a, "report") ELSE w
TimerOf(w, n, a) ==
  LET v == [w EXCEPT !.grp[n][a].timer = @ - 1]
  IN IF w.grp[n][a].timer = 0 THEN w
     ELSE IF v.grp[n][a].timer = 0 THEN IgmpTimeout(v, n, a) ELSE v
TimersOf(w, n) == TimerOf(TimerOf(w, n, "all"), n, "g")
IgmpTmr(w) == TimersOf(TimersOf(w, "lan"), "wan")

-----------------------------------------------------------------------------
NoRouter == [knows |-> FALSE, due |-> 0, left |-> FALSE, hasty |-> FALSE, unheard |-> FALSE]

Settled(w) == [w EXCEPT !.out = <<>>, !.mem = TRUE, !.traps = FALSE, !.err = "ok", !.rand = 0]
Started(w, n) == Settled(IgmpStart(w, n))

IgmpInit ==
  /\ station = [a |-> Started(Started(NewStation, "lan"), "wan"), b |-> Started(NewStation, "lan")]
  /\ holds = [s \in Stations |-> [x \in Links \cup {"any"} |-> 0]]
  /\ router = NoRouter /\ igmpTrouble = 0

Lan(w) == {w.out[k] : k \in {k \in DOMAIN w.out : w.out[k].n = "lan"}}

Said(w, type, a) == \E m \in Lan(w) : m.type = type /\ m.a = a

\* The other station hears the reports of w on the lan.
HearsOf(v, w, a) == IF Said(w, "report", a) THEN IgmpReport(v, "lan", a) ELSE v
Hears(v, w) == HearsOf(HearsOf(v, w, "all"), w, "g")
\* So does the router.
RouterHears(r, w) ==
  [r EXCEPT !.knows = @ \/ Said(w, "report", "g"), !.due = IF Said(w, "report", "g") THEN 0 ELSE @,
            !.left = @ \/ Said(w, "leave", "g")]

\* Station s becomes w, with what follows on the lan.
Acts(s, w) ==
  /\ station' = [x \in Stations |-> IF x = s THEN Settled(w) ELSE Hears(station[x], w)]
  /\ router' = [RouterHears(router, w) EXCEPT !.unheard = @ \/ ~w.mem]
Runs(s, mem, rand) == [station[s] EXCEPT !.mem = mem, !.rand = rand]
Rands == 0 .. V1Tmr - 2

IgmpTroubles == igmpTrouble < MaxIgmpTrouble /\ igmpTrouble' = igmpTrouble + 1
Memories(mem) == IF mem THEN igmpTrouble' = igmpTrouble ELSE IgmpTroubles
Working(s) == ~station[s].trapped

Joins(s, x) ==
  /\ Working(s) /\ holds[s]["lan"] + holds[s]["wan"] + holds[s]["any"] < MaxHolds
  /\ \E mem \in BOOLEAN, rand \in Rands :
       LET w == JoinGroup(Runs(s, mem, rand), x)
       IN /\ Memories(mem /\ w.err = "ok") /\ Acts(s, w)
          /\ holds' = IF w.err = "ok" /\ At(w, x) # {} THEN [holds EXCEPT ![s][x] = @ + 1] ELSE holds
Leaves(s, x) ==
  /\ Working(s) /\ holds[s][x] > 0 /\ holds' = [holds EXCEPT ![s][x] = @ - 1]
  /\ \E mem \in BOOLEAN : Memories(mem) /\ Acts(s, LeaveGroup(Runs(s, mem, 0), x))

\* An interface is removed and added again, or its link comes back.
Readds(s, n) ==
  /\ Working(s) /\ IgmpTroubles /\ UNCHANGED holds
  /\ LET w == IgmpStart(IgmpStop(station[s], n), n)
     IN Acts(s, [w EXCEPT !.waived = @ \cup {n}]) 
LinkComesUp(s, n) ==
  /\ Working(s) /\ IgmpTroubles /\ UNCHANGED holds
  /\ \E rand \in Rands : Acts(s, ReportGroups(Runs(s, TRUE, rand), n))

\* The router asks for all groups, or for g when a member has left.
Asks(a, time) ==
  /\ router.knows /\ router.due = 0 /\ (a = "g" => router.left)
  /\ router' = [router EXCEPT !.due = IF time = 0 THEN V1Tmr ELSE time, !.left = FALSE,
                             !.hasty = @ \/ AnswerTime(a, time) <= 1]
  /\ \E rand \in [Stations -> Rands], traps \in BOOLEAN :
       station' = [s \in Stations |->
         IF Working(s) THEN Settled(IgmpQuery([Runs(s, TRUE, rand[s]) EXCEPT !.traps = traps], "lan", a, time))
         ELSE station[s]]
  /\ UNCHANGED <<holds, igmpTrouble>>

\* A period passes, for one station first.
IgmpTicks(first) ==
  LET other == IF first = "a" THEN "b" ELSE "a"
      w == IF Working(first) THEN IgmpTmr(station[first]) ELSE station[first]
      heard == Hears(station[other], w)
      v == IF Working(other) THEN IgmpTmr(heard) ELSE heard
      r == RouterHears(RouterHears(router, w), v)
  IN /\ station' = [s \in Stations |-> Settled(IF s = first THEN Hears(w, v) ELSE v)]
     /\ router' = [r EXCEPT !.knows = @ /\ r.due # 1, !.due = IF @ > 0 THEN @ - 1 ELSE 0]
     /\ UNCHANGED <<holds, igmpTrouble>>

IgmpNext ==
  \/ \E s \in Stations, x \in Links \cup {"any"} : (s = "b" => x = "any") /\ (Joins(s, x) \/ Leaves(s, x))
  \/ Readds("a", "wan") \/ LinkComesUp("b", "lan")
  \/ \E a \in {"any", "g"}, time \in {0, 1, V1Tmr} : Asks(a, time)
  \/ \E s \in Stations : IgmpTicks(s)

IgmpSpec == IgmpInit /\ [][IgmpNext]_igmpVars

-----------------------------------------------------------------------------
\* While a station of the lan is a member the router knows of one, unless a report
\* found no memory or the router asked for answers within one period; a group is
\* used as often as it is held, and the filter of an interface lets through the
\* groups it is in and no other.
IgmpSound ==
  /\ \A s \in Stations : LET w == station[s] IN
       /\ w.filter = Present(w)
       /\ \A n \in Links \ w.waived : w.grp[n]["g"].use = IF Member(w, n, "all") THEN holds[s][n] + holds[s]["any"] ELSE 0
       /\ \A n \in Links, a \in Groups : w.grp[n][a].st = "idle" => w.grp[n][a].timer = 0
       /\ w.trapped => router.hasty
  /\ ~router.unheard /\ ~router.hasty /\ (\E s \in Stations : Member(station[s], "lan", "g")) => router.knows
=============================================================================
