------------------------------- MODULE MCLink --------------------------------
(***************************************************************************)
(* Small instances of machines of lwIP that share no state: `focus' is the *)
(* one that runs. Those of the links and of IP.                            *)
(***************************************************************************)
EXTENDS PppNet, LwipArp, LwipReass, LwipIgmp

VARIABLE focus

Client == [allow |-> {"chap", "pap"}, demand |-> {}, secret |-> TRUE, comp |-> TRUE, our |-> 0, his |-> 0,
           dns |-> 0, wantsDns |-> TRUE, slots |-> 0, rechallenges |-> FALSE, echo |-> FALSE, seed |-> 0]
Server == [Client EXCEPT !.demand = {"chap", "pap"}, !.our = 9, !.his = 5, !.wantsDns = FALSE, !.seed = 4]

Secrets == BOOLEAN \* whether the near peer knows the secret

\* CHAP or, for a peer that knows nothing else, PAP.
Chap == {[near |-> [Client EXCEPT !.secret = s], far |-> Server, looped |-> FALSE, ticks |-> 3] : s \in Secrets}
Pap == {[near |-> [Client EXCEPT !.allow = {"pap"}, !.secret = s], far |-> [Server EXCEPT !.comp = FALSE],
         looped |-> FALSE, ticks |-> 3] : s \in Secrets}

\* Nobody is asked who he is; the options are proposed, lowered and refused.
Options == [near |-> [Client EXCEPT !.slots = 2],
            far |-> [Server EXCEPT !.demand = {}, !.seed = 0, !.dns = 7, !.slots = 1],
            looped |-> FALSE, ticks |-> 3]
NoAddress == [near |-> Client, far |-> [Server EXCEPT !.demand = {}, !.his = 0], looped |-> FALSE, ticks |-> 3]

\* Both sides demand something, again and again, and the near one counts echoes.
Mutual == {[near |-> [Client EXCEPT !.echo = TRUE, !.demand = {"pap"}, !.secret = s],
            far |-> [Server EXCEPT !.demand = {"chap"}, !.rechallenges = TRUE],
            looped |-> FALSE, ticks |-> 1] : s \in Secrets}

Loop == [near |-> Client, far |-> Client, looped |-> TRUE, ticks |-> 3]

MCScenarios == Chap \cup Pap \cup {Options, NoAddress, Loop} \cup Mutual

-----------------------------------------------------------------------------
\* A machine that does not run holds nothing, or stays as it starts.
PppOff == PppInit /\ looped
ArpOff == ArpInit /\ ~arp.queueing
ReassOff == host = "off" /\ onWire = "off" /\ unsent = "off" /\ repeats = "off"
IgmpOff == IgmpInit

Init ==
  \/ focus = "ppp" /\ PppInit /\ ArpOff /\ ReassOff /\ IgmpOff
  \/ focus = "arp" /\ ArpInit /\ PppOff /\ ReassOff /\ IgmpOff
  \/ focus = "reass" /\ ReassInit /\ PppOff /\ ArpOff /\ IgmpOff
  \/ focus = "igmp" /\ IgmpInit /\ PppOff /\ ArpOff /\ ReassOff

Next ==
  /\ UNCHANGED focus
  /\ \/ focus = "ppp" /\ PppNext /\ UNCHANGED <<arpVars, reassVars, igmpVars>>
     \/ focus = "arp" /\ ArpNext /\ UNCHANGED <<pppVars, reassVars, igmpVars>>
     \/ focus = "reass" /\ ReassNext /\ UNCHANGED <<pppVars, arpVars, igmpVars>>
     \/ focus = "igmp" /\ IgmpNext /\ UNCHANGED <<pppVars, arpVars, reassVars>>

Spec == Init /\ [][Next]_<<focus, pppVars, arpVars, reassVars, igmpVars>>

-----------------------------------------------------------------------------
(* What each machine promises while it runs; its module says more of it. *)

\* What each PPP peer asked for last is what the other believes it agreed to,
\* once nothing is on the line and no answer is waited for.
OptionsAgreed == focus = "ppp" => OptionsAgree

\* When nothing happens any more, a PPP link that one side holds open is open
\* on both, carries IP on both and has told both applications so; a line that
\* returns what was sent never carries IP.
LinkWhole == focus = "ppp" => NoHalfOpenLink

\* Reassembly: a datagram is passed up when its last piece arrives, with the
\* pieces that are its own in order and the header of the first; each pbuf is
\* counted, and no assertion fails but two.
ReassHolds == focus = "reass" => ReassSound
=============================================================================
