------------------------------- MODULE MCStack -------------------------------
(***************************************************************************)
(* Small instances of machines of lwIP that share no state: `focus' is the *)
(* one that runs. Those of the host.                                       *)
(***************************************************************************)
EXTENDS LwipSockets, LwipAddress, LwipDns, LwipPbuf

VARIABLE focus

Program(types, max, ns, cs) == [types |-> types, max |-> max, selects |-> ns, calls |-> cs \cup {"socket"}]

\* Applications that between them make every call in every state it can find.
SmallPrograms == {
  Program({"tcp"}, 5, 0, {"connect", "recv", "shutdown"}),
  Program({"tcp"}, 4, 0, {"listen", "accept", "recv", "option", "nonblock"}),
  Program({"tcp"}, 4, 0, {"connect", "send", "close", "shutdown", "option", "nonblock"}),
  Program({"udp"}, 3, 0, {"connect", "send", "recv", "option", "nonblock", "close"}),
  Program({"tcp", "udp"}, 3, 1, {"connect", "recv", "close"}),
  Program({"tcp"}, 3, 1, {"listen", "accept"})}

-----------------------------------------------------------------------------
\* A machine that does not run holds nothing, or stays as it starts.
SocketsOff == SocketsInit /\ program = CHOOSE p \in Programs : TRUE
AddressOff == AddressInit
DnsOff == dns = "off" /\ questions = "off" /\ waiting = "off" /\ dnsMishaps = "off"
PbufOff == heap = "off" /\ held = "off" /\ want = "off" /\ edits = "off"

Init ==
  \/ focus = "sockets" /\ SocketsInit /\ AddressOff /\ DnsOff /\ PbufOff
  \/ focus = "address" /\ AddressInit /\ SocketsOff /\ DnsOff /\ PbufOff
  \/ focus = "dns" /\ DnsInit /\ SocketsOff /\ AddressOff /\ PbufOff
  \/ focus = "pbuf" /\ PbufInit /\ SocketsOff /\ AddressOff /\ DnsOff

Next ==
  /\ UNCHANGED focus
  /\ \/ focus = "sockets" /\ SocketsNext /\ UNCHANGED <<addressVars, dnsVars, pbufVars>>
     \/ focus = "address" /\ AddressNext /\ UNCHANGED <<sockVars, dnsVars, pbufVars>>
     \/ focus = "dns" /\ DnsNext /\ UNCHANGED <<sockVars, addressVars, pbufVars>>
     \/ focus = "pbuf" /\ PbufNext /\ UNCHANGED <<sockVars, addressVars, dnsVars>>

Spec == Init /\ [][Next]_<<focus, sockVars, addressVars, dnsVars, pbufVars>>

-----------------------------------------------------------------------------
(* What each machine promises while it runs; its module says more of it. *)

\* DNS: each request waits in one row with a timer that ends, its callback is
\* called once with an address of its name, and a new request takes the row
\* asked for first.
DnsHolds == focus = "dns" => DnsSound

\* Pbufs: each lives as long as somebody refers to it and is counted as often,
\* and each holder finds the bytes it put there, whatever the others do.
PbufHolds == focus = "pbuf" => PbufSound
=============================================================================
