---------------------------- MODULE ProxyServer ----------------------------
(***************************************************************************)
(* The HTTP proxy server of NEKit: GCDProxyServer's listening socket and   *)
(* ProxyServer's array of tunnels.  A tunnel is abstracted to whether it   *)
(* is open, closing or gone (module Tunnel has the detail).                *)
(*                                                                         *)
(* start() and stop() run synchronously on NEKit's serial queue.  Two      *)
(* things they leave on that queue outlive them: the block that hands an   *)
(* accepted connection to the delegate, which holds the delegate itself,   *)
(* and the cancel handler that closes the descriptor of a listening        *)
(* socket.                                                                 *)
(*                                                                         *)
(* The operations are fragments composed by module TunnelProvider.         *)
(***************************************************************************)
EXTENDS Naturals

CONSTANTS Conns   \* the connections that clients make

VARIABLES
  listening,  \* listenSocket # nil
  closingFds, \* listening sockets closed whose descriptor is still open
  conns,      \* state of each connection, and of its tunnel in `tunnels'
  stops,      \* how often the server was stopped
  openedIn    \* the value of stops when the connection's tunnel was opened

sVars == <<listening, closingFds, conns, stops, openedIn>>

TypeOKServer ==
  /\ listening \in BOOLEAN
  /\ closingFds \in Nat
  /\ conns \in [Conns -> {"new", "accepted", "open", "closing", "closed"}]
  /\ stops \in Nat
  /\ openedIn \in [Conns -> Nat]

InitServer ==
  /\ listening = FALSE
  /\ closingFds = 0
  /\ conns = [c \in Conns |-> "new"]
  /\ stops = 0
  /\ openedIn = [c \in Conns |-> 0]

-----------------------------------------------------------------------------

\* The port is taken by a socket that listens or whose close is under way.
PortTaken == listening \/ closingFds > 0

\* start: listen on a new socket.
ServerListen ==
  /\ listening' = TRUE
  /\ UNCHANGED <<closingFds, conns, stops, openedIn>>

\* Mutant of ServerStop: the tunnels are left alone.
ServerStopListening ==
  /\ listening' = FALSE
  /\ closingFds' = IF listening THEN closingFds + 1 ELSE closingFds
  /\ stops' = stops + 1
  /\ UNCHANGED <<conns, openedIn>>

\* stop: close the listening socket, forceClose every tunnel.
ServerStop ==
  /\ listening' = FALSE
  /\ closingFds' = IF listening THEN closingFds + 1 ELSE closingFds
  /\ stops' = stops + 1
  /\ conns' = [c \in Conns |-> IF conns[c] = "open" THEN "closing" ELSE conns[c]]
  /\ UNCHANGED openedIn

\* Mutant of CloseFd: the descriptor may be closed again.
CloseFdAgain ==
  /\ closingFds' = closingFds - 1
  /\ UNCHANGED <<listening, conns, stops, openedIn>>

\* The cancel handler of a closed listening socket.
CloseFd ==
  /\ closingFds > 0
  /\ closingFds' = closingFds - 1
  /\ UNCHANGED <<listening, conns, stops, openedIn>>

\* doAccept: a client connected; the delegate will be told by a block.
DoAccept(c) ==
  /\ listening
  /\ conns[c] = "new"
  /\ conns' = [conns EXCEPT ![c] = "accepted"]
  /\ UNCHANGED <<listening, closingFds, stops, openedIn>>

\* That block: didAcceptNewSocket opens a tunnel, whether or not the server
\* was stopped since.
DidAccept(c) ==
  /\ conns[c] = "accepted"
  /\ conns' = [conns EXCEPT ![c] = "open"]
  /\ openedIn' = [openedIn EXCEPT ![c] = stops]
  /\ UNCHANGED <<listening, closingFds, stops>>

\* A tunnel starts to close by itself.
TunnelCloses(c) ==
  /\ conns[c] = "open"
  /\ conns' = [conns EXCEPT ![c] = "closing"]
  /\ UNCHANGED <<listening, closingFds, stops, openedIn>>

\* tunnelDidClose removes the tunnel.
TunnelDidClose(c) ==
  /\ conns[c] = "closing"
  /\ conns' = [conns EXCEPT ![c] = "closed"]
  /\ UNCHANGED <<listening, closingFds, stops, openedIn>>

=============================================================================
