------------------------ MODULE TunnelProviderProofs ------------------------
(***************************************************************************)
(* Proofs about module TunnelProvider, for any clients, networks and       *)
(* number of changes: its types, that a restart is no outage, that no      *)
(* tunnel outlives a restart, and where the provider can crash.            *)
(*                                                                         *)
(* ProviderInv, the inductive invariant, says what the flags of the        *)
(* provider know about the server: while the process runs there is one     *)
(* from the first start to stopTunnel, and it listens except in the middle *)
(* of a restart, which always belongs to an unanswered call.               *)
(***************************************************************************)
EXTENDS TunnelProvider, TLAPS

Accountable ==
  /\ Running => (hasServer <=> started /\ ~stopping)
  /\ Running /\ stopping => started
  /\ Running /\ hasServer /\ ~restarting => listening
  /\ restarting => started /\ ~listening /\ settings > 0

ProviderInv ==
  /\ TypeOK
  /\ Accountable
  /\ NoTunnelOutlivesRestart
  /\ CrashesInRacesOnly

-----------------------------------------------------------------------------

\* The initial states have the types of TypeOK and satisfy the invariant.
LEMMA InitProvider == Init => ProviderInv
<1> SUFFICES ASSUME Init PROVE ProviderInv
  OBVIOUS
<1>1. TypeOKServer
  BY DEF Init, InitServer, TypeOKServer
<1>2. TypeOK
  <2>1. changes \in 0..MaxChanges
    BY ProviderAssumption DEF Init
  <2>2. /\ restarting \in BOOLEAN /\ started \in BOOLEAN
        /\ hasServer \in BOOLEAN /\ stopping \in BOOLEAN
    BY Zenon DEF Init
  <2>3. timers \in Nat /\ settings \in Nat
    BY DEF Init
  <2>4. path \in Paths /\ lastPath \in Paths /\ seen \subseteq Paths
    BY DEF Init, Paths
  <2> QED
    BY <1>1, <2>1, <2>2, <2>3, <2>4 DEF Init, TypeOK
<1>3. Accountable
  BY Zenon DEF Init, Accountable, Running
<1>4. NoTunnelOutlivesRestart /\ CrashesInRacesOnly
  BY DEF Init, InitServer, NoTunnelOutlivesRestart, CrashesInRacesOnly
<1> QED
  BY <1>2, <1>3, <1>4 DEF ProviderInv

\* Stopping the server keeps its types.
LEMMA StopTypes == TypeOKServer /\ ServerStop => TypeOKServer'
<1> SUFFICES ASSUME TypeOKServer, ServerStop PROVE TypeOKServer'
  OBVIOUS
<1>1. closingFds' \in Nat
  <2>1. closingFds' = closingFds + 1 \/ closingFds' = closingFds
    BY Zenon DEF ServerStop
  <2> QED
    BY <2>1 DEF TypeOKServer
<1>3. stops' \in Nat
  BY DEF TypeOKServer, ServerStop
<1>4. listening' \in BOOLEAN
  BY DEF ServerStop
<1>2. conns' \in [Conns -> {"new", "accepted", "open", "closing", "closed"}]
  BY DEF TypeOKServer, ServerStop
<1> QED
  BY <1>1, <1>2, <1>3, <1>4 DEF TypeOKServer, ServerStop

\* Every step keeps the types.  A restart that ends answers a call, and there is
\* one to answer.
LEMMA TypeStep == TypeOK /\ Accountable /\ [Next]_vars => TypeOK'
<1> SUFFICES ASSUME TypeOK, Accountable, [Next]_vars PROVE TypeOK'
  OBVIOUS
<1> USE ProviderAssumption, PathsAssumption DEF TypeOK, TypeOKServer
<1>1. ASSUME NEW p \in Paths, PathChanges(p) PROVE TypeOK'
  BY <1>1 DEF PathChanges, PathObserved, sVars
<1>2. CASE TimerStartsTunnel
  BY <1>2 DEF TimerStartsTunnel, sVars
<1>3. CASE SettingsFail
  BY <1>3 DEF SettingsFail, sVars
<1>4. CASE FirstStart
  BY <1>4 DEF FirstStart, ServerListen, PathObserved, sVars
<1>5. CASE RestartStop
  <2>1. TypeOKServer'
    BY <1>5, StopTypes DEF RestartStop, sVars
  <2>2. process' \in {"running", "exited", "crashed"} /\ restarting' \in BOOLEAN
    BY <1>5 DEF RestartStop
  <2> QED
    BY <1>5, <2>1, <2>2 DEF RestartStop
<1>6. CASE RestartStart
  <2>1. TypeOKServer'
    BY <1>6 DEF RestartStart, ServerListen, sVars
  <2>2. process' \in {"running", "exited", "crashed"} /\ seen' \subseteq Paths
    BY <1>6 DEF RestartStart
  <2>3. restarting' \in BOOLEAN
    BY <1>6, Zenon DEF RestartStart
  <2>4. settings' \in Nat
    <3>1. settings \in Nat /\ settings > 0
      BY <1>6 DEF RestartStart, Accountable
    <3>2. settings - 1 \in Nat
      BY <3>1
    <3>3. settings' = settings - 1 \/ settings' = settings
      BY <1>6, Zenon DEF RestartStart, sVars
    <3> QED
      BY <3>1, <3>2, <3>3, Zenon
  <2> QED
    BY <1>6, <2>1, <2>2, <2>3, <2>4 DEF RestartStart
<1>7. CASE StopTunnel
  <2>1. TypeOKServer'
    BY <1>7, StopTypes DEF StopTunnel, sVars
  <2>2. process' \in {"running", "exited", "crashed"} /\ hasServer' \in BOOLEAN
    BY <1>7 DEF StopTunnel
  <2> QED
    BY <1>7, <2>1, <2>2 DEF StopTunnel
<1>8. CASE Exit
  BY <1>8 DEF Exit, sVars
<1>9. CASE ServerStep(CloseFd)
  BY <1>9 DEF ServerStep, CloseFd, pvVars
<1>10. ASSUME NEW c \in Conns,
              \/ ServerStep(DoAccept(c))
              \/ ServerStep(DidAccept(c))
              \/ ServerStep(TunnelCloses(c))
              \/ ServerStep(TunnelDidClose(c))
       PROVE  TypeOK'
  BY <1>10 DEF ServerStep, DoAccept, DidAccept, TunnelCloses, TunnelDidClose, pvVars
<1>11. CASE Gone \/ UNCHANGED vars
  BY <1>11 DEF Gone, vars, sVars, pvVars
<1> QED
  BY <1>1, <1>2, <1>3, <1>4, <1>5, <1>6, <1>7, <1>8, <1>9, <1>10, <1>11 DEF Next

\* Every step keeps what the flags know about the server.
LEMMA AccountableStep == TypeOK /\ Accountable /\ [Next]_vars => Accountable'
<1> SUFFICES ASSUME TypeOK, Accountable, [Next]_vars PROVE Accountable'
  OBVIOUS
<1> USE DEF TypeOK, TypeOKServer, Accountable, Running
<1>1. ASSUME NEW p \in Paths, PathChanges(p) PROVE Accountable'
  BY <1>1 DEF PathChanges, sVars
<1>2. CASE TimerStartsTunnel
  BY <1>2 DEF TimerStartsTunnel, sVars
<1>3. CASE SettingsFail
  BY <1>3 DEF SettingsFail, sVars
<1>4. CASE FirstStart
  \* Nothing was stopped and nothing is being restarted before the first start:
  \* the server is new, and listens.
  <2>1. ~restarting /\ ~restarting' /\ process' = process
    BY <1>4 DEF FirstStart
  <2>2. ~stopping /\ ~stopping'
    \* stopTunnel before the first start is the end of the process.
    BY <1>4 DEF FirstStart
  <2> QED
    BY <1>4, <2>1, <2>2 DEF FirstStart, ServerListen
<1>5. CASE RestartStop
  BY <1>5 DEF RestartStop, ServerStop, sVars
<1>6. CASE RestartStart
  <2>1. CASE /\ hasServer /\ ServerListen
             /\ restarting' = FALSE /\ UNCHANGED process
    BY <1>6, <2>1, Zenon DEF RestartStart, ServerListen
  <2>2. CASE process' = "crashed" /\ UNCHANGED <<sVars, settings, restarting, seen>>
    BY <1>6, <2>2 DEF RestartStart, sVars
  <2> QED
    BY <1>6, <2>1, <2>2, Zenon DEF RestartStart
<1>7. CASE StopTunnel
  BY <1>7 DEF StopTunnel, ServerStop, sVars
<1>8. CASE Exit
  BY <1>8 DEF Exit, sVars
<1>9. CASE ServerStep(CloseFd)
  BY <1>9 DEF ServerStep, CloseFd, pvVars
<1>10. ASSUME NEW c \in Conns,
              \/ ServerStep(DoAccept(c))
              \/ ServerStep(DidAccept(c))
              \/ ServerStep(TunnelCloses(c))
              \/ ServerStep(TunnelDidClose(c))
       PROVE  Accountable'
  BY <1>10 DEF ServerStep, DoAccept, DidAccept, TunnelCloses, TunnelDidClose, pvVars
<1>11. CASE Gone \/ UNCHANGED vars
  BY <1>11 DEF Gone, vars, sVars, pvVars
<1> QED
  BY <1>1, <1>2, <1>3, <1>4, <1>5, <1>6, <1>7, <1>8, <1>9, <1>10, <1>11 DEF Next

\* A tunnel that is open was opened since the server was last stopped: stop()
\* leaves no tunnel open, and a tunnel that opens takes down the present count.
LEMMA RestartStep ==
  TypeOK /\ NoTunnelOutlivesRestart /\ [Next]_vars => NoTunnelOutlivesRestart'
<1> SUFFICES ASSUME TypeOK, NoTunnelOutlivesRestart, [Next]_vars
             PROVE  NoTunnelOutlivesRestart'
  OBVIOUS
<1> USE DEF NoTunnelOutlivesRestart
<1>1. CASE UNCHANGED <<conns, stops, openedIn>>
  BY <1>1
<1>2. CASE ServerStop
  BY <1>2 DEF ServerStop, TypeOK, TypeOKServer
<1>3. ASSUME NEW c \in Conns, DidAccept(c) PROVE NoTunnelOutlivesRestart'
  BY <1>3 DEF DidAccept, TypeOK, TypeOKServer
<1>4. ASSUME NEW c \in Conns, DoAccept(c) \/ TunnelCloses(c) \/ TunnelDidClose(c)
      PROVE  NoTunnelOutlivesRestart'
  BY <1>4 DEF DoAccept, TunnelCloses, TunnelDidClose, TypeOK, TypeOKServer
<1>5. \/ UNCHANGED <<conns, stops, openedIn>>
      \/ ServerStop
      \/ \E c \in Conns :
           DidAccept(c) \/ DoAccept(c) \/ TunnelCloses(c) \/ TunnelDidClose(c)
  <2>1. CASE \/ \E p \in Paths : PathChanges(p)
             \/ TimerStartsTunnel \/ SettingsFail \/ Exit
             \/ Gone \/ UNCHANGED vars
    BY <2>1 DEF PathChanges, TimerStartsTunnel, SettingsFail, Exit, Gone, vars, sVars
  <2>2. CASE FirstStart
    BY <2>2 DEF FirstStart, ServerListen
  <2>3. CASE RestartStop
    BY <2>3 DEF RestartStop, sVars
  <2>4. CASE RestartStart
    BY <2>4 DEF RestartStart, ServerListen, sVars
  <2>5. CASE StopTunnel
    BY <2>5 DEF StopTunnel, sVars
  <2>6. CASE ServerStep(CloseFd)
    BY <2>6 DEF ServerStep, CloseFd
  <2>7. CASE \E c \in Conns : \/ ServerStep(DoAccept(c))
                             \/ ServerStep(DidAccept(c))
                             \/ ServerStep(TunnelCloses(c))
                             \/ ServerStep(TunnelDidClose(c))
    BY <2>7 DEF ServerStep
  <2> QED
    BY <2>1, <2>2, <2>3, <2>4, <2>5, <2>6, <2>7 DEF Next
<1> QED
  BY <1>1, <1>2, <1>3, <1>4, <1>5

\* A crash is one of the three: the forced unwrap of proxyServer finds nil, or
\* the port is taken.
LEMMA CrashStep ==
  TypeOK /\ Accountable /\ CrashesInRacesOnly /\ [Next]_vars => CrashesInRacesOnly'
<1> SUFFICES ASSUME TypeOK, Accountable, CrashesInRacesOnly, [Next]_vars,
                    process' = "crashed"
             PROVE  CrashesInRacesOnly'
  BY DEF CrashesInRacesOnly
<1> USE DEF CrashesInRacesOnly
<1>1. CASE process = "crashed"
  <2>1. UNCHANGED vars
    BY <1>1 DEF Next, Running, PathChanges, TimerStartsTunnel, SettingsFail, FirstStart,
                RestartStop, RestartStart, StopTunnel, Exit, ServerStep, Gone
  <2> QED
    BY <1>1, <2>1 DEF vars, sVars, pvVars
<1>2. CASE Running
  <2>1. RestartStop \/ RestartStart \/ StopTunnel
    BY <1>2 DEF Next, Running, PathChanges, TimerStartsTunnel, SettingsFail, FirstStart,
                Exit, ServerStep, Gone, vars, pvVars
  <2>2. CASE RestartStop
    <3>1. ~hasServer /\ started /\ settings > 0 /\ UNCHANGED <<stopping, settings>>
      BY <1>2, <2>2 DEF RestartStop, Running
    <3>2. stopping
      BY <1>2, <3>1 DEF Accountable, TypeOK
    <3> QED
      BY <3>1, <3>2
  <2>3. CASE RestartStart
    <3>1. /\ restarting /\ (~hasServer \/ PortTaken)
          /\ UNCHANGED <<stopping, settings, restarting, closingFds>>
      BY <1>2, <2>3 DEF RestartStart, Running, sVars
    <3>2. started /\ ~listening /\ settings > 0
      BY <2>3 DEF RestartStart, Accountable
    <3>3. CASE ~hasServer
      BY <1>2, <3>1, <3>2, <3>3 DEF Accountable, TypeOK
    <3>4. CASE PortTaken
      BY <2>3, <3>1, <3>2, <3>4 DEF PortTaken, RestartStart
    <3> QED
      BY <3>1, <3>3, <3>4
  <2>4. CASE StopTunnel
    <3>1. ~hasServer /\ ~stopping /\ stopping' = TRUE /\ UNCHANGED started
      BY <1>2, <2>4 DEF StopTunnel, Running
    <3>2. ~started
      BY <1>2, <3>1 DEF Accountable, TypeOK
    <3> QED
      BY <3>1, <3>2
  <2> QED
    BY <2>1, <2>2, <2>3, <2>4
<1>3. CASE process = "exited"
  BY <1>3 DEF Next, Running, PathChanges, TimerStartsTunnel, SettingsFail, FirstStart,
              RestartStop, RestartStart, StopTunnel, Exit, ServerStep, Gone, vars, pvVars
<1> QED
  BY <1>1, <1>2, <1>3 DEF TypeOK, Running

-----------------------------------------------------------------------------

\* The invariant holds in every state the provider reaches.
THEOREM ProviderInvariant == Spec => []ProviderInv
<1>1. Init => ProviderInv
  BY InitProvider
<1>2. ProviderInv /\ [Next]_vars => ProviderInv'
  BY TypeStep, AccountableStep, RestartStep, CrashStep DEF ProviderInv
<1> QED
  BY <1>1, <1>2, PTL DEF Spec

\* The provider's and the server's state have their types; in particular no call
\* is answered twice and no descriptor closed twice.
THEOREM ProviderTypes == Spec => []TypeOK
<1>1. ProviderInv => TypeOK
  BY DEF ProviderInv
<1> QED
  BY <1>1, ProviderInvariant, PTL

\* A started provider that nobody stops listens on its port, except inside the
\* completion handler that restarts its server (PacketTunnelProvider.swift 187-194).
THEOREM RestartIsNoOutage == Spec => []ServerUpOnceStarted
<1>1. ProviderInv => ServerUpOnceStarted
  BY DEF ProviderInv, Accountable, ServerUpOnceStarted, TypeOK
<1> QED
  BY <1>1, ProviderInvariant, PTL

\* No tunnel stays open across ProxyServer.stop, whenever clients are accepted.
THEOREM StopReachesEveryTunnel == Spec => []NoTunnelOutlivesRestart
<1>1. ProviderInv => NoTunnelOutlivesRestart
  BY DEF ProviderInv
<1> QED
  BY <1>1, ProviderInvariant, PTL

\* The forced unwrap of proxyServer and the `try!' of its start fail in the three
\* races of CrashesInRacesOnly and nowhere else.
THEOREM OnlyRacesCrash == Spec => []CrashesInRacesOnly
<1>1. ProviderInv => CrashesInRacesOnly
  BY DEF ProviderInv
<1> QED
  BY <1>1, ProviderInvariant, PTL

=============================================================================
