--------------------------- MODULE TunnelProvider ---------------------------
(***************************************************************************)
(* QLadder's packet tunnel extension: PacketTunnelProvider starts the      *)
(* proxy server when the system applied its network settings, restarts it  *)
(* when the network changes, and exits when the system stops it.  Packet   *)
(* processing is off, as in the code (enablePacketProcessing = false).     *)
(*                                                                         *)
(* The completion handler of setTunnelNetworkSettings, the notification of *)
(* a changed defaultPath, the timer of a restart, stopTunnel and NEKit's   *)
(* queue are different threads.  Completion handlers run one at a time.    *)
(***************************************************************************)
EXTENDS ProxyServer

CONSTANTS
  Networks,         \* the networks the device can be on
  MaxChanges,       \* bound: how often the default path changes
  SettingsMayFail   \* setTunnelNetworkSettings may report an error

ASSUME ProviderAssumption == MaxChanges \in Nat /\ SettingsMayFail \in BOOLEAN

\* The default path: a network, a path that is not satisfied, or nil.
Unsatisfied == "unsatisfied"
NoPath == "nil"
Paths == Networks \cup {Unsatisfied, NoPath}

ASSUME PathsAssumption == {Unsatisfied, NoPath} \cap Networks = {}

VARIABLES
  process,     \* "running", "exited" or "crashed"
  path,        \* defaultPath
  lastPath,    \* PacketTunnelProvider.lastPath
  changes,     \* how often the path changed
  timers,      \* asyncAfter blocks that will call startTunnel
  settings,    \* calls of setTunnelNetworkSettings not answered
  restarting,  \* a completion handler is between proxyServer.stop and start
  started,     \* PacketTunnelProvider.started; observes defaultPath from then on
  hasServer,   \* proxyServer # nil
  stopping,    \* stopTunnel was called
  seen         \* history: the paths since the server was started, the present one too

pvVars == <<process, path, lastPath, changes, timers, settings, restarting,
            started, hasServer, stopping, seen>>

vars == <<sVars, pvVars>>

TypeOK ==
  /\ TypeOKServer
  /\ process \in {"running", "exited", "crashed"}
  /\ path \in Paths
  /\ lastPath \in Paths
  /\ changes \in 0..MaxChanges
  /\ timers \in Nat
  /\ settings \in Nat
  /\ restarting \in BOOLEAN
  /\ started \in BOOLEAN
  /\ hasServer \in BOOLEAN
  /\ stopping \in BOOLEAN
  /\ seen \subseteq Paths

\* The system launched the extension and calls startTunnel.
Init ==
  /\ InitServer
  /\ process = "running"
  /\ path \in Paths
  /\ lastPath = NoPath
  /\ changes = 0
  /\ timers = 0
  /\ settings = 1
  /\ restarting = FALSE
  /\ started = FALSE
  /\ hasServer = FALSE
  /\ stopping = FALSE
  /\ seen = {}

-----------------------------------------------------------------------------

Running == process = "running"

\* Mutant of PathObserved: lastPath follows every notification.
PathObservedRemembering(p) ==
  /\ lastPath' = p
  /\ timers' = IF p \in Networks /\ p # lastPath /\ lastPath \in Networks
                 THEN timers + 1 ELSE timers

\* observeValue(forKeyPath: "defaultPath"): a satisfied path other than
\* lastPath schedules a restart, and lastPath keeps its value.
PathObserved(p) ==
  IF p \in Networks /\ p # lastPath /\ lastPath # NoPath
    THEN /\ timers' = timers + 1
         /\ UNCHANGED lastPath
    ELSE /\ lastPath' = p
         /\ UNCHANGED timers

\* The default path changes; the provider is notified once it started.  It is
\* nil only until the system knows it.
PathChanges(p) ==
  /\ Running
  /\ changes < MaxChanges
  /\ p \notin {path, NoPath}
  /\ path' = p
  /\ changes' = changes + 1
  /\ seen' = seen \cup {p}
  /\ IF started THEN PathObserved(p) ELSE UNCHANGED <<lastPath, timers>>
  /\ UNCHANGED <<sVars, process, settings, restarting, started, hasServer, stopping>>

\* startTunnel, called by the timer.
TimerStartsTunnel ==
  /\ Running
  /\ timers > 0
  /\ timers' = timers - 1
  /\ settings' = settings + 1
  /\ UNCHANGED <<sVars, process, path, lastPath, changes, restarting, started,
                 hasServer, stopping, seen>>

\* Mutant of SettingsFail: the server is stopped as well.
SettingsFailStopping ==
  /\ Running
  /\ SettingsMayFail
  /\ settings > 0
  /\ ~restarting
  /\ settings' = settings - 1
  /\ ServerStop
  /\ UNCHANGED <<process, path, lastPath, changes, timers, restarting,
                 started, hasServer, stopping, seen>>

\* The settings were not applied: the error is reported to whoever called
\* startTunnel, and nothing else happens.
SettingsFail ==
  /\ Running
  /\ SettingsMayFail
  /\ settings > 0
  /\ ~restarting
  /\ settings' = settings - 1
  /\ UNCHANGED <<sVars, process, path, lastPath, changes, timers, restarting,
                 started, hasServer, stopping, seen>>

\* The settings were applied for the first time: start the server and observe
\* defaultPath, which notifies at once.
FirstStart ==
  /\ Running
  /\ settings > 0
  /\ ~started
  /\ settings' = settings - 1
  /\ hasServer' = TRUE
  /\ ServerListen
  /\ started' = TRUE
  /\ seen' = {path}
  /\ PathObserved(path)
  /\ UNCHANGED <<process, path, changes, restarting, stopping>>

\* Mutant of RestartStop: the running server is not stopped.
RestartWithoutStop ==
  /\ Running
  /\ settings > 0 /\ started /\ ~restarting
  /\ restarting' = TRUE
  /\ UNCHANGED <<sVars, process, path, lastPath, changes, timers, settings,
                 started, hasServer, stopping, seen>>

\* The settings were applied again: stop the server.  There is none when
\* stopTunnel was called: the forced unwrap crashes.
RestartStop ==
  /\ Running
  /\ settings > 0 /\ started /\ ~restarting
  /\ IF hasServer
       THEN /\ ServerStop
            /\ restarting' = TRUE
            /\ UNCHANGED process
       ELSE /\ process' = "crashed"
            /\ UNCHANGED <<sVars, restarting>>
  /\ UNCHANGED <<path, lastPath, changes, timers, settings, started, hasServer,
                 stopping, seen>>

\* Then start it again.  Binding fails while the port is taken: `try!' crashes.
RestartStart ==
  /\ Running
  /\ restarting
  /\ \/ /\ hasServer
        /\ ~listening
        /\ ServerListen
        /\ settings' = settings - 1
        /\ restarting' = FALSE
        /\ seen' = {path}
        /\ UNCHANGED process
     \/ /\ ~hasServer \/ PortTaken
        /\ process' = "crashed"
        /\ UNCHANGED <<sVars, settings, restarting, seen>>
  /\ UNCHANGED <<path, lastPath, changes, timers, started, hasServer, stopping>>

\* stopTunnel: stop and drop the server; before the first start there is none.
StopTunnel ==
  /\ Running
  /\ ~stopping
  /\ stopping' = TRUE
  /\ IF hasServer
       THEN /\ ServerStop
            /\ hasServer' = FALSE
            /\ UNCHANGED process
       ELSE /\ process' = "crashed"
            /\ UNCHANGED <<sVars, hasServer>>
  /\ UNCHANGED <<path, lastPath, changes, timers, settings, restarting, started, seen>>

\* exit(EXIT_SUCCESS) at the end of stopTunnel.
Exit ==
  /\ Running
  /\ stopping
  /\ process' = "exited"
  /\ UNCHANGED <<sVars, path, lastPath, changes, timers, settings, restarting,
                 started, hasServer, stopping, seen>>

\* Blocks on NEKit's queue, and clients.
ServerStep(A) == Running /\ A /\ UNCHANGED pvVars

Gone == ~Running /\ UNCHANGED vars

Next ==
  \/ \E p \in Paths : PathChanges(p)
  \/ TimerStartsTunnel
  \/ SettingsFail
  \/ FirstStart
  \/ RestartStop
  \/ RestartStart
  \/ StopTunnel
  \/ Exit
  \/ ServerStep(CloseFd)
  \/ \E c \in Conns : ServerStep(DoAccept(c))
  \/ \E c \in Conns : ServerStep(DidAccept(c))
  \/ \E c \in Conns : ServerStep(TunnelCloses(c))
  \/ \E c \in Conns : ServerStep(TunnelDidClose(c))
  \/ Gone

Spec == Init /\ [][Next]_vars

\* Timers fire, the system answers setTunnelNetworkSettings, and a completion
\* handler goes on to its end.
FairSpec ==
  /\ Spec
  /\ WF_vars(TimerStartsTunnel)
  /\ WF_vars(SettingsFail \/ FirstStart \/ RestartStop)
  /\ WF_vars(RestartStart)

-----------------------------------------------------------------------------
(* Properties.                                                             *)

\* A restart is not visible as an outage: as long as nobody stops it, a started
\* provider is listening, except inside the completion handler that restarts
\* it.  A failed attempt to apply the settings leaves the old server running.
ServerUpOnceStarted ==
  Running /\ started /\ ~stopping /\ ~restarting => hasServer /\ listening

\* No tunnel of before a restart stays open: its connection to the remote goes
\* over the network the device left.  What survives a restart is at most a
\* client accepted before it and handed over after it.
NoTunnelOutlivesRestart ==
  \A c \in Conns : conns[c] = "open" => openedIn[c] = stops

\* The provider crashes in three windows only: it is stopped before its first
\* start finished, a restart runs into stopTunnel, and a restart binds the port
\* before the old listening socket is closed.
CrashesInRacesOnly ==
  process = "crashed" => (stopping /\ (~started \/ settings > 0)) \/ (restarting /\ closingFds > 0)

\* When the network comes back after an outage the server is restarted, whatever
\* network it is and however often the path changes meanwhile.
OutageReconnects ==
  (started /\ Unsatisfied \in seen /\ path \in Networks)
    ~> (Unsatisfied \notin seen \/ path \notin Networks \/ stopping \/ ~Running)

\* The comment on PacketTunnelProvider.observeValue: when the device switches to
\* a different network, the VPN has to be connected again.
SwitchReconnects ==
  (started /\ path \in Networks /\ seen \cap Networks # {path})
    ~> (seen = {path} \/ path \notin Networks \/ stopping \/ ~Running)

=============================================================================
