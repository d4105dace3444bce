---------------------------- MODULE AppLifecycle ----------------------------
(***************************************************************************)
(* The processes of the desktop that share one LAN port, one advertisement *)
(* and one setup file: the background service, which systemd starts and    *)
(* restarts, and the windows the user opens, each of which stops the       *)
(* service, passes the compatibility gate and the first-run wizard, starts *)
(* a DesktopRuntime of its own, and brings the service back when it closes.*)
(*                                                                         *)
(* Each call of systemctl, each read and each write of the setup file, and *)
(* each half of DesktopRuntime.start is a step.  Left out: what the checks *)
(* look at, the private-file modes, the runtime's state while it serves    *)
(* (DesktopSession), safe Wi-Fi names.                                     *)
(***************************************************************************)
EXTENDS Naturals, FiniteSets

CONSTANTS
  Guis,         \* windows the user opens, each once
  Checks,       \* the optional checks of the gate
  MaxFailures,  \* bound: advertisements that fail and services that crash
  Service,      \* the process of the background service
  Nobody        \* nobody has the port

ASSUME ProcessesAssumption ==
  /\ IsFiniteSet(Guis) /\ Service \notin Guis /\ Nobody \notin Guis \cup {Service}
  /\ MaxFailures \in Nat

Procs == Guis \cup {Service}

VARIABLES
  backend,   \* how services are advertised
  unit,      \* systemd's view of the service; waiting is its auto-restart
  enabled,   \* the service is enabled, so it starts at login
  stage,     \* per process, where it is
  port,      \* who listens on the LAN port
  ads,       \* the processes whose advertisement is on the LAN
  paused,    \* per window, background_service_paused
  setup,     \* desktop_setup.json
  loaded,    \* per window, the state it has read and is about to write over
  failing,   \* per window, the optional checks that failed
  failures,  \* how often the bound has been used
  crashed    \* history: the windows that ended without closing

filed == <<setup, loaded, failing>>
vars == <<backend, unit, enabled, stage, port, ads, paused, filed, failures, crashed>>

Setup == [completed : BOOLEAN, skipped : SUBSET Checks]

ServiceStages == {"off", "starting", "binding", "on", "hung"}
GuiStages == {"new", "stopping", "gate", "skipping", "wizard", "finishing", "starting",
              "binding", "on", "idle", "refreshing", "rebinding", "hung", "leaving",
              "asking", "gone"}

TypeOK ==
  /\ backend \in {"avahi", "zeroconf"} /\ unit \in {"inactive", "running", "waiting"}
  /\ enabled \in BOOLEAN
  /\ stage \in [Procs -> ServiceStages \cup GuiStages]
  /\ stage[Service] \in ServiceStages /\ \A g \in Guis : stage[g] \in GuiStages
  /\ stage[Service] # "off" <=> unit = "running"
  /\ port \in Procs \cup {Nobody} /\ (port # Nobody => stage[port] = "on")
  /\ ads \subseteq Procs
  /\ paused \in [Guis -> BOOLEAN]
  /\ setup \in Setup /\ loaded \in [Guis -> Setup] /\ failing \in [Guis -> SUBSET Checks]
  /\ failures \in 0..MaxFailures
  /\ crashed \subseteq Guis

NoSetup == [completed |-> FALSE, skipped |-> {}]

\* At login systemd has started the service if it is enabled; the user may
\* have started it by hand.
Init ==
  /\ backend \in {"avahi", "zeroconf"}
  /\ enabled \in BOOLEAN
  /\ unit \in {"inactive", "running"} /\ (enabled => unit = "running")
  /\ stage = [p \in Procs |-> IF p \in Guis THEN "new"
                              ELSE IF unit = "running" THEN "starting" ELSE "off"]
  /\ port = Nobody /\ ads = {} /\ paused = [g \in Guis |-> FALSE]
  /\ setup = NoSetup /\ loaded = [g \in Guis |-> NoSetup]
  /\ failing = [g \in Guis |-> {}]
  /\ failures = 0 /\ crashed = {}

To(p, s) == stage' = [stage EXCEPT ![p] = s]

-----------------------------------------------------------------------------
(* DesktopRuntime.start and stop, in any process.                          *)

\* DiscoveryAdvertisement.start, from a stage to the next; with zeroconf a
\* name that is taken calls stop under the lock that start holds.
Advertise(p, from, to) ==
  /\ stage[p] = from
  /\ IF backend = "zeroconf" /\ ads \ {p} # {}
     THEN To(p, "hung") /\ UNCHANGED ads
     ELSE To(p, to) /\ ads' = ads \cup {p}
  /\ UNCHANGED <<backend, unit, enabled, port, paused, filed, failures, crashed>>

\* PairingServer.start.
Bind(p, from) ==
  /\ stage[p] = from /\ port = Nobody
  /\ To(p, "on") /\ port' = p
  /\ UNCHANGED <<backend, unit, enabled, ads, paused, filed, failures, crashed>>

\* Faulty variant: the advertisement is forgotten.
ReleasePortOnly(p) ==
  /\ port' = IF port = p THEN Nobody ELSE port
  /\ UNCHANGED ads

\* stop: nobody listens for p, and its advertisement is withdrawn.
Release(p) ==
  /\ port' = IF port = p THEN Nobody ELSE port
  /\ ads' = ads \ {p}

\* The start of p fails, in its first half or since the port is taken.
CannotStart(p, first, second) ==
  \/ (stage[p] = first /\ failures < MaxFailures /\ failures' = failures + 1)
  \/ stage[p] = second /\ port \notin {Nobody, p} /\ UNCHANGED failures

-----------------------------------------------------------------------------
(* The background service and systemd.                                     *)

ServiceStarts == Advertise(Service, "starting", "binding") \/ Bind(Service, "binding")

\* The exception ends the process, and so does a crash; Restart=on-failure.
ServiceFails ==
  /\ \/ CannotStart(Service, "starting", "binding")
     \/ stage[Service] = "on" /\ failures < MaxFailures /\ failures' = failures + 1
  /\ Release(Service)
  /\ To(Service, "off") /\ unit' = "waiting"
  /\ UNCHANGED <<backend, enabled, paused, filed, crashed>>

\* RestartSec is over.
ServiceRestarts ==
  /\ unit = "waiting"
  /\ unit' = "running" /\ To(Service, "starting")
  /\ UNCHANGED <<backend, enabled, port, ads, paused, filed, failures, crashed>>

-----------------------------------------------------------------------------
(* A window, from its start to its end.                                    *)

\* _pause_background_service_for_gui asks whether the service is active; a
\* service that waits for its restart is not.
AskActive(g) ==
  /\ stage[g] = "new"
  /\ To(g, IF unit = "running" THEN "stopping" ELSE "gate")
  /\ UNCHANGED <<backend, unit, enabled, port, ads, paused, filed, failures, crashed>>

\* systemctl stop returns; after 8 seconds it is given up, which ends the
\* window's process by an exception, while systemd goes on stopping.  A
\* service that hangs does not stop in time.
StopService(g) ==
  /\ stage[g] = "stopping"
  /\ Release(Service)
  /\ unit' = "inactive"
  /\ \/ /\ stage[Service] # "hung"
        /\ stage' = [stage EXCEPT ![Service] = "off", ![g] = "gate"]
        /\ paused' = [paused EXCEPT ![g] = TRUE]
        /\ UNCHANGED crashed
     \/ /\ stage' = [stage EXCEPT ![Service] = "off", ![g] = "gone"]
        /\ crashed' = crashed \cup {g}
        /\ UNCHANGED paused
  /\ UNCHANGED <<backend, enabled, filed, failures>>

AfterGate == IF setup.completed THEN "starting" ELSE "wizard"

\* The required check that may fail: another process listens at the port.
PortAvailable == port = Nobody

\* The report of the checks: what failed of the optional ones, none of the
\* required ones.
Report(failed) == failed \subseteq Checks /\ PortAvailable

\* The buttons of the gate that go on both mean to skip what failed; the state
\* is read, to be written in a later step.
GoOnAnyway(g, failed) ==
  /\ To(g, "skipping")
  /\ failing' = [failing EXCEPT ![g] = failed]
  /\ loaded' = [loaded EXCEPT ![g] = setup]

\* _show_compatibility_gate: nothing is asked when all that failed has been skipped before.
PassGate(g) ==
  /\ stage[g] = "gate"
  /\ \E failed \in SUBSET Checks : Report(failed) /\
       IF failed \subseteq setup.skipped
       THEN To(g, AfterGate) /\ UNCHANGED <<loaded, failing>>
       ELSE GoOnAnyway(g, failed)
  /\ UNCHANGED <<backend, unit, enabled, port, ads, paused, setup, failures, crashed>>

\* Faulty variant: only what failed this time is saved.
SaveFailingOnly(g) ==
  /\ stage[g] = "skipping"
  /\ setup' = [loaded[g] EXCEPT !.skipped = failing[g]]
  /\ loaded' = [loaded EXCEPT ![g] = NoSetup]
  /\ failing' = [failing EXCEPT ![g] = {}]
  /\ To(g, IF setup'.completed THEN "starting" ELSE "wizard")
  /\ UNCHANGED <<backend, unit, enabled, port, ads, paused, failures, crashed>>

\* save_skipped_optional_checks writes.
SaveSkipped(g) ==
  /\ stage[g] = "skipping"
  /\ setup' = [loaded[g] EXCEPT !.skipped = @ \cup failing[g]]
  /\ loaded' = [loaded EXCEPT ![g] = NoSetup]
  /\ failing' = [failing EXCEPT ![g] = {}]
  /\ To(g, IF setup'.completed THEN "starting" ELSE "wizard")
  /\ UNCHANGED <<backend, unit, enabled, port, ads, paused, failures, crashed>>

\* The user leaves at the gate; only a window that paused the service wakes it.
ExitGate(g) ==
  /\ stage[g] = "gate"
  /\ To(g, IF paused[g] THEN "leaving" ELSE "gone")
  /\ UNCHANGED <<backend, unit, enabled, port, ads, paused, filed, failures, crashed>>

\* The wizard installs and enables the service.
InstallService(g) ==
  /\ stage[g] = "wizard" /\ ~enabled
  /\ enabled' = TRUE
  /\ UNCHANGED <<backend, unit, stage, port, ads, paused, filed, failures, crashed>>

\* _finish: with the name of the Wi-Fi the state is read first.
FinishWizard(g) ==
  /\ stage[g] = "wizard"
  /\ \/ To(g, "finishing") /\ loaded' = [loaded EXCEPT ![g] = setup] /\ UNCHANGED setup
     \/ To(g, "starting") /\ setup' = [NoSetup EXCEPT !.completed = TRUE] /\ UNCHANGED loaded
     \/ To(g, "starting") /\ UNCHANGED <<setup, loaded>>  \* closed unfinished
  /\ UNCHANGED <<backend, unit, enabled, port, ads, paused, failing, failures, crashed>>

\* add_safe_wifi_ssid writes.
SaveSafeWifi(g) ==
  /\ stage[g] = "finishing"
  /\ setup' = [loaded[g] EXCEPT !.completed = TRUE]
  /\ loaded' = [loaded EXCEPT ![g] = NoSetup]
  /\ To(g, "starting")
  /\ UNCHANGED <<backend, unit, enabled, port, ads, paused, failing, failures, crashed>>

\* The window starts its runtime, when it opens and when it is switched on.
GuiStarts(g) == Advertise(g, "starting", "binding") \/ Bind(g, "binding")

\* The error is shown and the switch is off.
GuiCannotStart(g) ==
  /\ CannotStart(g, "starting", "binding")
  /\ Release(g)
  /\ To(g, "idle")
  /\ UNCHANGED <<backend, unit, enabled, paused, filed, crashed>>

SwitchOn(g) ==
  /\ stage[g] = "idle"
  /\ To(g, "starting")
  /\ UNCHANGED <<backend, unit, enabled, port, ads, paused, filed, failures, crashed>>

SwitchOff(g) ==
  /\ stage[g] = "on"
  /\ Release(g) /\ To(g, "idle")
  /\ UNCHANGED <<backend, unit, enabled, paused, filed, failures, crashed>>

\* refresh stops and starts.
StartRefresh(g) ==
  /\ stage[g] = "on"
  /\ Release(g) /\ To(g, "refreshing")
  /\ UNCHANGED <<backend, unit, enabled, paused, filed, failures, crashed>>

GuiRefreshes(g) == Advertise(g, "refreshing", "rebinding") \/ Bind(g, "rebinding")

\* Nothing catches the exception of a refresh: PyQt ends the process.
RefreshFails(g) ==
  /\ CannotStart(g, "refreshing", "rebinding")
  /\ Release(g)
  /\ To(g, "gone") /\ crashed' = crashed \cup {g}
  /\ UNCHANGED <<backend, unit, enabled, paused, filed>>

\* The window is killed: its port is free, a process of avahi goes on.
Killed(g) ==
  /\ stage[g] \notin {"new", "gone"}
  /\ To(g, "gone") /\ crashed' = crashed \cup {g}
  /\ port' = IF port = g THEN Nobody ELSE port
  /\ ads' = IF backend = "avahi" THEN ads ELSE ads \ {g}
  /\ UNCHANGED <<backend, unit, enabled, paused, filed, failures>>

\* closeEvent stops the runtime; aboutToQuit follows.
CloseWindow(g) ==
  /\ stage[g] \in {"on", "idle"}
  /\ Release(g) /\ To(g, "leaving")
  /\ UNCHANGED <<backend, unit, enabled, paused, filed, failures, crashed>>

\* Faulty variant: only a window that has paused the service asks for it.
AskEnabledIfPaused(g) ==
  /\ stage[g] = "leaving"
  /\ To(g, IF enabled /\ paused[g] THEN "asking" ELSE "gone")
  /\ UNCHANGED <<backend, unit, enabled, port, ads, paused, filed, failures, crashed>>

\* _resume_background_service_after_gui: only an enabled service is started,
AskEnabled(g) ==
  /\ stage[g] = "leaving"
  /\ To(g, IF enabled THEN "asking" ELSE "gone")
  /\ UNCHANGED <<backend, unit, enabled, port, ads, paused, filed, failures, crashed>>

\* and nothing happens if it runs.
StartService(g) ==
  /\ stage[g] = "asking"
  /\ unit' = "running"
  /\ stage' = [stage EXCEPT ![g] = "gone",
                            ![Service] = IF unit = "running" THEN @ ELSE "starting"]
  /\ UNCHANGED <<backend, enabled, port, ads, paused, filed, failures, crashed>>

ServiceNext == ServiceStarts \/ ServiceFails \/ ServiceRestarts

\* What a window does by itself.
GuiStep(g) ==
  \/ AskActive(g)     \/ StopService(g)  \/ SaveSkipped(g)
  \/ SaveSafeWifi(g)  \/ GuiStarts(g)    \/ GuiCannotStart(g)
  \/ GuiRefreshes(g)  \/ RefreshFails(g)
  \/ AskEnabled(g)    \/ StartService(g)

\* What the user does.
UserStep(g) ==
  \/ PassGate(g)     \/ ExitGate(g)  \/ InstallService(g) \/ FinishWizard(g)
  \/ SwitchOn(g)     \/ SwitchOff(g) \/ StartRefresh(g)
  \/ CloseWindow(g)  \/ Killed(g)

Next == ServiceNext \/ \E g \in Guis : (GuiStep(g) \/ UserStep(g))

\* systemd restarts, and every process goes on with what it has begun.
Fairness ==
  /\ WF_vars(ServiceNext)
  /\ \A g \in Guis : WF_vars(GuiStep(g))

Spec == Init /\ [][Next]_vars /\ Fairness

-----------------------------------------------------------------------------
(* Properties.                                                             *)

\* A process that is neither starting nor gone by a crash is advertised
\* exactly when it listens: a window whose switch is on serves, one whose
\* switch is off is not offered to phones.
AdvertisedMeansListening ==
  \A p \in Procs \ crashed :
    stage[p] \notin {"binding", "rebinding"} => (p \in ads <=> port = p)

\* When every window is closed or was never opened, an enabled service comes
\* to listen again, whichever window paused it, provided no window has
\* crashed and the service does not hang on its advertised name.
ServiceComesBack ==
  []((\A g \in Guis : stage[g] \in {"new", "gone"}) /\ enabled /\ crashed = {}
     => <>(\/ stage[Service] \in {"on", "hung"}
           \/ \E g \in Guis : stage[g] \notin {"new", "gone"}))

\* A check the user has skipped stays skipped, unless a wizard ends where the
\* Wi-Fi has no name, or a window writes over what another has written since
\* it read the setup file.
SkippedStaysSkipped ==
  [][\/ setup.skipped \subseteq setup'.skipped
     \/ \E g \in Guis : /\ stage'[g] # stage[g]
                        /\ \/ stage[g] = "wizard"
                           \/ stage[g] \in {"skipping", "finishing"} /\ loaded[g] # setup]_vars
=============================================================================
