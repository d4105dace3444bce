---------------------------- MODULE NsdDiscovery ----------------------------
(***************************************************************************)
(* The phone's LAN discovery (NsdDiscoveryManager.kt): clients hold leases *)
(* on one network-service scan, and the manager starts, stops and restarts *)
(* the scan, the multicast lock and the Wi-Fi callback that go with it.    *)
(*                                                                         *)
(* Every step of the manager runs on the main looper, so it is one action. *)
(* A client's call is posted to that looper; it may have been posted at    *)
(* any time before it runs, so only the callbacks of the NSD service, which*)
(* arrive in order, are kept in a queue.  The list of desktops found is    *)
(* left out, and with it pendingClearOnRestart, which only empties it.     *)
(***************************************************************************)
EXTENDS Naturals, Sequences

CONSTANTS
  Listeners,     \* DiscoveryListener objects that exist at a time
  NoListener,
  Networks,      \* Wi-Fi networks
  NoNetwork,
  MaxFailures,   \* bound: calls and requests that the NSD service refuses
  MaxRetries     \* bound: retries outstanding when a restart is asked for

Leases == {"USER_SCAN", "TRUSTED_RECONNECT"}
Kinds  == {"started", "startFailed", "stopped", "stopFailed"}

ASSUME ConstantsAssumption ==
  /\ NoListener \notin Listeners
  /\ NoNetwork \notin Networks
  /\ MaxFailures \in Nat
  /\ MaxRetries \in Nat

VARIABLES
  m,         \* the manager's fields, below
  nsd,       \* per listener, what the NSD service does for it
  asked,     \* listeners whose scan the service was asked to stop
  inbox,     \* callbacks posted to the main looper, oldest first
  failures,  \* refusals so far
  wanted     \* history: the leases clients hold by their own calls

vars == <<m, nsd, asked, inbox, failures, wanted>>

Manager ==
  [leases   : SUBSET Leases,              \* activeLeases
   desired  : BOOLEAN,                    \* desiredRunning
   listener : Listeners \cup {NoListener},    \* discoveryListener
   stopping : BOOLEAN,                    \* stopInProgress
   restart  : BOOLEAN,                    \* pendingRestart
   lock     : BOOLEAN,                    \* the multicast lock is held
   callback : BOOLEAN,                    \* networkCallbackRegistered
   net      : Networks \cup {NoNetwork},  \* activeWifiNetwork
   retries  : Nat,        \* pendingStartRunnable posts that are outstanding
   netTimer : BOOLEAN]    \* restartDiscoveryRunnable is outstanding

TypeOK ==
  /\ m \in Manager
  /\ nsd \in [Listeners -> {"idle", "starting", "on"}]
  /\ asked \subseteq Listeners
  /\ inbox \in Seq(Kinds \X Listeners)
  /\ failures \in 0..MaxFailures
  /\ wanted \subseteq Leases

Init ==
  /\ m = [leases |-> {}, desired |-> FALSE, listener |-> NoListener,
          stopping |-> FALSE, restart |-> FALSE, lock |-> FALSE,
          callback |-> FALSE, net |-> NoNetwork, retries |-> 0,
          netTimer |-> FALSE]
  /\ nsd = [l \in Listeners |-> "idle"]
  /\ asked = {}
  /\ inbox = <<>>
  /\ failures = 0
  /\ wanted = {}

-----------------------------------------------------------------------------
(* The private functions.  Each takes the manager's fields as they are when*)
(* it is called and says what they, and the service, are afterwards.       *)

\* A listener object that nobody refers to after this step, the manager no
\* more than the callbacks still to come, stands for a new one.
Fresh == {l \in Listeners :
            nsd[l] = "idle" /\ \A i \in DOMAIN inbox' : inbox'[i][2] # l}

ReleaseCallback(c) ==
  IF c.callback
  THEN [c EXCEPT !.callback = FALSE, !.net = NoNetwork, !.retries = 0,
                 !.netTimer = FALSE]
  ELSE c

\* Registering the callback may fail; the network is looked up before that.
EnsureCallback(c) ==
  IF c.callback THEN {c}
  ELSE {[c EXCEPT !.net = found[1], !.callback = found[2]] :
          found \in (Networks \cup {NoNetwork}) \X BOOLEAN}

\* One retry, in START_FAILURE_RETRY_MS.
RetryLater(c) ==
  [c EXCEPT !.restart = c.desired, !.retries = IF c.desired THEN 1 ELSE @]

\* Faulty variant: nothing keeps a second scan from being started.
StartScanUnguarded(c) ==
  IF ~c.desired
  THEN m' = c /\ UNCHANGED <<nsd, asked, failures>>
  ELSE \E l \in Fresh, c1 \in EnsureCallback([c EXCEPT !.lock = TRUE]) :
         /\ nsd' = [nsd EXCEPT ![l] = "starting"]
         /\ m' = [c1 EXCEPT !.listener = l]
         /\ UNCHANGED <<asked, failures>>

\* startDiscoveryLocked
StartScan(c) ==
  IF ~c.desired \/ c.listener # NoListener
  THEN m' = c /\ UNCHANGED <<nsd, asked, failures>>
  ELSE IF c.stopping
  THEN m' = [c EXCEPT !.restart = TRUE] /\ UNCHANGED <<nsd, asked, failures>>
  ELSE \E l \in Fresh, c1 \in EnsureCallback([c EXCEPT !.lock = TRUE]) :
         \/ /\ nsd' = [nsd EXCEPT ![l] = "starting"]
            /\ m' = [c1 EXCEPT !.listener = l]
            /\ UNCHANGED <<asked, failures>>
         \/ /\ failures < MaxFailures          \* discoverServices throws
            /\ failures' = failures + 1
            /\ m' = RetryLater([c1 EXCEPT !.lock = FALSE])
            /\ UNCHANGED <<nsd, asked>>

\* stopDiscoveryLocked.  The call throws when the service has already done
\* with the listener.
StopScan(c, finalStop) ==
  LET off == [c EXCEPT !.listener = NoListener, !.stopping = FALSE,
                       !.lock = FALSE]
      released == IF finalStop THEN ReleaseCallback(off) ELSE off
  IN /\ UNCHANGED <<nsd, failures>>
     /\ IF c.listener = NoListener
        THEN m' = released /\ UNCHANGED asked
        ELSE IF nsd[c.listener] # "idle"
        THEN /\ m' = [c EXCEPT !.stopping = TRUE]
             /\ asked' = asked \cup {c.listener}
        ELSE /\ m' = IF c.restart /\ c.desired
                     THEN [off EXCEPT !.retries = @ + 1] ELSE released
             /\ UNCHANGED asked

FinishRestart(c) ==
  IF ~c.desired \/ ~c.restart \/ c.stopping \/ c.listener # NoListener
  THEN m' = c /\ UNCHANGED <<nsd, asked, failures>>
  ELSE StartScan([c EXCEPT !.restart = FALSE])

-----------------------------------------------------------------------------
(* Calls of clients.                                                       *)

\* startDiscovery(TRUSTED_RECONNECT): ReconnectCoordinator, when the phone
\* has neither a session nor an attempt under way.
StartDiscovery ==
  /\ wanted' = wanted \cup {"TRUSTED_RECONNECT"}
  /\ UNCHANGED inbox
  /\ StartScan([m EXCEPT !.leases = @ \cup {"TRUSTED_RECONNECT"},
                         !.desired = TRUE])

\* stopDiscovery(lease)
StopDiscovery(lease) ==
  /\ wanted' = wanted \ {lease}
  /\ UNCHANGED inbox
  /\ LET left == m.leases \ {lease} IN
     IF left # {}
     THEN /\ m' = [m EXCEPT !.leases = left, !.desired = TRUE]
          /\ UNCHANGED <<nsd, asked, failures>>
     ELSE StopScan([m EXCEPT !.leases = {}, !.desired = FALSE,
                             !.restart = FALSE, !.retries = 0,
                             !.netTimer = FALSE], TRUE)

\* refreshDiscovery(), with the lease it has by default.
Refresh ==
  /\ m.retries <= MaxRetries
  /\ UNCHANGED inbox
  /\ LET c == [m EXCEPT !.leases = @ \cup {"USER_SCAN"}, !.desired = TRUE,
                        !.restart = TRUE]
     IN IF c.listener # NoListener THEN StopScan(c, FALSE)
        ELSE IF ~c.stopping THEN FinishRestart(c)
        ELSE m' = c /\ UNCHANGED <<nsd, asked, failures>>

\* The user presses Scan.
UserScan == wanted' = wanted \cup {"USER_SCAN"} /\ Refresh

\* shutdown(), when the persistent service stops.
Shutdown ==
  /\ wanted' = {}
  /\ StopScan([m EXCEPT !.leases = {}, !.desired = FALSE, !.restart = FALSE,
                        !.retries = 0, !.netTimer = FALSE], TRUE)
  /\ UNCHANGED inbox

-----------------------------------------------------------------------------
(* Timers and the Wi-Fi callback.                                          *)

\* pendingStartRunnable
RetryTimer ==
  /\ m.retries > 0
  /\ UNCHANGED <<inbox, wanted>>
  /\ FinishRestart([m EXCEPT !.retries = @ - 1])

\* restartDiscoveryRunnable: refreshDiscovery posts its body once more.
NetworkTimer ==
  /\ m.netTimer /\ m.retries <= MaxRetries
  /\ UNCHANGED <<inbox, wanted>>
  /\ LET c == [m EXCEPT !.netTimer = FALSE] IN
     IF c.callback /\ c.desired
     THEN LET d == [c EXCEPT !.leases = @ \cup {"USER_SCAN"},
                             !.restart = TRUE]
          IN IF d.listener # NoListener THEN StopScan(d, FALSE)
             ELSE IF ~d.stopping THEN FinishRestart(d)
             ELSE m' = d /\ UNCHANGED <<nsd, asked, failures>>
     ELSE m' = c /\ UNCHANGED <<nsd, asked, failures>>

\* observeWifiAvailable(network)
WifiAvailable(n) ==
  /\ m.callback
  /\ UNCHANGED <<inbox, wanted>>
  /\ LET c == [m EXCEPT !.net = n] IN
     IF m.net = NoNetwork /\ m.desired /\ m.listener = NoListener
          /\ ~m.stopping
     THEN StartScan(c)
     ELSE /\ m' = IF m.net \in {NoNetwork, n} THEN c
                  ELSE [c EXCEPT !.netTimer = TRUE]
          /\ UNCHANGED <<nsd, asked, failures>>

\* onLost(network)
WifiLost(n) ==
  /\ m.net = n
  /\ m' = [m EXCEPT !.net = NoNetwork]
  /\ UNCHANGED <<nsd, asked, inbox, failures, wanted>>

-----------------------------------------------------------------------------
(* The NSD service (external).  It answers a discoverServices with started *)
(* or startFailed, and a stopServiceDiscovery with stopped or stopFailed;  *)
(* after anything but started it forgets the listener.                     *)

Post(kind, l) == inbox' = Append(inbox, <<kind, l>>)

NsdStarts(l) ==
  /\ nsd[l] = "starting"
  /\ nsd' = [nsd EXCEPT ![l] = "on"]
  /\ Post("started", l)
  /\ UNCHANGED <<m, asked, failures, wanted>>

NsdRefusesStart(l) ==
  /\ nsd[l] = "starting" /\ failures < MaxFailures
  /\ failures' = failures + 1
  /\ nsd' = [nsd EXCEPT ![l] = "idle"]
  /\ asked' = asked \ {l}
  /\ Post("startFailed", l)
  /\ UNCHANGED <<m, wanted>>

NsdStops(l) ==
  /\ nsd[l] = "on" /\ l \in asked
  /\ nsd' = [nsd EXCEPT ![l] = "idle"]
  /\ asked' = asked \ {l}
  /\ Post("stopped", l)
  /\ UNCHANGED <<m, failures, wanted>>

NsdRefusesStop(l) ==
  /\ nsd[l] = "on" /\ l \in asked /\ failures < MaxFailures
  /\ failures' = failures + 1
  /\ nsd' = [nsd EXCEPT ![l] = "idle"]
  /\ asked' = asked \ {l}
  /\ Post("stopFailed", l)
  /\ UNCHANGED <<m, wanted>>

-----------------------------------------------------------------------------
(* The callbacks, run by the main looper in the order they were posted.    *)

Deliver(kind) ==
  /\ inbox # <<>> /\ Head(inbox)[1] = kind
  /\ inbox' = Tail(inbox)
  /\ UNCHANGED wanted

\* Common to the three final callbacks: the scan of listener l is over.
ScanOver(l) ==
  [m EXCEPT !.listener = IF @ = l THEN NoListener ELSE @,
            !.stopping = FALSE, !.lock = FALSE]

OnStarted ==
  /\ Deliver("started")
  /\ m' = [m EXCEPT !.stopping = FALSE]
  /\ UNCHANGED <<nsd, asked, failures>>

\* Faulty variant: a failed start is not tried again.
OnStartFailedGivesUp ==
  /\ Deliver("startFailed")
  /\ m' = ScanOver(Head(inbox)[2])
  /\ UNCHANGED <<nsd, asked, failures>>

OnStartFailed ==
  /\ Deliver("startFailed")
  /\ LET c == RetryLater(ScanOver(Head(inbox)[2])) IN
     m' = IF c.desired THEN c ELSE ReleaseCallback(c)
  /\ UNCHANGED <<nsd, asked, failures>>

OnStopFailed ==
  /\ Deliver("stopFailed")
  /\ LET c == ScanOver(Head(inbox)[2]) IN
     m' = IF c.restart /\ c.desired THEN [c EXCEPT !.retries = @ + 1]
          ELSE ReleaseCallback(c)
  /\ UNCHANGED <<nsd, asked, failures>>

\* Faulty variant: the Wi-Fi callback stays registered.
OnStoppedKeepsCallback ==
  /\ Deliver("stopped")
  /\ LET c == ScanOver(Head(inbox)[2]) IN
     IF c.restart /\ c.desired THEN FinishRestart(c)
     ELSE m' = c /\ UNCHANGED <<nsd, asked, failures>>

OnStopped ==
  /\ Deliver("stopped")
  /\ LET c == ScanOver(Head(inbox)[2]) IN
     IF c.restart /\ c.desired THEN FinishRestart(c)
     ELSE m' = ReleaseCallback(c) /\ UNCHANGED <<nsd, asked, failures>>

-----------------------------------------------------------------------------

Client ==
  \/ StartDiscovery \/ UserScan \/ Shutdown
  \/ \E lease \in Leases : StopDiscovery(lease)

Looper == OnStarted \/ OnStartFailed \/ OnStopFailed \/ OnStopped

Service(l) == NsdStarts(l) \/ NsdRefusesStart(l) \/ NsdStops(l)
                \/ NsdRefusesStop(l)

Wifi == \E n \in Networks : WifiAvailable(n) \/ WifiLost(n)

Next ==
  \/ Client \/ Looper \/ Wifi \/ RetryTimer \/ NetworkTimer
  \/ \E l \in Listeners : Service(l)

Spec == Init /\ [][Next]_vars

\* The main looper runs what was posted and what has timed out, and the NSD
\* service answers.  Clients and the Wi-Fi do as they like.
FairSpec ==
  /\ Spec
  /\ WF_vars(Looper) /\ WF_vars(RetryTimer) /\ WF_vars(NetworkTimer)
  /\ \A l \in Listeners : WF_vars(Service(l))

-----------------------------------------------------------------------------

Scanning(l) == nsd[l] # "idle" /\ l \notin asked

\* No scan is orphaned: one that the service runs and was not asked to stop
\* belongs to the listener the manager knows, so there is at most one and
\* the manager can stop it, whatever calls and callbacks crossed.
NoOrphanScan == \A l \in Listeners : Scanning(l) => m.listener = l

\* A stop under way is the stop of the listener the manager knows: while
\* stopInProgress is set there is a callback to come that clears it.
StopWillBeAnswered ==
  m.stopping =>
    /\ m.listener # NoListener
    /\ \/ m.listener \in asked
       \/ \E i \in DOMAIN inbox : inbox[i][2] = m.listener

\* When every lease is gone and none is taken, the scan ends, and the
\* multicast lock and the Wi-Fi callback are given back.
EverythingReleased ==
  m.leases = {} ~> \/ m.leases # {}
                   \/ /\ \A l \in Listeners : nsd[l] = "idle"
                      /\ ~m.lock /\ ~m.callback

\* A restart that was asked for leads to a scan, through refusals of the
\* service and retries, unless all leases are given up.
RestartLeadsToScan ==
  m.restart ~> m.leases = {} \/ \E l \in Listeners : Scanning(l)

\* "Linkable will keep scanning this LAN": a held lease has a scan.
LeaseHasScan ==
  m.leases # {} ~> m.leases = {} \/ \E l \in Listeners : Scanning(l)

\* "NSD remains active only while a trusted desktop needs to be found", or
\* while the user's scan runs: the manager holds no lease that no client took.
OnlyWantedLeases == m.leases \subseteq wanted

=============================================================================
