------------------------- MODULE NsdDiscoveryProofs -------------------------
(***************************************************************************)
(* Type correctness of NsdDiscovery, that no scan is orphaned and that     *)
(* every stop under way is answered, for any number of listeners and       *)
(* networks and any bound on refusals and retries.                         *)
(***************************************************************************)
EXTENDS NsdDiscovery, TLAPS

Callbacks == Kinds \X Listeners

\* n, what the service does for each listener, and the callbacks b fit: a
\* final callback comes from a listener that the service has done with.
FinalIsOver(n, b) ==
  \A i \in DOMAIN b : b[i][1] # "started" => n[b[i][2]] = "idle"

\* The manager's fields c know the scan that the service runs.
KnowsScan(c, n, a) == \A l \in Listeners : n[l] # "idle" /\ l \notin a
                                             => c.listener = l

\* The stop that c says is under way has a callback to come.
StopHasAnswer(c, a, b) ==
  c.stopping => /\ c.listener # NoListener
                /\ \/ c.listener \in a
                   \/ \E i \in DOMAIN b : b[i][2] = c.listener

\* The parts of the invariant, of the manager's fields c, the service n, the
\* stops a it was asked for, and the callbacks b.  They have parameters since
\* the private functions are called in the middle of a step, with fields
\* that are no longer m and not yet m'.
ServiceSound(n, a, b) ==
  /\ n \in [Listeners -> {"idle", "starting", "on"}]
  /\ a \subseteq Listeners
  /\ b \in Seq(Callbacks)
  /\ \A l \in a : n[l] # "idle"
  /\ FinalIsOver(n, b)

ManagerSound(c, n, a, b) ==
  /\ c \in Manager
  /\ KnowsScan(c, n, a)
  /\ StopHasAnswer(c, a, b)

\* The inductive invariant.  NoOrphanScan alone is not: a final callback
\* makes the manager forget its listener, and only FinalIsOver says that the
\* service runs no scan for it any more.
IInv ==
  /\ ServiceSound(nsd, asked, inbox)
  /\ ManagerSound(m, nsd, asked, inbox)
  /\ failures \in 0..MaxFailures
  /\ wanted \subseteq Leases

-----------------------------------------------------------------------------
\* What a change of the manager's fields preserves.

\* Fields other than listener and stopping do not matter, and forgetting
\* that a stop is under way does no harm.
LEMMA FieldsAreFree ==
  ASSUME NEW c, NEW d \in Manager, NEW n, NEW a, NEW b,
         ManagerSound(c, n, a, b),
         d.listener = c.listener, d.stopping \in {FALSE, c.stopping}
  PROVE  ManagerSound(d, n, a, b)
BY DEF ManagerSound, KnowsScan, StopHasAnswer, Manager

\* Nor does it to forget a listener that the service has done with.
LEMMA ListenerMayGo ==
  ASSUME NEW c, NEW d \in Manager, NEW n, NEW a, NEW b,
         ManagerSound(c, n, a, b),
         c.listener = NoListener \/ n[c.listener] = "idle",
         d.listener = NoListener, d.stopping = FALSE
  PROVE  ManagerSound(d, n, a, b)
BY ConstantsAssumption DEF ManagerSound, KnowsScan, StopHasAnswer, Manager

\* ReleaseCallback and EnsureCallback stay within the fields' types and
\* leave the listener alone.
LEMMA ReleaseCallbackFields ==
  ASSUME NEW c \in Manager
  PROVE  /\ ReleaseCallback(c) \in Manager
         /\ ReleaseCallback(c).listener = c.listener
         /\ ReleaseCallback(c).stopping = c.stopping
BY DEF ReleaseCallback, Manager

\* Registering for Wi-Fi leaves the scan's own fields alone.
LEMMA EnsureCallbackFields ==
  ASSUME NEW c \in Manager, NEW d \in EnsureCallback(c)
  PROVE  /\ d \in Manager
         /\ d.listener = c.listener /\ d.stopping = c.stopping
<1>1. CASE c.callback
  BY <1>1 DEF EnsureCallback
<1>2. CASE ~c.callback
  <2>1. PICK found \in (Networks \cup {NoNetwork}) \X BOOLEAN :
          d = [c EXCEPT !.net = found[1], !.callback = found[2]]
    BY <1>2 DEF EnsureCallback
  <2> QED
    BY <2>1 DEF Manager
<1> QED
  BY <1>1, <1>2

\* So does posting a retry.
LEMMA RetryLaterFields ==
  ASSUME NEW c \in Manager
  PROVE  /\ RetryLater(c) \in Manager
         /\ RetryLater(c).listener = c.listener
         /\ RetryLater(c).stopping = c.stopping
BY DEF RetryLater, Manager

-----------------------------------------------------------------------------
\* The private functions, called with sound fields, leave a sound manager.

\* startDiscoveryLocked
LEMMA StartScanIsSound ==
  ASSUME NEW c, StartScan(c), failures \in 0..MaxFailures,
         ServiceSound(nsd, asked, inbox'), ManagerSound(c, nsd, asked, inbox')
  PROVE  /\ ServiceSound(nsd, asked, inbox)' /\ failures' \in 0..MaxFailures
         /\ ManagerSound(m, nsd, asked, inbox)'
<1>0. c \in Manager
  BY DEF ManagerSound
<1>1. CASE ~c.desired \/ c.listener # NoListener
  BY <1>1 DEF StartScan
<1>2. CASE c.desired /\ c.listener = NoListener /\ c.stopping
  BY <1>2 DEF ManagerSound, StopHasAnswer
<1>3. CASE c.desired /\ c.listener = NoListener /\ ~c.stopping
  <2> DEFINE locked == [c EXCEPT !.lock = TRUE]
  <2>1. /\ locked \in Manager
        /\ locked.listener = NoListener /\ locked.stopping = FALSE
    BY <1>0, <1>3 DEF Manager
  <2>2. PICK l \in Fresh, c1 \in EnsureCallback(locked) :
          \/ /\ nsd' = [nsd EXCEPT ![l] = "starting"]
             /\ m' = [c1 EXCEPT !.listener = l]
             /\ UNCHANGED <<asked, failures>>
          \/ /\ failures < MaxFailures
             /\ failures' = failures + 1
             /\ m' = RetryLater([c1 EXCEPT !.lock = FALSE])
             /\ UNCHANGED <<nsd, asked>>
    BY <1>3 DEF StartScan
  <2>3. /\ c1 \in Manager
        /\ c1.listener = NoListener /\ c1.stopping = FALSE
    BY <2>1, EnsureCallbackFields
  <2>4. /\ l \in Listeners /\ nsd[l] = "idle"
        /\ \A i \in DOMAIN inbox' : inbox'[i][2] # l
    BY DEF Fresh
  <2>5. CASE /\ nsd' = [nsd EXCEPT ![l] = "starting"]
             /\ m' = [c1 EXCEPT !.listener = l]
             /\ UNCHANGED <<asked, failures>>
    <3>1. ServiceSound(nsd, asked, inbox)'
      BY <2>4, <2>5 DEF ServiceSound, FinalIsOver, Callbacks
    <3>2. m' \in Manager /\ m'.listener = l /\ m'.stopping = FALSE
      BY <2>3, <2>4, <2>5 DEF Manager
    <3>3. KnowsScan(m, nsd, asked)'
      BY <1>3, <2>4, <2>5, <3>2, ConstantsAssumption
      DEF ManagerSound, KnowsScan, ServiceSound
    <3> QED
      BY <2>5, <3>1, <3>2, <3>3 DEF ManagerSound, StopHasAnswer
  <2>6. CASE /\ failures < MaxFailures
             /\ failures' = failures + 1
             /\ m' = RetryLater([c1 EXCEPT !.lock = FALSE])
             /\ UNCHANGED <<nsd, asked>>
    <3>1. failures' \in 0..MaxFailures
      BY <2>6, ConstantsAssumption
    <3>2. /\ [c1 EXCEPT !.lock = FALSE] \in Manager
          /\ [c1 EXCEPT !.lock = FALSE].listener = NoListener
          /\ [c1 EXCEPT !.lock = FALSE].stopping = FALSE
      BY <2>3 DEF Manager
    <3>3. m' \in Manager /\ m'.listener = NoListener /\ m'.stopping = FALSE
      BY <2>6, <3>2, RetryLaterFields
    <3>4. ManagerSound(m', nsd, asked, inbox')
      BY <1>3, <3>3, ListenerMayGo
    <3> QED
      BY <2>6, <3>1, <3>4
  <2> QED
    BY <2>2, <2>5, <2>6
<1> QED
  BY <1>0, <1>1, <1>2, <1>3 DEF Manager

\* stopDiscoveryLocked
LEMMA StopScanIsSound ==
  ASSUME NEW c, NEW finalStop \in BOOLEAN, StopScan(c, finalStop),
         failures \in 0..MaxFailures,
         ServiceSound(nsd, asked, inbox'), ManagerSound(c, nsd, asked, inbox')
  PROVE  /\ ServiceSound(nsd, asked, inbox)' /\ failures' \in 0..MaxFailures
         /\ ManagerSound(m, nsd, asked, inbox)'
<1> DEFINE off == [c EXCEPT !.listener = NoListener, !.stopping = FALSE,
                            !.lock = FALSE]
           released == IF finalStop THEN ReleaseCallback(off) ELSE off
           again == [off EXCEPT !.retries = @ + 1]
<1>0. c \in Manager /\ UNCHANGED <<nsd, failures>>
  BY DEF ManagerSound, StopScan
<1>1. off \in Manager /\ off.listener = NoListener /\ off.stopping = FALSE
  BY <1>0 DEF Manager
<1>2. /\ released \in Manager
      /\ released.listener = NoListener /\ released.stopping = FALSE
  BY <1>1, ReleaseCallbackFields
<1>3. again \in Manager /\ again.listener = NoListener
        /\ again.stopping = FALSE
  <2> HIDE DEF off
  <2> QED
    BY <1>1 DEF Manager
<1>4. CASE c.listener = NoListener
  <2>1. m' = released /\ UNCHANGED asked
    BY <1>4 DEF StopScan
  <2>2. ManagerSound(m', nsd, asked, inbox')
    BY <1>2, <1>4, <2>1, ListenerMayGo
  <2> QED
    BY <1>0, <2>1, <2>2
<1>5. CASE c.listener # NoListener /\ nsd[c.listener] # "idle"
  <2>1. /\ m' = [c EXCEPT !.stopping = TRUE]
        /\ asked' = asked \cup {c.listener}
    BY <1>5 DEF StopScan
  <2>2. c.listener \in Listeners
    BY <1>0, <1>5 DEF Manager
  <2>3. ServiceSound(nsd, asked, inbox)'
    BY <1>0, <1>5, <2>1, <2>2 DEF ServiceSound
  <2>4. m' \in Manager /\ m'.listener = c.listener
    BY <1>0, <2>1 DEF Manager
  <2>5. KnowsScan(m, nsd, asked)'
    BY <1>0, <2>1, <2>4 DEF ManagerSound, KnowsScan
  <2>6. StopHasAnswer(m, asked, inbox)'
    BY <1>5, <2>1, <2>4 DEF StopHasAnswer
  <2> QED
    BY <1>0, <2>3, <2>4, <2>5, <2>6 DEF ManagerSound
<1>6. CASE c.listener # NoListener /\ nsd[c.listener] = "idle"
  <2>1. m' = (IF c.restart /\ c.desired THEN again ELSE released)
          /\ UNCHANGED asked
    BY <1>6 DEF StopScan
  <2>2. ManagerSound(m', nsd, asked, inbox')
    BY <1>2, <1>3, <1>6, <2>1, ListenerMayGo
  <2> QED
    BY <1>0, <2>1, <2>2
<1> QED
  BY <1>4, <1>5, <1>6

\* Finishing a restart is sound for whatever fields it finds.
LEMMA FinishRestartIsSound ==
  ASSUME NEW c, FinishRestart(c), failures \in 0..MaxFailures,
         ServiceSound(nsd, asked, inbox'), ManagerSound(c, nsd, asked, inbox')
  PROVE  /\ ServiceSound(nsd, asked, inbox)' /\ failures' \in 0..MaxFailures
         /\ ManagerSound(m, nsd, asked, inbox)'
<1> DEFINE d == [c EXCEPT !.restart = FALSE]
<1>1. d \in Manager /\ d.listener = c.listener /\ d.stopping = c.stopping
  BY DEF ManagerSound, Manager
<1>2. ManagerSound(d, nsd, asked, inbox')
  BY <1>1, FieldsAreFree
<1>3. CASE StartScan(d)
  <2> HIDE DEF d
  <2> QED
    BY <1>2, <1>3, StartScanIsSound
<1>4. CASE m' = c /\ UNCHANGED <<nsd, asked, failures>>
  BY <1>4
<1> QED
  BY <1>3, <1>4 DEF FinishRestart

-----------------------------------------------------------------------------
\* The steps of clients, timers and the Wi-Fi callback.  Each prepares the
\* fields and calls a private function, the queue of callbacks as it was.

\* The fields may be prepared as one likes except for those about the scan.
LEMMA Prepared ==
  ASSUME IInv, UNCHANGED inbox, NEW c \in Manager,
         c.listener = m.listener, c.stopping = m.stopping
  PROVE  /\ failures \in 0..MaxFailures
         /\ ServiceSound(nsd, asked, inbox')
         /\ ManagerSound(c, nsd, asked, inbox')
BY FieldsAreFree DEF IInv

\* The coordinator's lease: a scan is started unless one runs or is being
\* stopped.
LEMMA StartDiscoveryPreservesIInv ==
  ASSUME IInv, StartDiscovery PROVE IInv'
<1> DEFINE c == [m EXCEPT !.leases = @ \cup {"TRUSTED_RECONNECT"},
                          !.desired = TRUE]
<1>1. c \in Manager /\ c.listener = m.listener /\ c.stopping = m.stopping
  BY DEF IInv, ManagerSound, Manager, Leases
<1>2. UNCHANGED inbox /\ StartScan(c) /\ wanted' \subseteq Leases
  BY DEF StartDiscovery, IInv, Leases
<1> HIDE DEF c
<1> QED
  BY <1>1, <1>2, Prepared, StartScanIsSound DEF IInv

\* A lease is given back; with the last one the scan is stopped.
LEMMA StopDiscoveryPreservesIInv ==
  ASSUME IInv, NEW lease \in Leases, StopDiscovery(lease) PROVE IInv'
<1> DEFINE left == m.leases \ {lease}
           kept == [m EXCEPT !.leases = left, !.desired = TRUE]
           ended == [m EXCEPT !.leases = {}, !.desired = FALSE,
                              !.restart = FALSE, !.retries = 0,
                              !.netTimer = FALSE]
<1>1. UNCHANGED inbox /\ wanted' \subseteq Leases
  BY DEF StopDiscovery, IInv
<1>2. CASE left # {}
  <2>1. m' = kept /\ UNCHANGED <<nsd, asked, failures>>
    BY <1>2 DEF StopDiscovery
  <2>2. /\ kept \in Manager
        /\ kept.listener = m.listener /\ kept.stopping = m.stopping
    BY DEF IInv, ManagerSound, Manager
  <2> HIDE DEF kept
  <2> QED
    BY <1>1, <2>1, <2>2, Prepared DEF IInv
<1>3. CASE left = {}
  <2>1. StopScan(ended, TRUE)
    BY <1>3 DEF StopDiscovery
  <2>2. /\ ended \in Manager
        /\ ended.listener = m.listener /\ ended.stopping = m.stopping
    BY DEF IInv, ManagerSound, Manager
  <2> HIDE DEF ended
  <2> QED
    BY <1>1, <2>1, <2>2, Prepared, StopScanIsSound DEF IInv
<1> QED
  BY <1>2, <1>3

\* All leases are given back at once.
LEMMA ShutdownPreservesIInv ==
  ASSUME IInv, Shutdown PROVE IInv'
<1> DEFINE c == [m EXCEPT !.leases = {}, !.desired = FALSE,
                          !.restart = FALSE, !.retries = 0,
                          !.netTimer = FALSE]
<1>1. c \in Manager /\ c.listener = m.listener /\ c.stopping = m.stopping
  BY DEF IInv, ManagerSound, Manager
<1>2. UNCHANGED inbox /\ StopScan(c, TRUE) /\ wanted' \subseteq Leases
  BY DEF Shutdown
<1> HIDE DEF c
<1> QED
  BY <1>1, <1>2, Prepared, StopScanIsSound DEF IInv

\* refreshDiscovery, on behalf of the user or of the timer, whose fields m
\* differ from those at hand in what does not matter here.
LEMMA RefreshIsSound ==
  ASSUME IInv, UNCHANGED inbox, NEW c \in Manager,
         c.listener = m.listener, c.stopping = m.stopping,
         IF c.listener # NoListener THEN StopScan(c, FALSE)
         ELSE IF ~c.stopping THEN FinishRestart(c)
         ELSE m' = c /\ UNCHANGED <<nsd, asked, failures>>
  PROVE  /\ ServiceSound(nsd, asked, inbox)' /\ failures' \in 0..MaxFailures
         /\ ManagerSound(m, nsd, asked, inbox)'
<1>1. /\ failures \in 0..MaxFailures
      /\ ServiceSound(nsd, asked, inbox')
      /\ ManagerSound(c, nsd, asked, inbox')
  BY Prepared
<1>2. CASE StopScan(c, FALSE)
  BY <1>1, <1>2, StopScanIsSound
<1>3. CASE FinishRestart(c)
  BY <1>1, <1>3, FinishRestartIsSound
<1>4. CASE m' = c /\ UNCHANGED <<nsd, asked, failures>>
  BY <1>1, <1>4
<1> QED
  BY <1>2, <1>3, <1>4

\* The user's refresh: the running scan is stopped and started again.
LEMMA UserScanPreservesIInv ==
  ASSUME IInv, UserScan PROVE IInv'
<1> DEFINE c == [m EXCEPT !.leases = @ \cup {"USER_SCAN"}, !.desired = TRUE,
                          !.restart = TRUE]
<1>1. c \in Manager /\ c.listener = m.listener /\ c.stopping = m.stopping
  BY DEF IInv, ManagerSound, Manager, Leases
<1>2. /\ UNCHANGED inbox /\ wanted' \subseteq Leases
      /\ IF c.listener # NoListener THEN StopScan(c, FALSE)
         ELSE IF ~c.stopping THEN FinishRestart(c)
         ELSE m' = c /\ UNCHANGED <<nsd, asked, failures>>
  BY DEF UserScan, Refresh, IInv, Leases
<1> HIDE DEF c
<1> QED
  BY <1>1, <1>2, RefreshIsSound DEF IInv

\* The retry that a refused start has posted.
LEMMA RetryTimerPreservesIInv ==
  ASSUME IInv, RetryTimer PROVE IInv'
<1> DEFINE c == [m EXCEPT !.retries = @ - 1]
<1>1. c \in Manager /\ c.listener = m.listener /\ c.stopping = m.stopping
  BY DEF RetryTimer, IInv, ManagerSound, Manager
<1>2. UNCHANGED <<inbox, wanted>> /\ FinishRestart(c)
  BY DEF RetryTimer
<1> HIDE DEF c
<1> QED
  BY <1>1, <1>2, Prepared, FinishRestartIsSound DEF IInv

\* The delayed refresh after the Wi-Fi network has changed.
LEMMA NetworkTimerPreservesIInv ==
  ASSUME IInv, NetworkTimer PROVE IInv'
<1> DEFINE c == [m EXCEPT !.netTimer = FALSE]
           d == [c EXCEPT !.leases = @ \cup {"USER_SCAN"}, !.restart = TRUE]
<1>1. c \in Manager /\ c.listener = m.listener /\ c.stopping = m.stopping
  BY DEF IInv, ManagerSound, Manager
<1>2. d \in Manager /\ d.listener = m.listener /\ d.stopping = m.stopping
  <2> HIDE DEF c
  <2> QED
    BY <1>1 DEF Manager, Leases
<1>3. UNCHANGED <<inbox, wanted>>
  BY DEF NetworkTimer
<1>4. CASE c.callback /\ c.desired
  <2>1. IF d.listener # NoListener THEN StopScan(d, FALSE)
        ELSE IF ~d.stopping THEN FinishRestart(d)
        ELSE m' = d /\ UNCHANGED <<nsd, asked, failures>>
    BY <1>4 DEF NetworkTimer
  <2> HIDE DEF c, d
  <2> QED
    BY <1>2, <1>3, <2>1, RefreshIsSound DEF IInv
<1>5. CASE ~(c.callback /\ c.desired)
  <2>1. m' = c /\ UNCHANGED <<nsd, asked, failures>>
    BY <1>5 DEF NetworkTimer
  <2> HIDE DEF c
  <2> QED
    BY <1>1, <1>3, <2>1, Prepared DEF IInv
<1> QED
  BY <1>4, <1>5

\* Wi-Fi comes (a scan starts, or a refresh is put off) or goes.
LEMMA WifiPreservesIInv ==
  ASSUME IInv, NEW n \in Networks, WifiAvailable(n) \/ WifiLost(n)
  PROVE  IInv'
<1> DEFINE c == [m EXCEPT !.net = n]
           later == [c EXCEPT !.netTimer = TRUE]
           lost == [m EXCEPT !.net = NoNetwork]
<1>1. c \in Manager /\ c.listener = m.listener /\ c.stopping = m.stopping
  BY DEF IInv, ManagerSound, Manager
<1>2. /\ later \in Manager
      /\ later.listener = m.listener /\ later.stopping = m.stopping
  <2> HIDE DEF c
  <2> QED
    BY <1>1 DEF Manager
<1>3. /\ lost \in Manager
      /\ lost.listener = m.listener /\ lost.stopping = m.stopping
  BY DEF IInv, ManagerSound, Manager
<1>4. UNCHANGED <<inbox, wanted>>
  BY DEF WifiAvailable, WifiLost
<1>5. \/ StartScan(c)
      \/ m' \in {c, later, lost} /\ UNCHANGED <<nsd, asked, failures>>
  BY DEF WifiAvailable, WifiLost
<1> HIDE DEF c, later, lost
<1>6. CASE StartScan(c)
  BY <1>1, <1>4, <1>6, Prepared, StartScanIsSound DEF IInv
<1>7. CASE m' \in {c, later, lost} /\ UNCHANGED <<nsd, asked, failures>>
  BY <1>1, <1>2, <1>3, <1>4, <1>7, Prepared DEF IInv
<1> QED
  BY <1>5, <1>6, <1>7

-----------------------------------------------------------------------------
\* The service.  Whatever it does for l posts one callback, which answers a
\* stop of l that is under way.

\* The NSD service answers a call by posting its callback.
LEMMA ServicePreservesIInv ==
  ASSUME IInv, NEW l \in Listeners, Service(l) PROVE IInv'
<1>1. PICK kind \in Kinds : inbox' = Append(inbox, <<kind, l>>)
  BY DEF Service, NsdStarts, NsdRefusesStart, NsdStops, NsdRefusesStop, Post,
         Kinds
<1>2. /\ nsd[l] # "idle" /\ UNCHANGED <<m, wanted>>
      /\ \/ /\ kind = "started" /\ nsd' = [nsd EXCEPT ![l] = "on"]
            /\ UNCHANGED asked
         \/ nsd' = [nsd EXCEPT ![l] = "idle"] /\ asked' = asked \ {l}
  <2>1. CASE NsdStarts(l)
    <3>1. <<kind, l>> = <<"started", l>>
      BY <1>1, <2>1 DEF NsdStarts, Post, IInv, ServiceSound
    <3> QED
      BY <2>1, <3>1 DEF NsdStarts
  <2>2. CASE NsdRefusesStart(l) \/ NsdStops(l) \/ NsdRefusesStop(l)
    BY <2>2 DEF NsdRefusesStart, NsdStops, NsdRefusesStop
  <2> QED
    BY <2>1, <2>2 DEF Service
<1>3. failures' \in 0..MaxFailures
  <2>1. failures \in 0..MaxFailures
    BY DEF IInv
  <2>2. \/ UNCHANGED failures
        \/ failures < MaxFailures /\ failures' = failures + 1
    BY DEF Service, NsdStarts, NsdRefusesStart, NsdStops, NsdRefusesStop
  <2> QED
    BY <2>1, <2>2, ConstantsAssumption
<1>4. /\ inbox' \in Seq(Callbacks) /\ Len(inbox') = Len(inbox) + 1
      /\ \A i \in DOMAIN inbox : inbox'[i] = inbox[i] /\ i \in DOMAIN inbox'
      /\ inbox'[Len(inbox')] = <<kind, l>> /\ Len(inbox') \in DOMAIN inbox'
      /\ \A i \in DOMAIN inbox' : i \in DOMAIN inbox \/ i = Len(inbox')
  BY <1>1 DEF IInv, ServiceSound, Callbacks
<1>5. ServiceSound(nsd, asked, inbox)'
  <2>1. /\ nsd' \in [Listeners -> {"idle", "starting", "on"}]
        /\ asked' \subseteq Listeners
        /\ \A k \in asked' : nsd'[k] # "idle"
    BY <1>2 DEF IInv, ServiceSound
  <2>2. ASSUME NEW i \in DOMAIN inbox', inbox'[i][1] # "started"
        PROVE  nsd'[inbox'[i][2]] = "idle"
    <3>1. CASE i = Len(inbox')
      <4>1. kind # "started" /\ inbox'[i][2] = l
        BY <1>4, <2>2, <3>1
      <4> QED
        BY <1>2, <4>1 DEF IInv, ServiceSound
    <3>2. CASE i \in DOMAIN inbox
      <4>1. nsd[inbox'[i][2]] = "idle" /\ inbox'[i][2] \in Listeners
        BY <1>4, <2>2, <3>2 DEF IInv, ServiceSound, FinalIsOver, Callbacks
      <4> QED
        BY <1>2, <4>1 DEF IInv, ServiceSound
    <3> QED
      BY <1>4, <3>1, <3>2
  <2> QED
    BY <1>4, <2>1, <2>2 DEF ServiceSound, FinalIsOver
<1>6. KnowsScan(m, nsd, asked)'
  BY <1>2 DEF IInv, ServiceSound, ManagerSound, KnowsScan
<1>7. StopHasAnswer(m, asked, inbox)'
  <2> SUFFICES ASSUME m.stopping
               PROVE  \/ m.listener \in asked'
                      \/ \E i \in DOMAIN inbox' : inbox'[i][2] = m.listener
    BY <1>2 DEF StopHasAnswer, IInv, ManagerSound
  <2>1. CASE m.listener = l
    BY <1>4, <2>1
  <2>2. CASE m.listener # l /\ m.listener \in asked
    BY <1>2, <2>2
  <2>3. CASE \E i \in DOMAIN inbox : inbox[i][2] = m.listener
    BY <1>4, <2>3
  <2> QED
    BY <2>1, <2>2, <2>3 DEF IInv, ManagerSound, StopHasAnswer
<1> QED
  BY <1>2, <1>3, <1>5, <1>6, <1>7 DEF IInv, ManagerSound

-----------------------------------------------------------------------------
\* The callbacks.

\* The queue without its head is as sound as it was, and fits the manager's
\* fields once the stop under way, which the head may answer, is forgotten.
LEMMA DeliveredIsSound ==
  ASSUME IInv, NEW kind \in Kinds, Deliver(kind)
  PROVE  /\ wanted' \subseteq Leases
         /\ ServiceSound(nsd, asked, inbox')
         /\ Head(inbox)[2] \in Listeners
         /\ kind # "started" => nsd[Head(inbox)[2]] = "idle"
         /\ \A c \in Manager : /\ c.listener = m.listener /\ c.stopping = FALSE
                               => ManagerSound(c, nsd, asked, inbox')
<1>1. /\ inbox \in Seq(Callbacks) /\ inbox # <<>>
      /\ inbox' = Tail(inbox) /\ Head(inbox)[1] = kind
      /\ UNCHANGED wanted
  BY DEF Deliver, IInv, ServiceSound
<1>2. /\ Head(inbox) \in Callbacks /\ inbox' \in Seq(Callbacks)
      /\ 1 \in DOMAIN inbox /\ Head(inbox) = inbox[1]
      /\ \A i \in DOMAIN inbox' : i + 1 \in DOMAIN inbox
                                    /\ inbox'[i] = inbox[i + 1]
  BY <1>1
<1>3. ServiceSound(nsd, asked, inbox')
  BY <1>2 DEF IInv, ServiceSound, FinalIsOver
<1>4. Head(inbox)[2] \in Listeners
        /\ (kind # "started" => nsd[Head(inbox)[2]] = "idle")
  BY <1>1, <1>2 DEF IInv, ServiceSound, FinalIsOver, Callbacks
<1>5. ASSUME NEW c \in Manager, c.listener = m.listener, c.stopping = FALSE
      PROVE  ManagerSound(c, nsd, asked, inbox')
  BY <1>5 DEF IInv, ManagerSound, KnowsScan, StopHasAnswer
<1> QED
  BY <1>1, <1>3, <1>4, <1>5 DEF IInv

\* The fields that a final callback starts from.
LEMMA ScanOverIsSound ==
  ASSUME IInv, NEW kind \in Kinds \ {"started"}, Deliver(kind)
  PROVE  /\ ScanOver(Head(inbox)[2]) \in Manager
         /\ ManagerSound(ScanOver(Head(inbox)[2]), nsd, asked, inbox')
<1> DEFINE l == Head(inbox)[2]
           still == [m EXCEPT !.stopping = FALSE, !.lock = FALSE]
<1>1. l \in Listeners /\ nsd[l] = "idle"
  BY DeliveredIsSound
<1>2. m \in Manager
  BY DEF IInv, ManagerSound
<1>3. /\ still \in Manager
      /\ still.listener = m.listener /\ still.stopping = FALSE
  BY <1>2 DEF Manager
<1>4. ManagerSound(still, nsd, asked, inbox')
  BY <1>3, DeliveredIsSound
<1> HIDE DEF l
<1>5. /\ ScanOver(l) \in Manager /\ ScanOver(l).stopping = FALSE
      /\ ScanOver(l).listener = IF m.listener = l THEN NoListener
                                ELSE m.listener
  BY <1>2 DEF ScanOver, Manager
<1>6. ManagerSound(ScanOver(l), nsd, asked, inbox')
  <2>1. CASE m.listener = l
    BY <1>1, <1>3, <1>4, <1>5, <2>1, ListenerMayGo
  <2>2. CASE m.listener # l
    BY <1>3, <1>4, <1>5, <2>2, FieldsAreFree
  <2> QED
    BY <2>1, <2>2
<1> QED
  BY <1>5, <1>6, Zenon DEF l

\* The main looper runs the callback at the head of its queue.
LEMMA LooperPreservesIInv ==
  ASSUME IInv, Looper PROVE IInv'
<1> DEFINE c == ScanOver(Head(inbox)[2])
<1>0. failures \in 0..MaxFailures /\ m \in Manager
  BY DEF IInv, ManagerSound
<1>1. CASE OnStarted
  <2> DEFINE d == [m EXCEPT !.stopping = FALSE]
  <2>1. d \in Manager /\ d.listener = m.listener /\ d.stopping = FALSE
    BY <1>0 DEF Manager
  <2>2. m' = d /\ Deliver("started") /\ UNCHANGED <<nsd, asked, failures>>
    BY <1>1 DEF OnStarted
  <2> HIDE DEF d
  <2> QED
    BY <1>0, <2>1, <2>2, DeliveredIsSound DEF IInv, Kinds
<1>2. CASE OnStartFailed
  <2>1. Deliver("startFailed") /\ UNCHANGED <<nsd, asked, failures>>
    BY <1>2 DEF OnStartFailed
  <2>2. c \in Manager /\ ManagerSound(c, nsd, asked, inbox')
    BY <2>1, ScanOverIsSound DEF Kinds
  <2>3. m' \in {RetryLater(c), ReleaseCallback(RetryLater(c))}
    BY <1>2 DEF OnStartFailed
  <2> HIDE DEF c
  <2>4. /\ m' \in Manager
        /\ m'.listener = c.listener /\ m'.stopping = c.stopping
    BY <2>2, <2>3, RetryLaterFields, ReleaseCallbackFields
  <2>5. ManagerSound(m', nsd, asked, inbox')
    BY <2>2, <2>4, FieldsAreFree
  <2> QED
    BY <1>0, <2>1, <2>5, DeliveredIsSound DEF IInv, Kinds
<1>3. CASE OnStopFailed
  <2>1. Deliver("stopFailed") /\ UNCHANGED <<nsd, asked, failures>>
    BY <1>3 DEF OnStopFailed
  <2>2. c \in Manager /\ ManagerSound(c, nsd, asked, inbox')
    BY <2>1, ScanOverIsSound DEF Kinds
  <2>3. m' \in {[c EXCEPT !.retries = @ + 1], ReleaseCallback(c)}
    BY <1>3 DEF OnStopFailed
  <2> HIDE DEF c
  <2>4. /\ m' \in Manager
        /\ m'.listener = c.listener /\ m'.stopping = c.stopping
    BY <2>2, <2>3, ReleaseCallbackFields DEF Manager
  <2>5. ManagerSound(m', nsd, asked, inbox')
    BY <2>2, <2>4, FieldsAreFree
  <2> QED
    BY <1>0, <2>1, <2>5, DeliveredIsSound DEF IInv, Kinds
<1>4. CASE OnStopped
  <2>1. Deliver("stopped")
    BY <1>4 DEF OnStopped
  <2>2. c \in Manager /\ ManagerSound(c, nsd, asked, inbox')
    BY <2>1, ScanOverIsSound DEF Kinds
  <2>3. \/ FinishRestart(c)
        \/ m' = ReleaseCallback(c) /\ UNCHANGED <<nsd, asked, failures>>
    BY <1>4 DEF OnStopped
  <2>4. wanted' \subseteq Leases /\ ServiceSound(nsd, asked, inbox')
    BY <2>1, DeliveredIsSound DEF Kinds
  <2> HIDE DEF c
  <2>5. CASE FinishRestart(c)
    BY <1>0, <2>2, <2>4, <2>5, FinishRestartIsSound DEF IInv
  <2>6. CASE m' = ReleaseCallback(c) /\ UNCHANGED <<nsd, asked, failures>>
    <3>1. ManagerSound(m', nsd, asked, inbox')
      BY <2>2, <2>6, ReleaseCallbackFields, FieldsAreFree
    <3> QED
      BY <1>0, <2>4, <2>6, <3>1 DEF IInv
  <2> QED
    BY <2>3, <2>5, <2>6
<1> QED
  BY <1>1, <1>2, <1>3, <1>4 DEF Looper

-----------------------------------------------------------------------------

\* The invariant holds in every reachable state.
THEOREM InvariantHolds == Spec => []IInv
<1>1. Init => IInv
  BY ConstantsAssumption
  DEF Init, IInv, ServiceSound, ManagerSound, FinalIsOver, KnowsScan,
      StopHasAnswer, Manager, Callbacks
<1>2. IInv /\ [Next]_vars => IInv'
  <2> SUFFICES ASSUME IInv, [Next]_vars PROVE IInv'
    OBVIOUS
  <2>1. CASE Client
    BY <2>1, StartDiscoveryPreservesIInv, UserScanPreservesIInv,
       ShutdownPreservesIInv, StopDiscoveryPreservesIInv DEF Client
  <2>2. CASE Looper
    BY <2>2, LooperPreservesIInv
  <2>3. CASE Wifi
    BY <2>3, WifiPreservesIInv DEF Wifi
  <2>4. CASE RetryTimer
    BY <2>4, RetryTimerPreservesIInv
  <2>5. CASE NetworkTimer
    BY <2>5, NetworkTimerPreservesIInv
  <2>6. CASE \E l \in Listeners : Service(l)
    BY <2>6, ServicePreservesIInv
  <2>7. CASE UNCHANGED vars
    BY <2>7 DEF vars, IInv
  <2> QED
    BY <2>1, <2>2, <2>3, <2>4, <2>5, <2>6, <2>7 DEF Next
<1> QED
  BY <1>1, <1>2, PTL DEF Spec

\* Every variable keeps its type: the manager's fields, the service's states
\* of the listeners and the callbacks that wait on the main looper.
THEOREM TypeCorrect == Spec => []TypeOK
<1>1. IInv => TypeOK
  BY DEF IInv, ServiceSound, ManagerSound, TypeOK, Callbacks
<1> QED
  BY <1>1, InvariantHolds, PTL

\* A scan that the service runs and was not asked to stop is the one of
\* discoveryListener, whatever calls, callbacks and refusals crossed.
THEOREM NoScanIsOrphaned == Spec => []NoOrphanScan
<1>1. IInv => NoOrphanScan
  BY DEF IInv, ManagerSound, KnowsScan, NoOrphanScan, Scanning
<1> QED
  BY <1>1, InvariantHolds, PTL

\* While stopInProgress is set, a callback that clears it is still to come:
\* the manager cannot wait for a stop that nobody will confirm.
THEOREM StopsAreAnswered == Spec => []StopWillBeAnswered
<1>1. IInv => StopWillBeAnswered
  BY DEF IInv, ManagerSound, StopHasAnswer, StopWillBeAnswered
<1> QED
  BY <1>1, InvariantHolds, PTL

=============================================================================
