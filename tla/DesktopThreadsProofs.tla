----------------------- MODULE DesktopThreadsProofs -------------------------
(***************************************************************************)
(* The two programs of the desktop in which threads meet: DesktopSession,  *)
(* the sessions and their registries, and Popups, the notifications and    *)
(* their notify-send threads, for any number of phones, handler threads    *)
(* and servers, any notifications and callers and any number of reports.   *)
(***************************************************************************)
EXTENDS DesktopSession, Popups, TLAPS

-----------------------------------------------------------------------------
(* DesktopSession.                                                         *)

\* What a handler thread knows of itself: the server that accepted it, and,
\* once the first envelope is read, the phone at the other end.
HandlerKnows ==
  \A h \in Handlers :
    /\ pc[h] # "idle" => srv[h] \in Servers
    /\ pc[h] \notin {"idle", "accepted", "hello"} => dev[h] \in Devices

\* A registry names a handler exactly while that handler, a thread of that
\* very server, is between acquire and release.
HolderInSession ==
  \A h \in Handlers, g \in Servers :
    registry[g] = h <=> (InSession(h) /\ srv[h] = g)

\* The inductive invariant.  TypeOK alone is not: that active stays a set of
\* devices depends on HandlerKnows; RegistryNamesHolder is not: that Release
\* leaves no second registry naming its handler depends on HolderInSession.
IInv ==
  /\ TypeOK
  /\ HandlerKnows
  /\ HolderInSession
  /\ ActiveHasSession

-----------------------------------------------------------------------------

\* Nothing is connected, held or listed when the program starts.
LEMMA InitEstablishesIInv == Init => IInv
<1> SUFFICES ASSUME Init PROVE IInv
  OBVIOUS
<1> USE ConstantsAssumption DEF Init, Servers
<1>1. TypeOK
  <2>1. 0 \in 0..MaxServers
    OBVIOUS
  <2>2. srv \in [Handlers -> 0..MaxServers] /\ gen \in 0..MaxServers
    BY <2>1
  <2>3. pc \in [Handlers -> PCs]
    BY DEF PCs
  <2> QED
    BY <2>2, <2>3 DEF TypeOK
<1>2. HandlerKnows
  BY DEF HandlerKnows
<1>3. HolderInSession
  BY DEF HolderInSession, InSession
<1>4. ActiveHasSession
  BY DEF ActiveHasSession
<1> QED
  BY <1>1, <1>2, <1>3, <1>4 DEF IInv

\* A thread that only moves on, within the part of its life it is in, keeps
\* the invariant: before the token, while it holds the token but lists
\* nothing, and while its phone may be listed.
LEMMA MovePreservesIInv ==
  ASSUME IInv, NEW h \in Handlers, NEW label \in PCs, GoTo(h, label),
         UNCHANGED <<registry, setVars, guiVars>>,
         \/ pc[h] = "accepted" /\ label = "hello"
         \/ /\ pc[h] \in {"lookup", "gate"}
            /\ label \in {"gate", "acquire"}
         \/ /\ pc[h] = "ack" /\ label \in {"mark", "close"}
         \/ /\ pc[h] \in {"check", "read"}
            /\ label \in {"check", "read", "close"}
  PROVE  IInv'
<1> USE DEF IInv, GoTo, setVars, guiVars
<1>1. TypeOK'
  BY DEF TypeOK
<1>2. HandlerKnows'
  BY DEF HandlerKnows, TypeOK, Servers
<1>3. HolderInSession'
  BY DEF HolderInSession, InSession, TypeOK, Servers
<1>4. ActiveHasSession'
  BY DEF ActiveHasSession, TypeOK
<1> QED
  BY <1>1, <1>2, <1>3, <1>4

\* A thread that ends without holding a token keeps the invariant.
LEMMA EndPreservesIInv ==
  ASSUME IInv, NEW h \in Handlers, EndConnection(h),
         pc[h] \in {"hello", "lookup", "gate", "acquire"},
         UNCHANGED <<registry, active, requests, manual, guiVars>>,
         trust' \subseteq Devices
  PROVE  IInv'
<1> USE DEF IInv, EndConnection, setVars, guiVars
<1>1. TypeOK'
  BY ConstantsAssumption DEF TypeOK, PCs
<1>2. HandlerKnows'
  BY DEF HandlerKnows, TypeOK, Servers
<1>3. HolderInSession'
  BY DEF HolderInSession, InSession, TypeOK, Servers
<1>4. ActiveHasSession'
  BY DEF ActiveHasSession, TypeOK
<1> QED
  BY <1>1, <1>2, <1>3, <1>4

\* A step that touches no thread, no registry and takes list entries away at
\* most keeps the invariant, if it keeps the types.
LEMMA OutsidePreservesIInv ==
  ASSUME IInv, TypeOK', UNCHANGED <<pc, dev, srv, registry>>,
         active' \subseteq active
  PROVE  IInv'
<1> USE DEF IInv
<1>2. HandlerKnows'
  BY DEF HandlerKnows, Servers
<1>3. HolderInSession'
  BY DEF HolderInSession, InSession, Servers
<1>4. ActiveHasSession'
  BY DEF ActiveHasSession
<1> QED
  BY <1>2, <1>3, <1>4

-----------------------------------------------------------------------------

\* Every step of a handler thread keeps the invariant.
LEMMA HandlerStepPreservesIInv ==
  ASSUME IInv, NEW h \in Handlers, HandlerStep(h)
  PROVE  IInv'
<1>1. CASE Register(h)
  BY <1>1, MovePreservesIInv DEF Register, PCs
<1>2. ASSUME NEW d \in Devices, Hello(h, d)
      PROVE  IInv'
  <2> USE <1>2 DEF Hello, IInv, setVars, guiVars
  <2>1. TypeOK'
    BY ConstantsAssumption DEF TypeOK, PCs
  <2>2. HandlerKnows'
    BY DEF HandlerKnows, TypeOK, Servers
  <2>3. HolderInSession'
    BY DEF HolderInSession, InSession, TypeOK, Servers
  <2>4. ActiveHasSession'
    BY DEF ActiveHasSession, TypeOK
  <2> QED
    BY <2>1, <2>2, <2>3, <2>4
<1>3. CASE Drop(h)
  BY <1>3, EndPreservesIInv DEF Drop, setVars, IInv, TypeOK
<1>4. CASE Lookup(h)
  BY <1>4, EndPreservesIInv, MovePreservesIInv
     DEF Lookup, setVars, IInv, TypeOK, PCs
<1>5. CASE Gate(h)
  BY <1>5, EndPreservesIInv, MovePreservesIInv
     DEF Gate, setVars, IInv, TypeOK, PCs
<1>6. CASE Acquire(h)
  <2>1. CASE registry[srv[h]] # NoHandler
    BY <1>6, <2>1, EndPreservesIInv DEF Acquire, setVars, IInv, TypeOK
  <2>2. CASE registry[srv[h]] = NoHandler
    <3> USE <1>6, <2>2 DEF Acquire, GoTo, IInv, setVars, guiVars
    <3>1. TypeOK'
      BY DEF TypeOK, PCs
    <3>2. HandlerKnows'
      BY DEF HandlerKnows, TypeOK, Servers
    <3>3. HolderInSession'
      BY ConstantsAssumption
         DEF HolderInSession, HandlerKnows, InSession, TypeOK, Servers
    <3>4. ActiveHasSession'
      BY DEF ActiveHasSession, TypeOK
    <3> QED
      BY <3>1, <3>2, <3>3, <3>4
  <2> QED
    BY <2>1, <2>2
<1>7. CASE SendAck(h)
  BY <1>7, MovePreservesIInv DEF SendAck, PCs
<1>8. CASE MarkStarted(h)
  <2> USE <1>8 DEF MarkStarted, GoTo, IInv, setVars, guiVars
  <2>1. TypeOK'
    BY DEF TypeOK, HandlerKnows, PCs
  <2>2. HandlerKnows'
    BY DEF HandlerKnows, TypeOK, Servers
  <2>3. HolderInSession'
    BY DEF HolderInSession, InSession, TypeOK, Servers
  <2>4. ActiveHasSession'
    BY DEF ActiveHasSession, TypeOK
  <2> QED
    BY <2>1, <2>2, <2>3, <2>4
<1>9. CASE CheckDisconnect(h)
  BY <1>9, MovePreservesIInv DEF CheckDisconnect, PCs
<1>10. CASE ReadEnvelope(h)
  BY <1>10, MovePreservesIInv DEF ReadEnvelope, PCs
<1>11. CASE ReadFails(h)
  BY <1>11, MovePreservesIInv DEF ReadFails, PCs
<1>12. CASE MarkClosed(h)
  <2> USE <1>12 DEF MarkClosed, GoTo, IInv, setVars, guiVars
  <2>1. TypeOK'
    BY DEF TypeOK, PCs
  <2>2. HandlerKnows'
    BY DEF HandlerKnows, TypeOK, Servers
  <2>3. HolderInSession'
    BY DEF HolderInSession, InSession, TypeOK, Servers
  <2>4. ActiveHasSession'
    BY DEF ActiveHasSession, TypeOK
  <2> QED
    BY <2>1, <2>2, <2>3, <2>4
<1>13. CASE Release(h)
  <2> USE <1>13 DEF Release, EndConnection, IInv, setVars, guiVars
  <2>1. TypeOK'
    <3>1. registry' \in [Servers -> Handlers \cup {NoHandler}]
      BY DEF TypeOK
    <3>2. 0 \in 0..MaxServers
      BY ConstantsAssumption
    <3>3. /\ pc' \in [Handlers -> PCs]
          /\ srv' \in [Handlers -> 0..MaxServers]
      BY <3>2 DEF TypeOK, PCs
    <3> QED
      BY <3>1, <3>3 DEF TypeOK
  <2>2. HandlerKnows'
    BY DEF HandlerKnows, TypeOK, Servers
  <2>3. HolderInSession'
    BY ConstantsAssumption
       DEF HolderInSession, HandlerKnows, InSession, TypeOK, Servers
  <2>4. ActiveHasSession'
    BY DEF ActiveHasSession, TypeOK
  <2> QED
    BY <2>1, <2>2, <2>3, <2>4
<1> QED
  BY <1>1, <1>2, <1>3, <1>4, <1>5, <1>6, <1>7, <1>8, <1>9, <1>10, <1>11,
     <1>12, <1>13 DEF HandlerStep

\* So does every step of a phone, the network, or a pairing.
LEMMA EnvironmentPreservesIInv ==
  ASSUME IInv, NEW h \in Handlers, Environment(h)
  PROVE  IInv'
<1>1. CASE Accept(h)
  <2> USE <1>1 DEF Accept, IInv, setVars, guiVars
  <2>1. TypeOK'
    BY DEF TypeOK, PCs, Servers
  <2>2. HandlerKnows'
    BY DEF HandlerKnows, TypeOK, Servers
  <2>3. HolderInSession'
    BY DEF HolderInSession, InSession, TypeOK, Servers
  <2>4. ActiveHasSession'
    BY DEF ActiveHasSession, TypeOK
  <2> QED
    BY <2>1, <2>2, <2>3, <2>4
<1>2. CASE Refuse(h)
  BY <1>2, EndPreservesIInv DEF Refuse, setVars, IInv, TypeOK
<1>3. ASSUME NEW d \in Devices, Pair(h, d)
      PROVE  IInv'
  BY <1>3, EndPreservesIInv DEF Pair, IInv, TypeOK
<1>4. CASE PhoneCloses(h) \/ PhoneVanishes(h) \/ TcpGivesUp(h)
  <2>1. TypeOK'
    BY <1>4 DEF PhoneCloses, PhoneVanishes, TcpGivesUp, IInv, TypeOK,
                setVars, guiVars
  <2> QED
    BY <1>4, <2>1, OutsidePreservesIInv
       DEF PhoneCloses, PhoneVanishes, TcpGivesUp, setVars, guiVars
<1> QED
  BY <1>1, <1>2, <1>3, <1>4 DEF Environment

\* And so does every step of the GUI thread.
LEMMA GuiPreservesIInv ==
  ASSUME IInv, GuiStep \/ UserStep
  PROVE  IInv'
<1> USE DEF connVars, setVars, guiVars
<1>1. CASE GuiStep
  <2>1. TypeOK'
    <3>1. CASE StopListening
      BY <3>1 DEF StopListening, IInv, TypeOK
    <3>2. CASE StopClearActive
      BY <3>2 DEF StopClearActive, IInv, TypeOK
    <3>3. CASE ForgetTrust
      BY <3>3 DEF ForgetTrust, IInv, TypeOK
    <3> QED
      BY <1>1, <3>1, <3>2, <3>3 DEF GuiStep
  <2> QED
    BY <1>1, <2>1, OutsidePreservesIInv
       DEF GuiStep, StopListening, StopClearActive, ForgetTrust
<1>2. CASE Start
  <2>1. TypeOK'
    BY <1>2, ConstantsAssumption DEF Start, IInv, TypeOK, Servers
  <2> QED
    BY <1>2, <2>1, OutsidePreservesIInv DEF Start
<1>3. CASE StopCloseRequests
  <2>1. TypeOK'
    BY <1>3 DEF StopCloseRequests, IInv, TypeOK
  <2> QED
    BY <1>3, <2>1, OutsidePreservesIInv DEF StopCloseRequests
<1>4. ASSUME NEW d \in Devices,
             \/ DisconnectDevice(d) \/ UnpairDevice(d)
             \/ AllowReconnect(d) \/ ForgetDevice(d)
      PROVE  IInv'
  <2>1. TypeOK'
    BY <1>4 DEF DisconnectDevice, UnpairDevice, AllowReconnect, ForgetDevice,
                IInv, TypeOK
  <2> QED
    BY <1>4, <2>1, OutsidePreservesIInv
       DEF DisconnectDevice, UnpairDevice, AllowReconnect, ForgetDevice
<1> QED
  BY <1>1, <1>2, <1>3, <1>4 DEF UserStep

\* Every step keeps the invariant.
LEMMA StepPreservesIInv == IInv /\ [Next]_vars => IInv'
<1> SUFFICES ASSUME IInv, [Next]_vars PROVE IInv'
  OBVIOUS
<1>1. CASE UNCHANGED vars
  <2>1. TypeOK'
    BY <1>1 DEF vars, IInv, TypeOK
  <2> QED
    BY <1>1, <2>1, OutsidePreservesIInv DEF vars
<1>2. CASE Next
  BY <1>2, HandlerStepPreservesIInv, EnvironmentPreservesIInv,
     GuiPreservesIInv DEF Next
<1> QED
  BY <1>1, <1>2

-----------------------------------------------------------------------------

\* Theorem: the invariant of the session server holds in every reachable state.
THEOREM InvariantHolds == Spec => []IInv
<1> QED
  BY InitEstablishesIInv, StepPreservesIInv, PTL DEF Spec

\* Every variable stays in its type; in particular the device list and the
\* request set only ever hold device ids.
THEOREM TypeCorrect == Spec => []TypeOK
<1>1. IInv => TypeOK
  BY DEF IInv
<1> QED
  BY <1>1, InvariantHolds, PTL

\* A registry's token is held exactly by a handler between its acquire and
\* its release, and it is the registry of the handler's own server.
THEOREM HolderCorrect == Spec => []RegistryNamesHolder
<1>1. IInv => RegistryNamesHolder
  BY DEF IInv, RegistryNamesHolder, HolderInSession, HandlerKnows, InSession
<1> QED
  BY <1>1, InvariantHolds, PTL

\* One server never runs two sessions.
THEOREM Exclusion == Spec => []OneSessionPerServer
<1>1. IInv => OneSessionPerServer
  <2> SUFFICES ASSUME IInv, NEW h \in Handlers, NEW k \in Handlers,
                      InSession(h), InSession(k), srv[h] = srv[k]
               PROVE  h = k
    BY DEF OneSessionPerServer
  <2>1. srv[h] \in Servers
    BY DEF IInv, HandlerKnows, InSession
  <2>2. registry[srv[h]] = h /\ registry[srv[h]] = k
    BY <2>1 DEF IInv, HolderInSession
  <2> QED
    BY <2>2
<1> QED
  BY <1>1, InvariantHolds, PTL

\* A phone that is shown as connected has a thread that serves it, through
\* any number of restarts of the service.
THEOREM ListTellsTheTruth == Spec => []ActiveHasSession
<1>1. IInv => ActiveHasSession
  BY DEF IInv
<1> QED
  BY <1>1, InvariantHolds, PTL

\* The end of a session erases the entry of no other live session of its
\* server: the clean-up happens while the token is still held.
THEOREM CloseIsPrivate == Spec => CloseErasesOwnEntry
<1>1. IInv /\ [Next]_vars =>
        [\A h \in Handlers :
           pc[h] = "close" /\ pc'[h] = "release" =>
             \A k \in Handlers \ {h} :
               srv[k] = srv[h] => ~(Serving(k) /\ dev[k] = dev[h])]_vars
  <2> SUFFICES ASSUME IInv, NEW h \in Handlers, pc[h] = "close",
                      NEW k \in Handlers \ {h}, srv[k] = srv[h], Serving(k)
               PROVE  FALSE
    OBVIOUS
  <2>1. InSession(h) /\ InSession(k) /\ srv[h] \in Servers
    BY DEF InSession, Serving, IInv, HandlerKnows
  <2>2. registry[srv[h]] = h /\ registry[srv[h]] = k
    BY <2>1 DEF IInv, HolderInSession
  <2> QED
    BY <2>2
<1> QED
  BY <1>1, InvariantHolds, PTL DEF Spec, CloseErasesOwnEntry

-----------------------------------------------------------------------------
(* Without a restart: one server.  Across a restart a session of the old    *)
(* server and one of the new may belong to the same phone, and the clean-up *)
(* of the first does erase the second's entry and request.                  *)

\* A stop() that is past its close of the sockets and of the listener goes
\* on to clear the list, and until then no new listener is there.
ClearsWhenStopped == gui = "clearActive" => ~listening

\* A handler is the thread of a server that has been started.
ServedByStarted == \A h \in Handlers : srv[h] <= gen

OneServerInv ==
  /\ IInv
  /\ ClearsWhenStopped
  /\ ServedByStarted
  /\ LiveSessionListed

\* No thread is given to a server that was not started.
LEMMA StepKeepsServedByStarted ==
  ASSUME IInv, ServedByStarted, [Next]_vars PROVE ServedByStarted'
<1> USE DEF GoTo, EndConnection, connVars, setVars, guiVars, ServedByStarted
<1>t. TypeOK /\ MaxServers \in Nat
  BY ConstantsAssumption DEF IInv
<1>1. ASSUME NEW h \in Handlers, HandlerStep(h) PROVE ServedByStarted'
  BY <1>1, <1>t
     DEF TypeOK, HandlerStep, Register, Hello, Drop, Lookup, Gate, Acquire,
         SendAck, MarkStarted, CheckDisconnect, ReadEnvelope, ReadFails,
         MarkClosed, Release
<1>2. ASSUME NEW h \in Handlers, Environment(h) PROVE ServedByStarted'
  BY <1>2, <1>t
     DEF TypeOK, Environment, Accept, Refuse, Pair, PhoneCloses,
         PhoneVanishes, TcpGivesUp
<1>3. CASE GuiStep \/ UserStep
  BY <1>3, <1>t
     DEF TypeOK, GuiStep, StopListening, StopClearActive, ForgetTrust,
         UserStep, Start, StopCloseRequests, DisconnectDevice, UnpairDevice,
         AllowReconnect, ForgetDevice
<1>4. CASE UNCHANGED vars
  BY <1>4 DEF vars
<1> QED
  BY <1>1, <1>2, <1>3, <1>4 DEF Next

\* Of one server's handlers, only one is between acquire and release.
LEMMA SessionIsAlone ==
  ASSUME MaxServers = 1, IInv, NEW h \in Handlers, NEW k \in Handlers,
         InSession(h), InSession(k)
  PROVE  h = k
<1>1. srv[h] = 1 /\ srv[k] = 1
  BY DEF IInv, HandlerKnows, InSession, Servers
<1>2. registry[1] = h /\ registry[1] = k
  BY <1>1 DEF IInv, HolderInSession, Servers
<1> QED
  BY <1>2

\* A step that leaves the list, the requests and the newest server alone
\* keeps the list complete, if no thread begins to serve unseen.
LEMMA QuietStepKeepsListed ==
  ASSUME LiveSessionListed, ClearsWhenStopped,
         UNCHANGED <<active, requests, manual, gen, listening>>,
         gui' = gui,
         \A h \in Handlers : Serving(h)' /\ link'[h] = "up" =>
           /\ Serving(h) /\ link[h] = "up"
           /\ srv'[h] = srv[h] /\ dev'[h] = dev[h]
  PROVE  LiveSessionListed' /\ ClearsWhenStopped'
BY DEF LiveSessionListed, ClearsWhenStopped, DisconnectRequested

\* A thread of the only server lists its session, and hides it when it ends.
LEMMA HandlerStepKeepsListed ==
  ASSUME MaxServers = 1, OneServerInv, NEW h \in Handlers,
         HandlerStep(h) \/ Environment(h)
  PROVE  LiveSessionListed' /\ ClearsWhenStopped'
<1> USE DEF OneServerInv, setVars, guiVars, GoTo, EndConnection
<1>t. TypeOK
  BY DEF IInv
<1>1. CASE MarkStarted(h)
  <2>1. LiveSessionListed'
    BY <1>1, <1>t DEF MarkStarted, LiveSessionListed, DisconnectRequested,
                      Serving, TypeOK
  <2> QED
    BY <1>1, <2>1 DEF MarkStarted, ClearsWhenStopped
<1>2. CASE MarkClosed(h)
  <2>1. ASSUME NEW k \in Handlers PROVE ~Serving(k)'
    <3>1. InSession(h) /\ ~Serving(h)
      BY <1>2 DEF MarkClosed, InSession, Serving
    <3>2. ~Serving(k)
      BY <3>1, SessionIsAlone DEF Serving, InSession
    <3> QED
      BY <1>2, <3>2, <1>t DEF MarkClosed, Serving, TypeOK
  <2> QED
    BY <1>2, <2>1 DEF MarkClosed, LiveSessionListed, ClearsWhenStopped
<1>3. CASE CheckDisconnect(h) \/ ReadEnvelope(h) \/ ReadFails(h)
  BY <1>3, <1>t, QuietStepKeepsListed
     DEF CheckDisconnect, ReadEnvelope, ReadFails, Serving, TypeOK
<1>4. CASE PhoneCloses(h) \/ PhoneVanishes(h) \/ TcpGivesUp(h)
  BY <1>4, <1>t, QuietStepKeepsListed
     DEF PhoneCloses, PhoneVanishes, TcpGivesUp, Serving, TypeOK
<1>5. CASE Register(h) \/ (\E d \in Devices : Hello(h, d)) \/ Drop(h)
           \/ Accept(h) \/ Refuse(h) \/ (\E d \in Devices : Pair(h, d))
  BY <1>5, <1>t, QuietStepKeepsListed
     DEF Register, Hello, Drop, Accept, Refuse, Pair, Serving, TypeOK
<1>6. CASE Lookup(h) \/ Gate(h) \/ Acquire(h)
  BY <1>6, <1>t, QuietStepKeepsListed
     DEF Lookup, Gate, Acquire, Serving, TypeOK
<1>7. CASE SendAck(h) \/ Release(h)
  BY <1>7, <1>t, QuietStepKeepsListed
     DEF SendAck, Release, Serving, TypeOK
<1> QED
  BY <1>1, <1>2, <1>3, <1>4, <1>5, <1>6, <1>7 DEF HandlerStep, Environment

\* The clicks hide no live session, unless they take a request back.
LEMMA GuiKeepsListed ==
  ASSUME MaxServers = 1, OneServerInv, GuiStep \/ UserStep,
         UserOps \cap {"reconnect", "forget"} = {}
  PROVE  LiveSessionListed' /\ ClearsWhenStopped'
<1> USE DEF OneServerInv, connVars, setVars, guiVars
<1>t. TypeOK
  BY DEF IInv
<1>1. CASE StopListening \/ StopClearActive \/ ForgetTrust
  BY <1>1 DEF StopListening, StopClearActive, ForgetTrust, Serving,
              LiveSessionListed, ClearsWhenStopped, DisconnectRequested
<1>2. CASE Start
  \* The first server: no handler has been accepted by it.
  <2>1. gen = 0 /\ gen' = 1
    BY <1>2, <1>t, ConstantsAssumption DEF Start, TypeOK
  <2>2. ASSUME NEW h \in Handlers PROVE ~Serving(h)
    BY <2>1, <1>t DEF ServedByStarted, IInv, HandlerKnows, Serving, Servers,
                      TypeOK
  <2> QED
    BY <1>2, <2>2 DEF Start, LiveSessionListed, ClearsWhenStopped, Serving
<1>3. CASE StopCloseRequests
  <2>1. ASSUME NEW h \in Handlers, Serving(h), listening, srv[h] = gen
        PROVE  link'[h] = "shut"
    BY <1>3, <2>1 DEF StopCloseRequests, Serving
  <2>2. LiveSessionListed'
    BY <1>3, <2>1 DEF StopCloseRequests, LiveSessionListed, Serving
  <2> QED
    BY <1>3, <2>2 DEF StopCloseRequests, ClearsWhenStopped
<1>4. ASSUME NEW d \in Devices, DisconnectDevice(d) \/ UnpairDevice(d)
      PROVE  LiveSessionListed' /\ ClearsWhenStopped'
  BY <1>4 DEF DisconnectDevice, UnpairDevice, LiveSessionListed, Serving,
              ClearsWhenStopped, DisconnectRequested
<1>5. ASSUME NEW d \in Devices
      PROVE  ~AllowReconnect(d) /\ ~ForgetDevice(d)
  BY DEF AllowReconnect, ForgetDevice
<1> QED
  BY <1>1, <1>2, <1>3, <1>4, <1>5 DEF GuiStep, UserStep

\* Until the service is restarted, and unless the user takes a request back
\* by Reconnect or Forget, a phone whose session is up and is not to be
\* closed is in the device list, whatever the sessions before it left.
THEOREM LiveSessionsAreShown ==
  ASSUME MaxServers = 1, UserOps \cap {"reconnect", "forget"} = {}
  PROVE  Spec => []LiveSessionListed
<1>1. Init => OneServerInv
  BY InitEstablishesIInv
     DEF Init, OneServerInv, ClearsWhenStopped, ServedByStarted,
         LiveSessionListed, Serving
<1>2. OneServerInv /\ [Next]_vars => OneServerInv'
  <2> SUFFICES ASSUME OneServerInv, [Next]_vars PROVE OneServerInv'
    OBVIOUS
  <2>1. IInv' /\ ServedByStarted'
    BY StepPreservesIInv, StepKeepsServedByStarted DEF OneServerInv
  <2>2. CASE UNCHANGED vars
    BY <2>1, <2>2 DEF OneServerInv, vars, ClearsWhenStopped, Serving,
                      LiveSessionListed, DisconnectRequested
  <2>3. CASE Next
    BY <2>1, <2>3, HandlerStepKeepsListed, GuiKeepsListed
       DEF Next, OneServerInv
  <2> QED
    BY <2>2, <2>3
<1>3. OneServerInv => LiveSessionListed
  BY DEF OneServerInv
<1> QED
  BY <1>1, <1>2, <1>3, PTL DEF Spec

\* A request to close a session is withdrawn by a click, or is spent by the
\* end of a session of that phone while none of its sessions goes on.
THEOREM RequestsAreKept ==
  ASSUME MaxServers = 1
  PROVE  Spec => RequestSpentBySessionEnd
<1>1. IInv /\ [Next]_vars =>
        [\A d \in requests \ requests' :
           \/ pc' = pc
           \/ /\ \E h \in Handlers : dev[h] = d /\ pc[h] = "close"
              /\ \A k \in Handlers : dev[k] = d => ~Serving(k)]_vars
  <2> SUFFICES ASSUME IInv, Next, NEW d \in requests \ requests', pc' # pc
               PROVE  /\ \E h \in Handlers : dev[h] = d /\ pc[h] = "close"
                      /\ \A k \in Handlers : dev[k] = d => ~Serving(k)
    OBVIOUS
  <2> USE DEF connVars, setVars, guiVars
  <2>1. PICK h \in Handlers : MarkClosed(h)
    <3>1. ~GuiStep /\ ~UserStep
      BY DEF GuiStep, StopListening, StopClearActive, ForgetTrust, UserStep,
             Start, StopCloseRequests, DisconnectDevice, UnpairDevice,
             AllowReconnect, ForgetDevice
    <3>2. PICK h \in Handlers : HandlerStep(h) \/ Environment(h)
      BY <3>1 DEF Next
    <3>3. ~Environment(h)
      BY DEF Environment, Accept, Refuse, Pair, PhoneCloses, PhoneVanishes,
             TcpGivesUp
    <3>4. HandlerStep(h) => MarkClosed(h)
      BY DEF HandlerStep, Register, Hello, Drop, Lookup, Gate, Acquire,
             SendAck, MarkStarted, CheckDisconnect, ReadEnvelope, ReadFails,
             Release
    <3> QED
      BY <3>2, <3>3, <3>4
  <2>2. dev[h] = d /\ pc[h] = "close"
    BY <2>1 DEF MarkClosed
  <2>3. ASSUME NEW k \in Handlers, Serving(k) PROVE FALSE
    <3>1. InSession(h) /\ InSession(k) /\ h # k
      BY <2>2, <2>3 DEF InSession, Serving
    <3> QED
      BY <3>1, SessionIsAlone
  <2> QED
    BY <2>2, <2>3
<1> QED
  BY <1>1, InvariantHolds, PTL DEF Spec, RequestSpentBySessionEnd

-----------------------------------------------------------------------------
(* Popups.                                                                 *)

\* The parts of the type invariant.
RecordTypes ==
  /\ program \in {"window", "service"} /\ notes \in [Ids -> Note \cup {None}]
  /\ latest \in [id : Ids \cup {None}, acts : SUBSET Acts]
  /\ reports \in 0..MaxReports /\ due \in BOOLEAN

ClipTypes == clips \in Seq(Texts) /\ Len(clips) <= KeepClips /\ clipTexts \subseteq Texts

UiTypes ==
  /\ view \in [Ids -> Note \cup {None}] /\ shown \in [Ids -> Note \cup {None}]
  /\ todo \subseteq Ids /\ ringing \subseteq Ids /\ known \subseteq Ids
  /\ ongoing \subseteq answered /\ answered \subseteq Ids

Thread == [of : Ids \cup Callers \cup {None}, ring : BOOLEAN,
           acts : SUBSET Acts, at : Stages, pick : Acts \cup {None}]

ThreadTypes ==
  /\ run \in [Runs -> Thread] /\ alive \subseteq Runs /\ screen \subseteq Runs
  /\ early \subseteq Runs /\ lost \subseteq Runs

TableTypes == procs \in [Keys -> Runs \cup {None}] /\ sids \in [Keys -> Runs \cup {None}]

SimTypes ==
  /\ simKey \in Callers \cup {None} /\ simOngoing \in {None, simKey}
  /\ simAnswered \in BOOLEAN /\ simSays \in {None, simKey}
  /\ asked \in [to : Keys \cup {None}, act : Acts \cup {None}]

\* A notification is settled when what the window takes for ringing, or for a
\* call that goes on, agrees with it.
Settled(i) ==
  /\ i \in ringing => notes[i] # None /\ notes[i].says.kind \in {"ringing", "missed", "message"}
  /\ i \in ongoing => notes[i] # None
  /\ notes[i] # None /\ notes[i].says.kind = "ringing" => i \in ringing

\* As long as no signal waits, what a refresh has yet to do is up to date, and
\* what it has done is settled.
UiFollowsRecords ==
  ~due => \A i \in Ids : IF i \in todo THEN view[i] = notes[i] ELSE Settled(i)

\* The app call that controls go to is there, with what it offers.
LatestIsKept ==
  latest.id # None =>
    /\ notes[latest.id] # None
    /\ LET offered == notes[latest.id].says.acts \cap CallActs
       IN offered = {} \/ latest.acts = offered

\* The call that a popup rings for still rings.
Rings(r) == IF run[r].of \in Ids THEN run[r].of \in ringing ELSE run[r].of = simKey

\* A popup on which the user has chosen is gone.
ChosenIsGone ==
  \A r \in Runs :
    /\ run[r].at = "unused" => ~run[r].ring
    /\ run[r].at = "over" => run[r].pick # None
    /\ run[r].pick # None => r \notin screen /\ run[r].at \in {"waiting", "late", "over"}

\* A close that a popup without an id has missed is on record,
MissedCloseIsEarly ==
  \A r \in Runs :
    run[r].at \in {"spawned", "open", "notified"} /\ run[r].ring /\ r \notin early => Rings(r)

\* and one with an id is found by the next close, unless it is lost.
WaitingCanBeClosed ==
  \A r \in screen :
    run[r].at \in {"waiting", "late"} /\ r \notin early \cup lost =>
      sids[KeyOf(r)] = r /\ (run[r].ring => Rings(r))

\* The notifications carry numbers of reports, each its own.
Used(n) == run[n].at # "unused"
Numbers ==
  /\ \A n \in Runs : Used(n) => n <= reports
  /\ \A i \in Ids : /\ notes[i] # None => notes[i].at <= reports
                    /\ view[i] # None => view[i].at <= reports /\ i \in todo
  /\ \A i, j \in Ids :
       \A x \in {notes[i], view[i]}, y \in {notes[j], view[j]} :
         x # None /\ y # None /\ x.at = y.at => i = j /\ x = y

\* What had its popup is in the sets that keep it from having another.
HadItsPopup(i, n) ==
  /\ n.says.kind = "ringing" => i \in ringing
  /\ n.says.kind \in {"ongoing", "other"} => i \in ongoing
  /\ n.says.kind \in {"missed", "message"} => shown[i] = n

OnePopupEach ==
  \A i \in Ids :
    /\ notes[i] # None /\ Used(notes[i].at) => HadItsPopup(i, notes[i])
    /\ view[i] # None /\ Used(view[i].at) => HadItsPopup(i, view[i])
    /\ i \in todo /\ notes[i] # None /\ Used(notes[i].at) => notes[i] = view[i]

PopupsInv ==
  /\ RecordTypes /\ ClipTypes /\ UiTypes /\ ThreadTypes /\ TableTypes /\ SimTypes
  /\ UiFollowsRecords /\ LatestIsKept
  /\ ChosenIsGone /\ MissedCloseIsEarly /\ WaitingCanBeClosed
  /\ Numbers /\ OnePopupEach

\* The type invariant is part of the inductive one.
LEMMA PopupsInvTypes == PopupsInv => PopupsTypeOK
  BY DEF PopupsInv, RecordTypes, ClipTypes, UiTypes, ThreadTypes, TableTypes, SimTypes,
         PopupsTypeOK, Thread

\* Nothing is reported, shown or started when the program begins.
LEMMA PopupsInitEstablishesInv == PopupsInit => PopupsInv
<1> SUFFICES ASSUME PopupsInit PROVE PopupsInv
  OBVIOUS
<1>0. MaxReports \in Nat /\ KeepClips \in Nat
  BY ContentsAssumption
<1> USE DEF PopupsInit
<1>1. RecordTypes
  <2>1. reports \in 0..MaxReports
    BY <1>0
  <2>2. latest \in [id : Ids \cup {None}, acts : SUBSET Acts]
    BY DEF NoCall
  <2> QED
    BY <2>1, <2>2 DEF RecordTypes
<1>2. ClipTypes
  BY <1>0 DEF ClipTypes
<1>3. UiTypes
  BY DEF UiTypes
<1>4. ThreadTypes
  BY DEF ThreadTypes, Thread, Unused, Stages
<1>5. TableTypes /\ SimTypes
  BY DEF TableTypes, SimTypes
<1>6. UiFollowsRecords /\ LatestIsKept
  BY DEF UiFollowsRecords, Settled, LatestIsKept, NoCall
<1>7. ChosenIsGone /\ MissedCloseIsEarly /\ WaitingCanBeClosed
  BY DEF ChosenIsGone, MissedCloseIsEarly, WaitingCanBeClosed, Unused
<1>8. Numbers /\ OnePopupEach
  BY DEF Numbers, OnePopupEach, Used, Unused
<1> QED
  BY <1>1, <1>2, <1>3, <1>4, <1>5, <1>6, <1>7, <1>8 DEF PopupsInv

-----------------------------------------------------------------------------
(* Types.                                                                  *)

\* Every report has a number of its own.
LEMMA ReportNumbers ==
  ASSUME PopupsInv, Receive
  PROVE  reports \in Nat /\ reports' = reports + 1 /\ reports' \in 1..MaxReports
  BY ContentsAssumption DEF PopupsInv, RecordTypes, Receive

\* _record_notification keeps the types of the records,
LEMMA NotedTypes ==
  ASSUME PopupsInv, NEW i \in Ids, NEW c \in Contents, RecordNotification(i, c)
  PROVE  RecordTypes'
<1>1. reports' \in 0..MaxReports /\ reports' \in 1..MaxReports
  BY ReportNumbers, ContentsAssumption DEF RecordNotification
<1>2. [says |-> c, at |-> reports'] \in Note
  BY <1>1 DEF Note
<1> DEFINE n == [says |-> c, at |-> reports']
<1>3. notes' = notes \/ notes' = [notes EXCEPT ![i] = n]
  BY DEF RecordNotification
<1> HIDE DEF n
<1>4. notes' \in [Ids -> Note \cup {None}]
  BY <1>2, <1>3 DEF n, PopupsInv, RecordTypes
<1>5. latest' \in [id : Ids \cup {None}, acts : SUBSET Acts]
  <2>1. latest' = latest \/ latest' = [id |-> i, acts |-> c.acts \cap CallActs]
    BY DEF RecordNotification, RecordAppCallActions
  <2>2. CallActs \subseteq Acts
    BY DEF CallActs, Acts
  <2> QED
    BY <2>1, <2>2 DEF PopupsInv, RecordTypes
<1>6. program' = program /\ due' \in BOOLEAN
  BY DEF RecordNotification, PopupsInv, RecordTypes
<1> QED
  BY <1>1, <1>4, <1>5, <1>6 DEF PopupsInv, RecordTypes

\* and so does _remove_notification.
LEMMA RemovedTypes ==
  ASSUME PopupsInv, NEW i \in Ids, RemoveNotification(i)
  PROVE  RecordTypes'
<1>1. reports' \in 0..MaxReports
  BY ReportNumbers, ContentsAssumption DEF RemoveNotification
<1>2. notes' = notes \/ notes' = [notes EXCEPT ![i] = None]
  BY DEF RemoveNotification
<1>3. notes' \in [Ids -> Note \cup {None}]
  BY <1>2 DEF PopupsInv, RecordTypes
<1>4. latest' \in [id : Ids \cup {None}, acts : SUBSET Acts]
  <2>1. latest' = latest \/ latest' = NoCall
    BY DEF RemoveNotification
  <2> QED
    BY <2>1 DEF PopupsInv, RecordTypes, NoCall
<1>5. program' \in {"window", "service"} /\ due' \in BOOLEAN
  BY DEF RemoveNotification, PopupsInv, RecordTypes
<1> QED
  BY <1>1, <1>3, <1>4, <1>5 DEF RecordTypes

\* What a step leaves alone keeps its type.
LEMMA OtherRecordTypes ==
  ASSUME PopupsInv, UNCHANGED <<program, notes, latest>>, due' \in BOOLEAN,
         Receive \/ reports' = reports
  PROVE  RecordTypes'
<1>1. reports' \in 0..MaxReports
  BY ReportNumbers, ContentsAssumption DEF PopupsInv, RecordTypes
<1> QED
  BY <1>1 DEF PopupsInv, RecordTypes

\* The updates that are kept never are more than KeepClips.
LEMMA ClipboardTypes ==
  ASSUME PopupsInv, NEW t \in Texts, RecordClipboardUpdate(t)
  PROVE  ClipTypes'
<1>0. KeepClips \in Nat
  BY ContentsAssumption
<1>1. clips \in Seq(Texts) /\ Len(clips) \in Nat /\ Len(clips) <= KeepClips /\ clipTexts \subseteq Texts
  BY DEF PopupsInv, ClipTypes
<1>2. CASE t \in clipTexts
  BY <1>1, <1>2 DEF RecordClipboardUpdate, ClipTypes
<1>3. CASE t \notin clipTexts
  <2> DEFINE all == Append(clips, t)
  <2>1. all \in Seq(Texts) /\ Len(all) = Len(clips) + 1
    BY <1>1
  <2>2. clipTexts' \subseteq Texts
    BY <1>1, <1>3 DEF RecordClipboardUpdate
  <2>3. CASE Len(all) > KeepClips
    <3>1. clips' = Tail(all)
      BY <1>3, <2>3 DEF RecordClipboardUpdate
    <3>2. all # <<>> /\ Tail(all) \in Seq(Texts) /\ Len(Tail(all)) = Len(clips)
      BY <1>1, <2>1
    <3> QED
      BY <1>1, <2>2, <3>1, <3>2 DEF ClipTypes
  <2>4. CASE ~(Len(all) > KeepClips)
    <3>1. clips' = all
      BY <1>3, <2>4 DEF RecordClipboardUpdate
    <3> QED
      BY <1>0, <1>1, <2>1, <2>2, <2>4, <3>1 DEF ClipTypes
  <2> QED
    BY <2>3, <2>4
<1> QED
  BY <1>2, <1>3

\* A thread that is started.
LEMMA SpawnTypes ==
  ASSUME PopupsInv, NEW r, NEW of \in Ids \cup Callers, NEW ring \in BOOLEAN,
         NEW acts \in SUBSET Acts, run' = Spawn(run, r, of, ring, acts)
  PROVE  run' \in [Runs -> Thread]
<1> DEFINE t == [of |-> of, ring |-> ring, acts |-> acts, at |-> "spawned", pick |-> None]
<1>1. t \in Thread
  BY DEF Thread, Stages
<1>2. run' = [run EXCEPT ![r] = t]
  BY DEF Spawn
<1> HIDE DEF t
<1> QED
  BY <1>1, <1>2 DEF PopupsInv, ThreadTypes

\* The routes of a popup are actions.
LEMMA RoutesTypes == \A c \in Contents, b \in BOOLEAN : Routes(c, b) \subseteq Acts
  BY DEF Routes, Acts

\* A close keeps the types of the tables and of the threads.
LEMMA CloseTypes ==
  ASSUME PopupsInv, NEW k \in Keys, Close(k)
  PROVE  TableTypes' /\ alive' \subseteq Runs /\ screen' \subseteq Runs
         /\ early' \subseteq Runs /\ lost' \subseteq Runs
  BY DEF PopupsInv, TableTypes, ThreadTypes, Close

\* The refresh keeps the types.
LEMMA RefreshedTypes ==
  ASSUME PopupsInv, Refreshed
  PROVE  UiTypes' /\ ThreadTypes' /\ TableTypes'
<1> USE DEF recordVars, threadVars, tables, simVars
<1>0. /\ view \in [Ids -> Note \cup {None}] /\ shown \in [Ids -> Note \cup {None}]
      /\ todo \subseteq Ids /\ ringing \subseteq Ids /\ known \subseteq Ids
      /\ ongoing \subseteq answered /\ answered \subseteq Ids
      /\ notes \in [Ids -> Note \cup {None}]
  BY DEF PopupsInv, UiTypes, RecordTypes
<1>1. ThreadTypes /\ TableTypes
  BY DEF PopupsInv
<1>2. \A i \in Ids : Done(i) => view' \in [Ids -> Note \cup {None}] /\ todo' \subseteq Ids
  BY <1>0 DEF Done
<1>3. CASE Refresh
  <2>1. UiTypes'
    BY <1>0, <1>3 DEF Refresh, UiTypes
  <2> QED
    BY <1>1, <1>3, <2>1 DEF Refresh, ThreadTypes, TableTypes
<1>4. ASSUME NEW i \in Ids, RefreshGone(i) PROVE UiTypes' /\ ThreadTypes' /\ TableTypes'
  <2>1. UiTypes'
    BY <1>0, <1>2, <1>4 DEF RefreshGone, UiTypes
  <2>2. Close(i) /\ run' = run /\ i \in Keys
    BY <1>4 DEF RefreshGone, Keys
  <2> QED
    BY <1>1, <2>1, <2>2, CloseTypes DEF ThreadTypes
<1>5. ASSUME NEW i \in Ids, RefreshRinging(i) PROVE UiTypes' /\ ThreadTypes' /\ TableTypes'
  <2>1. UiTypes'
    BY <1>0, <1>2, <1>5 DEF RefreshRinging, UiTypes
  <2>2. run' \in [Runs -> Thread]
    <3>1. CASE i \in ringing
      BY <1>1, <1>5, <3>1 DEF RefreshRinging, ThreadTypes
    <3>2. CASE i \notin ringing
      <4> PICK b \in BOOLEAN : run' = Spawn(run, view[i].at, i, TRUE, Routes(view[i].says, b))
        BY <1>5, <3>2 DEF RefreshRinging
      <4>1. Routes(view[i].says, b) \subseteq Acts
        BY <1>0, <1>5, RoutesTypes DEF RefreshRinging, Note
      <4> QED
        BY <4>1, SpawnTypes
    <3> QED
      BY <3>1, <3>2
  <2> QED
    BY <1>1, <1>5, <2>1, <2>2 DEF RefreshRinging, KeepPopups, ThreadTypes, TableTypes
<1>6. ASSUME NEW i \in Ids, RefreshActive(i) PROVE UiTypes' /\ ThreadTypes' /\ TableTypes'
  <2>1. UiTypes'
    <3>1. view' \in [Ids -> Note \cup {None}] /\ todo' \subseteq Ids /\ answered' = answered
      BY <1>2, <1>6 DEF RefreshActive
    <3>2. known' = known \cup {i} /\ ringing' \subseteq ringing
      BY <1>6 DEF RefreshActive
    <3>3. shown' = shown \/ shown' = [shown EXCEPT ![i] = None]
      BY <1>6 DEF RefreshActive
    <3>4. ongoing' = ongoing \/ (i \in answered /\ ongoing' = ongoing \cup {i})
      BY <1>6 DEF RefreshActive
    <3> QED
      BY <1>0, <3>1, <3>2, <3>3, <3>4 DEF UiTypes
  <2>2. run' \in [Runs -> Thread]
    <3>1. \/ run' = run
          \/ run' = Spawn(run, view[i].at, i, FALSE, Routes(view[i].says, FALSE))
      BY <1>6 DEF RefreshActive
    <3>2. Routes(view[i].says, FALSE) \subseteq Acts
      BY <1>0, <1>6, RoutesTypes DEF RefreshActive, Note
    <3> QED
      BY <1>1, <3>1, <3>2, SpawnTypes DEF ThreadTypes
  <2>3. Close(i) \/ KeepPopups
    BY <1>6 DEF RefreshActive
  <2>4. i \in Keys
    BY DEF Keys
  <2> QED
    BY <1>1, <2>1, <2>2, <2>3, <2>4, CloseTypes DEF KeepPopups, ThreadTypes, TableTypes
<1>7. ASSUME NEW i \in Ids, RefreshMessage(i) PROVE UiTypes' /\ ThreadTypes' /\ TableTypes'
  <2>1. UiTypes'
    <3>1. view' \in [Ids -> Note \cup {None}] /\ todo' \subseteq Ids
          /\ UNCHANGED <<ringing, answered, ongoing>>
      BY <1>2, <1>7 DEF RefreshMessage
    <3>2. known' \subseteq known \cup {i}
      BY <1>7 DEF RefreshMessage
    <3>3. shown' = shown \/ shown' = [shown EXCEPT ![i] = view[i]]
      BY <1>7 DEF RefreshMessage
    <3> QED
      BY <1>0, <3>1, <3>2, <3>3 DEF UiTypes
  <2>2. run' \in [Runs -> Thread]
    <3>1. \/ run' = run
          \/ run' = Spawn(run, view[i].at, i, FALSE, Routes(view[i].says, FALSE))
      BY <1>7 DEF RefreshMessage
    <3>2. Routes(view[i].says, FALSE) \subseteq Acts
      BY <1>0, <1>7, RoutesTypes DEF RefreshMessage, Note
    <3> QED
      BY <1>1, <3>1, <3>2, SpawnTypes DEF ThreadTypes
  <2>3. Close(i) \/ KeepPopups
    BY <1>7 DEF RefreshMessage
  <2>4. i \in Keys
    BY DEF Keys
  <2> QED
    BY <1>1, <2>1, <2>2, <2>3, <2>4, CloseTypes DEF KeepPopups, ThreadTypes, TableTypes
<1> QED
  BY <1>3, <1>4, <1>5, <1>6, <1>7 DEF Refreshed

\* The rest of a popup's life keeps them as well.
LEMMA ThreadStepTypes ==
  ASSUME PopupsInv, NEW r \in Runs,
         \/ Open(r) \/ Appear(r) \/ ReadId(r) \/ \E a \in Acts \cup {None} : Choose(r, a)
         \/ Leave(r) \/ TimeOut(r) \/ Finish(r)
  PROVE  ThreadTypes' /\ TableTypes' /\ SimTypes'
<1> USE DEF tables
<1>1. /\ run \in [Runs -> Thread] /\ alive \subseteq Runs /\ screen \subseteq Runs
      /\ early \subseteq Runs /\ lost \subseteq Runs
      /\ procs \in [Keys -> Runs \cup {None}] /\ sids \in [Keys -> Runs \cup {None}]
  BY DEF PopupsInv, ThreadTypes, TableTypes
<1>2. KeyOf(r) \in Keys
  BY DEF KeyOf, Keys
<1>3. \A stage \in Stages : [run EXCEPT ![r].at = stage] \in [Runs -> Thread]
  BY <1>1 DEF Thread
<1>4. [Unused EXCEPT !.at = "done"] \in Thread
  BY DEF Unused, Thread, Stages
<1>5. Over(r) => run' \in [Runs -> Thread]
  BY <1>1, <1>4 DEF Over
<1>6. CASE Open(r)
  <2>1. run' \in [Runs -> Thread]
    BY <1>3, <1>5, <1>6 DEF Open, At, Stages
  <2> QED
    BY <1>1, <1>2, <1>6, <2>1 DEF Open, ThreadTypes, TableTypes, SimTypes, simVars, PopupsInv
<1>7. CASE Appear(r) \/ Leave(r) \/ TimeOut(r)
  <2>1. run' \in [Runs -> Thread]
    BY <1>1, <1>3, <1>7 DEF Appear, Leave, TimeOut, At, Stages
  <2> QED
    BY <1>1, <1>7, <2>1
       DEF Appear, Leave, TimeOut, ThreadTypes, TableTypes, SimTypes, simVars, PopupsInv
<1>8. CASE ReadId(r)
  <2>1. run' \in [Runs -> Thread]
    BY <1>3, <1>8 DEF ReadId, At, Stages
  <2>2. sids' \in [Keys -> Runs \cup {None}] /\ lost' \subseteq Runs
    BY <1>1, <1>2, <1>8 DEF ReadId
  <2> QED
    BY <1>1, <1>8, <2>1, <2>2 DEF ReadId, ThreadTypes, TableTypes, SimTypes, simVars, PopupsInv
<1>9. CASE \E a \in Acts \cup {None} : Choose(r, a)
  <2> PICK a \in Acts \cup {None} : Choose(r, a)
    BY <1>9
  <2>1. run' \in [Runs -> Thread]
    BY <1>1 DEF Choose, Thread
  <2> QED
    BY <1>1, <2>1 DEF Choose, ThreadTypes, TableTypes, SimTypes, simVars, PopupsInv
<1>10. CASE Finish(r)
  <2>1. run' \in [Runs -> Thread]
    BY <1>3, <1>5, <1>10 DEF Finish, At, Stages
  <2>2. procs' \in [Keys -> Runs \cup {None}] /\ sids' \in [Keys -> Runs \cup {None}]
    BY <1>1, <1>10 DEF Finish, Forget
  <2>3. lost' \subseteq Runs /\ early' \subseteq Runs
    BY <1>1, <1>2, <1>10 DEF Finish
  <2>4. SimTypes'
    BY <1>10 DEF Finish, SimTypes, PopupsInv
  <2> QED
    BY <1>1, <1>10, <2>1, <2>2, <2>3, <2>4 DEF Finish, ThreadTypes, TableTypes
<1> QED
  BY <1>6, <1>7, <1>8, <1>9, <1>10

\* An action for a call control is one of the latest app call's.
LEMMA AppActionFits ==
  ASSUME PopupsInv, NEW a, AppCallActionFor(a) # None
  PROVE  latest.id # None /\ AppCallActionFor(a) \in latest.acts
<1> DEFINE fit == Candidates(a) \cap latest.acts
<1>1. latest.id # None /\ fit # {}
  BY DEF AppCallActionFor
<1>2. \E c \in fit : "hangup" \in fit => c = "hangup"
  BY <1>1
<1>3. AppCallActionFor(a) = CHOOSE c \in fit : "hangup" \in fit => c = "hangup"
  BY <1>1 DEF AppCallActionFor
<1> HIDE DEF fit
<1>4. AppCallActionFor(a) \in fit
  BY <1>2, <1>3
<1> QED
  BY <1>1, <1>4 DEF fit

\* So does what is done with the choice of the user.
LEMMA ChoiceTypes ==
  ASSUME PopupsInv, NEW r \in Runs, HandleNotificationAction(r) \/ QueueCallControl(r)
  PROVE  UiTypes' /\ ThreadTypes' /\ TableTypes' /\ SimTypes'
<1> USE DEF tables, uiVars, simVars
<1>1. run' \in [Runs -> Thread]
  <2>1. [Unused EXCEPT !.at = "done"] \in Thread
    BY DEF Unused, Thread, Stages
  <2> QED
    BY <2>1 DEF HandleNotificationAction, QueueCallControl, Over, PopupsInv, ThreadTypes
<1>2. CASE HandleNotificationAction(r)
  <2>1. run[r].of \in Ids /\ (Close(run[r].of) \/ KeepPopups)
    BY <1>2 DEF HandleNotificationAction
  <2>2. TableTypes' /\ ThreadTypes'
    BY <1>1, <2>1, CloseTypes DEF KeepPopups, Keys, ThreadTypes, TableTypes, PopupsInv
  <2>3. UiTypes'
    <3>1. answered' = answered \/ answered' = answered \cup {run[r].of}
      BY <1>2 DEF HandleNotificationAction
    <3> QED
      BY <1>2, <2>1, <3>1 DEF HandleNotificationAction, UiTypes, PopupsInv
  <2>4. SimTypes'
    BY <1>2 DEF HandleNotificationAction, SimTypes, PopupsInv
  <2> QED
    BY <2>2, <2>3, <2>4
<1>3. CASE QueueCallControl(r)
  <2>1. ThreadTypes' /\ TableTypes'
    BY <1>1, <1>3 DEF QueueCallControl, KeepPopups, ThreadTypes, TableTypes, PopupsInv
  <2>2. UiTypes'
    BY <1>3 DEF QueueCallControl, UiTypes, PopupsInv
  <2>3. asked' \in [to : Keys \cup {None}, act : Acts \cup {None}]
    <3>1. run[r].pick \in Acts \cup {None}
      BY DEF PopupsInv, ThreadTypes, Thread
    <3>2. CASE AppCallActionFor(run[r].pick) = None
      BY <1>3, <3>1, <3>2 DEF QueueCallControl, Keys
    <3>3. CASE AppCallActionFor(run[r].pick) # None
      <4>1. asked' = [to |-> latest.id, act |-> AppCallActionFor(run[r].pick)]
        BY <1>3, <3>3 DEF QueueCallControl
      <4>2. latest.id \in Ids /\ AppCallActionFor(run[r].pick) \in Acts
        BY <3>3, AppActionFits DEF PopupsInv, RecordTypes
      <4> QED
        BY <4>1, <4>2 DEF Keys
    <3> QED
      BY <3>2, <3>3
  <2>4. SimTypes'
    BY <1>3, <2>3 DEF QueueCallControl, SimTypes, PopupsInv
  <2> QED
    BY <2>1, <2>2, <2>4
<1> QED
  BY <1>2, <1>3

\* SIM calls keep them.
LEMMA SimTypesKept ==
  ASSUME PopupsInv, (\E k \in Callers : SimRings(k)) \/ SimOffHook \/ SimIdle
  PROVE  ThreadTypes' /\ TableTypes' /\ SimTypes'
<1> USE DEF tables, simVars
<1>0. Sim \in Keys
  BY DEF Keys
<1>1. CASE \E k \in Callers : SimRings(k)
  <2> PICK k \in Callers : SimRings(k)
    BY <1>1
  <2>1. run' \in [Runs -> Thread]
    <3>1. CASE k = simKey
      BY <3>1 DEF SimRings, PopupsInv, ThreadTypes
    <3>2. CASE k # simKey
      <4> PICK b \in BOOLEAN :
            run' = Spawn(run, reports', k, TRUE, SimActs(FALSE, b))
        BY <3>2 DEF SimRings
      <4>1. SimActs(FALSE, b) \in SUBSET Acts
        BY DEF SimActs, Acts
      <4> QED
        BY <4>1, SpawnTypes
    <3> QED
      BY <3>1, <3>2
  <2>2. Close(Sim) \/ KeepPopups
    BY DEF SimRings
  <2>3. SimTypes'
    BY DEF SimRings, SimTypes, PopupsInv
  <2> QED
    BY <1>0, <2>1, <2>2, <2>3, CloseTypes
       DEF KeepPopups, ThreadTypes, TableTypes, PopupsInv
<1>2. CASE SimOffHook
  <2>1. run' \in [Runs -> Thread]
    <3>1. \/ run' = run
          \/ simKey # None /\ run' = Spawn(run, reports', simKey, FALSE, SimActs(TRUE, FALSE))
      BY <1>2 DEF SimOffHook
    <3>2. SimActs(TRUE, FALSE) \in SUBSET Acts
      BY DEF SimActs, Acts
    <3>3. simKey \in Callers \cup {None}
      BY DEF PopupsInv, SimTypes
    <3> QED
      BY <3>1, <3>2, <3>3, SpawnTypes DEF PopupsInv, ThreadTypes
  <2>2. SimTypes'
    BY <1>2 DEF SimOffHook, SimTypes, PopupsInv
  <2> QED
    BY <1>2, <2>1, <2>2 DEF SimOffHook, KeepPopups, ThreadTypes, TableTypes, PopupsInv
<1>3. CASE SimIdle
  <2>1. Close(Sim) /\ run' = run
    BY <1>3 DEF SimIdle
  <2>2. SimTypes'
    BY <1>3 DEF SimIdle, SimTypes, PopupsInv
  <2> QED
    BY <1>0, <2>1, <2>2, CloseTypes DEF ThreadTypes, PopupsInv
<1> QED
  BY <1>1, <1>2, <1>3

\* All together.
LEMMA PopupsNextKeepsTypes ==
  ASSUME PopupsInv, [PopupsNext]_popupsVars
  PROVE  RecordTypes' /\ ClipTypes' /\ UiTypes' /\ ThreadTypes' /\ TableTypes' /\ SimTypes'
<1> DEFINE Kept == RecordTypes' /\ ClipTypes' /\ UiTypes' /\ ThreadTypes' /\ TableTypes' /\ SimTypes'
<1>0. RecordTypes /\ ClipTypes /\ UiTypes /\ ThreadTypes /\ TableTypes /\ SimTypes
  BY DEF PopupsInv
<1>a. UNCHANGED <<clips, clipTexts>> => ClipTypes'
  BY <1>0 DEF ClipTypes
<1>b. UNCHANGED uiVars => UiTypes'
  BY <1>0 DEF UiTypes, uiVars
<1>c. UNCHANGED threadVars => ThreadTypes' /\ TableTypes'
  BY <1>0 DEF ThreadTypes, TableTypes, threadVars, tables
<1>d. UNCHANGED <<simVars, asked>> => SimTypes'
  BY <1>0 DEF SimTypes, simVars
<1>1. ASSUME NEW i \in Ids, NEW c \in Contents, RecordNotification(i, c) PROVE Kept
  BY <1>1, <1>a, <1>b, <1>c, <1>d, NotedTypes DEF RecordNotification
<1>2. ASSUME NEW i \in Ids, RemoveNotification(i) PROVE Kept
  BY <1>2, <1>a, <1>b, <1>c, <1>d, RemovedTypes DEF RemoveNotification
<1>3. ASSUME NEW t \in Texts, RecordClipboardUpdate(t) PROVE Kept
  <2>1. RecordTypes'
    BY <1>0, <1>3, OtherRecordTypes DEF RecordClipboardUpdate, RecordTypes
  <2> QED
    BY <1>3, <1>b, <1>c, <1>d, <2>1, ClipboardTypes DEF RecordClipboardUpdate
<1>4. CASE (\E k \in Callers : SimRings(k)) \/ SimOffHook \/ SimIdle
  <2>1. RecordTypes'
    BY <1>0, <1>4, OtherRecordTypes DEF SimRings, SimOffHook, SimIdle, RecordTypes
  <2>2. UNCHANGED <<clips, clipTexts>> /\ UNCHANGED uiVars
    BY <1>4 DEF SimRings, SimOffHook, SimIdle
  <2> QED
    BY <1>4, <1>a, <1>b, <2>1, <2>2, SimTypesKept
<1>5. CASE Refreshed
  <2>1. UNCHANGED <<program, notes, latest, clips, clipTexts, reports>> /\ UNCHANGED <<simVars, asked>>
        /\ due' \in BOOLEAN
    BY <1>0, <1>5 DEF Refreshed, Refresh, RefreshGone, RefreshRinging, RefreshActive,
                      RefreshMessage, recordVars, RecordTypes
  <2>2. RecordTypes'
    BY <2>1, OtherRecordTypes
  <2> QED
    BY <1>5, <1>a, <1>d, <2>1, <2>2, RefreshedTypes
<1>6. ASSUME NEW r \in Runs, Popup(r) PROVE Kept
  <2>1. UNCHANGED <<program, recordVars, due>>
    BY <1>6 DEF Popup, Open, Appear, ReadId, Choose, Leave, TimeOut, Finish,
                HandleNotificationAction, QueueCallControl
  <2>2. RecordTypes' /\ ClipTypes'
    BY <1>0, <1>a, <2>1, OtherRecordTypes DEF recordVars, RecordTypes
  <2>3. CASE HandleNotificationAction(r) \/ QueueCallControl(r)
    BY <2>2, <2>3, ChoiceTypes
  <2>4. CASE \/ Open(r) \/ Appear(r) \/ ReadId(r) \/ \E a \in Acts \cup {None} : Choose(r, a)
             \/ Leave(r) \/ TimeOut(r) \/ Finish(r)
    <3>1. UNCHANGED uiVars
      BY <2>4 DEF Open, Appear, ReadId, Choose, Leave, TimeOut, Finish
    <3> QED
      BY <1>b, <2>2, <2>4, <3>1, ThreadStepTypes
  <2> QED
    BY <1>6, <2>3, <2>4 DEF Popup
<1>7. CASE UNCHANGED popupsVars
  <2>1. UNCHANGED <<program, recordVars, due>> /\ UNCHANGED uiVars /\ UNCHANGED threadVars
        /\ UNCHANGED <<simVars, asked>>
    BY <1>7 DEF popupsVars
  <2>2. RecordTypes' /\ ClipTypes'
    BY <1>0, <1>a, <2>1, OtherRecordTypes DEF recordVars, RecordTypes
  <2> QED
    BY <1>b, <1>c, <1>d, <2>1, <2>2
<1> QED
  BY <1>1, <1>2, <1>3, <1>4, <1>5, <1>6, <1>7 DEF PopupsNext, Reported, Refreshed

-----------------------------------------------------------------------------
(* The records and what the refresh makes of them.                         *)

\* Every change of the notifications signals, and a refresh settles one
\* notification after the other.
LEMMA UiKeepsUp ==
  ASSUME PopupsInv, [PopupsNext]_popupsVars
  PROVE  UiFollowsRecords'
<1>0. UiFollowsRecords
  BY DEF PopupsInv
<1>a. UNCHANGED <<due, notes, view, todo, ringing, ongoing>> => UiFollowsRecords'
  BY <1>0 DEF UiFollowsRecords, Settled
<1>b. /\ view \in [Ids -> Note \cup {None}] /\ todo \subseteq Ids
      /\ notes \in [Ids -> Note \cup {None}]
  BY DEF PopupsInv, UiTypes, RecordTypes
<1>1. CASE Reported
  <2>1. \/ due' = TRUE
        \/ UNCHANGED <<due, notes, view, todo, ringing, ongoing>>
    BY <1>1 DEF Reported, RecordNotification, RemoveNotification, RecordClipboardUpdate, SimRings,
                SimOffHook, SimIdle, uiVars
  <2> QED
    BY <1>a, <2>1 DEF UiFollowsRecords
<1>2. CASE Refresh
  <2>1. /\ view' = notes /\ notes' = notes /\ todo' = ringing \cup ongoing \cup {i \in Ids : notes[i] # None}
        /\ UNCHANGED <<ringing, ongoing>>
    BY <1>2 DEF Refresh, recordVars
  <2> QED
    BY <2>1 DEF UiFollowsRecords, Settled
<1>3. ASSUME NEW i \in Ids,
             RefreshGone(i) \/ RefreshRinging(i) \/ RefreshActive(i) \/ RefreshMessage(i)
      PROVE  UiFollowsRecords'
  <2> SUFFICES ASSUME ~due PROVE \A j \in Ids : IF j \in todo' THEN view'[j] = notes[j] ELSE Settled(j)'
    BY <1>3 DEF RefreshGone, RefreshRinging, RefreshActive, RefreshMessage, recordVars, UiFollowsRecords
  <2>1. /\ i \in todo /\ todo' = todo \ {i} /\ view' = [view EXCEPT ![i] = None]
        /\ notes' = notes
    BY <1>3 DEF RefreshGone, RefreshRinging, RefreshActive, RefreshMessage, Done, recordVars
  <2>2. view[i] = notes[i]
    BY <1>0, <2>1 DEF UiFollowsRecords
  <2>3. /\ ringing' \in {ringing \cup {i}, ringing \ {i}, ringing}
        /\ ongoing' \in {ongoing \cup {i}, ongoing \ {i}, ongoing}
    BY <1>3 DEF RefreshGone, RefreshRinging, RefreshActive, RefreshMessage
  <2>4. Settled(i)'
    <3>1. CASE RefreshGone(i)
      BY <2>1, <2>2, <3>1 DEF RefreshGone, Settled
    <3>2. CASE RefreshRinging(i)
      BY <2>1, <2>2, <3>2 DEF RefreshRinging, Settled
    <3>3. CASE RefreshActive(i)
      BY <2>1, <2>2, <3>3 DEF RefreshActive, Settled
    <3>4. CASE RefreshMessage(i)
      BY <2>1, <2>2, <3>4 DEF RefreshMessage, Settled
    <3> QED
      BY <1>3, <3>1, <3>2, <3>3, <3>4
  <2>5. ASSUME NEW j \in Ids, j # i
        PROVE  IF j \in todo' THEN view'[j] = notes[j] ELSE Settled(j)'
    <3>1. view'[j] = view[j] /\ (j \in todo' <=> j \in todo)
      BY <1>b, <2>1, <2>5
    <3>2. (j \in ringing' <=> j \in ringing) /\ (j \in ongoing' <=> j \in ongoing)
      BY <2>3, <2>5
    <3> QED
      BY <1>0, <2>1, <3>1, <3>2 DEF UiFollowsRecords, Settled
  <2> QED
    BY <2>1, <2>4, <2>5
<1>4. ASSUME NEW r \in Runs, Popup(r) PROVE UiFollowsRecords'
  BY <1>4, <1>a DEF Popup, Open, Appear, ReadId, Choose, Leave, TimeOut, Finish,
                    HandleNotificationAction, QueueCallControl, recordVars, uiVars
<1>5. CASE UNCHANGED popupsVars
  BY <1>5, <1>a DEF popupsVars, recordVars, uiVars
<1> QED
  BY <1>1, <1>2, <1>3, <1>4, <1>5 DEF PopupsNext, Refreshed

\* The latest app call is forgotten with its notification, and its actions
\* follow every report that has some.
LEMMA LatestStays ==
  ASSUME PopupsInv, [PopupsNext]_popupsVars
  PROVE  LatestIsKept'
<1>0. LatestIsKept
  BY DEF PopupsInv
<1>a. UNCHANGED <<notes, latest>> => LatestIsKept'
  BY <1>0 DEF LatestIsKept
<1>b. /\ notes \in [Ids -> Note \cup {None}] /\ latest.id \in Ids \cup {None}
      /\ None \notin Ids
  BY ContentsAssumption DEF PopupsInv, RecordTypes
<1>1. ASSUME NEW i \in Ids, NEW c \in Contents, RecordNotification(i, c) PROVE LatestIsKept'
  <2> DEFINE n == [says |-> c, at |-> reports']
  <2>1. CASE UNCHANGED <<notes, latest>>
    BY <1>a, <2>1
  <2>2. CASE notes' = [notes EXCEPT ![i] = n] /\ RecordAppCallActions(i, c)
    <3>1. n # None /\ n.says = c
      <4>1. n \in [says : Contents, at : Nat] /\ n.says = c
        BY ReportNumbers, <1>1 DEF RecordNotification
      <4> QED
        BY <4>1, ContentsAssumption
    <3>2. notes'[i] = n /\ \A j \in Ids \ {i} : notes'[j] = notes[j]
      BY <1>b, <2>2
    <3> HIDE DEF n
    <3>3. CASE CallLike(c) /\ c.acts \cap CallActs # {}
      <4>1. latest'.id = i /\ latest'.acts = c.acts \cap CallActs
        BY <2>2, <3>3 DEF RecordAppCallActions
      <4> QED
        BY <3>1, <3>2, <4>1 DEF LatestIsKept
    <3>4. CASE ~(CallLike(c) /\ c.acts \cap CallActs # {})
      <4>1. latest' = latest
        BY <2>2, <3>4 DEF RecordAppCallActions
      <4>2. c.acts \cap CallActs = {}
        BY <3>4, ContentsAssumption DEF CallLike
      <4>3. CASE latest.id = i
        BY <3>1, <3>2, <4>1, <4>2, <4>3 DEF LatestIsKept
      <4>4. CASE latest.id # i
        BY <1>0, <1>b, <3>2, <4>1, <4>4 DEF LatestIsKept
      <4> QED
        BY <4>3, <4>4
    <3> QED
      BY <3>3, <3>4
  <2> QED
    BY <1>1, <2>1, <2>2 DEF RecordNotification
<1>2. ASSUME NEW i \in Ids, RemoveNotification(i) PROVE LatestIsKept'
  <2>1. CASE UNCHANGED <<notes, latest>>
    BY <1>a, <2>1
  <2>2. CASE /\ notes' = [notes EXCEPT ![i] = None]
             /\ latest' = IF latest.id = i THEN NoCall ELSE latest
    <3>1. CASE latest.id = i
      BY <2>2, <3>1 DEF LatestIsKept, NoCall
    <3>2. CASE latest.id # i
      <4>1. latest' = latest /\ \A j \in Ids \ {i} : notes'[j] = notes[j]
        BY <1>b, <2>2, <3>2
      <4> QED
        BY <1>0, <1>b, <3>2, <4>1 DEF LatestIsKept
    <3> QED
      BY <3>1, <3>2
  <2> QED
    BY <1>2, <2>1, <2>2 DEF RemoveNotification
<1>3. CASE \/ \E t \in Texts : RecordClipboardUpdate(t)
           \/ \E k \in Callers : SimRings(k)
           \/ SimOffHook \/ SimIdle
  BY <1>3, <1>a DEF RecordClipboardUpdate, SimRings, SimOffHook, SimIdle
<1>4. CASE Refreshed
  BY <1>4, <1>a DEF Refreshed, Refresh, RefreshGone, RefreshRinging, RefreshActive, RefreshMessage,
                    recordVars
<1>5. ASSUME NEW r \in Runs, Popup(r) PROVE LatestIsKept'
  BY <1>5, <1>a DEF Popup, Open, Appear, ReadId, Choose, Leave, TimeOut, Finish,
                    HandleNotificationAction, QueueCallControl, recordVars
<1>6. CASE UNCHANGED popupsVars
  BY <1>6, <1>a DEF popupsVars, recordVars
<1> QED
  BY <1>1, <1>2, <1>3, <1>4, <1>5, <1>6 DEF PopupsNext, Reported

-----------------------------------------------------------------------------
(* The threads of the popups.                                              *)

ThreadsKnown == ChosenIsGone /\ MissedCloseIsEarly /\ WaitingCanBeClosed

\* The thread r is started for a popup that rings for a call that rings, or it
\* has come to its end.
StartsOrEnds(r) ==
  \/ run'[r].at = "spawned" /\ run'[r].pick = None /\ (run'[r].ring => Rings(r)')
  \/ run'[r] = [Unused EXCEPT !.at = "done"]

\* Nothing is closed, and what rings rings on.
LEMMA KeptThreads ==
  ASSUME PopupsInv, KeepPopups,
         \A r \in Runs : \/ run'[r] = run[r] /\ (Rings(r) => Rings(r)')
                         \/ StartsOrEnds(r)
  PROVE  ThreadsKnown'
<1>0. /\ ChosenIsGone /\ MissedCloseIsEarly /\ WaitingCanBeClosed
      /\ UNCHANGED <<screen, sids, early, lost>> /\ screen \subseteq Runs
  BY DEF PopupsInv, ThreadTypes, KeepPopups, tables
<1>1. ASSUME NEW r \in Runs, StartsOrEnds(r)
      PROVE  /\ run'[r].at \in {"spawned", "done"} /\ run'[r].pick = None
             /\ run'[r].at = "spawned" /\ run'[r].ring => Rings(r)'
  BY <1>1 DEF StartsOrEnds, Unused
<1>2. ChosenIsGone'
  BY <1>0, <1>1 DEF ChosenIsGone
<1>3. MissedCloseIsEarly'
  BY <1>0, <1>1 DEF MissedCloseIsEarly
<1>4. WaitingCanBeClosed'
  <2> SUFFICES ASSUME NEW r \in screen, run'[r].at \in {"waiting", "late"}, r \notin early \cup lost
               PROVE  sids[KeyOf(r)'] = r /\ (run'[r].ring => Rings(r)')
    BY <1>0 DEF WaitingCanBeClosed
  <2>1. run'[r] = run[r] /\ (Rings(r) => Rings(r)')
    BY <1>0, <1>1
  <2>2. KeyOf(r)' = KeyOf(r)
    BY <2>1 DEF KeyOf
  <2> QED
    BY <1>0, <2>1, <2>2 DEF WaitingCanBeClosed
<1> QED
  BY <1>2, <1>3, <1>4 DEF ThreadsKnown

\* The popup of the key k is closed, and only calls of this key end.
LEMMA ClosedThreads ==
  ASSUME PopupsInv, NEW k \in Keys, Close(k),
         \A r \in Runs : \/ run'[r] = run[r] /\ (KeyOf(r) # k /\ Rings(r) => Rings(r)')
                         \/ StartsOrEnds(r)
  PROVE  ThreadsKnown'
<1>0. /\ ChosenIsGone /\ MissedCloseIsEarly /\ WaitingCanBeClosed /\ screen \subseteq Runs
      /\ sids \in [Keys -> Runs \cup {None}]
  BY DEF PopupsInv, ThreadTypes, TableTypes
<1>1. ASSUME NEW r \in Runs, StartsOrEnds(r)
      PROVE  /\ run'[r].at \in {"spawned", "done"} /\ run'[r].pick = None
             /\ run'[r].at = "spawned" /\ run'[r].ring => Rings(r)'
  BY <1>1 DEF StartsOrEnds, Unused
<1>2. /\ screen' = screen \ {sids[k]} /\ lost' = lost
      /\ early' = early \cup {r \in Runs : /\ KeyOf(r) = k
                                           /\ run[r].at \in {"spawned", "open", "notified"}}
      /\ \A l \in Keys \ {k} : sids'[l] = sids[l]
  BY <1>0 DEF Close
<1>3. ChosenIsGone'
  BY <1>0, <1>1, <1>2 DEF ChosenIsGone
<1>4. MissedCloseIsEarly'
  <2> SUFFICES ASSUME NEW r \in Runs, run'[r].at \in {"spawned", "open", "notified"}, run'[r].ring,
                      r \notin early'
               PROVE  Rings(r)'
    BY DEF MissedCloseIsEarly
  <2>1. CASE StartsOrEnds(r)
    BY <1>1, <2>1
  <2>2. CASE run'[r] = run[r] /\ (KeyOf(r) # k /\ Rings(r) => Rings(r)')
    BY <1>0, <1>2, <2>2 DEF MissedCloseIsEarly
  <2> QED
    BY <2>1, <2>2
<1>5. WaitingCanBeClosed'
  <2> SUFFICES ASSUME NEW r \in screen', run'[r].at \in {"waiting", "late"}, r \notin early' \cup lost'
               PROVE  sids'[KeyOf(r)'] = r /\ (run'[r].ring => Rings(r)')
    BY DEF WaitingCanBeClosed
  <2>0. r \in screen /\ r # sids[k] /\ r \notin early \cup lost /\ r \in Runs
    BY <1>0, <1>2
  <2>1. run'[r] = run[r] /\ (KeyOf(r) # k /\ Rings(r) => Rings(r)')
    BY <1>1, <2>0
  <2>2. KeyOf(r)' = KeyOf(r) /\ KeyOf(r) \in Keys
    BY <2>1 DEF KeyOf, Keys
  <2>3. sids[KeyOf(r)] = r /\ (run[r].ring => Rings(r))
    BY <1>0, <2>0, <2>1 DEF WaitingCanBeClosed
  <2>4. KeyOf(r) # k
    BY <2>0, <2>3
  <2> QED
    BY <1>2, <2>1, <2>2, <2>3, <2>4
<1> QED
  BY <1>3, <1>4, <1>5 DEF ThreadsKnown

\* What Spawn does to the threads.
LEMMA SpawnStarts ==
  ASSUME PopupsInv, NEW n, NEW of, NEW ring, NEW acts, run' = Spawn(run, n, of, ring, acts),
         ring => IF of \in Ids THEN of \in ringing' ELSE of = simKey'
  PROVE  \A r \in Runs : run'[r] = run[r] \/ (r = n /\ StartsOrEnds(r))
<1> SUFFICES ASSUME NEW r \in Runs, run'[r] # run[r] PROVE r = n /\ StartsOrEnds(r)
  OBVIOUS
<1> DEFINE t == [of |-> of, ring |-> ring, acts |-> acts, at |-> "spawned", pick |-> None]
<1>1. r = n /\ run'[r] = t
  BY DEF Spawn, PopupsInv, ThreadTypes
<1> QED
  BY <1>1 DEF StartsOrEnds, Rings

\* A step that leaves the popups, the calls and the threads alone.
LEMMA RestThreads ==
  ASSUME PopupsInv, UNCHANGED <<run, screen, sids, early, lost, ringing, simKey>>
  PROVE  ThreadsKnown'
  BY DEF PopupsInv, ThreadsKnown, ChosenIsGone, MissedCloseIsEarly, WaitingCanBeClosed, Rings, KeyOf

\* The refresh.
LEMMA RefreshedThreads ==
  ASSUME PopupsInv, Refreshed
  PROVE  ThreadsKnown'
<1>0. Ids \subseteq Keys /\ Sim \notin Ids
  BY ContentsAssumption DEF Keys
<1>1. CASE Refresh
  BY <1>1, RestThreads DEF Refresh, threadVars, tables, simVars
<1>2. ASSUME NEW i \in Ids, RefreshGone(i) PROVE ThreadsKnown'
  <2>1. /\ Close(i) /\ ringing' = ringing \ {i} /\ simKey' = simKey /\ run' = run
    BY <1>2 DEF RefreshGone, simVars
  <2>2. \A r \in Runs : KeyOf(r) # i /\ Rings(r) => Rings(r)'
    BY <2>1 DEF KeyOf, Rings
  <2> QED
    BY <1>0, <2>1, <2>2, ClosedThreads
<1>3. ASSUME NEW i \in Ids, RefreshRinging(i) PROVE ThreadsKnown'
  <2>1. KeepPopups /\ ringing' = ringing \cup {i} /\ simKey' = simKey
    BY <1>3 DEF RefreshRinging, simVars
  <2>2. \A r \in Runs : run'[r] = run[r] \/ StartsOrEnds(r)
    <3>1. CASE i \in ringing
      BY <1>3, <3>1 DEF RefreshRinging
    <3>2. CASE i \notin ringing
      <4> PICK b \in BOOLEAN : run' = Spawn(run, view[i].at, i, TRUE, Routes(view[i].says, b))
        BY <1>3, <3>2 DEF RefreshRinging
      <4> QED
        BY <2>1, SpawnStarts
    <3> QED
      BY <3>1, <3>2
  <2>3. \A r \in Runs : run'[r] = run[r] => (Rings(r) => Rings(r)')
    BY <2>1 DEF Rings
  <2> QED
    BY <2>1, <2>2, <2>3, KeptThreads
<1>4. ASSUME NEW i \in Ids, RefreshActive(i) PROVE ThreadsKnown'
  <2>1. \A r \in Runs : run'[r] = run[r] \/ StartsOrEnds(r)
    <3>1. \/ run' = run
          \/ run' = Spawn(run, view[i].at, i, FALSE, Routes(view[i].says, FALSE))
      BY <1>4 DEF RefreshActive
    <3> QED
      BY <3>1, SpawnStarts
  <2>2. simKey' = simKey
    BY <1>4 DEF RefreshActive, simVars
  <2>3. CASE i \in ringing
    <3>1. Close(i) /\ ringing' = ringing \ {i}
      BY <1>4, <2>3 DEF RefreshActive
    <3>2. \A r \in Runs : run'[r] = run[r] => (KeyOf(r) # i /\ Rings(r) => Rings(r)')
      BY <2>2, <3>1 DEF KeyOf, Rings
    <3> QED
      BY <1>0, <2>1, <3>1, <3>2, ClosedThreads
  <2>4. CASE i \notin ringing
    <3>1. KeepPopups /\ ringing' = ringing
      BY <1>4, <2>4 DEF RefreshActive
    <3>2. \A r \in Runs : run'[r] = run[r] => (Rings(r) => Rings(r)')
      BY <2>2, <3>1 DEF Rings
    <3> QED
      BY <2>1, <3>1, <3>2, KeptThreads
  <2> QED
    BY <2>3, <2>4
<1>5. ASSUME NEW i \in Ids, RefreshMessage(i) PROVE ThreadsKnown'
  <2>1. \A r \in Runs : run'[r] = run[r] \/ StartsOrEnds(r)
    <3>1. \/ run' = run
          \/ run' = Spawn(run, view[i].at, i, FALSE, Routes(view[i].says, FALSE))
      BY <1>5 DEF RefreshMessage
    <3> QED
      BY <3>1, SpawnStarts
  <2>2. UNCHANGED <<simKey, ringing>>
    BY <1>5 DEF RefreshMessage, simVars
  <2>3. \A r \in Runs : run'[r] = run[r] => (Rings(r) => Rings(r)')
    BY <2>2 DEF Rings
  <2>4. Close(i) \/ KeepPopups
    BY <1>5 DEF RefreshMessage
  <2> QED
    BY <1>0, <2>1, <2>3, <2>4, KeptThreads, ClosedThreads
<1> QED
  BY <1>1, <1>2, <1>3, <1>4, <1>5 DEF Refreshed

\* SIM calls.
LEMMA SimThreads ==
  ASSUME PopupsInv, (\E k \in Callers : SimRings(k)) \/ SimOffHook \/ SimIdle
  PROVE  ThreadsKnown'
<1>0. Sim \in Keys
  BY DEF Keys
<1>a. ringing' = ringing
  BY DEF SimRings, SimOffHook, SimIdle, uiVars
<1>b. \A r \in Runs : run'[r] = run[r] /\ KeyOf(r) # Sim /\ Rings(r) => Rings(r)'
  BY <1>a DEF KeyOf, Rings
<1>1. ASSUME NEW k \in Callers, SimRings(k) PROVE ThreadsKnown'
  <2>1. CASE k = simKey
    BY <1>1, <1>a, <2>1, RestThreads DEF SimRings, KeepPopups, simVars, tables
  <2>2. CASE k # simKey
    <3>1. Close(Sim) /\ simKey' = k
      BY <1>1, <2>2 DEF SimRings
    <3> PICK b \in BOOLEAN : run' = Spawn(run, reports', k, TRUE, SimActs(FALSE, b))
      BY <1>1, <2>2 DEF SimRings
    <3>2. k \notin Ids
      BY ContentsAssumption
    <3>3. \A r \in Runs : run'[r] = run[r] \/ StartsOrEnds(r)
      BY <3>1, <3>2, SpawnStarts
    <3> QED
      BY <1>0, <1>b, <3>1, <3>3, ClosedThreads
  <2> QED
    BY <2>1, <2>2
<1>2. CASE SimOffHook
  <2>1. KeepPopups /\ simKey' = simKey
    BY <1>2 DEF SimOffHook
  <2>2. run' = run \/ run' = Spawn(run, reports', simKey, FALSE, SimActs(TRUE, FALSE))
    BY <1>2 DEF SimOffHook
  <2>3. \A r \in Runs : run'[r] = run[r] \/ StartsOrEnds(r)
    BY <2>2, SpawnStarts
  <2>4. \A r \in Runs : run'[r] = run[r] => (Rings(r) => Rings(r)')
    BY <1>a, <2>1 DEF Rings
  <2> QED
    BY <2>1, <2>3, <2>4, KeptThreads
<1>3. CASE SimIdle
  <2>1. Close(Sim) /\ run' = run
    BY <1>3 DEF SimIdle
  <2> QED
    BY <1>0, <1>b, <2>1, ClosedThreads
<1> QED
  BY <1>1, <1>2, <1>3

\* The life of a popup.
LEMMA PopupThreads ==
  ASSUME PopupsInv, NEW r \in Runs, Popup(r)
  PROVE  ThreadsKnown'
<1>0. /\ ChosenIsGone /\ MissedCloseIsEarly /\ WaitingCanBeClosed
      /\ screen \subseteq Runs /\ run \in [Runs -> Thread] /\ r \notin {None}
      /\ sids \in [Keys -> Runs \cup {None}] /\ None \notin Runs
  BY ContentsAssumption DEF PopupsInv, ThreadTypes, TableTypes, Runs
<1>a. \A q \in Runs : KeyOf(q) \in Keys
  BY DEF KeyOf, Keys
<1>b. \A stage : At(r, stage) => /\ \A q \in Runs : q # r => run'[q] = run[q]
                                 /\ run'[r].at = stage /\ run'[r].ring = run[r].ring
                                 /\ run'[r].of = run[r].of /\ run'[r].pick = run[r].pick
  BY <1>0 DEF At, Thread
<1>c. Over(r) => (\A q \in Runs : q # r => run'[q] = run[q]) /\ StartsOrEnds(r)
  BY <1>0 DEF Over, StartsOrEnds
<1>d. ASSUME UNCHANGED <<ringing, simKey>>, NEW q \in Runs, run'[q].of = run[q].of
      PROVE  KeyOf(q)' = KeyOf(q) /\ Rings(q)' = Rings(q)
  BY <1>d DEF KeyOf, Rings
<1>1. CASE Open(r)
  <2>1. UNCHANGED <<ringing, simKey, screen, sids, early, lost>> /\ run[r].at = "spawned"
    BY <1>1 DEF Open, uiVars, simVars
  <2>2. CASE At(r, "open")
    <3>1. ChosenIsGone'
      BY <1>0, <1>b, <2>1, <2>2 DEF ChosenIsGone
    <3>2. MissedCloseIsEarly'
      <4>1. \A q \in Runs : run'[q].of = run[q].of
        BY <1>b, <2>2
      <4> QED
        BY <1>0, <1>b, <1>d, <2>1, <2>2, <4>1 DEF MissedCloseIsEarly
    <3>3. WaitingCanBeClosed'
      BY <1>0, <1>b, <1>d, <2>1, <2>2 DEF WaitingCanBeClosed
    <3> QED
      BY <3>1, <3>2, <3>3 DEF ThreadsKnown
  <2>3. CASE Over(r)
    <3>1. ChosenIsGone'
      BY <1>0, <1>c, <2>1, <2>3 DEF ChosenIsGone, StartsOrEnds, Unused
    <3>2. MissedCloseIsEarly'
      BY <1>0, <1>c, <1>d, <2>1, <2>3 DEF MissedCloseIsEarly, StartsOrEnds, Unused
    <3>3. WaitingCanBeClosed'
      BY <1>0, <1>c, <1>d, <2>1, <2>3 DEF WaitingCanBeClosed, StartsOrEnds, Unused
    <3> QED
      BY <3>1, <3>2, <3>3 DEF ThreadsKnown
  <2> QED
    BY <1>1, <2>2, <2>3 DEF Open
<1>2. CASE Appear(r)
  <2>1. /\ UNCHANGED <<ringing, simKey, sids, early, lost>> /\ run[r].at = "open" /\ At(r, "notified")
        /\ screen' = screen \cup {r}
    BY <1>2 DEF Appear, uiVars, simVars, tables
  <2>2. \A q \in Runs : run'[q].of = run[q].of
    BY <1>b, <2>1
  <2>3. ChosenIsGone'
    BY <1>0, <1>b, <2>1 DEF ChosenIsGone
  <2>4. MissedCloseIsEarly'
    BY <1>0, <1>b, <1>d, <2>1, <2>2 DEF MissedCloseIsEarly
  <2>5. WaitingCanBeClosed'
    BY <1>0, <1>b, <1>d, <2>1, <2>2 DEF WaitingCanBeClosed
  <2> QED
    BY <2>3, <2>4, <2>5 DEF ThreadsKnown
<1>3. CASE ReadId(r)
  <2>1. /\ UNCHANGED <<ringing, simKey, early, screen>> /\ run[r].at = "notified" /\ At(r, "waiting")
        /\ sids' = [sids EXCEPT ![KeyOf(r)] = r]
        /\ lost' = lost \cup ({sids[KeyOf(r)]} \ {None, r})
    BY <1>3 DEF ReadId, uiVars, simVars
  <2>2. \A q \in Runs : run'[q].of = run[q].of
    BY <1>b, <2>1
  <2>3. ChosenIsGone'
    BY <1>0, <1>b, <2>1 DEF ChosenIsGone
  <2>4. MissedCloseIsEarly'
    BY <1>0, <1>b, <1>d, <2>1, <2>2 DEF MissedCloseIsEarly
  <2>5. WaitingCanBeClosed'
    <3> SUFFICES ASSUME NEW q \in screen, run'[q].at \in {"waiting", "late"}, q \notin early \cup lost'
                 PROVE  sids'[KeyOf(q)] = q /\ (run[q].ring => Rings(q))
      BY <1>0, <1>b, <1>d, <2>1, <2>2 DEF WaitingCanBeClosed
    <3>1. CASE q = r
      BY <1>0, <1>a, <2>1, <3>1 DEF MissedCloseIsEarly
    <3>2. CASE q # r
      <4>1. sids[KeyOf(q)] = q /\ (run[q].ring => Rings(q))
        BY <1>0, <1>b, <2>1, <3>2 DEF WaitingCanBeClosed
      <4>2. KeyOf(q) # KeyOf(r)
        BY <1>0, <2>1, <3>2, <4>1
      <4> QED
        BY <1>0, <1>a, <2>1, <4>1, <4>2
    <3> QED
      BY <3>1, <3>2
  <2> QED
    BY <2>3, <2>4, <2>5 DEF ThreadsKnown
<1>4. CASE \E a \in Acts \cup {None} : Choose(r, a)
  <2> PICK a \in Acts \cup {None} : Choose(r, a)
    BY <1>4
  <2>1. /\ UNCHANGED <<ringing, simKey, sids, early, lost>> /\ run[r].at = "waiting"
        /\ screen' = screen \ {r}
    BY DEF Choose, uiVars, simVars, tables
  <2>2. /\ \A q \in Runs : q # r => run'[q] = run[q]
        /\ run'[r].at = run[r].at /\ run'[r].ring = run[r].ring /\ run'[r].of = run[r].of
    BY <1>0 DEF Choose, Thread
  <2>3. ChosenIsGone'
    BY <1>0, <2>1, <2>2 DEF ChosenIsGone
  <2>4. MissedCloseIsEarly'
    BY <1>0, <1>d, <2>1, <2>2 DEF MissedCloseIsEarly
  <2>5. WaitingCanBeClosed'
    BY <1>0, <1>d, <2>1, <2>2 DEF WaitingCanBeClosed
  <2> QED
    BY <2>3, <2>4, <2>5 DEF ThreadsKnown
<1>5. CASE Leave(r)
  BY <1>5, RestThreads DEF Leave, uiVars, simVars, tables
<1>6. CASE TimeOut(r)
  <2>1. /\ UNCHANGED <<ringing, simKey, sids, early, lost, screen>> /\ run[r].at = "waiting"
        /\ At(r, "late")
    BY <1>6 DEF TimeOut, uiVars, simVars, tables
  <2>2. \A q \in Runs : run'[q].of = run[q].of
    BY <1>b, <2>1
  <2>3. ChosenIsGone'
    BY <1>0, <1>b, <2>1 DEF ChosenIsGone
  <2>4. MissedCloseIsEarly'
    BY <1>0, <1>b, <1>d, <2>1, <2>2 DEF MissedCloseIsEarly
  <2>5. WaitingCanBeClosed'
    BY <1>0, <1>b, <1>d, <2>1, <2>2 DEF WaitingCanBeClosed
  <2> QED
    BY <2>3, <2>4, <2>5 DEF ThreadsKnown
<1>7. CASE Finish(r)
  <2>1. /\ UNCHANGED <<ringing, simKey, screen>> /\ early' = early \ {r}
        /\ lost' = (lost \cup ({sids[KeyOf(r)]} \ {None, sids'[KeyOf(r)]})) \ {r}
        /\ sids' = sids \/ sids' = [sids EXCEPT ![KeyOf(r)] = None]
        /\ (run[r].pick = None /\ Over(r)) \/ (run[r].pick # None /\ At(r, "over"))
    BY <1>7 DEF Finish, Forget, uiVars
  <2>2. /\ \A q \in Runs : q # r => run'[q] = run[q]
        /\ run'[r].at \in {"done", "over"}
        /\ run'[r].at = "over" => run'[r].pick # None
        /\ run'[r].pick # None => run'[r].at = "over" /\ run[r].pick # None
    <3>1. CASE run[r].pick = None /\ Over(r)
      <4>1. run'[r] = [Unused EXCEPT !.at = "done"]
        BY <1>0, <3>1 DEF Over
      <4> QED
        BY <1>c, <3>1, <4>1 DEF Unused
    <3>2. CASE run[r].pick # None /\ At(r, "over")
      BY <1>b, <3>2
    <3> QED
      BY <2>1, <3>1, <3>2
  <2>3. ChosenIsGone'
    BY <1>0, <2>1, <2>2 DEF ChosenIsGone
  <2>4. MissedCloseIsEarly'
    BY <1>0, <1>d, <2>1, <2>2 DEF MissedCloseIsEarly
  <2>5. WaitingCanBeClosed'
    <3> SUFFICES ASSUME NEW q \in screen, run'[q].at \in {"waiting", "late"},
                        q \notin early' \cup lost'
                 PROVE  sids'[KeyOf(q)'] = q /\ (run'[q].ring => Rings(q)')
      BY <2>1 DEF WaitingCanBeClosed
    <3>1. q # r /\ q \in Runs /\ run'[q] = run[q] /\ q \notin early \cup lost
      BY <1>0, <2>1, <2>2
    <3>2. KeyOf(q)' = KeyOf(q) /\ Rings(q)' = Rings(q)
      BY <1>d, <2>1, <3>1
    <3>3. sids[KeyOf(q)] = q /\ (run[q].ring => Rings(q))
      BY <1>0, <3>1 DEF WaitingCanBeClosed
    <3>4. sids'[KeyOf(q)] = q
      BY <1>0, <1>a, <2>1, <3>1, <3>3
    <3> QED
      BY <3>1, <3>2, <3>3, <3>4
  <2> QED
    BY <2>3, <2>4, <2>5 DEF ThreadsKnown
<1>8. CASE HandleNotificationAction(r) \/ QueueCallControl(r)
  <2>1. UNCHANGED <<ringing, simKey>> /\ Over(r)
    BY <1>8 DEF HandleNotificationAction, QueueCallControl, simVars, uiVars
  <2>2. \A q \in Runs : \/ run'[q] = run[q] /\ (Rings(q) => Rings(q)')
                        \/ StartsOrEnds(q)
    BY <1>c, <1>d, <2>1
  <2>3. KeepPopups \/ (run[r].of \in Keys /\ Close(run[r].of))
    BY <1>8 DEF HandleNotificationAction, QueueCallControl, Keys
  <2> QED
    BY <2>2, <2>3, KeptThreads, ClosedThreads
<1> QED
  BY <1>1, <1>2, <1>3, <1>4, <1>5, <1>6, <1>7, <1>8 DEF Popup

\* Every step of the program.
LEMMA PopupsNextKeepsThreads ==
  ASSUME PopupsInv, [PopupsNext]_popupsVars
  PROVE  ThreadsKnown'
<1>1. CASE \/ \E i \in Ids, c \in Contents : RecordNotification(i, c)
           \/ \E i \in Ids : RemoveNotification(i)
           \/ \E t \in Texts : RecordClipboardUpdate(t)
  BY <1>1, RestThreads DEF RecordNotification, RemoveNotification, RecordClipboardUpdate,
                           uiVars, threadVars, tables, simVars
<1>2. CASE UNCHANGED popupsVars
  BY <1>2, RestThreads DEF popupsVars, uiVars, threadVars, tables, simVars
<1> QED
  BY <1>1, <1>2, RefreshedThreads, SimThreads, PopupThreads DEF PopupsNext, Reported

-----------------------------------------------------------------------------
(* One popup per report.                                                   *)

\* After a step.
NowUsed(n) == run'[n].at # "unused"
NowHad(i, n) ==
  /\ n.says.kind = "ringing" => i \in ringing'
  /\ n.says.kind \in {"ongoing", "other"} => i \in ongoing'
  /\ n.says.kind \in {"missed", "message"} => shown'[i] = n

\* Nothing is noted or refreshed, and no thread is started but for this report.
LEMMA RestNumbers ==
  ASSUME PopupsInv, UNCHANGED <<notes, view, todo, ringing, ongoing, shown>>,
         reports' \in {reports, reports + 1},
         \A n \in Runs : NowUsed(n) => Used(n) \/ (n = reports + 1 /\ reports' = reports + 1)
  PROVE  Numbers' /\ OnePopupEach'
<1>0. Numbers /\ OnePopupEach /\ reports \in Nat
  BY ContentsAssumption DEF PopupsInv, RecordTypes
<1>1. \A i \in Ids : /\ notes[i] # None => notes[i].at \in Runs /\ notes[i].at \in Nat
                     /\ view[i] # None => view[i].at \in Runs /\ view[i].at \in Nat
  BY ContentsAssumption DEF PopupsInv, RecordTypes, UiTypes, Note, Runs
<1>2. Numbers'
  <2>1. \A n \in Runs : NowUsed(n) => n <= reports'
    BY <1>0, ContentsAssumption DEF Numbers, NowUsed, Used, Runs
  <2>2. \A i \in Ids : /\ notes[i] # None => notes[i].at <= reports'
                       /\ view[i] # None => view[i].at <= reports' /\ i \in todo
    BY <1>0, <1>1 DEF Numbers
  <2> QED
    BY <1>0, <2>1, <2>2 DEF Numbers, Used, NowUsed
<1>3. \A i \in Ids : /\ notes[i] # None /\ NowUsed(notes[i].at) => Used(notes[i].at)
                     /\ view[i] # None /\ NowUsed(view[i].at) => Used(view[i].at)
  <2>1. \A m \in Nat : m <= reports => m # reports + 1
    BY <1>0
  <2> QED
    BY <1>0, <1>1, <2>1 DEF Numbers
<1>4. OnePopupEach'
  BY <1>0, <1>3 DEF OnePopupEach, HadItsPopup, Used, NowUsed
<1> QED
  BY <1>2, <1>4

\* The thread n is started: it was unused, and no other is.
LEMMA SpawnUses ==
  ASSUME PopupsInv, NEW n \in Runs, NEW of, NEW ring, NEW acts,
         run' = Spawn(run, n, of, ring, acts)
  PROVE  NowUsed(n) /\ \A r \in Runs \ {n} : NowUsed(r) = Used(r)
  BY DEF Spawn, Used, NowUsed, PopupsInv, ThreadTypes

\* The parts of Numbers, and of OnePopupEach for one notification.
Told(n, m, i, j) == n # None /\ m # None /\ n.at = m.at => i = j /\ n = m

OwnNumber(i) ==
  \A j \in Ids : /\ Told(notes[i], notes[j], i, j) /\ Told(notes[i], view[j], i, j)
                 /\ Told(view[i], notes[j], i, j) /\ Told(view[i], view[j], i, j)

\* Numbers, for one notification.
LEMMA NumbersAreOwn == Numbers => \A i \in Ids : OwnNumber(i)
  BY DEF Numbers, OwnNumber, Told

\* A notification is noted, or removed.
LEMMA NotedNumbers ==
  ASSUME PopupsInv, NEW i \in Ids, Receive, NEW n \in Note \cup {None},
         n # None => n.at = reports', notes' = [notes EXCEPT ![i] = n],
         UNCHANGED <<run, view, todo, ringing, ongoing, shown>>
  PROVE  Numbers' /\ OnePopupEach'
<1>0. /\ Numbers /\ OnePopupEach /\ reports \in Nat /\ reports' = reports + 1
      /\ notes \in [Ids -> Note \cup {None}] /\ view \in [Ids -> Note \cup {None}]
  BY ReportNumbers DEF PopupsInv, RecordTypes, UiTypes
<1>1. \A j \in Ids : /\ notes[j] # None => notes[j].at \in Nat /\ notes[j].at \in Runs
                     /\ view[j] # None => view[j].at \in Nat /\ view[j].at \in Runs
  BY <1>0, ContentsAssumption DEF Note, Runs
<1>2. notes'[i] = n /\ \A j \in Ids \ {i} : notes'[j] = notes[j]
  BY <1>0
<1>3. \A j \in Ids : /\ notes[j] # None => notes[j].at # reports' /\ notes[j].at <= reports'
                     /\ view[j] # None => view[j].at # reports' /\ view[j].at <= reports'
  BY <1>0, <1>1 DEF Numbers
<1>4. \A r \in Runs : NowUsed(r) = Used(r) /\ (Used(r) => r <= reports' /\ r # reports')
  BY <1>0, ContentsAssumption DEF Numbers, Used, NowUsed, Runs
<1>5. n # None => n.at \in Runs /\ ~Used(n.at) /\ n.at <= reports'
  BY <1>0, <1>4, ContentsAssumption DEF Note, Runs
<1>6. \A j \in Ids : OwnNumber(j)'
  <2> SUFFICES ASSUME NEW j \in Ids, NEW k \in Ids
               PROVE  /\ Told(notes'[j], notes'[k], j, k) /\ Told(notes'[j], view[k], j, k)
                      /\ Told(view[j], notes'[k], j, k) /\ Told(view[j], view[k], j, k)
    BY DEF OwnNumber, Told
  <2>1. /\ Told(notes[j], notes[k], j, k) /\ Told(notes[j], view[k], j, k)
        /\ Told(view[j], notes[k], j, k) /\ Told(view[j], view[k], j, k)
    BY <1>0, NumbersAreOwn DEF OwnNumber
  <2>2. CASE j # i /\ k # i
    BY <1>2, <2>1, <2>2
  <2>3. CASE j = i /\ k = i
    BY <1>2, <1>3, <2>1, <2>3 DEF Told
  <2>4. CASE j = i /\ k # i
    BY <1>2, <1>3, <2>1, <2>4 DEF Told
  <2>5. CASE j # i /\ k = i
    BY <1>2, <1>3, <2>1, <2>5 DEF Told
  <2> QED
    BY <2>2, <2>3, <2>4, <2>5
<1>7. Numbers'
  <2>1. \A j, k \in Ids : \A x \in {notes'[j], view'[j]}, y \in {notes'[k], view'[k]} :
          x # None /\ y # None /\ x.at = y.at => j = k /\ x = y
    BY <1>6 DEF OwnNumber, Told
  <2>2. \A r \in Runs : NowUsed(r) => r <= reports'
    BY <1>4
  <2>3. \A j \in Ids : /\ notes'[j] # None => notes'[j].at <= reports'
                       /\ view'[j] # None => view'[j].at <= reports' /\ j \in todo'
    BY <1>0, <1>2, <1>3, <1>5 DEF Numbers
  <2> QED
    BY <2>1, <2>2, <2>3 DEF Numbers, Used, NowUsed
<1>8. OnePopupEach'
  <2> SUFFICES ASSUME NEW j \in Ids
               PROVE  /\ notes'[j] # None /\ NowUsed(notes'[j].at) => NowHad(j, notes'[j])
                      /\ view[j] # None /\ NowUsed(view[j].at) => NowHad(j, view[j])
                      /\ j \in todo /\ notes'[j] # None /\ NowUsed(notes'[j].at) => notes'[j] = view[j]
    BY DEF OnePopupEach, Used, HadItsPopup, NowUsed, NowHad
  <2>1. \A m : NowHad(j, m) = HadItsPopup(j, m)
    BY DEF HadItsPopup, NowHad
  <2>2. CASE j = i
    BY <1>0, <1>1, <1>2, <1>4, <1>5, <2>1, <2>2 DEF OnePopupEach
  <2>3. CASE j # i
    BY <1>0, <1>1, <1>2, <1>4, <2>1, <2>3 DEF OnePopupEach
  <2> QED
    BY <2>2, <2>3
<1> QED
  BY <1>7, <1>8

\* The refresh has dealt with i.
LEMMA DoneNumbers ==
  ASSUME PopupsInv, NEW i \in todo, Done(i), UNCHANGED <<notes, reports>>,
         \A r \in Runs : NowUsed(r) => Used(r) \/ (view[i] # None /\ r = view[i].at),
         view[i] # None /\ NowUsed(view[i].at) => NowHad(i, view[i]),
         \A j \in Ids \ {i} : /\ j \in ringing <=> j \in ringing'
                              /\ j \in ongoing <=> j \in ongoing'
                              /\ shown'[j] = shown[j]
  PROVE  Numbers' /\ OnePopupEach'
<1>0. /\ Numbers /\ OnePopupEach /\ todo \subseteq Ids
      /\ notes \in [Ids -> Note \cup {None}] /\ view \in [Ids -> Note \cup {None}]
  BY DEF PopupsInv, RecordTypes, UiTypes
<1>1. \A j \in Ids : /\ notes[j] # None => notes[j].at \in Runs
                     /\ view[j] # None => view[j].at \in Runs
  BY <1>0 DEF Note, Runs
<1>2. /\ todo' = todo \ {i} /\ view'[i] = None /\ i \in Ids
      /\ \A j \in Ids \ {i} : view'[j] = view[j]
  BY <1>0 DEF Done
<1>3. \A j \in Ids : OwnNumber(j)
  BY <1>0, NumbersAreOwn
<1>4. Numbers'
  <2>1. \A j \in Ids : OwnNumber(j)'
    <3> SUFFICES ASSUME NEW j \in Ids, NEW k \in Ids
                 PROVE  /\ Told(notes[j], notes[k], j, k) /\ Told(notes[j], view'[k], j, k)
                        /\ Told(view'[j], notes[k], j, k) /\ Told(view'[j], view'[k], j, k)
      BY DEF OwnNumber, Told
    <3>1. /\ Told(notes[j], notes[k], j, k) /\ Told(notes[j], view[k], j, k)
          /\ Told(view[j], notes[k], j, k) /\ Told(view[j], view[k], j, k)
      BY <1>3 DEF OwnNumber
    <3>2. view'[j] \in {view[j], None} /\ view'[k] \in {view[k], None}
      BY <1>2
    <3> QED
      BY <3>1, <3>2 DEF Told
  <2>2. \A j, k \in Ids : \A x \in {notes'[j], view'[j]}, y \in {notes'[k], view'[k]} :
          x # None /\ y # None /\ x.at = y.at => j = k /\ x = y
    BY <2>1 DEF OwnNumber, Told
  <2>3. \A r \in Runs : NowUsed(r) => r <= reports'
    BY <1>0, <1>2 DEF Numbers
  <2>4. \A j \in Ids : /\ notes'[j] # None => notes'[j].at <= reports'
                       /\ view'[j] # None => view'[j].at <= reports' /\ j \in todo'
    BY <1>0, <1>2 DEF Numbers
  <2> QED
    BY <2>2, <2>3, <2>4 DEF Numbers, Used, NowUsed
<1>5. OnePopupEach'
  <2> SUFFICES ASSUME NEW j \in Ids
               PROVE  /\ notes[j] # None /\ NowUsed(notes[j].at) => NowHad(j, notes[j])
                      /\ view'[j] # None /\ NowUsed(view'[j].at) => NowHad(j, view'[j])
                      /\ j \in todo' /\ notes[j] # None /\ NowUsed(notes[j].at) => notes[j] = view'[j]
    BY DEF OnePopupEach, Used, HadItsPopup, NowUsed, NowHad
  <2>1. CASE j = i
    <3>1. notes[i] # None /\ NowUsed(notes[i].at) => notes[i] = view[i]
      <4> SUFFICES ASSUME notes[i] # None, NowUsed(notes[i].at) PROVE notes[i] = view[i]
        OBVIOUS
      <4>1. CASE Used(notes[i].at)
        BY <1>0, <1>2, <4>1 DEF OnePopupEach
      <4>2. CASE view[i] # None /\ notes[i].at = view[i].at
        BY <1>2, <1>3, <4>2 DEF OwnNumber, Told
      <4> QED
        BY <1>1, <1>2, <4>1, <4>2
    <3> QED
      BY <1>2, <2>1, <3>1
  <2>2. CASE j # i
    <3>1. \A m : NowHad(j, m) = HadItsPopup(j, m)
      BY <2>2 DEF HadItsPopup, NowHad
    <3>2. notes[j] # None /\ NowUsed(notes[j].at) => Used(notes[j].at)
      BY <1>1, <1>2, <1>3, <2>2 DEF OwnNumber, Told
    <3>3. view[j] # None /\ NowUsed(view[j].at) => Used(view[j].at)
      BY <1>1, <1>2, <1>3, <2>2 DEF OwnNumber, Told
    <3> QED
      BY <1>0, <1>2, <2>2, <3>1, <3>2, <3>3 DEF OnePopupEach
  <2> QED
    BY <2>1, <2>2
<1> QED
  BY <1>4, <1>5

\* No thread but an unused one is started.
Fresh == \A r \in Runs : Used(r) /\ run'[r] # run[r] => run'[r].at # "spawned"

\* A thread is started under a number that has none yet.
LEMMA SpawnIsFresh ==
  ASSUME PopupsInv, NEW n, NEW of, NEW ring, NEW acts, n \in Runs => ~Used(n),
         run' = Spawn(run, n, of, ring, acts)
  PROVE  /\ Fresh
         /\ \A r \in Runs : NowUsed(r) => Used(r) \/ r = n
  BY DEF Spawn, Fresh, Used, NowUsed, PopupsInv, ThreadTypes

\* A refresh starts the popup of a notification only if it had none.
LEMMA RefreshedNumbers ==
  ASSUME PopupsInv, NEW i \in Ids,
         RefreshGone(i) \/ RefreshRinging(i) \/ RefreshActive(i) \/ RefreshMessage(i)
  PROVE  Numbers' /\ OnePopupEach' /\ Fresh
<1>0. /\ i \in todo /\ Done(i) /\ UNCHANGED <<notes, reports>>
      /\ view[i] # None => view[i] \in Note
  BY DEF RefreshGone, RefreshRinging, RefreshActive, RefreshMessage, recordVars, PopupsInv, UiTypes
<1>1. view[i] # None /\ Used(view[i].at) => HadItsPopup(i, view[i])
  BY DEF PopupsInv, OnePopupEach
<1>2. \A j \in Ids \ {i} : /\ j \in ringing <=> j \in ringing'
                           /\ j \in ongoing <=> j \in ongoing'
                           /\ shown'[j] = shown[j]
  <2>1. /\ ringing' \in {ringing \cup {i}, ringing \ {i}, ringing}
        /\ ongoing' \in {ongoing \cup {i}, ongoing \ {i}, ongoing}
    BY DEF RefreshGone, RefreshRinging, RefreshActive, RefreshMessage
  <2>2. \/ shown' = shown \/ shown' = [shown EXCEPT ![i] = None]
        \/ shown' = [shown EXCEPT ![i] = view[i]]
    BY DEF RefreshGone, RefreshRinging, RefreshActive, RefreshMessage
  <2> QED
    BY <2>1, <2>2 DEF PopupsInv, UiTypes
<1>3. ASSUME run' = run PROVE Fresh /\ \A r \in Runs : NowUsed(r) = Used(r)
  BY <1>3 DEF Fresh, NowUsed, Used
<1>4. ASSUME NEW of, NEW ring, NEW acts, run' = Spawn(run, view[i].at, of, ring, acts),
             view[i] # None, ~HadItsPopup(i, view[i])
      PROVE  Fresh /\ \A r \in Runs : NowUsed(r) => Used(r) \/ r = view[i].at
  BY <1>1, <1>4, SpawnIsFresh
<1>5. ASSUME \/ run' = run
             \/ /\ view[i] # None /\ ~HadItsPopup(i, view[i])
                /\ \E of, ring, acts : run' = Spawn(run, view[i].at, of, ring, acts),
             view[i] # None /\ NowUsed(view[i].at) => NowHad(i, view[i])
      PROVE  Numbers' /\ OnePopupEach' /\ Fresh
  <2>1. Fresh /\ \A r \in Runs : NowUsed(r) => Used(r) \/ (view[i] # None /\ r = view[i].at)
    BY <1>3, <1>4, <1>5
  <2> QED
    BY <1>0, <1>2, <1>5, <2>1, DoneNumbers
<1>6. CASE RefreshGone(i)
  BY <1>5, <1>6 DEF RefreshGone
<1>7. CASE RefreshRinging(i)
  <2>1. view[i] # None /\ view[i].says.kind = "ringing" /\ ringing' = ringing \cup {i}
    BY <1>7 DEF RefreshRinging
  <2>2. NowHad(i, view[i])
    BY <2>1 DEF NowHad
  <2>3. CASE i \in ringing
    BY <1>5, <1>7, <2>2, <2>3 DEF RefreshRinging
  <2>4. CASE i \notin ringing
    <3>1. ~HadItsPopup(i, view[i])
      BY <2>1, <2>4 DEF HadItsPopup
    <3>2. \E of, ring, acts : run' = Spawn(run, view[i].at, of, ring, acts)
      BY <1>7, <2>4 DEF RefreshRinging
    <3> QED
      BY <1>5, <2>1, <2>2, <3>1, <3>2
  <2> QED
    BY <2>3, <2>4
<1>8. CASE RefreshActive(i)
  <2> DEFINE first == i \in answered /\ view[i].says.kind = "ongoing" /\ i \notin ongoing
  <2>1. view[i] # None /\ view[i].says.kind \in {"ongoing", "other"}
    BY <1>8 DEF RefreshActive
  <2>2. CASE first
    <3>1. ongoing' = ongoing \cup {i}
          /\ run' = Spawn(run, view[i].at, i, FALSE, Routes(view[i].says, FALSE))
      BY <1>8, <2>2 DEF RefreshActive
    <3>2. NowHad(i, view[i])
      BY <2>1, <3>1 DEF NowHad
    <3>3. ~HadItsPopup(i, view[i])
      BY <2>1, <2>2 DEF HadItsPopup
    <3> QED
      BY <1>5, <2>1, <3>1, <3>2, <3>3
  <2>3. CASE ~first
    <3>1. ongoing' = ongoing /\ run' = run
      BY <1>8, <2>3 DEF RefreshActive
    <3>2. NowUsed(view[i].at) => NowHad(i, view[i])
      BY <1>1, <2>1, <3>1 DEF NowHad, HadItsPopup, NowUsed, Used
    <3> QED
      BY <1>5, <3>1, <3>2
  <2> QED
    BY <2>2, <2>3
<1>9. CASE RefreshMessage(i)
  <2>1. view[i] # None /\ view[i].says.kind \in {"missed", "message"}
    BY <1>9 DEF RefreshMessage
  <2>2. shown'[i] = view[i]
    <3>1. \/ shown' = shown /\ shown[i] = view[i]
          \/ shown' = [shown EXCEPT ![i] = view[i]]
      BY <1>9 DEF RefreshMessage
    <3> QED
      BY <3>1 DEF PopupsInv, UiTypes
  <2>3. NowHad(i, view[i])
    BY <2>1, <2>2 DEF NowHad
  <2>4. \/ run' = run
        \/ shown[i] # view[i]
           /\ run' = Spawn(run, view[i].at, i, FALSE, Routes(view[i].says, FALSE))
    BY <1>9 DEF RefreshMessage
  <2>5. shown[i] # view[i] => ~HadItsPopup(i, view[i])
    BY <2>1 DEF HadItsPopup
  <2> QED
    BY <1>5, <2>1, <2>3, <2>4, <2>5
<1> QED
  BY <1>6, <1>7, <1>8, <1>9

\* Every step of the program.
LEMMA PopupsNextKeepsNumbers ==
  ASSUME PopupsInv, [PopupsNext]_popupsVars
  PROVE  Numbers' /\ OnePopupEach' /\ (Fresh \/ UNCHANGED popupsVars)
<1>0. Numbers /\ OnePopupEach /\ reports \in Nat
  BY ContentsAssumption DEF PopupsInv, RecordTypes
<1>a. ASSUME run' = run PROVE Fresh /\ \A r \in Runs : NowUsed(r) = Used(r)
  BY <1>a DEF Fresh, NowUsed, Used
<1>1. ASSUME NEW i \in Ids, NEW c \in Contents, RecordNotification(i, c)
      PROVE  Numbers' /\ OnePopupEach' /\ Fresh
  <2> DEFINE n == [says |-> c, at |-> reports']
  <2>1. Receive /\ UNCHANGED <<run, view, todo, ringing, ongoing, shown>>
    BY <1>1 DEF RecordNotification, uiVars, threadVars
  <2>2. reports' = reports + 1 /\ n \in Note /\ n.at = reports'
    BY <2>1, ReportNumbers DEF Note
  <2>3. notes' = notes \/ notes' = [notes EXCEPT ![i] = n]
    BY <1>1 DEF RecordNotification
  <2> HIDE DEF n
  <2> QED
    BY <1>a, <2>1, <2>2, <2>3, RestNumbers, NotedNumbers
<1>2. ASSUME NEW i \in Ids, RemoveNotification(i) PROVE Numbers' /\ OnePopupEach' /\ Fresh
  <2>1. Receive /\ UNCHANGED <<run, view, todo, ringing, ongoing, shown>>
    BY <1>2 DEF RemoveNotification, uiVars, threadVars
  <2>2. reports' = reports + 1
    BY <2>1, ReportNumbers
  <2>3. notes' = notes \/ notes' = [notes EXCEPT ![i] = None]
    BY <1>2 DEF RemoveNotification
  <2> QED
    BY <1>a, <2>1, <2>2, <2>3, RestNumbers, NotedNumbers
<1>3. CASE \E t \in Texts : RecordClipboardUpdate(t)
  <2>1. Receive /\ UNCHANGED <<notes, run, view, todo, ringing, ongoing, shown>>
    BY <1>3 DEF RecordClipboardUpdate, uiVars, threadVars
  <2> QED
    BY <1>a, <2>1, ReportNumbers, RestNumbers
<1>4. CASE (\E k \in Callers : SimRings(k)) \/ SimOffHook \/ SimIdle
  <2>1. Receive /\ UNCHANGED <<notes, view, todo, ringing, ongoing, shown>>
    BY <1>4 DEF SimRings, SimOffHook, SimIdle, uiVars
  <2>2. reports' = reports + 1
    BY <2>1, ReportNumbers
  <2>3. run' = run \/ \E of, ring, acts : run' = Spawn(run, reports', of, ring, acts)
    BY <1>4 DEF SimRings, SimOffHook, SimIdle
  <2>4. reports' \in Runs => ~Used(reports')
    BY <1>0, <2>2 DEF Numbers
  <2>5. Fresh /\ \A r \in Runs : NowUsed(r) => Used(r) \/ r = reports'
    BY <1>a, <2>3, <2>4, SpawnIsFresh
  <2> QED
    BY <2>1, <2>2, <2>5, RestNumbers
<1>5. CASE Refresh
  <2>1. /\ UNCHANGED <<notes, reports, run, ringing, ongoing, shown>> /\ view' = notes
        /\ todo' = ringing \cup ongoing \cup {i \in Ids : notes[i] # None}
    BY <1>5 DEF Refresh, recordVars, threadVars
  <2>2. Fresh /\ \A r \in Runs : NowUsed(r) = Used(r)
    BY <1>a, <2>1
  <2>3. Numbers'
    BY <1>0, <2>1 DEF Numbers, Used
  <2>4. OnePopupEach'
    BY <1>0, <2>1 DEF OnePopupEach, HadItsPopup, Used
  <2> QED
    BY <2>2, <2>3, <2>4
<1>6. ASSUME NEW q \in Runs, Popup(q) PROVE Numbers' /\ OnePopupEach' /\ Fresh
  <2>1. UNCHANGED <<notes, view, todo, ringing, ongoing, shown, reports>>
    BY <1>6 DEF Popup, Open, Appear, ReadId, Choose, Leave, TimeOut, Finish,
                HandleNotificationAction, QueueCallControl, recordVars, uiVars
  <2>2. \A r \in Runs : r # q => run'[r] = run[r]
    BY <1>6 DEF Popup, Open, Appear, ReadId, Choose, Leave, TimeOut, Finish, At, Over,
                HandleNotificationAction, QueueCallControl, PopupsInv, ThreadTypes
  <2>3. Used(q) /\ (run'[q] = run[q] \/ run'[q].at # "spawned")
    <3>1. \/ \E stage \in {"open", "notified", "waiting", "late", "over"} : At(q, stage)
          \/ Over(q) \/ run' = run
          \/ run[q].at = "waiting" /\ \E a : run' = [run EXCEPT ![q].pick = a]
      BY <1>6 DEF Popup, Open, Appear, ReadId, Choose, Leave, TimeOut, Finish,
                  HandleNotificationAction, QueueCallControl
    <3>2. Used(q)
      BY <1>6 DEF Popup, Open, Appear, ReadId, Choose, Leave, TimeOut, Finish, Used,
                  HandleNotificationAction, QueueCallControl
    <3>3. run \in [Runs -> Thread]
      BY DEF PopupsInv, ThreadTypes
    <3>4. \A stage : At(q, stage) => run'[q].at = stage
      BY <3>3 DEF At, Thread
    <3>5. Over(q) => run'[q].at = "done"
      BY <3>3 DEF Over, Unused
    <3>6. (\E a : run' = [run EXCEPT ![q].pick = a]) => run'[q].at = run[q].at
      BY <3>3 DEF Thread
    <3> QED
      BY <3>1, <3>2, <3>4, <3>5, <3>6
  <2>4. Fresh
    BY <2>2, <2>3 DEF Fresh
  <2>5. \A r \in Runs : NowUsed(r) => Used(r)
    BY <2>2, <2>3 DEF NowUsed, Used
  <2> QED
    BY <1>0, <2>1, <2>4, <2>5, RestNumbers
<1>7. CASE UNCHANGED popupsVars
  <2>1. UNCHANGED <<notes, view, todo, ringing, ongoing, shown, reports, run>>
    BY <1>7 DEF popupsVars, recordVars, uiVars, threadVars
  <2> QED
    BY <1>7, <1>a, <2>1, RestNumbers
<1> QED
  BY <1>1, <1>2, <1>3, <1>4, <1>5, <1>6, <1>7, RefreshedNumbers DEF PopupsNext, Reported, Refreshed

\* The invariant is inductive.
LEMMA PopupsNextPreservesInv == PopupsInv /\ [PopupsNext]_popupsVars => PopupsInv'
<1> SUFFICES ASSUME PopupsInv, [PopupsNext]_popupsVars PROVE PopupsInv'
  OBVIOUS
<1> QED
  BY PopupsNextKeepsTypes, UiKeepsUp, LatestStays, PopupsNextKeepsThreads, PopupsNextKeepsNumbers
     DEF PopupsInv, ThreadsKnown

-----------------------------------------------------------------------------
(* What follows.                                                           *)

\* The invariant of the popups holds of every behaviour: the types, what the
\* records and the refresh have in common, and what is known of each thread.
THEOREM PopupsInvHolds == PopupsSpec => []PopupsInv
  BY PopupsInitEstablishesInv, PopupsNextPreservesInv, PTL DEF PopupsSpec

\* Every variable of the popups keeps its type.
THEOREM PopupsTypes == PopupsSpec => []PopupsTypeOK
  BY PopupsInvHolds, PopupsInvTypes, PTL

\* While its thread waits, the popup of a call that does not ring any more is on
\* the screen only for one of four causes: the close came too early; its id was
\* lost; a missed call or a message has come under the id of the call; the SIM
\* call was taken on the phone (NativeNotificationManager.close,
\* run_notification, MainWindow._refresh_notifications,
\* CallNotificationController.handle_call_metadata_log).
THEOREM StalePopupHasCauseHolds == PopupsSpec => []StalePopupHasCause
<1>1. PopupsInv => StalePopupHasCause
  <2> SUFFICES ASSUME PopupsInv, NEW r \in screen, run[r].ring, run[r].at # "done",
                      Ended(r), r \notin early \cup lost
               PROVE  Turned(r) \/ Taken(r)
    BY DEF StalePopupHasCause
  <2>1. r \in Runs
    BY DEF PopupsInv, ThreadTypes
  <2>2. run[r].at \in {"spawned", "open", "notified", "waiting", "late"}
    <3>1. run[r].at \in Stages
      BY <2>1 DEF PopupsInv, ThreadTypes, Thread
    <3> QED
      BY <2>1, <3>1 DEF Stages, PopupsInv, ChosenIsGone
  <2>3. Rings(r)
    BY <2>1, <2>2 DEF PopupsInv, MissedCloseIsEarly, WaitingCanBeClosed
  <2>4. CASE run[r].of \in Ids
    <3>1. run[r].of \in ringing /\ Settled(run[r].of)
      BY <2>3, <2>4 DEF Rings, Ended, PopupsInv, UiFollowsRecords
    <3> QED
      BY <2>4, <3>1 DEF Settled, Ended, Turned
  <2>5. CASE run[r].of \notin Ids
    BY <2>3, <2>5 DEF Rings, Ended, Taken, PopupsInv, SimTypes
  <2> QED
    BY <2>4, <2>5
<1> QED
  BY <1>1, PopupsInvHolds, PTL

\* When nothing is left to refresh, every call that rings is taken for ringing,
\* and what is taken for ringing rings, or has become a missed call or a message
\* (MainWindow._refresh_notifications).
THEOREM SettledUiFollowsCallsHolds == PopupsSpec => []SettledUiFollowsCalls
<1>1. PopupsInv => SettledUiFollowsCalls
  BY DEF PopupsInv, UiFollowsRecords, Settled, SettledUiFollowsCalls
<1> QED
  BY <1>1, PopupsInvHolds, PTL

\* A call control for an app call names a call that is there, and an action it
\* offers (DesktopRuntime.queue_call_control, _app_call_action_for).
THEOREM ControlFitsCallHolds == PopupsSpec => ControlFitsCall
<1> DEFINE Fits == asked' # asked /\ asked'.to # Sim =>
                     /\ notes[asked'.to] # None
                     /\ LET offered == notes[asked'.to].says.acts \cap CallActs
                        IN asked'.act \in offered \/ offered = {}
<1>1. PopupsInv /\ [PopupsNext]_popupsVars => [Fits]_popupsVars
  <2> SUFFICES ASSUME PopupsInv, PopupsNext, asked' # asked, asked'.to # Sim PROVE Fits
    BY DEF popupsVars
  <2> PICK r \in Runs : QueueCallControl(r)
    BY DEF PopupsNext, Reported, RecordNotification, RemoveNotification, RecordClipboardUpdate,
           SimRings, SimOffHook, SimIdle, Refreshed, Refresh, RefreshGone, RefreshRinging,
           RefreshActive, RefreshMessage, Popup, Open, Appear, ReadId, Choose, Leave, TimeOut,
           Finish, HandleNotificationAction
  <2> DEFINE app == AppCallActionFor(run[r].pick)
  <2>1. app # None /\ asked' = [to |-> latest.id, act |-> app]
    BY DEF QueueCallControl
  <2>2. latest.id # None /\ app \in latest.acts
    BY <2>1, AppActionFits
  <2> HIDE DEF app
  <2>3. asked'.to = latest.id /\ asked'.act = app
    BY <2>1
  <2> QED
    BY <2>2, <2>3 DEF PopupsInv, LatestIsKept
<1> QED
  BY <1>1, PopupsInvHolds, PTL DEF PopupsSpec, ControlFitsCall

\* Every report leads to one popup at most: the thread that has its number is
\* started once, whatever is reported and refreshed again.
THEOREM StartedOnceHolds == PopupsSpec => [][Fresh]_popupsVars
<1>1. PopupsInv /\ [PopupsNext]_popupsVars => [Fresh]_popupsVars
  BY PopupsNextKeepsNumbers
<1> QED
  BY <1>1, PopupsInvHolds, PTL DEF PopupsSpec
=============================================================================
