--------------------------- MODULE DesktopSession ---------------------------
(***************************************************************************)
(* The trusted-session life cycle of the desktop: the threads of           *)
(* pairing_server.py that serve phone connections, the registry that       *)
(* admits one session per server, and the device sets of runtime.py that   *)
(* the GUI thread changes while those threads run.                         *)
(*                                                                         *)
(* A step is what one thread does between two points where another thread  *)
(* can be observed: a lock section, a call on a socket, a file access.     *)
(* The outcome of checks on data no property looks at (Safe Wi-Fi, the     *)
(* timestamp, the signature) is left open.  Endpoints, Bluetooth presence  *)
(* and status texts that the lock sections also write are left out; the    *)
(* commands that a start of session enqueues are in OutgoingPump.          *)
(***************************************************************************)
EXTENDS Naturals

CONSTANTS
  Devices,      \* phones, by device id
  Handlers,     \* handler threads that may be alive at a time
  NoHandler,    \* "no token": a registry that nobody holds
  NoDevice,     \* the device of a connection that has not said who it is
  MaxServers,   \* bound: PairingServer objects created by start()
  UserOps       \* the operations the user performs in this instance

AllUserOps == {"disconnect", "unpair", "reconnect", "forget", "stop"}

ASSUME ConstantsAssumption ==
  /\ NoHandler \notin Handlers
  /\ NoDevice \notin Devices
  /\ MaxServers \in Nat \ {0}
  /\ UserOps \subseteq AllUserOps

VARIABLES
  pc,           \* where each handler thread is
  dev,          \* the device a handler serves
  srv,          \* the server (by number) whose thread a handler is
  link,         \* the connection: up, silent (peer gone, no FIN), shut
  registry,     \* per server: the handler holding the session token
  trust,        \* the trust store's device ids (kept on disk)
  active,       \* keys of _active_devices
  requests,     \* _disconnect_requests
  manual,       \* _manual_disconnects
  gen,          \* number of the newest server
  listening,    \* its accept loop runs
  gui,          \* where the GUI thread is inside stop() or forget_device()
  guiDev        \* the device forget_device() is about

connVars == <<pc, dev, srv, link>>
setVars  == <<trust, active, requests, manual>>
guiVars  == <<gen, listening, gui, guiDev>>
vars     == <<pc, dev, srv, link, registry, trust, active, requests, manual,
              gen, listening, gui, guiDev>>

Servers == 1..MaxServers

PCs == {"idle", "accepted", "hello", "lookup", "gate", "acquire",
        "ack", "mark", "check", "read", "close", "release"}

InSession(h) == pc[h] \in {"ack", "mark", "check", "read", "close", "release"}

\* The serving loop runs: envelopes of the phone are acted upon.
Serving(h) == pc[h] \in {"check", "read"}

TypeOK ==
  /\ pc \in [Handlers -> PCs]
  /\ dev \in [Handlers -> Devices \cup {NoDevice}]
  /\ srv \in [Handlers -> 0..MaxServers]
  /\ link \in [Handlers -> {"up", "silent", "shut"}]
  /\ registry \in [Servers -> Handlers \cup {NoHandler}]
  /\ trust \subseteq Devices
  /\ active \subseteq Devices
  /\ requests \subseteq Devices
  /\ manual \subseteq Devices
  /\ gen \in 0..MaxServers
  /\ listening \in BOOLEAN
  /\ gui \in {"idle", "stopListening", "clearActive", "removeTrust"}
  /\ guiDev \in Devices \cup {NoDevice}
  /\ listening => gen \in Servers

Init ==
  /\ pc = [h \in Handlers |-> "idle"]
  /\ dev = [h \in Handlers |-> NoDevice]
  /\ srv = [h \in Handlers |-> 0]
  /\ link = [h \in Handlers |-> "shut"]
  /\ registry = [g \in Servers |-> NoHandler]
  /\ trust \in SUBSET Devices
  /\ active = {}
  /\ requests = {}
  /\ manual = {}
  /\ gen = 0
  /\ listening = FALSE
  /\ gui = "idle"
  /\ guiDev = NoDevice

-----------------------------------------------------------------------------
(* A connection, from accept() to close().                                 *)

GoTo(h, label) ==
  /\ pc' = [pc EXCEPT ![h] = label]
  /\ UNCHANGED <<dev, srv, link>>

\* connection.close() in handle_connection; the thread ends.
EndConnection(h) ==
  /\ pc' = [pc EXCEPT ![h] = "idle"]
  /\ dev' = [dev EXCEPT ![h] = NoDevice]
  /\ srv' = [srv EXCEPT ![h] = 0]
  /\ link' = [link EXCEPT ![h] = "shut"]

\* The accept loop of the newest server starts a thread for a connection.
Accept(h) ==
  /\ listening
  /\ pc[h] = "idle"
  /\ pc' = [pc EXCEPT ![h] = "accepted"]
  /\ srv' = [srv EXCEPT ![h] = gen]
  /\ link' = [link EXCEPT ![h] = "up"]
  /\ UNCHANGED <<dev, registry, setVars, guiVars>>

\* The thread adds its socket to _active_requests; only then can
\* close_active_requests find it.
Register(h) ==
  /\ pc[h] = "accepted"
  /\ GoTo(h, "hello")
  /\ UNCHANGED <<registry, setVars, guiVars>>

\* The first envelope is a SESSION_INIT of device d.
Hello(h, d) ==
  /\ pc[h] = "hello"
  /\ link[h] = "up"
  /\ pc' = [pc EXCEPT ![h] = "lookup"]
  /\ dev' = [dev EXCEPT ![h] = d]
  /\ UNCHANGED <<srv, link, registry, setVars, guiVars>>

\* The first envelope is a PAIRING_REQUEST and the pairing succeeds: here,
\* only its effect on the trust store.
Pair(h, d) ==
  /\ pc[h] = "hello"
  /\ trust' = trust \cup {d}
  /\ EndConnection(h)
  /\ UNCHANGED <<registry, active, requests, manual, guiVars>>

\* No first envelope within the 90 s timeout, EOF, or another packet type;
\* and a pairing that fails.
Drop(h) ==
  /\ pc[h] = "hello"
  /\ EndConnection(h)
  /\ UNCHANGED <<registry, setVars, guiVars>>

\* record = self.trust_store.get(initiator.device_id)
Lookup(h) ==
  /\ pc[h] = "lookup"
  /\ \/ dev[h] \in trust /\ GoTo(h, "gate")
     \/ dev[h] \notin trust /\ EndConnection(h)
  /\ UNCHANGED <<registry, setVars, guiVars>>

\* trusted_session_allowed_provider
Gate(h) ==
  /\ pc[h] = "gate"
  /\ \/ dev[h] \notin manual /\ GoTo(h, "acquire")
     \/ dev[h] \in manual /\ EndConnection(h)
  /\ UNCHANGED <<registry, setVars, guiVars>>

\* Safe Wi-Fi, a stale timestamp, a changed key or a bad signature.
Refuse(h) ==
  /\ pc[h] = "gate"
  /\ EndConnection(h)
  /\ UNCHANGED <<registry, setVars, guiVars>>

\* Faulty variant: only a second session of the same phone is refused.
AcquireRefusesSameDeviceOnly(h) ==
  /\ pc[h] = "acquire"
  /\ LET same == \E k \in Handlers : registry[srv[h]] = k /\ dev[k] = dev[h]
     IN \/ /\ ~same
           /\ registry' = [registry EXCEPT ![srv[h]] = h]
           /\ GoTo(h, "ack")
        \/ same /\ EndConnection(h) /\ UNCHANGED registry
  /\ UNCHANGED <<setVars, guiVars>>

\* Faulty variant: a phone that comes back takes its own session over.
AcquireTakesOver(h) ==
  /\ pc[h] = "acquire"
  /\ LET other == \E k \in Handlers : registry[srv[h]] = k /\ dev[k] # dev[h]
     IN \/ /\ ~other
           /\ registry' = [registry EXCEPT ![srv[h]] = h]
           /\ GoTo(h, "ack")
        \/ other /\ EndConnection(h) /\ UNCHANGED registry
  /\ UNCHANGED <<setVars, guiVars>>

\* ActiveSessionRegistry.acquire: one holder, whatever the device.
Acquire(h) ==
  /\ pc[h] = "acquire"
  /\ \/ /\ registry[srv[h]] = NoHandler
        /\ registry' = [registry EXCEPT ![srv[h]] = h]
        /\ GoTo(h, "ack")
     \/ /\ registry[srv[h]] # NoHandler
        /\ EndConnection(h)
        /\ UNCHANGED registry
  /\ UNCHANGED <<setVars, guiVars>>

\* Writing SESSION_ACK may fail once the connection is no longer up.
SendAck(h) ==
  /\ pc[h] = "ack"
  /\ \/ GoTo(h, "mark")
     \/ link[h] # "up" /\ GoTo(h, "close")
  /\ UNCHANGED <<registry, setVars, guiVars>>

\* Faulty variant: a new session starts with a clean slate.
MarkStartedClearsRequest(h) ==
  /\ pc[h] = "mark"
  /\ active' = active \cup {dev[h]}
  /\ requests' = requests \ {dev[h]}
  /\ GoTo(h, "check")
  /\ UNCHANGED <<registry, trust, manual, guiVars>>

\* record_trusted_session_started -> _mark_device_connected; deriving the
\* keys from what the phone sent may raise after it.
MarkStarted(h) ==
  /\ pc[h] = "mark"
  /\ active' = active \cup {dev[h]}
  /\ GoTo(h, "check") \/ GoTo(h, "close")
  /\ UNCHANGED <<registry, trust, requests, manual, guiVars>>

\* Faulty variant: the pause of automatic reconnect is not looked at here.
RequestedOnly(d) == d \in requests

DisconnectRequested(d) == d \in manual \/ d \in requests

\* The top of the serving loop.
CheckDisconnect(h) ==
  /\ pc[h] = "check"
  /\ \/ DisconnectRequested(dev[h]) /\ GoTo(h, "close")
     \/ ~DisconnectRequested(dev[h]) /\ GoTo(h, "read")
  /\ UNCHANGED <<registry, setVars, guiVars>>

\* The blocking read returns an envelope, which is acted upon.
ReadEnvelope(h) ==
  /\ pc[h] = "read"
  /\ link[h] = "up"
  /\ GoTo(h, "check")
  /\ UNCHANGED <<registry, setVars, guiVars>>

\* The blocking read raises or reports the end of the stream; or acting on
\* an envelope that has come raises.
ReadFails(h) ==
  /\ pc[h] = "read"
  /\ link[h] # "silent"
  /\ GoTo(h, "close")
  /\ UNCHANGED <<registry, setVars, guiVars>>

\* Faulty variant: the list entry is left to the next start.
MarkClosedKeepsEntry(h) ==
  /\ pc[h] = "close"
  /\ requests' = requests \ {dev[h]}
  /\ GoTo(h, "release")
  /\ UNCHANGED <<registry, trust, active, manual, guiVars>>

\* finally: record_trusted_session_closed -> _mark_device_closed
MarkClosed(h) ==
  /\ pc[h] = "close"
  /\ active' = active \ {dev[h]}
  /\ requests' = requests \ {dev[h]}
  /\ GoTo(h, "release")
  /\ UNCHANGED <<registry, trust, manual, guiVars>>

\* Faulty variant: the token is never given back.
ReleaseForgotten(h) ==
  /\ pc[h] = "release"
  /\ EndConnection(h)
  /\ UNCHANGED <<registry, setVars, guiVars>>

\* finally: ActiveSessionRegistry.release, by token; then close().
Release(h) ==
  /\ pc[h] = "release"
  /\ registry' = [registry EXCEPT ![srv[h]] =
                    IF @ = h THEN NoHandler ELSE @]
  /\ EndConnection(h)
  /\ UNCHANGED <<setVars, guiVars>>

-----------------------------------------------------------------------------
(* The phone and the network (outside the desktop's control).              *)

PhoneCloses(h) ==
  /\ pc[h] # "idle" /\ link[h] = "up"
  /\ link' = [link EXCEPT ![h] = "shut"]
  /\ UNCHANGED <<pc, dev, srv, registry, setVars, guiVars>>

\* The phone leaves the Wi-Fi: nothing arrives any more, not even a FIN.
PhoneVanishes(h) ==
  /\ pc[h] # "idle" /\ link[h] = "up"
  /\ link' = [link EXCEPT ![h] = "silent"]
  /\ UNCHANGED <<pc, dev, srv, registry, setVars, guiVars>>

\* The kernel gives a silent connection up.  It does so only when the
\* desktop has sent something that is not acknowledged, so nothing makes
\* this step certain.
TcpGivesUp(h) ==
  /\ link[h] = "silent"
  /\ link' = [link EXCEPT ![h] = "shut"]
  /\ UNCHANGED <<pc, dev, srv, registry, setVars, guiVars>>

-----------------------------------------------------------------------------
(* The GUI thread: DesktopRuntime.  refresh() is stop() followed by        *)
(* start().                                                                *)

\* Faulty variant: the listener is started without a new server behind it.
StartWithoutServer ==
  /\ gui = "idle" /\ ~listening /\ gen < MaxServers
  /\ listening' = TRUE
  /\ UNCHANGED <<connVars, registry, setVars, gen, gui, guiDev>>

\* start() creates a PairingServer, and with it a registry.
Start ==
  /\ gui = "idle" /\ ~listening /\ gen < MaxServers
  /\ gen' = gen + 1
  /\ listening' = TRUE
  /\ UNCHANGED <<connVars, registry, setVars, gui, guiDev>>

\* stop(): close_active_requests shuts the sockets registered so far.  Also
\* the start() that failed to bind and calls stop().
StopCloseRequests ==
  /\ "stop" \in UserOps
  /\ gui = "idle"
  /\ link' = [h \in Handlers |->
                IF listening /\ srv[h] = gen /\ pc[h] # "accepted"
                THEN "shut" ELSE link[h]]
  /\ gui' = IF listening THEN "stopListening" ELSE "clearActive"
  /\ UNCHANGED <<pc, dev, srv, registry, setVars, gen, listening, guiDev>>

\* stop(): the accept loop ends; its threads are daemons, nobody joins them.
StopListening ==
  /\ gui = "stopListening"
  /\ listening' = FALSE
  /\ gui' = "clearActive"
  /\ UNCHANGED <<connVars, registry, setVars, gen, guiDev>>

\* stop(): self._active_devices.clear()
StopClearActive ==
  /\ gui = "clearActive"
  /\ active' = {}
  /\ gui' = "idle"
  /\ UNCHANGED <<connVars, registry, trust, requests, manual, gen, listening,
                 guiDev>>

\* Faulty variant: the list is updated and the session is not told.
DisconnectOnlyHides(d) ==
  /\ "disconnect" \in UserOps
  /\ gui = "idle"
  /\ active' = active \ {d}
  /\ UNCHANGED <<connVars, registry, trust, requests, manual, guiVars>>

DisconnectDevice(d) ==
  /\ "disconnect" \in UserOps
  /\ gui = "idle"
  /\ requests' = requests \cup {d}
  /\ active' = active \ {d}
  /\ UNCHANGED <<connVars, registry, trust, manual, guiVars>>

UnpairDevice(d) ==
  /\ "unpair" \in UserOps
  /\ gui = "idle"
  /\ manual' = manual \cup {d}
  /\ requests' = requests \cup {d}
  /\ active' = active \ {d}
  /\ UNCHANGED <<connVars, registry, trust, guiVars>>

AllowReconnect(d) ==
  /\ "reconnect" \in UserOps
  /\ gui = "idle"
  /\ manual' = manual \ {d}
  /\ requests' = requests \ {d}
  /\ UNCHANGED <<connVars, registry, trust, active, guiVars>>

\* forget_device, the lock section.
ForgetDevice(d) ==
  /\ "forget" \in UserOps
  /\ gui = "idle"
  /\ manual' = manual \ {d}
  /\ requests' = requests \ {d}
  /\ active' = active \ {d}
  /\ gui' = "removeTrust"
  /\ guiDev' = d
  /\ UNCHANGED <<connVars, registry, trust, gen, listening>>

\* forget_device, after the lock: self.trust_store.remove(device_id)
ForgetTrust ==
  /\ gui = "removeTrust"
  /\ trust' = trust \ {guiDev}
  /\ gui' = "idle"
  /\ guiDev' = NoDevice
  /\ UNCHANGED <<connVars, registry, active, requests, manual, gen, listening>>

-----------------------------------------------------------------------------

\* What a handler thread does by itself: it never waits for ever in these.
HandlerStep(h) ==
  \/ Register(h)
  \/ (\E d \in Devices : Hello(h, d)) \/ Drop(h)
  \/ Lookup(h) \/ Gate(h) \/ Acquire(h)
  \/ SendAck(h) \/ MarkStarted(h)
  \/ CheckDisconnect(h) \/ ReadEnvelope(h) \/ ReadFails(h)
  \/ MarkClosed(h) \/ Release(h)

GuiStep == StopListening \/ StopClearActive \/ ForgetTrust

Environment(h) ==
  \/ Accept(h) \/ Refuse(h)
  \/ \E d \in Devices : Pair(h, d)
  \/ PhoneCloses(h) \/ PhoneVanishes(h) \/ TcpGivesUp(h)

UserStep ==
  \/ Start
  \/ StopCloseRequests
  \/ \E d \in Devices : \/ DisconnectDevice(d)
                        \/ UnpairDevice(d)
                        \/ AllowReconnect(d)
                        \/ ForgetDevice(d)

Next ==
  \/ \E h \in Handlers : HandlerStep(h) \/ Environment(h)
  \/ GuiStep
  \/ UserStep

Spec == Init /\ [][Next]_vars

\* Threads that can run do run.  A phone that is up sends a heartbeat every
\* 15 s, which is what makes ReadEnvelope fair; the user and the network are
\* under no obligation.
FairSpec ==
  /\ Spec
  /\ \A h \in Handlers : WF_vars(HandlerStep(h))
  /\ WF_vars(GuiStep)

-----------------------------------------------------------------------------
(* Safety.                                                                 *)

\* The token of a server's registry is held by exactly the handler that is
\* between acquire and release: the fact the exclusion below rests on.
RegistryNamesHolder ==
  \A h \in Handlers :
    /\ InSession(h) <=> \E g \in Servers : registry[g] = h
    /\ InSession(h) => srv[h] \in Servers /\ registry[srv[h]] = h

\* One server never serves two phones, nor one phone twice: acquire refuses
\* while another handler is anywhere between its acquire and its release,
\* the clean-up of its session included.
OneSessionPerServer ==
  \A h, k \in Handlers :
    InSession(h) /\ InSession(k) /\ srv[h] = srv[k] => h = k

\* The device list never shows "connected" for a phone no thread serves, in
\* whatever order sessions end, the service restarts and the user clicks:
\* an entry appears only with a session and is gone before its token is.
ActiveHasSession ==
  \A d \in active :
    \E h \in Handlers : dev[h] = d /\ pc[h] \in {"check", "read", "close"}

\* A reachable session of the running server that nobody asked to close is
\* shown as connected, whatever the closing of earlier sessions erased.
LiveSessionListed ==
  \A h \in Handlers :
    /\ Serving(h) /\ link[h] = "up" /\ srv[h] = gen /\ listening
    /\ ~DisconnectRequested(dev[h])
    => dev[h] \in active

(* Action properties.                                                      *)

\* The clean-up of one session never erases the list entry of another live
\* one: record_closed comes before release, so no successor can have been
\* listed by then.  (Within one server; a restart makes a second registry.)
CloseErasesOwnEntry ==
  [][\A h \in Handlers :
       pc[h] = "close" /\ pc'[h] = "release" =>
         \A k \in Handlers \ {h} :
           srv[k] = srv[h] => ~(Serving(k) /\ dev[k] = dev[h])]_vars

\* A pending disconnect request outlives everything but the user's own
\* clicks and the end of a session of that phone, and it is not spent while
\* a session of that phone goes on serving.
RequestSpentBySessionEnd ==
  [][\A d \in requests \ requests' :
       \/ pc' = pc                          \* a click
       \/ /\ \E h \in Handlers : dev[h] = d /\ pc[h] = "close"
          /\ \A k \in Handlers : dev[k] = d => ~Serving(k)]_vars

(* Liveness.                                                               *)

\* Unpair takes effect on a live session: while the phone stays reachable,
\* its session ends unless the user takes the click back.
UnpairEndsSession ==
  \A h \in Handlers, d \in Devices :
    (Serving(h) /\ dev[h] = d /\ d \in manual)
      ~> (~Serving(h) \/ d \notin manual \/ link[h] = "silent")

\* A connection the kernel reports as closed gives its server back.
ClosedLinkFreesServer ==
  \A h \in Handlers, g \in Servers :
    (registry[g] = h /\ link[h] = "shut") ~> (registry[g] # h)

\* Forget: "removes trust and device settings so the next contact is a new
\* pairing"; a session of a forgotten phone comes to an end.
ForgetEndsSession ==
  \A h \in Handlers, d \in Devices :
    (Serving(h) /\ dev[h] = d /\ d \notin trust)
      ~> (~Serving(h) \/ d \in trust \/ link[h] = "silent")

\* "Heartbeats provide liveness": a phone that left without a FIN does not
\* hold its server for ever, so it can reconnect when it is back.
VanishedPhoneFreesServer ==
  \A h \in Handlers, g \in Servers :
    (registry[g] = h /\ link[h] = "silent")
      ~> (registry[g] # h \/ link[h] # "silent")

=============================================================================
