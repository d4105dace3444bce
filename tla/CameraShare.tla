---------------------------- MODULE CameraShare ----------------------------
(***************************************************************************)
(* The phone as a camera of the PC: the popup CameraAliveDialog, the stream*)
(* methods of DesktopRuntime, the CameraFrameServer of the USB route, the  *)
(* desktop's outgoing thread, and CameraStreamController.kt on the phone.  *)
(*                                                                         *)
(* Desktop threads: the user interface, which opens popups one after the   *)
(* other; the thread of the session, which handles the phone's envelopes.  *)
(* Each section under the runtime's lock is a step.  A pass of the         *)
(* outgoing thread, whose steps are in OutgoingPump, is one step here.     *)
(* Left out: pictures, sizes, status texts, several phones; the virtual    *)
(* camera that takes the frames is module VirtualCamera.                   *)
(***************************************************************************)
EXTENDS Naturals, Sequences, FiniteSets

CONSTANTS
  Popups,      \* camera popups, numbered in the order they are opened
  MaxStreams,  \* bound: streams that are started, and so tokens
  MaxAcks,     \* bound: heartbeats waiting to be sent
  MaxSent,     \* bound: commands on their way when a pass starts
  MaxReports,  \* bound: envelopes on their way to the desktop
  MaxDrops,    \* bound: sessions that are lost
  None         \* no stream, no popup

ASSUME ConstantsAssumption ==
  /\ Popups \subseteq Nat \ {0} /\ IsFiniteSet(Popups)
  /\ MaxStreams \in Nat /\ MaxAcks \in Nat /\ MaxSent \in Nat
  /\ MaxReports \in Nat \ {0}   /\ MaxDrops \in Nat
  /\ None \notin 1..MaxStreams /\ None \notin Popups

Tokens == 1..MaxStreams

VARIABLES
  popup,      \* per popup: not yet opened, open, or gone from the screen
              \* by the Escape key
  timer,      \* per popup: a single shot of _start_stream is to come
  held,       \* per popup: the token of its _handle, for which it sends acks
  owner,      \* per token: the popup that started it
  gui,        \* what the user interface's thread is in the middle of
  handle,     \* _camera_handle, by its token
  callback,   \* _camera_frame_callback, by the token it was set with
  receiver,   \* _camera_receiver, by its token
  usb,        \* the tokens of the streams with a CameraFrameServer
  serving,    \* those of them whose server still accepts or reads
  clearing,   \* what the session thread forgets next: a stream, its server too
  frame,      \* the frame that the session thread has taken for a popup
  queued,     \* per family, the queue of commands for the phone
  link,       \* a session with the phone is on
  toPhone, toDesktop,  \* the envelopes on their way
  drops,      \* how many sessions have been lost
  pending,    \* pendingStart: the request the phone's user is asked about
  shown,      \* the request that the phone's screen shows
  approving,  \* the request taken by approvePending and not yet started
  active,     \* activeSession, by its token
  stream      \* per token, the CameraSession on the phone; acked means that
              \* it has been acknowledged in this period of the watchdog

guiVars   == <<popup, timer, held, owner, gui>>
runVars   == <<handle, callback, receiver, usb, serving>>
threadVars == <<clearing, frame>>
netVars   == <<link, toPhone, toDesktop, drops>>
phoneVars == <<pending, shown, approving, active, stream>>
vars == <<guiVars, runVars, threadVars, queued, netVars, phoneVars>>

Families == {"start", "ack", "stop"}
Command  == [kind : Families, token : Tokens]
Report   == [kind : {"refused", "frame"}, token : Tokens]
Idle     == [at |-> "idle", popup |-> None, token |-> None]

\* What the user interface's thread does next: the two halves of
\* stop_camera_stream, for a new stream or for the popup, and of the start.
GuiSteps == {"idle", "replaced", "publish", "stopped"}

TypeOK ==
  /\ popup \in [Popups -> {"new", "open", "gone"}]
  /\ timer \in [Popups -> BOOLEAN]
  /\ held \in [Popups -> Tokens \cup {None}]
  /\ owner \in [Tokens -> Popups \cup {None}]
  /\ gui \in [at : GuiSteps, popup : Popups \cup {None},
              token : Tokens \cup {None}]
  /\ {handle, callback, receiver} \subseteq Tokens \cup {None}
  /\ serving \subseteq usb /\ usb \subseteq Tokens
  /\ clearing \in {"nothing", "stream", "both"}
  /\ frame \in [to : Popups, token : Tokens] \cup {None}
  /\ queued \in [Families -> Seq(Tokens)]
  /\ link \in BOOLEAN /\ drops \in 0..MaxDrops
  /\ toPhone \in Seq(Command) /\ toDesktop \in Seq(Report)
  /\ {pending, shown, approving, active} \subseteq Tokens \cup {None}
  /\ stream \in [Tokens -> {"none", "opening", "running", "acked",
                           "stopped"}]

Init ==
  /\ popup = [p \in Popups |-> "new"]
  /\ timer = [p \in Popups |-> FALSE]
  /\ held = [p \in Popups |-> None]
  /\ owner = [t \in Tokens |-> None]
  /\ gui = Idle
  /\ handle = None /\ callback = None /\ receiver = None
  /\ usb = {} /\ serving = {}
  /\ clearing = "nothing" /\ frame = None
  /\ queued = [f \in Families |-> <<>>]
  /\ link = TRUE /\ toPhone = <<>> /\ toDesktop = <<>> /\ drops = 0
  /\ pending = None /\ shown = None /\ approving = None /\ active = None
  /\ stream = [t \in Tokens |-> "none"]

-----------------------------------------------------------------------------
(* The popup, on the thread of the user interface. *)

Free == gui.at = "idle"

Put(family, token) == [queued EXCEPT ![family] = Append(@, token)]

\* CameraFrameServer: it listens for one connection with its token, and hands
\* over frames until it is stopped.
StartServer(t) == serving' = serving \cup {t} /\ usb' = usb \cup {t}
StopServer(t) == serving' = serving \ {t}

\* The first lock section of stop_camera_stream and the stop request.  The
\* outdated receiver and the rest wait for the second half.
ForgetStream(p, next) ==
  /\ handle' = None /\ receiver' = None
  /\ queued' = IF handle = None THEN queued ELSE Put("stop", handle)
  /\ StopServer(receiver)
  /\ gui' = [at |-> next, popup |-> p, token |-> None]
  /\ UNCHANGED <<callback, usb>>

\* The popup appears, alone: exec() is modal.  Its constructor posts
\* _start_stream.
OpenPopup(p) ==
  /\ Free /\ popup[p] = "new"
  /\ \A q \in Popups : q < p => popup[q] = "gone"
  /\ popup' = [popup EXCEPT ![p] = "open"]
  /\ timer' = [timer EXCEPT ![p] = TRUE]
  /\ UNCHANGED <<held, owner, gui, runVars, threadVars, queued, netVars,
                 phoneVars>>

\* The single shot of _start_stream comes, whether or not the popup is still
\* open.  The virtual camera may fail to start; without a phone the runtime
\* refuses; else it first stops the stream there is.
StartStream(p) ==
  /\ Free /\ timer[p]
  /\ timer' = [timer EXCEPT ![p] = FALSE]
  /\ \/ /\ ~link
        /\ held' = [held EXCEPT ![p] = None]
        /\ UNCHANGED <<gui, runVars, queued>>
     \/ /\ link /\ \E t \in Tokens : owner[t] = None
        /\ ForgetStream(p, "replaced")
        /\ UNCHANGED held
     \/ UNCHANGED <<gui, held, runVars, queued>>
  /\ UNCHANGED <<popup, owner, threadVars, netVars, phoneVars>>

\* The last lock section of stop_camera_stream: a stream that has come since
\* keeps its callback.
StopRest ==
  callback' = IF handle = None THEN None ELSE callback

\* The stop before a start is done, the new stream gets its token.  The USB
\* route starts a CameraFrameServer and maps its port with adb; when that
\* fails the server is stopped, and the stream goes over the session if there
\* still is one.
PrepareRoute ==
  /\ gui.at = "replaced"
  /\ StopRest
  /\ \E t \in Tokens :
       /\ owner[t] = None /\ \A s \in 1..(t - 1) : owner[s] # None
       /\ owner' = [owner EXCEPT ![t] = gui.popup]
       /\ \/ /\ \/ StartServer(t)
                \/ UNCHANGED <<serving, usb>>
             /\ gui' = [gui EXCEPT !.at = "publish", !.token = t]
             /\ UNCHANGED held
          \/ /\ ~link
             /\ gui' = Idle
             /\ held' = [held EXCEPT ![gui.popup] = None]
             /\ UNCHANGED <<serving, usb>>
  /\ UNCHANGED <<popup, timer, handle, receiver, threadVars, queued, netVars,
                 phoneVars>>

\* The lock section that installs the stream, the start request, and the
\* popup's handle, with which its ack timer starts.
PublishStream ==
  /\ gui.at = "publish"
  /\ handle' = gui.token /\ callback' = gui.token
  /\ receiver' = IF gui.token \in usb THEN gui.token ELSE None
  /\ queued' = Put("start", gui.token)
  /\ held' = [held EXCEPT ![gui.popup] = gui.token]
  /\ gui' = Idle
  /\ UNCHANGED <<popup, timer, owner, usb, serving, threadVars, netVars,
                 phoneVars>>

\* The switch front/back: the stream is stopped and started again 350 ms
\* later.
SwitchFacing(p) ==
  /\ Free /\ popup[p] = "open" /\ held[p] # None
  /\ \E t \in Tokens : owner[t] = None
  /\ timer' = [timer EXCEPT ![p] = TRUE]
  /\ ForgetStream(p, "stopped")
  /\ UNCHANGED <<popup, held, owner, threadVars, netVars, phoneVars>>

\* Escape is QDialog.reject, which hides the popup without a closeEvent: its
\* stream, its handle and its timers stay.
EscapePopup(p) ==
  /\ Free /\ popup[p] = "open"
  /\ popup' = [popup EXCEPT ![p] = "gone"]
  /\ UNCHANGED <<timer, held, owner, gui, runVars, threadVars, queued, netVars,
                 phoneVars>>

\* closeEvent: the stream is stopped, if this popup has one.
ClosePopup(p) ==
  /\ Free /\ popup[p] = "open"
  /\ popup' = [popup EXCEPT ![p] = "gone"]
  /\ IF held[p] = None THEN UNCHANGED <<gui, runVars, queued>>
     ELSE ForgetStream(p, "stopped")
  /\ UNCHANGED <<timer, held, owner, threadVars, netVars, phoneVars>>

\* The rest of _stop_local_stream.
StopDone ==
  /\ gui.at = "stopped"
  /\ StopRest
  /\ held' = [held EXCEPT ![gui.popup] = None]
  /\ gui' = Idle
  /\ UNCHANGED <<popup, timer, owner, handle, receiver, usb, serving,
                 threadVars, queued, netVars, phoneVars>>

\* The ack timer of a popup with a handle, every two seconds.
SendAck(p) ==
  /\ Free /\ held[p] # None
  /\ Len(queued["ack"]) < MaxAcks
  /\ queued' = Put("ack", held[p])
  /\ UNCHANGED <<guiVars, runVars, threadVars, netVars, phoneVars>>

-----------------------------------------------------------------------------
(* The threads of the session on the desktop. *)

\* A pass of the outgoing thread takes one command of each family, a start
\* before a stop.
Taken ==
  LET First(f) == IF queued[f] = <<>> THEN <<>>
                  ELSE <<[kind |-> f, token |-> Head(queued[f])]>>
  IN  First("start") \o First("ack") \o First("stop")

PumpPass ==
  /\ link /\ Taken # <<>>
  /\ Len(toPhone) <= MaxSent
  /\ toPhone' = toPhone \o Taken
  /\ queued' = [f \in Families |->
                  IF queued[f] = <<>> THEN <<>> ELSE Tail(queued[f])]
  /\ UNCHANGED <<guiVars, runVars, threadVars, link, toDesktop, drops,
                 phoneVars>>

\* _record_camera_start_result.  Only a refusal of the stream that is on does
\* something: it stops the receiver, and forgets the stream in a later lock
\* section.
HandleResult ==
  /\ link /\ clearing = "nothing" /\ frame = None
  /\ toDesktop # <<>> /\ Head(toDesktop).kind = "refused"
  /\ toDesktop' = Tail(toDesktop)
  /\ IF Head(toDesktop).token = handle
     THEN /\ clearing' = IF receiver = None THEN "stream" ELSE "both"
          /\ StopServer(receiver)
     ELSE UNCHANGED <<clearing, serving>>
  /\ UNCHANGED <<guiVars, handle, callback, receiver, usb, frame, queued,
                 link, toPhone, drops, phoneVars>>

ForgetRefused ==
  /\ clearing # "nothing"
  /\ handle' = None /\ callback' = None
  /\ receiver' = IF clearing = "both" THEN None ELSE receiver
  /\ clearing' = "nothing"
  /\ UNCHANGED <<guiVars, usb, serving, frame, queued, netVars, phoneVars>>

\* Faulty variant: the token is not compared.
TakeAnyFrame ==
  /\ link /\ clearing = "nothing" /\ frame = None
  /\ toDesktop # <<>> /\ Head(toDesktop).kind = "frame"
  /\ toDesktop' = Tail(toDesktop)
  /\ frame' = IF handle = None \/ callback = None THEN None
              ELSE [to |-> owner[callback], token |-> Head(toDesktop).token]
  /\ UNCHANGED <<guiVars, runVars, clearing, queued, link, toPhone, drops,
                 phoneVars>>

\* _record_camera_frame compares the token under the lock and calls the popup
\* after it.
TakeFrame ==
  /\ link /\ clearing = "nothing" /\ frame = None
  /\ toDesktop # <<>> /\ Head(toDesktop).kind = "frame"
  /\ toDesktop' = Tail(toDesktop)
  /\ frame' = IF handle = None \/ callback = None \/ Head(toDesktop).token # handle
              THEN None
              ELSE [to |-> owner[callback], token |-> Head(toDesktop).token]
  /\ UNCHANGED <<guiVars, runVars, clearing, queued, link, toPhone, drops,
                 phoneVars>>

\* The popup's _handle_frame, on the thread of the session.
HandFrame ==
  /\ frame # None
  /\ frame' = None
  /\ UNCHANGED <<guiVars, runVars, clearing, queued, netVars, phoneVars>>

-----------------------------------------------------------------------------
(* The connection. *)

\* The session is lost with what is on its way to the phone; what the phone
\* has put into its own queues may wait for the next session.
LinkDrops ==
  /\ link /\ drops < MaxDrops
  /\ link' = FALSE /\ drops' = drops + 1
  /\ toPhone' = <<>>
  /\ toDesktop' \in {<<>>, toDesktop}
  /\ UNCHANGED <<guiVars, runVars, threadVars, queued, phoneVars>>

LinkReturns ==
  /\ ~link
  /\ link' = TRUE
  /\ UNCHANGED <<guiVars, runVars, threadVars, queued, toPhone, toDesktop,
                 drops, phoneVars>>

-----------------------------------------------------------------------------
(* The phone. *)

Live(t) == t # None /\ stream[t] \in {"opening", "running", "acked"}

StopStream(t) ==
  IF Live(t) THEN [stream EXCEPT ![t] = "stopped"] ELSE stream

Received(kind) == toPhone # <<>> /\ Head(toPhone).kind = kind

Reply(kind, t) ==
  /\ Len(toDesktop) < MaxReports
  /\ toDesktop' = Append(toDesktop, [kind |-> kind, token |-> t])

\* requestUserApproval refuses at once (no permission, no camera), or keeps
\* the request, in place of an earlier one, and shows it.
PhoneGetsStart ==
  /\ Received("start")
  /\ toPhone' = Tail(toPhone)
  /\ LET t == Head(toPhone).token IN
     \/ Reply("refused", t) /\ UNCHANGED <<pending, shown>>
     \/ pending' = t /\ shown' = t /\ UNCHANGED toDesktop
  /\ UNCHANGED <<guiVars, runVars, threadVars, queued, link, drops, approving,
                 active, stream>>

\* An acknowledgement counts for the stream whose token it carries.
PhoneGetsAck ==
  /\ Received("ack")
  /\ toPhone' = Tail(toPhone)
  /\ stream' = IF Head(toPhone).token = active /\ stream[active] = "running"
               THEN [stream EXCEPT ![active] = "acked"] ELSE stream
  /\ UNCHANGED <<guiVars, runVars, threadVars, queued, link, toDesktop, drops,
                 pending, shown, approving, active>>

\* Faulty variant: whatever stream there is is stopped.
PhoneStopsAny ==
  /\ Received("stop")
  /\ toPhone' = Tail(toPhone)
  /\ IF pending = Head(toPhone).token
     THEN /\ pending' = None /\ shown' = None
          /\ UNCHANGED <<active, stream>>
     ELSE /\ UNCHANGED pending
          /\ active' = None /\ stream' = StopStream(active)
          /\ shown' = None
  /\ UNCHANGED <<guiVars, runVars, threadVars, queued, link, toDesktop, drops,
                 approving>>

\* stop: it cancels the request with that token, or ends the stream with that
\* token, after which the screen shows neither.
PhoneGetsStop ==
  /\ Received("stop")
  /\ toPhone' = Tail(toPhone)
  /\ LET t == Head(toPhone).token IN
     IF pending = t
     THEN /\ pending' = None /\ shown' = None
          /\ UNCHANGED <<active, stream>>
     ELSE /\ UNCHANGED pending
          /\ IF active = t
             THEN /\ active' = None /\ stream' = StopStream(t)
                  /\ shown' = None
             ELSE UNCHANGED <<active, stream, shown>>
  /\ UNCHANGED <<guiVars, runVars, threadVars, queued, link, toDesktop, drops,
                 approving>>

\* The user's answer.  An approved request is taken out under the lock and
\* started after it.
UserApproves ==
  /\ shown # None /\ pending # None /\ approving = None
  /\ approving' = pending /\ pending' = None
  /\ UNCHANGED <<guiVars, runVars, threadVars, queued, netVars, shown, active,
                 stream>>

UserRejects ==
  /\ shown # None /\ pending # None
  /\ pending' = None /\ shown' = None
  /\ Reply("refused", pending)
  /\ UNCHANGED <<guiVars, runVars, threadVars, queued, link, toPhone, drops,
                 approving, active, stream>>

\* CameraStreamController.start: the new session takes the place of the old.
StartApproved ==
  /\ approving # None
  /\ approving' = None
  /\ \/ /\ Reply("refused", approving)
        /\ UNCHANGED <<shown, active, stream>>
     \/ /\ stream' = [StopStream(active) EXCEPT ![approving] = "opening"]
        /\ active' = approving /\ shown' = None
        /\ UNCHANGED toDesktop
  /\ UNCHANGED <<guiVars, runVars, threadVars, queued, link, toPhone, drops,
                 pending>>

\* The session connects its socket, opens the camera and starts its watchdog,
\* or fails and stops.
CameraOpens(t) ==
  /\ stream[t] = "opening"
  /\ stream' \in {[stream EXCEPT ![t] = "running"], StopStream(t)}
  /\ UNCHANGED <<guiVars, runVars, threadVars, queued, netVars, pending, shown,
                 approving, active>>

\* Faulty variant: an acknowledgement counts for good.
TrustingWatchdog(t) ==
  /\ stream[t] \in {"running", "acked"}
  /\ stream' = [stream EXCEPT ![t] = IF @ = "acked" THEN @ ELSE "stopped"]
  /\ UNCHANGED <<guiVars, runVars, threadVars, queued, netVars, pending, shown,
                 approving, active>>

\* startWatchdog: a period of ack_timeout_ms ends, the first one with the start.
Watchdog(t) ==
  /\ stream[t] \in {"running", "acked"}
  /\ stream' = [stream EXCEPT ![t] = IF @ = "acked" THEN "running" ELSE "stopped"]
  /\ UNCHANGED <<guiVars, runVars, threadVars, queued, netVars, pending, shown,
                 approving, active>>

\* processFrame over the session.  Over USB the server hands the frames to the
\* popup that it was started for.
SendFrame(t) ==
  /\ stream[t] \in {"running", "acked"} /\ t \notin usb /\ link
  /\ Reply("frame", t)
  /\ UNCHANGED <<guiVars, runVars, threadVars, queued, link, toPhone, drops,
                 phoneVars>>

\* stopAny, by the phone's user or with the foreground service.
StopAny ==
  /\ active # None \/ pending # None
  /\ pending' = None /\ shown' = None /\ active' = None
  /\ stream' = StopStream(active)
  /\ UNCHANGED <<guiVars, runVars, threadVars, queued, netVars, approving>>

-----------------------------------------------------------------------------

Gui ==
  \/ \E p \in Popups : \/ OpenPopup(p) \/ StartStream(p) \/ SwitchFacing(p)
                       \/ ClosePopup(p) \/ EscapePopup(p) \/ SendAck(p)
  \/ PrepareRoute \/ PublishStream \/ StopDone

SessionThreads ==
  \/ PumpPass \/ HandleResult \/ ForgetRefused \/ TakeFrame \/ HandFrame

Phone ==
  \/ PhoneGetsStart \/ PhoneGetsAck \/ PhoneGetsStop
  \/ UserApproves \/ UserRejects \/ StartApproved \/ StopAny
  \/ \E t \in Tokens : CameraOpens(t) \/ Watchdog(t) \/ SendFrame(t)

Next == Gui \/ SessionThreads \/ LinkDrops \/ LinkReturns \/ Phone

\* Fair are the phone's opening, which has time-outs, and its watchdog, a
\* coroutine with a delay; the users, the network, the popup and the outgoing
\* thread owe nothing.
Fairness ==
  \A t \in Tokens : WF_vars(CameraOpens(t)) /\ WF_vars(Watchdog(t))

Spec == Init /\ [][Next]_vars /\ Fairness

-----------------------------------------------------------------------------

\* A frame goes to the popup whose stream it belongs to, although the token
\* is compared before, and the callback called after, streams are replaced.
FrameReachesRequester == frame # None => owner[frame.token] = frame.to

\* A pass sends a start before a stop that was queued earlier: the stop of
\* the old stream must not end the new one, nor the request for it.
OldStopSparesNewStream ==
  [][\A t \in Tokens :
       Received("stop") /\ toPhone' = Tail(toPhone) /\ Head(toPhone).token # t
         => (Live(t) => stream'[t] = stream[t]) /\ (pending = t => pending' = t)
    ]_vars

\* A stream that no popup holds any more ends on the phone, with or without
\* the stop request: that may be lost with the session, be sent before the
\* user approves the start, or never be sent, after a late refusal of an
\* earlier stream has made the runtime forget this one.  (No token is used
\* twice, so a stream that nobody holds is never held again: if it went on for
\* ever, there would be no such moment any more.)
RevokedStreamEnds ==
  []<>(\A t \in Tokens : Live(t) => \E p \in Popups : held[p] = t)

\* What the popup tells its user (settings.camera.alive): closing it stops the
\* phone's camera.  It does not when it is closed within 350 ms of a switch
\* front/back: the stream then starts in the closed popup.  Nor when it is left
\* by Escape.
ClosedPopupStopsCamera ==
  \A t \in Tokens :
    (Live(t) /\ popup[owner[t]] = "gone") ~> ~Live(t)

=============================================================================
