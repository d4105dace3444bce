-------------------------- MODULE CameraShareProofs --------------------------
(***************************************************************************)
(* Type correctness of CameraShare, and its two promises about streams that*)
(* follow each other: a frame reaches the popup whose stream it is from,   *)
(* and the stop of an old stream leaves the new one alone.  For any number *)
(* of popups and streams, and with every message of the old ones late.     *)
(***************************************************************************)
EXTENDS CameraShare, TLAPS

\* Between the halves of a stop or start the thread of the user interface
\* knows for which popup it works, and for which stream of that popup's.
GuiKnows ==
  /\ gui.at # "idle" => gui.popup \in Popups
  /\ gui.at = "publish" => gui.token \in Tokens /\ owner[gui.token] = gui.popup

\* The stream that is on has an owner, and the callback is its own: an older
\* callback may outlive its stream only while there is none.
HandleHasCallback ==
  handle # None => callback = handle /\ owner[handle] \in Popups

\* The inductive invariant.  FrameReachesRequester alone is not: who is called
\* for a frame depends on the callback that is set when its token is compared.
IInv ==
  /\ TypeOK
  /\ GuiKnows
  /\ HandleHasCallback
  /\ FrameReachesRequester

-----------------------------------------------------------------------------

\* There is no stream and no popup when the program starts.
LEMMA InitEstablishesIInv == Init => IInv
<1> SUFFICES ASSUME Init PROVE IInv
  OBVIOUS
<1> USE ConstantsAssumption DEF Init
<1>1. TypeOK
  <2>1. /\ queued \in [Families -> Seq(Tokens)]
        /\ toPhone \in Seq(Command) /\ toDesktop \in Seq(Report)
    OBVIOUS
  <2>2. gui \in [at : GuiSteps, popup : Popups \cup {None}, token : Tokens \cup {None}]
    BY DEF Idle, GuiSteps
  <2>3. /\ popup \in [Popups -> {"new", "open", "gone"}]
        /\ timer \in [Popups -> BOOLEAN] /\ held \in [Popups -> Tokens \cup {None}]
        /\ owner \in [Tokens -> Popups \cup {None}]
        /\ stream \in [Tokens -> {"none", "opening", "running", "acked", "stopped"}]
        /\ drops \in 0..MaxDrops
    OBVIOUS
  <2> QED
    BY <2>1, <2>2, <2>3 DEF TypeOK
<1>2. GuiKnows /\ HandleHasCallback /\ FrameReachesRequester
  BY DEF GuiKnows, HandleHasCallback, FrameReachesRequester, Idle
<1> QED
  BY <1>1, <1>2 DEF IInv

\* A command more in the queue of its family.
LEMMA PutIsTyped ==
  ASSUME TypeOK, NEW f \in Families, NEW t \in Tokens
  PROVE  Put(f, t) \in [Families -> Seq(Tokens)]
BY DEF Put, TypeOK

\* The first half of stop_camera_stream forgets the stream and leaves the rest
\* to the popup that it works for.
LEMMA ForgetPreservesIInv ==
  ASSUME IInv, NEW p \in Popups, NEW next \in {"replaced", "stopped"},
         ForgetStream(p, next),
         popup' \in [Popups -> {"new", "open", "gone"}],
         timer' \in [Popups -> BOOLEAN],
         UNCHANGED <<held, owner, threadVars, netVars, phoneVars>>
  PROVE  IInv'
<1> USE DEF IInv, ForgetStream, StopServer, threadVars, netVars, phoneVars
<1>1. queued' \in [Families -> Seq(Tokens)]
  BY PutIsTyped DEF TypeOK, Families
<1>2. gui' \in [at : GuiSteps, popup : Popups \cup {None}, token : Tokens \cup {None}]
  BY DEF GuiSteps
<1>3. TypeOK'
  BY <1>1, <1>2 DEF TypeOK
<1>4. GuiKnows'
  BY DEF GuiKnows
<1>5. HandleHasCallback' /\ FrameReachesRequester'
  BY DEF HandleHasCallback, FrameReachesRequester
<1> QED
  BY <1>3, <1>4, <1>5

\* Every step of the user interface keeps the invariant.
LEMMA GuiPreservesIInv == ASSUME IInv, Gui PROVE IInv'
<1> USE ConstantsAssumption DEF IInv, runVars, threadVars, netVars, phoneVars
<1>1. ASSUME NEW p \in Popups, OpenPopup(p) PROVE IInv'
  <2>1. TypeOK'
    BY <1>1 DEF OpenPopup, TypeOK
  <2>2. GuiKnows' /\ HandleHasCallback' /\ FrameReachesRequester'
    BY <1>1 DEF OpenPopup, GuiKnows, HandleHasCallback, FrameReachesRequester
  <2> QED
    BY <2>1, <2>2
<1>2. ASSUME NEW p \in Popups, StartStream(p) PROVE IInv'
  <2> USE <1>2 DEF StartStream
  <2>1. timer' \in [Popups -> BOOLEAN]
    BY DEF TypeOK
  <2>2. CASE ForgetStream(p, "replaced") /\ UNCHANGED held
    BY <2>1, <2>2, ForgetPreservesIInv DEF TypeOK
  <2>3. CASE held' \in [Popups -> Tokens \cup {None}] /\ UNCHANGED <<gui, runVars, queued>>
    <3>1. TypeOK'
      BY <2>1, <2>3 DEF TypeOK
    <3>2. GuiKnows' /\ HandleHasCallback' /\ FrameReachesRequester'
      BY <2>3 DEF GuiKnows, HandleHasCallback, FrameReachesRequester
    <3> QED
      BY <3>1, <3>2
  <2>4. [held EXCEPT ![p] = None] \in [Popups -> Tokens \cup {None}]
    BY DEF TypeOK
  <2> QED
    BY <2>2, <2>3, <2>4 DEF TypeOK
<1>3. ASSUME NEW p \in Popups, SwitchFacing(p) PROVE IInv'
  BY <1>3, ForgetPreservesIInv DEF SwitchFacing, TypeOK
<1>4. ASSUME NEW p \in Popups, ClosePopup(p) PROVE IInv'
  <2> USE <1>4 DEF ClosePopup
  <2>1. popup' \in [Popups -> {"new", "open", "gone"}]
    BY DEF TypeOK
  <2>2. CASE held[p] = None
    <3>1. TypeOK'
      BY <2>1, <2>2 DEF TypeOK
    <3>2. GuiKnows' /\ HandleHasCallback' /\ FrameReachesRequester'
      BY <2>2 DEF GuiKnows, HandleHasCallback, FrameReachesRequester
    <3> QED
      BY <3>1, <3>2
  <2>3. CASE held[p] # None
    BY <2>1, <2>3, ForgetPreservesIInv DEF TypeOK
  <2> QED
    BY <2>2, <2>3
<1>5. ASSUME NEW p \in Popups, SendAck(p) PROVE IInv'
  <2>1. queued' \in [Families -> Seq(Tokens)]
    BY <1>5, PutIsTyped DEF SendAck, TypeOK, Families
  <2>2. TypeOK'
    BY <1>5, <2>1 DEF SendAck, TypeOK, guiVars
  <2>3. GuiKnows' /\ HandleHasCallback' /\ FrameReachesRequester'
    BY <1>5 DEF SendAck, GuiKnows, HandleHasCallback, FrameReachesRequester, guiVars
  <2> QED
    BY <2>2, <2>3
<1>6. CASE PrepareRoute
  <2> USE <1>6 DEF PrepareRoute, StopRest, StartServer
  <2>1. PICK t \in Tokens :
          /\ owner[t] = None /\ owner' = [owner EXCEPT ![t] = gui.popup]
          /\ \/ /\ (serving' = serving \cup {t} /\ usb' = usb \cup {t})
                   \/ UNCHANGED <<serving, usb>>
                /\ gui' = [gui EXCEPT !.at = "publish", !.token = t]
                /\ UNCHANGED held
             \/ /\ gui' = Idle
                /\ held' = [held EXCEPT ![gui.popup] = None]
                /\ UNCHANGED <<serving, usb>>
    OBVIOUS
  <2>2. gui.popup \in Popups
    BY DEF GuiKnows
  <2>3. owner' \in [Tokens -> Popups \cup {None}] /\ held' \in [Popups -> Tokens \cup {None}]
    BY <2>1, <2>2 DEF TypeOK
  <2>4. /\ gui' \in [at : GuiSteps, popup : Popups \cup {None}, token : Tokens \cup {None}]
        /\ \/ gui'.at = "publish" /\ gui'.popup = gui.popup /\ gui'.token = t
           \/ gui'.at = "idle"
    <3>1. CASE gui' = [gui EXCEPT !.at = "publish", !.token = t]
      BY <3>1 DEF TypeOK, GuiSteps
    <3>2. CASE gui' = Idle
      BY <3>2 DEF Idle, GuiSteps
    <3> QED
      BY <2>1, <3>1, <3>2
  <2>5. TypeOK'
    BY <2>1, <2>3, <2>4 DEF TypeOK
  <2>6. GuiKnows'
    BY <2>1, <2>2, <2>4 DEF GuiKnows, TypeOK
  <2>7. \A u \in Tokens : owner[u] # None => owner'[u] = owner[u]
    BY <2>1 DEF TypeOK
  <2>8. HandleHasCallback'
    BY <2>7 DEF HandleHasCallback, TypeOK
  <2>9. FrameReachesRequester'
    BY <2>7 DEF FrameReachesRequester, TypeOK
  <2> QED
    BY <2>5, <2>6, <2>8, <2>9
<1>7. CASE PublishStream
  <2> USE <1>7 DEF PublishStream
  <2>1. gui.token \in Tokens /\ owner[gui.token] = gui.popup /\ gui.popup \in Popups
    BY DEF GuiKnows
  <2>2. queued' \in [Families -> Seq(Tokens)] /\ held' \in [Popups -> Tokens \cup {None}]
    BY <2>1, PutIsTyped DEF TypeOK, Families
  <2>3. gui' \in [at : GuiSteps, popup : Popups \cup {None}, token : Tokens \cup {None}]
    BY DEF Idle, GuiSteps
  <2>4. TypeOK'
    BY <2>1, <2>2, <2>3 DEF TypeOK
  <2>5. GuiKnows' /\ HandleHasCallback' /\ FrameReachesRequester'
    BY <2>1 DEF GuiKnows, HandleHasCallback, FrameReachesRequester, Idle
  <2> QED
    BY <2>4, <2>5
<1>8. CASE StopDone
  <2> USE <1>8 DEF StopDone, StopRest
  <2>1. /\ gui' \in [at : GuiSteps, popup : Popups \cup {None}, token : Tokens \cup {None}]
        /\ held' \in [Popups -> Tokens \cup {None}]
    BY DEF Idle, GuiSteps, TypeOK
  <2>2. TypeOK'
    BY <2>1 DEF TypeOK
  <2>3. GuiKnows' /\ HandleHasCallback' /\ FrameReachesRequester'
    BY DEF GuiKnows, HandleHasCallback, FrameReachesRequester, Idle
  <2> QED
    BY <2>2, <2>3
<1>9. ASSUME NEW p \in Popups, EscapePopup(p) PROVE IInv'
  <2>1. TypeOK'
    BY <1>9 DEF EscapePopup, TypeOK
  <2>2. GuiKnows' /\ HandleHasCallback' /\ FrameReachesRequester'
    BY <1>9 DEF EscapePopup, GuiKnows, HandleHasCallback, FrameReachesRequester
  <2> QED
    BY <2>1, <2>2
<1> QED
  BY <1>1, <1>2, <1>3, <1>4, <1>5, <1>6, <1>7, <1>8, <1>9 DEF Gui

-----------------------------------------------------------------------------

\* A pass takes commands.
LEMMA TakenAreCommands == TypeOK => Taken \in Seq(Command)
<1> SUFFICES ASSUME TypeOK PROVE Taken \in Seq(Command)
  OBVIOUS
<1> DEFINE First(f) == IF queued[f] = <<>> THEN <<>>
                       ELSE <<[kind |-> f, token |-> Head(queued[f])]>>
<1>1. ASSUME NEW f \in Families PROVE First(f) \in Seq(Command)
  <2>1. CASE queued[f] = <<>>
    BY <2>1
  <2>2. CASE queued[f] # <<>>
    <3>1. Head(queued[f]) \in Tokens
      BY <2>2 DEF TypeOK
    <3>2. [kind |-> f, token |-> Head(queued[f])] \in Command
      BY <3>1 DEF Command
    <3> QED
      BY <2>2, <3>2
  <2> QED
    BY <2>1, <2>2
<1>2. First("start") \in Seq(Command) /\ First("ack") \in Seq(Command)
      /\ First("stop") \in Seq(Command)
  BY <1>1 DEF Families
<1>3. Taken = First("start") \o First("ack") \o First("stop")
  BY DEF Taken
<1> HIDE DEF First
<1> QED
  BY <1>2, <1>3

\* Every step of the threads of the session keeps the invariant.
LEMMA ThreadsPreserveIInv == ASSUME IInv, SessionThreads PROVE IInv'
<1> USE ConstantsAssumption DEF IInv, guiVars, runVars, netVars, phoneVars
<1>1. CASE PumpPass
  <2> USE <1>1 DEF PumpPass
  <2>1. toPhone' \in Seq(Command)
    <3>1. toPhone \in Seq(Command) /\ Taken \in Seq(Command)
      BY TakenAreCommands DEF TypeOK
    <3> QED
      BY <3>1
  <2>2. queued' \in [Families -> Seq(Tokens)]
    BY DEF TypeOK
  <2>3. TypeOK'
    BY <2>1, <2>2 DEF TypeOK, threadVars
  <2>4. GuiKnows' /\ HandleHasCallback' /\ FrameReachesRequester'
    BY DEF GuiKnows, HandleHasCallback, FrameReachesRequester, threadVars
  <2> QED
    BY <2>3, <2>4
<1>2. CASE HandleResult
  <2> USE <1>2 DEF HandleResult, StopServer
  <2>1. toDesktop' \in Seq(Report)
    BY DEF TypeOK
  <2>2. TypeOK'
    BY <2>1 DEF TypeOK
  <2>3. GuiKnows' /\ HandleHasCallback' /\ FrameReachesRequester'
    BY DEF GuiKnows, HandleHasCallback, FrameReachesRequester
  <2> QED
    BY <2>2, <2>3
<1>3. CASE ForgetRefused
  <2> USE <1>3 DEF ForgetRefused
  <2>1. TypeOK'
    BY DEF TypeOK
  <2>2. GuiKnows' /\ HandleHasCallback' /\ FrameReachesRequester'
    BY DEF GuiKnows, HandleHasCallback, FrameReachesRequester
  <2> QED
    BY <2>1, <2>2
<1>4. CASE TakeFrame
  <2> USE <1>4 DEF TakeFrame
  <2>1. toDesktop' \in Seq(Report)
    BY DEF TypeOK
  <2>2. \/ frame' = None
        \/ /\ handle \in Tokens /\ owner[handle] \in Popups
           /\ frame' = [to |-> owner[handle], token |-> handle]
    BY DEF HandleHasCallback, TypeOK
  <2>3. TypeOK'
    BY <2>1, <2>2 DEF TypeOK
  <2>4. GuiKnows' /\ HandleHasCallback' /\ FrameReachesRequester'
    BY <2>2 DEF GuiKnows, HandleHasCallback, FrameReachesRequester
  <2> QED
    BY <2>3, <2>4
<1>5. CASE HandFrame
  <2> USE <1>5 DEF HandFrame
  <2>1. TypeOK'
    BY DEF TypeOK
  <2>2. GuiKnows' /\ HandleHasCallback' /\ FrameReachesRequester'
    BY DEF GuiKnows, HandleHasCallback, FrameReachesRequester
  <2> QED
    BY <2>1, <2>2
<1> QED
  BY <1>1, <1>2, <1>3, <1>4, <1>5 DEF SessionThreads

\* Nothing that happens on the connection or on the phone touches what the
\* desktop's threads know; it has but to keep the types.
LEMMA ElsewherePreservesIInv ==
  ASSUME IInv, UNCHANGED <<guiVars, runVars, threadVars, queued>>,
         link' \in BOOLEAN, drops' \in 0..MaxDrops,
         toPhone' \in Seq(Command), toDesktop' \in Seq(Report),
         {pending', shown', approving', active'} \subseteq Tokens \cup {None},
         stream' \in [Tokens -> {"none", "opening", "running", "acked", "stopped"}]
  PROVE  IInv'
<1> USE DEF IInv, guiVars, runVars, threadVars
<1>1. TypeOK'
  BY DEF TypeOK
<1>2. GuiKnows' /\ HandleHasCallback' /\ FrameReachesRequester'
  BY DEF GuiKnows, HandleHasCallback, FrameReachesRequester
<1> QED
  BY <1>1, <1>2

\* The loss and the return of the session keep the invariant.
LEMMA LinkPreservesIInv == ASSUME IInv, LinkDrops \/ LinkReturns PROVE IInv'
<1>1. /\ link' \in BOOLEAN /\ drops' \in 0..MaxDrops
      /\ toPhone' \in Seq(Command) /\ toDesktop' \in Seq(Report)
  <2>1. CASE LinkDrops
    <3>1. drops \in 0..MaxDrops /\ toDesktop \in Seq(Report)
      BY DEF IInv, TypeOK
    <3>2. drops < MaxDrops /\ drops' = drops + 1
      BY <2>1 DEF LinkDrops
    <3>3. toPhone' = <<>> /\ (toDesktop' = <<>> \/ toDesktop' = toDesktop)
      BY <2>1 DEF LinkDrops
    <3>4. link' \in BOOLEAN
      BY <2>1 DEF LinkDrops
    <3>5. drops' \in 0..MaxDrops
      BY <3>1, <3>2, ConstantsAssumption
    <3>6. toPhone' \in Seq(Command)
      BY <3>3
    <3>7. toDesktop' \in Seq(Report)
      <4>1. CASE toDesktop' = <<>>
        BY <4>1
      <4>2. CASE toDesktop' = toDesktop
        BY <3>1, <4>2
      <4> QED
        BY <3>3, <4>1, <4>2
    <3> QED
      BY <3>4, <3>5, <3>6, <3>7
  <2>2. CASE LinkReturns
    BY <2>2 DEF LinkReturns, IInv, TypeOK
  <2> QED
    BY <2>1, <2>2
<1> QED
  BY <1>1, ElsewherePreservesIInv
  DEF LinkDrops, LinkReturns, IInv, TypeOK, guiVars, runVars, threadVars, phoneVars

-----------------------------------------------------------------------------
\* The phone.

\* What it receives, and what it answers.
LEMMA ReceivesCommand ==
  ASSUME TypeOK, NEW kind, Received(kind)
  PROVE  /\ Head(toPhone).token \in Tokens
         /\ Tail(toPhone) \in Seq(Command)
         /\ Tail(toPhone) # toPhone
<1>1. toPhone \in Seq(Command) /\ toPhone # <<>>
  BY DEF TypeOK, Received
<1>2. Head(toPhone) \in Command /\ Tail(toPhone) \in Seq(Command)
      /\ Len(Tail(toPhone)) # Len(toPhone)
  BY <1>1
<1> QED
  BY <1>2 DEF Command

\* A report to the desktop keeps the channel a sequence of reports.
LEMMA ReplyIsTyped ==
  ASSUME TypeOK, NEW kind \in {"refused", "frame"}, NEW t \in Tokens, Reply(kind, t)
  PROVE  toDesktop' \in Seq(Report)
<1>1. [kind |-> kind, token |-> t] \in Report
  BY DEF Report
<1> QED
  BY <1>1 DEF Reply, TypeOK

\* The end of a stream is the end of no other.
LEMMA StopStreamEndsOne ==
  ASSUME TypeOK, NEW t \in Tokens \cup {None}
  PROVE  /\ StopStream(t) \in [Tokens -> {"none", "opening", "running", "acked", "stopped"}]
         /\ \A u \in Tokens \ {t} : StopStream(t)[u] = stream[u]
BY DEF StopStream, Live, TypeOK

\* Every step of the phone keeps the invariant.
LEMMA PhonePreservesIInv == ASSUME IInv, Phone PROVE IInv'
<1> USE ConstantsAssumption DEF IInv
<1> DEFINE Streams == [Tokens -> {"none", "opening", "running", "acked", "stopped"}]
<1>0. /\ link \in BOOLEAN /\ drops \in 0..MaxDrops
      /\ toPhone \in Seq(Command) /\ toDesktop \in Seq(Report)
      /\ {pending, shown, approving, active} \subseteq Tokens \cup {None}
      /\ stream \in Streams
  BY DEF TypeOK
<1>1. CASE PhoneGetsStart
  <2> USE <1>1 DEF PhoneGetsStart
  <2>1. Head(toPhone).token \in Tokens /\ Tail(toPhone) \in Seq(Command)
    BY ReceivesCommand
  <2>2. toDesktop' \in Seq(Report)
    BY <1>0, <2>1, ReplyIsTyped
  <2> QED
    BY <1>0, <2>1, <2>2, ElsewherePreservesIInv
<1>2. CASE PhoneGetsAck
  <2> USE <1>2 DEF PhoneGetsAck
  <2>1. Head(toPhone).token \in Tokens /\ Tail(toPhone) \in Seq(Command)
    BY ReceivesCommand
  <2>2. stream' \in Streams
    BY <1>0
  <2> QED
    BY <1>0, <2>1, <2>2, ElsewherePreservesIInv
<1>3. CASE PhoneGetsStop
  <2> USE <1>3 DEF PhoneGetsStop
  <2>1. Head(toPhone).token \in Tokens /\ Tail(toPhone) \in Seq(Command)
    BY ReceivesCommand
  <2>2. StopStream(Head(toPhone).token) \in Streams
    BY <2>1, StopStreamEndsOne
  <2> QED
    BY <1>0, <2>1, <2>2, ElsewherePreservesIInv
<1>4. CASE UserApproves
  BY <1>0, <1>4, ElsewherePreservesIInv DEF UserApproves, netVars
<1>5. CASE UserRejects
  <2> USE <1>5 DEF UserRejects
  <2>1. toDesktop' \in Seq(Report)
    BY <1>0, ReplyIsTyped
  <2> QED
    BY <1>0, <2>1, ElsewherePreservesIInv
<1>6. CASE StartApproved
  <2> USE <1>6 DEF StartApproved
  <2>1. approving \in Tokens
    BY <1>0
  <2>2. toDesktop' \in Seq(Report)
    BY <1>0, <2>1, ReplyIsTyped
  <2>3. StopStream(active) \in Streams
    BY <1>0, StopStreamEndsOne
  <2>4. stream' \in Streams
    BY <1>0, <2>1, <2>3
  <2> QED
    BY <1>0, <2>1, <2>2, <2>4, ElsewherePreservesIInv
<1>7. CASE StopAny
  <2> USE <1>7 DEF StopAny
  <2>1. stream' \in Streams
    BY <1>0, StopStreamEndsOne
  <2> QED
    BY <1>0, <2>1, ElsewherePreservesIInv DEF netVars
<1>8. ASSUME NEW t \in Tokens, CameraOpens(t) \/ Watchdog(t) PROVE IInv'
  <2> USE <1>8 DEF CameraOpens, Watchdog
  <2>1. StopStream(t) \in Streams
    BY StopStreamEndsOne
  <2>2. stream' \in Streams
    BY <1>0, <2>1
  <2> QED
    BY <1>0, <2>2, ElsewherePreservesIInv DEF netVars
<1>9. ASSUME NEW t \in Tokens, SendFrame(t) PROVE IInv'
  <2> USE <1>9 DEF SendFrame
  <2>1. toDesktop' \in Seq(Report)
    BY ReplyIsTyped
  <2> QED
    BY <1>0, <2>1, ElsewherePreservesIInv DEF phoneVars
<1> QED
  BY <1>1, <1>2, <1>3, <1>4, <1>5, <1>6, <1>7, <1>8, <1>9 DEF Phone

-----------------------------------------------------------------------------

\* What the desktop's threads know of the streams agrees, as IInv says, in
\* every reachable state.
THEOREM InvariantHolds == Spec => []IInv
<1>1. IInv /\ [Next]_vars => IInv'
  <2>1. ASSUME IInv, UNCHANGED vars PROVE IInv'
    BY <2>1, ElsewherePreservesIInv DEF vars, netVars, phoneVars, IInv, TypeOK
  <2> QED
    BY <2>1, GuiPreservesIInv, ThreadsPreserveIInv, LinkPreservesIInv, PhonePreservesIInv
    DEF Next
<1> QED
  BY <1>1, InitEstablishesIInv, PTL DEF Spec

\* Every variable keeps its type; only the servers of USB streams serve.
THEOREM TypeCorrect == Spec => []TypeOK
<1>1. IInv => TypeOK
  BY DEF IInv
<1> QED
  BY <1>1, InvariantHolds, PTL

\* A frame reaches the popup that asked for its stream, though streams are
\* stopped, refused and replaced between the check of its token and the call.
THEOREM FramesAreDelivered == Spec => []FrameReachesRequester
<1>1. IInv => FrameReachesRequester
  BY DEF IInv
<1> QED
  BY <1>1, InvariantHolds, PTL

\* A stop request that arrives late, after the start of the next stream, ends
\* neither that stream nor the request for it.
THEOREM LateStopIsHarmless == Spec => OldStopSparesNewStream
<1> DEFINE Spares ==
      \A t \in Tokens :
        Received("stop") /\ toPhone' = Tail(toPhone) /\ Head(toPhone).token # t
          => (Live(t) => stream'[t] = stream[t]) /\ (pending = t => pending' = t)
<1>1. ASSUME TypeOK, Received("stop"), toPhone' = Tail(toPhone), Next
      PROVE  PhoneGetsStop \/ UNCHANGED <<stream, pending>>
  <2>1. toPhone' # toPhone
    BY <1>1, ReceivesCommand
  <2>2. ~PhoneGetsStart /\ ~PhoneGetsAck
    BY <1>1 DEF PhoneGetsStart, PhoneGetsAck, Received
  <2>3. Gui \/ SessionThreads \/ LinkDrops \/ LinkReturns => UNCHANGED <<stream, pending>>
    BY DEF Gui, OpenPopup, StartStream, SwitchFacing, ClosePopup, EscapePopup, SendAck,
      PrepareRoute, PublishStream, StopDone, SessionThreads, PumpPass, HandleResult, ForgetRefused,
      TakeFrame, HandFrame, LinkDrops, LinkReturns, phoneVars
  <2>4. Phone => PhoneGetsStop
    BY <2>1, <2>2
    DEF Phone, UserApproves, UserRejects, StartApproved, StopAny, CameraOpens, Watchdog,
      SendFrame, netVars
  <2> QED
    BY <1>1, <2>3, <2>4 DEF Next
<1>2. ASSUME TypeOK, PhoneGetsStop PROVE Spares
  <2>1. Head(toPhone).token \in Tokens
    BY <1>2, ReceivesCommand DEF PhoneGetsStop
  <2>2. \A u \in Tokens \ {Head(toPhone).token} :
          StopStream(Head(toPhone).token)[u] = stream[u]
    BY <1>2, <2>1, StopStreamEndsOne
  <2> QED
    BY <1>2, <2>2 DEF PhoneGetsStop
<1>3. TypeOK /\ [Next]_vars => [Spares]_vars
  BY <1>1, <1>2
<1> QED
  BY <1>3, TypeCorrect, PTL DEF Spec, OldStopSparesNewStream

=============================================================================
