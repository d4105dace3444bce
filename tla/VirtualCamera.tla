---------------------------- MODULE VirtualCamera ----------------------------
(***************************************************************************)
(* What the camera popup makes of the frames of a stream: VirtualCameraSink*)
(* feeds them to an ffmpeg that writes the device Linkable Camera, and in  *)
(* the test popup a V4L2PreviewReader reads the device back.               *)
(*                                                                         *)
(* Threads: the user interface, with its single shot timers; the session   *)
(* thread, which hands frames over; per sink, the thread of _write_loop.   *)
(* How streams start and stop between desktop and phone is CameraShare's   *)
(* matter: here a stream is granted or not.  Left out: pictures and sizes, *)
(* the pace of the frames, and the texts and counts the popup shows.       *)
(***************************************************************************)
EXTENDS Naturals, Sequences

CONSTANTS
  MaxSinks,    \* bound: sinks that are made, and so streams
  MaxFrames,   \* bound: frames that arrive
  QueueSize,   \* how many frames a sink keeps (2 in the code)
  MaxRetries,  \* how often a preview is tried again (3 in the code)
  MaxShots,    \* bound: preview frames on their way to the popup
  MaxFaults    \* bound: ffmpegs that end by themselves

ASSUME CameraAssumption ==
  /\ MaxSinks \in Nat /\ MaxFrames \in Nat /\ MaxRetries \in Nat
  /\ QueueSize \in Nat \ {0} /\ MaxShots \in Nat \ {0} /\ MaxFaults \in Nat

Sinks  == 1..MaxSinks
NoSink == 0

VARIABLES
  popup,       \* not yet opened, open, closed by the user, or left by the
               \* Escape key
  testMode,    \* it is the test popup, with a preview
  gui,         \* what the user interface is in the middle of
  sink, made,  \* the popup's _sink; how many sinks have been made
  streaming,   \* the popup has a _handle
  startDue, previewDue, retryDue,  \* the single shots that are still to come
  feed,        \* per sink: its ffmpeg, flags, queue and writing thread, and as
               \* history the frame that it took last
  arrived,     \* how many frames have arrived
  push,        \* the frame the session thread is handing over, and to whom
  reader,      \* the popup has a _preview_reader
  reading,     \* the ffmpeg of that reader runs
  captures,    \* how many ffmpegs read the device back
  shots,       \* preview frames that are signalled and not yet handled
  seen,        \* _preview_frames > 0
  retries,     \* _preview_retries
  ghost,       \* history: a stream was started after the popup was closed
  faults       \* what was used of MaxFaults

previewVars == <<previewDue, retryDue, reader, reading, captures, shots, seen,
                 retries>>
popupVars   == <<popup, testMode, gui, sink, made, streaming, startDue, ghost>>
pushVars    == <<arrived, push>>
cameraVars  == <<popupVars, previewVars, feed, pushVars, faults>>

\* A frame is its number; 0 is the test pattern of _placeholder_mjpeg.
Frames == 0..MaxFrames
Feed == [proc : {"none", "up", "dead"}, known : BOOLEAN, stopped : BOOLEAN,
         queue : Seq(Frames), writer : {"none", "idle", "writing", "gone"},
         hold : Frames, last : Frames]
NoPush == [at |-> "idle", to |-> NoSink, frame |-> 0]

CameraTypeOK ==
  /\ popup \in {"new", "open", "closed", "left"} /\ testMode \in BOOLEAN
  /\ gui \in {"ready", "asking", "ending"}
  /\ sink \in Sinks \cup {NoSink} /\ made \in 0..MaxSinks
  /\ streaming \in BOOLEAN /\ startDue \in BOOLEAN
  /\ previewDue \in 0..MaxSinks /\ retryDue \in 0..MaxSinks
  /\ feed \in [Sinks -> Feed] /\ \A s \in Sinks : Len(feed[s].queue) <= QueueSize
  /\ arrived \in Frames
  /\ push \in [at : {"idle", "taken", "passed"},
               to : Sinks \cup {NoSink}, frame : Frames]
  /\ reader \in BOOLEAN /\ reading \in BOOLEAN /\ captures \in Nat
  /\ shots \in 0..MaxShots /\ seen \in BOOLEAN /\ retries \in 0..MaxRetries
  /\ ghost \in BOOLEAN /\ faults \in 0..MaxFaults

CameraInit ==
  /\ popup = "new" /\ testMode = FALSE /\ gui = "ready" /\ sink = NoSink /\ made = 0
  /\ streaming = FALSE /\ startDue = FALSE /\ ghost = FALSE
  /\ previewDue = 0 /\ retryDue = 0 /\ reader = FALSE /\ reading = FALSE
  /\ captures = 0 /\ shots = 0 /\ seen = FALSE /\ retries = 0
  /\ feed = [s \in Sinks |-> [proc |-> "none", known |-> FALSE, stopped |-> FALSE,
                              queue |-> <<>>, writer |-> "none", hold |-> 0, last |-> 0]]
  /\ arrived = 0 /\ push = NoPush /\ faults = 0

Ready == gui = "ready"

-----------------------------------------------------------------------------
(* The popup, on the thread of the user interface.                         *)

OpenCamera(test) ==
  /\ Ready /\ popup = "new"
  /\ popup' = "open" /\ testMode' = test /\ startDue' = TRUE
  /\ UNCHANGED <<gui, sink, made, streaming, ghost, previewVars, feed, pushVars, faults>>

\* The head of _start_stream, when the single shot is due: the counts are new.
StartDue ==
  /\ Ready /\ startDue /\ startDue' = FALSE
  /\ ghost' = (ghost \/ popup = "closed")
  /\ seen' = FALSE
  /\ UNCHANGED <<popup, testMode, streaming, retryDue, reader, reading, captures,
                 shots, retries, pushVars, faults>>

\* ensure_linkable_camera finds no device and cannot make one, or
\* VirtualCameraSink.start has no ffmpeg, or one that ends at once.
NoCamera ==
  /\ StartDue
  /\ UNCHANGED <<gui, sink, made, previewDue, feed>>

\* VirtualCameraSink.start: the ffmpeg runs and the writer is started.
FeedStarts ==
  /\ StartDue /\ made < MaxSinks
  /\ made' = made + 1 /\ sink' = made'
  /\ feed' = [feed EXCEPT ![made'].proc = "up", ![made'].known = TRUE,
                          ![made'].writer = "idle"]
  /\ previewDue' = IF testMode THEN previewDue + 1 ELSE previewDue
  /\ gui' = "asking"

\* The rest of _start_stream, when the runtime grants a stream or does not.
StreamGranted ==
  /\ gui = "asking"
  /\ streaming' = TRUE /\ gui' = "ready"
  /\ UNCHANGED <<popup, testMode, sink, made, startDue, ghost, previewVars, feed,
                 pushVars, faults>>

\* The first half of VirtualCameraSink.stop.
TakeFeed == [feed EXCEPT ![sink].stopped = TRUE, ![sink].known = FALSE,
                         ![sink].queue = <<>>]

\* V4L2PreviewReader.stop ends the ffmpeg of this reader.
StopPreview ==
  /\ reader' = FALSE /\ reading' = FALSE
  /\ captures' = captures - (IF reading THEN 1 ELSE 0)

StreamRefused ==
  /\ gui = "asking" /\ gui' = "ending"
  /\ StopPreview /\ feed' = TakeFeed
  /\ UNCHANGED <<popup, testMode, sink, made, streaming, startDue, ghost,
                 previewDue, retryDue, shots, seen, retries, pushVars, faults>>

\* _stop_local_stream, up to the end of the ffmpeg.
StopLocalStream ==
  /\ StopPreview
  /\ streaming' = FALSE
  /\ IF sink = NoSink THEN UNCHANGED <<feed, gui>>
     ELSE feed' = TakeFeed /\ gui' = "ending"
  /\ UNCHANGED <<testMode, sink, made, previewDue, retryDue, shots, seen, retries,
                 ghost, pushVars, faults>>

SwitchFacing ==
  /\ Ready /\ popup = "open" /\ streaming
  /\ StopLocalStream
  /\ startDue' = TRUE /\ UNCHANGED popup

\* closeEvent, of the popup's button and of its window.
CloseCamera ==
  /\ Ready /\ popup = "open"
  /\ StopLocalStream
  /\ popup' = "closed" /\ UNCHANGED startDue

\* Escape is QDialog.reject, which hides the popup and sends no closeEvent: the
\* popup goes on where it was, with its timers and its stream.
EscapeCamera ==
  /\ Ready /\ popup = "open"
  /\ popup' = "left"
  /\ UNCHANGED <<testMode, gui, sink, made, streaming, startDue, ghost, previewVars, feed,
                 pushVars, faults>>

\* The second half of VirtualCameraSink.stop: closing the pipe waits for a
\* write that is under way, and then the ffmpeg is terminated.
EndFeed ==
  /\ gui = "ending" /\ feed[sink].writer # "writing"
  /\ feed' = [feed EXCEPT ![sink].proc = "dead"]
  /\ sink' = NoSink /\ gui' = "ready"
  /\ UNCHANGED <<popup, testMode, made, streaming, startDue, ghost, previewVars,
                 pushVars, faults>>

-----------------------------------------------------------------------------
(* The preview of the test popup.                                          *)

StartPreview(starts) ==
  /\ reader' = starts /\ reading' = starts
  /\ captures' = captures + (IF starts THEN 1 ELSE 0)
  /\ retryDue' = retryDue + 1

\* Faulty variant: a single shot of a popup that has been closed is not told
\* from one that is wanted.
PreviewDueUnchecked ==
  /\ Ready /\ previewDue > 0 /\ previewDue' = previewDue - 1
  /\ IF reader THEN UNCHANGED <<reader, reading, captures, retryDue>>
     ELSE \E starts \in BOOLEAN : StartPreview(starts)
  /\ UNCHANGED <<popupVars, shots, seen, retries, feed, pushVars, faults>>

\* _start_preview_if_active, with V4L2PreviewReader.start.
PreviewDue ==
  /\ Ready /\ previewDue > 0 /\ previewDue' = previewDue - 1
  /\ IF sink = NoSink \/ reader THEN UNCHANGED <<reader, reading, captures, retryDue>>
     ELSE \E starts \in BOOLEAN : StartPreview(starts)
  /\ UNCHANGED <<popupVars, shots, seen, retries, feed, pushVars, faults>>

\* _retry_preview_if_empty
RetryDue ==
  /\ Ready /\ retryDue > 0 /\ retryDue' = retryDue - 1
  /\ IF sink = NoSink \/ seen \/ retries = MaxRetries
     THEN UNCHANGED <<reader, reading, captures, previewDue, retries>>
     ELSE /\ StopPreview
          /\ retries' = retries + 1 /\ previewDue' = previewDue + 1
  /\ UNCHANGED <<popupVars, shots, seen, feed, pushVars, faults>>

\* The reader reads a picture back and signals it, and the popup shows it:
\* it may be a picture of the stream before.
ReadBack ==
  /\ reading /\ shots < MaxShots /\ \E s \in Sinks : feed[s].proc = "up"
  /\ shots' = shots + 1
  /\ UNCHANGED <<popupVars, previewDue, retryDue, reader, reading, captures, seen,
                 retries, feed, pushVars, faults>>

SetPreviewFrame ==
  /\ Ready /\ shots > 0 /\ shots' = shots - 1 /\ seen' = TRUE
  /\ UNCHANGED <<popupVars, previewDue, retryDue, reader, reading, captures,
                 retries, feed, pushVars, faults>>

\* The ffmpeg that reads ends by itself, when the device is not readable.
CaptureEnds ==
  /\ faults < MaxFaults /\ faults' = faults + 1
  /\ reading /\ reading' = FALSE /\ captures' = captures - 1
  /\ UNCHANGED <<popupVars, previewDue, retryDue, reader, shots, seen, retries,
                 feed, pushVars>>

-----------------------------------------------------------------------------
(* The session thread hands a frame to the sink of the popup.              *)

FrameArrives ==
  /\ streaming /\ push.at = "idle" /\ arrived < MaxFrames
  /\ arrived' = arrived + 1
  /\ push' = [at |-> "taken", to |-> NoSink, frame |-> arrived']
  /\ UNCHANGED <<popupVars, previewVars, feed, faults>>

\* The head of VirtualCameraSink.push_frame and of the loop that writes: a sink
\* without a running process takes nothing.
HasProcess(s) == feed[s].known /\ feed[s].proc = "up"

\* CameraAliveDialog._handle_frame finds the sink, and push_frame looks at its
\* process; a sink that is stopped between the two takes nothing either way.
HandleFrame ==
  /\ push.at = "taken"
  /\ push' = IF sink # NoSink /\ HasProcess(sink)
             THEN [push EXCEPT !.at = "passed", !.to = sink] ELSE NoPush
  /\ UNCHANGED <<popupVars, previewVars, feed, arrived, faults>>

\* The rest of push_frame, of a sink that may have been stopped since.
PushTo(s, room) ==
  /\ push.at = "passed"
  /\ push' = NoPush
  /\ feed' = [feed EXCEPT ![s].queue = room, ![s].last = push.frame]
  /\ UNCHANGED <<popupVars, previewVars, arrived, faults>>

\* Faulty variant: a full queue drops the frame that comes.
PushFrameDropsNew ==
  LET q == feed[push.to].queue
  IN PushTo(push.to, IF Len(q) = QueueSize THEN q ELSE Append(q, push.frame))

\* A full queue drops its oldest frame.
PushFrame ==
  LET q == feed[push.to].queue
  IN PushTo(push.to, Append(IF Len(q) = QueueSize THEN Tail(q) ELSE q, push.frame))

-----------------------------------------------------------------------------
(* _write_loop of a sink.                                                  *)

Writer(s, from, to) == feed[s].writer = from /\ feed' = [feed EXCEPT ![s] = to]
RestOfWriter == UNCHANGED <<popupVars, previewVars, pushVars, faults>>

WriteOf(s, frame) ==
  LET f == feed[s]
      live == ~f.stopped /\ HasProcess(s)
  IN /\ Writer(s, "idle", [f EXCEPT !.writer = IF live THEN "writing" ELSE "gone",
                                    !.queue = <<>>, !.hold = IF live THEN frame ELSE 0])
     /\ RestOfWriter

\* The writer takes the newest frame of the queue, or else the last one again,
\* and ends, with the frame it held, when the sink is stopped or its process has
\* ended.
StartWrite(s) ==
  LET q == feed[s].queue IN WriteOf(s, IF q = <<>> THEN feed[s].hold ELSE q[Len(q)])

\* The ffmpeg takes the frame, or has ended: the pipe is broken.
EndWrite(s) ==
  LET f == feed[s] IN
  /\ Writer(s, "writing", IF f.proc = "up" THEN [f EXCEPT !.writer = "idle"]
                          ELSE [f EXCEPT !.writer = "gone", !.hold = 0])
  /\ RestOfWriter

\* The ffmpeg of a sink ends by itself.
FeedBreaks(s) ==
  /\ faults < MaxFaults /\ faults' = faults + 1
  /\ feed[s].proc = "up"
  /\ feed' = [feed EXCEPT ![s].proc = "dead"]
  /\ UNCHANGED <<popupVars, previewVars, pushVars>>

-----------------------------------------------------------------------------
CameraNext ==
  \/ \E test \in BOOLEAN : OpenCamera(test)
  \/ SwitchFacing \/ CloseCamera \/ EscapeCamera
  \/ NoCamera \/ FeedStarts \/ StreamGranted \/ StreamRefused \/ EndFeed
  \/ PreviewDue \/ RetryDue \/ ReadBack \/ SetPreviewFrame \/ CaptureEnds
  \/ FrameArrives \/ HandleFrame \/ PushFrame
  \/ \E s \in Sinks : StartWrite(s) \/ EndWrite(s) \/ FeedBreaks(s)

CameraSpec == CameraInit /\ [][CameraNext]_cameraVars

-----------------------------------------------------------------------------
(* What the popup owes its user.                                           *)

\* While a sink runs, the newest frame it took is the last of its queue or what
\* its writer shows and repeats: a full queue loses old frames only
\* (push_frame: "Queue the newest frame and drop stale frames to keep memory
\* bounded"), and the writer never goes back to an older one.
NewestFrameKept ==
  \A s \in Sinks : LET f == feed[s] IN
    f.known /\ f.proc = "up" /\ f.writer # "gone" =>
      f.last = IF f.queue = <<>> THEN f.hold ELSE f.queue[Len(f.queue)]

\* When the popup is closed by its button or its window, and its start timer was
\* not running, no process that feeds or reads the device is left, whatever
\* timers of previews and retries still fire.
ClosedPopupLeavesNothing ==
  popup = "closed" /\ gui = "ready" /\ ~startDue /\ ~ghost =>
    captures = 0 /\ \A s \in Sinks : feed[s].proc # "up"

\* What the popup tells its user (settings.camera.alive): closing it stops the
\* feed of Linkable Camera.  Leaving it by Escape does not: this fails.
LeftPopupLeavesNothing ==
  popup = "left" /\ gui = "ready" /\ ~startDue =>
    captures = 0 /\ \A s \in Sinks : feed[s].proc # "up"
=============================================================================
