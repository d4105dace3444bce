# Linkable: a verification project

Linkable connects an Android phone and a desktop over a local network: the
phone finds the desktop by DNS-SD, pairs once with a code shown on both sides,
and from then on keeps an authenticated, encrypted session over which both
send commands, notifications, files and camera frames. This directory holds
TLA+ models of the parts of Linkable whose correctness depends on the order in
which threads, callbacks, messages and clicks happen, the TLC configurations
that check them, and TLAPS proofs of what matters most about them.

## Inventory

| Component | State it keeps | Operations | Hard behaviours | What makes it correct | Status |
|---|---|---|---|---|---|
| Desktop session server (`pairing_server.py`, `runtime.py`) | registry token, active devices, disconnect requests, manual disconnects, trust store, live sockets | accept, SESSION_INIT, serve, close; start, stop, refresh; Disconnect, Unpair, Reconnect, Forget | threads per connection against the GUI thread; restart while sessions end; clean-up after partial failure; phones that vanish | one session per server; a truthful device list; requests are not lost; tokens come back | modelled: `DesktopSession` |
| Outgoing command pump (same files) | 17 queues, one semaphore, per session a stop and a ready event | `queue_*`, wake, the outgoing thread's pass | wake-ups counted apart from queues; lingering threads; one failing send | no lost wake-up, order within a family, no thread left behind | modelled: `OutgoingPump` |
| LAN discovery (`NsdDiscoveryManager.kt`) | leases, listener, stop and restart flags, timers, multicast lock, Wi-Fi callback | start, stop, refresh, shutdown; 4 callbacks of the NSD service, 2 timers, Wi-Fi events | asynchronous confirmation of start and stop; callbacks of earlier listeners; retries | no orphaned scan, nothing kept after the last lease, a lease has a scan | modelled without the list of desktops: `NsdDiscovery` |
| Reconnect coordinator (`ReconnectCoordinator.kt`) | three collector jobs | calls the two managers on state changes | state flow conflates; retries at two rates | an idle trusted phone searches | its calls are actions of `NsdDiscovery` and `PhoneConnection` |
| Phone connection manager (`PairingManager.kt`) | state flow, in-flight flag, active session and job | pair, reconnect, heartbeat loop, retry, unpair | coroutines that outlive the state they set | one attempt at a time; the state shows the session | modelled: `PhoneConnection` |
| Pairing handshake (both sides) | pairing window, prompt lock, dialogs, two trust stores | request, challenge, prompt, confirm, complete | lost last message, time-outs that differ, dialogs that outlive their prompt | both sides trust or neither, except that the desktop alone trusts when the last message is lost; only one's own code makes one trusted | modelled: `PairingHandshake` |
| File transfer (`file_sender.py`, `file_receiver.py`, and the Kotlin pair) | active receives, part files | offer, chunk, complete | several transfers, equal names, empty files | a saved file is the offered one; an honest transfer is not refused; no old file is overwritten | modelled: `FileTransfer`, `FileDelivery` |
| Camera streaming (`runtime.py`, `stream_receiver.py`, `CameraStreamController.kt`, `devices_panel.py`) | handle, callback, receiver; pending request, active session, watchdog | start, approve, acknowledge, frame, stop | late refusals, overtaking commands, lost sessions, timers of closed popups | a frame reaches the popup that asked for it; a stream nobody holds ends | modelled: `CameraShare` |
| Virtual camera and preview (`virtual_camera.py`, `preview_reader.py`) | feeding ffmpeg, its queue and thread; reading ffmpeg | start, push, write, stop; preview and retries | single shots after the close, a full queue, an ffmpeg that dies | nothing is left behind; the newest frame wins | modelled: `VirtualCamera` |
| Notification, call and clipboard records (`runtime.py`) | bounded histories, fingerprints, the latest app call | record, remove, list | reposts, equal contents, announcements outside the lock | pages show what is recorded; buttons act on a call there is | modelled: `Popups`, `NotificationCenter` |
| Native popups (`native_notifications.py`, `call_notifications.py`, `main_window.py`, `app.py`) | processes and ids of notify-send, sets of call ids | show, close, choose | one thread per popup; ids reused by new calls | a popup goes with its call | modelled: `Popups` |
| Application life cycle (`app.py`, `setup_state.py`, the gate, the wizard, `mdns_advertiser.py`) | the systemd unit, the port, the advertisement, the setup file | pause, gate, wizard, start, refresh, switch, close, resume | processes that crash, a second window, a shared file | served means advertised; the service comes back | modelled: `AppLifecycle` |
| Desktop user interface (`devices_panel.py`, `main_window.py`) | cards, dialogs, pages | refresh, click, poll | reads without a common lock, late answers, announcements on the way | what is shown is what there is | modelled: `HomeScreen`, `PhoneDialogs`, `NotificationCenter`, `VirtualCamera`, side by side in `DeviceScreens` |
| Encrypted channel, framing | nonce counters, a write lock per end | read, write | several writer threads; full pipes | order per direction; no circular wait | one direction in `FileTransfer`; frames of a connection that may break in `PairingHandshake` |
| Trust stores, settings, Safe Wi-Fi | JSON files | get, upsert, remove, edit | read-modify-write | | the sets they hold, in `DesktopSession`, `PairingHandshake`, `HomeScreen`; the policy in `HomeScreen` |
| Phone features, phone screens, desktop tools (mirroring, Bluetooth, input), generated code, installers | | | platform I/O | | not modelled |

How they interact: the coordinator starts and stops discovery as the state of
the connection manager changes and hands it the desktops found; the connection
manager opens a TCP connection, which the desktop's server gives a thread of
its own; that thread shares the registry, the device sets and the trust store
with other threads and the GUI. The GUI's commands go through the queues to
the outgoing thread of the session, which shares the encrypted channel with
the session's own thread. What the phone reports goes the other way: the
session's thread records it in the runtime under its lock and announces it
after the lock is given back; the window hears the announcement through its
event queue, the background service in the session's thread itself. Before any
of this runs, service and window hand each other the port through systemd.

## Modules

### DesktopSession

A handler is a thread of `_ThreadedPairingTCPServer`; `pc` says where it is in
`handle_connection`, `_handle_session_init` and `_serve_encrypted_transport`.
The labels are the points between which other threads can be observed: a lock
section, a socket call, a file access. `link` is what the desktop can learn of
its peer: `up`, `shut` (a read ends or raises) or `silent` (the peer is gone
and no FIN came, so a read blocks). `registry[g]` is the token of the server
with number `g`: `PairingServer` creates its registry, and `start()` creates a
`PairingServer`, so sessions of an old server and of a new one are admitted by
different registries. `active`, `requests`, `manual` and `trust` are the sets of
`DesktopRuntime` and the trust store's keys. The GUI thread's `stop()` and
`forget_device()` take several steps (`gui`), the other clicks are one lock
section and so one action.

| Actions | Code |
|---|---|
| `Accept`, `Register` | `process_request_thread`: the socket is registered only when its thread runs |
| `Hello`, `Pair`, `Drop` | `handle_connection`: the first envelope |
| `Lookup`, `Gate`, `Refuse`, `Acquire` | the checks of `_handle_session_init`, in order |
| `SendAck`, `MarkStarted`, `CheckDisconnect`, `ReadEnvelope`, `ReadFails` | the session |
| `MarkClosed`, `Release` | its `finally` |
| `Start`, `StopCloseRequests`, `StopListening`, `StopClearActive` | `start()`, `stop()` and, one after the other, `refresh()` |
| `DisconnectDevice`, `UnpairDevice`, `AllowReconnect`, `ForgetDevice`, `ForgetTrust` | the clicks |
| `PhoneCloses`, `PhoneVanishes`, `TcpGivesUp` | the environment |

Left open, because no property depends on the data: Safe Wi-Fi, key, timestamp
and signature checks (`Refuse` may always happen), the contents of envelopes,
endpoints, Bluetooth presence, status texts. Pairing is only its effect on the
trust store.

### OutgoingPump

`queue[f]` is the queue of family `f`, `permits[g]` the semaphore of server `g`,
`pump[p]` a session with its outgoing thread. `Put` and `Wake` are the two
halves of `_enqueue_outgoing`, which is called by any thread; reading
`self.pairing_server` and releasing its semaphore are one step. `OpenSession`
relies on what `DesktopThreadsProofs` proves (`Exclusion`): a server has one
session at a time. Between servers there is no such rule: `StopServer` shuts the
connections that have been registered, and one that was accepted and not yet
registered may open its session afterwards, beside a session of the next server.
Nor is a session over when its token is back (`EndSession`): its connection is
closed later (`unclosed`, `CloseConnection`), and a successor may open in
between. A thread whose `join` timed out lingers after both; it shares the
semaphore with its successor. Two threads whose connections are there together
(`Beside`) take from the same queues, and one may send a later command while the
other holds an earlier one: `raced` is a history variable with the commands that
were held so, which `SentInOrder` excepts by name. The 17 families are visited
in a fixed order and differ only in their messages, except files, whose sending
can fail without the connection failing (`FileMayVanish`); so two families, one
of them the files', show every interaction of families. `missed` counts commands
given while no server ran: nobody is woken for them, and properties about
wake-ups except them by name.

### NsdDiscovery

Everything in the manager runs on the main looper, so a posted body is one
action and the private functions (`StartScan`, `StopScan`, `FinishRestart`)
are operators that take the fields as they are at the call. What is
asynchronous is the NSD service: `nsd` and `asked` are its state, `inbox` the
callbacks it has posted and the looper has not run. A client's call may have
been posted at any time before it runs, and so needs no queue. Timers are
counts of outstanding posts. `wanted` is a history variable: the leases that
clients hold by their own calls.

### FileTransfer and FileDelivery

One end sends, the other receives; `side` says which receiver it is, and with
it which threads send: to the desktop the phone's session writer (files the
user picks) and its reader (files the desktop pulls), to the phone the outgoing
thread. `chan` is the encrypted channel in that direction: write locks make
messages whole and keep them in order, so it is a queue; a write blocks while it
is full, and what it held may be lost when the sender's end closes. A chunk is
one unit of a file, a digest is the content itself. `source` may change while a
file is sent (`EditSource`). `active` is the receiver's table, which ends with
the session on the desktop and not on the phone; `parts` are part files, `disk`
the files under their final names, which the desktop chooses at the offer and
the phone at completion. `ReceiverThrows` is any exception in a handler; for an
empty file, which never gets a part file, it is the only thing a completion
can lead to. `seen`, `verdict`, `got` and `edited` are history.

`FileDelivery` is what a transfer promises: an offered file is saved as it was
offered, or refused, once. `FileTransfer` maps its stages from `offered` and
`verdict`, the offered document from `offered`, and shares `got`.

Left out: cleaning of names, the folders and fall-backs of saving on the phone
(every one of them chooses a free name), and the texts of results.

### PhoneConnection

`PairingManager` with the calls of the coordinator and the user. `worker[k]` is
the coroutine that makes an attempt, one per way to start it: the user's
`startPairing`, discovery, the fall-back loop, the retry of a dropped session,
and the confirmation of a pairing, which makes its attempt *without* the
in-flight flag. `session[s]` is the coroutine of `runHeartbeatLoop` on socket
`s`; a retry runs inside it. The four references to sockets and jobs
(`pendingSession`, `activeSessionJob`, `activeSocket`, `connectingSocket`), the
two flags, the state shown and the trust store are fields as in the code.

| Actions | Code |
|---|---|
| `StartPairing`, `StartFullPairing`, `Challenge` | `startPairing`, `startFullPairing` |
| `Confirm`, `Confirmed` | the one-shot timer and `confirmDisplayedCodeEntry` |
| `DesktopFound`, `AutoConnect` | `autoConnectTrusted`: its checks, then the flag |
| `Fallback`, `Backoff`, `NextHost`, `DelayCancelled` | `autoConnectTrustedFallback`, `reconnectTrustedWithBackoff` |
| `Try`, `Dial`, `Launch`, `Assign`, `Announce` | `attemptTrustedReconnect` with `startActiveEncryptedSession` |
| `Report`, `PeerCloses`, `SessionStops`, `Retry` | the session and its two handlers of exceptions |
| `Unpair`, `UnpairDone` | `unpairDevice`: the state is read, then sockets are closed |

How often an attempt is repeated is left open, and so are cool-downs, Safe
Wi-Fi's verdict, and what a desktop answers. `reset()` has no caller and is not
modelled.

The races of this module that break no property of the run, because nothing
promises the contrary precisely enough, are listed as hazards: a session that
ends at once leaves `Success` and a finished job behind and is not retried; a
retry is cancelled by the very session it starts, and `Reconnecting` stays; an
unpairing that meets the last steps of an attempt leaves the session on; a
second pairing within the attempt of the first loses its timer.

### PairingHandshake

One TCP connection is one attempt, with two nonces and so one code of its own;
a code that was typed is named by the connection it belongs to. `desk[c]` and
`phone[c]` are how far the two ends are, `toPhone[c]` and `confirmed` the frames
on their way, `lock` the holder of `_prompt_lock`, `answer[c]` the queue of a
prompt, `dialogs` the nested dialogs on the screen, of which the user answers
the top one.

| Actions | Code |
|---|---|
| `ReadRequest`, `Prompt`, `Judge`, `ReadConfirm`, `NoConfirm`, `Trust`, `Complete` | `_handle_pairing_request`, in the order of its reads, locks and writes |
| `TakeAnswer`, `PromptTimesOut`, `AnswerDialog` | `RuntimeBridge.prompt_code` with its 120 s, `_handle_code_request` |
| `StartPairing`, `ReadChallenge`, `SendConfirm`, `ReadDeskConfirm`, `ReadComplete`, `ReadReject`, `PhoneTimesOut`, `LeavePairing` | the phone's `startPairing` to `confirmDisplayedCodeEntry` |
| `OpenWindow`, `WindowEnds`, `DesktopForgets`, `Stop`, `Lose` | the pairing window, Forget, the end of the server, the network |

The server is stopped once and not started again. A restarted server would have
a prompt lock and a trust store object of its own, so that two prompts could be
open and two handlers rewrite the trust file at once; this is known and not
modelled. `FairSpec` makes the two ends go on; it asks nothing of the user, whose
dialog may stay open for ever.

### CameraShare

Both ends of a camera stream, and the popups one after the other. A stream is
its token. `held[p]` is the popup's `_handle`, `timer[p]` a single shot of
`_start_stream`; `handle`, `callback`, `receiver` and `serving` are the runtime's
fields and the servers of the USB route; `pending`, `approving`, `active` and
`stream` are the fields of the phone's controller and the state of each
`CameraSession`. `gui`, `clearing` and `frame` say what a thread is in the
middle of between two lock sections.

| Actions | Code |
|---|---|
| `OpenPopup`, `StartStream`, `PrepareRoute`, `PublishStream`, `SwitchFacing`, `ClosePopup`, `EscapePopup`, `StopRest`, `StopDone`, `SendAck` | `CameraAliveDialog` with `start_camera_stream` and `stop_camera_stream` |
| `PumpPass` | a pass over the camera families: start, acknowledgement, stop |
| `HandleResult`, `ForgetRefused`, `TakeFrame`, `HandFrame` | the session thread's `_record_camera_*` |
| `PhoneGetsStart`, `PhoneGetsAck`, `PhoneGetsStop`, `UserApproves`, `UserRejects`, `StartApproved`, `CameraOpens`, `SendFrame`, `Watchdog`, `StopAny` | `CameraStreamController` |

`EscapePopup` is the end of the popup that `closeEvent` does not see: Escape hides
a dialog by `reject()`, and stream, handle and timers stay. Such a popup still
holds its stream, so `RevokedStreamEnds` does not speak of it; what the user is
told does (`ClosedPopupStopsCamera`, refuted).

Fairness is that of the camera's opening and of the watchdog, which the phone
schedules by delays; nothing else is needed for a stream to end.

### Popups

The records of the runtime as far as popups depend on them, the two programs
that show popups (`program`), the manager's and the controller's tables, and one
thread per popup. SIM calls are keys of the same tables beside the notification
ids, as the two classes run notify-send in the same way. A thread has the number
of the report that led to its popup, which a refresh can ask for only once
(`StartedOnceHolds` proves it), so no thread's place is used twice. `early` and
`lost` are history: popups whose close came too early to find them, and popups
whose table entry another popup's thread took away. Whether a call has ended is
judged by what the phone has said of it (`notes`, `simSays`), not by what the
program remembers: `ringing` keeps the id of a call that is reported again as
missed or as a message (`Turned`), and a SIM call that is taken on the phone
leaves its popup as it is (`Taken`). These two and the two histories are the
four ways in which a popup outlives the ringing of its call.

| Actions | Code |
|---|---|
| `RecordNotification`, `RemoveNotification`, `RecordClipboardUpdate`, `SimRings`, `SimOffHook`, `SimIdle` | the session thread: `_record_notification` and the others, `handle_call_metadata_log` |
| `Refresh`, `RefreshGone`, `RefreshRinging`, `RefreshActive`, `RefreshMessage` | `_refresh_notifications` and its twin in `app.py`, per notification |
| `Open`, `ReadId`, `Leave`, `TimeOut`, `Forget`, `Finish` | `run_notification` and `_run` |
| `SimActs` | what is chosen in the popup of a SIM call |
| `Appear`, `Choose` | the notification server and the user (external) |

### AppLifecycle

`stage` is where each process is: the service from systemd's start to serving,
failing and waiting for its restart; a window from the pause of the service
through gate, wizard and start to its switch, its refresh and its end. `port`,
`ads` and `setup` are what they share, `loaded` what a window has read of the
setup file and will write over. A read and a write of the file are two steps, as
are the two halves of `DesktopRuntime.start` (advertise, then bind).

| Actions | Code |
|---|---|
| `ServiceStarts`, `ServiceFails`, `ServiceRestarts` | `_run_background_service` under `build_systemd_unit` |
| `AskActive`, `StopService`, `AskEnabled`, `StartService` | `_pause_background_service_for_gui`, `_resume_background_service_after_gui` |
| `PassGate`, `ExitGate`, `SaveSkipped`, `AfterGate`, `SaveSafeWifi`, `FinishWizard`, `InstallService` | gate and wizard |
| `GuiStarts`, `GuiCannotStart`, `SwitchOn`, `SwitchOff`, `StartRefresh`, `GuiRefreshes`, `RefreshFails`, `CloseWindow`, `Killed` | the window |

### DeviceScreens: HomeScreen, PhoneDialogs, NotificationCenter, VirtualCamera

Four modules that share no variable, one per screen of the desktop, each with
its own next-state relation and its own `...Spec`. `DeviceScreens` puts them side
by side and lets `screen` choose the one that moves, so that one run explores
each of them completely: its state space is the sum of theirs and not the
product. They do not interact in the code either, beyond the sessions that
`DesktopSession` is about.

- `HomeScreen`: the cards, their buttons and dialogs, the settings page and the
  safe networks. `cards` is `_last_devices`; `glimpse` is what `list_devices` has
  copied of the registry before it reads the trust store (`RefreshReads`,
  `RefreshShows`). The session thread's changes (`MarkConnected`, `AskedToClose`,
  `Paired`, `RecordBluetooth`) and their announcement (`Tell`) are separate steps.
- `PhoneDialogs`: contacts, files, dialer, shared apps. A request waits in its
  family's queue, is with the phone, and is answered (`Send`, `Answer`); the
  dialogs look at the runtime by timers (`PollContacts`, `PollFiles`), and the
  280 ms timer of the search field outlives its dialog (`SendLateSearch`).
  `FileReceived` is a pulled file that arrives, whether or not its answer did.
- `NotificationCenter`: the two pages. `RecordNotification`, `RemovePosted` and
  `SetCallStatus` change the records, `Announce` tells the window, `RefreshPage`
  rebuilds the open page from them; `HideRow`, `HideCall`, `ClearAll`,
  `StartReply` are the user's.
- `VirtualCamera`: `feed[s]` is a `VirtualCameraSink` with its ffmpeg, its queue
  and its writing thread. A frame is pushed in two steps, the look at the sink and
  its process (`HandleFrame`) and the put (`PushFrame`), and `stop()` or the writer
  (`StartWrite`) may come between them; `PreviewDue`, `RetryDue`, `StartDue` are
  single shots that nothing cancels. `CloseCamera` is the close by the button or
  the window, which cleans up; `EscapeCamera` leaves the popup with everything
  running, and the property about closed popups does not speak of it
  (`LeftPopupLeavesNothing` does, and is refuted).

Fairness: the window handles its announcements and timers, the session thread
announces what it changed, requests are sent and answered while a phone is
connected. The last is what `OutgoingPump` shows for a session that lasts; of
the phone it assumes that it answers.

## Runs

| Run | Bounds | Distinct states | Shows |
|---|---|---|---|
| `DesktopSession_safety` | 2 phones, 2 threads, 2 servers, all clicks | 1,282,424 | `RegistryNamesHolder`, `OneSessionPerServer`, `ActiveHasSession`, `CloseErasesOwnEntry` |
| `DesktopSession_fair` | 1 phone, 2 threads, 1 server, Disconnect, Unpair, stop | 14,618 | `LiveSessionListed`, `RequestSpentBySessionEnd`, `UnpairEndsSession`, `ClosedLinkFreesServer` |
| `OutgoingPump_safety` | 1 family (the files'), 2 commands, 2 sessions, 2 servers, joins may time out, files may vanish | 2,527,318 | `SentInOrder` |
| `OutgoingPump_fair` | 2 families, 3 commands, 1 session at a time, 1 server | 230,158 | `NoLostWakeup`, `CommandIsTaken`, `StoppedPumpEnds` |
| `NsdDiscovery_fair` | 2 listeners, 2 networks, 2 refusals, 1 retry outstanding at a restart | 59,581 | `NoOrphanScan`, `EverythingReleased`, `RestartLeadsToScan` |
| `FileTransfer` | 2 transfers of one name, files of none or two chunks, 3 messages in the channel, 2 sessions, 1 edit, both directions | 385,310 | `NoFalseRefusal`, `NoOldFileReplaced`, `DeliversOrRefuses` (the refinement of `FileDelivery`) |
| `PhoneConnection` | 1 desktop, 1 click of each kind, 2 sessions at a time, 6 sockets, any number of attempts | 2,500,196 | `FlagHeldByOne`, `SocketsOwned`, `PairingHasOwner` |
| `CameraShare` | 2 popups, 2 streams, 1 heartbeat waiting, 1 envelope on its way to the desktop, 1 lost session | 1,095,695 | `FrameReachesRequester`, `OldStopSparesNewStream`, `RevokedStreamEnds` |
| `Popups` | 1 notification id that is used again, 5 contents, 2 callers, 2 texts, 3 reports | 1,878,230 | `StalePopupHasCause`, `SettledUiFollowsCalls`, `ControlFitsCall` |
| `AppLifecycle` | 2 windows, 2 optional checks, 1 failure, both advertising backends | 245,164 | `AdvertisedMeansListening`, `ServiceComesBack`, `SkippedStaysSkipped` |
| `PairingHandshake` | 2 phones, 2 connections, 1 lost connection, 1 forgetting | 358,664 | `EndsAgree`, `TrustNeedsItsCode`, `QueuedEnds` |
| `DeviceScreens` | per screen: 1 phone, 2 networks, 5 acts; 2 texts, 2 folders, 3 requests, 1 connection; 2 ids, 2 posts; 2 sinks, 2 frames, queue of 1, 1 retry, 1 fault | 526,769 | `CardsFollowDevices`, `UnpairedIsShown`; `AnswersAreShown`; `RowsFollowRecords`; `ClosedPopupLeavesNothing`, `NewestFrameKept` |

Each `TypeOK` stays in its module as documentation of the state and as the
start of a proof; all of them are proved.

Why the bounds are enough. Two threads are a holder and a rival; two phones
distinguish a rival from oneself; two servers are before and after a restart,
and a third would only repeat the second. The fair run of `DesktopSession`
leaves Reconnect and Forget to the safety run: after either of them a request is
taken back on purpose while the session goes on, which is not what its
properties are about; and it has one server, because across a restart the old
session's clean-up does erase the entry of the new one (listed as a hazard). In
`OutgoingPump`, order is a matter of one family, as families have queues of
their own: the safety run has one, the files', with two commands for the one
that overtakes and the one that is overtaken, and two sessions for the two
threads that may hold them; the fair run has two families and three commands, so
that a pass takes commands for which later wake-ups were meant. With joins that
time out, a lingering thread can consume the wake-up of its successor's command,
so `NoLostWakeup` is stated for joins that do not; `MaxSpare` bounds the
wake-ups left over from earlier sessions, which can only help. In
`NsdDiscovery`, a listener that nobody refers to any more stands for a new one;
two suffice for a running scan and the callback of the one before. In
`FileTransfer`, two transfers are the two senders of the phone, or two files
after each other; one name makes them collide; two chunks allow an offset to be
wrong, an empty and a two-chunk file a size to be, two files of equal size a
digest to be; the second session meets what the first left behind. In
`PhoneConnection`, a socket that nothing refers to stands for a new one (`Name`
only says which, so that TLC need not try them all; `OpenSocket` waits when
there is none, which six sockets never let happen); two sessions are an old one
that ends and a new one; the two clicks are a pairing that meets an unpairing,
in either order; the trust may also be revoked by the desktop. In
`PairingHandshake`, two phones are the one whose user types and the one that
waits for the prompt; a phone that tries again is the case of one phone with
both connections. In `CameraShare`, two streams are an old and a new one, of one
popup (a switch of cameras) or of two; two popups show what reaches the wrong
one. In `Popups`, three reports ring, take and end a call, or ring, end and ring
again under the same id; the thread of the popup of the first may still be
anywhere by then. In `AppLifecycle`, the second window is the one that finds the
service already paused; one failure suffices to put the service into its
automatic restart or a window without an advertisement. In `DeviceScreens`,
histories of one entry are full at the second; a queue of one frame is full at
the second; three requests are an answered one, one on its way and one waiting.
Checking for deadlock is off in every run but those of `DesktopSession`:
commands, clicks and reports are bounded, and the system may simply stop.

Each property has a mutant, a variant of one action written before it
in its module (marked "Faulty variant") that makes the property fail in the
same run.

### Fairness

`FairSpec` assumes weak fairness of what the program's own threads do: handler
threads and the pending steps of the GUI thread; the outgoing thread, the
second half of giving a command, and the end of a session whose link is gone;
the main looper and its timers; the thread that receives files; the threads of
both ends of a pairing; the camera's opening and its watchdog; systemd and the
steps of a window that wait for no user; the announcements, polls and timers of
the screens. Of the environment it assumes that a phone
that is connected goes on sending (it sends a heartbeat every 15 s, which
bounds the wait in `read_envelope`) and answers what it is asked, and that the
NSD service answers. It assumes nothing of the user, of new commands or of the
network, and a `silent` connection is under no obligation to be noticed.

## Findings

Some promises of the documentation are stated in the modules and refuted by TLC;
they are not among the runs, which check what holds. To see one fail, check it
as the only property (`OnlyWantedLeases` as an invariant, the others as temporal
properties) of the module's fair specification, with the constants named here.

1. `ForgetEndsSession` (`DesktopSession`; `OnePhone`, two handlers, one server,
   `UserOps = {"forget"}`): `forget_device` discards the disconnect request
   (`runtime.py:963`), and a running session never looks at the trust store
   again, so a forgotten phone stays connected until it leaves by itself; it is
   not in the device list either. The README says that the next contact is a new
   pairing.
2. `VanishedPhoneFreesServer` (`DesktopSession`; the same with
   `UserOps = {"unpair"}`): the read of a session has no timeout and nothing
   counts heartbeats, so a phone that vanished keeps the server busy and is
   refused itself when it is back, until TCP gives up.
3. `CommandIsTaken` (`OutgoingPump_fair` with `FileMayVanish = TRUE`): one failed
   file send ends the outgoing thread of a session that otherwise goes on.
4. `OnlyWantedLeases` (`NsdDiscovery_fair` with `MaxFailures = 0`,
   `MaxRetries = 0`): a restart after a change of Wi-Fi takes the user's lease,
   and the scan outlives the reconnect it was for.
5. `LeaseHasScan` (the same): a start between a stop and its confirmation is
   forgotten.
6. `ClosedPopupStopsCamera` (`CameraShare`; `Popups = {1}`, `MaxDrops = 0`): a
   popup closed within 350 ms of a switch of cameras starts the new stream all
   the same; its text says that closing it stops the phone's camera.
7. `LeftPopupLeavesNothing` (`VirtualCamera`, in the run `DeviceScreens`): a popup
   left by Escape sends no `closeEvent`, the only place that cleans up; both
   ffmpegs, the timers and the stream go on. `ClosedPopupStopsCamera` fails in
   this way too.

Found while modelling, and present in the models as the exceptions that the
properties name:

8. Popups of a call outlive its ringing when the close comes before the popup's
   thread knows its id, when another popup of the same id has taken the entry out
   of the table (`early` and `lost` in `StalePopupHasCause`), when a SIM call is
   taken on the phone (`Taken`: OFFHOOK closes no popup), and when an app call is
   reported again as missed or as a message under its id (`Turned`: the id
   stays among the ringing ones, which `SettledUiFollowsCalls` excepts too).
9. Commands of one family are overtaken between two connections: one that outlived
   its server, or whose session has given its token back with a thread left
   writing, and that of the next session (`raced` in `SentInOrder`).
10. A wizard finished where the Wi-Fi has no name drops the checks skipped in the
   gate a moment ago (`SkippedStaysSkipped`).
11. A service that waits for its automatic restart is not paused by a window,
   and a window that crashes does not bring it back (`ServiceComesBack`); a name
   that zeroconf finds taken hangs the process that advertises it.

Outside the models: with a phone on USB and no session, Mirror launches the LAN
mirror; the notification page of a device shows what every phone has posted; a
repeated call of one caller is missing from the history.

## Proofs

For every value of the constants, TLAPS proves each invariant and each action
property that the runs check, the refinement of `FileDelivery`, and the type
invariant of every module that states one. A `...Proofs` module has, for each component it is
about, the parts of an inductive invariant, lemmas about the operators that the
actions are built from, one lemma per action or group of actions, and the
theorems: the invariant first (`InvariantHolds`, `PopupsInvHolds`, `HomeInvHolds`
and so on), then the properties. Every inductive invariant was first checked by TLC
as an invariant of the component's run.

| Module | Theorems (property) | Assumptions beside those on the constants |
|---|---|---|
| `DesktopThreadsProofs`, `DesktopSession` | `HolderCorrect` (`RegistryNamesHolder`), `Exclusion` (`OneSessionPerServer`), `ListTellsTheTruth` (`ActiveHasSession`), `CloseIsPrivate` (`CloseErasesOwnEntry`) | none |
| | `RequestsAreKept` (`RequestSpentBySessionEnd`) | one server |
| | `LiveSessionsAreShown` (`LiveSessionListed`) | one server, no Reconnect, no Forget |
| `DesktopThreadsProofs`, `Popups` | `StalePopupHasCauseHolds`, `SettledUiFollowsCallsHolds`, `ControlFitsCallHolds`, `StartedOnceHolds` (a popup's thread is started once) | none |
| `OutgoingPumpProofs` | `CommandsKeepOrder` (`SentInOrder`) | none |
| | `WakeupsSuffice` (`NoLostWakeup`) | `JoinMayTimeOut = FALSE` |
| | `OneServerKeepsOrder` (until a restart, order without exception) | `JoinMayTimeOut = FALSE` |
| `NsdDiscoveryProofs` | `NoScanIsOrphaned` (`NoOrphanScan`), `StopsAreAnswered` (`StopWillBeAnswered`) | none |
| `FileTransferProofs` | `HonestFilesArrive` (`NoFalseRefusal`), `OldFilesAreSafe` (`NoOldFileReplaced`), `DeliveryIsKept` (`DeliversOrRefuses`, the refinement) | none |
| `PhoneConnectionProofs` | `FlagIsHeldOnce` (`FlagHeldByOne`), `NoSocketLeaks` (`SocketsOwned`), `PairingIsOwned` (`PairingHasOwner`) | none |
| `PairingHandshakeProofs` | `BothEndsAgree` (`EndsAgree`), `TrustIsEarned` (`TrustNeedsItsCode`) | none |
| `CameraShareProofs` | `FramesAreDelivered` (`FrameReachesRequester`), `LateStopIsHarmless` (`OldStopSparesNewStream`) | none |
| `WindowProofs`, `AppLifecycle` | `OffersOnlyWhatListens` (`AdvertisedMeansListening`), `SkippedChecksStay` (`SkippedStaysSkipped`) | none |
| `WindowProofs`, the screens | `CardsFollowDevicesHolds`, `RowsFollowRecordsHolds`, `ClosedPopupHolds` (`ClosedPopupLeavesNothing`), `NewestFrameHolds` (`NewestFrameKept`) | none |
| | `LastAnswerIsWanted` (the last listing that arrives is of the folder the dialog wants) | none |

The assumptions on the constants are those named in each component's module; they
are the types of the constants, that the null values are none of the values, for
`Popups` that a notification with an action of a call is not a mere message (the
phone's listener sorts them so), and for `FileTransfer` that there are finitely many transfers (a disk holds finitely
many files, which is why a free name can be found).

**DesktopSession.** Exclusion alone is not inductive: that no second handler is
between acquire and release follows only if the registry names the one that is,
and `RegistryNamesHolder` needs to know that a registry's holder is a handler in
session *of that server* (`HolderInSession`), which needs that a handler past its
first envelope has a device and a server (`HandlerKnows`). `ActiveHasSession` is
carried along because `MarkClosed` removes the entry in the same step in which
its witness goes. `CloseIsPrivate` is an action property: a step from `close` to
`release` is `MarkClosed` of that handler, and by exclusion no other handler of
the server is in session. Two properties hold only of one server, because across
a restart the old session's clean-up erases the entry and the request of the new
one; `LiveSessionListed` also asks that no click takes a request back after the
entry was hidden. These are the settings of `DesktopSession_fair`, but with
any number of phones and threads. Its invariant adds that no thread belongs to a
server that was not started, and that the listener is off when `stop()` clears
the list.

**OutgoingPump.** Order needs what is sent, taken and queued in one line:
`LaneInOrder` puts what phones received before what is queued, and
`TakenInOrder` puts the command a thread is writing between them. A server has
one session (`OneOpen`), but a connection outlives its session's token, and
perhaps its server (`LinkIsPresent`: one that carries data has a session in it
or is about to be closed). So several threads may hold commands of a family at
once, and `HeldInOrder` says of two of them that the earlier command is in
`raced` as soon as the other was taken: threads with a connection are `Beside`
each other (`ConnectedAreBeside`), and taking records what those beside hold. A
thread whose connection is gone can lose its command but never send it late.
`OneServerKeepsOrder` says where the exception does not arise: until the first
restart, with sessions that outwait their threads, nothing is raced for.
`NoLostWakeup` speaks of a sleeping thread, but the next sleep is reached from
the middle of a pass; so `WInv` counts for each thread the wake-up it has taken
(`Spent`), and says that every queue is covered by the wake-ups on their way and
that one (`QueuesCovered`), whichever family the thread has come to. The
assumption is that of the run: `outgoing_thread.join` gives a write one second,
and a thread that outlives it shares the semaphore with its successor and may
consume its wake-up.

**NsdDiscovery.** The manager is sound if it refers to the scan that runs
(`KnowsScan`) and a stop it waits for has an answer to come (`StopHasAnswer`); a
final callback lets it forget its listener, which is right only because such a
callback is posted by a service that is done with that listener
(`FinalIsOver`). The parts have parameters, because the private functions are
called in the middle of a step; the lemmas about `StartScan`, `StopScan` and
`FinishRestart` are stated for any fields they may find.

**FileTransfer.** A refusal is false when size, offset and digest are right, so the
invariant has to say that what is in the channel is right: for a transfer whose
source was not edited, its messages are numbered (`Rank`), increase, and have no
gap between what the receiver expects and what the sender sends next (`Gapless`,
`SenderIsNext`); each carries what belongs to its number (`HonestMessages`), and
the part file is the beginning of the offered file (`HonestParts`). For edited
ones the invariant says only what holds of any transfer: offer first, completion
last (`InTurn`, `OfferIsFirst`), settled once (`Settled`, `SavedIsLast`).
`NoOldFileReplaced` needs that a chosen name is new: `UniqueIsNew` is a pigeonhole
argument over the names on the disk. `DeliveryIsKept` goes through the actions:
an offer is `FileDelivery`'s `Offer`, a verdict its `Deliver` or `Refuse`, everything
else a stutter.

**PhoneConnection.** None of the three properties is inductive. They follow from
who is under way (`FlagIsTaken`), that coroutines have sockets of their own
(`WorkersHaveSockets`), that nothing refers to a socket whose session has not
begun (`LaunchBeginsSession`), and that nobody who closes sockets has the
pending one (`PendingIsSafe`, `ShownPairing`).

**PairingHandshake.** What a phone makes of the next frame depends on what the
desktop was when it sent it: `EndIsAnnounced` relates the frames on their way to
the end of the thread that sent them, and `CodeWasTyped` says that a thread past
its prompt was answered with its own code, though dialogs outlive their prompts.

**CameraShare.** Who is called for a frame depends on the callback at the time its
token is compared: `HandleHasCallback` and `GuiKnows` say that handle, callback
and owner agree in every state between two lock sections.
`LateStopIsHarmless` is proved action by action: reading a stop of one token ends
no stream of another and takes no request for another away.

**AppLifecycle.** `AdsFollowStage` says of each stage whether the process is
advertised, `OnHasPort` and `TypeOK` that being on and having the port are the
same; crashed windows take no further steps (`CrashedAreGone`).

**Popups.** Three things outlive the calls that caused them: threads of popups,
the tables that know how to close these, and what the refresh has seen. A close
is missing for calls that the program does not see end (`Turned`, `Taken`).
Where there is one it can miss the popup for one of two reasons only, because a
close that finds no id is recorded (`MissedCloseIsEarly`: a thread before its
id, whose call has ended, is in `early`), and because a thread with an id is in
the table under its key or in `lost` (`WaitingCanBeClosed`). Neither is
inductive while a thread's place may be used again, so `Numbers` bounds what has
been started by the reports seen and gives each report's number to one
notification of one id, and `OnePopupEach` says that a report that is still in
`view`, or about to be refreshed, had its popup if its number is used.
`SettledUiFollowsCalls` is the case `todo = {}` of `UiFollowsRecords`, which
excepts the ids that are yet to be refreshed. `ControlFitsCall` needs
`LatestIsKept`, that the latest app call is one of the records.

**The screens.** Each theorem is proved of its screen alone. That
`DeviceScreens` changes nothing about it is a lemma (`ScreensImplementEach`): a
step there is a step of the screen that moves, and a stutter of the others.

`HomeScreen`: a refresh shows what two reads have found, so what the first of them
took is right only if nothing was announced since (`ReadStillHolds`).
`NotificationCenter`: rows are told apart by the times of their posts, which no two
posts of the history share (`HistoryOrdered`); with no page there are no
rows (`ClosedPageIsEmpty`). `VirtualCamera`: only the sink the popup refers to has a
running process (`OnlySinkRuns`), what the window is at says whether it refers to
one, and after a close it does not (`SinkFollowsGui`), and the preview reads only
while there is one (`ReaderFollowsSink`); a frame on its way goes to the sink it has found
(`PushGoesToSink`), which may have been stopped since. `PhoneDialogs`: requests of
one family stay in their queue and in the order they were made (`OwnQueue`), and
the newest request for a folder is for the one that is wanted
(`NewestListIsWanted`). So an older answer may show for a while, but not last. That
it is answered at all is liveness, and checked (`AnswersAreShown`).

Only model-checked: liveness (`UnpairEndsSession`, `ClosedLinkFreesServer`,
`CommandIsTaken`, `StoppedPumpEnds`, `EverythingReleased`, `RestartLeadsToScan`,
`RevokedStreamEnds`, `ServiceComesBack`, `QueuedEnds`, `UnpairedIsShown`,
`AnswersAreShown`), and the refuted promises under Findings. Liveness under
fairness, `ENABLED` and induction over data are out of reach of the provers used
here, and stay with TLC.

## Not modelled

- The phone's features and screens, the desktop's tools (mirroring, hands-free,
  input), theme, icons and the panels of `backend_panels.py`: calls of the
  platform one after the other, little state of their own.
- Generated message classes, installers, build files.
- Keys, nonces, signatures and byte layout of the channel: the models take a
  message as whole and authentic, or the connection as ended.
- Both directions of a session's channel in one model. By reading, the phone's
  reader (sending a pulled file) and the desktop's session thread (waiting for the
  write lock of its pump) can wait for each other with both pipes full; no read
  or write has a timeout. The write locks of both ends, four threads and two pipes
  would make a model of its own.
- The composition of `PhoneConnection` with `NsdDiscovery`. Each has the other's
  calls as free actions, which is more than the coordinator does.
- Races that are known and that no property is about: a session of the phone that
  ends while another attempt is in flight is not retried; a restart leaves queued
  commands without a wake-up; the two lock sections of
  `_record_camera_start_result` may forget a newer stream's receiver; closing the
  pipe of the virtual camera waits for a write that the device blocks, on the
  window's thread; two trust store objects rewrite one file across a restart.
