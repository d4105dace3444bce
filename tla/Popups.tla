------------------------------ MODULE Popups ------------------------------
(***************************************************************************)
(* What the phone reports of notifications, calls and its clipboard, and   *)
(* the popups the desktop makes of it: the records of DesktopRuntime, the  *)
(* window MainWindow or the background service that shows them, and the    *)
(* two classes that run notify-send, NativeNotificationManager for what    *)
(* has a notification and CallNotificationController for SIM calls.        *)
(*                                                                         *)
(* Threads: the session thread, which records; the thread that refreshes   *)
(* the popups (the window's own, told by a signal; in the background       *)
(* service the session thread itself); one thread per popup, which starts  *)
(* notify-send, waits for it and hands the user's choice on.  A section    *)
(* under a lock is a step.  SIM calls have the key Sim in the tables.      *)
(* Left out: pictures and wording, the list of past calls, replies, the    *)
(* popups of the clipboard (nobody closes them), and the button of the     *)
(* window that refreshes without a report.                                 *)
(***************************************************************************)
EXTENDS Naturals, Sequences, FiniteSets

CONSTANTS
  Ids,         \* notification ids; the phone uses an id again for a new call
  Contents,    \* what a notification may say: a kind and its actions
  Callers,     \* callers of SIM calls
  Texts,       \* texts copied on the phone
  KeepClips,   \* how many clipboard updates are kept (30 in the code)
  MaxReports,  \* bound: reports of the phone
  Sim,         \* the key of the popup of SIM calls
  None         \* no notification, popup, call or choice

Acts == {"answer", "decline", "hangup", "reply"}
CallActs == {"answer", "decline", "hangup"}
Kinds == {"ringing", "ongoing", "other", "missed", "message"}

ASSUME ContentsAssumption ==
  /\ Contents \subseteq [kind : Kinds, acts : SUBSET Acts]
  \* the phone takes what has an action of a call for a call
  /\ \A c \in Contents : c.kind = "message" => c.acts \cap CallActs = {}
  /\ KeepClips \in Nat \ {0} /\ MaxReports \in Nat
  /\ Ids \cap Callers = {} /\ Sim \notin Ids /\ None \notin Ids \cup {Sim} \cup Callers
  /\ \A i \in Ids \cup Callers : i \notin Nat
  /\ None \notin Nat \cup Acts /\ None \notin [says : Contents, at : Nat]

\* Each report leads to one popup at most, which has its number.
Runs == 1..MaxReports
Keys == Ids \cup {Sim}
Note == [says : Contents, at : 1..MaxReports]

VARIABLES
  program,    \* the window, or the background service
  notes,      \* _notifications with their fingerprints
  latest,     \* the app call that call controls go to, and its actions
  clips,      \* _clipboard_update_order, by the texts of the updates
  clipTexts,  \* _clipboard_fingerprints
  reports,    \* how many reports have come
  due,        \* notifications_changed has been signalled and not yet handled
  view, todo, \* the notifications a refresh works on, the ids left to do
  ringing, answered, ongoing,  \* the three sets of call ids
  shown,      \* _native_notification_fingerprints
  known,      \* the ids whose entry in _native_notifications_by_id is a call
  run,        \* per popup, its thread
  alive,      \* the popups whose notify-send process runs
  screen,     \* the popups the user sees
  procs,      \* _processes of the manager, _process of the controller
  sids,       \* _notification_server_ids, _server_id
  simKey, simAnswered, simOngoing,  \* the controller's _active_key, flag, key
  asked,      \* the last call control that was queued
  simSays,    \* history: the caller that rings by the phone's last report
  early, lost \* history, of the threads that still wait: popups whose
              \* close came before their id was read; popups whose id the
              \* thread of another popup has removed

recordVars == <<notes, latest, clips, clipTexts, reports>>
uiVars     == <<view, todo, ringing, answered, ongoing, shown, known>>
tables     == <<procs, sids>>
threadVars  == <<run, alive, screen, tables, early, lost>>
simVars    == <<simKey, simAnswered, simOngoing, simSays>>
popupsVars == <<program, recordVars, due, uiVars, threadVars, simVars, asked>>

NoCall == [id |-> None, acts |-> {}]
Unused == [of |-> None, ring |-> FALSE, acts |-> {}, at |-> "unused", pick |-> None]
Stages == {"unused", "spawned", "open", "notified", "waiting", "late", "over", "done"}

PopupsTypeOK ==
  /\ program \in {"window", "service"}
  /\ notes \in [Ids -> Note \cup {None}] /\ view \in [Ids -> Note \cup {None}]
  /\ shown \in [Ids -> Note \cup {None}]
  /\ latest \in [id : Ids \cup {None}, acts : SUBSET Acts]
  /\ clips \in Seq(Texts) /\ Len(clips) <= KeepClips /\ clipTexts \subseteq Texts
  /\ reports \in 0..MaxReports /\ due \in BOOLEAN /\ todo \subseteq Ids
  /\ ongoing \subseteq answered /\ answered \subseteq Ids /\ ringing \subseteq Ids
  /\ known \subseteq Ids
  /\ run \in [Runs -> [of : Ids \cup Callers \cup {None}, ring : BOOLEAN,
                      acts : SUBSET Acts, at : Stages, pick : Acts \cup {None}]]
  /\ alive \subseteq Runs /\ screen \subseteq Runs
  /\ procs \in [Keys -> Runs \cup {None}] /\ sids \in [Keys -> Runs \cup {None}]
  /\ simKey \in Callers \cup {None} /\ simOngoing \in {None, simKey}
  /\ simAnswered \in BOOLEAN /\ simSays \in Callers \cup {None}
  /\ asked \in [to : Keys \cup {None}, act : Acts \cup {None}]
  /\ early \subseteq Runs /\ lost \subseteq Runs

PopupsInit ==
  /\ program \in {"window", "service"}
  /\ notes = [i \in Ids |-> None] /\ latest = NoCall
  /\ clips = <<>> /\ clipTexts = {} /\ reports = 0 /\ due = FALSE
  /\ view = [i \in Ids |-> None] /\ todo = {}
  /\ ringing = {} /\ answered = {} /\ ongoing = {} /\ known = {}
  /\ shown = [i \in Ids |-> None]
  /\ run = [r \in Runs |-> Unused] /\ alive = {} /\ screen = {}
  /\ procs = [k \in Keys |-> None] /\ sids = [k \in Keys |-> None]
  /\ simKey = None /\ simAnswered = FALSE /\ simOngoing = None /\ simSays = None
  /\ asked = [to |-> None, act |-> None]
  /\ early = {} /\ lost = {}

-----------------------------------------------------------------------------
(* The session thread: what the runtime records.                           *)

CallLike(c)   == c.kind # "message"
ActiveCall(c) == CallLike(c) /\ c.kind # "missed"

\* The session thread takes the next report; in the background service it
\* first does the refresh of the last one.
Receive ==
  /\ reports < MaxReports /\ reports' = reports + 1
  /\ program = "service" => ~due /\ todo = {}

\* _record_app_call_actions_locked: a call without actions changes nothing.
RecordAppCallActions(i, c) ==
  LET calls == c.acts \cap CallActs
  IN latest' = IF CallLike(c) /\ calls # {} THEN [id |-> i, acts |-> calls]
               ELSE latest

RecordNotification(i, c) ==
  /\ Receive
  /\ IF notes[i] # None /\ notes[i].says = c
     THEN UNCHANGED <<notes, latest, due>>
     ELSE /\ notes' = [notes EXCEPT ![i] = [says |-> c, at |-> reports']]
          /\ RecordAppCallActions(i, c)
          /\ due' = TRUE
  /\ UNCHANGED <<program, clips, clipTexts, uiVars, threadVars, simVars, asked>>

\* Faulty variant: the call that has gone stays the one controls go to.
RemoveKeepsLatest(i) ==
  /\ Receive
  /\ IF notes[i] # None /\ CallLike(notes[i].says)
     THEN notes' = [notes EXCEPT ![i] = None] /\ due' = TRUE
     ELSE UNCHANGED <<notes, due>>
  /\ UNCHANGED <<program, latest, clips, clipTexts, uiVars, threadVars, simVars, asked>>

\* Faulty variant: a call that goes is removed without telling anyone.
RemoveQuietly(i) ==
  /\ Receive
  /\ notes' = [notes EXCEPT ![i] = IF @ # None /\ CallLike(@.says) THEN None ELSE @]
  /\ latest' = IF latest.id = i /\ notes'[i] = None THEN NoCall ELSE latest
  /\ UNCHANGED <<program, clips, clipTexts, due, uiVars, threadVars, simVars, asked>>

\* Only what looked like a call is removed.
RemoveNotification(i) ==
  /\ Receive
  /\ IF notes[i] # None /\ CallLike(notes[i].says)
     THEN /\ notes' = [notes EXCEPT ![i] = None]
          /\ latest' = IF latest.id = i THEN NoCall ELSE latest
          /\ due' = TRUE
     ELSE UNCHANGED <<notes, latest, due>>
  /\ UNCHANGED <<program, clips, clipTexts, uiVars, threadVars, simVars, asked>>

\* Every update has an id of its own; a text that is still kept is refused.
RecordClipboardUpdate(t) ==
  /\ Receive
  /\ IF t \in clipTexts THEN UNCHANGED <<clips, clipTexts>>
     ELSE LET all == Append(clips, t)
              drop == Len(all) > KeepClips
          IN /\ clips' = IF drop THEN Tail(all) ELSE all
             /\ clipTexts' = (clipTexts \cup {t}) \ (IF drop THEN {Head(all)} ELSE {})
  /\ UNCHANGED <<program, notes, latest, due, uiVars, threadVars, simVars, asked>>

-----------------------------------------------------------------------------
(* Starting and closing popups.                                            *)

KeyOf(r) == IF run[r].of \in Ids THEN run[r].of ELSE Sim

\* A thread is started for the popup; it asks for a choice if acts # {}.
Spawn(table, r, of, ring, acts) ==
  [table EXCEPT ![r] = [of |-> of, ring |-> ring, acts |-> acts,
                        at |-> "spawned", pick |-> None]]

\* close of either class: what the tables hold is ended, and forgotten.  The
\* end of the process alone may leave the popup on the screen.
Close(k) ==
  /\ procs' = [procs EXCEPT ![k] = None] /\ sids' = [sids EXCEPT ![k] = None]
  /\ alive' = alive \ {procs[k], sids[k]}
  /\ screen' = screen \ {sids[k]}
  /\ early' = early \cup {r \in Runs : /\ KeyOf(r) = k
                                       /\ run[r].at \in {"spawned", "open", "notified"}}
  /\ UNCHANGED lost

KeepPopups == UNCHANGED <<alive, screen, tables, early, lost>>

\* The routes of a popup; Answer is offered only while Bluetooth is connected.
Routes(c, bluetooth) ==
  (c.acts \cap {"reply"})
  \cup {a \in {"answer"} : bluetooth /\ CallLike(c) /\ a \in c.acts}
  \cup {a \in {"hangup"} : CallLike(c) /\ c.acts \cap {"hangup", "decline"} # {}}

-----------------------------------------------------------------------------
(* _refresh_notifications of the window, notifications_changed of the      *)
(* background service.                                                     *)

\* The signal is handled: all signals since the last refresh at once.
Refresh ==
  /\ due
  /\ todo = {}
  /\ due' = FALSE
  /\ view' = notes
  /\ todo' = ringing \cup ongoing \cup {i \in Ids : notes[i] # None}
  /\ UNCHANGED <<program, recordVars, ringing, answered, ongoing, shown, known,
                 threadVars, simVars, asked>>

Done(i) == todo' = todo \ {i} /\ view' = [view EXCEPT ![i] = None]

\* A tracked call is no longer among the notifications.
RefreshGone(i) ==
  /\ i \in todo /\ view[i] = None
  /\ Done(i)
  /\ Close(i)
  /\ ringing' = ringing \ {i} /\ answered' = answered \ {i} /\ ongoing' = ongoing \ {i}
  /\ shown' = [shown EXCEPT ![i] = None]
  /\ known' = known \ {i}
  /\ UNCHANGED <<program, recordVars, due, run, simVars, asked>>

RefreshRinging(i) ==
  /\ i \in todo /\ view[i] # None /\ view[i].says.kind = "ringing"
  /\ Done(i)
  /\ known' = known \cup {i}
  /\ ringing' = ringing \cup {i}
  /\ IF i \in ringing THEN UNCHANGED run
     ELSE \E bluetooth \in BOOLEAN :
            run' = Spawn(run, view[i].at, i, TRUE, Routes(view[i].says, bluetooth))
  /\ KeepPopups
  /\ UNCHANGED <<program, recordVars, due, answered, ongoing, shown, simVars, asked>>

\* Faulty variant: the popup of a call that was answered elsewhere stays.
RefreshActiveKeepsPopup(i) ==
  /\ i \in todo /\ view[i] # None /\ view[i].says.kind \in {"ongoing", "other"}
  /\ Done(i)
  /\ ringing' = ringing \ {i}
  /\ known' = known \cup {i}
  /\ KeepPopups
  /\ UNCHANGED <<program, recordVars, due, run, answered, ongoing, shown, simVars, asked>>

\* A call that does not ring: its ringing popup is closed, and a popup of the
\* call shown once if the user has answered here.
RefreshActive(i) ==
  LET c == view[i].says
      first == i \in answered /\ c.kind = "ongoing" /\ i \notin ongoing
  IN /\ i \in todo /\ view[i] # None /\ c.kind \in {"ongoing", "other"}
     /\ Done(i)
     /\ known' = known \cup {i}
     /\ IF i \in ringing
        THEN /\ Close(i)
             /\ ringing' = ringing \ {i}
             /\ shown' = [shown EXCEPT ![i] = None]
        ELSE KeepPopups /\ UNCHANGED <<ringing, shown>>
     /\ IF first
        THEN /\ ongoing' = ongoing \cup {i}
             /\ run' = Spawn(run, view[i].at, i, FALSE, Routes(c, FALSE))
        ELSE UNCHANGED <<ongoing, run>>
     /\ UNCHANGED <<program, recordVars, due, answered, simVars, asked>>

\* A message or a missed call: a popup per content; the old one is closed.
RefreshMessage(i) ==
  LET c == view[i].says
  IN /\ i \in todo /\ view[i] # None /\ c.kind \in {"missed", "message"}
     /\ Done(i)
     /\ IF shown[i] = view[i] THEN KeepPopups /\ UNCHANGED <<shown, known, run>>
        ELSE /\ IF shown[i] # None THEN Close(i) ELSE KeepPopups
             /\ shown' = [shown EXCEPT ![i] = view[i]]
             /\ known' = IF CallLike(c) THEN known \cup {i} ELSE known \ {i}
             /\ run' = Spawn(run, view[i].at, i, FALSE, Routes(c, FALSE))
     /\ UNCHANGED <<program, recordVars, due, ringing, answered, ongoing, simVars, asked>>

-----------------------------------------------------------------------------
(* handle_call_metadata_log: SIM calls.                                    *)

\* _show: what the popup of a SIM call asks.
SimActs(isOngoing, bluetooth) ==
  {"hangup"} \cup {a \in {"answer"} : ~isOngoing /\ bluetooth}

\* A new ringing call closes the popup of the last one.
SimRings(k) ==
  /\ Receive
  /\ simSays' = k
  /\ IF k = simKey THEN KeepPopups /\ UNCHANGED <<run, simKey, simAnswered, simOngoing>>
     ELSE /\ Close(Sim)
          /\ simKey' = k /\ simAnswered' = FALSE /\ simOngoing' = None
          /\ \E bluetooth \in BOOLEAN :
               run' = Spawn(run, reports', k, TRUE, SimActs(FALSE, bluetooth))
  /\ UNCHANGED <<program, notes, latest, clips, clipTexts, due, uiVars, asked>>

\* A call is taken: its ringing popup is not closed.
SimOffHook ==
  /\ Receive
  /\ simSays' = None
  /\ IF simAnswered /\ simKey # None /\ simOngoing # simKey
     THEN /\ simOngoing' = simKey
          /\ run' = Spawn(run, reports', simKey, FALSE, SimActs(TRUE, FALSE))
     ELSE UNCHANGED <<simOngoing, run>>
  /\ KeepPopups
  /\ UNCHANGED <<program, notes, latest, clips, clipTexts, due, uiVars, simKey,
                 simAnswered, asked>>

SimIdle ==
  /\ Receive
  /\ simSays' = None
  /\ Close(Sim)
  /\ simKey' = None /\ simAnswered' = FALSE /\ simOngoing' = None
  /\ UNCHANGED <<program, notes, latest, clips, clipTexts, due, uiVars, run, asked>>

-----------------------------------------------------------------------------
(* The thread of a popup: run_notification and _run.                       *)

At(r, stage) == run' = [run EXCEPT ![r].at = stage]
Over(r)      == run' = [run EXCEPT ![r] = [Unused EXCEPT !.at = "done"]]

\* notify-send starts and is registered, or cannot be started.
Open(r) ==
  /\ run[r].at = "spawned"
  /\ \/ /\ At(r, "open")
        /\ alive' = alive \cup {r}
        /\ procs' = [procs EXCEPT ![KeyOf(r)] = r]
     \/ Over(r) /\ UNCHANGED <<alive, procs>>
  /\ UNCHANGED <<program, recordVars, due, uiVars, screen, sids, early, lost, simVars, asked>>

\* The desktop shows the popup.
Appear(r) ==
  /\ run[r].at = "open" /\ r \in alive
  /\ At(r, "notified")
  /\ screen' = screen \cup {r}
  /\ UNCHANGED <<program, recordVars, due, uiVars, alive, tables, early, lost, simVars, asked>>

\* The thread reads the id that notify-send has printed, maybe long ago.
ReadId(r) ==
  /\ run[r].at = "notified"
  /\ At(r, "waiting")
  /\ sids' = [sids EXCEPT ![KeyOf(r)] = r]
  /\ lost' = lost \cup ({sids[KeyOf(r)]} \ {None, r})
  /\ UNCHANGED <<program, recordVars, due, uiVars, alive, screen, procs, early, simVars, asked>>

\* The user picks an action or waves the popup away.
Choose(r, a) ==
  /\ run[r].at = "waiting" /\ r \in alive \cap screen
  /\ a \in run[r].acts \cup {None}
  /\ run' = [run EXCEPT ![r].pick = a]
  /\ alive' = alive \ {r} /\ screen' = screen \ {r}
  /\ UNCHANGED <<program, recordVars, due, uiVars, tables, early, lost, simVars, asked>>

\* notify-send does not wait when there is nothing to choose.
Leave(r) ==
  /\ run[r].at = "waiting" /\ r \in alive /\ run[r].acts = {}
  /\ alive' = alive \ {r}
  /\ UNCHANGED <<program, recordVars, due, uiVars, run, screen, tables, early, lost, simVars, asked>>

\* An hour is over.
TimeOut(r) ==
  /\ run[r].at = "waiting" /\ r \in alive /\ run[r].acts # {}
  /\ At(r, "late")
  /\ alive' = alive \ {r}
  /\ UNCHANGED <<program, recordVars, due, uiVars, screen, tables, early, lost, simVars, asked>>

\* The finally of run_notification takes out whatever has this id now; that
\* of the controller only its own process.
Forget(r, polled) ==
  LET k == KeyOf(r)
      own == k # Sim \/ procs[k] = r
  IN /\ procs' = IF own THEN [procs EXCEPT ![k] = None] ELSE procs
     /\ sids' = IF own /\ (polled \/ k = Sim) THEN [sids EXCEPT ![k] = None] ELSE sids

\* The process has ended (after an hour, perhaps not yet).
Finish(r) ==
  /\ run[r].at \in {"open", "notified", "waiting", "late"} /\ r \notin alive
  /\ \E polled \in {TRUE} \cup {run[r].at # "late"} : Forget(r, polled)
  /\ IF run[r].pick = None THEN Over(r) ELSE At(r, "over")
  /\ lost' = (lost \cup ({sids[KeyOf(r)]} \ {None, sids'[KeyOf(r)]})) \ {r}
  /\ early' = early \ {r}
  /\ simAnswered' = (simAnswered \/ (KeyOf(r) = Sim /\ run[r].pick = "answer"))
  /\ UNCHANGED <<program, recordVars, due, uiVars, alive, screen, simKey, simOngoing, simSays,
                 asked>>

-----------------------------------------------------------------------------
(* The user's choice: in the window a signal to its thread.                *)

\* native_action of the background service notes every call that is answered,
\* the window only one whose entry is a call.
Remembers(i) == program = "service" \/ i \in known

\* The choice on the popup of a notification.
HandleNotificationAction(r) ==
  LET i == run[r].of
      a == run[r].pick
  IN /\ run[r].at = "over" /\ i \in Ids
     /\ program = "window" => todo = {}
     /\ Over(r)
     /\ IF a = "hangup" THEN Close(i) ELSE KeepPopups
     /\ answered' = IF a = "answer" /\ Remembers(i)
                    THEN answered \cup {i} ELSE answered
     /\ UNCHANGED <<program, recordVars, due, view, todo, ringing, ongoing, shown, known,
                    simVars, asked>>

\* _app_call_action_for: what stands for a call control in the latest app call.
Candidates(a) == IF a = "answer" THEN {"answer"} ELSE {"hangup", "decline"}

AppCallActionFor(a) ==
  LET fit == Candidates(a) \cap latest.acts
  IN IF latest.id = None \/ fit = {} THEN None
     ELSE CHOOSE c \in fit : "hangup" \in fit => c = "hangup"

\* The choice on the popup of a SIM call goes to the latest app call, if there
\* is one with such an action, and otherwise to the phone's own call.
QueueCallControl(r) ==
  LET a == run[r].pick
      app == AppCallActionFor(a)
  IN /\ run[r].at = "over" /\ run[r].of \in Callers
     /\ program = "window" => todo = {}
     /\ Over(r)
     /\ asked' = IF app = None THEN [to |-> Sim, act |-> a]
                 ELSE [to |-> latest.id, act |-> app]
     /\ KeepPopups
     /\ UNCHANGED <<program, recordVars, due, uiVars, simVars>>

Reported ==
  \/ \E i \in Ids, c \in Contents : RecordNotification(i, c)
  \/ \E i \in Ids : RemoveNotification(i)
  \/ \E t \in Texts : RecordClipboardUpdate(t)
  \/ \E k \in Callers : SimRings(k)
  \/ SimOffHook
  \/ SimIdle

Refreshed ==
  \/ Refresh
  \/ \E i \in Ids : \/ RefreshGone(i)
                    \/ RefreshRinging(i)
                    \/ RefreshActive(i)
                    \/ RefreshMessage(i)

Popup(r) ==
  \/ Open(r)
  \/ Appear(r)
  \/ ReadId(r)
  \/ \E a \in Acts \cup {None} : Choose(r, a)
  \/ Leave(r)
  \/ TimeOut(r)
  \/ Finish(r)
  \/ HandleNotificationAction(r)
  \/ QueueCallControl(r)

PopupsNext == Reported \/ Refreshed \/ \E r \in Runs : Popup(r)

PopupsSpec == PopupsInit /\ [][PopupsNext]_popupsVars

-----------------------------------------------------------------------------
(* Properties.                                                             *)

\* The call that a popup rings for does not ring any more, by what the phone has
\* reported and, of an app call, a refresh has taken up.
Ended(r) ==
  LET i == run[r].of
  IN IF i \in Ids THEN ~due /\ i \notin todo /\ (notes[i] = None \/ notes[i].says.kind # "ringing")
     ELSE i # simSays

\* The app call was reported as missed, or a message came under its id, and it
\* is still taken for ringing.
Turned(r) ==
  /\ run[r].of \in ringing /\ notes[run[r].of] # None
  /\ notes[run[r].of].says.kind \in {"missed", "message"}

\* The SIM call was taken on the phone.
Taken(r) == run[r].of = simKey /\ simSays = None

\* While its thread still waits, the popup of a ringing call that has ended, or
\* been taken elsewhere, is closed, except in four cases: the close came before
\* that thread had read its id; the thread of another popup of the same id has
\* taken that id out of the table or replaced it; the app call ended with a
\* report of a missed call or a message under its id; the SIM call was taken on
\* the phone.
StalePopupHasCause ==
  \A r \in screen :
    run[r].ring /\ run[r].at # "done" /\ Ended(r) =>
      r \in early \cup lost \/ Turned(r) \/ Taken(r)

\* When the popups have been brought up to date, every call that rings is taken
\* for ringing, and what is taken for ringing is a notification that rings, or
\* one that a missed call or a message has taken the place of (those keep the id
\* of a call among the ringing ones); no call goes on that has been removed.
SettledUiFollowsCalls ==
  ~due /\ todo = {} =>
    \A i \in Ids :
      /\ i \in ringing => notes[i] # None /\ notes[i].says.kind \in {"ringing", "missed", "message"}
      /\ i \in ongoing => notes[i] # None
      /\ notes[i] # None /\ notes[i].says.kind = "ringing" => i \in ringing

\* A call control that goes to an app call names a call the phone still has,
\* and an action that call offers, unless its last report offers none at all.
ControlFitsCall ==
  [][asked' # asked /\ asked'.to # Sim =>
       /\ notes[asked'.to] # None
       /\ LET offered == notes[asked'.to].says.acts \cap CallActs
          IN asked'.act \in offered \/ offered = {}]_popupsVars

=============================================================================
