-------------------------- MODULE NotificationCenter --------------------------
(***************************************************************************)
(* What a phone posts, as the runtime keeps it, and the two pages that show *)
(* it: the notifications of a device card and the notification center.     *)
(*                                                                         *)
(* Threads: the session thread, which records and then announces; the user *)
(* interface, which refreshes the open page when the announcement reaches  *)
(* it.  The desktop's own popups for the same posts are Popups' matter.    *)
(* Left out: texts, icons, copying to the clipboard, and what a message    *)
(* says of a call, which only counts as equal or different here.           *)
(***************************************************************************)
EXTENDS Naturals, Sequences, FiniteSets

CONSTANTS
  Posts,         \* notification ids of the phone
  Contents,      \* what a notification may say
  CallTexts,     \* status messages of a call that name a state or a caller
  IdleText,      \* the one that names neither
  HistoryCap,    \* how many notifications the history keeps (200 in the code)
  CallCap,       \* how many call events it keeps (160 in the code)
  CallWindow,    \* how many of these a new event is compared with (12)
  MaxPosted      \* bound: what the phone sends

ASSUME CenterAssumption ==
  /\ HistoryCap \in Nat \ {0} /\ CallCap \in Nat \ {0} /\ CallWindow \in Nat
  /\ MaxPosted \in Nat /\ IdleText \notin CallTexts

Times == 1..MaxPosted
Nothing == [says |-> "nothing"]
Post == [says : Contents, call : BOOLEAN, at : Times]

VARIABLES
  notes,       \* _notifications: per id, the post or Nothing
  history,     \* _notification_history
  prints,      \* _notification_fingerprints: per id, a fingerprint or Nothing
  calls,       \* _call_history, the newest first
  callStatus,  \* _call_status
  usedTimes,   \* times of the phone's posts so far
  events,      \* how many call events there were; the number is the event id
  announce,    \* the session thread has recorded and not yet announced
  pageDue,     \* an announcement is on its way to the user interface
  page,        \* which private page is open
  hidden,      \* ids this page does not show
  rows,        \* what the page shows: posts, by id
  callRows,    \* and the numbers of call events
  reply        \* the id whose reply dialog is open, with its post

recordVars == <<notes, history, prints, calls, callStatus, usedTimes, events>>
pageVars   == <<page, hidden, rows, callRows, reply>>
centerVars == <<recordVars, announce, pageDue, pageVars>>

NoReply == [id |-> "none", post |-> Nothing]
Kept(f) == {id \in Posts : f[id] # Nothing}
CallPrint == (Contents \X {"posted", "ended"}) \cup (CallTexts \X {"status"})

CenterTypeOK ==
  /\ notes \in [Posts -> Post \cup {Nothing}]
  /\ history \in [Posts -> Post \cup {Nothing}]
  /\ prints \in [Posts -> [says : Contents, call : BOOLEAN] \cup {Nothing}]
  /\ \A i \in DOMAIN calls : calls[i].print \in CallPrint /\ calls[i].event \in 1..events
  /\ Len(calls) <= CallCap /\ Cardinality(Kept(history)) <= HistoryCap
  /\ callStatus \in CallTexts \cup {IdleText} /\ usedTimes \subseteq Times
  /\ events \in Nat
  /\ announce \in BOOLEAN /\ pageDue \in BOOLEAN
  /\ page \in {"none", "device", "center"}
  /\ hidden \in [ids : SUBSET Posts, events : SUBSET (1..events)]
  /\ rows \subseteq Posts \X Post /\ callRows \subseteq 1..events
  /\ reply = NoReply \/ (reply.id \in Posts /\ reply.post \in Post)

CenterInit ==
  /\ notes = [id \in Posts |-> Nothing] /\ history = notes /\ prints = notes
  /\ calls = <<>> /\ callStatus = IdleText /\ usedTimes = {} /\ events = 0
  /\ announce = FALSE /\ pageDue = FALSE
  /\ page = "none" /\ hidden = [ids |-> {}, events |-> {}]
  /\ rows = {} /\ callRows = {} /\ reply = NoReply

-----------------------------------------------------------------------------
(* The session thread records.                                             *)

\* _trim_notification_history_locked: the newest HistoryCap by their time.
TrimHistory(f) ==
  [id \in Posts |->
    IF f[id] # Nothing /\ Cardinality({o \in Kept(f) : f[o].at > f[id].at}) >= HistoryCap
    THEN Nothing ELSE f[id]]

\* _append_call_history_locked: an event that says the same as one of the
\* newest is dropped; its number is the event id, which is always new.
AppendCall(print) ==
  IF \E i \in DOMAIN calls : i <= CallWindow /\ calls[i].print = print
  THEN UNCHANGED <<calls, events>>
  ELSE /\ events' = events + 1
       /\ calls' = LET all == <<[print |-> print, event |-> events']>> \o calls
                   IN SubSeq(all, 1, IF Len(all) < CallCap THEN Len(all) ELSE CallCap)

Fingerprint(post) == [says |-> post.says, call |-> post.call]   \* not its time

\* _record_notification; the phone's later post of an id has a later time.
RecordNotification(id, post) ==
  /\ ~announce /\ post.at \notin usedTimes
  /\ notes[id] # Nothing => notes[id].at < post.at
  /\ history[id] # Nothing => history[id].at < post.at
  /\ usedTimes' = usedTimes \cup {post.at}
  /\ IF prints[id] = Fingerprint(post)
     THEN UNCHANGED <<notes, history, prints, calls, events, announce>>
     ELSE /\ notes' = [notes EXCEPT ![id] = post]
          /\ history' = TrimHistory([history EXCEPT ![id] = post])
          /\ prints' = [prints EXCEPT ![id] = Fingerprint(post)]
          /\ IF post.call THEN AppendCall(<<post.says, "posted">>)
             ELSE UNCHANGED <<calls, events>>
          /\ announce' = TRUE
  /\ UNCHANGED <<callStatus, pageDue, pageVars>>

\* _remove_notification: only one of a call goes.
RemovePosted(id) ==
  /\ ~announce /\ notes[id] # Nothing
  /\ IF notes[id].call
     THEN /\ notes' = [notes EXCEPT ![id] = Nothing]
          /\ prints' = [prints EXCEPT ![id] = Nothing]
          /\ AppendCall(<<notes[id].says, "ended">>)
          /\ announce' = TRUE
     ELSE UNCHANGED <<notes, prints, calls, events, announce>>
  /\ UNCHANGED <<history, callStatus, usedTimes, pageDue, pageVars>>

CallStatusIs(text) ==
  /\ ~announce /\ events + Cardinality(usedTimes) < MaxPosted
  /\ callStatus' = text
  /\ IF callStatus # text /\ text # IdleText THEN AppendCall(<<text, "status">>)
     ELSE UNCHANGED <<calls, events>>
  /\ UNCHANGED <<notes, history, prints, usedTimes, pageDue, pageVars>>

\* Faulty variant: only the device cards are told.
SetCallStatusQuietly(text) == CallStatusIs(text) /\ UNCHANGED announce

\* _set_call_status
SetCallStatus(text) == CallStatusIs(text) /\ announce' = (callStatus # text)

\* on_notifications_changed
Announce ==
  /\ announce /\ announce' = FALSE /\ pageDue' = TRUE
  /\ UNCHANGED <<recordVars, pageVars>>

-----------------------------------------------------------------------------
(* The pages.                                                              *)

Rows(p, gone) ==
  LET f == IF p = "device" THEN notes ELSE history
  IN {<<id, f[id]>> : id \in Kept(f) \ gone.ids}
CallRows(p, gone) ==
  IF p = "device" THEN {} ELSE {calls[i].event : i \in DOMAIN calls} \ gone.events

\* refresh of a page: all rows are made anew, and a reply dialog, which is a
\* child of its row, goes with the old ones.
Show(p, gone) ==
  /\ hidden' = gone /\ rows' = Rows(p, gone) /\ callRows' = CallRows(p, gone)
  /\ reply' = NoReply

Hands == reply = NoReply   \* a reply dialog is modal

OpenPage(p) ==
  /\ Hands /\ page # p /\ page' = p
  /\ Show(p, [ids |-> {}, events |-> {}])
  /\ UNCHANGED <<recordVars, announce, pageDue>>

ClosePage ==
  /\ Hands /\ page # "none" /\ page' = "none"
  /\ hidden' = [ids |-> {}, events |-> {}] /\ rows' = {} /\ callRows' = {}
  /\ UNCHANGED <<recordVars, announce, pageDue, reply>>

\* _refresh_notifications, as far as the page is concerned.
RefreshPage ==
  /\ pageDue /\ pageDue' = FALSE
  /\ IF page = "none" THEN UNCHANGED pageVars
     ELSE Show(page, hidden) /\ UNCHANGED page
  /\ UNCHANGED <<recordVars, announce>>

\* The buttons Clear of a row.
HideRow(id) ==
  /\ Hands /\ \E r \in rows : r[1] = id
  /\ Show(page, [hidden EXCEPT !.ids = @ \cup {id}])
  /\ UNCHANGED <<recordVars, announce, pageDue, page>>

HideCall(e) ==
  /\ Hands /\ e \in callRows
  /\ Show(page, [hidden EXCEPT !.events = @ \cup {e}])
  /\ UNCHANGED <<recordVars, announce, pageDue, page>>

\* Clear all: what is recorded, the user has seen it or not.
ClearAll ==
  /\ Hands /\ page # "none"
  /\ Show(page, [ids |-> hidden.ids \cup Kept(IF page = "device" THEN notes ELSE history),
                 events |-> hidden.events \cup
                   (IF page = "device" THEN {} ELSE {calls[i].event : i \in DOMAIN calls})])
  /\ UNCHANGED <<recordVars, announce, pageDue, page>>

\* NotificationRow._reply: the dialog opens, and ends with or without an answer.
StartReply(r) ==
  /\ Hands /\ r \in rows
  /\ reply' = [id |-> r[1], post |-> r[2]]
  /\ UNCHANGED <<recordVars, announce, pageDue, page, hidden, rows, callRows>>

EndReply ==
  /\ reply # NoReply /\ reply' = NoReply
  /\ UNCHANGED <<recordVars, announce, pageDue, page, hidden, rows, callRows>>

-----------------------------------------------------------------------------
CenterNext ==
  \/ \E id \in Posts, post \in Post : RecordNotification(id, post)
  \/ \E id \in Posts : RemovePosted(id) \/ HideRow(id)
  \/ \E text \in CallTexts \cup {IdleText} : SetCallStatus(text)
  \/ Announce \/ RefreshPage
  \/ \E p \in {"device", "center"} : OpenPage(p)
  \/ ClosePage \/ ClearAll
  \/ \E e \in callRows : HideCall(e)
  \/ \E r \in rows : StartReply(r)
  \/ EndReply

CenterSpec == CenterInit /\ [][CenterNext]_centerVars

-----------------------------------------------------------------------------
(* What the pages owe their user.                                          *)

\* When nothing is left to announce, the open page shows what is recorded and
\* not cleared, calls included, and an open reply is to a post as it is shown:
\* records change on the session thread, in four places, under a lock that the
\* announcement is made without.
RowsFollowRecords ==
  page # "none" /\ ~announce /\ ~pageDue =>
    /\ rows = Rows(page, hidden) /\ callRows = CallRows(page, hidden)
    /\ reply # NoReply => <<reply.id, reply.post>> \in rows

=============================================================================
