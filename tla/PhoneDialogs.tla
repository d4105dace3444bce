----------------------------- MODULE PhoneDialogs -----------------------------
(***************************************************************************)
(* The dialogs of a card that ask the phone: contacts, files, dialer and   *)
(* shared apps.  A dialog puts requests into the runtime's queues, answers *)
(* change what the runtime knows, and the dialog, which nobody calls back, *)
(* looks at that by a timer of its own.                                    *)
(*                                                                         *)
(* External: the way of a request to the phone (OutgoingPump), which keeps *)
(* the order within a family, and the phone, which answers in the order it *)
(* receives.  Left out: names, numbers, entries, and how they are drawn.   *)
(***************************************************************************)
EXTENDS Naturals, Sequences

CONSTANTS
  Texts, NoText,   \* what may be typed to search for, and an empty field
  Paths, NoPath,   \* folders of the phone, and none
  MaxRequests,     \* bound: requests the user makes
  MaxLinks         \* bound: how often a phone connects

ASSUME DialogsAssumption ==
  /\ NoText \notin Texts /\ NoPath \notin Paths
  /\ MaxRequests \in Nat /\ MaxLinks \in Nat

Families == {"search", "recents", "list", "other"}
Asked == [family : Families, what : Texts \cup Paths \cup {NoText}]

VARIABLES
  linked, links,   \* a phone is active; how often one was
  waiting,         \* the runtime's queues, one per family
  away,            \* requests the phone has and has not answered
  requests,        \* what was used of MaxRequests
  found,           \* _contact_results: the text they answer, or NoText
  recents,         \* _recent_contacts have come
  contactsStatus, fileStatus,   \* the runtime's texts for the dialogs
  listing,         \* _phone_file_listing: its path, or NoPath
  open,            \* the open dialog
  text, searchDue, \* the search field, and its 280 ms timer
  late,            \* a text whose timer runs on in the dialog left last
  people,          \* what the contacts dialog shows
  tree,            \* the path whose entries the file dialog shows
  wanted           \* history: the path asked for last, by this dialog

linkVars    == <<linked, links, waiting, away, requests>>
knownVars   == <<found, recents, contactsStatus, listing, fileStatus>>
peopleVars  == <<text, searchDue, late, people>>
shownVars   == <<open, text, searchDue, late, people, tree, wanted>>
dialogsVars == <<linkVars, knownVars, shownVars>>

Statuses == {"none", "connect", "preparing", "asking", "answered"}
People == [status : Statuses, text : Texts \cup {NoText},
           found : Texts \cup {NoText}, recents : BOOLEAN]

DialogsTypeOK ==
  /\ linked \in BOOLEAN /\ links \in 0..MaxLinks /\ requests \in 0..MaxRequests
  /\ waiting \in [Families -> Seq(Asked)] /\ away \in Seq(Asked)
  /\ found \in Texts \cup {NoText} /\ recents \in BOOLEAN
  /\ contactsStatus \in Statuses /\ fileStatus \in Statuses
  /\ listing \in Paths \cup {NoPath}
  /\ open \in {"none", "contacts", "files", "dialer", "apps"}
  /\ text \in Texts \cup {NoText} /\ searchDue \in BOOLEAN
  /\ late \in Texts \cup {NoText}
  /\ people \in People
  /\ tree \in Paths \cup {NoPath} /\ wanted \in Paths \cup {NoPath}

Blank == [status |-> "none", text |-> NoText, found |-> NoText, recents |-> FALSE]

DialogsInit ==
  /\ linked = FALSE /\ links = 0 /\ requests = 0
  /\ waiting = [f \in Families |-> <<>>] /\ away = <<>>
  /\ found = NoText /\ recents = FALSE /\ listing = NoPath
  /\ contactsStatus = "none" /\ fileStatus = "none"
  /\ open = "none" /\ text = NoText /\ searchDue = FALSE
  /\ late = NoText /\ people = Blank /\ tree = NoPath /\ wanted = NoPath

User == requests < MaxRequests /\ requests' = requests + 1
Enqueue(f, w) == waiting' = [waiting EXCEPT ![f] = Append(@, [family |-> f, what |-> w])]

\* request_recent_contacts, of a phone that is there.
AskRecents == Enqueue("recents", NoText) /\ contactsStatus' = "asking"

-----------------------------------------------------------------------------
(* The link.                                                               *)

\* _mark_device_connected asks for the recent contacts.
PhoneConnects ==
  /\ ~linked /\ links < MaxLinks
  /\ linked' = TRUE /\ links' = links + 1 /\ AskRecents
  /\ UNCHANGED <<away, requests, found, recents, listing, fileStatus, shownVars>>

\* _mark_device_closed; what the phone had not answered is lost, what was not
\* sent waits for the next phone.
PhoneCloses ==
  /\ linked /\ linked' = FALSE /\ away' = <<>> /\ contactsStatus' = "connect"
  /\ UNCHANGED <<links, waiting, requests, found, recents, listing, fileStatus, shownVars>>

Send(f) ==
  /\ linked /\ waiting[f] # <<>>
  /\ waiting' = [waiting EXCEPT ![f] = Tail(@)]
  /\ away' = Append(away, Head(waiting[f]))
  /\ UNCHANGED <<linked, links, requests, knownVars, shownVars>>

\* What asks for a file is the request "other" that names one.
IsPull(a) == a.family = "other" /\ a.what \in Paths

\* _record_contacts, _record_recent_contacts, _record_phone_file_list and
\* _record_phone_file_pull_result: what the runtime knows after the answer to a.
Learn(a) ==
  /\ found' = IF a.family = "search" THEN a.what ELSE found
  /\ recents' = (recents \/ a.family = "recents")
  /\ contactsStatus' = IF a.family \in {"search", "recents"} THEN "answered"
                       ELSE contactsStatus
  /\ listing' = IF a.family = "list" THEN a.what ELSE listing
  /\ fileStatus' = IF a.family = "list" \/ IsPull(a) THEN "answered" ELSE fileStatus

\* The phone answers what came first, and the session thread hands it over.
Answer ==
  /\ linked /\ away # <<>> /\ away' = Tail(away) /\ Learn(Head(away))
  /\ UNCHANGED <<linked, links, waiting, requests, shownVars>>

\* _record_file_received: a file that the phone sends, asked for or not, is saved.
FileReceived ==
  /\ linked /\ fileStatus' = "answered"
  /\ UNCHANGED <<linkVars, found, recents, contactsStatus, listing, shownVars>>

-----------------------------------------------------------------------------
(* ContactsDialog                                                          *)

PeopleNow(t) == [status |-> contactsStatus, text |-> t, recents |-> recents,
                 found |-> IF t = NoText THEN NoText ELSE found]

\* The dialog opens with request_recent_contacts.
OpenContacts ==
  /\ User /\ open = "none" /\ open' = "contacts"
  /\ IF linked THEN AskRecents ELSE UNCHANGED <<waiting, contactsStatus>>
  /\ text' = NoText /\ searchDue' = FALSE
  /\ people' = [PeopleNow(NoText) EXCEPT !.status = contactsStatus']
  /\ UNCHANGED <<linked, links, away, found, recents, listing, fileStatus, late, tree, wanted>>

\* _queue_search starts the timer over and redraws.
QueueSearch(t) ==
  /\ User /\ open = "contacts" /\ t # text
  /\ text' = t /\ searchDue' = TRUE /\ people' = PeopleNow(t)
  /\ UNCHANGED <<linked, links, waiting, away, knownVars, open, late, tree, wanted>>

\* _send_search_request, and request_contacts.
SearchFor(t) ==
  /\ IF t = NoText THEN UNCHANGED <<waiting, contactsStatus>>
     ELSE IF linked THEN Enqueue("search", t) /\ contactsStatus' = "asking"
     ELSE contactsStatus' = "connect" /\ UNCHANGED waiting
  /\ UNCHANGED <<linked, links, away, requests, found, recents, listing, fileStatus,
                 open, text, people, tree, wanted>>

SendSearch ==   \* a timer that was started before fires before
  /\ searchDue /\ late = NoText /\ searchDue' = FALSE
  /\ SearchFor(text) /\ UNCHANGED late

SendLateSearch ==
  /\ late # NoText /\ late' = NoText
  /\ SearchFor(late) /\ UNCHANGED searchDue

\* Faulty variant: the render key does not count the contacts themselves.
PollContactsByStatus ==
  /\ open = "contacts"
  /\ people' = IF people.status = contactsStatus /\ people.text = text THEN people
               ELSE PeopleNow(text)
  /\ UNCHANGED <<linkVars, knownVars, open, text, searchDue, late, tree, wanted>>

\* The timer of the dialog: what has changed is drawn.
PollContacts ==
  /\ open = "contacts" /\ people' = PeopleNow(text)
  /\ UNCHANGED <<linkVars, knownVars, open, text, searchDue, late, tree, wanted>>

-----------------------------------------------------------------------------
(* PhoneFileBrowserDialog                                                  *)

\* request_phone_file_list: without a phone the listing is forgotten.
RequestList(path) ==
  /\ wanted' = IF linked THEN path ELSE NoPath
  /\ IF linked
     THEN /\ Enqueue("list", path) /\ fileStatus' = "asking" /\ UNCHANGED listing
     ELSE /\ listing' = NoPath /\ fileStatus' = "connect" /\ UNCHANGED waiting

\* Opening it asks for the root and draws what was known before.
OpenFiles(root) ==
  /\ User /\ open = "none" /\ open' = "files"
  /\ RequestList(root) /\ tree' = listing'
  /\ UNCHANGED <<linked, links, away, found, recents, contactsStatus, peopleVars>>

\* A folder, the way up, a typed path, or the same one again.
GoTo(path) ==
  /\ User /\ open = "files" /\ RequestList(path)
  /\ UNCHANGED <<linked, links, away, found, recents, contactsStatus, open, peopleVars,
                 tree>>

PollFiles ==
  /\ open = "files" /\ tree' = listing
  /\ UNCHANGED <<linkVars, knownVars, open, peopleVars, wanted>>

\* A file of the tree: request_phone_file_pull.
Pull ==
  /\ User /\ open = "files" /\ tree # NoPath
  /\ IF linked THEN Enqueue("other", tree) /\ fileStatus' = "asking"
     ELSE fileStatus' = "connect" /\ UNCHANGED waiting
  /\ UNCHANGED <<linked, links, away, found, recents, contactsStatus, listing, shownVars>>

-----------------------------------------------------------------------------
(* DialerDialog, SharedAppsDialog, and the end of a dialog.                *)

OpenOther(d) ==
  /\ User /\ open = "none" /\ open' = d
  /\ UNCHANGED <<linked, links, waiting, away, knownVars, peopleVars, tree, wanted>>

\* A click dials once; Return in the number field reaches the field and then
\* the dialog, and dials twice.
Dial(return) ==
  /\ User /\ open = "dialer" /\ open' = "none"
  /\ LET d == [family |-> "other", what |-> NoText]
     IN waiting' = [waiting EXCEPT !["other"] = @ \o (IF return THEN <<d, d>> ELSE <<d>>)]
  /\ UNCHANGED <<linked, links, away, knownVars, peopleVars, tree, wanted>>

\* launch_shared_app asks the phone only when the mirror has started.
LaunchSharedApp(mirrored) ==
  /\ User /\ open = "apps"
  /\ IF mirrored THEN Enqueue("other", NoText) ELSE UNCHANGED waiting
  /\ UNCHANGED <<linked, links, away, knownVars, shownVars>>

\* The user closes it, or its card is made anew, and its timers end; or he
\* leaves it with Escape, which is no closeEvent, and they go on.
DialogEnds(escape) ==
  /\ open # "none" /\ open' = "none"
  /\ late' = IF escape /\ searchDue THEN text ELSE late
  /\ text' = NoText /\ searchDue' = FALSE /\ people' = Blank
  /\ tree' = NoPath /\ wanted' = NoPath
  /\ UNCHANGED <<linkVars, knownVars>>

-----------------------------------------------------------------------------
DialogsNext ==
  \/ PhoneConnects \/ PhoneCloses \/ Answer \/ FileReceived
  \/ \E f \in Families : Send(f)
  \/ OpenContacts \/ SendSearch \/ SendLateSearch \/ PollContacts
  \/ \E t \in Texts \cup {NoText} : QueueSearch(t)
  \/ \E path \in Paths : OpenFiles(path) \/ GoTo(path)
  \/ PollFiles \/ Pull
  \/ \E d \in {"dialer", "apps"} : OpenOther(d)
  \/ \E b \in BOOLEAN : Dial(b) \/ LaunchSharedApp(b) \/ DialogEnds(b)

DialogsSpec == DialogsInit /\ [][DialogsNext]_dialogsVars

-----------------------------------------------------------------------------
(* What the dialogs owe their user.                                        *)

\* A text that stands in the field when its timer fires, and a folder that was
\* asked for last, are soon what the dialog shows, whatever older answers are
\* still on their way, unless the user goes on or the phone goes away.
AnswersAreShown ==
  /\ \A t \in Texts :
       (linked /\ searchDue /\ text = t) ~>
         (~linked \/ text # t \/ (people.text = t /\ people.found = t))
  /\ \A path \in Paths :
       (linked /\ wanted = path) ~> (~linked \/ wanted # path \/ tree = path)
=============================================================================
