-------------------------- MODULE PairingHandshake --------------------------
(***************************************************************************)
(* A phone and a desktop become trusted to each other: the handler of a    *)
(* PairingRequest in pairing_server.py, one thread per connection, the     *)
(* dialog for the code in runtime_bridge.py and main_window.py, and the    *)
(* phone's startFullPairing and confirmDisplayedCodeEntry.                 *)
(*                                                                         *)
(* A connection stands for its two nonces, hence for its code, its         *)
(* transcript and the signatures over it: a code is right for a connection *)
(* when it is that connection.  Both trust stores are written atomically,  *)
(* under their lock.  The server is switched off once and not on again: a  *)
(* second server has a prompt lock and a trust store object of its own.    *)
(* The phone does not unpair: a pairing it gave up leaves the same state.  *)
(* Left out: frames of another type or with a wrong signature (they end the*)
(* connection), and the background service, which declines every request.  *)
(***************************************************************************)
EXTENDS Naturals, Sequences, FiniteSets

CONSTANTS
  Phones,
  Conns,      \* the TCP connections, in the order of their making
  NoConn,     \* no connection; as an answer, an empty or a wrong code
  NoAnswer,   \* the queue of a prompt is empty
  MaxLost,    \* bound: connections that fail
  MaxForgets  \* bound: how often the user of the desktop unpairs

ASSUME ConstantsAssumption ==
  /\ Conns \subseteq Nat \ {0} /\ NoConn \notin Conns
  /\ MaxLost \in Nat /\ MaxForgets \in Nat

VARIABLES
  owner,      \* per connection, the phone that made it
  desk,       \* per connection, how far the desktop's thread is
  phone,      \* per connection, how far the phone is
  toPhone,    \* per connection, the frames on their way to the phone
  confirmed,  \* the connections on which the phone's Confirm waits to be read
  lost,       \* the connections that no longer carry anything
  cut,        \* the connections closed when the server stopped
  lock,       \* the connection that holds _prompt_lock
  answer,     \* per connection, what is in the queue of its prompt
  dialogs,    \* the dialogs on the screen, the last one on top
  window,     \* new phones are allowed for the moment
  running,    \* the server takes connections
  deskTrusts, \* the phones in the desktop's trust store
  phoneTrusts,\* the phones whose trust store holds the desktop
  forgets     \* how often the desktop has forgotten a phone

link   == <<toPhone, confirmed, lost, cut>>
prompt == <<lock, answer, dialogs>>
trust  == <<deskTrusts, phoneTrusts, forgets>>
vars   == <<owner, desk, phone, link, prompt, window, running, trust>>

DeskEnds  == {"paired", "refused", "failed"}
PhoneEnds == {"paired", "refused", "gaveUp"}

\* none: not used yet; else what the end does next, or how it ended.
DeskSteps  == {"none", "request", "queued", "prompting", "matched", "trust",
               "complete"} \cup DeskEnds
PhoneSteps == {"none", "asked", "shows", "confirmed", "verified"} \cup PhoneEnds

Frames == {"challenge", "reject", "confirm", "complete"}

\* The type of the state.
TypeOK ==
  /\ owner \in [Conns -> Phones \cup {NoConn}]
  /\ \A c \in Conns : phone[c] # "none" => owner[c] \in Phones
  /\ desk \in [Conns -> DeskSteps] /\ phone \in [Conns -> PhoneSteps]
  /\ toPhone \in [Conns -> Seq(Frames)]
  /\ confirmed \subseteq Conns /\ lost \subseteq Conns /\ cut \subseteq Conns
  /\ lock \in Conns \cup {NoConn}
  /\ answer \in [Conns -> Conns \cup {NoConn, NoAnswer}]
  /\ dialogs \in Seq(Conns)
  /\ window \in BOOLEAN /\ running \in BOOLEAN
  /\ deskTrusts \subseteq Phones /\ phoneTrusts \subseteq Phones
  /\ forgets \in 0..MaxForgets
  /\ \A c \in Conns : desk[c] = "prompting" <=> lock = c

Init ==
  /\ owner = [c \in Conns |-> NoConn]
  /\ desk = [c \in Conns |-> "none"] /\ phone = [c \in Conns |-> "none"]
  /\ toPhone = [c \in Conns |-> <<>>]
  /\ confirmed = {} /\ lost = {} /\ cut = {}
  /\ lock = NoConn /\ answer = [c \in Conns |-> NoAnswer] /\ dialogs = <<>>
  /\ window = FALSE /\ running = TRUE
  /\ deskTrusts = {} /\ phoneTrusts = {} /\ forgets = 0

-----------------------------------------------------------------------------
\* The connection.

\* A write raises on a closed socket.  With nobody at the other end it may
\* raise, or the frame is lost.
Broken(c) == c \in lost \/ phone[c] \in PhoneEnds

Writable(c)  == c \notin cut
MayRaise(c)  == c \in cut \/ Broken(c)

Put(c, frame) ==
  toPhone' = IF Broken(c) THEN toPhone
             ELSE [toPhone EXCEPT ![c] = Append(@, frame)]

DeskTo(c, step) == desk' = [desk EXCEPT ![c] = step]

PhoneTo(c, step) == phone' = [phone EXCEPT ![c] = step]

\* The thread ends with an exception; the connection is closed.
Raises(c) ==
  /\ DeskTo(c, "failed")
  /\ UNCHANGED toPhone

\* The thread sends the frame and goes on, or the write raises.
Sends(c, frame, step) ==
  \/ Writable(c) /\ Put(c, frame) /\ DeskTo(c, step)
  \/ MayRaise(c) /\ Raises(c)

-----------------------------------------------------------------------------
\* The desktop's thread for one connection.

\* _new_pairing_allowed, on an allowed Wi-Fi: without a trusted phone, at any
\* time.
PairingAllowed == window \/ deskTrusts = {}

\* The request is read, and refused outside the window that the user opened.
ReadRequest(c) ==
  /\ desk[c] = "request"
  /\ IF c \in cut THEN Raises(c)
     ELSE IF PairingAllowed THEN DeskTo(c, "queued") /\ UNCHANGED toPhone
     ELSE Sends(c, "reject", "refused")
  /\ UNCHANGED <<owner, phone, confirmed, lost, cut, prompt, window, running,
                 trust>>

\* The prompt lock is taken, confirm_pairing allows it, the challenge is sent
\* and the dialog is asked for: it opens on top of those on the screen.
Prompt(c) ==
  /\ desk[c] = "queued" /\ lock = NoConn
  /\ Sends(c, "challenge", "prompting")
  /\ IF desk'[c] = "prompting"
       THEN /\ lock' = c
            /\ dialogs' = Append(dialogs, c)
       ELSE UNCHANGED <<lock, dialogs>>
  /\ UNCHANGED <<owner, phone, confirmed, lost, cut, answer, window, running,
                 trust>>

\* Faulty variant: the code that is expected is the service's, not the connection's.
JudgeShared(c, typed) ==
  /\ desk[c] = "prompting"
  /\ lock' = NoConn
  /\ IF typed # NoConn THEN DeskTo(c, "matched") /\ UNCHANGED toPhone
     ELSE Sends(c, "reject", "refused")
  /\ UNCHANGED <<owner, phone, confirmed, lost, cut, answer, dialogs, window,
                 running, trust>>

\* With a code or without, the lock is released.
Judge(c, typed) ==
  /\ desk[c] = "prompting"
  /\ lock' = NoConn
  /\ IF typed = c THEN DeskTo(c, "matched") /\ UNCHANGED toPhone
     ELSE Sends(c, "reject", "refused")
  /\ UNCHANGED <<owner, phone, confirmed, lost, cut, answer, dialogs, window,
                 running, trust>>

TakeAnswer(c) == answer[c] # NoAnswer /\ Judge(c, answer[c])

\* Faulty variant: without a time-out when the pairing window is over.
PromptTimesOutInWindow(c) ==
  window /\ answer[c] = NoAnswer /\ Judge(c, NoConn)

\* After 120 s prompt_code returns an empty code; the dialog stays.
PromptTimesOut(c) == answer[c] = NoAnswer /\ Judge(c, NoConn)

\* The phone's Confirm is verified and answered by the desktop's.
ReadConfirm(c) ==
  /\ desk[c] = "matched"
  /\ c \in confirmed /\ c \notin cut
  /\ confirmed' = confirmed \ {c}
  /\ Sends(c, "confirm", "trust")
  /\ UNCHANGED <<owner, phone, lost, cut, prompt, window, running, trust>>

\* Nothing is left to be read, and nothing comes.
NoConfirm(c) ==
  /\ desk[c] = "matched"
  /\ c \in cut \/ (c \notin confirmed /\ Broken(c))
  /\ Raises(c)
  /\ UNCHANGED <<owner, phone, confirmed, lost, cut, prompt, window, running,
                 trust>>

\* TrustStore.upsert.
Trust(c) ==
  /\ desk[c] = "trust"
  /\ deskTrusts' = deskTrusts \cup {owner[c]}
  /\ DeskTo(c, "complete")
  /\ UNCHANGED <<owner, phone, link, prompt, window, running, phoneTrusts,
                 forgets>>

Complete(c) ==
  /\ desk[c] = "complete"
  /\ Sends(c, "complete", "paired")
  /\ UNCHANGED <<owner, phone, confirmed, lost, cut, prompt, window, running,
                 trust>>

DeskStep(c) ==
  \/ ReadRequest(c)
  \/ Prompt(c)
  \/ TakeAnswer(c)
  \/ PromptTimesOut(c)
  \/ ReadConfirm(c)
  \/ NoConfirm(c)
  \/ Trust(c)
  \/ Complete(c)

-----------------------------------------------------------------------------
\* The desktop's user.

\* The dialog on top is left with a code that some phone has shown, or with
\* none; it does not say for which phone it asks.  After a time-out nobody
\* reads its queue.
AnswerDialog(typed) ==
  /\ dialogs # <<>>
  /\ LET c == dialogs[Len(dialogs)] IN
       answer' = IF desk[c] = "prompting" THEN [answer EXCEPT ![c] = typed]
                 ELSE answer
  /\ dialogs' = SubSeq(dialogs, 1, Len(dialogs) - 1)
  /\ UNCHANGED <<owner, desk, phone, link, lock, window, running, trust>>

OpenWindow ==
  /\ ~window /\ window' = TRUE
  /\ UNCHANGED <<owner, desk, phone, link, prompt, running, trust>>

\* 120 s later.
WindowEnds ==
  /\ window /\ window' = FALSE
  /\ UNCHANGED <<owner, desk, phone, link, prompt, running, trust>>

\* forget_device lets new phones in as well.
DesktopForgets(p) ==
  /\ forgets < MaxForgets /\ forgets' = forgets + 1
  /\ p \in deskTrusts
  /\ deskTrusts' = deskTrusts \ {p}
  /\ window' = TRUE
  /\ UNCHANGED <<owner, desk, phone, link, prompt, running, phoneTrusts>>

\* The server stops, which closes its connections; the threads go on.
Stop ==
  /\ running /\ running' = FALSE
  /\ cut' = {c \in Conns : desk[c] \notin DeskEnds \cup {"none"}}
  /\ UNCHANGED <<owner, desk, phone, toPhone, confirmed, lost, prompt, window,
                 trust>>

-----------------------------------------------------------------------------
\* The phone.

Reading(c) == phone[c] \in {"asked", "confirmed", "verified"}

\* startPairing: nothing else is pending, and the desktop is not trusted.
StartPairing(p, c) ==
  /\ phone[c] = "none" /\ \A b \in 1..(c - 1) : phone[b] # "none"
  /\ running /\ p \notin phoneTrusts
  /\ \A b \in Conns : owner[b] = p => phone[b] \in PhoneEnds
  /\ owner' = [owner EXCEPT ![c] = p]
  /\ PhoneTo(c, "asked") /\ DeskTo(c, "request")
  /\ UNCHANGED <<link, prompt, window, running, trust>>

Take(c, frame) ==
  /\ toPhone[c] # <<>> /\ Head(toPhone[c]) = frame
  /\ toPhone' = [toPhone EXCEPT ![c] = Tail(@)]

\* The code is computed and shown.
ReadChallenge(c) ==
  /\ phone[c] = "asked" /\ Take(c, "challenge")
  /\ PhoneTo(c, "shows")
  /\ UNCHANGED <<owner, desk, confirmed, lost, cut, prompt, window, running,
                 trust>>

\* 500 ms later, whether a code has been typed or not.
SendConfirm(c) ==
  /\ phone[c] = "shows"
  /\ PhoneTo(c, "confirmed")
  /\ confirmed' = IF c \in lost \cup cut \/ desk[c] \in DeskEnds THEN confirmed
                  ELSE confirmed \cup {c}
  /\ UNCHANGED <<owner, desk, toPhone, lost, cut, prompt, window, running,
                 trust>>

\* Faulty variant: the phone trusts at the desktop's Confirm.
TrustAtConfirm(c) ==
  /\ phone[c] = "confirmed" /\ Take(c, "confirm")
  /\ PhoneTo(c, "paired")
  /\ phoneTrusts' = phoneTrusts \cup {owner[c]}
  /\ UNCHANGED <<owner, desk, confirmed, lost, cut, prompt, window, running,
                 deskTrusts, forgets>>

\* The desktop's Confirm is verified.
ReadDeskConfirm(c) ==
  /\ phone[c] = "confirmed" /\ Take(c, "confirm")
  /\ PhoneTo(c, "verified")
  /\ UNCHANGED <<owner, desk, confirmed, lost, cut, prompt, window, running,
                 trust>>

ReadReject(c) ==
  /\ phone[c] \in {"asked", "confirmed"} /\ Take(c, "reject")
  /\ PhoneTo(c, "refused")
  /\ UNCHANGED <<owner, desk, confirmed, lost, cut, prompt, window, running,
                 trust>>

\* The desktop is trusted at the last frame only.
ReadComplete(c) ==
  /\ phone[c] = "verified" /\ Take(c, "complete")
  /\ PhoneTo(c, "paired")
  /\ phoneTrusts' = phoneTrusts \cup {owner[c]}
  /\ UNCHANGED <<owner, desk, confirmed, lost, cut, prompt, window, running,
                 deskTrusts, forgets>>

\* 30 s without a frame, or the connection's end.
PhoneTimesOut(c) ==
  /\ Reading(c) /\ toPhone[c] = <<>>
  /\ PhoneTo(c, "gaveUp")
  /\ UNCHANGED <<owner, desk, link, prompt, window, running, trust>>

\* reset, the end of the app, or an exception in place of what there is to read.
LeavePairing(c) ==
  /\ phone[c] \in {"asked", "shows", "confirmed", "verified"}
  /\ PhoneTo(c, "gaveUp")
  /\ toPhone' = [toPhone EXCEPT ![c] = <<>>]
  /\ UNCHANGED <<owner, desk, confirmed, lost, cut, prompt, window, running,
                 trust>>

\* The Wi-Fi fails: frames on their way are lost, and all that follow.
Lose(c) ==
  /\ phone[c] \notin PhoneEnds \cup {"none"} /\ c \notin lost
  /\ Cardinality(lost) < MaxLost
  /\ lost' = lost \cup {c}
  /\ toPhone' = [toPhone EXCEPT ![c] = <<>>]
  /\ confirmed' \in {confirmed, confirmed \ {c}}
  /\ UNCHANGED <<owner, desk, phone, cut, prompt, window, running, trust>>

PhoneStep(c) ==
  \/ ReadChallenge(c)
  \/ SendConfirm(c)
  \/ ReadDeskConfirm(c)
  \/ ReadReject(c)
  \/ ReadComplete(c)

Next ==
  \/ \E c \in Conns :
       \/ DeskStep(c)
       \/ PhoneStep(c)
       \/ PhoneTimesOut(c)
       \/ LeavePairing(c)
       \/ Lose(c)
  \/ \E p \in Phones, c \in Conns : StartPairing(p, c)
  \/ \E p \in Phones : DesktopForgets(p)
  \/ \E typed \in {c \in Conns : phone[c] \notin {"none", "asked"}}
                    \cup {NoConn} : AnswerDialog(typed)
  \/ OpenWindow
  \/ WindowEnds
  \/ Stop

\* The threads of both ends go on, and a prompt ends after 120 s.  The phone's
\* time-out is left free: what holds must not need it.
Fairness ==
  \A c \in Conns : WF_vars(DeskStep(c)) /\ WF_vars(PhoneStep(c))

Spec == Init /\ [][Next]_vars

FairSpec == Spec /\ Fairness

-----------------------------------------------------------------------------
\* Properties.

\* The two ends of a connection agree whenever both have seen its end: a phone
\* that is paired has a desktop that trusted it before, and a desktop that
\* trusts never told the phone that it is refused.  What remains possible is a
\* phone that gave up while the desktop went on.
EndsAgree ==
  \A c \in Conns :
    /\ phone[c] = "paired" => desk[c] = "paired"
    /\ desk[c] \in {"trust", "complete", "paired"} => phone[c] # "refused"

\* A phone becomes trusted only by the code of its own connection, typed into
\* the dialog of that connection: not by a time-out, not by a dialog left over
\* from another phone, not by a code that another phone shows.
TrustNeedsItsCode ==
  [][\A p \in deskTrusts' \ deskTrusts :
       \E c \in Conns : owner[c] = p /\ desk[c] = "trust" /\ answer[c] = c]_vars

\* A phone that waits for the prompt of others gets an answer at last, though
\* their users type nothing.
QueuedEnds == \A c \in Conns : desk[c] = "queued" ~> desk[c] \in DeskEnds

=============================================================================
