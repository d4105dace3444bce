-------------------------- MODULE PhoneConnection --------------------------
(***************************************************************************)
(* The phone's connection to a desktop: PairingManager.kt, driven by the   *)
(* user, by discovery and by the fall-back loop of ReconnectCoordinator.kt.*)
(*                                                                         *)
(* Everything runs in coroutines on a pool of threads.  A step is what lies*)
(* between two blocking calls or two accesses to fields that another       *)
(* coroutine may change in between; the functions that close sockets, and  *)
(* the handshake with the greeting, are one step each.  There is one       *)
(* desktop; several trusted ones only make automatic reconnect wait for    *)
(* the user; their endpoints are left open.  Left out: cool-downs          *)
(* (an attempt may be skipped at will), the code and the signatures, the   *)
(* monitors of calls and clipboard, what a session transports, shutdown.   *)
(***************************************************************************)
EXTENDS Naturals, FiniteSets

CONSTANTS
  Sockets,    \* sockets; a socket also names the session on it, and its job
  NoSocket,
  Name(_, _),  \* which of the free ones stands for a coroutine's new socket
  MaxSessions, \* bound: coroutines of sessions at one time
  MaxClicks    \* bound: of the user's clicks of each kind

\* The kinds that hold connectionAttemptInFlight, and the one that does not.
Flights == {"user", "auto", "fallback", "retry"}
Workers == Flights \cup {"confirm"}

ASSUME ConstantsAssumption ==
  /\ NoSocket \notin Sockets
  /\ \A free \in SUBSET Sockets, k \in Workers : free # {} => Name(free, k) \in free
  /\ MaxSessions \in Nat \ {0} /\ MaxClicks \in Nat

VARIABLES
  state,       \* the PairingState that the user interface shows
  trusted,     \* the desktop is in the trust store
  inFlight,    \* connectionAttemptInFlight
  confirming,  \* pairingConfirmationInFlight
  pending,     \* pendingSession, by its socket
  job,         \* activeSessionJob, by its session's socket
  active,      \* activeSocket
  connecting,  \* connectingSocket
  open,        \* the sockets that are open
  session,     \* per socket, the coroutine of the session on it
  worker,      \* per kind, the coroutine that makes an attempt
  timer,       \* the timer of the challenge is on
  clicks,      \* how often the user has clicked each
  checked,     \* autoConnectTrusted has passed its checks
  unpair       \* where unpairDevice is

flags == <<inFlight, confirming>>
refs  == <<pending, job, active, connecting>>
calls == <<timer, clicks, checked, unpair>>
vars  == <<state, trusted, flags, refs, open, session, worker, calls>>

\* none, or what the coroutine does next.
Steps == {"none", "pair", "challenge", "confirm", "wait", "try",
          "dial", "launch", "assign", "announce"}

NoWorker  == [at |-> "none", sock |-> NoSocket]
NoSession == [at |-> "none", cancelled |-> FALSE]

\* The type of the state; and one session, at most, waits for a retry: while
\* the retry runs.
TypeOK ==
  /\ state \in {"idle", "connecting", "awaiting", "success", "reconnecting",
                "error"}
  /\ trusted \in BOOLEAN
  /\ inFlight \in BOOLEAN /\ confirming \in BOOLEAN
  /\ {pending, job, active, connecting} \subseteq Sockets \cup {NoSocket}
  /\ open \subseteq Sockets
  /\ session \in [Sockets -> [at : {"none", "runs", "asks", "retries"},
                              cancelled : BOOLEAN]]
  /\ worker \in [Workers -> [at : Steps, sock : Sockets \cup {NoSocket}]]
  /\ timer \in BOOLEAN
  /\ clicks \in [{"pair", "unpair"} -> 0..MaxClicks]
  /\ checked \in BOOLEAN
  /\ unpair \in {"none", "session", "attempt"}
  /\ worker["retry"].at = "none" <=> \A s \in Sockets : session[s].at # "retries"
  /\ \A s, u \in Sockets : session[s].at = "retries" /\ session[u].at = "retries" => s = u

Init ==
  /\ state = "idle"
  /\ trusted \in BOOLEAN
  /\ inFlight = FALSE /\ confirming = FALSE
  /\ pending = NoSocket /\ job = NoSocket
  /\ active = NoSocket /\ connecting = NoSocket
  /\ open = {}
  /\ session = [s \in Sockets |-> NoSession]
  /\ worker = [k \in Workers |-> NoWorker]
  /\ timer = FALSE
  /\ clicks = [c \in {"pair", "unpair"} |-> 0]
  /\ checked = FALSE
  /\ unpair = "none"

-----------------------------------------------------------------------------

Live(s) == session[s].at = "runs" /\ s \in open

JobIsActive ==
  job # NoSocket /\ session[job].at # "none" /\ ~session[job].cancelled

\* A socket that nothing refers to stands for a new one.
Fresh ==
  {s \in Sockets \ (open \cup {pending, job, active, connecting}) :
     session[s].at = "none" /\ \A k \in Workers : worker[k].sock # s}

At(k, step) == worker[k].at = step

Goto(k, step) == worker' = [worker EXCEPT ![k].at = step]

\* The coroutine makes a socket, and others can close it from now on.  Bound:
\* one of Sockets is left.
OpenSocket(k, step) ==
  /\ Fresh # {}
  /\ connecting' = Name(Fresh, k)
  /\ open' = open \cup {connecting'}
  /\ worker' = [worker EXCEPT ![k] = [at |-> step, sock |-> connecting']]

\* canStartAutomaticReconnect; without a job, a Success is no obstacle.
MayReconnect ==
  /\ ~inFlight /\ job = NoSocket /\ pending = NoSocket
  /\ state \in {"idle", "error", "success"}

\* The coordinator wants the desktop to be found.
Searching == state \in {"idle", "error"} /\ trusted

\* closeActiveSession.
CloseActive ==
  /\ session' = IF job = NoSocket THEN session
                ELSE [session EXCEPT ![job].cancelled = session[job].at # "none"]
  /\ open' = open \ {active}
  /\ active' = NoSocket
  /\ job' = NoSocket

\* The session whose coroutine makes the attempts of a retry.
Retrying == CHOOSE s \in Sockets : session[s].at = "retries"

\* The session that the coroutine belongs to has been closed by the phone.
Cancelled(k) == k = "retry" /\ session[Retrying].cancelled

\* The coroutine ends: it gives back its flag and leaves this state.  A retry
\* is the end of the session whose coroutine makes it.
FinishWith(k, conf, final) ==
  /\ worker' = [worker EXCEPT ![k] = NoWorker]
  /\ inFlight' = (inFlight /\ k = "confirm")
  /\ confirming' = conf
  /\ session' = IF k # "retry" THEN session
                ELSE [session EXCEPT ![Retrying] = NoSession]
  /\ state' = final

Finish(k, final) == FinishWith(k, confirming /\ k # "confirm", final)

-----------------------------------------------------------------------------
(* attemptTrustedReconnect, in whichever coroutine.                        *)

Unconnect(k) ==
  connecting' = IF connecting = worker[k].sock THEN NoSocket ELSE connecting

Proceed(k, step) ==
  /\ worker' = [worker EXCEPT ![k] = [at |-> step, sock |-> NoSocket]]
  /\ UNCHANGED <<flags, session>>

\* The next turn of reconnectTrustedWithBackoff.
Backoff(k) ==
  IF trusted' THEN state' = "reconnecting" /\ Proceed(k, "wait")
  ELSE Finish(k, "idle")

\* Faulty variant: the early return leaves the flag set.
NextHostKeepsFlag ==
  IF job # NoSocket \/ pending # NoSocket
  THEN /\ worker' = [worker EXCEPT !["fallback"] = NoWorker]
       /\ UNCHANGED <<state, flags, session>>
  ELSE Proceed("fallback", "try") /\ UNCHANGED state

\* The next host of the fall-back, unless a session has come about.
NextHost ==
  IF job # NoSocket \/ pending # NoSocket THEN Finish("fallback", state)
  ELSE Proceed("fallback", "try") /\ UNCHANGED state

\* What the coroutine does when its attempt has failed; the number of delays
\* and of hosts is left open.
NextTry(k) ==
  \/ k = "user" /\ Finish(k, IF trusted' THEN "error" ELSE "idle")
  \/ k \in {"confirm", "auto", "retry"} /\ Finish(k, "error")
  \/ k \in {"auto", "retry"} /\ Backoff(k)
  \/ k = "fallback" /\ (Finish(k, state) \/ NextHost)

\* Faulty variant: the socket of a failed attempt stays open.
FailLeavesSocket(k) ==
  /\ Unconnect(k)
  /\ UNCHANGED open
  /\ NextTry(k)

\* The attempt's finally, and the runCatching around it.
Fail(k) ==
  /\ Unconnect(k)
  /\ open' = open \ {worker[k].sock}
  /\ NextTry(k)

\* After the delay, if there is one, and only on an approved Wi-Fi; on another
\* one the user gets an error.
Try(k) ==
  /\ At(k, "try") \/ (At(k, "wait") /\ ~Cancelled(k))
  /\ UNCHANGED <<trusted, pending, job, active, calls>>
  /\ \/ Fail(k)
     \/ k = "user" /\ Finish(k, "error") /\ UNCHANGED <<connecting, open>>
     \/ OpenSocket(k, "dial") /\ UNCHANGED <<state, flags, session>>

\* The greeting: ping, device information and capabilities; then the session
\* that was active is closed.
Greeted(k) ==
  /\ worker[k].sock \in open /\ trusted
  /\ CloseActive
  /\ Goto(k, "launch")
  /\ UNCHANGED <<state, trusted, flags, connecting>>

\* The connection and the handshake.  The desktop may revoke its trust; and the
\* phone's may have been removed meanwhile.
Dial(k) ==
  /\ At(k, "dial")
  /\ UNCHANGED <<pending, calls>>
  /\ \/ Greeted(k)
     \/ /\ UNCHANGED <<trusted, job, active>>
        /\ Fail(k)
     \/ /\ worker[k].sock \in open
        /\ trusted' = FALSE
        /\ UNCHANGED <<job, active>>
        /\ Fail(k)

\* The socket becomes the active one, the first snapshots are written, and the
\* session is launched.
Launch(k) ==
  /\ At(k, "launch")
  /\ active' = worker[k].sock
  /\ UNCHANGED <<trusted, pending, job, calls>>
  /\ \/ /\ worker[k].sock \in open
        /\ Cardinality({s \in Sockets : session[s].at # "none"}) < MaxSessions
        /\ session' = [session EXCEPT ![worker[k].sock].at = "runs"]
        /\ Goto(k, "assign")
        /\ UNCHANGED <<state, flags, connecting, open>>
     \/ Fail(k)

\* launch has returned, while the session may already have ended.
Assign(k) ==
  /\ At(k, "assign")
  /\ job' = worker[k].sock
  /\ Goto(k, "announce")
  /\ UNCHANGED <<state, trusted, flags, pending, active, connecting, open,
                 session, calls>>

Announce(k) ==
  /\ At(k, "announce")
  /\ Unconnect(k)
  /\ Finish(k, "success")
  /\ UNCHANGED <<trusted, pending, job, active, open, calls>>

Attempt(k) ==
  Try(k) \/ Dial(k) \/ Launch(k) \/ Assign(k)
  \/ Announce(k)

-----------------------------------------------------------------------------
(* The coroutines that make attempts.                                      *)

\* startPairing, on a desktop that the user chooses, and the first look of its
\* coroutine at the trust store.
StartPairing ==
  /\ unpair = "none" /\ clicks["pair"] < MaxClicks
  /\ pending = NoSocket /\ ~JobIsActive /\ ~inFlight
  /\ clicks' = [clicks EXCEPT !["pair"] = @ + 1]
  /\ inFlight' = TRUE
  /\ state' = "connecting"
  /\ Goto("user", IF trusted THEN "try" ELSE "pair")
  /\ UNCHANGED <<trusted, confirming, refs, open, session, timer, checked,
                 unpair>>

\* startFullPairing; or there is no Wi-Fi to be read.
StartFullPairing ==
  /\ At("user", "pair")
  /\ UNCHANGED <<trusted, pending, job, active, calls>>
  /\ \/ Finish("user", "error") /\ UNCHANGED <<connecting, open>>
     \/ OpenSocket("user", "challenge") /\ UNCHANGED <<state, flags, session>>

\* The desktop answers with a challenge; or the attempt fails.
Challenge ==
  /\ At("user", "challenge")
  /\ Unconnect("user")
  /\ UNCHANGED <<trusted, job, active, clicks, checked, unpair>>
  /\ \/ /\ worker["user"].sock \in open
        /\ pending' = worker["user"].sock
        /\ timer' = TRUE
        /\ Finish("user", "awaiting")
        /\ UNCHANGED open
     \/ /\ open' = open \ {worker["user"].sock, pending}
        /\ pending' = NoSocket
        /\ FinishWith("user", FALSE, "error")
        /\ UNCHANGED timer

\* The timer of the challenge calls confirmDisplayedCodeEntry, which does
\* nothing while an earlier confirmation is in flight.  Bound: not while one
\* whose flag was taken away makes its attempt.
Confirm ==
  /\ timer /\ pending # NoSocket
  /\ confirming \/ At("confirm", "none")
  /\ timer' = FALSE
  /\ UNCHANGED <<state, trusted, inFlight, refs, open, session, clicks, checked,
                 unpair>>
  /\ IF confirming THEN UNCHANGED <<confirming, worker>>
     ELSE /\ confirming' = TRUE
          /\ worker' = [worker EXCEPT !["confirm"] = [at |-> "confirm", sock |-> pending]]

\* Faulty variant: the pending session is closed, but not forgotten.
ConfirmedKeepsPending ==
  /\ At("confirm", "confirm")
  /\ open' = open \ {worker["confirm"].sock, pending}
  /\ UNCHANGED <<pending, job, active, connecting, calls>>
  /\ \/ /\ worker["confirm"].sock \in open
        /\ trusted' = TRUE
        /\ state' = "success"
        /\ worker' = [worker EXCEPT !["confirm"] = [at |-> "try", sock |-> NoSocket]]
        /\ UNCHANGED <<flags, session>>
     \/ trusted' \in {trusted, TRUE} /\ Finish("confirm", "error")

\* Both sides confirm, and the phone trusts the desktop; or something fails,
\* before the desktop is stored or after.
Confirmed ==
  /\ At("confirm", "confirm")
  /\ open' = open \ {worker["confirm"].sock, pending}
  /\ pending' = NoSocket
  /\ UNCHANGED <<job, active, connecting, calls>>
  /\ \/ /\ worker["confirm"].sock \in open
        /\ trusted' = TRUE
        /\ state' = "success"
        /\ worker' = [worker EXCEPT !["confirm"] = [at |-> "try", sock |-> NoSocket]]
        /\ UNCHANGED <<flags, session>>
     \/ trusted' \in {trusted, TRUE} /\ Finish("confirm", "error")

\* autoConnectTrusted, called by the coordinator when the desktop is found: its
\* checks, and then the flag and the first turn of its coroutine.
DesktopFound ==
  /\ trusted /\ MayReconnect /\ ~checked
  /\ checked' = TRUE
  /\ UNCHANGED <<state, trusted, flags, refs, open, session, worker, timer,
                 clicks, unpair>>

AutoConnect ==
  /\ checked
  /\ checked' = FALSE
  /\ UNCHANGED <<trusted, confirming, refs, open, session, timer, clicks, unpair>>
  /\ \/ inFlight /\ UNCHANGED <<state, inFlight, worker>>
     \/ /\ ~inFlight /\ ~trusted
        /\ state' = "idle"
        /\ UNCHANGED <<inFlight, worker>>
     \/ /\ ~inFlight /\ trusted
        /\ state' = "reconnecting"
        /\ inFlight' = TRUE
        /\ Goto("auto", "try")

\* autoConnectTrustedFallback, called by the coordinator's loop, with its first
\* host.
Fallback ==
  /\ Searching /\ MayReconnect
  /\ inFlight' = TRUE
  /\ Goto("fallback", "try")
  /\ UNCHANGED <<state, trusted, confirming, refs, open, session, calls>>

\* The delay notices that the coroutine was cancelled.
DelayCancelled ==
  /\ At("retry", "wait") /\ Cancelled("retry")
  /\ Finish("retry", state)
  /\ UNCHANGED <<trusted, refs, open, calls>>

-----------------------------------------------------------------------------
(* The coroutine of a session: runHeartbeatLoop.                           *)

\* A reader or writer has handled a request or forwarded an event, and says so in
\* the state, whatever the state is and though the socket may be closed by now.
Report(s) ==
  /\ session[s].at = "runs"
  /\ state' = "success"
  /\ UNCHANGED <<trusted, flags, refs, open, session, worker, calls>>

\* Both of its children have ended, and with them the socket.
EndSession(s) ==
  /\ session[s].at = "runs"
  /\ open' = open \ {s}
  /\ UNCHANGED <<state, trusted, flags, pending, active, connecting, worker,
                 calls>>

\* A reader or writer has thrown; the handler forgets the active job, whoever's
\* it is.
Dropped(s) ==
  /\ EndSession(s)
  /\ job' = NoSocket
  /\ session' = [session EXCEPT ![s] = IF @.cancelled THEN NoSession
                                       ELSE [@ EXCEPT !.at = "asks"]]

\* The peer or the network is gone.
PeerCloses(s) == Live(s) /\ Dropped(s)

\* The phone has closed the socket.  A session that was cancelled may end by
\* the cancellation or by what its reader throws.
SessionStops(s) ==
  \/ s \notin open /\ Dropped(s)
  \/ /\ session[s].cancelled /\ EndSession(s)
     /\ session' = [session EXCEPT ![s] = NoSession]
     /\ UNCHANGED job

\* retryTrustedReconnect: another attempt in flight makes it give up.
Retry(s) ==
  /\ session[s].at = "asks"
  /\ UNCHANGED <<trusted, confirming, refs, open, calls>>
  /\ IF ~session[s].cancelled /\ trusted /\ ~inFlight
     THEN /\ inFlight' = TRUE
          /\ state' = "reconnecting"
          /\ session' = [session EXCEPT ![s].at = "retries"]
          /\ Goto("retry", "try")
     ELSE /\ session' = [session EXCEPT ![s] = NoSession]
          /\ UNCHANGED <<state, inFlight, worker>>

-----------------------------------------------------------------------------
(* The user unpairs the desktop, on the main thread.                       *)

Unpair ==
  /\ trusted /\ unpair = "none" /\ clicks["unpair"] < MaxClicks
  /\ clicks' = [clicks EXCEPT !["unpair"] = @ + 1]
  /\ trusted' = FALSE
  /\ unpair' = IF state = "success" THEN "session" ELSE "attempt"
  /\ UNCHANGED <<state, flags, refs, open, session, worker, timer, checked>>

UnpairDone ==
  /\ unpair # "none"
  /\ unpair' = "none"
  /\ state' = "idle"
  /\ UNCHANGED <<trusted, flags, pending, worker, timer, clicks, checked>>
  /\ IF unpair = "session"
     THEN CloseActive /\ UNCHANGED connecting
     ELSE /\ open' = open \ {connecting}
          /\ connecting' = NoSocket
          /\ UNCHANGED <<job, active, session>>

-----------------------------------------------------------------------------

WorkerStep ==
  \/ \E k \in Workers : Attempt(k)
  \/ StartFullPairing \/ Challenge \/ Confirmed
  \/ AutoConnect \/ DelayCancelled

SessionStep(s) == Report(s) \/ SessionStops(s) \/ Retry(s)

Next ==
  \/ WorkerStep
  \/ \E s \in Sockets : SessionStep(s) \/ PeerCloses(s)
  \/ StartPairing \/ Confirm \/ DesktopFound \/ Fallback
  \/ Unpair \/ UnpairDone

Spec == Init /\ [][Next]_vars

-----------------------------------------------------------------------------

\* The flag connectionAttemptInFlight is held by one coroutine, and by none
\* after it has ended: no early return, failed handshake, cancelled retry or
\* removed trust leaves it set or gives it to two.
FlagHeldByOne ==
  Cardinality({k \in Flights : ~At(k, "none")}) = IF inFlight THEN 1 ELSE 0

\* No socket is forgotten while it is open: it is the pending session's, or an
\* attempt's that still works with it, or that of a session that runs; also
\* when attempts compete, or the user unpairs the desktop meanwhile.
SocketsOwned ==
  \A s \in open : pending = s \/ session[s].at = "runs"
                    \/ \E k \in Workers : worker[k].sock = s

\* A code on display belongs to a pending session, whose socket is open, and
\* "connecting" to an attempt of the user's that is not over; although other
\* attempts, sessions and the unpairing write the state and close sockets too.
PairingHasOwner ==
  /\ state = "connecting" => ~At("user", "none")
  /\ state = "awaiting" => pending # NoSocket
  /\ pending # NoSocket => pending \in open

=============================================================================
