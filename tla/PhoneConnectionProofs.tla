----------------------- MODULE PhoneConnectionProofs -----------------------
(***************************************************************************)
(* What the coroutines of PhoneConnection share and must not confuse: the  *)
(* flag of the one attempt in flight, the sockets that each of them works  *)
(* with, and the pairing on display.  For any number of sockets, sessions  *)
(* and clicks, and in whatever order the coroutines run.                   *)
(***************************************************************************)
EXTENDS PhoneConnection, FiniteSetTheorems, TLAPS

Busy(k) == ~At(k, "none")

\* The flag is set exactly while one coroutine of the kinds that set it is
\* under way.
FlagIsTaken ==
  /\ inFlight <=> \E k \in Flights : Busy(k)
  /\ \A k, l \in Flights : Busy(k) /\ Busy(l) => k = l

\* A coroutine has a socket of its own from the moment it makes one, or takes
\* over the pending one, until it gives it up.
WorkersHaveSockets ==
  /\ \A k \in Workers :
       At(k, "none") \/ At(k, "pair") \/ At(k, "wait") \/ At(k, "try")
       <=> worker[k].sock = NoSocket
  /\ \A k, l \in Workers :
       k # l /\ worker[k].sock # NoSocket => worker[k].sock # worker[l].sock

\* The session on a coroutine's socket begins when the coroutine launches it,
\* and until then nothing else refers to that socket; it may be over before
\* the coroutine is.
LaunchBeginsSession ==
  \A k \in Workers :
    /\ At(k, "challenge") \/ At(k, "dial") \/ At(k, "launch")
       => session[worker[k].sock].at = "none" /\ active # worker[k].sock
    /\ (At(k, "assign") \/ At(k, "announce")) /\ worker[k].sock \in open
       => session[worker[k].sock].at = "runs"

\* The socket of the pending session is open, and nobody who closes sockets
\* refers to it, but the coroutine that confirms the pairing.
PendingIsSafe ==
  /\ pending # NoSocket =>
       /\ pending \in open /\ session[pending].at = "none"
       /\ active # pending /\ connecting # pending
       /\ \A k \in Workers : worker[k].sock = pending => At(k, "confirm")
  /\ Busy("user") => pending = NoSocket
  /\ \A k \in Workers : At(k, "confirm") => k = "confirm" /\ worker[k].sock = pending

\* What the user interface shows of a pairing.
ShownPairing ==
  /\ state = "connecting" => Busy("user")
  /\ state = "awaiting" => pending # NoSocket

\* The inductive invariant.  None of the properties is inductive: that no step
\* closes the pending socket, say, depends on who refers to which socket, and
\* that on who is under way at all.
IInv ==
  /\ TypeOK
  /\ FlagIsTaken
  /\ WorkersHaveSockets
  /\ LaunchBeginsSession
  /\ PendingIsSafe
  /\ ShownPairing
  /\ SocketsOwned

-----------------------------------------------------------------------------

\* Nobody is under way when the program starts.
LEMMA InitEstablishesIInv == Init => IInv
<1> SUFFICES ASSUME Init PROVE IInv
  OBVIOUS
<1> USE ConstantsAssumption DEF Init
<1>1. TypeOK
  <2>1. /\ session \in [Sockets -> [at : {"none", "runs", "asks", "retries"},
                                    cancelled : BOOLEAN]]
        /\ \A s \in Sockets : session[s].at = "none"
    BY DEF NoSession
  <2>2. /\ worker \in [Workers -> [at : Steps, sock : Sockets \cup {NoSocket}]]
        /\ \A k \in Workers : worker[k].at = "none" /\ worker[k].sock = NoSocket
    BY DEF NoWorker, Steps
  <2>3. clicks \in [{"pair", "unpair"} -> 0..MaxClicks]
    OBVIOUS
  <2> QED
    BY <2>1, <2>2, <2>3 DEF TypeOK, Workers, Flights
<1>2. \A k \in Workers : At(k, "none") /\ worker[k].sock = NoSocket
  BY DEF At, NoWorker
<1>3. FlagIsTaken /\ WorkersHaveSockets
  BY <1>2 DEF FlagIsTaken, WorkersHaveSockets, Workers, Busy
<1>4. LaunchBeginsSession /\ PendingIsSafe /\ ShownPairing /\ SocketsOwned
  BY <1>2 DEF LaunchBeginsSession, PendingIsSafe, ShownPairing, SocketsOwned, Workers, Busy, At
<1> QED
  BY <1>1, <1>3, <1>4 DEF IInv

\* The one session that waits for its retry.
LEMMA RetryingIsOne ==
  ASSUME TypeOK, Busy("retry")
  PROVE  /\ Retrying \in Sockets /\ session[Retrying].at = "retries"
         /\ \A s \in Sockets : session[s].at = "retries" => s = Retrying
<1>1. \E s \in Sockets : session[s].at = "retries"
  BY DEF TypeOK, Busy, At
<1> QED
  BY <1>1 DEF TypeOK, Retrying

-----------------------------------------------------------------------------
\* The ways of a coroutine that makes attempts.

\* It ends, and gives back its flag,
Ends(k) ==
  /\ worker' = [worker EXCEPT ![k] = NoWorker]
  /\ inFlight' = (inFlight /\ k = "confirm")
  /\ confirming' \in BOOLEAN
  /\ session' = (IF k # "retry" THEN session
                 ELSE [session EXCEPT ![Retrying] = NoSession])

\* or it goes on to its next try, without a socket.
Goes(k) ==
  /\ \E step \in {"try", "wait"} :
       worker' = [worker EXCEPT ![k] = [at |-> step, sock |-> NoSocket]]
  /\ UNCHANGED <<flags, session>>

\* A coroutine whose attempt has failed ends or goes on; that of the user does
\* not leave "connecting" on display.
LEMMA NextTryEndsOrGoes ==
  ASSUME TypeOK, NEW k \in Workers, NextTry(k)
  PROVE  /\ Ends(k) \/ Goes(k)
         /\ \/ state' \in {"idle", "error", "reconnecting"}
            \/ state' = state /\ k # "user"
BY DEF NextTry, Finish, FinishWith, Backoff, Proceed, NextHost, Ends, Goes, TypeOK, flags

\* What becomes of the sessions and of the coroutines when one of them gives
\* up its socket.
LEMMA GivesUp ==
  ASSUME TypeOK, NEW k \in Workers, Busy(k), Ends(k) \/ Goes(k)
  PROVE  /\ worker' \in [Workers -> [at : Steps, sock : Sockets \cup {NoSocket}]]
         /\ \A l \in Workers \ {k} : worker'[l] = worker[l]
         /\ worker'[k].sock = NoSocket /\ worker'[k].at \in {"none", "try", "wait"}
         /\ worker'[k].at = "none" <=> Ends(k)
         /\ session' \in [Sockets -> [at : {"none", "runs", "asks", "retries"},
                                      cancelled : BOOLEAN]]
         /\ \A s \in Sockets :
              session'[s].at = IF Ends(k) /\ k = "retry" /\ s = Retrying THEN "none"
                               ELSE session[s].at
         /\ inFlight' \in BOOLEAN /\ confirming' \in BOOLEAN
<1>1. CASE Ends(k)
  <2>1. worker'[k] = NoWorker /\ \A l \in Workers \ {k} : worker'[l] = worker[l]
    BY <1>1 DEF Ends, TypeOK
  <2>2. worker' \in [Workers -> [at : Steps, sock : Sockets \cup {NoSocket}]]
    BY <1>1 DEF Ends, TypeOK, NoWorker, Steps
  <2>3. /\ session' \in [Sockets -> [at : {"none", "runs", "asks", "retries"},
                                     cancelled : BOOLEAN]]
        /\ \A s \in Sockets :
             session'[s].at = IF k = "retry" /\ s = Retrying THEN "none"
                              ELSE session[s].at
    BY <1>1, RetryingIsOne DEF Ends, TypeOK, NoSession
  <2>4. inFlight' \in BOOLEAN /\ confirming' \in BOOLEAN
    BY <1>1 DEF Ends
  <2> QED
    BY <1>1, <2>1, <2>2, <2>3, <2>4 DEF NoWorker
<1>2. CASE Goes(k)
  <2>1. PICK step \in {"try", "wait"} :
          worker' = [worker EXCEPT ![k] = [at |-> step, sock |-> NoSocket]]
    BY <1>2 DEF Goes
  <2>2. /\ worker'[k] = [at |-> step, sock |-> NoSocket]
        /\ \A l \in Workers \ {k} : worker'[l] = worker[l]
    BY <2>1 DEF TypeOK
  <2>3. worker' \in [Workers -> [at : Steps, sock : Sockets \cup {NoSocket}]]
    BY <2>1 DEF TypeOK, Steps
  <2>4. ~Ends(k)
    BY <2>2 DEF Ends, NoWorker, TypeOK
  <2> QED
    BY <1>2, <2>2, <2>3, <2>4 DEF Goes, flags, TypeOK
<1> QED
  BY <1>1, <1>2

\* A coroutine that gives up its socket keeps the invariant, whether it ends
\* or goes on: the socket is closed, or belongs to a session from now on.
LEMMA GiveUpPreservesIInv ==
  ASSUME IInv, NEW k \in Workers, Busy(k), ~At(k, "confirm"), Ends(k) \/ Goes(k),
         \/ open' = open \ {worker[k].sock}
         \/ open' = open /\ (worker[k].sock \in open => session[worker[k].sock].at = "runs"),
         connecting' \in {connecting, NoSocket},
         active' = active \/ (At(k, "launch") /\ active' = worker[k].sock),
         \/ state' \in {"idle", "error", "reconnecting", "success"}
         \/ state' = state /\ k # "user",
         trusted' \in BOOLEAN,
         UNCHANGED <<pending, job, calls>>
  PROVE  IInv'
<1> USE DEF IInv, calls
<1> DEFINE sock == worker[k].sock
<1>1. /\ worker' \in [Workers -> [at : Steps, sock : Sockets \cup {NoSocket}]]
      /\ \A l \in Workers \ {k} : worker'[l] = worker[l]
      /\ worker'[k].sock = NoSocket /\ worker'[k].at \in {"none", "try", "wait"}
      /\ worker'[k].at = "none" <=> Ends(k)
  BY GivesUp
<1>2. /\ session' \in [Sockets -> [at : {"none", "runs", "asks", "retries"},
                                   cancelled : BOOLEAN]]
      /\ \A s \in Sockets :
           session'[s].at = IF Ends(k) /\ k = "retry" /\ s = Retrying THEN "none"
                            ELSE session[s].at
      /\ inFlight' \in BOOLEAN /\ confirming' \in BOOLEAN
  BY GivesUp
<1>3. \A s \in Sockets :
        /\ session[s].at \in {"none", "runs"} => session'[s].at = session[s].at
        /\ session'[s].at = session[s].at \/ session'[s].at = "none"
  BY <1>2, RetryingIsOne
<1>4. sock \in Sockets \cup {NoSocket} /\ NoSocket \notin open
  BY ConstantsAssumption DEF TypeOK
<1>5. TypeOK'
  <2>1. /\ worker'["retry"].at = "none" <=> \A s \in Sockets : session'[s].at # "retries"
        /\ \A s, u \in Sockets :
             session'[s].at = "retries" /\ session'[u].at = "retries" => s = u
    <3>1. CASE k = "retry"
      BY <1>1, <1>2, <3>1, RetryingIsOne
    <3>2. CASE k # "retry"
      BY <1>1, <1>2, <3>2 DEF TypeOK, Workers, Flights
    <3> QED
      BY <3>1, <3>2
  <2>2. {pending', job', active', connecting'} \subseteq Sockets \cup {NoSocket}
    BY <1>4 DEF TypeOK
  <2> QED
    BY <1>1, <1>2, <2>1, <2>2 DEF TypeOK
<1>6. FlagIsTaken'
  <2>1. CASE k = "confirm" \/ (Goes(k) /\ ~Ends(k))
    <3>1. inFlight' = inFlight
      BY <2>1 DEF Ends, Goes, flags, TypeOK
    <3>2. \A l \in Flights : Busy(l)' <=> Busy(l)
      BY <1>1, <2>1 DEF Busy, At, Workers, Flights
    <3> QED
      BY <3>1, <3>2 DEF FlagIsTaken
  <2>2. CASE k # "confirm" /\ Ends(k)
    <3>1. ~inFlight'
      BY <2>2 DEF Ends
    <3>2. \A l \in Flights : ~Busy(l)'
      BY <1>1, <2>2 DEF FlagIsTaken, Busy, At, Workers, Flights
    <3> QED
      BY <3>1, <3>2 DEF FlagIsTaken
  <2> QED
    BY <2>1, <2>2
<1>7. WorkersHaveSockets'
  BY <1>1 DEF WorkersHaveSockets, At
<1>8. LaunchBeginsSession'
  BY <1>1, <1>3, <1>4 DEF LaunchBeginsSession, WorkersHaveSockets, At, TypeOK
<1>9. PendingIsSafe'
  BY <1>1, <1>3, <1>4 DEF PendingIsSafe, WorkersHaveSockets, At, Busy, TypeOK, Workers, Flights
<1>10. ShownPairing'
  BY <1>1 DEF ShownPairing, Busy, At, Workers, Flights
<1>11. SocketsOwned'
  <2> SUFFICES ASSUME NEW s \in open'
               PROVE  \/ pending' = s \/ session'[s].at = "runs"
                      \/ \E l \in Workers : worker'[l].sock = s
    BY DEF SocketsOwned
  <2>1. s \in open /\ s \in Sockets /\ (s = sock => session[s].at = "runs")
    BY DEF TypeOK
  <2>2. \/ pending = s \/ session[s].at = "runs"
        \/ \E l \in Workers \ {k} : worker[l].sock = s
    BY <2>1 DEF SocketsOwned
  <2> QED
    BY <1>1, <1>3, <2>1, <2>2
<1> QED
  BY <1>5, <1>6, <1>7, <1>8, <1>9, <1>10, <1>11

-----------------------------------------------------------------------------

\* A coroutine that makes a socket keeps the invariant: nothing refers to it.
LEMMA OpenPreservesIInv ==
  ASSUME IInv, NEW k \in Workers, NEW step, OpenSocket(k, step),
         \/ step = "dial" /\ (At(k, "try") \/ At(k, "wait"))
         \/ step = "challenge" /\ k = "user" /\ At(k, "pair"),
         UNCHANGED <<state, trusted, flags, pending, job, active, session, calls>>
  PROVE  IInv'
<1> USE DEF IInv, calls, flags
<1> DEFINE new == connecting'
<1>1. /\ new \in Sockets \ (open \cup {pending, job, active, connecting})
      /\ session[new].at = "none"
      /\ \A l \in Workers : worker[l].sock # new
  <2>1. new \in Fresh
    <3>1. Fresh \in SUBSET Sockets /\ Fresh # {} /\ new = Name(Fresh, k)
      BY DEF OpenSocket, Fresh
    <3> QED
      BY <3>1, ConstantsAssumption
  <2> QED
    BY <2>1 DEF Fresh
<1>2. /\ worker' \in [Workers -> [at : Steps, sock : Sockets \cup {NoSocket}]]
      /\ \A l \in Workers \ {k} : worker'[l] = worker[l]
      /\ worker'[k].sock = new /\ worker'[k].at = step /\ new # NoSocket
  BY <1>1, ConstantsAssumption DEF OpenSocket, TypeOK, Steps
<1>3. open' = open \cup {new} /\ worker[k].sock = NoSocket
  BY DEF OpenSocket, WorkersHaveSockets
<1>4. TypeOK'
  <2>1. worker'["retry"].at = "none" <=> worker["retry"].at = "none"
    BY <1>2 DEF At, Workers, Flights
  <2>2. {pending', job', active', connecting'} \subseteq Sockets \cup {NoSocket}
    BY <1>1 DEF TypeOK
  <2> QED
    BY <1>1, <1>2, <1>3, <2>1, <2>2 DEF TypeOK
<1>5. \A l \in Workers : Busy(l)' <=> Busy(l)
  BY <1>2 DEF Busy, At
<1>6. FlagIsTaken' /\ ShownPairing'
  BY <1>5 DEF FlagIsTaken, ShownPairing, Workers, Flights
<1>7. WorkersHaveSockets'
  BY <1>1, <1>2 DEF WorkersHaveSockets, At
<1>8. LaunchBeginsSession'
  BY <1>1, <1>2, <1>3 DEF LaunchBeginsSession, At, TypeOK
<1>9. PendingIsSafe'
  BY <1>1, <1>2, <1>3, <1>5 DEF PendingIsSafe, At, TypeOK, Workers, Flights
<1>10. SocketsOwned'
  BY <1>2, <1>3, ConstantsAssumption DEF SocketsOwned, TypeOK
<1> QED
  BY <1>4, <1>6, <1>7, <1>8, <1>9, <1>10

\* A coroutine that takes the free flag and begins keeps the invariant.
LEMMA BeginPreservesIInv ==
  ASSUME IInv, NEW k \in Flights, NEW step \in {"pair", "try"}, Goto(k, step),
         ~inFlight, inFlight' = TRUE, confirming' = confirming,
         k = "user" => pending = NoSocket,
         state' = "reconnecting" \/ state' = state \/ (state' = "connecting" /\ k = "user"),
         \/ k # "retry" /\ UNCHANGED session
         \/ k = "retry" /\ \E s \in Sockets :
              session[s].at = "asks" /\ session' = [session EXCEPT ![s].at = "retries"],
         UNCHANGED <<trusted, refs, open, timer, unpair>>,
         clicks' \in [{"pair", "unpair"} -> 0..MaxClicks], checked' \in BOOLEAN
  PROVE  IInv'
<1> USE DEF IInv, refs
<1>0. k \in Workers
  BY DEF Workers
<1>1. ~Busy(k) /\ worker[k].sock = NoSocket
  BY <1>0 DEF FlagIsTaken, WorkersHaveSockets, Busy
<1>2. /\ worker' \in [Workers -> [at : Steps, sock : Sockets \cup {NoSocket}]]
      /\ \A l \in Workers \ {k} : worker'[l] = worker[l]
      /\ worker'[k].sock = NoSocket /\ worker'[k].at = step
  BY <1>0, <1>1 DEF Goto, TypeOK, Steps
<1>3. /\ session' \in [Sockets -> [at : {"none", "runs", "asks", "retries"},
                                   cancelled : BOOLEAN]]
      /\ \A s \in Sockets :
           \/ session'[s].at = session[s].at
           \/ k = "retry" /\ session[s].at = "asks" /\ session'[s].at = "retries"
  BY DEF TypeOK
<1>4. TypeOK'
  <2>1. CASE k = "retry"
    <3>1. \A s \in Sockets : session[s].at # "retries"
      BY <1>1, <2>1 DEF TypeOK, Busy, At
    <3>2. PICK s \in Sockets : session' = [session EXCEPT ![s].at = "retries"]
      BY <2>1
    <3>3. \A u \in Sockets : session'[u].at = "retries" <=> u = s
      BY <3>1, <3>2 DEF TypeOK
    <3> QED
      BY <1>2, <1>3, <2>1, <3>3 DEF TypeOK
  <2>2. CASE k # "retry"
    BY <1>2, <1>3, <2>2 DEF TypeOK, Workers, Flights
  <2> QED
    BY <2>1, <2>2
<1>5. FlagIsTaken'
  BY <1>0, <1>2 DEF FlagIsTaken, Busy, At, Workers
<1>6. WorkersHaveSockets'
  BY <1>0, <1>2 DEF WorkersHaveSockets, At
<1>7. LaunchBeginsSession'
  <2>1. \A l \in Workers \ {k} : worker[l].sock \in Sockets \cup {NoSocket}
    BY DEF TypeOK
  <2>2. ASSUME NEW l \in Workers,
               At(l, "challenge")' \/ At(l, "dial")' \/ At(l, "launch")'
                 \/ At(l, "assign")' \/ At(l, "announce")'
        PROVE  worker'[l] = worker[l] /\ worker[l].sock \in Sockets
    BY <1>2, <2>1, <2>2 DEF WorkersHaveSockets, At
  <2> QED
    BY <1>3, <2>2 DEF LaunchBeginsSession, At
<1>8. PendingIsSafe'
  BY <1>0, <1>1, <1>2, <1>3 DEF PendingIsSafe, Busy, At, TypeOK, Workers, Flights
<1>9. ShownPairing'
  BY <1>0, <1>2 DEF ShownPairing, Busy, At, Workers, Flights
<1>10. SocketsOwned'
  BY <1>1, <1>2, <1>3, ConstantsAssumption DEF SocketsOwned, TypeOK
<1> QED
  BY <1>4, <1>5, <1>6, <1>7, <1>8, <1>9, <1>10

\* A step in which no coroutine moves keeps the invariant, if it keeps the
\* types, the pending session and its socket, and lets a session end only
\* together with its socket.
LEMMA OutsidePreservesIInv ==
  ASSUME IInv, TypeOK', UNCHANGED <<worker, inFlight, pending>>,
         open' \subseteq open, pending \in open => pending \in open',
         \A s \in Sockets :
           /\ session[s].at = "none" => session'[s].at = "none"
           /\ session[s].at = "runs" /\ s \in open' => session'[s].at = "runs",
         active' \in {active, NoSocket}, connecting' \in {connecting, NoSocket},
         state' \in {"idle", "success", state}
  PROVE  IInv'
<1> USE DEF IInv
<1>1. \A k \in Workers : Busy(k)' <=> Busy(k)
  BY DEF Busy, At
<1>2. FlagIsTaken' /\ ShownPairing'
  BY <1>1 DEF FlagIsTaken, ShownPairing, Workers, Flights
<1>3. WorkersHaveSockets'
  BY DEF WorkersHaveSockets, At
<1>4. \A k \in Workers : worker[k].sock \in Sockets \cup {NoSocket}
  BY DEF TypeOK
<1>5. LaunchBeginsSession'
  BY <1>3, <1>4 DEF LaunchBeginsSession, WorkersHaveSockets, At, TypeOK
<1>6. PendingIsSafe'
  BY <1>1 DEF PendingIsSafe, At, TypeOK, Workers, Flights
<1>7. SocketsOwned'
  BY DEF SocketsOwned, TypeOK
<1> QED
  BY <1>2, <1>3, <1>5, <1>6, <1>7

\* closeActiveSession does not touch the pending session: its socket is not
\* the active one.
LEMMA CloseActiveSpares ==
  ASSUME IInv, CloseActive
  PROVE  /\ session' \in [Sockets -> [at : {"none", "runs", "asks", "retries"},
                                      cancelled : BOOLEAN]]
         /\ \A s \in Sockets : session'[s].at = session[s].at
         /\ open' \subseteq open /\ (pending \in open => pending \in open')
         /\ active' = NoSocket /\ job' = NoSocket
<1>1. pending \in open => pending # active
  BY ConstantsAssumption DEF IInv, PendingIsSafe, TypeOK
<1>2. /\ session' \in [Sockets -> [at : {"none", "runs", "asks", "retries"},
                                   cancelled : BOOLEAN]]
      /\ \A s \in Sockets : session'[s].at = session[s].at
  <2>1. CASE job = NoSocket
    BY <2>1 DEF IInv, TypeOK, CloseActive
  <2>2. CASE job \in Sockets
    <3>1. session' = [session EXCEPT ![job].cancelled = session[job].at # "none"]
      BY <2>2, ConstantsAssumption DEF CloseActive
    <3> QED
      BY <2>2, <3>1 DEF IInv, TypeOK
  <2> QED
    BY <2>1, <2>2 DEF IInv, TypeOK
<1> QED
  BY <1>1, <1>2 DEF CloseActive

-----------------------------------------------------------------------------
\* The steps of the coroutines that make attempts.

\* Try: the socket is made, or the coroutine gives up without having one.
LEMMA TryPreservesIInv == ASSUME IInv, NEW k \in Workers, Try(k) PROVE IInv'
<1> USE DEF Try, IInv, calls
<1>1. Busy(k) /\ ~At(k, "confirm") /\ worker[k].sock = NoSocket
  BY DEF Busy, At, WorkersHaveSockets
<1>2. CASE Fail(k)
  BY <1>1, <1>2, NextTryEndsOrGoes, GiveUpPreservesIInv DEF Fail, Unconnect, TypeOK
<1>3. CASE k = "user" /\ Finish(k, "error") /\ UNCHANGED <<connecting, open>>
  <2>1. Ends(k) /\ state' = "error"
    BY <1>3 DEF Finish, FinishWith, Ends, TypeOK
  <2>2. NoSocket \notin open
    BY ConstantsAssumption DEF TypeOK
  <2> QED
    BY <1>1, <1>3, <2>1, <2>2, GiveUpPreservesIInv DEF TypeOK
<1>4. CASE OpenSocket(k, "dial") /\ UNCHANGED <<state, flags, session>>
  BY <1>4, OpenPreservesIInv
<1> QED
  BY <1>2, <1>3, <1>4

\* Dial: the greeting is exchanged and the earlier session closed, or the
\* attempt fails, or the desktop revokes its trust.
LEMMA DialPreservesIInv == ASSUME IInv, NEW k \in Workers, Dial(k) PROVE IInv'
<1> USE DEF Dial, Greeted, IInv, calls
<1>1. Busy(k) /\ ~At(k, "confirm")
  BY DEF Busy, At
<1>2. CASE Fail(k) /\ trusted' \in BOOLEAN /\ UNCHANGED <<job, active>>
  BY <1>1, <1>2, NextTryEndsOrGoes, GiveUpPreservesIInv DEF Fail, Unconnect
<1>3. CASE /\ worker[k].sock \in open /\ trusted
           /\ CloseActive
           /\ Goto(k, "launch")
           /\ UNCHANGED <<state, trusted, flags, connecting>>
  <2>1. /\ session' \in [Sockets -> [at : {"none", "runs", "asks", "retries"},
                                     cancelled : BOOLEAN]]
        /\ \A s \in Sockets : session'[s].at = session[s].at
        /\ open' \subseteq open /\ (pending \in open => pending \in open')
        /\ active' = NoSocket /\ job' = NoSocket
    BY <1>3, CloseActiveSpares
  <2>2. /\ worker' \in [Workers -> [at : Steps, sock : Sockets \cup {NoSocket}]]
        /\ \A l \in Workers \ {k} : worker'[l] = worker[l]
        /\ worker'[k].sock = worker[k].sock /\ worker'[k].at = "launch"
    BY <1>3 DEF Goto, TypeOK, Steps
  <2>3. TypeOK'
    <3>1. worker'["retry"].at = "none" <=> worker["retry"].at = "none"
      BY <2>2 DEF At, Workers, Flights
    <3> QED
      BY <1>3, <2>1, <2>2, <3>1 DEF TypeOK, flags
  <2>4. \A l \in Workers : Busy(l)' <=> Busy(l)
    BY <2>2 DEF Busy, At
  <2>5. FlagIsTaken' /\ ShownPairing'
    BY <1>3, <2>4 DEF FlagIsTaken, ShownPairing, Workers, Flights, flags
  <2>6. WorkersHaveSockets'
    BY <2>2 DEF WorkersHaveSockets, At
  <2>7. /\ \A l \in Workers : worker[l].sock \in Sockets \cup {NoSocket}
        /\ worker[k].sock # NoSocket
    BY DEF TypeOK, WorkersHaveSockets, At
  <2>8. LaunchBeginsSession'
    BY <2>1, <2>2, <2>6, <2>7 DEF LaunchBeginsSession, WorkersHaveSockets, At
  <2>9. PendingIsSafe'
    BY <1>3, <2>1, <2>2, <2>4 DEF PendingIsSafe, At, TypeOK, Workers, Flights
  <2>10. SocketsOwned'
    BY <2>1, <2>2 DEF SocketsOwned, TypeOK
  <2> QED
    BY <2>3, <2>5, <2>6, <2>8, <2>9, <2>10
<1>4. trusted \in BOOLEAN
  BY DEF TypeOK
<1> QED
  BY <1>2, <1>3, <1>4

\* Launch: the session begins on the coroutine's socket, or the attempt fails.
LEMMA LaunchPreservesIInv == ASSUME IInv, NEW k \in Workers, Launch(k) PROVE IInv'
<1> USE DEF Launch, IInv, calls
<1> DEFINE sock == worker[k].sock
<1>1. Busy(k) /\ ~At(k, "confirm") /\ sock \in Sockets
  BY DEF Busy, At, WorkersHaveSockets, TypeOK
<1>2. CASE Fail(k)
  BY <1>1, <1>2, NextTryEndsOrGoes, GiveUpPreservesIInv DEF Fail, Unconnect, TypeOK
<1>3. CASE /\ session' = [session EXCEPT ![sock].at = "runs"]
           /\ Goto(k, "assign")
           /\ UNCHANGED <<state, flags, connecting, open>>
  <2>1. session[sock].at = "none" /\ sock # pending
    BY <1>1, ConstantsAssumption DEF LaunchBeginsSession, PendingIsSafe, At
  <2>2. /\ session' \in [Sockets -> [at : {"none", "runs", "asks", "retries"},
                                     cancelled : BOOLEAN]]
        /\ session'[sock].at = "runs"
        /\ \A s \in Sockets \ {sock} : session'[s] = session[s]
    BY <1>1, <1>3 DEF TypeOK
  <2>3. /\ worker' \in [Workers -> [at : Steps, sock : Sockets \cup {NoSocket}]]
        /\ \A l \in Workers \ {k} : worker'[l] = worker[l]
        /\ worker'[k].sock = sock /\ worker'[k].at = "assign"
    BY <1>3 DEF Goto, TypeOK, Steps
  <2>4. TypeOK'
    <3>1. worker'["retry"].at = "none" <=> worker["retry"].at = "none"
      BY <2>3 DEF At, Workers, Flights
    <3>2. \A s \in Sockets : session'[s].at = "retries" <=> session[s].at = "retries"
      BY <2>1, <2>2
    <3> QED
      BY <1>1, <1>3, <2>2, <2>3, <3>1, <3>2 DEF TypeOK, flags
  <2>5. \A l \in Workers : Busy(l)' <=> Busy(l)
    BY <2>3 DEF Busy, At
  <2>6. FlagIsTaken' /\ ShownPairing'
    BY <1>3, <2>5 DEF FlagIsTaken, ShownPairing, Workers, Flights, flags
  <2>7. WorkersHaveSockets'
    BY <2>3 DEF WorkersHaveSockets, At
  <2>8. \A l \in Workers \ {k} :
          worker[l].sock \in Sockets \cup {NoSocket} /\ worker[l].sock # sock
    BY <1>1, ConstantsAssumption DEF TypeOK, WorkersHaveSockets
  <2>9. LaunchBeginsSession'
    BY <1>1, <1>3, <2>2, <2>3, <2>7, <2>8 DEF LaunchBeginsSession, WorkersHaveSockets, At
  <2>10. PendingIsSafe'
    BY <1>3, <2>1, <2>2, <2>3, <2>5 DEF PendingIsSafe, At, TypeOK, Workers, Flights
  <2>11. SocketsOwned'
    BY <1>3, <2>2, <2>3 DEF SocketsOwned, TypeOK
  <2> QED
    BY <2>4, <2>6, <2>7, <2>9, <2>10, <2>11
<1> QED
  BY <1>2, <1>3

\* Assign: the job is the session's, whether it still runs or not.
LEMMA AssignPreservesIInv == ASSUME IInv, NEW k \in Workers, Assign(k) PROVE IInv'
<1> USE DEF Assign, IInv, calls, flags
<1>1. /\ worker' \in [Workers -> [at : Steps, sock : Sockets \cup {NoSocket}]]
      /\ \A l \in Workers \ {k} : worker'[l] = worker[l]
      /\ worker'[k].sock = worker[k].sock /\ worker'[k].at = "announce"
  BY DEF Goto, TypeOK, Steps
<1>2. TypeOK'
  <2>1. worker'["retry"].at = "none" <=> worker["retry"].at = "none"
    BY <1>1 DEF At, Workers, Flights
  <2>2. job' \in Sockets \cup {NoSocket}
    BY DEF TypeOK
  <2> QED
    BY <1>1, <2>1, <2>2 DEF TypeOK
<1>3. \A l \in Workers : Busy(l)' <=> Busy(l)
  BY <1>1 DEF Busy, At
<1>4. FlagIsTaken' /\ ShownPairing'
  BY <1>3 DEF FlagIsTaken, ShownPairing, Workers, Flights
<1>5. WorkersHaveSockets' /\ LaunchBeginsSession'
  BY <1>1 DEF WorkersHaveSockets, LaunchBeginsSession, At
<1>6. PendingIsSafe' /\ SocketsOwned'
  BY <1>1, <1>3 DEF PendingIsSafe, SocketsOwned, At, Workers, Flights
<1> QED
  BY <1>2, <1>4, <1>5, <1>6

\* Announce: the coroutine leaves its socket to the session, if that still is.
LEMMA AnnouncePreservesIInv == ASSUME IInv, NEW k \in Workers, Announce(k) PROVE IInv'
<1> USE DEF Announce, IInv
<1>1. Busy(k) /\ ~At(k, "confirm")
  BY DEF Busy, At
<1>2. worker[k].sock \in open => session[worker[k].sock].at = "runs"
  BY DEF LaunchBeginsSession
<1>3. Ends(k) /\ state' = "success"
  BY DEF Finish, FinishWith, Ends, TypeOK
<1> QED
  BY <1>1, <1>2, <1>3, GiveUpPreservesIInv DEF Unconnect, TypeOK

\* Challenge: the coroutine's socket becomes the pending session's, or the
\* attempt fails and takes no other pending session with it.
LEMMA ChallengePreservesIInv == ASSUME IInv, Challenge PROVE IInv'
<1> USE DEF Challenge, IInv, calls
<1> DEFINE sock == worker["user"].sock
<1>1. "user" \in Workers /\ Busy("user") /\ ~At("user", "confirm") /\ pending = NoSocket
  BY DEF Busy, At, PendingIsSafe, Workers, Flights
<1>2. NoSocket \notin open /\ sock \in Sockets
  BY <1>1, ConstantsAssumption DEF TypeOK, WorkersHaveSockets, At
<1>3. CASE /\ open' = open \ {sock, pending}
           /\ pending' = NoSocket
           /\ FinishWith("user", FALSE, "error")
           /\ UNCHANGED timer
  <2>1. Ends("user") /\ open' = open \ {sock} /\ UNCHANGED pending
    BY <1>1, <1>2, <1>3 DEF FinishWith, Ends
  <2> QED
    BY <1>1, <1>3, <2>1, GiveUpPreservesIInv DEF FinishWith, Unconnect, TypeOK
<1>4. CASE /\ sock \in open
           /\ pending' = sock
           /\ timer' = TRUE
           /\ Finish("user", "awaiting")
           /\ UNCHANGED open
  <2>1. Ends("user") /\ UNCHANGED session /\ state' = "awaiting"
    BY <1>4 DEF Finish, FinishWith, Ends, TypeOK
  <2>2. /\ worker' \in [Workers -> [at : Steps, sock : Sockets \cup {NoSocket}]]
        /\ \A l \in Workers \ {"user"} : worker'[l] = worker[l]
        /\ worker'["user"].sock = NoSocket /\ worker'["user"].at = "none"
    BY <1>1, <2>1, GivesUp
  <2>3. inFlight' = FALSE /\ confirming' \in BOOLEAN
    BY <2>1 DEF Ends
  <2>4. TypeOK'
    <3>1. worker'["retry"].at = "none" <=> worker["retry"].at = "none"
      BY <2>2 DEF Workers, Flights
    <3>2. {pending', job', active', connecting'} \subseteq Sockets \cup {NoSocket}
      BY <1>2, <1>4 DEF TypeOK, Unconnect
    <3> QED
      BY <1>4, <2>1, <2>2, <2>3, <3>1, <3>2 DEF TypeOK
  <2>5. \A l \in Flights : ~Busy(l)'
    BY <1>1, <2>2 DEF FlagIsTaken, Busy, At, Workers, Flights
  <2>6. FlagIsTaken'
    BY <2>3, <2>5 DEF FlagIsTaken
  <2>7. WorkersHaveSockets'
    BY <2>2 DEF WorkersHaveSockets, At
  <2>8. LaunchBeginsSession'
    BY <1>4, <2>1, <2>2 DEF LaunchBeginsSession, At
  <2>9. /\ session[sock].at = "none" /\ active # sock /\ connecting' # sock
        /\ \A l \in Workers \ {"user"} : worker[l].sock # sock
    BY <1>1, <1>2, ConstantsAssumption
    DEF LaunchBeginsSession, WorkersHaveSockets, At, Unconnect
  <2>10. \A l \in Workers : ~At(l, "confirm")
    BY <1>1, <1>2, ConstantsAssumption DEF PendingIsSafe, WorkersHaveSockets, At
  <2>11. PendingIsSafe'
    BY <1>1, <1>2, <1>4, <2>1, <2>2, <2>9, <2>10, ConstantsAssumption
    DEF PendingIsSafe, At, Busy
  <2>12. ShownPairing'
    BY <1>2, <1>4, <2>1, ConstantsAssumption DEF ShownPairing
  <2>13. SocketsOwned'
    BY <1>1, <1>2, <1>4, <2>1, <2>2, ConstantsAssumption DEF SocketsOwned
  <2> QED
    BY <2>4, <2>6, <2>7, <2>8, <2>11, <2>12, <2>13
<1> QED
  BY <1>3, <1>4

\* Confirm: the confirmation takes over the pending socket.
LEMMA ConfirmPreservesIInv == ASSUME IInv, Confirm PROVE IInv'
<1> USE DEF Confirm, IInv, refs
<1>1. CASE confirming
  <2>1. TypeOK'
    BY <1>1 DEF TypeOK
  <2> QED
    BY <1>1, <2>1, OutsidePreservesIInv
<1>2. CASE ~confirming
  <2>1. "confirm" \in Workers /\ worker["confirm"].at = "none" /\ pending \in Sockets
    BY <1>2 DEF At, TypeOK, Workers
  <2>2. /\ worker' \in [Workers -> [at : Steps, sock : Sockets \cup {NoSocket}]]
        /\ \A l \in Workers \ {"confirm"} : worker'[l] = worker[l]
        /\ worker'["confirm"].sock = pending /\ worker'["confirm"].at = "confirm"
    BY <1>2, <2>1 DEF TypeOK, Steps
  <2>3. TypeOK'
    <3>1. worker'["retry"].at = "none" <=> worker["retry"].at = "none"
      BY <2>2 DEF Workers, Flights
    <3> QED
      BY <1>2, <2>2, <3>1 DEF TypeOK
  <2>4. \A l \in Flights : Busy(l)' <=> Busy(l)
    BY <2>2 DEF Busy, At, Workers, Flights
  <2>5. FlagIsTaken' /\ ShownPairing'
    BY <2>4 DEF FlagIsTaken, ShownPairing, Flights
  <2>6. \A l \in Workers \ {"confirm"} : worker[l].sock # pending
    BY <2>1 DEF PendingIsSafe, At, TypeOK, Workers, Flights
  <2>7. WorkersHaveSockets'
    BY <2>2, <2>6 DEF WorkersHaveSockets, At
  <2>8. LaunchBeginsSession'
    BY <2>2 DEF LaunchBeginsSession, At
  <2>9. PendingIsSafe'
    BY <2>1, <2>2, <2>4 DEF PendingIsSafe, At, Flights
  <2>10. worker["confirm"].sock = NoSocket
    BY <2>1 DEF WorkersHaveSockets, At
  <2>11. SocketsOwned'
    BY <2>2, <2>10, ConstantsAssumption DEF SocketsOwned, TypeOK
  <2> QED
    BY <2>3, <2>5, <2>7, <2>8, <2>9, <2>11
<1> QED
  BY <1>1, <1>2

\* Confirmed: the pending session is over, and its socket closed.
LEMMA ConfirmedPreservesIInv == ASSUME IInv, Confirmed PROVE IInv'
<1> USE DEF Confirmed, IInv, calls
<1>1. "confirm" \in Workers /\ Busy("confirm") /\ worker["confirm"].sock = pending
  BY DEF Busy, At, PendingIsSafe, Workers
<1>2. /\ worker' \in [Workers -> [at : Steps, sock : Sockets \cup {NoSocket}]]
      /\ \A l \in Workers \ {"confirm"} : worker'[l] = worker[l]
      /\ worker'["confirm"].sock = NoSocket /\ worker'["confirm"].at \in {"none", "try"}
      /\ UNCHANGED <<session, inFlight>> /\ confirming' \in BOOLEAN
  <2>1. CASE /\ worker' = [worker EXCEPT !["confirm"] = [at |-> "try", sock |-> NoSocket]]
             /\ UNCHANGED <<flags, session>>
    BY <1>1, <2>1 DEF TypeOK, Steps, flags
  <2>2. CASE Finish("confirm", "error")
    <3>1. /\ worker' = [worker EXCEPT !["confirm"] = NoWorker]
          /\ UNCHANGED <<session, inFlight>> /\ confirming' = FALSE
      BY <2>2 DEF Finish, FinishWith, TypeOK
    <3> QED
      BY <1>1, <3>1 DEF TypeOK, Steps, NoWorker
  <2> QED
    BY <2>1, <2>2
<1>3. /\ open' = open \ {pending} /\ pending' = NoSocket /\ trusted' \in BOOLEAN
      /\ state' \in {"success", "error"}
  BY <1>1 DEF Finish, FinishWith, TypeOK
<1>4. TypeOK'
  <2>1. worker'["retry"].at = "none" <=> worker["retry"].at = "none"
    BY <1>2 DEF Workers, Flights
  <2> QED
    BY <1>2, <1>3, <2>1 DEF TypeOK
<1>5. \A l \in Flights : Busy(l)' <=> Busy(l)
  BY <1>2 DEF Busy, At, Workers, Flights
<1>6. FlagIsTaken' /\ ShownPairing'
  BY <1>2, <1>3, <1>5 DEF FlagIsTaken, ShownPairing
<1>7. WorkersHaveSockets'
  BY <1>2 DEF WorkersHaveSockets, At
<1>8. LaunchBeginsSession'
  BY <1>2, <1>3 DEF LaunchBeginsSession, At
<1>9. PendingIsSafe'
  BY <1>1, <1>2, <1>3 DEF PendingIsSafe, At
<1>10. SocketsOwned'
  BY <1>1, <1>2, <1>3 DEF SocketsOwned, TypeOK
<1> QED
  BY <1>4, <1>6, <1>7, <1>8, <1>9, <1>10

-----------------------------------------------------------------------------
\* The sessions, the coordinator and the user.

\* A session reports, ends with its socket, or asks for a retry.
LEMMA SessionPreservesIInv ==
  ASSUME IInv, NEW s \in Sockets, SessionStep(s) \/ PeerCloses(s)
  PROVE  IInv'
<1> USE DEF IInv, refs, flags, calls
<1>1. CASE Report(s)
  <2>1. TypeOK'
    BY <1>1 DEF Report, TypeOK
  <2> QED
    BY <1>1, <2>1, OutsidePreservesIInv DEF Report
<1>2. ASSUME EndSession(s), job' \in {job, NoSocket},
             \/ session' = [session EXCEPT ![s] = NoSession]
             \/ session' = [session EXCEPT ![s] = [@ EXCEPT !.at = "asks"]]
      PROVE  IInv'
  <2>1. /\ session' \in [Sockets -> [at : {"none", "runs", "asks", "retries"},
                                     cancelled : BOOLEAN]]
        /\ session[s].at = "runs" /\ session'[s].at \in {"none", "asks"}
        /\ \A u \in Sockets \ {s} : session'[u] = session[u]
    <3>1. session[s].at = "runs" /\ session[s].cancelled \in BOOLEAN
      BY <1>2 DEF EndSession, TypeOK
    <3>2. CASE session' = [session EXCEPT ![s] = NoSession]
      BY <3>1, <3>2 DEF TypeOK, NoSession
    <3>3. CASE session' = [session EXCEPT ![s] = [@ EXCEPT !.at = "asks"]]
      BY <3>1, <3>3 DEF TypeOK
    <3> QED
      BY <1>2, <3>2, <3>3
  <2>2. TypeOK'
    <3>1. \A u \in Sockets : session'[u].at = "retries" <=> session[u].at = "retries"
      BY <2>1
    <3>2. job' \in Sockets \cup {NoSocket}
      BY <1>2 DEF TypeOK
    <3> QED
      BY <1>2, <2>1, <3>1, <3>2 DEF EndSession, TypeOK
  <2>3. pending # s
    BY <2>1, ConstantsAssumption DEF PendingIsSafe
  <2> QED
    BY <1>2, <2>1, <2>2, <2>3, OutsidePreservesIInv DEF EndSession
<1>3. CASE PeerCloses(s) \/ SessionStops(s)
  BY <1>2, <1>3 DEF PeerCloses, SessionStops, Dropped
<1>4. CASE Retry(s)
  <2> USE <1>4 DEF Retry
  <2>1. CASE ~session[s].cancelled /\ trusted /\ ~inFlight
    <3>1. /\ "retry" \in Flights /\ "try" \in {"pair", "try"}
          /\ clicks' \in [{"pair", "unpair"} -> 0..MaxClicks] /\ checked' \in BOOLEAN
      BY DEF Flights, TypeOK
    <3> QED
      BY <2>1, <3>1, BeginPreservesIInv
  <2>2. CASE ~(~session[s].cancelled /\ trusted /\ ~inFlight)
    <3>1. /\ session' \in [Sockets -> [at : {"none", "runs", "asks", "retries"},
                                       cancelled : BOOLEAN]]
          /\ session[s].at = "asks" /\ session'[s].at = "none"
          /\ \A u \in Sockets \ {s} : session'[u] = session[u]
      <4>1. session' = [session EXCEPT ![s] = NoSession] /\ session[s].at = "asks"
        BY <2>2
      <4> QED
        BY <4>1 DEF TypeOK, NoSession
    <3>2. TypeOK'
      <4>1. \A u \in Sockets : session'[u].at = "retries" <=> session[u].at = "retries"
        BY <3>1
      <4> QED
        BY <2>2, <3>1, <4>1 DEF TypeOK
    <3> QED
      BY <2>2, <3>1, <3>2, OutsidePreservesIInv
  <2> QED
    BY <2>1, <2>2
<1> QED
  BY <1>1, <1>3, <1>4 DEF SessionStep

\* The clicks of the user, the calls of the coordinator, and the coroutines
\* that they start.
LEMMA CallPreservesIInv ==
  ASSUME IInv,
         \/ StartPairing \/ DesktopFound \/ AutoConnect \/ Fallback
         \/ Unpair \/ UnpairDone
  PROVE  IInv'
<1> USE DEF IInv, refs, flags
<1>1. CASE StartPairing
  <2>1. /\ "user" \in Flights /\ checked' \in BOOLEAN
        /\ clicks' \in [{"pair", "unpair"} -> 0..MaxClicks]
    BY <1>1, ConstantsAssumption DEF StartPairing, Flights, TypeOK
  <2>2. PICK step \in {"pair", "try"} : Goto("user", step)
    BY <1>1 DEF StartPairing
  <2> QED
    BY <1>1, <2>1, <2>2, BeginPreservesIInv DEF StartPairing
<1>2. CASE AutoConnect
  <2> USE <1>2 DEF AutoConnect
  <2>1. CASE UNCHANGED <<inFlight, worker>> /\ state' \in {"idle", state}
    <3>1. TypeOK'
      BY <2>1 DEF TypeOK
    <3> QED
      BY <2>1, <3>1, OutsidePreservesIInv
  <2>2. CASE /\ ~inFlight /\ trusted
             /\ state' = "reconnecting"
             /\ inFlight' = TRUE
             /\ Goto("auto", "try")
    <3>1. /\ "auto" \in Flights /\ "try" \in {"pair", "try"} /\ checked' \in BOOLEAN
          /\ clicks' \in [{"pair", "unpair"} -> 0..MaxClicks]
      BY DEF Flights, TypeOK
    <3> QED
      BY <2>2, <3>1, BeginPreservesIInv
  <2> QED
    BY <2>1, <2>2
<1>3. CASE Fallback
  <2>1. /\ "fallback" \in Flights /\ "try" \in {"pair", "try"} /\ checked' \in BOOLEAN
        /\ clicks' \in [{"pair", "unpair"} -> 0..MaxClicks]
    BY <1>3 DEF Fallback, Flights, TypeOK, calls
  <2> QED
    BY <1>3, <2>1, BeginPreservesIInv DEF Fallback, MayReconnect, calls
<1>4. CASE DesktopFound \/ Unpair
  <2>1. clicks' \in [{"pair", "unpair"} -> 0..MaxClicks] /\ unpair' \in {"none", "session", "attempt"}
    BY <1>4, ConstantsAssumption DEF DesktopFound, Unpair, TypeOK
  <2>2. TypeOK'
    <3>1. CASE DesktopFound
      BY <3>1 DEF DesktopFound, TypeOK
    <3>2. CASE Unpair
      BY <2>1, <3>2 DEF Unpair, TypeOK
    <3> QED
      BY <1>4, <3>1, <3>2
  <2> QED
    BY <1>4, <2>2, OutsidePreservesIInv DEF DesktopFound, Unpair
<1>5. CASE UnpairDone
  <2> USE <1>5 DEF UnpairDone
  <2>1. CASE CloseActive /\ UNCHANGED connecting
    <3>1. /\ session' \in [Sockets -> [at : {"none", "runs", "asks", "retries"},
                                       cancelled : BOOLEAN]]
          /\ \A s \in Sockets : session'[s].at = session[s].at
          /\ open' \subseteq open /\ (pending \in open => pending \in open')
          /\ active' = NoSocket /\ job' = NoSocket
      BY <2>1, CloseActiveSpares
    <3>2. TypeOK'
      BY <2>1, <3>1 DEF TypeOK
    <3> QED
      BY <2>1, <3>1, <3>2, OutsidePreservesIInv
  <2>2. CASE /\ open' = open \ {connecting}
             /\ connecting' = NoSocket
             /\ UNCHANGED <<job, active, session>>
    <3>1. TypeOK'
      BY <2>2 DEF TypeOK
    <3>2. pending \in open => pending \in open'
      BY <2>2, ConstantsAssumption DEF PendingIsSafe, TypeOK
    <3> QED
      BY <2>2, <3>1, <3>2, OutsidePreservesIInv
  <2> QED
    BY <2>1, <2>2
<1> QED
  BY <1>1, <1>2, <1>3, <1>4, <1>5

\* The steps in which a coroutine makes an attempt or ends.
LEMMA WorkerPreservesIInv == ASSUME IInv, WorkerStep PROVE IInv'
<1>1. ASSUME NEW k \in Workers, Attempt(k) PROVE IInv'
  BY <1>1, TryPreservesIInv, DialPreservesIInv, LaunchPreservesIInv, AssignPreservesIInv,
     AnnouncePreservesIInv
  DEF Attempt
<1>2. CASE StartFullPairing
  <2> USE <1>2 DEF StartFullPairing, IInv
  <2>1. "user" \in Workers /\ Busy("user") /\ ~At("user", "confirm")
    BY DEF Busy, At, Workers, Flights
  <2>2. CASE Finish("user", "error") /\ UNCHANGED <<connecting, open>>
    <3>1. Ends("user") /\ state' = "error"
      BY <2>2 DEF Finish, FinishWith, Ends, TypeOK
    <3>2. worker["user"].sock \notin open
      BY <2>1, ConstantsAssumption DEF WorkersHaveSockets, TypeOK
    <3> QED
      BY <2>1, <2>2, <3>1, <3>2, GiveUpPreservesIInv DEF TypeOK
  <2>3. CASE OpenSocket("user", "challenge") /\ UNCHANGED <<state, flags, session>>
    BY <2>1, <2>3, OpenPreservesIInv
  <2> QED
    BY <2>2, <2>3
<1>3. CASE DelayCancelled
  <2> USE <1>3 DEF DelayCancelled, IInv, refs
  <2>1. "retry" \in Workers /\ Busy("retry") /\ ~At("retry", "confirm")
    BY DEF Busy, At, Workers, Flights
  <2>2. Ends("retry") /\ state' = state
    BY DEF Finish, FinishWith, Ends, TypeOK
  <2>3. worker["retry"].sock \notin open
    BY <2>1, ConstantsAssumption DEF WorkersHaveSockets, TypeOK
  <2> QED
    BY <2>1, <2>2, <2>3, GiveUpPreservesIInv DEF TypeOK
<1> QED
  BY <1>1, <1>2, <1>3, ChallengePreservesIInv, ConfirmedPreservesIInv, CallPreservesIInv
  DEF WorkerStep

-----------------------------------------------------------------------------

\* The flag, the sockets and the pending session are in the hands that IInv
\* names in every reachable state.
THEOREM InvariantHolds == Spec => []IInv
<1>1. IInv /\ [Next]_vars => IInv'
  <2>1. ASSUME IInv, UNCHANGED vars PROVE IInv'
    <3>1. TypeOK'
      BY <2>1 DEF vars, flags, refs, calls, IInv, TypeOK
    <3> QED
      BY <2>1, <3>1, OutsidePreservesIInv DEF vars, flags, refs, calls
  <2> QED
    BY <2>1, WorkerPreservesIInv, SessionPreservesIInv, CallPreservesIInv,
       ConfirmPreservesIInv
    DEF Next
<1> QED
  BY <1>1, InitEstablishesIInv, PTL DEF Spec

\* Every variable keeps its type; the retry and the one session that waits for
\* it come and go together.
THEOREM TypeCorrect == Spec => []TypeOK
<1>1. IInv => TypeOK
  BY DEF IInv
<1> QED
  BY <1>1, InvariantHolds, PTL

\* connectionAttemptInFlight is never leaked and never held twice, by whatever
\* return, failure, cancellation or unpairing a coroutine ends.
THEOREM FlagIsHeldOnce == Spec => []FlagHeldByOne
<1> DEFINE holders == {k \in Flights : ~At(k, "none")}
<1>1. ASSUME IInv PROVE FlagHeldByOne
  <2>1. inFlight <=> \E k \in Flights : ~At(k, "none")
    BY <1>1 DEF IInv, FlagIsTaken, Busy
  <2>2. CASE inFlight
    <3>1. PICK k \in Flights : ~At(k, "none")
      BY <2>1, <2>2
    <3>2. holders = {k}
      BY <1>1, <3>1 DEF IInv, FlagIsTaken, Busy
    <3> QED
      BY <2>2, <3>2, FS_Singleton DEF FlagHeldByOne
  <2>3. CASE ~inFlight
    <3>1. holders = {}
      BY <2>1, <2>3
    <3> QED
      BY <2>3, <3>1, FS_EmptySet DEF FlagHeldByOne
  <2> QED
    BY <2>2, <2>3
<1> QED
  BY <1>1, InvariantHolds, PTL

\* No socket is forgotten while it is open.
THEOREM NoSocketLeaks == Spec => []SocketsOwned
<1>1. IInv => SocketsOwned
  BY DEF IInv
<1> QED
  BY <1>1, InvariantHolds, PTL

\* A code on display has a pending session with an open socket, and no attempt,
\* session or unpairing that goes on beside it takes them away.
THEOREM PairingIsOwned == Spec => []PairingHasOwner
<1>1. IInv => PairingHasOwner
  BY DEF IInv, ShownPairing, PendingIsSafe, PairingHasOwner, Busy
<1> QED
  BY <1>1, InvariantHolds, PTL

=============================================================================
