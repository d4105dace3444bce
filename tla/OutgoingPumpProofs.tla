------------------------- MODULE OutgoingPumpProofs -------------------------
(***************************************************************************)
(* Type correctness of OutgoingPump, the order in which commands reach     *)
(* phones, and that no wake-up is lost while joins do not time out, for    *)
(* any families, sessions, servers and number of commands.                 *)
(***************************************************************************)
EXTENDS OutgoingPump, TLAPS

IsIncreasing(s) == \A i, j \in DOMAIN s : i < j => s[i] < s[j]

\* A wake-up for each command at most.
WakeupsCounted == waking + missed < nextId

\* A server that runs has been started.
RunningIsStarted == running => gen # 0

\* A session or a lingering thread belongs to a server that was started.
HasServer == \A p \in Pumps : pump[p] # Gone => pump[p].srv \in 1..gen

\* A server has one session at a time: active_session_registry.
OneOpen == \A p, q \in Pumps : /\ pump[p].open /\ pump[q].open
                               /\ pump[p].srv = pump[q].srv
                               => p = q

\* Who has left a session is no longer in it.
LeftOnce == \A p \in Pumps : ~(pump[p].open /\ pump[p].unclosed)

\* A connection that carries data has not been closed.
LinkIsPresent ==
  \A p \in Pumps : pump[p].link => pump[p].open \/ pump[p].unclosed

\* Of a session without a thread that has ended nothing is left.
EndedIsGone ==
  \A p \in Pumps :
    ~pump[p].open /\ ~pump[p].unclosed /\ pump[p].pc = "none"
      => pump[p] = Gone

\* A thread that goes through the families is at one of them, or at the end.
PassIsPlaced ==
  \A p \in Pumps :
    /\ pump[p].pc = "visit" => pump[p].pos # 0
    /\ pump[p].pc = "write" => /\ pump[p].pos \in DOMAIN FamilyOrder
                               /\ pump[p].taken \in 1..(nextId - 1)

\* A family's commands, those phones received before those in its queue.
LaneInOrder ==
  \A f \in Families :
    /\ InOrder(sent[f]) /\ IsIncreasing(queue[f])
    /\ \A i \in DOMAIN sent[f] : sent[f][i] < nextId
    /\ \A j \in DOMAIN queue[f] : queue[f][j] < nextId
    /\ \A i \in DOMAIN sent[f], j \in DOMAIN queue[f] :
         sent[f][i] < queue[f][j]

\* A command that is being written has left the queue before those in it,
\* and is sent for the first time: after the others, unless it was raced for.
TakenInOrder ==
  \A p \in Pumps :
    pump[p].pc = "write" =>
      /\ \A i \in DOMAIN sent[Current(p)] :
           /\ sent[Current(p)][i] # pump[p].taken
           /\ pump[p].link => \/ sent[Current(p)][i] < pump[p].taken
                              \/ pump[p].taken \in raced
      /\ \A j \in DOMAIN queue[Current(p)] :
           pump[p].taken < queue[Current(p)][j]

\* Of two of a family that are being written, the earlier was raced for.
HeldInOrder ==
  \A p, q \in Pumps :
    /\ p # q /\ pump[p].pc = "write" /\ pump[q].pc = "write"
    /\ Current(p) = Current(q)
    => /\ pump[p].taken # pump[q].taken
       /\ /\ pump[p].link /\ pump[q].link
          /\ pump[p].taken < pump[q].taken
          => pump[p].taken \in raced

\* The inductive invariant.  SentInOrder alone is not: the commands still
\* queued and those taken have to be later than those sent, and two that
\* are taken at once make the earlier one raced for before either is sent.
IInv ==
  /\ TypeOK
  /\ WakeupsCounted
  /\ RunningIsStarted
  /\ HasServer
  /\ OneOpen
  /\ LeftOnce
  /\ LinkIsPresent
  /\ EndedIsGone
  /\ PassIsPlaced
  /\ LaneInOrder
  /\ TakenInOrder
  /\ HeldInOrder

-----------------------------------------------------------------------------

\* A session that does not exist is a value of its type, too.
LEMMA GoneIsPumpState == Gone \in PumpState
BY ConstantsAssumption DEF Gone, PumpState

\* A later command at the end of a queue: still increasing.
LEMMA AppendIncreases ==
  ASSUME NEW s \in Seq(Ids), IsIncreasing(s), NEW e \in Ids,
         \A i \in DOMAIN s : s[i] < e
  PROVE  IsIncreasing(Append(s, e))
BY ConstantsAssumption DEF IsIncreasing, Ids

\* One command less at the front: still increasing, and the rest is later
\* than it.
LEMMA TailIncreases ==
  ASSUME NEW s \in Seq(Ids), IsIncreasing(s), s # <<>>
  PROVE  /\ IsIncreasing(Tail(s))
         /\ \A j \in DOMAIN Tail(s) : Head(s) < Tail(s)[j]
         /\ \A j \in DOMAIN Tail(s) : j + 1 \in DOMAIN s
                                         /\ Tail(s)[j] = s[j + 1]
<1>1. Len(s) \in Nat \ {0} /\ DOMAIN s = 1..Len(s) /\ \A i \in DOMAIN s : s[i] \in Ids
  OBVIOUS
<1>2. Tail(s) \in Seq(Ids) /\ Len(Tail(s)) = Len(s) - 1 /\ Head(s) = s[1]
  OBVIOUS
<1>3. ASSUME NEW j \in DOMAIN Tail(s)
      PROVE  j \in Nat \ {0} /\ j + 1 \in DOMAIN s /\ Tail(s)[j] = s[j + 1]
  BY <1>1, <1>2
<1>4. IsIncreasing(Tail(s))
  BY <1>1, <1>3 DEF IsIncreasing
<1>5. ASSUME NEW j \in DOMAIN Tail(s) PROVE Head(s) < Tail(s)[j]
  BY <1>1, <1>2, <1>3 DEF IsIncreasing
<1> QED
  BY <1>3, <1>4, <1>5

\* A command at the end of those sent, of which it is not one, and which are
\* earlier unless it was raced for: still in order.
LEMMA AppendKeepsOrder ==
  ASSUME NEW s \in Seq(Ids), InOrder(s), NEW e \in Ids,
         \A i \in DOMAIN s : s[i] # e /\ (s[i] < e \/ e \in raced)
  PROVE  InOrder(Append(s, e))
BY ConstantsAssumption DEF InOrder, Ids

\* Where a thread is in its pass says which family it has come to.
LEMMA CurrentIsFamily ==
  ASSUME TypeOK, NEW p \in Pumps, pump[p].pos \in DOMAIN FamilyOrder
  PROVE  Current(p) \in Families
BY DEF Current, Families

-----------------------------------------------------------------------------
\* Steps that change sessions, semaphores and threads but no command: all
\* there is to show is about the pumps.

\* p's new state r is sound by itself and gives p no connection or command
\* it did not have.
LEMMA PumpMayChange ==
  ASSUME IInv, NEW p \in Pumps, NEW r \in PumpState,
         pump' = [pump EXCEPT ![p] = r],
         UNCHANGED <<queue, nextId, srvVars, missed, waking, raced, sent>>,
         permits' \in [Servers -> Nat],
         r # Gone => r.srv \in 1..gen,
         r.open => /\ \A q \in Pumps \ {p} : pump[q].open
                                               => pump[q].srv # r.srv,
         ~(r.open /\ r.unclosed),
         r.link => r.open \/ r.unclosed,
         ~r.open /\ ~r.unclosed /\ r.pc = "none" => r = Gone,
         r.pc = "visit" => r.pos # 0,
         r.pc = "write" => pump[p].pc = "write" /\ r.pos = pump[p].pos
                             /\ r.taken = pump[p].taken
                             /\ (r.link => pump[p].link)
  PROVE  IInv'
<1> USE DEF IInv, srvVars
<1>1. TypeOK'
  BY DEF TypeOK
<1>2. WakeupsCounted' /\ RunningIsStarted'
  BY DEF WakeupsCounted, RunningIsStarted
<1>3. pump'[p] = r /\ \A q \in Pumps \ {p} : pump'[q] = pump[q]
  BY DEF TypeOK
<1>4. HasServer' /\ LeftOnce' /\ LinkIsPresent' /\ EndedIsGone'
  BY <1>3 DEF HasServer, LeftOnce, LinkIsPresent, EndedIsGone
<1>5. OneOpen'
  BY <1>3 DEF OneOpen
<1>6. PassIsPlaced'
  BY <1>3 DEF PassIsPlaced
<1>7. LaneInOrder'
  BY DEF LaneInOrder, InOrder
<1>8. ASSUME NEW q \in Pumps, pump'[q].pc = "write"
      PROVE  /\ pump'[q].link => pump[q].link
             /\ pump[q].pc = "write" /\ pump'[q].taken = pump[q].taken
             /\ Current(q)' = Current(q)
  BY <1>3, <1>8 DEF Current
<1>9. TakenInOrder'
  BY <1>8 DEF TakenInOrder
<1>10. HeldInOrder'
  BY <1>8 DEF HeldInOrder
<1> QED
  BY <1>1, <1>2, <1>4, <1>5, <1>6, <1>7, <1>9, <1>10

\* A thread that returns.
LEMMA ReturnPreservesIInv ==
  ASSUME IInv, NEW p \in Pumps, pump[p] # Gone, ThreadReturns(p),
         UNCHANGED <<queue, nextId, waking, srvVars, permits, missed, raced,
                     sent>>
  PROVE  IInv'
<1> DEFINE r == IF pump[p].open \/ pump[p].unclosed
                THEN [pump[p] EXCEPT !.pc = "none", !.pos = 0, !.taken = 0]
                ELSE Gone
<1>1. pump' = [pump EXCEPT ![p] = r]
  BY DEF ThreadReturns
<1>2. pump[p] \in PumpState /\ permits \in [Servers -> Nat]
  BY DEF IInv, TypeOK
<1>3. /\ r \in PumpState
      /\ r # Gone => r.srv = pump[p].srv
      /\ r.open => pump[p].open /\ r.srv = pump[p].srv
      /\ r.link => r.open \/ r.unclosed
      /\ ~(r.open /\ r.unclosed)
      /\ ~r.open /\ ~r.unclosed => r = Gone
      /\ r.pc = "none"
  BY <1>2, GoneIsPumpState, ConstantsAssumption
  DEF PumpState, Gone, IInv, LeftOnce
<1>4. /\ r # Gone => r.srv \in 1..gen
      /\ r.open => \A q \in Pumps \ {p} : pump[q].open => pump[q].srv # r.srv
  BY <1>3 DEF IInv, HasServer, OneOpen
<1> HIDE DEF r
<1> QED
  BY <1>1, <1>2, <1>3, <1>4, PumpMayChange

\* The session's own steps.

\* A new session has the token of its server; those before it have given it
\* back.
LEMMA OpenSessionPreservesIInv ==
  ASSUME IInv, NEW p \in Pumps, OpenSession(p) PROVE IInv'
<1>0. PICK g \in 1..gen :
        /\ \A q \in Pumps : ~(pump[q].open /\ pump[q].srv = g)
        /\ pump' = [pump EXCEPT ![p] = [Gone EXCEPT !.open = TRUE, !.srv = g,
                                           !.pc = "acquire", !.link = TRUE]]
        /\ UNCHANGED <<queue, nextId, waking, srvVars, permits, missed, raced,
                       sent>>
  BY DEF OpenSession
<1> DEFINE r == [Gone EXCEPT !.open = TRUE, !.srv = g, !.pc = "acquire",
                             !.link = TRUE]
<1>1. g \in 0..MaxServers
  BY ConstantsAssumption DEF IInv, TypeOK
<1>2. /\ r \in PumpState /\ r.srv = g /\ r.pc = "acquire"
      /\ r.open = TRUE /\ r.link = TRUE /\ r.unclosed = FALSE
  BY <1>1, GoneIsPumpState DEF PumpState, Gone
<1>3. /\ \A q \in Pumps \ {p} : pump[q].open => pump[q].srv # g
      /\ pump' = [pump EXCEPT ![p] = r] /\ permits' \in [Servers -> Nat]
  BY <1>0 DEF IInv, TypeOK
<1>4. UNCHANGED <<queue, nextId, srvVars, missed, waking, raced, sent>>
  BY <1>0
<1> HIDE DEF r
<1> QED
  BY <1>2, <1>3, <1>4, PumpMayChange

\* A session or thread that goes on at its server, with its connection or
\* without.
LEMMA PumpMayGoOn ==
  ASSUME IInv, NEW p \in Pumps, NEW r \in PumpState, pump[p] # Gone,
         pump' = [pump EXCEPT ![p] = r],
         UNCHANGED <<queue, nextId, srvVars, missed, waking, raced, sent>>,
         permits' \in [Servers -> Nat],
         r.srv = pump[p].srv,
         r.open => pump[p].open,
         ~(r.open /\ r.unclosed),
         r.link => pump[p].link /\ (r.open \/ r.unclosed),
         r.open \/ r.unclosed \/ r.pc # "none",
         r.pc = "visit" => r.pos # 0,
         r.pc = "write" => /\ pump[p].pc = "write" /\ r.pos = pump[p].pos
                           /\ r.taken = pump[p].taken
  PROVE  IInv'
<1>1. r.srv \in 1..gen
  BY DEF IInv, HasServer
<1>2. r.open => \A q \in Pumps \ {p} : pump[q].open => pump[q].srv # r.srv
  BY DEF IInv, OneOpen
<1> QED
  BY <1>1, <1>2, PumpMayChange

\* What a session that is open or a thread that runs has.
LEMMA LivePump ==
  ASSUME IInv, NEW p \in Pumps,
         pump[p].open \/ pump[p].unclosed \/ pump[p].pc # "none"
  PROVE  /\ pump[p] # Gone /\ pump[p] \in PumpState
         /\ pump[p].srv \in Servers /\ permits[pump[p].srv] \in Nat
<1>1. pump[p] # Gone
  BY DEF Gone
<1>2. pump[p].srv \in 1..gen /\ gen \in 0..MaxServers
  BY <1>1 DEF IInv, HasServer, TypeOK
<1>3. pump[p].srv \in Servers
  BY <1>2, ConstantsAssumption DEF Servers
<1> QED
  BY <1>1, <1>3 DEF IInv, TypeOK

\* A wake-up more, or one less where there is one.
LEMMA PermitsKeepType ==
  ASSUME IInv, NEW g \in Servers,
         \/ permits' = [permits EXCEPT ![g] = @ + 1]
         \/ permits[g] > 0 /\ permits' = [permits EXCEPT ![g] = @ - 1]
  PROVE  permits' \in [Servers -> Nat]
<1>1. permits \in [Servers -> Nat]
  BY DEF IInv, TypeOK
<1> QED
  BY <1>1

\* A heartbeat, a lost connection, the session's decision to end.
LEMMA SessionPreservesIInv ==
  ASSUME IInv, NEW p \in Pumps,
         Heartbeat(p) \/ LinkDrops(p) \/ CloseSession(p)
  PROVE  IInv'
<1>1. /\ pump[p].open \/ pump[p].unclosed
      /\ pump[p] # Gone /\ pump[p] \in PumpState
      /\ pump[p].srv \in Servers /\ permits \in [Servers -> Nat]
      /\ UNCHANGED <<queue, nextId, srvVars, missed, waking, raced, sent>>
      /\ pump[p].pc = "visit" => pump[p].pos # 0
      /\ ~(pump[p].open /\ pump[p].unclosed)
  <2>1. pump[p].open \/ pump[p].unclosed
    BY DEF Heartbeat, LinkDrops, CloseSession, IInv, LinkIsPresent
  <2> QED
    BY <2>1, LivePump DEF Heartbeat, LinkDrops, CloseSession, IInv, TypeOK,
                          LeftOnce, PassIsPlaced
<1>2. CASE Heartbeat(p)
  <2> DEFINE r == [pump[p] EXCEPT !.ready = TRUE]
  <2>1. /\ r \in PumpState /\ r.open = pump[p].open /\ r.srv = pump[p].srv
        /\ r.unclosed = pump[p].unclosed /\ r.pc = pump[p].pc
        /\ r.pos = pump[p].pos /\ r.taken = pump[p].taken
        /\ r.link = pump[p].link
    BY <1>1 DEF PumpState
  <2>2. /\ pump' = [pump EXCEPT ![p] = r] /\ permits' \in [Servers -> Nat]
    BY <1>1, <1>2, PermitsKeepType DEF Heartbeat
  <2> HIDE DEF r
  <2> QED
    BY <1>1, <2>1, <2>2, PumpMayGoOn
<1>3. CASE LinkDrops(p)
  <2> DEFINE r == [pump[p] EXCEPT !.link = FALSE]
  <2>1. /\ r \in PumpState /\ r.open = pump[p].open /\ r.srv = pump[p].srv
        /\ r.unclosed = pump[p].unclosed /\ r.pc = pump[p].pc
        /\ r.pos = pump[p].pos /\ r.taken = pump[p].taken /\ r.link = FALSE
    BY <1>1 DEF PumpState
  <2>2. pump' = [pump EXCEPT ![p] = r] /\ permits' \in [Servers -> Nat]
    BY <1>1, <1>3 DEF LinkDrops
  <2> HIDE DEF r
  <2> QED
    BY <1>1, <2>1, <2>2, PumpMayGoOn
<1>4. CASE CloseSession(p)
  <2> DEFINE r == [pump[p] EXCEPT !.stop = TRUE]
  <2>1. /\ r \in PumpState /\ r.open = pump[p].open /\ r.srv = pump[p].srv
        /\ r.unclosed = pump[p].unclosed /\ r.pc = pump[p].pc
        /\ r.pos = pump[p].pos /\ r.taken = pump[p].taken
        /\ r.link = pump[p].link
    BY <1>1 DEF PumpState
  <2>2. pump' = [pump EXCEPT ![p] = r] /\ permits' \in [Servers -> Nat]
    BY <1>1, <1>4, PermitsKeepType DEF CloseSession
  <2> HIDE DEF r
  <2> QED
    BY <1>1, <2>1, <2>2, PumpMayGoOn
<1> QED
  BY <1>2, <1>3, <1>4

\* A session gives its token back, its connection still there.
LEMMA EndSessionPreservesIInv ==
  ASSUME IInv, NEW p \in Pumps, EndSession(p) PROVE IInv'
<1> DEFINE r == [pump[p] EXCEPT !.open = FALSE, !.unclosed = TRUE]
<1>1. /\ pump[p] # Gone /\ pump[p] \in PumpState
      /\ permits' \in [Servers -> Nat] /\ pump' = [pump EXCEPT ![p] = r]
      /\ UNCHANGED <<queue, nextId, srvVars, missed, waking, raced, sent>>
      /\ pump[p].pc = "visit" => pump[p].pos # 0
  BY LivePump DEF EndSession, IInv, TypeOK, PassIsPlaced
<1>2. /\ r \in PumpState /\ r.open = FALSE /\ r.srv = pump[p].srv
      /\ r.unclosed = TRUE /\ r.pc = pump[p].pc /\ r.pos = pump[p].pos
      /\ r.taken = pump[p].taken /\ r.link = pump[p].link
  BY <1>1 DEF PumpState
<1> HIDE DEF r
<1> QED
  BY <1>1, <1>2, PumpMayGoOn

\* With its connection closed it is gone, or leaves a lingering thread.
LEMMA CloseConnectionPreservesIInv ==
  ASSUME IInv, NEW p \in Pumps, CloseConnection(p) PROVE IInv'
<1>1. /\ pump[p] # Gone /\ pump[p] \in PumpState
      /\ permits' \in [Servers -> Nat]
      /\ UNCHANGED <<queue, nextId, srvVars, missed, waking, raced, sent>>
      /\ pump[p].pc = "visit" => pump[p].pos # 0
  BY LivePump DEF CloseConnection, IInv, TypeOK, PassIsPlaced
<1>2. CASE pump[p].pc = "none"
  <2>1. pump' = [pump EXCEPT ![p] = Gone]
    BY <1>2 DEF CloseConnection
  <2>2. ~Gone.open /\ ~Gone.link /\ Gone.pc = "none"
    BY DEF Gone
  <2> QED
    BY <1>1, <2>1, <2>2, PumpMayChange, GoneIsPumpState
<1>3. CASE pump[p].pc # "none"
  <2> DEFINE r == [pump[p] EXCEPT !.unclosed = FALSE, !.link = FALSE]
  <2>1. /\ r \in PumpState /\ r.open = pump[p].open /\ r.srv = pump[p].srv
        /\ r.pc = pump[p].pc /\ r.pos = pump[p].pos
        /\ r.taken = pump[p].taken /\ r.link = FALSE /\ r.unclosed = FALSE
    BY <1>1 DEF PumpState
  <2>2. pump' = [pump EXCEPT ![p] = r]
    BY <1>3 DEF CloseConnection
  <2> HIDE DEF r
  <2> QED
    BY <1>1, <1>3, <2>1, <2>2, PumpMayGoOn
<1> QED
  BY <1>2, <1>3

-----------------------------------------------------------------------------
\* The outgoing thread, where it neither takes nor sends a command.

\* The steps of the outgoing thread that move no command.
LEMMA ThreadPreservesIInv ==
  ASSUME IInv, NEW p \in Pumps,
         AcquirePermit(p) \/ CheckStop(p) \/ WaitReady(p) \/ EndPass(p)
  PROVE  IInv'
<1>1. /\ pump[p] # Gone /\ pump[p] \in PumpState
      /\ pump[p].srv \in Servers /\ permits \in [Servers -> Nat]
      /\ pump[p].pc \notin {"none", "write"}
      /\ UNCHANGED <<queue, nextId, srvVars, missed, waking, raced, sent>>
  BY LivePump DEF AcquirePermit, CheckStop, WaitReady, EndPass, IInv, TypeOK
<1>2. PICK pc \in {"acquire", "stopped?", "wait", "visit"},
           pos \in 0..(Len(FamilyOrder) + 1) :
        \/ /\ pump' = [pump EXCEPT ![p] = [@ EXCEPT !.pc = pc, !.pos = pos]]
           /\ permits' \in [Servers -> Nat]
           /\ pc = "visit" => pos # 0
        \/ ThreadReturns(p) /\ UNCHANGED permits
  <2>1. /\ pump[p].pos \in 0..(Len(FamilyOrder) + 1)
        /\ 0 \in 0..(Len(FamilyOrder) + 1) /\ 1 \in 0..(Len(FamilyOrder) + 1)
    BY <1>1, ConstantsAssumption DEF PumpState
  <2>2. CASE AcquirePermit(p)
    <3>1. permits' \in [Servers -> Nat]
      BY <1>1, <2>2, PermitsKeepType DEF AcquirePermit
    <3>2. pump' = [pump EXCEPT ![p] = [@ EXCEPT !.pc = "stopped?",
                                                !.pos = pump[p].pos]]
      BY <1>1, <2>2 DEF AcquirePermit, PumpState, IInv, TypeOK
    <3> QED
      BY <2>1, <3>1, <3>2
  <2>3. CASE CheckStop(p)
    <3>1. CASE pump[p].stop
      BY <2>1, <2>3, <3>1 DEF CheckStop
    <3>2. CASE ~pump[p].stop
      <4>1. pump' = [pump EXCEPT ![p] = [@ EXCEPT !.pc = "wait",
                                                  !.pos = pump[p].pos]]
        BY <1>1, <2>3, <3>2 DEF CheckStop, PumpState, IInv, TypeOK
      <4> QED
        BY <1>1, <2>1, <2>3, <4>1 DEF CheckStop
    <3> QED
      BY <3>1, <3>2
  <2>4. CASE WaitReady(p)
    <3>1. CASE ThreadReturns(p)
      BY <2>1, <2>4, <3>1 DEF WaitReady
    <3>2. CASE pump' = [pump EXCEPT ![p].pc = "visit", ![p].pos = 1]
      <4>1. pump' = [pump EXCEPT ![p] = [@ EXCEPT !.pc = "visit", !.pos = 1]]
        BY <1>1, <3>2 DEF IInv, TypeOK
      <4>2. permits' \in [Servers -> Nat]
        BY <1>1, <2>4 DEF WaitReady
      <4>3. "visit" = "visit" => 1 # 0
        OBVIOUS
      <4> QED
        BY <2>1, <4>1, <4>2, <4>3, Zenon
    <3> QED
      BY <2>4, <3>1, <3>2 DEF WaitReady
  <2>5. CASE EndPass(p)
    <3>1. pump' = [pump EXCEPT ![p] = [@ EXCEPT !.pc = "acquire", !.pos = 0]]
      BY <1>1, <2>5 DEF EndPass, IInv, TypeOK
    <3> QED
      BY <1>1, <2>1, <2>5, <3>1 DEF EndPass
  <2> QED
    BY <2>2, <2>3, <2>4, <2>5
<1>3. CASE ThreadReturns(p) /\ UNCHANGED permits
  BY <1>1, <1>3, ReturnPreservesIInv
<1>4. CASE /\ pump' = [pump EXCEPT ![p] = [@ EXCEPT !.pc = pc, !.pos = pos]]
           /\ permits' \in [Servers -> Nat]
           /\ pc = "visit" => pos # 0
  <2> DEFINE r == [pump[p] EXCEPT !.pc = pc, !.pos = pos]
  <2>1. /\ r \in PumpState /\ r.open = pump[p].open /\ r.srv = pump[p].srv
        /\ r.pc = pc /\ r.pos = pos /\ r.link = pump[p].link
        /\ r.unclosed = pump[p].unclosed
    BY <1>1 DEF PumpState
  <2>2. /\ pump' = [pump EXCEPT ![p] = r]
        /\ r.pc \notin {"none", "write"} /\ (r.pc = "visit" => r.pos # 0)
        /\ r.link => pump[p].link /\ (r.open \/ r.unclosed)
        /\ ~(r.open /\ r.unclosed)
    BY <1>4, <2>1 DEF IInv, LeftOnce, LinkIsPresent
  <2> HIDE DEF r
  <2> QED
    BY <1>1, <1>4, <2>1, <2>2, PumpMayGoOn
<1> QED
  BY <1>2, <1>3, <1>4

\* A write that fails ends the thread; its command is lost.
LEMMA WriteFailsPreservesIInv ==
  ASSUME IInv, NEW p \in Pumps, WriteFails(p) PROVE IInv'
BY LivePump, ReturnPreservesIInv DEF WriteFails

-----------------------------------------------------------------------------
\* Where commands move.

\* What is known of the commands of a family.
LEMMA LaneFacts ==
  ASSUME IInv, NEW f \in Families
  PROVE  /\ sent[f] \in Seq(Ids) /\ queue[f] \in Seq(Ids) /\ Ids \subseteq Nat
         /\ nextId \in Nat /\ InOrder(sent[f]) /\ IsIncreasing(queue[f])
         /\ \A i \in DOMAIN sent[f] : sent[f][i] \in Ids /\ sent[f][i] < nextId
         /\ \A j \in DOMAIN queue[f] :
              queue[f][j] \in Ids /\ queue[f][j] < nextId
         /\ \A i \in DOMAIN sent[f], j \in DOMAIN queue[f] :
              sent[f][i] < queue[f][j]
<1>1. /\ sent[f] \in Seq(Ids) /\ queue[f] \in Seq(Ids) /\ Ids \subseteq Nat
      /\ nextId \in Nat
  BY ConstantsAssumption DEF IInv, TypeOK, Ids
<1>2. /\ \A i \in DOMAIN sent[f] : sent[f][i] \in Ids
      /\ \A j \in DOMAIN queue[f] : queue[f][j] \in Ids
  BY <1>1
<1> QED
  BY <1>1, <1>2 DEF IInv, LaneInOrder

\* What is known of a command that is being written.
LEMMA TakenFacts ==
  ASSUME IInv, NEW p \in Pumps, pump[p].pc = "write"
  PROVE  /\ Current(p) \in Families /\ pump[p].pos \in DOMAIN FamilyOrder
         /\ pump[p].taken \in Ids /\ pump[p].taken \in Nat
         /\ pump[p].taken < nextId
         /\ \A i \in DOMAIN sent[Current(p)] :
              /\ sent[Current(p)][i] # pump[p].taken
              /\ pump[p].link => \/ sent[Current(p)][i] < pump[p].taken
                                 \/ pump[p].taken \in raced
         /\ \A j \in DOMAIN queue[Current(p)] :
              pump[p].taken < queue[Current(p)][j]
<1>1. pump[p].pos \in DOMAIN FamilyOrder /\ pump[p].taken \in 1..(nextId - 1)
  BY DEF IInv, PassIsPlaced
<1>2. Current(p) \in Families
  BY <1>1 DEF Current, Families
<1>3. /\ pump[p].taken \in Ids /\ pump[p].taken \in Nat
      /\ pump[p].taken < nextId
  BY <1>1, ConstantsAssumption DEF IInv, TypeOK, Ids
<1> QED
  BY <1>1, <1>2, <1>3 DEF IInv, TakenInOrder

\* Two connected sessions are beside each other.
LEMMA ConnectedAreBeside ==
  ASSUME IInv, NEW p \in Pumps, NEW q \in Pumps, p # q,
         pump[p].link, pump[q].link
  PROVE  Beside(p, q)
BY DEF IInv, LinkIsPresent, OneOpen, Beside

\* get_nowait(): the command taken is the earliest of its queue, and later
\* than those other threads have taken of it.
LEMMA VisitPreservesIInv ==
  ASSUME IInv, NEW p \in Pumps, Visit(p) PROVE IInv'
<1> DEFINE f == Current(p)
<1>1. /\ pump[p] # Gone /\ pump[p] \in PumpState
      /\ pump[p].pos \in DOMAIN FamilyOrder /\ pump[p].pc = "visit"
      /\ UNCHANGED <<nextId, waking, srvVars, permits, missed, sent>>
  <2>1. pump[p] # Gone /\ pump[p] \in PumpState /\ pump[p].pos # 0
    BY LivePump DEF Visit, IInv, PassIsPlaced
  <2>2. pump[p].pos <= Len(FamilyOrder)
    BY DEF Visit
  <2>3. pump[p].pos \in 0..(Len(FamilyOrder) + 1)
    BY <2>1 DEF PumpState
  <2>4. pump[p].pos \in DOMAIN FamilyOrder
    BY <2>1, <2>2, <2>3, ConstantsAssumption
  <2> QED
    BY <2>1, <2>4 DEF Visit
<1>2. f \in Families
  BY <1>1 DEF Current, Families
<1>3. CASE queue[f] = <<>>
  <2> DEFINE r == [pump[p] EXCEPT !.pos = @ + 1]
  <2>1. /\ r \in PumpState /\ r.open = pump[p].open /\ r.srv = pump[p].srv
        /\ r.unclosed = pump[p].unclosed
        /\ r.pc = "visit" /\ r.pos # 0 /\ r.link = pump[p].link
    <3>1. pump[p].pos + 1 \in 0..(Len(FamilyOrder) + 1) /\ pump[p].pos + 1 # 0
      BY <1>1, ConstantsAssumption
    <3> QED
      BY <1>1, <3>1 DEF PumpState
  <2>2. pump' = [pump EXCEPT ![p] = r] /\ UNCHANGED <<queue, raced>>
    BY <1>3 DEF Visit
  <2>3. /\ r.link => pump[p].link /\ (r.open \/ r.unclosed)
        /\ ~(r.open /\ r.unclosed) /\ permits' \in [Servers -> Nat]
    BY <1>1, <2>1 DEF IInv, LeftOnce, LinkIsPresent, TypeOK
  <2> HIDE DEF r
  <2> QED
    BY <1>1, <2>1, <2>2, <2>3, PumpMayGoOn
<1>4. CASE queue[f] # <<>>
  <2> DEFINE h == Head(queue[f])
  <2>1. /\ queue' = [queue EXCEPT ![f] = Tail(@)]
        /\ pump' = [pump EXCEPT ![p].taken = h, ![p].pc = "write"]
        /\ raced' = raced \cup Held(p)
    BY <1>4 DEF Visit
  <2>2. /\ queue[f] \in Seq(Ids) /\ Ids \subseteq Nat /\ IsIncreasing(queue[f])
    BY <1>2, LaneFacts
  <2>3. /\ h \in Ids /\ Tail(queue[f]) \in Seq(Ids)
        /\ 1 \in DOMAIN queue[f] /\ h = queue[f][1]
    BY <1>4, <2>2
  <2>4. /\ IsIncreasing(Tail(queue[f]))
        /\ \A j \in DOMAIN Tail(queue[f]) :
             /\ h < Tail(queue[f])[j]
             /\ j + 1 \in DOMAIN queue[f]
             /\ Tail(queue[f])[j] = queue[f][j + 1]
    <3> HIDE DEF f
    <3> QED
      BY <1>4, <2>2, TailIncreases
  <2>5. /\ \A q \in Pumps \ {p} : pump'[q] = pump[q]
        /\ pump'[p] \in PumpState /\ pump'[p].pc = "write"
        /\ pump'[p].taken = h /\ pump'[p].pos = pump[p].pos
        /\ pump'[p].srv = pump[p].srv /\ pump'[p].open = pump[p].open
        /\ pump'[p].link = pump[p].link /\ pump'[p].unclosed = pump[p].unclosed
    <3> DEFINE r == [pump[p] EXCEPT !.taken = h, !.pc = "write"]
    <3>1. h \in 0..MaxCommands
      BY <2>3, ConstantsAssumption DEF Ids
    <3> HIDE DEF h
    <3>2. /\ r \in PumpState /\ r.pc = "write"
          /\ r.taken = h /\ r.pos = pump[p].pos
          /\ r.srv = pump[p].srv /\ r.open = pump[p].open
          /\ r.link = pump[p].link /\ r.unclosed = pump[p].unclosed
      BY <1>1, <3>1 DEF PumpState
    <3>3. pump' = [pump EXCEPT ![p] = r] /\ pump \in [Pumps -> PumpState]
      BY <2>1 DEF IInv, TypeOK
    <3> HIDE DEF r
    <3> QED
      BY <3>2, <3>3
  <2>6. /\ queue'[f] = Tail(queue[f])
        /\ \A g \in Families \ {f} : queue'[g] = queue[g]
    BY <1>2, <2>1 DEF IInv, TypeOK
  <2>7. \A q \in Pumps : Current(q)' = Current(q)
    BY <2>5 DEF Current
  <2>8. h < nextId /\ h \in Nat \ {0} /\ nextId \in Nat
          /\ \A i \in DOMAIN sent[f] : sent[f][i] < h /\ sent[f][i] \in Nat
    <3>1. h \in Nat \ {0}
      BY <2>3, ConstantsAssumption DEF Ids
    <3> QED
      BY <1>2, <2>3, <3>1, LaneFacts
  <2> HIDE DEF h
  <2>9. TypeOK'
    <3>1. queue' \in [Families -> Seq(Ids)]
      BY <1>2, <2>1, <2>3 DEF IInv, TypeOK
    <3>2. pump' \in [Pumps -> PumpState]
      BY <1>1, <2>1, <2>5 DEF IInv, TypeOK
    <3>3. raced' \subseteq Ids
      <4>1. Held(p) \subseteq Ids
        BY TakenFacts DEF Held
      <4> QED
        BY <2>1, <4>1 DEF IInv, TypeOK
    <3> QED
      BY <1>1, <3>1, <3>2, <3>3 DEF IInv, TypeOK, srvVars
  <2>10. /\ WakeupsCounted' /\ RunningIsStarted' /\ HasServer' /\ OneOpen'
         /\ LeftOnce' /\ LinkIsPresent' /\ EndedIsGone'
    BY <1>1, <2>5
    DEF IInv, WakeupsCounted, RunningIsStarted, HasServer, OneOpen, LeftOnce,
        LinkIsPresent, EndedIsGone, srvVars
  <2>11. PassIsPlaced'
    BY <1>1, <2>5, <2>8 DEF IInv, PassIsPlaced
  <2>12. LaneInOrder'
    <3> SUFFICES ASSUME NEW g \in Families
                 PROVE  /\ InOrder(sent[g])' /\ IsIncreasing(queue'[g])
                        /\ \A i \in DOMAIN sent[g] : sent[g][i] < nextId
                        /\ \A j \in DOMAIN queue'[g] : queue'[g][j] < nextId
                        /\ \A i \in DOMAIN sent[g], j \in DOMAIN queue'[g] :
                             sent[g][i] < queue'[g][j]
      BY <1>1 DEF LaneInOrder, IsIncreasing
    <3>1. InOrder(sent[g])'
      BY <1>1, <2>1, LaneFacts DEF InOrder
    <3>2. CASE g = f
      <4>1. queue'[g] = Tail(queue[f])
        BY <2>6, <3>2
      <4>2. \A j \in DOMAIN Tail(queue[f]) :
              /\ Tail(queue[f])[j] < nextId
              /\ \A i \in DOMAIN sent[f] : sent[f][i] < Tail(queue[f])[j]
        BY <1>2, <2>4, LaneFacts
      <4>3. \A i \in DOMAIN sent[f] : sent[f][i] < nextId
        BY <1>2, LaneFacts
      <4> QED
        BY <2>4, <3>1, <3>2, <4>1, <4>2, <4>3
    <3>3. CASE g # f
      BY <2>6, <3>1, <3>3, LaneFacts
    <3> QED
      BY <3>2, <3>3
  <2>13. ASSUME NEW q \in Pumps, q # p, pump[q].pc = "write", Current(q) = f
         PROVE  pump[q].taken < h
    BY <2>3, <2>13, TakenFacts
  <2>14. TakenInOrder'
    <3> SUFFICES ASSUME NEW q \in Pumps, pump'[q].pc = "write"
                 PROVE  /\ \A i \in DOMAIN sent[Current(q)] :
                             /\ sent[Current(q)][i] # pump'[q].taken
                             /\ pump'[q].link =>
                                  \/ sent[Current(q)][i] < pump'[q].taken
                                  \/ pump'[q].taken \in raced'
                        /\ \A j \in DOMAIN queue'[Current(q)] :
                             pump'[q].taken < queue'[Current(q)][j]
      BY <1>1, <2>7 DEF TakenInOrder
    <3>1. CASE q = p
      <4>1. Current(q) = f /\ pump'[q].taken = h /\ queue'[f] = Tail(queue[f])
        BY <2>5, <2>6, <3>1
      <4>2. \A i \in DOMAIN sent[f] : sent[f][i] # h /\ sent[f][i] < h
        BY <2>8
      <4>3. \A j \in DOMAIN Tail(queue[f]) : h < Tail(queue[f])[j]
        BY <2>4
      <4> HIDE DEF f
      <4> QED
        BY <4>1, <4>2, <4>3
    <3>2. CASE q # p
      <4>1. pump'[q] = pump[q] /\ pump[q].pc = "write"
        BY <2>5, <3>2
      <4>2. Current(q) \in Families
        BY <4>1, TakenFacts
      <4>3. \A j \in DOMAIN queue'[Current(q)] :
              pump[q].taken < queue'[Current(q)][j]
        <5>1. CASE Current(q) = f
          <6>1. \A j \in DOMAIN queue[f] : pump[q].taken < queue[f][j]
            BY <4>1, <5>1, TakenFacts
          <6>2. \A j \in DOMAIN Tail(queue[f]) :
                  pump[q].taken < Tail(queue[f])[j]
            BY <2>4, <6>1
          <6> HIDE DEF f
          <6> QED
            BY <2>6, <5>1, <6>2
        <5>2. CASE Current(q) # f
          BY <2>6, <4>1, <4>2, <5>2, TakenFacts
        <5> QED
          BY <5>1, <5>2
      <4>4. \A i \in DOMAIN sent[Current(q)] :
              /\ sent[Current(q)][i] # pump[q].taken
              /\ pump[q].link => \/ sent[Current(q)][i] < pump[q].taken
                                 \/ pump[q].taken \in raced
        BY <4>1, TakenFacts
      <4>5. raced \subseteq raced'
        BY <2>1
      <4> QED
        BY <4>1, <4>3, <4>4, <4>5
    <3> QED
      BY <3>1, <3>2
  <2>15. HeldInOrder'
    <3> SUFFICES ASSUME NEW q \in Pumps, NEW t \in Pumps, q # t,
                        pump'[q].pc = "write", pump'[t].pc = "write",
                        Current(q) = Current(t)
                 PROVE  /\ pump'[q].taken # pump'[t].taken
                        /\ /\ pump'[q].link /\ pump'[t].link
                           /\ pump'[q].taken < pump'[t].taken
                           => pump'[q].taken \in raced'
      BY <2>7 DEF HeldInOrder
    <3>1. CASE q # p /\ t # p
      <4>1. /\ pump'[q] = pump[q] /\ pump'[t] = pump[t]
            /\ pump[q].pc = "write" /\ pump[t].pc = "write"
        BY <2>5, <3>1
      <4>2. /\ pump[q].taken # pump[t].taken
            /\ /\ pump[q].link /\ pump[t].link
               /\ pump[q].taken < pump[t].taken
               => pump[q].taken \in raced
        BY <4>1 DEF IInv, HeldInOrder
      <4>3. raced \subseteq raced'
        BY <2>1
      <4> QED
        BY <4>1, <4>2, <4>3
    <3>2. CASE q = p
      <4>1. pump'[t] = pump[t] /\ pump[t].taken < h /\ pump[t].taken \in Nat
        BY <2>5, <2>13, <3>2, TakenFacts
      <4> QED
        BY <2>5, <2>8, <3>2, <4>1
    <3>3. CASE t = p
      <4>1. pump'[q] = pump[q] /\ pump[q].taken < h /\ pump[q].taken \in Nat
        BY <2>5, <2>13, <3>3, TakenFacts
      <4>2. ASSUME pump[q].link, pump[p].link PROVE pump[q].taken \in raced'
        <5>1. Beside(p, q)
          BY <3>3, <4>2, ConnectedAreBeside
        <5> QED
          BY <2>1, <3>3, <4>1, <5>1 DEF Held
      <4> QED
        BY <2>5, <2>8, <3>3, <4>1, <4>2
    <3> QED
      BY <3>1, <3>2, <3>3
  <2> QED
    BY <2>9, <2>10, <2>11, <2>12, <2>14, <2>15 DEF IInv
<1> QED
  BY <1>3, <1>4

\* A write that succeeds: what was taken goes to the end of what was sent,
\* unless nothing carries it any more.
LEMMA WriteSucceedsPreservesIInv ==
  ASSUME IInv, NEW p \in Pumps, WriteSucceeds(p) PROVE IInv'
<1> DEFINE f == Current(p)
           e == pump[p].taken
           r == [pump[p] EXCEPT !.pc = "visit", !.pos = @ + 1, !.taken = 0]
<1>1. /\ pump[p] # Gone /\ pump[p] \in PumpState /\ pump[p].pc = "write"
      /\ UNCHANGED <<queue, nextId, waking, srvVars, permits, missed, raced>>
  BY LivePump DEF WriteSucceeds
<1>2. /\ f \in Families /\ pump[p].pos \in DOMAIN FamilyOrder
      /\ e \in Ids /\ e \in Nat /\ e < nextId
  BY <1>1, TakenFacts
<1>3. /\ r \in PumpState /\ r.open = pump[p].open /\ r.srv = pump[p].srv
      /\ r.unclosed = pump[p].unclosed
      /\ r.pc = "visit" /\ r.pos # 0 /\ r.link = pump[p].link
  <2>1. /\ pump[p].pos + 1 \in 0..(Len(FamilyOrder) + 1)
        /\ pump[p].pos + 1 # 0 /\ 0 \in 0..MaxCommands
    BY <1>2, ConstantsAssumption
  <2> QED
    BY <1>1, <2>1 DEF PumpState
<1>4. pump' = [pump EXCEPT ![p] = r]
  BY DEF WriteSucceeds, IInv, TypeOK
<1>5. (r.link => r.open \/ r.unclosed) /\ ~(r.open /\ r.unclosed)
  BY <1>3 DEF IInv, LeftOnce, LinkIsPresent
<1>6. CASE ~pump[p].link
  <2>1. UNCHANGED sent /\ permits' \in [Servers -> Nat]
    BY <1>1, <1>6 DEF WriteSucceeds, IInv, TypeOK
  <2> HIDE DEF f, e, r
  <2> QED
    BY <1>1, <1>3, <1>4, <1>5, <1>6, <2>1, PumpMayGoOn
<1>7. CASE pump[p].link
  <2>1. sent' = [sent EXCEPT ![f] = Append(@, e)]
    BY <1>7 DEF WriteSucceeds
  <2>2. \A i \in DOMAIN sent[f] :
          sent[f][i] # e /\ (sent[f][i] < e \/ e \in raced)
    BY <1>1, <1>7, TakenFacts
  <2>3. \A j \in DOMAIN queue[f] : e < queue[f][j]
    BY <1>1, TakenFacts
  <2>4. /\ pump'[p] = r /\ \A q \in Pumps \ {p} : pump'[q] = pump[q]
        /\ \A q \in Pumps \ {p} : Current(q)' = Current(q)
    BY <1>4 DEF IInv, TypeOK, Current
  <2>5. \A q \in Pumps \ {p} :
          pump[q].pc = "write" /\ Current(q) = f
            => /\ pump[q].taken # e /\ pump[q].taken \in Nat
               /\ pump[q].link => e < pump[q].taken \/ pump[q].taken \in raced
    <3> SUFFICES ASSUME NEW q \in Pumps \ {p},
                        pump[q].pc = "write", Current(q) = f
                 PROVE  /\ pump[q].taken # e /\ pump[q].taken \in Nat
                        /\ pump[q].link => \/ e < pump[q].taken
                                           \/ pump[q].taken \in raced
      OBVIOUS
    <3>1. pump[q].taken \in Nat
      BY TakenFacts
    <3>2. /\ pump[q].taken # e
          /\ pump[q].link /\ pump[q].taken < e => pump[q].taken \in raced
      BY <1>1, <1>7 DEF IInv, HeldInOrder
    <3> QED
      BY <1>2, <3>1, <3>2
  <2> HIDE DEF f, e, r
  <2>6. sent[f] \in Seq(Ids) /\ InOrder(sent[f])
    BY <1>2, LaneFacts
  <2>7. /\ Append(sent[f], e) \in Seq(Ids)
        /\ InOrder(Append(sent[f], e))
        /\ \A i \in DOMAIN Append(sent[f], e) :
             \/ Append(sent[f], e)[i] = e
             \/ /\ i \in DOMAIN sent[f]
                /\ Append(sent[f], e)[i] = sent[f][i]
    BY <1>2, <2>2, <2>6, AppendKeepsOrder
  <2>8. /\ sent'[f] = Append(sent[f], e)
        /\ \A g \in Families \ {f} : sent'[g] = sent[g]
    BY <1>2, <2>1 DEF IInv, TypeOK
  <2>9. TypeOK'
    <3>1. sent' \in [Families -> Seq(Ids)]
      BY <1>2, <2>1, <2>7 DEF IInv, TypeOK
    <3>2. pump' \in [Pumps -> PumpState]
      BY <1>3, <1>4 DEF IInv, TypeOK
    <3> QED
      BY <1>1, <3>1, <3>2 DEF IInv, TypeOK, srvVars
  <2>10. /\ WakeupsCounted' /\ RunningIsStarted' /\ HasServer' /\ OneOpen'
         /\ LeftOnce' /\ LinkIsPresent' /\ EndedIsGone' /\ PassIsPlaced'
    <3>1. pump[p].pc # "none" /\ r # Gone
      BY <1>1, <1>3 DEF Gone
    <3> QED
      BY <1>1, <1>3, <1>5, <2>4, <3>1
      DEF IInv, WakeupsCounted, RunningIsStarted, HasServer, OneOpen, LeftOnce,
          LinkIsPresent, EndedIsGone, PassIsPlaced, srvVars
  <2>11. LaneInOrder'
    <3> SUFFICES ASSUME NEW g \in Families
                 PROVE  /\ InOrder(sent'[g]) /\ IsIncreasing(queue[g])
                        /\ \A i \in DOMAIN sent'[g] : sent'[g][i] < nextId
                        /\ \A j \in DOMAIN queue[g] : queue[g][j] < nextId
                        /\ \A i \in DOMAIN sent'[g], j \in DOMAIN queue[g] :
                             sent'[g][i] < queue[g][j]
      BY <1>1 DEF LaneInOrder, IsIncreasing, InOrder
    <3>1. CASE g = f
      <4>1. \A i \in DOMAIN Append(sent[f], e) :
              /\ Append(sent[f], e)[i] < nextId
              /\ \A j \in DOMAIN queue[f] : Append(sent[f], e)[i] < queue[f][j]
        BY <1>2, <2>3, <2>7, LaneFacts
      <4>2. sent'[g] = Append(sent[f], e)
        BY <2>8, <3>1
      <4> QED
        BY <2>7, <3>1, <4>1, <4>2, LaneFacts
    <3>2. CASE g # f
      BY <2>8, <3>2, LaneFacts
    <3> QED
      BY <3>1, <3>2
  <2>12. TakenInOrder'
    <3> SUFFICES ASSUME NEW q \in Pumps, pump'[q].pc = "write"
                 PROVE  /\ \A i \in DOMAIN sent'[Current(q)'] :
                             /\ sent'[Current(q)'][i] # pump'[q].taken
                             /\ pump'[q].link =>
                                  \/ sent'[Current(q)'][i] < pump'[q].taken
                                  \/ pump'[q].taken \in raced
                        /\ \A j \in DOMAIN queue[Current(q)'] :
                             pump'[q].taken < queue[Current(q)'][j]
      BY <1>1 DEF TakenInOrder
    <3>1. q # p
      BY <1>3, <2>4
    <3>2. pump'[q] = pump[q] /\ Current(q)' = Current(q)
      BY <2>4, <3>1
    <3>3. CASE Current(q) = f
      <4>1. \A i \in DOMAIN Append(sent[f], e) :
              /\ Append(sent[f], e)[i] # pump[q].taken
              /\ pump[q].link => \/ Append(sent[f], e)[i] < pump[q].taken
                                 \/ pump[q].taken \in raced
        BY <2>5, <2>7, <3>1, <3>2, <3>3, TakenFacts
      <4> QED
        BY <2>8, <3>2, <3>3, <4>1, TakenFacts
    <3>4. CASE Current(q) # f
      BY <2>8, <3>2, <3>4, TakenFacts
    <3> QED
      BY <3>3, <3>4
  <2>13. HeldInOrder'
    <3>1. ASSUME NEW q \in Pumps, pump'[q].pc = "write"
          PROVE  pump'[q] = pump[q] /\ Current(q)' = Current(q)
      BY <1>3, <2>4, <3>1
    <3> QED
      BY <1>1, <3>1 DEF IInv, HeldInOrder
  <2> QED
    BY <2>9, <2>10, <2>11, <2>12, <2>13 DEF IInv
<1> QED
  BY <1>6, <1>7

\* A command that is given is later than all before it.
LEMMA PutPreservesIInv ==
  ASSUME IInv, NEW f \in Families, Put(f) PROVE IInv'
<1>1. /\ nextId \in Ids /\ nextId' = nextId + 1 /\ waking' = waking + 1
      /\ queue' = [queue EXCEPT ![f] = Append(@, nextId)]
      /\ UNCHANGED <<srvVars, permits, pump, missed, raced, sent>>
  BY ConstantsAssumption DEF Put, IInv, TypeOK, Ids
<1>2. /\ queue[f] \in Seq(Ids) /\ IsIncreasing(queue[f])
      /\ \A j \in DOMAIN queue[f] : queue[f][j] < nextId
  BY DEF IInv, TypeOK, LaneInOrder
<1>3. /\ Append(queue[f], nextId) \in Seq(Ids)
      /\ IsIncreasing(Append(queue[f], nextId))
      /\ \A j \in DOMAIN Append(queue[f], nextId) :
           \/ Append(queue[f], nextId)[j] = nextId
           \/ /\ j \in DOMAIN queue[f]
              /\ Append(queue[f], nextId)[j] = queue[f][j]
  BY <1>1, <1>2, AppendIncreases
<1>4. /\ queue'[f] = Append(queue[f], nextId)
      /\ \A g \in Families \ {f} : queue'[g] = queue[g]
  BY <1>1 DEF IInv, TypeOK
<1>5. nextId \in Nat /\ nextId' = nextId + 1
  BY <1>1, ConstantsAssumption DEF Ids
<1>6. TypeOK' /\ WakeupsCounted'
  <2>1. queue' \in [Families -> Seq(Ids)]
    BY <1>1, <1>3 DEF IInv, TypeOK
  <2>2. /\ nextId' \in 1..(MaxCommands + 1) /\ waking' \in 0..MaxCommands
        /\ WakeupsCounted'
    BY <1>1, ConstantsAssumption DEF IInv, TypeOK, WakeupsCounted, Ids
  <2> QED
    BY <1>1, <2>1, <2>2 DEF IInv, TypeOK, srvVars
<1>7. /\ RunningIsStarted' /\ HasServer' /\ OneOpen' /\ LeftOnce'
      /\ LinkIsPresent'
      /\ EndedIsGone'
  BY <1>1
  DEF IInv, RunningIsStarted, HasServer, OneOpen, LeftOnce, LinkIsPresent,
      EndedIsGone,
      srvVars
<1>8. PassIsPlaced'
  BY <1>1, <1>5 DEF IInv, PassIsPlaced
<1>9. LaneInOrder'
  <2> SUFFICES ASSUME NEW g \in Families
               PROVE  /\ IsIncreasing(queue'[g])
                      /\ \A i \in DOMAIN sent[g] : sent[g][i] < nextId'
                      /\ \A j \in DOMAIN queue'[g] : queue'[g][j] < nextId'
                      /\ \A i \in DOMAIN sent[g], j \in DOMAIN queue'[g] :
                           sent[g][i] < queue'[g][j]
    BY <1>1 DEF IInv, LaneInOrder, IsIncreasing, InOrder
  <2>1. /\ \A i \in DOMAIN sent[g] : sent[g][i] < nextId'
        /\ \A j \in DOMAIN queue[g] : queue[g][j] < nextId'
    <3>1. \A n \in Ids : n < nextId => n < nextId'
      BY <1>5, ConstantsAssumption DEF Ids
    <3> QED
      BY <3>1, LaneFacts
  <2>2. CASE g = f
    <3>1. queue'[g] = Append(queue[f], nextId)
      BY <1>4, <2>2
    <3>2. IsIncreasing(queue'[g])
      BY <1>3, <3>1
    <3>3. \A j \in DOMAIN Append(queue[f], nextId) :
            /\ Append(queue[f], nextId)[j] < nextId'
            /\ \A i \in DOMAIN sent[g] :
                 sent[g][i] < Append(queue[f], nextId)[j]
      BY <1>3, <1>5, <2>1, <2>2, LaneFacts
    <3> QED
      BY <2>1, <3>1, <3>2, <3>3
  <2>3. CASE g # f
    <3>1. queue'[g] = queue[g]
      BY <1>4, <2>3
    <3> QED
      BY <2>1, <3>1, LaneFacts
  <2> QED
    BY <2>2, <2>3
<1>10. TakenInOrder'
  <2> SUFFICES ASSUME NEW q \in Pumps, pump[q].pc = "write"
               PROVE  \A j \in DOMAIN queue'[Current(q)] :
                        pump[q].taken < queue'[Current(q)][j]
    BY <1>1 DEF IInv, TakenInOrder, Current
  <2>1. CASE Current(q) = f
    <3>1. \A j \in DOMAIN Append(queue[f], nextId) :
            pump[q].taken < Append(queue[f], nextId)[j]
      BY <1>3, <2>1, TakenFacts
    <3> QED
      BY <1>4, <2>1, <3>1
  <2>2. CASE Current(q) # f
    BY <1>4, <2>2, TakenFacts
  <2> QED
    BY <2>1, <2>2
<1>11. HeldInOrder'
  BY <1>1 DEF IInv, HeldInOrder, Current
<1> QED
  BY <1>6, <1>7, <1>8, <1>9, <1>10, <1>11 DEF IInv

-----------------------------------------------------------------------------
\* Wake-ups and servers.

\* The second half of giving a command: the semaphore, if a server runs.
LEMMA WakePreservesIInv == ASSUME IInv, Wake PROVE IInv'
<1>1. /\ waking' = waking - 1 /\ waking > 0
      /\ UNCHANGED <<queue, nextId, srvVars, pump, raced, sent>>
  BY DEF Wake
<1>2. CASE running
  <2>1. gen \in Servers
    <3>1. gen \in 0..MaxServers /\ gen # 0
      BY <1>2 DEF IInv, TypeOK, RunningIsStarted
    <3> QED
      BY <3>1, ConstantsAssumption DEF Servers
  <2>2. permits' = [permits EXCEPT ![gen] = @ + 1] /\ UNCHANGED missed
    BY <1>2 DEF Wake
  <2>3. permits' \in [Servers -> Nat]
    BY <2>1, <2>2, PermitsKeepType
  <2>4. waking' \in 0..MaxCommands /\ waking' + missed' < nextId
    BY <1>1, <2>2, ConstantsAssumption DEF IInv, TypeOK, WakeupsCounted
  <2>5. TypeOK' /\ WakeupsCounted'
    BY <1>1, <2>2, <2>3, <2>4 DEF IInv, TypeOK, WakeupsCounted, srvVars
  <2> QED
    BY <1>1, <2>5
    DEF IInv, RunningIsStarted, HasServer, OneOpen, LeftOnce, LinkIsPresent,
        EndedIsGone, PassIsPlaced, LaneInOrder, TakenInOrder, HeldInOrder,
        InOrder, Current, srvVars
<1>3. CASE ~running
  <2>1. missed' = missed + 1 /\ UNCHANGED permits
    BY <1>3 DEF Wake
  <2>2. /\ waking' \in 0..MaxCommands /\ missed' \in 0..MaxCommands
        /\ waking' + missed' < nextId
    BY <1>1, <2>1, ConstantsAssumption DEF IInv, TypeOK, WakeupsCounted
  <2>3. TypeOK' /\ WakeupsCounted'
    BY <1>1, <2>1, <2>2 DEF IInv, TypeOK, WakeupsCounted, srvVars
  <2> QED
    BY <1>1, <2>3
    DEF IInv, RunningIsStarted, HasServer, OneOpen, LeftOnce, LinkIsPresent,
        EndedIsGone, PassIsPlaced, LaneInOrder, TakenInOrder, HeldInOrder,
        InOrder, Current, srvVars
<1> QED
  BY <1>2, <1>3

\* A server that starts changes no session.
LEMMA StartServerPreservesIInv == ASSUME IInv, StartServer PROVE IInv'
<1>1. /\ ~running /\ gen < MaxServers /\ gen' = gen + 1 /\ running' = TRUE
      /\ gen \in Nat
      /\ UNCHANGED <<queue, nextId, waking, permits, pump, missed, raced, sent>>
  BY ConstantsAssumption DEF StartServer, IInv, TypeOK
<1>2. TypeOK' /\ WakeupsCounted' /\ RunningIsStarted'
  BY <1>1, ConstantsAssumption
  DEF IInv, TypeOK, WakeupsCounted, RunningIsStarted
<1>3. HasServer' /\ LeftOnce' /\ LinkIsPresent'
  BY <1>1 DEF IInv, HasServer, LeftOnce, LinkIsPresent
<1> QED
  BY <1>1, <1>2, <1>3
  DEF IInv, OneOpen, EndedIsGone, PassIsPlaced, LaneInOrder, TakenInOrder,
      HeldInOrder, InOrder, Current

\* Stopping a server breaks the connections of the sessions it has.
LEMMA StopServerPreservesIInv == ASSUME IInv, StopServer PROVE IInv'
<1> DEFINE r(p) == [pump[p] EXCEPT !.link = @ /\ pump[p].srv # gen]
<1>1. /\ running' = FALSE /\ pump' = [p \in Pumps |-> r(p)]
      /\ UNCHANGED <<queue, nextId, waking, gen, permits, missed, raced, sent>>
  BY DEF StopServer
<1>2. ASSUME NEW p \in Pumps
      PROVE  /\ r(p) \in PumpState
             /\ r(p).open = pump[p].open /\ r(p).unclosed = pump[p].unclosed
             /\ r(p).srv = pump[p].srv /\ r(p).pc = pump[p].pc
             /\ r(p).pos = pump[p].pos /\ r(p).taken = pump[p].taken
             /\ r(p).link => pump[p].link
             /\ ~pump[p].link => r(p) = pump[p]
  <2>1. pump[p] \in PumpState
    BY DEF IInv, TypeOK
  <2>2. (pump[p].link /\ pump[p].srv # gen) \in BOOLEAN
    OBVIOUS
  <2> QED
    BY <2>1, <2>2 DEF PumpState
<1>3. \A p \in Pumps : pump[p] = Gone => r(p) = Gone
  BY <1>2 DEF Gone
<1>4. \A p \in Pumps : pump'[p] = r(p) /\ Current(p)' = Current(p)
  BY <1>1, <1>2 DEF Current
<1> HIDE DEF r
<1>5. TypeOK' /\ WakeupsCounted' /\ RunningIsStarted'
  BY <1>1, <1>2 DEF IInv, TypeOK, WakeupsCounted, RunningIsStarted
<1>6. HasServer' /\ OneOpen' /\ LeftOnce' /\ LinkIsPresent' /\ EndedIsGone'
  BY <1>1, <1>2, <1>3, <1>4
  DEF IInv, HasServer, OneOpen, LeftOnce, LinkIsPresent, EndedIsGone
<1>7. PassIsPlaced'
  BY <1>1, <1>2, <1>4 DEF IInv, PassIsPlaced
<1>8. TakenInOrder'
  BY <1>1, <1>2, <1>4 DEF IInv, TakenInOrder
<1>9. LaneInOrder' /\ HeldInOrder'
  BY <1>1, <1>2, <1>4 DEF IInv, LaneInOrder, HeldInOrder, InOrder
<1> QED
  BY <1>5, <1>6, <1>7, <1>8, <1>9 DEF IInv

-----------------------------------------------------------------------------

\* The invariant holds before anything has happened.
LEMMA InitEstablishesIInv == Init => IInv
<1> SUFFICES ASSUME Init PROVE IInv
  OBVIOUS
<1>1. TypeOK
  <2>1. /\ queue \in [Families -> Seq(Ids)] /\ sent \in [Families -> Seq(Ids)]
        /\ permits \in [Servers -> Nat]
    BY DEF Init
  <2>2. pump \in [Pumps -> PumpState] /\ running \in BOOLEAN
    BY GoneIsPumpState DEF Init
  <2>3. /\ nextId \in 1..(MaxCommands + 1) /\ waking \in 0..MaxCommands
        /\ gen \in 0..MaxServers /\ missed \in 0..MaxCommands
        /\ raced \subseteq Ids
    BY ConstantsAssumption DEF Init
  <2> QED
    BY <2>1, <2>2, <2>3 DEF TypeOK
<1>2. /\ WakeupsCounted /\ RunningIsStarted /\ HasServer /\ OneOpen
      /\ LeftOnce /\ LinkIsPresent /\ EndedIsGone /\ PassIsPlaced
      /\ TakenInOrder
      /\ HeldInOrder
  BY DEF Init, WakeupsCounted, RunningIsStarted, HasServer, OneOpen, LeftOnce,
         LinkIsPresent, EndedIsGone, PassIsPlaced, TakenInOrder, HeldInOrder,
         Gone
<1>3. LaneInOrder
  BY DEF Init, LaneInOrder, IsIncreasing, InOrder
<1> QED
  BY <1>1, <1>2, <1>3 DEF IInv

\* Every step keeps the invariant, action by action.
LEMMA NextPreservesIInv == ASSUME IInv, [Next]_vars PROVE IInv'
<1>1. CASE \E f \in Families : Put(f)
  BY <1>1, PutPreservesIInv
<1>2. CASE Wake
  BY <1>2, WakePreservesIInv
<1>3. CASE StartServer \/ StopServer
  BY <1>3, StartServerPreservesIInv, StopServerPreservesIInv
<1>4. ASSUME NEW p \in Pumps,
             \/ OpenSession(p) \/ Heartbeat(p) \/ LinkDrops(p)
             \/ CloseSession(p) \/ EndSession(p) \/ CloseConnection(p)
      PROVE  IInv'
  BY <1>4, OpenSessionPreservesIInv, SessionPreservesIInv,
     EndSessionPreservesIInv, CloseConnectionPreservesIInv
<1>5. ASSUME NEW p \in Pumps, PumpStep(p) PROVE IInv'
  BY <1>5, ThreadPreservesIInv, VisitPreservesIInv,
     WriteSucceedsPreservesIInv, WriteFailsPreservesIInv DEF PumpStep
<1>6. CASE UNCHANGED vars
  BY <1>6
  DEF vars, srvVars, IInv, TypeOK, WakeupsCounted, RunningIsStarted,
      HasServer, OneOpen, LeftOnce, LinkIsPresent, EndedIsGone, PassIsPlaced,
      LaneInOrder, TakenInOrder, HeldInOrder, InOrder, Current
<1> QED
  BY <1>1, <1>2, <1>3, <1>4, <1>5, <1>6 DEF Next

\* The invariant holds in every reachable state.
THEOREM InvariantHolds == Spec => []IInv
BY InitEstablishesIInv, NextPreservesIInv, PTL DEF Spec

\* Every variable keeps its type: queues, semaphores, sessions and threads.
THEOREM TypeCorrect == Spec => []TypeOK
<1>1. IInv => TypeOK
  BY DEF IInv
<1> QED
  BY <1>1, InvariantHolds, PTL

\* Commands of one family reach phones in the order they were given and none
\* twice, though the threads of several sessions take from the same queues;
\* only one that was raced for can come after a later one.
THEOREM CommandsKeepOrder == Spec => []SentInOrder
<1>1. IInv => SentInOrder
  BY DEF IInv, LaneInOrder, SentInOrder
<1> QED
  BY <1>1, InvariantHolds, PTL

-----------------------------------------------------------------------------
\* Wake-ups, as long as no join times out.  The server is the first one.

\* Without lingering threads only an open session has a thread.
ThreadsHaveSessions == \A p \in Pumps : pump[p].pc # "none" => pump[p].open

\* p's pass has come by family f.
Passed(p, f) ==
  \E i \in DOMAIN FamilyOrder :
    /\ FamilyOrder[i] = f
    /\ i < pump[p].pos \/ (i = pump[p].pos /\ pump[p].pc = "write")

\* p cannot do any more for f with the wake-ups it has taken.
NeedsWakeup(p, f) ==
  \/ pump[p].pc = "acquire"
  \/ pump[p].pc \in {"visit", "write"} /\ Passed(p, f)

Wakeups == permits[1] + waking + missed

\* How many of its wake-ups p does not have for f: one it would still have
\* taken if it needed no other, and one that is released when its session
\* closes, for its thread alone.
Spent(p, f) == (IF NeedsWakeup(p, f) THEN 1 ELSE 0)
                 + (IF pump[p].stop THEN 1 ELSE 0)

\* A queue is covered by the wake-ups there are, and by the one p has taken
\* if p is still to come to the queue, or has died before.
Covered(p, f) == Len(queue[f]) + Spent(p, f) <= Wakeups + 1

QueuesCovered ==
  \A f \in Families :
    /\ \A p \in Pumps : pump[p].open => Covered(p, f)
    /\ (\A p \in Pumps : ~pump[p].open) => Len(queue[f]) <= Wakeups

\* The thread of a closed session finds the wake-up that ends it.
StopIsHeard ==
  \A p \in Pumps :
    pump[p].stop /\ pump[p].pc \in {"acquire", "wait", "visit", "write"}
      => permits[1] > 0

\* The inductive invariant.  NoLostWakeup alone is not: it says nothing of a
\* thread in the middle of its pass, from which the next sleep is reached.
WInv ==
  /\ IInv
  /\ ThreadsHaveSessions
  /\ gen <= 1 => QueuesCovered /\ StopIsHeard

\* The first server has one session.
LEMMA SessionIsAlone ==
  ASSUME IInv, gen <= 1, NEW p \in Pumps, NEW q \in Pumps,
         pump[p].open, pump[q].open
  PROVE  p = q
<1>1. pump[p] # Gone /\ pump[q] # Gone
  BY DEF Gone
<1>2. pump[p].srv \in 1..gen /\ pump[q].srv \in 1..gen /\ gen \in 0..MaxServers
  BY <1>1 DEF IInv, HasServer, TypeOK
<1>3. pump[p].srv = pump[q].srv
  BY <1>2, ConstantsAssumption
<1> QED
  BY <1>3 DEF IInv, OneOpen

\* Before any restart every open session belongs to server 1.
LEMMA FirstServerExists ==
  ASSUME IInv, gen <= 1, NEW p \in Pumps, pump[p].open
  PROVE  gen = 1 /\ pump[p].srv = 1
<1>1. pump[p] # Gone
  BY DEF Gone
<1>2. pump[p].srv \in 1..gen /\ gen \in 0..MaxServers
  BY <1>1 DEF IInv, HasServer, TypeOK
<1> QED
  BY <1>2, ConstantsAssumption

\* The counts the wake-ups are made of are numbers.
LEMMA WakeupsAreCounted ==
  ASSUME IInv
  PROVE  permits[1] \in Nat /\ waking \in Nat /\ missed \in Nat
           /\ Wakeups \in Nat /\ 1 \in Servers
<1>1. 1 \in Servers
  BY ConstantsAssumption DEF Servers
<1>2. permits[1] \in Nat /\ waking \in Nat /\ missed \in Nat
  BY <1>1, ConstantsAssumption DEF IInv, TypeOK
<1> QED
  BY <1>1, <1>2 DEF Wakeups

\* So are the lengths of the queues.
LEMMA LengthsAreNumbers ==
  ASSUME IInv, NEW f \in Families PROVE Len(queue[f]) \in Nat
<1>1. queue[f] \in Seq(Ids)
  BY DEF IInv, TypeOK
<1> QED
  BY <1>1

\* It is enough to look at the session that a step is about.
LEMMA OneSessionIsEnough ==
  ASSUME WInv, IInv', NEW p \in Pumps, pump[p].open, gen' = gen,
         \A q \in Pumps \ {p} : pump'[q] = pump[q],
         pump'[p].pc # "none" => pump'[p].open,
         gen <= 1 => /\ \A f \in Families :
                          IF pump'[p].open THEN Covered(p, f)'
                          ELSE Len(queue'[f]) <= Wakeups'
                     /\ /\ pump'[p].stop
                        /\ pump'[p].pc \in {"acquire", "wait", "visit",
                                            "write"}
                        => permits'[1] > 0
  PROVE  WInv'
<1>1. ThreadsHaveSessions'
  BY DEF WInv, ThreadsHaveSessions
<1>2. ASSUME gen <= 1 PROVE QueuesCovered' /\ StopIsHeard'
  <2>1. \A q \in Pumps \ {p} : /\ pump'[q].open = pump[q].open
                               /\ ~pump[q].open /\ pump[q].pc = "none"
    <3> SUFFICES ASSUME NEW q \in Pumps, q # p
                 PROVE  ~pump[q].open /\ pump[q].pc = "none"
      OBVIOUS
    <3>1. ~pump[q].open
      BY <1>2, SessionIsAlone DEF WInv
    <3> QED
      BY <3>1 DEF WInv, ThreadsHaveSessions
  <2>2. QueuesCovered'
    BY <1>2, <2>1 DEF QueuesCovered
  <2>3. StopIsHeard'
    BY <1>2, <2>1 DEF StopIsHeard
  <2> QED
    BY <2>2, <2>3
<1> QED
  BY <1>1, <1>2 DEF WInv

\* What is known of the session, and of each queue, before a step.
LEMMA SessionIsCovered ==
  ASSUME WInv, gen <= 1, NEW p \in Pumps, pump[p].open, NEW f \in Families
  PROVE  /\ Covered(p, f)
         /\ Len(queue[f]) \in Nat /\ Wakeups \in Nat /\ Spent(p, f) \in Nat
<1>1. Covered(p, f)
  BY DEF WInv, QueuesCovered
<1>2. Len(queue[f]) \in Nat /\ Wakeups \in Nat
  BY LengthsAreNumbers, WakeupsAreCounted DEF WInv
<1>3. Spent(p, f) \in Nat
  BY DEF Spent
<1> QED
  BY <1>1, <1>2, <1>3

\* The arithmetic of the next lemma.
LEMMA StillCovered ==
  ASSUME NEW n \in Nat, NEW s \in Nat, NEW w \in Nat,
         NEW m \in Nat, NEW t \in Nat, NEW v \in Nat,
         n + s <= w + 1, (m + t) + w <= (n + s) + v
  PROVE  m + t <= v + 1
OBVIOUS

\* Wake-ups that come at least make up for what is spent.
LEMMA CoverIsKept ==
  ASSUME WInv, IInv', gen <= 1, NEW p \in Pumps, pump[p].open,
         NEW f \in Families,
         (Len(queue'[f]) + Spent(p, f)') + Wakeups
           <= (Len(queue[f]) + Spent(p, f)) + Wakeups'
  PROVE  Covered(p, f)'
<1>1. /\ Covered(p, f) /\ Len(queue[f]) \in Nat /\ Wakeups \in Nat
      /\ Spent(p, f) \in Nat
  BY SessionIsCovered
<1>2. Len(queue'[f]) \in Nat
  <2>1. queue'[f] \in Seq(Ids)
    BY DEF IInv, TypeOK
  <2> QED
    BY <2>1
<1>3. Spent(p, f)' \in Nat
  BY DEF Spent
<1>4. Wakeups' \in Nat
  <2>1. /\ permits' \in [Servers -> Nat] /\ 1 \in Servers
        /\ waking' \in Nat /\ missed' \in Nat
    BY ConstantsAssumption DEF IInv, TypeOK, Servers
  <2> QED
    BY <2>1 DEF Wakeups
<1>5. Len(queue[f]) + Spent(p, f) <= Wakeups + 1
  BY <1>1 DEF Covered
<1>6. Len(queue'[f]) + Spent(p, f)' <= Wakeups' + 1
  <2> HIDE DEF Wakeups
  <2> QED
    BY <1>1, <1>2, <1>3, <1>4, <1>5, StillCovered
<1> QED
  BY <1>6 DEF Covered

\* Heartbeats and the end of a session only add wake-ups.
LEMMA SessionKeepsWakeups ==
  ASSUME WInv, IInv', NEW p \in Pumps,
         Heartbeat(p) \/ CloseSession(p)
  PROVE  WInv'
<1>1. /\ pump[p].open = TRUE /\ pump[p] \in PumpState
      /\ pump \in [Pumps -> PumpState] /\ permits \in [Servers -> Nat]
      /\ UNCHANGED <<queue, nextId, waking, srvVars, missed, raced, sent>>
  BY LivePump DEF Heartbeat, CloseSession, WInv, IInv, TypeOK, PumpState
<1>2. /\ \A q \in Pumps \ {p} : pump'[q] = pump[q]
      /\ pump'[p].open = TRUE /\ pump'[p].pc = pump[p].pc
      /\ pump'[p].pos = pump[p].pos
  <2>1. CASE Heartbeat(p)
    BY <1>1, <2>1 DEF Heartbeat, PumpState
  <2>2. CASE CloseSession(p)
    BY <1>1, <2>2 DEF CloseSession, PumpState
  <2> QED
    BY <2>1, <2>2
<1>3. CASE Heartbeat(p)
  <2>1. pump'[p].stop = pump[p].stop
    BY <1>1, <1>3 DEF Heartbeat, PumpState
  <2> SUFFICES ASSUME gen <= 1
               PROVE  /\ \A f \in Families : Covered(p, f)'
                      /\ /\ pump'[p].stop
                         /\ pump'[p].pc \in {"acquire", "wait", "visit",
                                             "write"}
                         => permits'[1] > 0
    BY <1>1, <1>2, OneSessionIsEnough DEF srvVars
  <2>2. permits'[1] \in Nat /\ permits[1] \in Nat /\ permits'[1] >= permits[1]
    <3>1. permits[1] \in Nat /\ 1 \in Servers
      BY WakeupsAreCounted DEF WInv
    <3>2. pump[p].srv = 1
      BY <1>1, FirstServerExists DEF WInv
    <3> QED
      BY <1>1, <1>3, <3>1, <3>2 DEF Heartbeat
  <2>3. ASSUME NEW f \in Families PROVE Covered(p, f)'
    <3>1. Spent(p, f)' = Spent(p, f)
      BY <1>2, <2>1 DEF Spent, NeedsWakeup, Passed
    <3>2. Wakeups' \in Nat /\ Wakeups <= Wakeups'
      BY <1>1, <2>2, WakeupsAreCounted DEF WInv, Wakeups
    <3>3. Len(queue[f]) + Spent(p, f) \in Nat /\ Wakeups \in Nat
      BY <1>1, SessionIsCovered
    <3>4. (Len(queue'[f]) + Spent(p, f)') + Wakeups
            <= (Len(queue[f]) + Spent(p, f)) + Wakeups'
      BY <1>1, <3>1, <3>2, <3>3
    <3> QED
      BY <1>1, <3>4, CoverIsKept
  <2>4. /\ pump'[p].stop
        /\ pump'[p].pc \in {"acquire", "wait", "visit", "write"}
        => permits'[1] > 0
    <3>1. /\ pump[p].stop
          /\ pump[p].pc \in {"acquire", "wait", "visit", "write"}
          => permits[1] > 0
      BY DEF WInv, StopIsHeard
    <3> QED
      BY <1>2, <2>1, <2>2, <3>1
  <2> QED
    BY <2>3, <2>4
<1>4. CASE CloseSession(p)
  <2>1. pump'[p].stop = TRUE /\ pump[p].stop = FALSE
    BY <1>1, <1>4 DEF CloseSession, PumpState
  <2> SUFFICES ASSUME gen <= 1
               PROVE  /\ \A f \in Families : Covered(p, f)'
                      /\ permits'[1] > 0
    BY <1>1, <1>2, OneSessionIsEnough DEF srvVars
  <2>2. permits[1] \in Nat /\ permits'[1] = permits[1] + 1
    <3>1. permits[1] \in Nat /\ 1 \in Servers
      BY WakeupsAreCounted DEF WInv
    <3>2. pump[p].srv = 1
      BY <1>1, FirstServerExists DEF WInv
    <3> QED
      BY <1>1, <1>4, <3>1, <3>2 DEF CloseSession
  <2>3. ASSUME NEW f \in Families PROVE Covered(p, f)'
    <3>1. Spent(p, f)' = Spent(p, f) + 1
      BY <1>2, <2>1 DEF Spent, NeedsWakeup, Passed
    <3>2. Wakeups' = Wakeups + 1
      BY <1>1, <2>2, WakeupsAreCounted DEF WInv, Wakeups
    <3>3. /\ Len(queue[f]) \in Nat /\ Spent(p, f) \in Nat
          /\ Wakeups \in Nat
      BY <1>1, SessionIsCovered
    <3>4. (Len(queue'[f]) + Spent(p, f)') + Wakeups
            <= (Len(queue[f]) + Spent(p, f)) + Wakeups'
      BY <1>1, <3>1, <3>2, <3>3
    <3> QED
      BY <1>1, <3>4, CoverIsKept
  <2> QED
    BY <2>2, <2>3
<1> QED
  BY <1>3, <1>4

\* A session is over when its thread is: nothing is taken that the next one
\* would need.
LEMMA EndSessionKeepsWakeups ==
  ASSUME WInv, IInv', JoinMayTimeOut = FALSE, NEW p \in Pumps, EndSession(p)
  PROVE  WInv'
<1>1. /\ pump[p].open /\ pump[p].stop /\ pump[p].pc = "none"
      /\ UNCHANGED <<queue, nextId, waking, srvVars, permits, missed>>
      /\ pump[p] \in PumpState /\ pump \in [Pumps -> PumpState]
  BY DEF EndSession, WInv, IInv, TypeOK
<1>2. /\ \A q \in Pumps \ {p} : pump'[q] = pump[q]
      /\ pump'[p].open = FALSE /\ pump'[p].pc = "none"
  BY <1>1 DEF EndSession, PumpState
<1>3. ASSUME gen <= 1, NEW f \in Families
      PROVE  Len(queue'[f]) <= Wakeups'
  <2>1. Covered(p, f) /\ Len(queue[f]) \in Nat /\ Wakeups \in Nat
    BY <1>1, <1>3, SessionIsCovered
  <2>2. Spent(p, f) = 1
    BY <1>1 DEF Spent, NeedsWakeup
  <2>3. Len(queue[f]) <= Wakeups
    BY <1>1, <2>1, <2>2 DEF Covered
  <2> QED
    BY <1>1, <2>3 DEF Wakeups
<1> QED
  BY <1>1, <1>2, <1>3, OneSessionIsEnough DEF srvVars

\* A connection that drops or is closed takes no wake-up with it.
LEMMA ConnectionKeepsWakeups ==
  ASSUME WInv, IInv', NEW p \in Pumps, LinkDrops(p) \/ CloseConnection(p)
  PROVE  WInv'
<1>1. /\ UNCHANGED <<queue, nextId, waking, srvVars, permits, missed>>
      /\ pump[p] \in PumpState /\ pump \in [Pumps -> PumpState]
  BY DEF LinkDrops, CloseConnection, WInv, IInv, TypeOK
<1>2. /\ \A q \in Pumps \ {p} : pump'[q] = pump[q]
      /\ pump'[p].open => /\ pump'[p].pos = pump[p].pos
                          /\ pump'[p].stop = pump[p].stop
      /\ pump'[p].stop => pump[p].stop
      /\ pump'[p].pc = pump[p].pc
  <2>1. CASE LinkDrops(p)
    BY <1>1, <2>1 DEF LinkDrops, PumpState
  <2>2. CASE CloseConnection(p)
    <3>1. CASE pump[p].pc = "none"
      BY <1>1, <2>2, <3>1 DEF CloseConnection, Gone
    <3>2. CASE pump[p].pc # "none"
      BY <1>1, <2>2, <3>2 DEF CloseConnection, PumpState
    <3> QED
      BY <3>1, <3>2
  <2> QED
    BY <2>1, <2>2
<1>3. pump'[p].open = pump[p].open
  <2>1. CASE LinkDrops(p)
    BY <1>1, <2>1 DEF LinkDrops, PumpState
  <2>2. CASE CloseConnection(p)
    BY <1>1, <2>2 DEF CloseConnection, PumpState, Gone, WInv, IInv, LeftOnce
  <2> QED
    BY <2>1, <2>2
<1>4. ThreadsHaveSessions'
  BY <1>2, <1>3 DEF WInv, ThreadsHaveSessions
<1>5. ASSUME gen <= 1 PROVE QueuesCovered' /\ StopIsHeard'
  <2>1. ASSUME NEW q \in Pumps, NEW f \in Families, pump'[q].open
        PROVE  Covered(q, f)' = Covered(q, f)
    BY <1>1, <1>2, <2>1
    DEF Covered, Spent, NeedsWakeup, Passed, Wakeups
  <2>2. QueuesCovered'
    <3>1. \A q \in Pumps : pump'[q].open = pump[q].open
      BY <1>2, <1>3
    <3> QED
      BY <1>1, <1>5, <2>1, <3>1 DEF WInv, QueuesCovered, Wakeups
  <2>3. StopIsHeard'
    BY <1>1, <1>2, <1>5 DEF WInv, StopIsHeard
  <2> QED
    BY <2>2, <2>3
<1> QED
  BY <1>1, <1>4, <1>5 DEF WInv, srvVars

\* A step of the thread that takes and gives no wake-up and no command keeps
\* the cover where it has not passed a family it had not passed before, but
\* for one whose queue is empty.
LEMMA ThreadStepKeepsWakeups ==
  ASSUME WInv, IInv', NEW p \in Pumps, pump[p].open,
         UNCHANGED <<gen, permits, waking, missed>>,
         \A q \in Pumps \ {p} : pump'[q] = pump[q],
         pump'[p].open = TRUE, pump'[p].stop = pump[p].stop,
         pump[p].pc # "stopped?",
         pump[p].pc # "none",
         \A f \in Families :
           \/ Len(queue'[f]) <= Len(queue[f])
                /\ (NeedsWakeup(p, f)' => NeedsWakeup(p, f))
           \/ Len(queue'[f]) + 1 = Len(queue[f])
           \/ queue'[f] = <<>>
  PROVE  WInv'
<1> SUFFICES ASSUME gen <= 1
             PROVE  /\ \A f \in Families : Covered(p, f)'
                    /\ /\ pump'[p].stop
                       /\ pump'[p].pc \in {"acquire", "wait", "visit",
                                           "write"}
                       => permits'[1] > 0
  BY OneSessionIsEnough
<1>1. pump[p].stop => permits[1] > 0
  <2>1. pump[p].pc \in {"acquire", "wait", "visit", "write"}
    BY LivePump DEF WInv, PumpState
  <2> QED
    BY <2>1 DEF WInv, StopIsHeard
<1>2. ASSUME NEW f \in Families PROVE Covered(p, f)'
  <2>1. /\ Len(queue[f]) \in Nat /\ Spent(p, f) \in Nat /\ Wakeups \in Nat
        /\ Wakeups' = Wakeups
    BY <1>2, SessionIsCovered DEF Wakeups
  <2>2. Len(queue'[f]) \in Nat /\ Spent(p, f)' \in 0..2
    <3>1. queue'[f] \in Seq(Ids)
      BY DEF IInv, TypeOK
    <3>2. Spent(p, f)' \in 0..2
      BY DEF Spent
    <3> QED
      BY <3>1, <3>2
  <2>3. CASE Len(queue'[f]) <= Len(queue[f])
               /\ (NeedsWakeup(p, f)' => NeedsWakeup(p, f))
    <3>1. Spent(p, f)' <= Spent(p, f)
      BY <2>3 DEF Spent
    <3>2. Len(queue'[f]) + Spent(p, f)' <= Len(queue[f]) + Spent(p, f)
      BY <2>1, <2>2, <2>3, <3>1
    <3>3. (Len(queue'[f]) + Spent(p, f)') + Wakeups
            <= (Len(queue[f]) + Spent(p, f)) + Wakeups'
      BY <2>1, <2>2, <3>2
    <3> QED
      BY <1>2, <3>3, CoverIsKept
  <2>4. CASE Len(queue'[f]) + 1 = Len(queue[f])
    <3>1. Spent(p, f)' <= Spent(p, f) + 1
      BY DEF Spent
    <3>2. Len(queue'[f]) + Spent(p, f)' <= Len(queue[f]) + Spent(p, f)
      BY <2>1, <2>2, <2>4, <3>1
    <3>3. (Len(queue'[f]) + Spent(p, f)') + Wakeups
            <= (Len(queue[f]) + Spent(p, f)) + Wakeups'
      BY <2>1, <2>2, <3>2
    <3> QED
      BY <1>2, <3>3, CoverIsKept
  <2>5. CASE queue'[f] = <<>>
    <3>1. Len(queue'[f]) = 0
      BY <2>5
    <3>2. Spent(p, f)' <= Wakeups + 1
      <4>1. CASE pump[p].stop
        <5>1. Wakeups > 0
          BY <1>1, <4>1, WakeupsAreCounted DEF Wakeups, WInv
        <5> QED
          BY <2>1, <2>2, <5>1
      <4>2. CASE ~pump[p].stop
        <5>1. Spent(p, f)' <= 1
          BY <4>2 DEF Spent
        <5> QED
          BY <2>1, <2>2, <5>1
      <4> QED
        BY <4>1, <4>2
    <3> QED
      BY <2>1, <2>2, <3>1, <3>2 DEF Covered
  <2> QED
    BY <2>3, <2>4, <2>5
<1> QED
  BY <1>1, <1>2

\* Nor does it harm that a thread returns: its session needs no wake-up.
LEMMA ReturnKeepsWakeups ==
  ASSUME WInv, IInv', NEW p \in Pumps, pump[p].open, ThreadReturns(p),
         UNCHANGED <<queue, gen, permits, waking, missed>>
  PROVE  WInv'
<1>1. /\ pump[p] \in PumpState /\ pump \in [Pumps -> PumpState]
  BY DEF WInv, IInv, TypeOK
<1>2. /\ \A q \in Pumps \ {p} : pump'[q] = pump[q]
      /\ pump'[p].open = TRUE /\ pump'[p].pc = "none"
      /\ pump'[p].stop = pump[p].stop
  BY <1>1 DEF ThreadReturns, PumpState
<1>3. ASSUME gen <= 1, NEW f \in Families PROVE Covered(p, f)'
  <2>1. /\ Len(queue[f]) \in Nat /\ Spent(p, f) \in Nat /\ Wakeups \in Nat
        /\ UNCHANGED queue /\ Wakeups' = Wakeups
    BY <1>3, SessionIsCovered DEF Wakeups
  <2>2. Spent(p, f)' \in Nat /\ Spent(p, f)' <= Spent(p, f)
    BY <1>2 DEF Spent, NeedsWakeup
  <2>3. (Len(queue'[f]) + Spent(p, f)') + Wakeups
          <= (Len(queue[f]) + Spent(p, f)) + Wakeups'
    BY <2>1, <2>2
  <2> QED
    BY <1>3, <2>3, CoverIsKept
<1> QED
  BY <1>2, <1>3, OneSessionIsEnough

\* The thread takes a wake-up, and has it to spend on this pass.
LEMMA AcquirePermitKeepsWakeups ==
  ASSUME WInv, IInv', NEW p \in Pumps, AcquirePermit(p) PROVE WInv'
<1>1. /\ pump[p].open /\ pump[p] \in PumpState /\ pump[p].pc = "acquire"
      /\ pump \in [Pumps -> PumpState] /\ permits \in [Servers -> Nat]
      /\ UNCHANGED <<queue, nextId, waking, srvVars, missed, raced, sent>>
  BY DEF AcquirePermit, WInv, ThreadsHaveSessions, IInv, TypeOK
<1>2. /\ \A q \in Pumps \ {p} : pump'[q] = pump[q]
      /\ pump'[p].open = pump[p].open /\ pump'[p].pc = "stopped?"
      /\ pump'[p].stop = pump[p].stop
  BY <1>1 DEF AcquirePermit, PumpState
<1>3. ASSUME gen <= 1, NEW f \in Families PROVE Covered(p, f)'
  <2>1. /\ Len(queue[f]) \in Nat /\ Spent(p, f) \in Nat /\ Wakeups \in Nat
        /\ UNCHANGED queue
    BY <1>1, <1>3, SessionIsCovered
  <2>2. Spent(p, f) = Spent(p, f)' + 1 /\ Spent(p, f)' \in Nat
    BY <1>1, <1>2 DEF Spent, NeedsWakeup
  <2>3. permits[1] > 0 /\ permits'[1] = permits[1] - 1 /\ permits[1] \in Nat
    <3>1. permits[1] \in Nat /\ 1 \in Servers
      BY WakeupsAreCounted DEF WInv
    <3>2. pump[p].srv = 1
      BY <1>1, <1>3, FirstServerExists DEF WInv
    <3> QED
      BY <1>1, <3>1, <3>2 DEF AcquirePermit
  <2>4. Wakeups = Wakeups' + 1 /\ Wakeups' \in Nat
    BY <1>1, <2>3, WakeupsAreCounted DEF Wakeups, WInv
  <2>5. (Len(queue'[f]) + Spent(p, f)') + Wakeups
          <= (Len(queue[f]) + Spent(p, f)) + Wakeups'
    BY <2>1, <2>2, <2>4
  <2> QED
    BY <1>1, <1>3, <2>5, CoverIsKept
<1> QED
  BY <1>1, <1>2, <1>3, OneSessionIsEnough DEF srvVars

\* Looking at the stop event spends nothing.
LEMMA CheckStopKeepsWakeups ==
  ASSUME WInv, IInv', NEW p \in Pumps, CheckStop(p) PROVE WInv'
<1>1. /\ pump[p].open /\ pump[p] \in PumpState /\ pump[p].pc = "stopped?"
      /\ pump \in [Pumps -> PumpState]
      /\ UNCHANGED <<queue, gen, permits, waking, missed>>
  BY DEF CheckStop, WInv, ThreadsHaveSessions, IInv, TypeOK, srvVars
<1>2. CASE pump[p].stop
  BY <1>1, <1>2, ReturnKeepsWakeups DEF CheckStop
<1>3. CASE ~pump[p].stop
  <2>1. /\ \A q \in Pumps \ {p} : pump'[q] = pump[q]
        /\ pump'[p].open = pump[p].open /\ pump'[p].pc = "wait"
        /\ pump'[p].stop = pump[p].stop
    <3>1. pump' = [pump EXCEPT ![p].pc = "wait"]
      BY <1>3 DEF CheckStop
    <3> QED
      BY <1>1, <3>1 DEF PumpState
  <2>2. ASSUME gen <= 1, NEW f \in Families PROVE Covered(p, f)'
    <3>1. /\ Len(queue[f]) \in Nat /\ Spent(p, f) \in Nat /\ Wakeups \in Nat
          /\ UNCHANGED queue /\ Wakeups' = Wakeups
      BY <1>1, <2>2, SessionIsCovered DEF Wakeups
    <3>2. Spent(p, f)' = Spent(p, f)
      BY <1>1, <2>1 DEF Spent, NeedsWakeup
    <3>3. (Len(queue'[f]) + Spent(p, f)') + Wakeups
            <= (Len(queue[f]) + Spent(p, f)) + Wakeups'
      BY <3>1, <3>2
    <3> QED
      BY <1>1, <2>2, <3>3, CoverIsKept
  <2> QED
    BY <1>1, <1>3, <2>1, <2>2, OneSessionIsEnough
<1> QED
  BY <1>2, <1>3

\* The thread's way from the families' first to their last.
LEMMA PassKeepsWakeups ==
  ASSUME WInv, IInv', NEW p \in Pumps,
         \/ WaitReady(p) \/ Visit(p) \/ WriteSucceeds(p) \/ WriteFails(p)
         \/ EndPass(p)
  PROVE  WInv'
<1>1. /\ pump[p].open /\ pump[p] \in PumpState
      /\ pump[p].pc \in {"wait", "visit", "write"}
      /\ pump \in [Pumps -> PumpState] /\ FamilyOrder \in Seq(STRING)
      /\ UNCHANGED <<gen, permits, waking, missed>>
  BY ConstantsAssumption
  DEF WaitReady, Visit, WriteSucceeds, WriteFails, EndPass, WInv,
      ThreadsHaveSessions, IInv, TypeOK, srvVars
<1>2. \A f \in Families : queue[f] \in Seq(Ids) /\ Len(queue[f]) \in Nat
  BY DEF WInv, IInv, TypeOK
<1>3. CASE ThreadReturns(p) /\ UNCHANGED queue
  BY <1>1, <1>3, ReturnKeepsWakeups
<1>4. CASE /\ WaitReady(p) /\ pump[p].ready
           /\ pump' = [pump EXCEPT ![p].pc = "visit", ![p].pos = 1]
  <2>1. /\ \A q \in Pumps \ {p} : pump'[q] = pump[q]
        /\ pump'[p].open = TRUE /\ pump'[p].stop = pump[p].stop
        /\ pump'[p].pc = "visit" /\ pump'[p].pos = 1
    BY <1>1, <1>4 DEF PumpState
  <2>2. ASSUME NEW f \in Families PROVE ~NeedsWakeup(p, f)'
    BY <1>1, <2>1 DEF NeedsWakeup, Passed
  <2>3. UNCHANGED queue
    BY <1>4 DEF WaitReady
  <2>4. \A f \in Families : /\ Len(queue'[f]) <= Len(queue[f])
                            /\ NeedsWakeup(p, f)' => NeedsWakeup(p, f)
    BY <1>2, <2>2, <2>3
  <2> QED
    BY <1>1, <2>1, <2>4, ThreadStepKeepsWakeups
<1>5. CASE Visit(p)
  <2>1. pump[p].pos \in DOMAIN FamilyOrder
    BY <1>1, <1>5 DEF Visit, PumpState, WInv, IInv, PassIsPlaced
  <2>2. CASE queue[Current(p)] = <<>>
    <3>1. /\ \A q \in Pumps \ {p} : pump'[q] = pump[q]
          /\ pump'[p].open = TRUE /\ pump'[p].stop = pump[p].stop
          /\ pump[p].pc = "visit" /\ pump'[p].pc = "visit"
          /\ pump'[p].pos = pump[p].pos + 1 /\ UNCHANGED queue
      <4>1. /\ pump' = [pump EXCEPT ![p].pos = @ + 1] /\ UNCHANGED queue
            /\ pump[p].pc = "visit"
        BY <1>5, <2>2 DEF Visit
      <4> QED
        BY <1>1, <4>1 DEF PumpState
    <3>2. ASSUME NEW f \in Families, f # Current(p), NeedsWakeup(p, f)'
          PROVE  NeedsWakeup(p, f)
      BY <1>1, <2>1, <3>1, <3>2 DEF NeedsWakeup, Passed, Current
    <3>3. \A f \in Families :
            \/ /\ Len(queue'[f]) <= Len(queue[f])
               /\ NeedsWakeup(p, f)' => NeedsWakeup(p, f)
            \/ queue'[f] = <<>>
      BY <1>2, <2>2, <3>1, <3>2
    <3> QED
      BY <1>1, <3>1, <3>3, ThreadStepKeepsWakeups
  <2>3. CASE queue[Current(p)] # <<>>
    <3>1. /\ \A q \in Pumps \ {p} : pump'[q] = pump[q]
          /\ pump'[p].open = TRUE /\ pump'[p].stop = pump[p].stop
          /\ pump[p].pc = "visit" /\ pump'[p].pc = "write"
          /\ pump'[p].pos = pump[p].pos
      BY <1>1, <1>5, <2>3 DEF Visit, PumpState
    <3>2. Current(p) \in Families
      BY <2>1 DEF Current, Families
    <3>3. /\ Len(queue'[Current(p)]) + 1 = Len(queue[Current(p)])
          /\ \A f \in Families \ {Current(p)} : queue'[f] = queue[f]
      <4>1. queue' = [queue EXCEPT ![Current(p)] = Tail(@)]
        BY <1>5, <2>3 DEF Visit
      <4>2. queue'[Current(p)] = Tail(queue[Current(p)])
              /\ \A f \in Families \ {Current(p)} : queue'[f] = queue[f]
        BY <3>2, <4>1 DEF WInv, IInv, TypeOK
      <4> QED
        BY <1>2, <2>3, <3>2, <4>2
    <3>4. ASSUME NEW f \in Families, f # Current(p), NeedsWakeup(p, f)'
          PROVE  NeedsWakeup(p, f)
      BY <1>1, <2>1, <3>1, <3>4 DEF NeedsWakeup, Passed, Current
    <3>5. \A f \in Families :
            \/ /\ Len(queue'[f]) <= Len(queue[f])
               /\ NeedsWakeup(p, f)' => NeedsWakeup(p, f)
            \/ Len(queue'[f]) + 1 = Len(queue[f])
      BY <1>2, <3>3, <3>4
    <3> QED
      BY <1>1, <3>1, <3>5, ThreadStepKeepsWakeups
  <2> QED
    BY <2>2, <2>3
<1>6. CASE WriteSucceeds(p)
  <2>1. pump[p].pos \in DOMAIN FamilyOrder
    BY <1>6 DEF WriteSucceeds, WInv, IInv, PassIsPlaced
  <2>2. /\ \A q \in Pumps \ {p} : pump'[q] = pump[q]
        /\ pump'[p].open = TRUE /\ pump'[p].stop = pump[p].stop
        /\ pump[p].pc = "write" /\ pump'[p].pc = "visit"
        /\ pump'[p].pos = pump[p].pos + 1 /\ UNCHANGED queue
    BY <1>1, <1>6 DEF WriteSucceeds, PumpState
  <2>3. ASSUME NEW f \in Families, NeedsWakeup(p, f)'
        PROVE  NeedsWakeup(p, f)
    BY <1>1, <2>1, <2>2, <2>3 DEF NeedsWakeup, Passed
  <2>4. \A f \in Families : /\ Len(queue'[f]) <= Len(queue[f])
                            /\ NeedsWakeup(p, f)' => NeedsWakeup(p, f)
    BY <1>2, <2>2, <2>3
  <2> QED
    BY <1>1, <2>2, <2>4, ThreadStepKeepsWakeups
<1>7. CASE EndPass(p)
  <2>1. /\ \A q \in Pumps \ {p} : pump'[q] = pump[q]
        /\ pump'[p].open = TRUE /\ pump'[p].stop = pump[p].stop
        /\ pump[p].pc = "visit" /\ pump[p].pos > Len(FamilyOrder)
        /\ UNCHANGED queue
    BY <1>1, <1>7 DEF EndPass, PumpState
  <2>2. ASSUME NEW f \in Families PROVE NeedsWakeup(p, f)
    <3>1. PICK i \in DOMAIN FamilyOrder : FamilyOrder[i] = f
      BY DEF Families
    <3>2. i < pump[p].pos
      BY <1>1, <2>1 DEF PumpState
    <3> QED
      BY <2>1, <3>1, <3>2 DEF NeedsWakeup, Passed
  <2>3. \A f \in Families : /\ Len(queue'[f]) <= Len(queue[f])
                            /\ NeedsWakeup(p, f)' => NeedsWakeup(p, f)
    BY <1>2, <2>1, <2>2
  <2> QED
    BY <1>1, <2>1, <2>3, ThreadStepKeepsWakeups
<1> QED
  BY <1>3, <1>4, <1>5, <1>6, <1>7 DEF WaitReady, WriteFails

\* A step that changes no session but for its connection, and for each
\* command it gives, a wake-up.
LEMMA QuietStepKeepsWakeups ==
  ASSUME WInv, IInv', gen <= 1,
         \A p \in Pumps : /\ pump'[p].open = pump[p].open
                          /\ pump'[p].pc = pump[p].pc
                          /\ pump'[p].pos = pump[p].pos
                          /\ pump'[p].stop = pump[p].stop,
         \A f \in Families : Len(queue'[f]) + Wakeups
                               <= Len(queue[f]) + Wakeups',
         permits[1] > 0 => permits'[1] > 0
  PROVE  WInv'
<1>1. ThreadsHaveSessions'
  BY DEF WInv, ThreadsHaveSessions
<1>2. StopIsHeard'
  BY DEF WInv, StopIsHeard
<1>3. ASSUME NEW f \in Families
      PROVE  Len(queue[f]) \in Nat /\ Len(queue'[f]) \in Nat
               /\ Wakeups \in Nat /\ Wakeups' \in Nat
  <2>1. queue[f] \in Seq(Ids) /\ queue'[f] \in Seq(Ids)
    BY DEF WInv, IInv, TypeOK
  <2>2. Wakeups \in Nat
    BY WakeupsAreCounted DEF WInv
  <2>3. Wakeups' \in Nat
    <3>1. /\ permits' \in [Servers -> Nat] /\ 1 \in Servers
          /\ waking' \in Nat /\ missed' \in Nat
      BY ConstantsAssumption DEF IInv, TypeOK, Servers
    <3> QED
      BY <3>1 DEF Wakeups
  <2> QED
    BY <2>1, <2>2, <2>3
<1>4. ASSUME NEW f \in Families, NEW p \in Pumps, pump[p].open
      PROVE  Covered(p, f)'
  <2>1. Spent(p, f)' = Spent(p, f)
    BY DEF Spent, NeedsWakeup, Passed
  <2>2. Spent(p, f) \in Nat
    BY DEF Spent
  <2>3. (Len(queue'[f]) + Spent(p, f)') + Wakeups
          <= (Len(queue[f]) + Spent(p, f)) + Wakeups'
    BY <1>3, <2>1, <2>2
  <2> QED
    BY <1>4, <2>3, CoverIsKept
<1>5. ASSUME NEW f \in Families, \A p \in Pumps : ~pump[p].open
      PROVE  Len(queue'[f]) <= Wakeups'
  <2>1. Len(queue[f]) <= Wakeups
    BY <1>5 DEF WInv, QueuesCovered
  <2> QED
    BY <1>3, <2>1
<1>6. QueuesCovered'
  BY <1>4, <1>5 DEF QueuesCovered
<1> QED
  BY <1>1, <1>2, <1>6 DEF WInv

\* A queued command has its wake-up coming.
LEMMA PutKeepsWakeups ==
  ASSUME WInv, IInv', gen <= 1, NEW f \in Families, Put(f) PROVE WInv'
<1>1. /\ queue' = [queue EXCEPT ![f] = Append(@, nextId)]
      /\ waking' = waking + 1 /\ nextId \in Ids
      /\ UNCHANGED <<permits, pump, missed>>
  BY ConstantsAssumption DEF Put, WInv, IInv, TypeOK, Ids
<1>2. Wakeups' = Wakeups + 1 /\ Wakeups \in Nat
  BY <1>1, WakeupsAreCounted DEF Wakeups, WInv
<1>3. ASSUME NEW g \in Families
      PROVE  Len(queue'[g]) + Wakeups <= Len(queue[g]) + Wakeups'
  <2>1. queue[g] \in Seq(Ids) /\ queue \in [Families -> Seq(Ids)]
    BY DEF WInv, IInv, TypeOK
  <2>2. Len(queue[g]) \in Nat /\ Len(Append(queue[g], nextId)) = Len(queue[g]) + 1
    BY <1>1, <2>1
  <2>3. \/ queue'[g] = queue[g]
        \/ queue'[g] = Append(queue[g], nextId)
    BY <1>1, <2>1
  <2>4. CASE queue'[g] = queue[g]
    <3>1. Len(queue'[g]) = Len(queue[g])
      BY <2>4
    <3> QED
      BY <1>2, <2>2, <3>1
  <2>5. CASE queue'[g] = Append(queue[g], nextId)
    <3>1. Len(queue'[g]) = Len(queue[g]) + 1
      BY <2>2, <2>5
    <3>2. \A n, w \in Nat : (n + 1) + w <= n + (w + 1)
      OBVIOUS
    <3>3. (Len(queue[g]) + 1) + Wakeups <= Len(queue[g]) + (Wakeups + 1)
      BY <1>2, <2>2, <3>2
    <3> QED
      BY <1>2, <3>1, <3>3, Zenon
  <2> QED
    BY <2>3, <2>4, <2>5
<1> QED
  BY <1>1, <1>3, QuietStepKeepsWakeups

\* The wake-up arrives: at the semaphore, or among those that were missed.
LEMMA WakeKeepsWakeups ==
  ASSUME WInv, IInv', gen <= 1, Wake PROVE WInv'
<1>1. /\ waking > 0 /\ waking' = waking - 1 /\ UNCHANGED <<queue, pump>>
      /\ permits \in [Servers -> Nat]
  BY DEF Wake, WInv, IInv, TypeOK
<1>2. /\ permits[1] \in Nat /\ waking \in Nat /\ missed \in Nat
      /\ Wakeups \in Nat /\ 1 \in Servers
  BY WakeupsAreCounted DEF WInv
<1>3. /\ Wakeups' = Wakeups
      /\ permits[1] > 0 => permits'[1] > 0
  <2>1. CASE running
    <3>1. gen = 1
      BY <2>1 DEF WInv, IInv, TypeOK, RunningIsStarted
    <3>2. permits'[1] = permits[1] + 1 /\ missed' = missed
      BY <1>1, <1>2, <2>1, <3>1 DEF Wake
    <3> QED
      BY <1>1, <1>2, <3>2 DEF Wakeups
  <2>2. CASE ~running
    <3>1. permits' = permits /\ missed' = missed + 1
      BY <2>2 DEF Wake
    <3> QED
      BY <1>1, <1>2, <3>1 DEF Wakeups
  <2> QED
    BY <2>1, <2>2
<1>4. ASSUME NEW f \in Families
      PROVE  Len(queue'[f]) + Wakeups <= Len(queue[f]) + Wakeups'
  <2>1. Len(queue[f]) \in Nat
    BY LengthsAreNumbers DEF WInv
  <2> QED
    BY <1>1, <1>2, <1>3, <2>1
<1> QED
  BY <1>1, <1>3, <1>4, QuietStepKeepsWakeups

\* Starting and stopping the only server moves no wake-up.
LEMMA ServerKeepsWakeups ==
  ASSUME WInv, IInv', gen <= 1, StartServer \/ StopServer PROVE WInv'
<1>1. UNCHANGED <<queue, waking, permits, missed>>
  BY DEF StartServer, StopServer
<1>2. \A p \in Pumps : /\ pump'[p].open = pump[p].open
                       /\ pump'[p].pc = pump[p].pc
                       /\ pump'[p].pos = pump[p].pos
                       /\ pump'[p].stop = pump[p].stop
  <2>1. CASE StartServer
    BY <2>1 DEF StartServer
  <2>2. CASE StopServer
    <3>1. \A p \in Pumps : pump[p] \in PumpState
      BY DEF WInv, IInv, TypeOK
    <3> QED
      BY <2>2, <3>1 DEF StopServer, PumpState
  <2> QED
    BY <2>1, <2>2
<1>3. ASSUME NEW f \in Families
      PROVE  Len(queue'[f]) + Wakeups <= Len(queue[f]) + Wakeups'
  <2>1. Len(queue[f]) \in Nat /\ Wakeups \in Nat /\ Wakeups' = Wakeups
    BY <1>1, LengthsAreNumbers, WakeupsAreCounted DEF WInv, Wakeups
  <2> QED
    BY <1>1, <2>1
<1> QED
  BY <1>1, <1>2, <1>3, QuietStepKeepsWakeups

\* The next session starts from what the last one left.
LEMMA OpenSessionKeepsWakeups ==
  ASSUME WInv, IInv', gen <= 1, NEW p \in Pumps, OpenSession(p) PROVE WInv'
<1>0. PICK g \in 1..gen :
        /\ \A q \in Pumps : ~(pump[q].open /\ pump[q].srv = g)
        /\ pump' = [pump EXCEPT ![p] = [Gone EXCEPT !.open = TRUE, !.srv = g,
                                           !.pc = "acquire", !.link = TRUE]]
        /\ UNCHANGED <<queue, nextId, waking, srvVars, permits, missed>>
  BY DEF OpenSession
<1>1. /\ UNCHANGED <<queue, waking, gen, permits, missed>>
      /\ \A q \in Pumps \ {p} : pump'[q] = pump[q]
      /\ pump'[p].open = TRUE /\ pump'[p].pc = "acquire"
      /\ pump'[p].stop = FALSE
  BY <1>0 DEF WInv, IInv, TypeOK, Gone, srvVars
<1>2. \A q \in Pumps : ~pump[q].open
  <2>1. ASSUME NEW q \in Pumps, pump[q].open PROVE FALSE
    <3>1. pump[q].srv = 1 /\ gen = 1
      BY <2>1, FirstServerExists DEF WInv
    <3>2. g = 1
      BY <3>1
    <3> QED
      BY <1>0, <2>1, <3>1, <3>2
  <2> QED
    BY <2>1
<1>3. ThreadsHaveSessions'
  BY <1>1 DEF WInv, ThreadsHaveSessions
<1>4. ASSUME NEW f \in Families PROVE Covered(p, f)'
  <2>1. Len(queue[f]) \in Nat /\ Wakeups \in Nat /\ Len(queue[f]) <= Wakeups
    BY <1>2, LengthsAreNumbers, WakeupsAreCounted DEF WInv, QueuesCovered
  <2>2. Spent(p, f)' = 1 /\ Wakeups' = Wakeups
    BY <1>1 DEF Spent, NeedsWakeup, Wakeups
  <2> QED
    BY <1>1, <2>1, <2>2 DEF Covered
<1>5. QueuesCovered'
  BY <1>1, <1>2, <1>4 DEF QueuesCovered
<1>6. StopIsHeard'
  <2>1. \A q \in Pumps : pump'[q].stop
                           /\ pump'[q].pc \in {"acquire", "wait", "visit",
                                               "write"}
                         => FALSE
    BY <1>1, <1>2 DEF WInv, ThreadsHaveSessions
  <2> QED
    BY <2>1 DEF StopIsHeard
<1> QED
  BY <1>3, <1>5, <1>6 DEF WInv

\* Threads have sessions, whichever server is the newest.
LEMMA NextKeepsSessions ==
  ASSUME WInv, JoinMayTimeOut = FALSE, [Next]_vars PROVE ThreadsHaveSessions'
<1>1. ASSUME \A p \in Pumps : /\ pump'[p].open = pump[p].open
                              /\ \/ pump'[p].pc = pump[p].pc
                                 \/ pump'[p].pc = "none"
                                 \/ pump[p].pc # "none"
      PROVE  ThreadsHaveSessions'
  BY <1>1 DEF WInv, ThreadsHaveSessions
<1>2. \A p \in Pumps : pump[p] \in PumpState
  BY DEF WInv, IInv, TypeOK
<1>3. CASE UNCHANGED pump
  BY <1>1, <1>3
<1>4. CASE StopServer
  BY <1>1, <1>2, <1>4 DEF StopServer, PumpState
<1>5. ASSUME NEW p \in Pumps, NEW n, pump' = [pump EXCEPT ![p] = n],
             n.open \/ n.pc = "none"
      PROVE  ThreadsHaveSessions'
  <2>1. /\ pump'[p] = n
        /\ \A q \in Pumps \ {p} : pump'[q] = pump[q]
    BY <1>5 DEF WInv, IInv, TypeOK
  <2> QED
    BY <1>5, <2>1 DEF WInv, ThreadsHaveSessions
<1>6. ASSUME NEW p \in Pumps, OpenSession(p)
      PROVE  ThreadsHaveSessions'
  BY <1>5, <1>6 DEF OpenSession, Gone
<1>7. ASSUME NEW p \in Pumps, EndSession(p) \/ CloseConnection(p)
      PROVE  ThreadsHaveSessions'
  <2>1. pump[p].pc = "none" \/ ~pump[p].open
    BY <1>7 DEF EndSession, CloseConnection, WInv, IInv, LeftOnce
  <2>2. pump[p].pc = "none"
    BY <2>1 DEF WInv, ThreadsHaveSessions
  <2>3. /\ pump'[p].pc = "none"
        /\ \A q \in Pumps \ {p} : pump'[q] = pump[q]
    BY <1>2, <1>7, <2>2 DEF EndSession, CloseConnection, Gone, PumpState,
                            WInv, IInv, TypeOK
  <2> QED
    BY <2>3 DEF WInv, ThreadsHaveSessions
<1>8. ASSUME NEW p \in Pumps, Heartbeat(p) \/ LinkDrops(p) \/ CloseSession(p)
      PROVE  ThreadsHaveSessions'
  <2>1. pump \in [Pumps -> PumpState]
    BY DEF WInv, IInv, TypeOK
  <2>2. \A q \in Pumps : /\ pump'[q].open = pump[q].open
                          /\ pump'[q].pc = pump[q].pc
    <3>1. CASE Heartbeat(p)
      BY <2>1, <3>1 DEF Heartbeat, PumpState
    <3>2. CASE LinkDrops(p)
      BY <2>1, <3>2 DEF LinkDrops, PumpState
    <3>3. CASE CloseSession(p)
      BY <2>1, <3>3 DEF CloseSession, PumpState
    <3> QED
      BY <1>8, <3>1, <3>2, <3>3
  <2> QED
    BY <1>1, <2>2
<1>9. ASSUME NEW p \in Pumps, ThreadReturns(p)
      PROVE  ThreadsHaveSessions'
  <2>1. pump \in [Pumps -> PumpState]
    BY DEF WInv, IInv, TypeOK
  <2>2. /\ pump'[p].pc = "none"
        /\ \A q \in Pumps \ {p} : pump'[q] = pump[q]
    BY <1>9, <2>1 DEF ThreadReturns, Gone, PumpState
  <2> QED
    BY <2>2 DEF WInv, ThreadsHaveSessions
<1>10. ASSUME NEW p \in Pumps, PumpStep(p), ~ThreadReturns(p)
       PROVE  ThreadsHaveSessions'
  <2>1. pump \in [Pumps -> PumpState]
    BY DEF WInv, IInv, TypeOK
  <2>2. /\ pump[p].pc # "none" /\ pump'[p].open = pump[p].open
        /\ \A q \in Pumps \ {p} : pump'[q] = pump[q]
    <3>1. CASE AcquirePermit(p) \/ CheckStop(p) \/ WaitReady(p)
      BY <1>10, <2>1, <3>1
      DEF AcquirePermit, CheckStop, WaitReady, PumpState
    <3>2. CASE Visit(p)
      BY <2>1, <3>2 DEF Visit, PumpState
    <3>3. CASE WriteSucceeds(p) \/ WriteFails(p) \/ EndPass(p)
      BY <1>10, <2>1, <3>3
      DEF WriteSucceeds, WriteFails, EndPass, PumpState
    <3> QED
      BY <1>10, <3>1, <3>2, <3>3 DEF PumpStep
  <2>3. \A q \in Pumps : /\ pump'[q].open = pump[q].open
                          /\ (pump'[q].pc = pump[q].pc \/ pump[q].pc # "none")
    BY <2>2
  <2> QED
    BY <1>1, <2>3
<1> QED
  BY <1>3, <1>4, <1>6, <1>7, <1>8, <1>9, <1>10
  DEF Next, Put, Wake, StartServer, vars

\* A step starts one server at most.
LEMMA ServersAreCounted ==
  ASSUME IInv, [Next]_vars, gen' <= 1 PROVE gen <= 1
<1>1. gen' = gen \/ gen' = gen + 1
  <2>1. CASE StartServer
    BY <2>1 DEF StartServer
  <2>2. ASSUME NEW p \in Pumps, PumpStep(p) PROVE UNCHANGED gen
    BY <2>2 DEF PumpStep, AcquirePermit, CheckStop, WaitReady, Visit,
                WriteSucceeds, WriteFails, EndPass, srvVars
  <2>3. ASSUME NEW p \in Pumps,
               \/ OpenSession(p) \/ Heartbeat(p) \/ LinkDrops(p)
               \/ CloseSession(p) \/ EndSession(p) \/ CloseConnection(p)
        PROVE  UNCHANGED gen
    BY <2>3 DEF OpenSession, Heartbeat, LinkDrops, CloseSession, EndSession,
                CloseConnection, srvVars
  <2> QED
    BY <2>1, <2>2, <2>3
    DEF Next, Put, Wake, StopServer, vars, srvVars
<1>2. gen \in Nat
  BY ConstantsAssumption DEF IInv, TypeOK
<1> QED
  BY <1>1, <1>2

\* Every step keeps the wake-ups covered, as long as joins do not time out.
LEMMA NextKeepsWakeups ==
  ASSUME WInv, JoinMayTimeOut = FALSE, [Next]_vars PROVE WInv'
<1>0. IInv' /\ ThreadsHaveSessions'
  BY NextPreservesIInv, NextKeepsSessions DEF WInv
<1> SUFFICES ASSUME gen' <= 1 PROVE WInv'
  BY <1>0 DEF WInv
<1>1. gen <= 1
  BY ServersAreCounted DEF WInv
<1>2. CASE \E f \in Families : Put(f)
  BY <1>0, <1>1, <1>2, PutKeepsWakeups
<1>3. CASE Wake \/ StartServer \/ StopServer
  BY <1>0, <1>1, <1>3, WakeKeepsWakeups, ServerKeepsWakeups
<1>4. ASSUME NEW p \in Pumps,
             \/ OpenSession(p) \/ Heartbeat(p) \/ LinkDrops(p)
             \/ CloseSession(p) \/ EndSession(p) \/ CloseConnection(p)
      PROVE  WInv'
  BY <1>0, <1>1, <1>4, OpenSessionKeepsWakeups, SessionKeepsWakeups,
     EndSessionKeepsWakeups, ConnectionKeepsWakeups
<1>5. ASSUME NEW p \in Pumps, PumpStep(p) PROVE WInv'
  BY <1>0, <1>5, AcquirePermitKeepsWakeups, CheckStopKeepsWakeups,
     PassKeepsWakeups DEF PumpStep
<1>6. CASE UNCHANGED vars
  BY <1>0, <1>6
  DEF vars, srvVars, WInv, QueuesCovered, StopIsHeard, Covered, Wakeups,
      Spent, NeedsWakeup, Passed
<1> QED
  BY <1>2, <1>3, <1>4, <1>5, <1>6 DEF Next

\* At first there is nothing to wake anyone for.
LEMMA InitHasNoWakeups == ASSUME Init PROVE WInv
<1>1. IInv
  BY InitEstablishesIInv
<1>2. ThreadsHaveSessions /\ StopIsHeard
  BY DEF Init, ThreadsHaveSessions, StopIsHeard, Gone
<1>3. QueuesCovered
  <2>1. Wakeups \in Nat
    BY <1>1, WakeupsAreCounted
  <2> QED
    BY <2>1 DEF Init, QueuesCovered, Gone
<1> QED
  BY <1>1, <1>2, <1>3 DEF WInv

\* No outgoing thread of the first server sleeps while a queue holds more
\* commands than there are wake-ups on their way to it, if every session
\* waits for its thread, that is, if no write outlasts the second that
\* outgoing_thread.join allows it.
THEOREM WakeupsSuffice ==
  ASSUME JoinMayTimeOut = FALSE
  PROVE  Spec => []NoLostWakeup
<1>1. Init => WInv
  BY InitHasNoWakeups
<1>2. WInv /\ [Next]_vars => WInv'
  BY NextKeepsWakeups
<1>3. WInv => NoLostWakeup
  <2> SUFFICES ASSUME WInv, NEW p \in Pumps, NEW f \in Families,
                      gen = 1, pump[p].pc = "acquire", ~pump[p].stop
               PROVE  Len(queue[f]) <= permits[1] + waking + missed
    BY DEF NoLostWakeup
  <2>1. pump[p].open /\ gen <= 1
    BY DEF WInv, ThreadsHaveSessions
  <2>2. /\ Covered(p, f) /\ Len(queue[f]) \in Nat /\ Wakeups \in Nat
    BY <2>1, SessionIsCovered
  <2>3. Spent(p, f) = 1
    BY DEF Spent, NeedsWakeup
  <2> QED
    BY <2>2, <2>3 DEF Covered, Wakeups
<1> QED
  BY <1>1, <1>2, <1>3, PTL DEF Spec

-----------------------------------------------------------------------------

\* Before any restart the one session with a thread is alone.
LEMMA NoneIsRaced ==
  ASSUME WInv, JoinMayTimeOut = FALSE, [Next]_vars, gen <= 1 => raced = {}
  PROVE  (gen <= 1 => raced = {})'
<1> SUFFICES ASSUME gen' <= 1 PROVE raced' = {}
  OBVIOUS
<1>1. gen <= 1 /\ raced = {}
  BY ServersAreCounted DEF WInv
<1>2. ASSUME NEW p \in Pumps, Visit(p) PROVE raced' = {}
  <2>1. pump[p].open
    BY <1>2 DEF Visit, WInv, ThreadsHaveSessions
  <2>2. ASSUME NEW q \in Pumps, Beside(p, q), pump[q].pc = "write"
        PROVE  FALSE
    <3>1. pump[q].open
      BY <2>2 DEF WInv, ThreadsHaveSessions
    <3>2. p = q
      BY <1>1, <2>1, <3>1, SessionIsAlone DEF WInv
    <3> QED
      BY <2>2, <3>2 DEF Beside
  <2>3. Held(p) = {}
    BY <2>2 DEF Held
  <2> QED
    BY <1>1, <1>2, <2>3 DEF Visit
<1>3. ASSUME NEW p \in Pumps, PumpStep(p), ~Visit(p) PROVE UNCHANGED raced
  BY <1>3 DEF PumpStep, AcquirePermit, CheckStop, WaitReady, WriteSucceeds,
              WriteFails, EndPass
<1>4. ASSUME NEW p \in Pumps,
             \/ OpenSession(p) \/ Heartbeat(p) \/ LinkDrops(p)
             \/ CloseSession(p) \/ EndSession(p) \/ CloseConnection(p)
      PROVE  UNCHANGED raced
  BY <1>4 DEF OpenSession, Heartbeat, LinkDrops, CloseSession, EndSession,
              CloseConnection
<1> QED
  BY <1>1, <1>2, <1>3, <1>4 DEF Next, Put, Wake, StartServer, StopServer, vars

\* Until the service is restarted, and if every session waits for its
\* thread, there is no exception: what phones receive of a family is in the
\* order in which it was given.
THEOREM OneServerKeepsOrder ==
  ASSUME JoinMayTimeOut = FALSE
  PROVE  Spec => [](gen <= 1 => \A f \in Families : IsIncreasing(sent[f]))
<1> DEFINE Alone == WInv /\ (gen <= 1 => raced = {})
<1>1. Init => Alone
  BY InitHasNoWakeups DEF Init
<1>2. Alone /\ [Next]_vars => Alone'
  BY NextKeepsWakeups, NoneIsRaced
<1>3. Alone => (gen <= 1 => \A f \in Families : IsIncreasing(sent[f]))
  BY DEF WInv, IInv, LaneInOrder, InOrder, IsIncreasing
<1> HIDE DEF Alone
<1> QED
  BY <1>1, <1>2, <1>3, PTL DEF Spec

=============================================================================
