---------------------------- MODULE OutgoingPump ----------------------------
(***************************************************************************)
(* The way of a command from the desktop's user to the phone: the queues   *)
(* of DesktopRuntime, one per family of commands; the semaphore that       *)
(* counts wake-ups; and the outgoing thread of each session, which takes   *)
(* one wake-up, visits the families in a fixed order, takes at most one    *)
(* command of each and writes it (pairing_server.py,                       *)
(* _pump_outgoing_commands).                                               *)
(*                                                                         *)
(* The queues belong to the runtime and outlive sessions and servers; the  *)
(* semaphore belongs to the PairingServer and is new with each.  That one  *)
(* server has one session at a time is DesktopSession's theorem Exclusion. *)
(***************************************************************************)
EXTENDS Naturals, Sequences

CONSTANTS
  FamilyOrder,       \* the families, in the order a pass visits them
  FileFamily,        \* the one whose send can fail for reasons of its own
  FileMayVanish,     \* the user may delete a queued file before it is sent
  JoinMayTimeOut,    \* a write may outlast the 1 s a closing session waits
  Pumps,             \* sessions, each with its outgoing thread
  MaxCommands,       \* bound: commands the user gives
  MaxSpare,          \* bound: wake-ups left over when a session opens
  MaxServers         \* bound: PairingServer objects

Families == {FamilyOrder[i] : i \in DOMAIN FamilyOrder}
Ids      == 1..MaxCommands
Servers  == 1..MaxServers

ASSUME ConstantsAssumption ==
  /\ FamilyOrder \in Seq(STRING)
  /\ FileMayVanish \in BOOLEAN
  /\ JoinMayTimeOut \in BOOLEAN
  /\ MaxCommands \in Nat
  /\ MaxSpare \in Nat
  /\ MaxServers \in Nat \ {0}

VARIABLES
  queue,     \* per family, the commands waiting, by number
  nextId,    \* the number of the next command
  waking,    \* threads between queue.put and wake_outgoing
  gen,       \* number of the newest server
  running,   \* pairing_server is not None
  permits,   \* per server, the value of its semaphore
  pump,      \* per session, the state below
  missed,    \* history: commands whose wake_outgoing found no server
  raced,     \* history: commands a thread held while another took a later one
  sent       \* history: per family, the commands phones received

srvVars == <<gen, running>>
vars    == <<queue, nextId, waking, gen, running, permits, pump, missed, raced,
             sent>>

PumpState ==
  [open  : BOOLEAN,             \* the session's own thread is still in it
   unclosed : BOOLEAN,          \* it has left it, its connection not closed
   srv   : 0..MaxServers,       \* its server
   pc    : {"none", "acquire", "stopped?", "wait", "visit", "write"},
   pos   : 0..(Len(FamilyOrder) + 1),   \* the family the pass has come to
   taken : 0..MaxCommands,      \* popped and not yet written, or 0
   stop  : BOOLEAN,             \* stop_outgoing
   ready : BOOLEAN,             \* transport_ready: a heartbeat has come
   link  : BOOLEAN]             \* the connection carries data

Gone == [open |-> FALSE, unclosed |-> FALSE, srv |-> 0, pc |-> "none",
         pos |-> 0, taken |-> 0, stop |-> FALSE, ready |-> FALSE,
         link |-> FALSE]

TypeOK ==
  /\ queue \in [Families -> Seq(Ids)]
  /\ nextId \in 1..(MaxCommands + 1)
  /\ waking \in 0..MaxCommands
  /\ gen \in 0..MaxServers
  /\ running \in BOOLEAN
  /\ permits \in [Servers -> Nat]
  /\ pump \in [Pumps -> PumpState]
  /\ missed \in 0..MaxCommands
  /\ raced \subseteq Ids
  /\ sent \in [Families -> Seq(Ids)]

Init ==
  /\ queue = [f \in Families |-> <<>>]
  /\ nextId = 1
  /\ waking = 0
  /\ gen = 0
  /\ running = FALSE
  /\ permits = [g \in Servers |-> 0]
  /\ pump = [p \in Pumps |-> Gone]
  /\ missed = 0
  /\ raced = {}
  /\ sent = [f \in Families |-> <<>>]

\* The family that p's pass has come to.
Current(p) == FamilyOrder[pump[p].pos]

\* p's outgoing thread returns; what p held goes with the last of its threads.
ThreadReturns(p) ==
  pump' = [pump EXCEPT ![p] =
             IF @.open \/ @.unclosed
             THEN [@ EXCEPT !.pc = "none", !.pos = 0, !.taken = 0]
             ELSE Gone]

-----------------------------------------------------------------------------
(* Giving a command: _enqueue_outgoing, from any thread of the desktop.    *)

\* queue.put(request)
Put(f) ==
  /\ nextId <= MaxCommands
  /\ queue' = [queue EXCEPT ![f] = Append(@, nextId)]
  /\ nextId' = nextId + 1
  /\ waking' = waking + 1
  /\ UNCHANGED <<srvVars, permits, pump, missed, raced, sent>>

\* server.wake_outgoing(), if there is a server
Wake ==
  /\ waking > 0
  /\ waking' = waking - 1
  /\ IF running
     THEN permits' = [permits EXCEPT ![gen] = @ + 1] /\ UNCHANGED missed
     ELSE missed' = missed + 1 /\ UNCHANGED permits
  /\ UNCHANGED <<queue, nextId, srvVars, pump, raced, sent>>

-----------------------------------------------------------------------------
(* The service and its sessions.                                           *)

StartServer ==
  /\ ~running /\ gen < MaxServers
  /\ gen' = gen + 1
  /\ running' = TRUE
  /\ UNCHANGED <<queue, nextId, waking, permits, pump, missed, raced, sent>>

\* PairingServer.stop shuts the connections that are registered, those of
\* sessions among them; the sessions' threads go on.
StopServer ==
  /\ running
  /\ running' = FALSE
  /\ pump' = [p \in Pumps |->
                [pump[p] EXCEPT !.link = @ /\ pump[p].srv # gen]]
  /\ UNCHANGED <<queue, nextId, waking, gen, permits, missed, raced, sent>>

\* A session starts its outgoing thread.  Its server may have been stopped
\* since: a connection that was accepted and not yet registered is not shut.
OpenSession(p) ==
  \E g \in 1..gen :
    /\ \A q \in Pumps : ~(pump[q].open /\ pump[q].srv = g)
    /\ pump[p] = Gone
    /\ permits[g] <= MaxSpare
    /\ pump' = [pump EXCEPT ![p] =
                  [Gone EXCEPT !.open = TRUE, !.srv = g, !.pc = "acquire",
                               !.link = TRUE]]
    /\ UNCHANGED <<queue, nextId, waking, srvVars, permits, missed, raced,
                   sent>>

\* The first HEARTBEAT of the phone.
Heartbeat(p) ==
  /\ pump[p].open /\ ~pump[p].stop /\ pump[p].link /\ ~pump[p].ready
  /\ pump' = [pump EXCEPT ![p].ready = TRUE]
  /\ permits' = [permits EXCEPT ![pump[p].srv] = @ + 1]
  /\ UNCHANGED <<queue, nextId, waking, srvVars, missed, raced, sent>>

LinkDrops(p) ==
  /\ pump[p].link
  /\ pump' = [pump EXCEPT ![p].link = FALSE]
  /\ UNCHANGED <<queue, nextId, waking, srvVars, permits, missed, raced, sent>>

\* Faulty variant: the outgoing thread is told to stop and not woken.
CloseWithoutWake(p) ==
  /\ pump[p].open /\ ~pump[p].stop
  /\ pump' = [pump EXCEPT ![p].stop = TRUE]
  /\ UNCHANGED <<queue, nextId, waking, srvVars, permits, missed, raced, sent>>

\* The serving loop ends, for a lost link or a disconnect request; finally:
\* stop_outgoing.set(), outgoing_wakeup.release().
CloseSession(p) ==
  /\ pump[p].open /\ ~pump[p].stop
  /\ pump' = [pump EXCEPT ![p].stop = TRUE]
  /\ permits' = [permits EXCEPT ![pump[p].srv] = @ + 1]
  /\ UNCHANGED <<queue, nextId, waking, srvVars, missed, raced, sent>>

\* outgoing_thread.join(timeout=1.0) returns, with the thread or without,
\* and the session gives its token back.
EndSession(p) ==
  /\ pump[p].open /\ pump[p].stop
  /\ pump[p].pc = "none" \/ JoinMayTimeOut
  /\ pump' = [pump EXCEPT ![p].open = FALSE, ![p].unclosed = TRUE]
  /\ UNCHANGED <<queue, nextId, waking, srvVars, permits, missed, raced, sent>>

\* Faulty variant: the connection stays open for the lingering thread.
KeepConnection(p) ==
  /\ pump[p].unclosed
  /\ pump' = [pump EXCEPT ![p] =
                IF @.pc = "none" THEN Gone ELSE [@ EXCEPT !.unclosed = FALSE]]
  /\ UNCHANGED <<queue, nextId, waking, srvVars, permits, missed, raced, sent>>

\* finally: connection.close()
CloseConnection(p) ==
  /\ pump[p].unclosed
  /\ pump' = [pump EXCEPT ![p] =
                IF @.pc = "none" THEN Gone
                ELSE [@ EXCEPT !.unclosed = FALSE, !.link = FALSE]]
  /\ UNCHANGED <<queue, nextId, waking, srvVars, permits, missed, raced, sent>>

-----------------------------------------------------------------------------
(* The outgoing thread.                                                    *)

\* self.outgoing_wakeup.acquire()
AcquirePermit(p) ==
  /\ pump[p].pc = "acquire"
  /\ permits[pump[p].srv] > 0
  /\ permits' = [permits EXCEPT ![pump[p].srv] = @ - 1]
  /\ pump' = [pump EXCEPT ![p].pc = "stopped?"]
  /\ UNCHANGED <<queue, nextId, waking, srvVars, missed, raced, sent>>

\* if stop_event.is_set(): return
CheckStop(p) ==
  /\ pump[p].pc = "stopped?"
  /\ IF pump[p].stop THEN ThreadReturns(p)
                     ELSE pump' = [pump EXCEPT ![p].pc = "wait"]
  /\ UNCHANGED <<queue, nextId, waking, srvVars, permits, missed, raced, sent>>

\* Faulty variant: waits once, and goes back for another wake-up.
WaitReadyOnce(p) ==
  /\ pump[p].pc = "wait"
  /\ pump' = [pump EXCEPT ![p] =
                IF @.ready THEN [@ EXCEPT !.pc = "visit", !.pos = 1]
                           ELSE [@ EXCEPT !.pc = "acquire"]]
  /\ UNCHANGED <<queue, nextId, waking, srvVars, permits, missed, raced, sent>>

\* while not transport_ready.wait(timeout=0.25): if stopped, return
WaitReady(p) ==
  /\ pump[p].pc = "wait"
  /\ \/ /\ pump[p].ready
        /\ pump' = [pump EXCEPT ![p].pc = "visit", ![p].pos = 1]
     \/ ~pump[p].ready /\ pump[p].stop /\ ThreadReturns(p)
  /\ UNCHANGED <<queue, nextId, waking, srvVars, permits, missed, raced, sent>>

\* Sessions p and q both have their connections, and may: they belong to
\* two servers, or one of them has given its token back.
Beside(p, q) ==
  /\ p # q
  /\ pump[p].open \/ pump[p].unclosed
  /\ pump[q].open \/ pump[q].unclosed
  /\ pump[p].srv # pump[q].srv \/ pump[p].unclosed \/ pump[q].unclosed

\* The commands that are held while p takes the next of their family.
Held(p) ==
  {pump[q].taken : q \in {q \in Pumps : /\ Beside(p, q)
                                       /\ pump[q].pc = "write"
                                       /\ Current(q) = Current(p)}}

\* The next family of the pass: get_nowait() takes one command, if any.
Visit(p) ==
  /\ pump[p].pc = "visit" /\ pump[p].pos <= Len(FamilyOrder)
  /\ LET f == Current(p) IN
     IF queue[f] = <<>>
     THEN pump' = [pump EXCEPT ![p].pos = @ + 1] /\ UNCHANGED <<queue, raced>>
     ELSE /\ queue' = [queue EXCEPT ![f] = Tail(@)]
          /\ pump' = [pump EXCEPT ![p].taken = Head(queue[f]),
                                  ![p].pc = "write"]
          /\ raced' = raced \cup Held(p)
  /\ UNCHANGED <<nextId, waking, srvVars, permits, missed, sent>>

\* The write succeeds: on to the next family.  A write to a dead connection
\* may succeed too, into the kernel's buffer.
WriteSucceeds(p) ==
  /\ pump[p].pc = "write"
  /\ sent' = IF pump[p].link
             THEN [sent EXCEPT ![Current(p)] = Append(@, pump[p].taken)]
             ELSE sent
  /\ pump' = [pump EXCEPT ![p].pc = "visit", ![p].pos = @ + 1, ![p].taken = 0]
  /\ UNCHANGED <<queue, nextId, waking, srvVars, permits, missed, raced>>

\* Any exception: notify and return.  The command is gone, and so is the
\* thread.
WriteFails(p) ==
  /\ pump[p].pc = "write"
  /\ ~pump[p].link \/ (FileMayVanish /\ Current(p) = FileFamily)
  /\ ThreadReturns(p)
  /\ UNCHANGED <<queue, nextId, waking, srvVars, permits, missed, raced, sent>>

\* All families visited: back to the semaphore.
EndPass(p) ==
  /\ pump[p].pc = "visit" /\ pump[p].pos > Len(FamilyOrder)
  /\ pump' = [pump EXCEPT ![p].pc = "acquire", ![p].pos = 0]
  /\ UNCHANGED <<queue, nextId, waking, srvVars, permits, missed, raced, sent>>

PumpStep(p) ==
  \/ AcquirePermit(p) \/ CheckStop(p) \/ WaitReady(p)
  \/ Visit(p) \/ WriteSucceeds(p) \/ WriteFails(p) \/ EndPass(p)

Next ==
  \/ \E f \in Families : Put(f)
  \/ Wake
  \/ StartServer \/ StopServer
  \/ \E p \in Pumps : \/ OpenSession(p) \/ Heartbeat(p) \/ LinkDrops(p)
                      \/ CloseSession(p) \/ EndSession(p) \/ CloseConnection(p)
                      \/ PumpStep(p)

Spec == Init /\ [][Next]_vars

\* The desktop's threads run, and a phone that is connected sends its first
\* heartbeat.  Commands, restarts and the network are not obliged to happen.
FairSpec ==
  /\ Spec
  /\ WF_vars(Wake)
  /\ \A p \in Pumps :
       /\ WF_vars(PumpStep(p))
       /\ WF_vars(Heartbeat(p))
       /\ WF_vars(~pump[p].link /\ CloseSession(p))
       /\ WF_vars(EndSession(p))
       /\ WF_vars(CloseConnection(p))

-----------------------------------------------------------------------------

\* s[j] after a later command only if it was raced for, and none twice.
InOrder(s) ==
  \A i, j \in DOMAIN s :
    i < j => s[i] # s[j] /\ (s[i] < s[j] \/ s[j] \in raced)

\* Commands of one family reach phones in the order they were given, and
\* none twice, across sessions, lingering threads and restarts.  A command
\* is overtaken only if, while a thread held it, another took a later one,
\* and only between sessions whose connections are there together: one that
\* outlived its server and one of the next, or one that has given its token
\* back, has not closed its connection yet, and left a thread writing.
SentInOrder == \A f \in Families : InOrder(sent[f])

\* No wake-up is lost: while the outgoing thread of a session of the first
\* server sleeps on the semaphore, every queue is covered by wake-ups that
\* are there or on their way.  Commands given while no server ran are the
\* exception: nobody was woken for them.
NoLostWakeup ==
  \A p \in Pumps, f \in Families :
    gen = 1 /\ running /\ pump[p].pc = "acquire" /\ ~pump[p].stop
      => Len(queue[f]) <= permits[1] + waking + missed

Waiting(f, c) == \E i \in DOMAIN queue[f] : queue[f][i] = c

Serving(p) == /\ gen = 1 /\ running
              /\ pump[p].open /\ pump[p].link /\ ~pump[p].stop

\* A command that waits while a session of the first server is connected
\* leaves its queue, unless that session ends first.  Commands given while
\* no server ran are again excepted.
CommandIsTaken ==
  \A p \in Pumps, f \in Families, c \in Ids :
    Serving(p) /\ Waiting(f, c) /\ missed = 0
      ~> ~Serving(p) \/ ~Waiting(f, c)

\* The outgoing thread of a closed session returns; a sleeping one is not
\* left behind on the semaphore.
StoppedPumpEnds == \A p \in Pumps : pump[p].stop ~> pump[p].pc = "none"

=============================================================================
