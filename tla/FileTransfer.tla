---------------------------- MODULE FileTransfer ----------------------------
(***************************************************************************)
(* The transfer of files over one session after another: threads that read *)
(* files and write offers, chunks and completions to the channel, and the  *)
(* receiver at its other end, which collects a part file and gives it its  *)
(* name once size and digest agree.  Both directions: to the desktop       *)
(* (PhoneFileSender.kt, file_receiver.py) and to the phone                 *)
(* (file_sender.py, FileTransferReceiver.kt).                              *)
(*                                                                         *)
(* A chunk is one unit of a file; a digest is the content itself.  Size and*)
(* digest are taken in one step.  Cleaning of names, media folders and the *)
(* results' texts are left out.                                            *)
(***************************************************************************)
EXTENDS Naturals, Sequences, FiniteSets

CONSTANTS
  Transfers,    \* transfer ids
  NoTransfer,
  Names,        \* file names as they are after cleaning
  Contents,     \* what a file may contain: sequences of chunks
  NoContent,
  Capacity,     \* bound: messages the channel holds
  MaxSessions,  \* bound: sessions
  MaxEdits      \* bound: files that change while they are sent

ASSUME ConstantsAssumption ==
  /\ IsFiniteSet(Transfers)
  /\ NoTransfer \notin Transfers
  /\ NoContent \notin Contents
  /\ Contents \subseteq Seq(Nat)
  /\ Capacity \in Nat \ {0}
  /\ MaxSessions \in Nat
  /\ MaxEdits \in Nat

VARIABLES
  side,      \* the receiving side, "desktop" or "phone"
  sessions,  \* sessions so far
  sndOpen,   \* the sender's end of the session
  rcvOpen,   \* the receiver's end
  chan,      \* the encrypted channel, in order
  sender,    \* per thread, the file it sends
  source,    \* per transfer, what its file contains now
  name,      \* per transfer, the file's name
  offered,   \* per transfer, the content whose size and digest were sent
  edited,    \* history: files changed while they were being sent
  active,    \* the receiver's table of transfers
  parts,     \* part files, by transfer
  disk,      \* files under their final names
  seen,      \* history: the final names in use when a transfer was accepted
  verdict,   \* history: the result reported for a transfer
  got        \* history: the content saved for it

ends     == <<side, sessions, sndOpen, rcvOpen>>
sending  == <<sender, source, name, offered, edited>>
receipts == <<active, parts, disk, seen, verdict, got>>
vars     == <<ends, chan, sending, receipts>>

\* The phone's session writer and reader both send files; on the desktop
\* only the outgoing thread does.
Threads == IF side = "desktop" THEN {"writer", "reader"} ELSE {"pump"}

Sizes == {Len(c) : c \in Contents}
Limit == Cardinality(Transfers)
Paths == Names \X (0..Limit)

Idle == [file |-> NoTransfer, next |-> 1, alive |-> TRUE]

Without(f, t) == [u \in DOMAIN f \ {t} |-> f[u]]
With(f, t, x) == [u \in DOMAIN f \cup {t} |-> IF u = t THEN x ELSE f[u]]

Messages ==
  [kind : {"offer"}, file : Transfers, size : Sizes]
    \cup [kind : {"chunk"}, file : Transfers, offset : Nat, data : Nat]
    \cup [kind : {"complete"}, file : Transfers, digest : Contents]

\* f is a function from some of S to T.
IsPartial(f, S, T) == DOMAIN f \subseteq S /\ f \in [DOMAIN f -> T]

TypeOK ==
  /\ side \in {"desktop", "phone"}
  /\ sessions \in 0..MaxSessions
  /\ sndOpen \in BOOLEAN /\ rcvOpen \in BOOLEAN
  /\ chan \in Seq(Messages) /\ Len(chan) <= Capacity
  /\ sender \in [Threads -> [file : Transfers \cup {NoTransfer},
                             next : Nat \ {0}, alive : BOOLEAN]]
  /\ source \in [Transfers -> Contents]
  /\ name \in [Transfers -> Names]
  /\ offered \in [Transfers -> Contents \cup {NoContent}]
  /\ edited \subseteq Transfers
  /\ IsPartial(active, Transfers, [size : Sizes, bytes : Nat, path : Paths])
  /\ IsPartial(parts, Transfers, Seq(Nat))
  /\ IsPartial(disk, Paths, [by : Transfers, content : Contents])
  /\ seen \in [Transfers -> SUBSET Paths]
  /\ verdict \in [Transfers -> {"none", "saved", "failed", "blocked"}]
  /\ got \in [Transfers -> Contents \cup {NoContent}]

Init ==
  /\ side \in {"desktop", "phone"}
  /\ sessions = 0
  /\ sndOpen = FALSE /\ rcvOpen = FALSE
  /\ chan = <<>>
  /\ sender = [s \in Threads |-> Idle]
  /\ source \in [Transfers -> Contents]
  /\ name \in [Transfers -> Names]
  /\ offered = [t \in Transfers |-> NoContent]
  /\ edited = {}
  /\ active = <<>> /\ parts = <<>> /\ disk = <<>>
  /\ seen = [t \in Transfers |-> {}]
  /\ verdict = [t \in Transfers |-> "none"]
  /\ got = [t \in Transfers |-> NoContent]

-----------------------------------------------------------------------------
(* The sender.                                                             *)

\* A write blocks while the channel is full; it is lost when the receiver
\* has gone.
Write(m) ==
  \/ ~rcvOpen /\ chan' = chan
  \/ rcvOpen /\ Len(chan) < Capacity /\ chan' = Append(chan, m)

Sends(s, t) == sndOpen /\ sender[s].alive /\ sender[s].file = t

\* Size and digest are read, and the offer is written.
SendOffer(s, t) ==
  /\ Sends(s, NoTransfer)
  /\ offered[t] = NoContent
  /\ Write([kind |-> "offer", file |-> t, size |-> Len(source[t])])
  /\ offered' = [offered EXCEPT ![t] = source[t]]
  /\ sender' = [sender EXCEPT ![s].file = t, ![s].next = 1]
  /\ UNCHANGED <<ends, source, name, edited, receipts>>

\* The next chunk, as the file is now.
SendChunk(s, t) ==
  /\ Sends(s, t)
  /\ sender[s].next <= Len(source[t])
  /\ Write([kind |-> "chunk", file |-> t, offset |-> sender[s].next - 1,
            data |-> source[t][sender[s].next]])
  /\ sender' = [sender EXCEPT ![s].next = @ + 1]
  /\ UNCHANGED <<ends, source, name, offered, edited, receipts>>

\* The end of the file: the digest is that of the offer.
SendComplete(s, t) ==
  /\ Sends(s, t)
  /\ sender[s].next > Len(source[t])
  /\ Write([kind |-> "complete", file |-> t, digest |-> offered[t]])
  /\ sender' = [sender EXCEPT ![s] = Idle]
  /\ UNCHANGED <<ends, source, name, offered, edited, receipts>>

\* The file cannot be read any more.  The phone's writer goes on with other
\* events, its reader ends the session, the desktop's pump ends itself.
SendFails(s, t) ==
  /\ Sends(s, t)
  /\ sender' = [sender EXCEPT ![s] = [Idle EXCEPT !.alive = s = "writer"]]
  /\ sndOpen' = (s # "reader")
  /\ UNCHANGED <<side, sessions, rcvOpen, chan, source, name, offered, edited,
                 receipts>>

\* Another program changes the file while it is being sent.
EditSource(t) ==
  /\ \E s \in Threads : Sends(s, t)
  /\ Cardinality(edited) < MaxEdits
  /\ \E c \in Contents \ {source[t]} : source' = [source EXCEPT ![t] = c]
  /\ edited' = edited \cup {t}
  /\ UNCHANGED <<ends, chan, sender, name, offered, receipts>>

-----------------------------------------------------------------------------
(* Sessions.                                                               *)

OpenSession ==
  /\ ~sndOpen /\ ~rcvOpen /\ sessions < MaxSessions
  /\ sessions' = sessions + 1
  /\ sndOpen' = TRUE /\ rcvOpen' = TRUE
  /\ sender' = [s \in Threads |-> Idle]
  /\ UNCHANGED <<side, chan, source, name, offered, edited, receipts>>

\* The sender's end closes, or notices that the other has; what the network
\* still held may be lost, from some message on.
SenderCloses ==
  /\ sndOpen
  /\ sndOpen' = FALSE
  /\ \E n \in 0..Len(chan) : chan' = SubSeq(chan, 1, n)
  /\ UNCHANGED <<side, sessions, rcvOpen, sending, receipts>>

\* The receiver's table: the desktop's FileReceiver is its session's, the
\* phone's is the PairingManager's.
EndReceiver(table) ==
  /\ rcvOpen' = FALSE
  /\ chan' = <<>>
  /\ active' = IF side = "desktop" THEN <<>> ELSE table
  /\ UNCHANGED <<side, sessions, sndOpen, sending>>

\* The end of the stream, or a result that cannot be written.
ReceiverCloses ==
  /\ rcvOpen /\ ~sndOpen
  /\ EndReceiver(active)
  /\ UNCHANGED <<parts, disk, seen, verdict, got>>

-----------------------------------------------------------------------------
(* The receiver.                                                           *)

Receive(kind) ==
  /\ rcvOpen /\ chan # <<>> /\ Head(chan).kind = kind
  /\ chan' = Tail(chan)
  /\ UNCHANGED <<ends, sending>>

File == Head(chan).file

\* A result that reports a failure; one that only repeats that the offer was
\* turned down changes nothing.
ReportFailure(t) ==
  verdict' = [verdict EXCEPT ![t] = IF @ = "blocked" THEN @ ELSE "failed"]

\* Faulty variant: an existing file is no reason for another name.
UniqueNot(n) == <<n, 0>>

\* The first of name, name-1, name-2, ... that does not exist.
Unique(n) ==
  CHOOSE p \in {n} \X (0..Limit) :
    /\ p \notin DOMAIN disk
    /\ \A k \in 0..Limit : k < p[2] => <<n, k>> \in DOMAIN disk

Accept(t, path) ==
  /\ active' = With(active, t, [size |-> Head(chan).size, bytes |-> 0,
                                path |-> path])
  /\ parts' = Without(parts, t)
  /\ seen' = [seen EXCEPT ![t] = DOMAIN disk]
  /\ UNCHANGED <<disk, verdict, got>>

\* FileReceiver.handle_offer: the final name is chosen here.
OfferAtDesktop ==
  /\ side = "desktop"
  /\ Receive("offer")
  /\ Accept(File, Unique(name[File]))

\* FILE_OFFER on the phone, unless file sharing is off for this desktop.
OfferAtPhone ==
  /\ side = "phone"
  /\ Receive("offer")
  /\ \/ Accept(File, <<name[File], 0>>)
     \/ /\ verdict' = [verdict EXCEPT ![File] = "blocked"]
        /\ UNCHANGED <<active, parts, disk, seen, got>>

\* Faulty variant: the bytes of a chunk are not counted.
HandleChunkUncounted ==
  /\ Receive("chunk")
  /\ UNCHANGED <<disk, seen, got>>
  /\ IF File \notin DOMAIN active
     THEN ReportFailure(File) /\ UNCHANGED <<active, parts>>
     ELSE IF Head(chan).offset # active[File].bytes
     THEN /\ ReportFailure(File)
          /\ active' = Without(active, File)
          /\ parts' = Without(parts, File)
     ELSE /\ parts' = With(parts, File,
                        Append(IF File \in DOMAIN parts THEN parts[File]
                               ELSE <<>>, Head(chan).data))
          /\ UNCHANGED <<active, verdict>>

HandleChunk ==
  /\ Receive("chunk")
  /\ UNCHANGED <<disk, seen, got>>
  /\ IF File \notin DOMAIN active
     THEN ReportFailure(File) /\ UNCHANGED <<active, parts>>
     ELSE IF Head(chan).offset # active[File].bytes
     THEN /\ ReportFailure(File)
          /\ active' = Without(active, File)
          /\ parts' = Without(parts, File)
     ELSE /\ parts' = With(parts, File,
                        Append(IF File \in DOMAIN parts THEN parts[File]
                               ELSE <<>>, Head(chan).data))
          /\ active' = [active EXCEPT ![File].bytes = @ + 1]
          /\ UNCHANGED verdict

\* The part file gets its final name; it replaces what has that name.
Save(t, path) ==
  /\ disk' = With(disk, path, [by |-> t, content |-> parts[t]])
  /\ parts' = Without(parts, t)
  /\ verdict' = [verdict EXCEPT ![t] = "saved"]
  /\ got' = [got EXCEPT ![t] = parts[t]]

\* Faulty variant: only the size is compared.
SizeMismatch(t) == active[t].bytes # active[t].size

\* The size or the digest is not that of the offer.
Mismatch(t) ==
  \/ active[t].bytes # active[t].size
  \/ t \in DOMAIN parts /\ parts[t] # Head(chan).digest

\* handle_complete of a transfer that is unknown, or of a wrong size or
\* digest.
CompleteRefused ==
  /\ Receive("complete")
  /\ UNCHANGED <<disk, seen, got>>
  /\ IF File \notin DOMAIN active
     THEN ReportFailure(File) /\ UNCHANGED <<active, parts>>
     ELSE /\ Mismatch(File)
          /\ ReportFailure(File)
          /\ active' = Without(active, File)
          /\ parts' = Without(parts, File)

Complete(path) ==
  /\ Receive("complete")
  /\ File \in DOMAIN active /\ File \in DOMAIN parts /\ ~Mismatch(File)
  /\ Save(File, path)
  /\ active' = Without(active, File)
  /\ UNCHANGED seen

CompleteAtDesktop ==
  side = "desktop" /\ rcvOpen /\ chan # <<>> /\ File \in DOMAIN active
    /\ Complete(active[File].path)

\* saveCompletedFile: the final name is chosen here.
CompleteAtPhone ==
  side = "phone" /\ rcvOpen /\ chan # <<>> /\ Complete(Unique(name[File]))

\* Handling a message throws, and the session ends: the disk is full, or an
\* empty file is complete, which has no part file to take the digest of.
ReceiverThrows ==
  /\ rcvOpen /\ chan # <<>> /\ File \in DOMAIN active
  /\ Head(chan).kind \in {"chunk", "complete"}
  /\ EndReceiver(IF Head(chan).kind = "chunk" THEN active
                 ELSE Without(active, File))
  /\ UNCHANGED <<parts, disk, seen, verdict, got>>

-----------------------------------------------------------------------------

SenderStep ==
  \E s \in Threads, t \in Transfers :
    SendOffer(s, t) \/ SendChunk(s, t) \/ SendComplete(s, t) \/ SendFails(s, t)

ReceiverStep ==
  \/ OfferAtDesktop \/ OfferAtPhone
  \/ HandleChunk
  \/ CompleteRefused \/ CompleteAtDesktop \/ CompleteAtPhone
  \/ ReceiverThrows

Next ==
  \/ SenderStep \/ ReceiverStep
  \/ \E t \in Transfers : EditSource(t)
  \/ OpenSession \/ SenderCloses \/ ReceiverCloses

Spec == Init /\ [][Next]_vars

\* The receiver reads what has come.
FairSpec == Spec /\ WF_vars(ReceiverStep)

-----------------------------------------------------------------------------

\* A file is refused only if it changed while it was sent: neither other
\* transfers nor the end of earlier sessions make an honest one fail.
NoFalseRefusal ==
  \A t \in Transfers : verdict[t] = "failed" => t \in edited

\* A transfer never replaces a file that had its name when the transfer was
\* accepted, nor, on the phone, any file.  (On the desktop it does replace
\* one that came under the same name since.)
NoOldFileReplaced ==
  [][\A p \in DOMAIN disk :
       disk'[p] # disk[p] => /\ side = "desktop"
                             /\ p \notin seen[disk'[p].by]]_vars

\* Every transfer is delivered as offered, or refused, for good.
Delivery == INSTANCE FileDelivery WITH
  stage <- [t \in Transfers |->
              IF offered[t] = NoContent THEN "new"
              ELSE IF verdict[t] = "none" THEN "offered"
              ELSE IF verdict[t] = "saved" THEN "saved"
              ELSE "refused"],
  doc <- offered

DeliversOrRefuses == Delivery!Spec

=============================================================================
