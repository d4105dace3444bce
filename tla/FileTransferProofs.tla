-------------------------- MODULE FileTransferProofs --------------------------
(***************************************************************************)
(* Theorems of FileTransfer: an honest file is never refused, a transfer   *)
(* never replaces a file it found, and every step of a transfer is a step  *)
(* of FileDelivery or changes nothing there.                               *)
(*                                                                         *)
(* The argument is that the channel is in order and has no gaps: what it   *)
(* holds of one transfer goes on where the receiver has come to, and ends  *)
(* where the sender is.                                                    *)
(***************************************************************************)
EXTENDS FileTransfer, FiniteSetTheorems, WellFoundedInduction, TLAPS

-----------------------------------------------------------------------------
(* The inductive invariant.                                                *)

\* A session that the receiver has left holds nothing.
ClosedIsEmpty == ~rcvOpen => chan = <<>>

\* A transfer that was not offered has left no trace.
Begun ==
  \A t \in Transfers : offered[t] = NoContent =>
    /\ \A s \in Threads : sender[s].file # t
    /\ \A i \in DOMAIN chan : chan[i].file # t
    /\ t \notin DOMAIN active
    /\ verdict[t] = "none"

OneSender ==
  \A s, r \in Threads :
    sender[s].file # NoTransfer /\ sender[s].file = sender[r].file => s = r

\* Of one transfer, nothing comes before its offer or after its completion.
InTurn ==
  /\ \A i, j \in DOMAIN chan :
       i < j /\ chan[i].file = chan[j].file
         => chan[i].kind # "complete" /\ chan[j].kind # "offer"
  /\ \A s \in Threads, i \in DOMAIN chan :
       sndOpen /\ chan[i].file = sender[s].file => chan[i].kind # "complete"

OfferIsFirst ==
  \A i \in DOMAIN chan : chan[i].kind = "offer" =>
    verdict[chan[i].file] = "none" /\ chan[i].file \notin DOMAIN active

\* A transfer with a verdict is not in the table, and of one that was saved
\* nothing can come any more.
Settled == \A t \in Transfers : verdict[t] # "none" => t \notin DOMAIN active

SavedIsLast ==
  \A t \in Transfers : verdict[t] = "saved" =>
    /\ \A i \in DOMAIN chan : chan[i].file # t
    /\ sndOpen /\ rcvOpen => \A s \in Threads : sender[s].file # t

Digests ==
  \A i \in DOMAIN chan :
    chan[i].kind = "complete" => chan[i].digest = offered[chan[i].file]

\* A saved transfer has one file.
DiskIsOwned ==
  /\ \A p \in DOMAIN disk : verdict[disk[p].by] = "saved"
  /\ \A p, q \in DOMAIN disk : disk[p].by = disk[q].by => p = q

FreshPath ==
  side = "desktop" =>
    \A t \in DOMAIN active : active[t].path \notin seen[t]

Honest == Transfers \ edited

SourceKept ==
  \A t \in Honest : offered[t] # NoContent => source[t] = offered[t]

HonestMessages ==
  \A i \in DOMAIN chan : LET m == chan[i] IN m.file \in Honest =>
    /\ m.kind = "offer" => m.size = Len(offered[m.file])
    /\ m.kind = "chunk" => /\ m.offset < Len(offered[m.file])
                           /\ m.data = offered[m.file][m.offset + 1]

\* The part file holds what was counted, and that is how the file begins.
HonestParts ==
  \A t \in Honest : t \in DOMAIN active =>
    /\ active[t].size = Len(offered[t])
    /\ active[t].bytes = 0 <=> t \notin DOMAIN parts
    /\ t \in DOMAIN parts =>
         /\ Len(parts[t]) = active[t].bytes
         /\ \A k \in 1..active[t].bytes : parts[t][k] = offered[t][k]

\* Messages of an honest transfer are numbered: the offer, the chunks, the
\* completion.  Sender and receiver each have a number they have come to.
Rank(i) ==
  CASE chan[i].kind = "offer"    -> 0
    [] chan[i].kind = "chunk"    -> chan[i].offset + 1
    [] chan[i].kind = "complete" -> Len(offered[chan[i].file]) + 1

Expected(t) == IF t \in DOMAIN active THEN active[t].bytes + 1 ELSE 0

Increasing ==
  \A t \in Honest, i, j \in DOMAIN chan :
    chan[i].file = t /\ chan[j].file = t /\ i < j => Rank(i) < Rank(j)

\* A number is the one the receiver expects, or the one after a message of t
\* in the channel, before place i.
GoesOn(t, number, i) ==
  \/ number = Expected(t)
  \/ \E j \in DOMAIN chan : j < i /\ chan[j].file = t /\ number = Rank(j) + 1

Gapless ==
  \A t \in Honest, i \in DOMAIN chan :
    chan[i].file = t /\ verdict[t] # "blocked" => GoesOn(t, Rank(i), i)

SenderIsNext ==
  \A t \in Honest, s \in Threads : sender[s].file = t =>
    /\ sender[s].next <= Len(offered[t]) + 1
    /\ sndOpen /\ rcvOpen =>
         /\ \A i \in DOMAIN chan : chan[i].file = t => Rank(i) < sender[s].next
         /\ verdict[t] # "blocked" =>
              GoesOn(t, sender[s].next, Len(chan) + 1)

IInv ==
  /\ TypeOK
  /\ ClosedIsEmpty /\ Begun /\ OneSender /\ InTurn /\ OfferIsFirst
  /\ Settled /\ SavedIsLast /\ Digests /\ DiskIsOwned /\ FreshPath
  /\ SourceKept /\ HonestMessages /\ HonestParts
  /\ Increasing /\ Gapless /\ SenderIsNext
  /\ NoFalseRefusal

-----------------------------------------------------------------------------
(* Names that do not exist.                                                *)

\* A set of numbers that is not empty has a least one.
LEMMA LeastNumber ==
  ASSUME NEW T \in SUBSET Nat, T # {}
  PROVE  \E k \in T : \A j \in T : ~(j < k)
<1> DEFINE Below == OpToRel(<, Nat)
<1>1. \A j, k \in Nat : j < k => <<j, k>> \in Below
  BY DEF OpToRel
<1>2. \E k \in T : \A j \in T : ~(<<j, k>> \in Below)
  <2> HIDE DEF Below
  <2> QED
    BY NatLessThanWellFounded, WFMin DEF Below
<1> QED
  BY <1>1, <1>2

\* Fewer files are on the disk than there are candidates for a new name.
LEMMA UniqueIsNew ==
  ASSUME TypeOK, DiskIsOwned, NEW n \in Names
  PROVE  Unique(n) \in Paths \ DOMAIN disk
<1>1. Limit \in Nat
  BY ConstantsAssumption, FS_CardinalityType DEF Limit
<1> DEFINE Free == {k \in 0..Limit : <<n, k>> \notin DOMAIN disk}
           Owner == [k \in 0..Limit |-> disk[<<n, k>>].by]
<1>2. Free # {}
  <2> SUFFICES ASSUME \A k \in 0..Limit : <<n, k>> \in DOMAIN disk
               PROVE  FALSE
    OBVIOUS
  <2>1. Owner \in [0..Limit -> Transfers]
    BY DEF TypeOK, IsPartial
  <2>2. IsFiniteSet(0..Limit) /\ Cardinality(0..Limit) = Limit + 1
    BY <1>1, FS_Interval
  <2>3. Cardinality(Transfers) < Cardinality(0..Limit)
    BY <1>1, <2>2 DEF Limit
  <2>4. \E j, k \in 0..Limit : j # k /\ Owner[j] = Owner[k]
    <3> HIDE DEF Owner
    <3> DEFINE Candidates == 0..Limit
    <3>1. /\ IsFiniteSet(Candidates) /\ IsFiniteSet(Transfers)
          /\ Cardinality(Transfers) < Cardinality(Candidates)
          /\ Owner \in [Candidates -> Transfers]
      BY <2>1, <2>2, <2>3, ConstantsAssumption
    <3> HIDE DEF Candidates
    <3>2. \E j, k \in Candidates : j # k /\ Owner[j] = Owner[k]
      BY <3>1, FS_PigeonHole, Zenon
    <3> QED
      BY <3>2 DEF Candidates
  <2> QED
    BY <2>4 DEF DiskIsOwned
<1>3. PICK k \in Free : \A j \in Free : ~(j < k)
  <2>1. Free \in SUBSET Nat
    BY <1>1
  <2> HIDE DEF Free
  <2> QED
    BY <1>2, <2>1, LeastNumber
<1>4. /\ <<n, k>> \in {n} \X (0..Limit)
      /\ <<n, k>> \notin DOMAIN disk
      /\ \A j \in 0..Limit : j < <<n, k>>[2] => <<n, j>> \in DOMAIN disk
  BY <1>3
<1>5. Unique(n) \in {n} \X (0..Limit) /\ Unique(n) \notin DOMAIN disk
  BY <1>4 DEF Unique
<1> QED
  BY <1>5 DEF Paths

-----------------------------------------------------------------------------
(* The channel.                                                            *)

SenderState == [file : Transfers \cup {NoTransfer}, next : Nat \ {0},
                alive : BOOLEAN]

\* A write appends its message, or is lost.
LEMMA Written ==
  ASSUME TypeOK, ClosedIsEmpty, NEW m \in Messages, Write(m)
  PROVE  /\ chan' \in Seq(Messages) /\ Len(chan') <= Capacity
         /\ Len(chan) \in Nat /\ Len(chan') \in Nat
         /\ Len(chan) <= Len(chan')
         /\ \A i \in DOMAIN chan : /\ i \in DOMAIN chan' /\ chan'[i] = chan[i]
                                   /\ i \in Nat /\ i < Len(chan) + 1
         /\ \A i \in DOMAIN chan' :
              /\ i \in Nat /\ i < Len(chan') + 1
              /\ \/ i \in DOMAIN chan
                 \/ rcvOpen /\ i = Len(chan) + 1 /\ chan'[i] = m
         /\ rcvOpen => /\ Len(chan) + 1 \in DOMAIN chan'
                       /\ chan'[Len(chan) + 1] = m
                       /\ Len(chan') = Len(chan) + 1
         /\ ~rcvOpen => DOMAIN chan = {} /\ DOMAIN chan' = {}
<1>1. chan \in Seq(Messages) /\ Len(chan) \in Nat /\ Capacity \in Nat
  BY ConstantsAssumption DEF TypeOK
<1>2. CASE ~rcvOpen
  <2>1. chan' = chan /\ chan = <<>> /\ Len(chan) <= Capacity
    BY <1>2 DEF Write, TypeOK, ClosedIsEmpty
  <2>2. DOMAIN chan = {} /\ DOMAIN chan' = {}
    BY <2>1
  <2> QED
    BY <1>1, <1>2, <2>1, <2>2
<1>3. CASE rcvOpen
  <2>1. chan' = Append(chan, m) /\ Len(chan) < Capacity
    BY <1>3 DEF Write
  <2>2. /\ chan' \in Seq(Messages) /\ Len(chan') = Len(chan) + 1
        /\ DOMAIN chan = 1..Len(chan) /\ DOMAIN chan' = 1..(Len(chan) + 1)
        /\ chan'[Len(chan) + 1] = m
        /\ \A i \in 1..Len(chan) : chan'[i] = chan[i]
    BY <1>1, <2>1
  <2>3. Len(chan') <= Capacity
    BY <1>1, <2>1, <2>2
  <2> QED
    BY <1>1, <1>3, <2>2, <2>3
<1> QED
  BY <1>2, <1>3

\* Where a message is after the first one was received.
LEMMA Taken ==
  ASSUME TypeOK, chan # <<>>, chan' = Tail(chan)
  PROVE  /\ chan' \in Seq(Messages) /\ Len(chan') <= Capacity
         /\ Len(chan) \in Nat /\ Len(chan') + 1 = Len(chan)
         /\ Len(chan') \in Nat
         /\ 1 \in DOMAIN chan /\ Head(chan) = chan[1] /\ chan[1] \in Messages
         /\ \A i \in DOMAIN chan' : /\ i \in Nat /\ i + 1 \in DOMAIN chan
                                    /\ chan'[i] = chan[i + 1]
         /\ \A i \in DOMAIN chan :
              /\ i \in Nat
              /\ i = 1 \/ (i - 1 \in DOMAIN chan' /\ chan[i] = chan'[i - 1])
<1>1. chan \in Seq(Messages) /\ Len(chan) \in Nat /\ Capacity \in Nat
  BY ConstantsAssumption DEF TypeOK
<1>2. Len(chan) > 0 /\ Len(chan) <= Capacity
  BY <1>1 DEF TypeOK
<1>3. /\ chan' \in Seq(Messages) /\ Len(chan') = Len(chan) - 1
      /\ DOMAIN chan = 1..Len(chan) /\ DOMAIN chan' = 1..(Len(chan) - 1)
      /\ \A i \in 1..(Len(chan) - 1) : chan'[i] = chan[i + 1]
      /\ Head(chan) = chan[1]
  BY <1>1, <1>2
<1>4. \A i \in 2..Len(chan) : i - 1 \in 1..(Len(chan) - 1) /\ (i - 1) + 1 = i
  BY <1>1
<1> QED
  BY <1>1, <1>2, <1>3, <1>4

\* What is lost is lost from some message on.
LEMMA CutOff ==
  ASSUME TypeOK, NEW n \in 0..Len(chan), chan' = SubSeq(chan, 1, n)
  PROVE  /\ chan' \in Seq(Messages) /\ Len(chan') <= Capacity
         /\ chan = <<>> => chan' = <<>>
         /\ \A i \in DOMAIN chan' : /\ i \in DOMAIN chan /\ chan'[i] = chan[i]
                                    /\ \A j \in DOMAIN chan : j < i
                                         => j \in DOMAIN chan'
<1>1. chan \in Seq(Messages) /\ Len(chan) \in Nat /\ Capacity \in Nat
  BY ConstantsAssumption DEF TypeOK
<1>2. /\ chan' \in Seq(Messages) /\ Len(chan') = n /\ n <= Len(chan)
      /\ \A i \in 1..n : chan'[i] = chan[i]
  BY <1>1
<1> QED
  BY <1>1, <1>2 DEF TypeOK

\* The fields each kind of message has, and their types.
LEMMA KindsOfMessages ==
  ASSUME NEW m \in Messages
  PROVE  /\ m.file \in Transfers /\ m.kind \in {"offer", "chunk", "complete"}
         /\ m.kind = "offer" => m.size \in Sizes
         /\ m.kind = "chunk" => m.offset \in Nat /\ m.data \in Nat
         /\ m.kind = "complete" => m.digest \in Contents
BY DEF Messages

\* What was offered is a sequence of chunks.
LEMMA OfferedHasLength ==
  ASSUME TypeOK, NEW t \in Transfers, offered[t] # NoContent
  PROVE  /\ offered[t] \in Contents /\ offered[t] \in Seq(Nat)
         /\ Len(offered[t]) \in Nat
BY ConstantsAssumption DEF TypeOK

\* The place of a message in its file is a number.
LEMMA RankIsNumber ==
  ASSUME TypeOK, Begun, NEW i \in DOMAIN chan
  PROVE  Rank(i) \in Nat
<1>1. chan[i] \in Messages
  BY DEF TypeOK
<1>2. Len(offered[chan[i].file]) \in Nat
  BY <1>1, KindsOfMessages, OfferedHasLength DEF Begun
<1> QED
  BY <1>1, <1>2, KindsOfMessages DEF Rank

-----------------------------------------------------------------------------
(* The sender's writes.                                                    *)

\* What the three of them have in common: thread s writes m, of transfer t.
Sent(s, t, m) ==
  /\ m \in Messages /\ m.file = t
  /\ sndOpen /\ Write(m)
  /\ UNCHANGED <<ends, source, name, edited, receipts>>
  /\ sender' \in [Threads -> SenderState]
  /\ offered' \in [Transfers -> Contents \cup {NoContent}]
  /\ \A r \in Threads \ {s} : sender'[r] = sender[r]
  /\ \A u \in Transfers \ {t} : offered'[u] = offered[u]
  /\ offered'[t] # NoContent
  /\ \/ /\ m.kind = "offer" /\ offered[t] = NoContent
        /\ sender[s].file = NoTransfer /\ sender'[s].file = t
     \/ /\ m.kind = "chunk" /\ offered'[t] = offered[t]
        /\ sender[s].file = t /\ sender'[s].file = t
     \/ /\ m.kind = "complete" /\ offered'[t] = offered[t]
        /\ m.digest = offered[t]
        /\ sender[s].file = t /\ sender'[s].file = NoTransfer

\* The number of the message that s writes next.
Number(s) == IF sender[s].file = NoTransfer THEN 0 ELSE sender[s].next

\* And if the file has not changed, the message is the next one of t.
SentHonest(s, t, m) ==
  t \in Honest =>
    /\ source[t] = offered'[t]
    /\ m.kind = "offer" => m.size = Len(offered'[t])
    /\ m.kind = "chunk" => /\ m.offset + 1 = Number(s)
                           /\ m.offset < Len(offered'[t])
                           /\ m.data = offered'[t][m.offset + 1]
    /\ m.kind = "complete" => Number(s) = Len(offered'[t]) + 1
    /\ sender'[s].file = t => sender'[s].next = Number(s) + 1

\* Whatever a thread sends, the parts that hold of every transfer are kept.
LEMMA SentKeepsOrder ==
  ASSUME IInv, NEW s \in Threads, NEW t \in Transfers, NEW m, Sent(s, t, m)
  PROVE  /\ ClosedIsEmpty' /\ Begun' /\ OneSender' /\ InTurn' /\ OfferIsFirst'
         /\ Settled' /\ SavedIsLast' /\ Digests' /\ DiskIsOwned' /\ FreshPath'
         /\ NoFalseRefusal' /\ TypeOK'
<1> USE DEF IInv
<1>1. /\ UNCHANGED <<side, sessions, sndOpen, rcvOpen, source, name, edited>>
      /\ UNCHANGED <<active, parts, disk, seen, verdict, got>>
      /\ Threads' = Threads /\ m \in Messages /\ m.file = t
  BY DEF Sent, ends, receipts, Threads
<1>2. /\ chan' \in Seq(Messages) /\ Len(chan') <= Capacity
      /\ \A i \in DOMAIN chan : /\ i \in DOMAIN chan' /\ chan'[i] = chan[i]
                                /\ i \in Nat /\ i < Len(chan) + 1
      /\ \A i \in DOMAIN chan' :
           /\ i \in Nat
           /\ \/ i \in DOMAIN chan
              \/ rcvOpen /\ i = Len(chan) + 1 /\ chan'[i] = m
      /\ ~rcvOpen => DOMAIN chan = {} /\ DOMAIN chan' = {}
  BY <1>1, Written DEF Sent
<1>3. /\ \A r \in Threads \ {s} : sender'[r] = sender[r]
      /\ \A u \in Transfers \ {t} : offered'[u] = offered[u]
      /\ offered'[t] # NoContent
      /\ m.kind # "offer" => offered'[t] = offered[t] /\ sender[s].file = t
  BY DEF Sent
<1>13. \A r \in Threads \ {s} : sender[r].file # t
  <2>1. t # NoTransfer
    BY ConstantsAssumption
  <2>2. offered[t] = NoContent \/ sender[s].file = t
    BY DEF Sent
  <2> QED
    BY <2>1, <2>2 DEF OneSender, Begun
<1>4. TypeOK'
  <2>1. /\ sender' \in [Threads -> SenderState]
        /\ offered' \in [Transfers -> Contents \cup {NoContent}]
    BY DEF Sent
  <2> QED
    BY <1>1, <1>2, <2>1 DEF TypeOK, SenderState
<1>5. ClosedIsEmpty'
  <2>1. ~rcvOpen => chan' = chan
    BY DEF Sent, Write
  <2> QED
    BY <1>1, <2>1 DEF ClosedIsEmpty
<1>6. Begun'
  <2> SUFFICES ASSUME NEW u \in Transfers, offered'[u] = NoContent
               PROVE  /\ \A r \in Threads : sender'[r].file # u
                      /\ \A i \in DOMAIN chan' : chan'[i].file # u
                      /\ u \notin DOMAIN active
                      /\ verdict[u] = "none"
    BY <1>1 DEF Begun
  <2>1. u # t /\ offered[u] = NoContent
    BY <1>3
  <2>2. sender'[s].file # u
    BY <2>1, ConstantsAssumption DEF Sent
  <2> QED
    BY <1>1, <1>2, <1>3, <2>1, <2>2 DEF Begun
<1>7. OneSender'
  <2>1. sender'[s].file \in {t, NoTransfer}
    BY DEF Sent
  <2> QED
    BY <1>1, <1>3, <1>13, <2>1 DEF OneSender
<1>8. InTurn'
  <2>1. ASSUME NEW i \in DOMAIN chan', NEW j \in DOMAIN chan', i < j,
               chan'[i].file = chan'[j].file
        PROVE  chan'[i].kind # "complete" /\ chan'[j].kind # "offer"
    <3>1. i \in DOMAIN chan /\ chan'[i] = chan[i]
      BY <1>2, <2>1 DEF TypeOK
    <3>2. CASE j \in DOMAIN chan
      BY <1>2, <2>1, <3>1, <3>2 DEF InTurn
    <3>3. CASE chan'[j] = m
      <4>1. chan[i].file = t
        BY <1>1, <2>1, <3>1, <3>3
      <4>2. m.kind # "offer" /\ sender[s].file = t
        BY <3>1, <4>1 DEF Sent, Begun
      <4> QED
        BY <3>1, <3>3, <4>1, <4>2 DEF InTurn, Sent
    <3> QED
      BY <1>2, <3>2, <3>3
  <2>2. ASSUME NEW r \in Threads, NEW i \in DOMAIN chan', sndOpen,
               chan'[i].file = sender'[r].file
        PROVE  chan'[i].kind # "complete"
    <3>1. CASE r # s
      <4>1. sender[r].file # t
        BY <1>13, <3>1
      <4> QED
        BY <1>1, <1>2, <1>3, <2>2, <3>1, <4>1 DEF InTurn
    <3>2. CASE r = s
      <4>1. chan'[i].file \in Transfers
        BY <1>2, KindsOfMessages
      <4>2. sender'[s].file = t /\ m.kind # "complete"
        BY <2>2, <3>2, <4>1, ConstantsAssumption DEF Sent
      <4>3. CASE i \in DOMAIN chan
        BY <1>2, <2>2, <3>2, <4>2, <4>3 DEF InTurn, Sent, Begun
      <4> QED
        BY <1>2, <4>2, <4>3
    <3> QED
      BY <3>1, <3>2
  <2> QED
    BY <1>1, <2>1, <2>2 DEF InTurn
<1>9. OfferIsFirst'
  <2>1. m.kind = "offer" => verdict[t] = "none" /\ t \notin DOMAIN active
    BY DEF Sent, Begun
  <2> QED
    BY <1>1, <1>2, <2>1 DEF OfferIsFirst
<1>10. Settled' /\ DiskIsOwned' /\ FreshPath' /\ NoFalseRefusal'
  BY <1>1 DEF Settled, DiskIsOwned, FreshPath, NoFalseRefusal
<1>11. SavedIsLast'
  <2> SUFFICES ASSUME NEW u \in Transfers, verdict[u] = "saved"
               PROVE  /\ \A i \in DOMAIN chan' : chan'[i].file # u
                      /\ rcvOpen => \A r \in Threads : sender'[r].file # u
    BY <1>1 DEF SavedIsLast
  <2>1. rcvOpen => u # t
    BY DEF Sent, Begun, SavedIsLast
  <2>2. sender'[s].file \in {t, NoTransfer} /\ u # NoTransfer /\ sndOpen
    BY ConstantsAssumption DEF Sent
  <2> QED
    BY <1>1, <1>2, <1>3, <2>1, <2>2 DEF SavedIsLast
<1>12. Digests'
  <2>1. ASSUME NEW i \in DOMAIN chan', chan'[i].kind = "complete"
        PROVE  chan'[i].digest = offered'[chan'[i].file]
    <3>1. CASE i \in DOMAIN chan
      <4>1. chan[i].file \in Transfers
        BY <1>2, <3>1, KindsOfMessages DEF TypeOK
      <4> QED
        BY <1>2, <1>3, <2>1, <3>1, <4>1 DEF Digests, Begun, Sent
    <3>2. CASE chan'[i] = m
      BY <1>1, <1>3, <2>1, <3>2 DEF Sent
    <3> QED
      BY <1>2, <3>1, <3>2
  <2> QED
    BY <2>1 DEF Digests
<1> QED
  BY <1>4, <1>5, <1>6, <1>7, <1>8, <1>9, <1>10, <1>11, <1>12

\* What a thread sends from an unedited source keeps the parts about honest
\* transfers.
LEMMA SentKeepsHonesty ==
  ASSUME IInv, NEW s \in Threads, NEW t \in Transfers, NEW m,
         Sent(s, t, m), SentHonest(s, t, m)
  PROVE  /\ SourceKept' /\ HonestMessages' /\ HonestParts'
         /\ Increasing' /\ Gapless' /\ SenderIsNext'
<1> USE DEF IInv
<1>1. /\ UNCHANGED <<side, sessions, sndOpen, rcvOpen, source, name, edited>>
      /\ UNCHANGED <<active, parts, disk, seen, verdict, got>>
      /\ Threads' = Threads /\ Honest' = Honest
      /\ m \in Messages /\ m.file = t
  BY DEF Sent, ends, receipts, Threads, Honest
<1> DEFINE Last == Len(chan) + 1
<1>0. PICK last \in Nat : last = Last
  BY Written DEF Sent
<1>2. /\ Len(chan) \in Nat /\ Len(chan') \in Nat /\ last <= Len(chan') + 1
      /\ \A i \in DOMAIN chan : /\ i \in DOMAIN chan' /\ chan'[i] = chan[i]
                                /\ i \in Nat /\ i < last
      /\ \A i \in DOMAIN chan' :
           /\ i \in Nat /\ i < Len(chan') + 1
           /\ \/ i \in DOMAIN chan
              \/ rcvOpen /\ i = last /\ chan'[i] = m
      /\ rcvOpen => /\ last \in DOMAIN chan' /\ chan'[last] = m
                    /\ Len(chan') = last
      /\ ~rcvOpen => DOMAIN chan = {} /\ DOMAIN chan' = {}
  BY <1>0, <1>1, Written DEF Sent
<1>3. /\ \A r \in Threads \ {s} : sender'[r] = sender[r] /\ sender[r].file # t
      /\ \A u \in Transfers : offered[u] # NoContent => offered'[u] = offered[u]
      /\ \A u \in Transfers \ {t} : offered'[u] = offered[u]
      /\ \A i \in DOMAIN chan : /\ chan[i].file \in Transfers
                                /\ offered[chan[i].file] # NoContent
      /\ sndOpen
  <2>1. t # NoTransfer /\ \A r \in Threads \ {s} : sender'[r] = sender[r]
    BY ConstantsAssumption DEF Sent
  <2>2. offered[t] = NoContent \/ (sender[s].file = t /\ offered'[t] = offered[t])
    BY DEF Sent
  <2>3. \A r \in Threads \ {s} : sender[r].file # t
    BY <2>1, <2>2 DEF OneSender, Begun
  <2>4. \A i \in DOMAIN chan : chan[i].file \in Transfers
    BY KindsOfMessages DEF TypeOK
  <2> QED
    BY <2>1, <2>2, <2>3, <2>4 DEF Begun, Sent
<1>4. /\ t \in Honest => Number(s) \in Nat
      /\ t \in Honest => Len(offered'[t]) \in Nat
      /\ t \in Honest => Number(s) <= Len(offered'[t]) + 1
      /\ t \in Honest /\ m.kind # "complete" => Number(s) <= Len(offered'[t])
  <2>1. offered'[t] \in Contents
    BY DEF Sent
  <2>2. Len(offered'[t]) \in Nat
    BY <2>1, ConstantsAssumption
  <2>3. Number(s) \in Nat
    BY DEF Number, TypeOK
  <2>4. CASE m.kind = "offer"
    BY <2>2, <2>3, <2>4, ConstantsAssumption DEF Sent, Number
  <2>5. CASE m.kind = "chunk"
    <3>1. m.offset \in Nat
      BY <1>1, <2>5, KindsOfMessages
    <3> QED
      BY <2>2, <2>3, <2>5, <3>1 DEF SentHonest
  <2>6. CASE m.kind = "complete"
    BY <2>2, <2>3, <2>6 DEF SentHonest
  <2> QED
    BY <1>1, <2>4, <2>5, <2>6, KindsOfMessages
<1>5. /\ \A i \in DOMAIN chan : Rank(i)' = Rank(i) /\ Rank(i) \in Nat
      /\ rcvOpen /\ t \in Honest => Rank(last)' = Number(s)
  <2>1. \A i \in DOMAIN chan : Rank(i)' = Rank(i)
    BY <1>2, <1>3 DEF Rank
  <2>2. ASSUME rcvOpen, t \in Honest PROVE Rank(last)' = Number(s)
    <3>1. chan'[last] = m
      BY <1>2, <2>2
    <3> QED
      BY <1>1, <2>2, <3>1, KindsOfMessages DEF Rank, Sent, SentHonest, Number
  <2> QED
    BY <2>1, <2>2, RankIsNumber
<1>6. SourceKept'
  BY <1>1, <1>3 DEF SourceKept, SentHonest, Honest
<1>7. HonestMessages'
  <2> SUFFICES ASSUME NEW i \in DOMAIN chan', chan'[i].file \in Honest
               PROVE  LET n == chan'[i] IN
                      /\ n.kind = "offer" => n.size = Len(offered'[n.file])
                      /\ n.kind = "chunk" =>
                           /\ n.offset < Len(offered'[n.file])
                           /\ n.data = offered'[n.file][n.offset + 1]
    BY <1>1 DEF HonestMessages
  <2>1. CASE i \in DOMAIN chan
    BY <1>2, <1>3, <2>1 DEF HonestMessages
  <2>2. CASE chan'[i] = m
    BY <1>1, <2>2 DEF SentHonest
  <2> QED
    BY <1>2, <2>1, <2>2
<1>8. HonestParts'
  <2>1. \A u \in Transfers : u \in DOMAIN active => offered'[u] = offered[u]
    BY <1>3 DEF Begun
  <2> QED
    BY <1>1, <2>1 DEF HonestParts, Honest
<1>9. \A u \in Honest, i \in DOMAIN chan :
        rcvOpen /\ chan[i].file = u /\ u = t => Rank(i) < Number(s)
  <2>1. CASE sender[s].file = t
    <3>1. t # NoTransfer
      BY ConstantsAssumption
    <3> QED
      BY <1>3, <2>1, <3>1 DEF SenderIsNext, Number
  <2>2. CASE offered[t] = NoContent
    BY <1>3, <2>2
  <2> QED
    BY <2>1, <2>2 DEF Sent
<1>10. Increasing'
  <2> SUFFICES ASSUME NEW u \in Honest, NEW i \in DOMAIN chan',
                      NEW j \in DOMAIN chan',
                      chan'[i].file = u, chan'[j].file = u, i < j
               PROVE  Rank(i)' < Rank(j)'
    BY <1>1 DEF Increasing
  <2>1. i \in DOMAIN chan
    BY <1>2
  <2>2. CASE j \in DOMAIN chan
    BY <1>2, <1>5, <2>1, <2>2 DEF Increasing
  <2>3. CASE rcvOpen /\ j = last /\ chan'[j] = m
    BY <1>1, <1>2, <1>5, <1>9, <2>1, <2>3
  <2> QED
    BY <1>2, <2>2, <2>3
<1>11. ASSUME NEW u \in Transfers, NEW number, NEW i \in Nat, NEW k \in Nat,
              GoesOn(u, number, i), i <= k
       PROVE  \/ number = Expected(u)'
              \/ \E j \in DOMAIN chan' : /\ j < k /\ chan'[j].file = u
                                         /\ number = Rank(j)' + 1
  <2>1. Expected(u)' = Expected(u)
    BY <1>1 DEF Expected
  <2> QED
    BY <1>2, <1>5, <1>11, <2>1 DEF GoesOn
<1>12. ASSUME t \in Honest, rcvOpen, verdict[t] # "blocked"
       PROVE  GoesOn(t, Number(s), last)
  <2>1. CASE sender[s].file = t
    <3>1. t # NoTransfer
      BY ConstantsAssumption
    <3> QED
      BY <1>0, <1>3, <1>12, <2>1, <3>1 DEF SenderIsNext, Number
  <2>2. CASE sender[s].file = NoTransfer
    <3>1. offered[t] = NoContent
      BY <2>2, ConstantsAssumption DEF Sent
    <3> QED
      BY <2>2, <3>1 DEF Begun, Number, GoesOn, Expected
  <2> QED
    BY <2>1, <2>2 DEF Sent
<1>13. Gapless'
  <2> SUFFICES ASSUME NEW u \in Honest, NEW i \in DOMAIN chan',
                      chan'[i].file = u, verdict[u] # "blocked"
               PROVE  GoesOn(u, Rank(i), i)'
    BY <1>1 DEF Gapless
  <2>0. u \in Transfers
    BY DEF Honest
  <2>1. CASE i \in DOMAIN chan
    <3>1. GoesOn(u, Rank(i), i)
      BY <1>2, <2>1 DEF Gapless
    <3>2. Rank(i)' = Rank(i) /\ i \in Nat
      BY <1>2, <1>5, <2>1
    <3>3. \/ Rank(i) = Expected(u)'
          \/ \E j \in DOMAIN chan' : /\ j < i /\ chan'[j].file = u
                                     /\ Rank(i) = Rank(j)' + 1
      BY <1>11, <2>0, <3>1, <3>2
    <3> QED
      BY <3>2, <3>3 DEF GoesOn
  <2>2. CASE rcvOpen /\ i = last /\ chan'[i] = m
    <3>1. u = t /\ Rank(i)' = Number(s) /\ i \in Nat
      BY <1>1, <1>2, <1>5, <2>2
    <3>2. \/ Number(s) = Expected(u)'
          \/ \E j \in DOMAIN chan' : /\ j < i /\ chan'[j].file = u
                                     /\ Number(s) = Rank(j)' + 1
      BY <1>11, <1>12, <2>0, <2>2, <3>1
    <3> QED
      BY <3>1, <3>2 DEF GoesOn
  <2> QED
    BY <1>2, <2>1, <2>2
<1>14. SenderIsNext'
  <2> SUFFICES ASSUME NEW u \in Honest, NEW r \in Threads,
                      sender'[r].file = u
               PROVE  /\ sender'[r].next <= Len(offered'[u]) + 1
                      /\ rcvOpen =>
                           /\ \A i \in DOMAIN chan' :
                                chan'[i].file = u => Rank(i)' < sender'[r].next
                           /\ verdict[u] # "blocked" =>
                                GoesOn(u, sender[r].next, Len(chan) + 1)'
    BY <1>1, <1>3 DEF SenderIsNext
  <2>0. u \in Transfers
    BY DEF Honest
  <2>1. CASE r # s
    <3>1. sender'[r] = sender[r] /\ u # t /\ offered'[u] = offered[u]
      BY <1>3, <2>0, <2>1
    <3>2. \A i \in DOMAIN chan' : chan'[i].file = u => i \in DOMAIN chan
      BY <1>1, <1>2, <3>1
    <3>3. \A i \in DOMAIN chan' :
            rcvOpen /\ chan'[i].file = u => Rank(i)' < sender'[r].next
      BY <1>2, <1>3, <1>5, <3>1, <3>2 DEF SenderIsNext
    <3>4. ASSUME rcvOpen, verdict[u] # "blocked"
          PROVE  GoesOn(u, sender[r].next, Len(chan) + 1)'
      <4>1. GoesOn(u, sender[r].next, last)
        BY <1>0, <1>3, <3>1, <3>4 DEF SenderIsNext
      <4>2. Len(chan') + 1 \in Nat
        BY <1>2
      <4>3. \/ sender[r].next = Expected(u)'
            \/ \E j \in DOMAIN chan' : /\ j < Len(chan') + 1
                                       /\ chan'[j].file = u
                                       /\ sender[r].next = Rank(j)' + 1
        BY <1>2, <1>11, <2>0, <4>1, <4>2
      <4> QED
        BY <3>1, <4>3 DEF GoesOn
    <3>5. sender'[r].next <= Len(offered'[u]) + 1
      BY <3>1 DEF SenderIsNext
    <3> QED
      BY <3>3, <3>4, <3>5
  <2>2. CASE r = s
    <3>1. u = t /\ m.kind # "complete" /\ sender'[s].next = Number(s) + 1
      <4>1. u # NoTransfer
        BY <2>0, ConstantsAssumption
      <4> QED
        BY <2>2, <4>1 DEF Sent, SentHonest
    <3>2. Number(s) + 1 <= Len(offered'[t]) + 1
      BY <1>1, <1>4, <3>1
    <3>3. ASSUME NEW i \in DOMAIN chan', rcvOpen, chan'[i].file = u
          PROVE  Rank(i)' < Number(s) + 1
      <4>1. CASE i \in DOMAIN chan
        BY <1>2, <1>4, <1>5, <1>9, <3>1, <3>3, <4>1
      <4>2. CASE i = last
        BY <1>4, <1>5, <3>1, <3>3, <4>2
      <4> QED
        BY <1>2, <4>1, <4>2
    <3>4. ASSUME rcvOpen PROVE GoesOn(u, sender[r].next, Len(chan) + 1)'
      <4>1. last \in DOMAIN chan' /\ chan'[last] = m /\ last < Len(chan') + 1
        BY <1>2, <3>4
      <4>2. sender'[r].next = Rank(last)' + 1
        BY <1>5, <2>2, <3>1, <3>4
      <4> QED
        BY <1>1, <3>1, <4>1, <4>2 DEF GoesOn
    <3> QED
      BY <2>2, <3>1, <3>2, <3>3, <3>4
  <2> QED
    BY <2>1, <2>2
<1> QED
  BY <1>6, <1>7, <1>8, <1>10, <1>13, <1>14

\* Both together: a message that is sent in turn keeps the invariant.
LEMMA SentPreservesIInv ==
  ASSUME IInv, NEW s \in Threads, NEW t \in Transfers, NEW m,
         Sent(s, t, m), SentHonest(s, t, m)
  PROVE  IInv'
BY SentKeepsOrder, SentKeepsHonesty DEF IInv

\* The offer: the first message of its file, with the size of the document.
LEMMA SendOfferPreservesIInv ==
  ASSUME IInv, NEW s \in Threads, NEW t \in Transfers, SendOffer(s, t)
  PROVE  IInv'
<1> DEFINE m == [kind |-> "offer", file |-> t, size |-> Len(source[t])]
<1>1. /\ source[t] \in Contents /\ source[t] # NoContent
      /\ sender \in [Threads -> SenderState]
      /\ offered \in [Transfers -> Contents \cup {NoContent}]
      /\ t # NoTransfer
  BY ConstantsAssumption DEF IInv, TypeOK, SenderState
<1>2. m \in Messages
  BY <1>1 DEF Messages, Sizes
<1>3. /\ sender'[s].file = t /\ sender'[s].next = 1
      /\ \A r \in Threads \ {s} : sender'[r] = sender[r]
      /\ sender' \in [Threads -> SenderState]
      /\ sender[s].file = NoTransfer
  <2>1. /\ sender' = [sender EXCEPT ![s] = [sender[s] EXCEPT !.file = t,
                                                             !.next = 1]]
        /\ sender[s].file = NoTransfer
    BY <1>1 DEF SendOffer, Sends
  <2> DEFINE r == [sender[s] EXCEPT !.file = t, !.next = 1]
  <2>2. r \in SenderState /\ r.file = t /\ r.next = 1
    <3>1. ASSUME NEW x \in SenderState
          PROVE  [x EXCEPT !.file = t] \in SenderState
      BY <3>1 DEF SenderState
    <3>2. ASSUME NEW x \in SenderState
          PROVE  [x EXCEPT !.next = 1] \in SenderState
      BY <3>2 DEF SenderState
    <3>3. sender[s] \in SenderState
      BY <1>1
    <3>4. r \in SenderState
      BY <3>1, <3>2, <3>3
    <3>5. r.file = t /\ r.next = 1
      BY <3>3 DEF SenderState
    <3> QED
      BY <3>4, <3>5
  <2>3. sender' = [sender EXCEPT ![s] = r]
    BY <2>1
  <2> HIDE DEF r
  <2> QED
    BY <1>1, <2>1, <2>2, <2>3
<1>4. /\ offered'[t] = source[t]
      /\ \A u \in Transfers \ {t} : offered'[u] = offered[u]
      /\ offered' \in [Transfers -> Contents \cup {NoContent}]
  BY <1>1 DEF SendOffer
<1>5. Sent(s, t, m)
  BY <1>1, <1>2, <1>3, <1>4 DEF Sent, SendOffer, Sends
<1>6. SentHonest(s, t, m)
  BY <1>1, <1>3, <1>4 DEF SentHonest, Number
<1> HIDE DEF m
<1> QED
  BY <1>5, <1>6, SentPreservesIInv

\* A chunk: the next unit of the document, as it is when it is read.
LEMMA SendChunkPreservesIInv ==
  ASSUME IInv, NEW s \in Threads, NEW t \in Transfers, SendChunk(s, t)
  PROVE  IInv'
<1> DEFINE m == [kind |-> "chunk", file |-> t, offset |-> sender[s].next - 1,
                 data |-> source[t][sender[s].next]]
<1>1. /\ source[t] \in Seq(Nat) /\ Len(source[t]) \in Nat
      /\ sender \in [Threads -> SenderState]
      /\ sender[s].next \in Nat \ {0}
      /\ offered \in [Transfers -> Contents \cup {NoContent}]
      /\ t # NoTransfer
  BY ConstantsAssumption DEF IInv, TypeOK, SenderState
<1>2. sender[s].next <= Len(source[t]) /\ sender[s].file = t /\ sndOpen
  BY DEF SendChunk, Sends
<1>3. m \in Messages
  <2>1. source[t][sender[s].next] \in Nat /\ sender[s].next - 1 \in Nat
    BY <1>1, <1>2
  <2> QED
    BY <2>1 DEF Messages
<1>4. /\ sender'[s].file = t /\ sender'[s].next = sender[s].next + 1
      /\ \A r \in Threads \ {s} : sender'[r] = sender[r]
      /\ sender' \in [Threads -> SenderState]
  <2>1. /\ sender'[s] = [sender[s] EXCEPT !.next = @ + 1]
        /\ \A r \in Threads \ {s} : sender'[r] = sender[r]
    BY <1>1 DEF SendChunk
  <2>2. sender[s] \in SenderState
    BY <1>1
  <2>3. /\ sender'[s].file = t /\ sender'[s].next = sender[s].next + 1
        /\ sender'[s] \in SenderState
    BY <1>1, <1>2, <2>1, <2>2 DEF SenderState
  <2> QED
    BY <1>1, <2>1, <2>3 DEF SendChunk
<1>5. offered[t] # NoContent /\ offered' = offered
  BY <1>2 DEF IInv, Begun, SendChunk
<1>6. Sent(s, t, m)
  BY <1>1, <1>2, <1>3, <1>4, <1>5 DEF Sent, SendChunk
<1>7. SentHonest(s, t, m)
  <2>1. ASSUME t \in Honest PROVE source[t] = offered'[t]
    BY <1>5, <2>1 DEF IInv, SourceKept
  <2>2. (sender[s].next - 1) + 1 = sender[s].next
        /\ sender[s].next - 1 < Len(source[t])
    BY <1>1, <1>2
  <2> QED
    BY <1>1, <1>2, <1>4, <2>1, <2>2 DEF SentHonest, Number
<1> HIDE DEF m
<1> QED
  BY <1>6, <1>7, SentPreservesIInv

\* The completion: the last message, with the digest of what was offered.
LEMMA SendCompletePreservesIInv ==
  ASSUME IInv, NEW s \in Threads, NEW t \in Transfers, SendComplete(s, t)
  PROVE  IInv'
<1> DEFINE m == [kind |-> "complete", file |-> t, digest |-> offered[t]]
<1>1. /\ Len(source[t]) \in Nat
      /\ sender \in [Threads -> SenderState]
      /\ sender[s].next \in Nat \ {0}
      /\ offered \in [Transfers -> Contents \cup {NoContent}]
      /\ t # NoTransfer
  BY ConstantsAssumption DEF IInv, TypeOK, SenderState
<1>2. sender[s].next > Len(source[t]) /\ sender[s].file = t /\ sndOpen
  BY DEF SendComplete, Sends
<1>3. offered[t] # NoContent /\ offered' = offered
  BY <1>2 DEF IInv, Begun, SendComplete
<1>4. m \in Messages
  BY <1>1, <1>3 DEF Messages
<1>5. /\ sender'[s].file = NoTransfer
      /\ \A r \in Threads \ {s} : sender'[r] = sender[r]
      /\ sender' \in [Threads -> SenderState]
  BY <1>1 DEF SendComplete, Idle, SenderState
<1>6. Sent(s, t, m)
  BY <1>1, <1>2, <1>3, <1>4, <1>5 DEF Sent, SendComplete
<1>7. SentHonest(s, t, m)
  <2>1. ASSUME t \in Honest
        PROVE  source[t] = offered'[t] /\ sender[s].next = Len(source[t]) + 1
    <3>1. source[t] = offered[t] /\ sender[s].next <= Len(offered[t]) + 1
      BY <1>2, <1>3, <2>1 DEF IInv, SourceKept, SenderIsNext
    <3> QED
      BY <1>1, <1>2, <1>3, <3>1
  <2> QED
    BY <1>1, <1>2, <1>5, <2>1 DEF SentHonest, Number
<1> HIDE DEF m
<1> QED
  BY <1>6, <1>7, SentPreservesIInv

-----------------------------------------------------------------------------
(* Senders that fail, files that change, sessions that open and close.     *)

\* A thread that gives up a file sends nothing more of it.
LEMMA SendFailsPreservesIInv ==
  ASSUME IInv, NEW s \in Threads, NEW t \in Transfers, SendFails(s, t)
  PROVE  IInv'
<1> USE DEF IInv
<1>1. /\ UNCHANGED <<side, sessions, rcvOpen, chan, source, name, offered,
                     edited>>
      /\ UNCHANGED <<active, parts, disk, seen, verdict, got>>
      /\ Threads' = Threads /\ Honest' = Honest /\ sndOpen
  BY DEF SendFails, Sends, receipts, Threads, Honest
<1>2. /\ sender'[s].file = NoTransfer
      /\ \A r \in Threads \ {s} : sender'[r] = sender[r]
      /\ sender' \in [Threads -> SenderState]
      /\ sndOpen' \in BOOLEAN
  <2>1. sender \in [Threads -> SenderState]
    BY DEF TypeOK, SenderState
  <2>2. (s = "writer") \in BOOLEAN /\ (s # "reader") \in BOOLEAN
    OBVIOUS
  <2>3. PICK b \in BOOLEAN : sender' = [sender EXCEPT ![s] = [Idle EXCEPT !.alive = b]]
    BY <2>2 DEF SendFails
  <2>4. [Idle EXCEPT !.alive = b] \in SenderState
        /\ [Idle EXCEPT !.alive = b].file = NoTransfer
    BY DEF Idle, SenderState
  <2>5. sndOpen' \in BOOLEAN
    BY <2>2 DEF SendFails
  <2> QED
    BY <2>1, <2>3, <2>4, <2>5
<1>3. TypeOK'
  BY <1>1, <1>2 DEF TypeOK, SenderState
<1>4. /\ \A i \in DOMAIN chan : chan[i].file \in Transfers
      /\ \A u \in Transfers : u # NoTransfer
  BY KindsOfMessages, ConstantsAssumption DEF TypeOK
<1>5. /\ ClosedIsEmpty' /\ Begun' /\ OneSender' /\ OfferIsFirst' /\ Settled'
      /\ Digests' /\ DiskIsOwned' /\ FreshPath' /\ NoFalseRefusal'
  BY <1>1, <1>2, <1>4
  DEF ClosedIsEmpty, Begun, OneSender, OfferIsFirst, Settled, Digests,
      DiskIsOwned, FreshPath, NoFalseRefusal
<1>6. InTurn' /\ SavedIsLast'
  BY <1>1, <1>2, <1>4 DEF InTurn, SavedIsLast
<1>7. SourceKept' /\ HonestMessages' /\ HonestParts'
  BY <1>1 DEF SourceKept, HonestMessages, HonestParts
<1>8. /\ \A i \in DOMAIN chan : Rank(i)' = Rank(i)
      /\ \A u \in Transfers : Expected(u)' = Expected(u)
      /\ Honest \subseteq Transfers
  BY <1>1 DEF Rank, Expected, Honest
<1>9. Increasing' /\ Gapless'
  BY <1>1, <1>8 DEF Increasing, Gapless, GoesOn
<1>10. SenderIsNext'
  <2> SUFFICES ASSUME NEW u \in Honest, NEW r \in Threads \ {s},
                      sender[r].file = u
               PROVE  /\ sender[r].next <= Len(offered[u]) + 1
                      /\ rcvOpen =>
                         /\ \A i \in DOMAIN chan :
                              chan[i].file = u => Rank(i)' < sender[r].next
                         /\ verdict[u] # "blocked" =>
                              \/ sender[r].next = Expected(u)'
                              \/ \E j \in DOMAIN chan :
                                   /\ j < Len(chan) + 1 /\ chan[j].file = u
                                   /\ sender[r].next = Rank(j)' + 1
    BY <1>1, <1>2, <1>4, <1>8 DEF SenderIsNext, GoesOn
  <2> QED
    BY <1>1, <1>8 DEF SenderIsNext, GoesOn
<1> QED
  BY <1>3, <1>5, <1>6, <1>7, <1>9, <1>10

\* An edited document is honest no longer, and the rest does not mention it.
LEMMA EditSourcePreservesIInv ==
  ASSUME IInv, NEW t \in Transfers, EditSource(t) PROVE IInv'
<1> USE DEF IInv
<1>1. /\ UNCHANGED <<side, sessions, sndOpen, rcvOpen, chan, sender, name,
                     offered>>
      /\ UNCHANGED <<active, parts, disk, seen, verdict, got>>
      /\ Threads' = Threads /\ edited' = edited \cup {t}
      /\ Honest' \subseteq Honest /\ t \notin Honest' /\ Honest \subseteq Transfers
  BY DEF EditSource, ends, receipts, Threads, Honest
<1>2. /\ source' \in [Transfers -> Contents]
      /\ \A u \in Transfers \ {t} : source'[u] = source[u]
  BY DEF EditSource, TypeOK
<1>3. TypeOK'
  BY <1>1, <1>2 DEF TypeOK
<1>4. /\ ClosedIsEmpty' /\ Begun' /\ OneSender' /\ InTurn' /\ OfferIsFirst'
      /\ Settled' /\ SavedIsLast' /\ Digests' /\ DiskIsOwned' /\ FreshPath'
      /\ NoFalseRefusal'
  BY <1>1
  DEF ClosedIsEmpty, Begun, OneSender, InTurn, OfferIsFirst, Settled,
      SavedIsLast, Digests, DiskIsOwned, FreshPath, NoFalseRefusal
<1>5. SourceKept' /\ HonestMessages' /\ HonestParts'
  BY <1>1, <1>2 DEF SourceKept, HonestMessages, HonestParts
<1>6. /\ \A i \in DOMAIN chan : Rank(i)' = Rank(i)
      /\ \A u \in Transfers : Expected(u)' = Expected(u)
  BY <1>1 DEF Rank, Expected
<1>7. Increasing' /\ Gapless' /\ SenderIsNext'
  BY <1>1, <1>6 DEF Increasing, Gapless, SenderIsNext, GoesOn
<1> QED
  BY <1>3, <1>4, <1>5, <1>7

\* A session begins: senders that have nothing in hand, a channel of its own.
LEMMA OpenSessionPreservesIInv == ASSUME IInv, OpenSession PROVE IInv'
<1> USE DEF IInv
<1>1. /\ UNCHANGED <<side, chan, source, name, offered, edited>>
      /\ UNCHANGED <<active, parts, disk, seen, verdict, got>>
      /\ Threads' = Threads /\ Honest' = Honest /\ Honest \subseteq Transfers
      /\ sndOpen' = TRUE /\ rcvOpen' = TRUE
  BY DEF OpenSession, receipts, Threads, Honest
<1>2. /\ \A s \in Threads : sender'[s].file = NoTransfer
      /\ sender' \in [Threads -> SenderState]
      /\ \A u \in Transfers : u # NoTransfer
  BY ConstantsAssumption DEF OpenSession, Idle, SenderState
<1>3. chan = <<>> /\ chan' = <<>>
  BY <1>1 DEF OpenSession, ClosedIsEmpty
<1>4. TypeOK'
  <2>1. sessions' \in 0..MaxSessions
    BY ConstantsAssumption DEF OpenSession, TypeOK
  <2> QED
    BY <1>1, <1>2, <2>1 DEF TypeOK, SenderState
<1>5. /\ ClosedIsEmpty' /\ OfferIsFirst' /\ Digests' /\ HonestMessages'
      /\ InTurn' /\ Increasing' /\ Gapless'
  <2>1. DOMAIN chan' = {}
    BY <1>3
  <2> QED
    BY <1>3, <2>1 DEF ClosedIsEmpty, OfferIsFirst, Digests, HonestMessages, InTurn,
                    Increasing, Gapless
<1>6. Begun' /\ OneSender' /\ SavedIsLast'
  <2>1. DOMAIN chan' = {}
    BY <1>3
  <2> QED
    BY <1>1, <1>2, <2>1 DEF Begun, OneSender, SavedIsLast
<1>7. /\ Settled' /\ DiskIsOwned' /\ FreshPath' /\ NoFalseRefusal'
      /\ SourceKept' /\ HonestParts'
  BY <1>1 DEF Settled, DiskIsOwned, FreshPath, NoFalseRefusal, SourceKept,
              HonestParts
<1>8. SenderIsNext'
  BY <1>1, <1>2 DEF SenderIsNext
<1> QED
  BY <1>4, <1>5, <1>6, <1>7, <1>8

\* The sender's end closes: what the channel held may be lost, from its end.
LEMMA SenderClosesPreservesIInv == ASSUME IInv, SenderCloses PROVE IInv'
<1> USE DEF IInv
<1>1. /\ UNCHANGED <<side, sessions, rcvOpen, sender, source, name, offered,
                     edited>>
      /\ UNCHANGED <<active, parts, disk, seen, verdict, got>>
      /\ Threads' = Threads /\ Honest' = Honest /\ Honest \subseteq Transfers
      /\ sndOpen' = FALSE
  BY DEF SenderCloses, sending, receipts, Threads, Honest
<1>2. /\ chan' \in Seq(Messages) /\ Len(chan') <= Capacity
      /\ chan = <<>> => chan' = <<>>
      /\ \A i \in DOMAIN chan' : /\ i \in DOMAIN chan /\ chan'[i] = chan[i]
                                 /\ \A j \in DOMAIN chan : j < i
                                      => j \in DOMAIN chan'
  BY CutOff DEF SenderCloses
<1>3. TypeOK'
  BY <1>1, <1>2 DEF TypeOK
<1>4. /\ ClosedIsEmpty' /\ OfferIsFirst' /\ Digests' /\ HonestMessages'
      /\ InTurn' /\ Begun' /\ OneSender' /\ SavedIsLast'
  BY <1>1, <1>2 DEF ClosedIsEmpty, OfferIsFirst, Digests, HonestMessages,
                    InTurn, Begun, OneSender, SavedIsLast
<1>5. /\ Settled' /\ DiskIsOwned' /\ FreshPath' /\ NoFalseRefusal'
      /\ SourceKept' /\ HonestParts'
  BY <1>1 DEF Settled, DiskIsOwned, FreshPath, NoFalseRefusal, SourceKept,
              HonestParts
<1>6. /\ \A i \in DOMAIN chan' : Rank(i)' = Rank(i)
      /\ \A u \in Transfers : Expected(u)' = Expected(u)
  BY <1>1, <1>2 DEF Rank, Expected
<1>7. Increasing'
  BY <1>1, <1>2, <1>6 DEF Increasing
<1>8. Gapless'
  BY <1>1, <1>2, <1>6 DEF Gapless, GoesOn
<1>9. SenderIsNext'
  BY <1>1 DEF SenderIsNext
<1> QED
  BY <1>3, <1>4, <1>5, <1>7, <1>8, <1>9

\* The receiver goes, and may take entries of its table with it.
LEMMA ReceiverGoesPreservesIInv ==
  ASSUME IInv, rcvOpen' = FALSE, chan' = <<>>,
         DOMAIN active' \subseteq DOMAIN active,
         active' = [t \in DOMAIN active' |-> active[t]],
         UNCHANGED <<side, sessions, sndOpen, sending>>,
         UNCHANGED <<parts, disk, seen, verdict, got>>
  PROVE  IInv'
<1> USE DEF IInv
<1>1. /\ UNCHANGED <<sender, source, name, offered, edited>>
      /\ Threads' = Threads /\ Honest' = Honest /\ Honest \subseteq Transfers
      /\ DOMAIN chan' = {}
      /\ \A t \in DOMAIN active' : active'[t] = active[t]
  BY DEF sending, Threads, Honest
<1>2. TypeOK'
  <2>1. IsPartial(active, Transfers, [size : Sizes, bytes : Nat, path : Paths])'
    BY DEF TypeOK, IsPartial, Sizes, Paths, Limit
  <2>2. chan' \in Seq(Messages) /\ Len(chan') <= Capacity
    BY ConstantsAssumption
  <2>3. IsPartial(parts, Transfers, Seq(Nat))'
        /\ IsPartial(disk, Paths, [by : Transfers, content : Contents])'
    BY DEF TypeOK, IsPartial
  <2> QED
    BY <1>1, <2>1, <2>2, <2>3 DEF TypeOK
<1>3. /\ ClosedIsEmpty' /\ OfferIsFirst' /\ Digests' /\ HonestMessages'
      /\ InTurn' /\ Increasing' /\ Gapless'
  BY <1>1 DEF ClosedIsEmpty, OfferIsFirst, Digests, HonestMessages, InTurn,
              Increasing, Gapless
<1>4. Begun' /\ OneSender' /\ SavedIsLast' /\ Settled'
  BY <1>1 DEF Begun, OneSender, SavedIsLast, Settled
<1>5. DiskIsOwned' /\ FreshPath' /\ NoFalseRefusal' /\ SourceKept' /\ HonestParts'
  BY <1>1 DEF DiskIsOwned, FreshPath, NoFalseRefusal, SourceKept, HonestParts
<1>6. SenderIsNext'
  BY <1>1 DEF SenderIsNext
<1> QED
  BY <1>2, <1>3, <1>4, <1>5, <1>6

\* The receiver's end closes, or a handler throws: part files may stay
\* behind.
LEMMA EndReceiverPreservesIInv ==
  ASSUME IInv, ReceiverCloses \/ ReceiverThrows
  PROVE  IInv'
<1>1. /\ rcvOpen' = FALSE /\ chan' = <<>>
      /\ UNCHANGED <<side, sessions, sndOpen, sending>>
      /\ UNCHANGED <<parts, disk, seen, verdict, got>>
      /\ \/ active' = <<>> \/ active' = active
         \/ active' = Without(active, File)
  BY DEF ReceiverCloses, ReceiverThrows, EndReceiver
<1>2. active = [u \in DOMAIN active |-> active[u]]
  BY DEF IInv, TypeOK, IsPartial
<1>3. /\ DOMAIN active' \subseteq DOMAIN active
      /\ active' = [u \in DOMAIN active' |-> active[u]]
  <2>1. CASE active' = <<>>
    <3>1. DOMAIN active' = {}
      BY <2>1
    <3>2. active' = [u \in {} |-> active[u]]
      BY <2>1
    <3> QED
      BY <3>1, <3>2
  <2>2. CASE active' = active
    BY <1>2, <2>2
  <2>3. CASE active' = Without(active, File)
    BY <2>3 DEF Without
  <2> QED
    BY <1>1, <2>1, <2>2, <2>3
<1> QED
  BY <1>1, <1>3, ReceiverGoesPreservesIInv

-----------------------------------------------------------------------------
(* The receiver's steps.                                                   *)

\* What they have in common: the first message, of transfer t, is handled,
\* and nothing is changed that belongs to another transfer.
Received(t) ==
  /\ rcvOpen /\ chan # <<>> /\ t = chan[1].file
  /\ chan' = Tail(chan)
  /\ UNCHANGED <<ends, sending>>
  /\ \A u \in Transfers \ {t} :
       /\ u \in DOMAIN active' <=> u \in DOMAIN active
       /\ u \in DOMAIN active => active'[u] = active[u]
       /\ u \in DOMAIN parts' <=> u \in DOMAIN parts
       /\ u \in DOMAIN parts => parts'[u] = parts[u]
       /\ verdict'[u] = verdict[u]
  /\ verdict[t] = "blocked" => verdict'[t] = "blocked"

\* What is owed to t itself.
ReceivedWell(t) ==
  /\ verdict'[t] # "none" => t \notin DOMAIN active'
  /\ verdict'[t] = "saved" => chan[1].kind = "complete"
  /\ verdict'[t] = "failed" => t \in edited
  /\ t \in Honest /\ t \in DOMAIN active' =>
       /\ active'[t].size = Len(offered[t])
       /\ active'[t].bytes = 0 <=> t \notin DOMAIN parts'
       /\ t \in DOMAIN parts' =>
            /\ Len(parts'[t]) = active'[t].bytes
            /\ \A k \in 1..active'[t].bytes : parts'[t][k] = offered[t][k]
  /\ t \in Honest /\ verdict'[t] # "blocked" =>
       \/ Expected(t)' = Rank(1) + 1
       \/ chan[1].kind = "complete"

\* The message at the head is one of a transfer that was offered.
LEMMA HeadIsTyped ==
  ASSUME IInv, chan # <<>>
  PROVE  /\ chan[1] \in Messages /\ Head(chan) = chan[1]
         /\ 1 \in DOMAIN chan /\ DOMAIN chan \subseteq Nat \ {0}
         /\ chan[1].file \in Transfers
         /\ offered[chan[1].file] # NoContent
<1>1. chan \in Seq(Messages) /\ Len(chan) \in Nat /\ Len(chan) # 0
  BY DEF IInv, TypeOK
<1>2. /\ chan[1] \in Messages /\ Head(chan) = chan[1]
      /\ 1 \in DOMAIN chan /\ DOMAIN chan \subseteq Nat \ {0}
  BY <1>1
<1> QED
  BY <1>2, KindsOfMessages DEF IInv, Begun

\* The first message of an honest transfer is the one that is expected.
LEMMA HeadIsExpected ==
  ASSUME IInv, chan # <<>>, NEW t \in Honest, t = chan[1].file,
         verdict[t] # "blocked"
  PROVE  Rank(1) = Expected(t)
<1>1. 1 \in DOMAIN chan /\ \A j \in DOMAIN chan : ~(j < 1)
  BY HeadIsTyped
<1> QED
  BY <1>1 DEF IInv, Gapless, GoesOn

\* Whatever the handler does of this kind with the message at the head keeps
\* the invariant.
LEMMA ReceivedPreservesIInv ==
  ASSUME IInv, NEW t \in Transfers, Received(t), ReceivedWell(t),
         TypeOK', DiskIsOwned', FreshPath'
  PROVE  IInv'
<1> USE DEF IInv
<1>1. /\ UNCHANGED <<side, sessions, sndOpen, rcvOpen>>
      /\ UNCHANGED <<sender, source, name, offered, edited>>
      /\ Threads' = Threads /\ Honest' = Honest /\ Honest \subseteq Transfers
      /\ rcvOpen
  BY DEF Received, ends, sending, Threads, Honest
<1>2. /\ Len(chan') + 1 = Len(chan)
      /\ Len(chan) \in Nat /\ Len(chan') \in Nat
      /\ 1 \in DOMAIN chan /\ chan[1].file = t
      /\ \A i \in DOMAIN chan' : /\ i \in Nat /\ i + 1 \in DOMAIN chan
                                 /\ chan'[i] = chan[i + 1]
      /\ \A i \in DOMAIN chan :
           /\ i \in Nat
           /\ i = 1 \/ (i - 1 \in DOMAIN chan' /\ chan[i] = chan'[i - 1])
  BY Taken DEF Received
<1>3. DOMAIN chan \subseteq Nat \ {0} /\ DOMAIN chan' \subseteq Nat \ {0}
  <2>1. chan \in Seq(Messages) /\ chan' \in Seq(Messages)
    BY DEF TypeOK
  <2> QED
    BY <2>1
<1>4. /\ \A u \in Transfers \ {t} :
           /\ u \in DOMAIN active' <=> u \in DOMAIN active
           /\ u \in DOMAIN active => active'[u] = active[u]
           /\ u \in DOMAIN parts' <=> u \in DOMAIN parts
           /\ u \in DOMAIN parts => parts'[u] = parts[u]
           /\ verdict'[u] = verdict[u]
      /\ offered[t] # NoContent
  BY HeadIsTyped DEF Received
<1>5. ClosedIsEmpty' /\ OneSender' /\ SourceKept'
  BY <1>1 DEF ClosedIsEmpty, OneSender, SourceKept
<1>6. Begun'
  BY <1>1, <1>2, <1>4 DEF Begun
<1>7. InTurn'
  <2>1. ASSUME NEW i \in DOMAIN chan', NEW j \in DOMAIN chan', i < j,
               chan'[i].file = chan'[j].file
        PROVE  chan'[i].kind # "complete" /\ chan'[j].kind # "offer"
    <3>1. /\ i + 1 \in DOMAIN chan /\ j + 1 \in DOMAIN chan /\ i + 1 < j + 1
          /\ chan'[i] = chan[i + 1] /\ chan'[j] = chan[j + 1]
      BY <1>2, <2>1
    <3> QED
      BY <2>1, <3>1 DEF InTurn
  <2> QED
    BY <1>1, <1>2, <2>1 DEF InTurn
<1>8. OfferIsFirst'
  <2> SUFFICES ASSUME NEW i \in DOMAIN chan', chan'[i].kind = "offer"
               PROVE  /\ verdict'[chan'[i].file] = "none"
                      /\ chan'[i].file \notin DOMAIN active'
    BY DEF OfferIsFirst
  <2>1. /\ i + 1 \in DOMAIN chan /\ chan'[i] = chan[i + 1] /\ 1 < i + 1
    BY <1>2, <1>3
  <2>2. chan'[i].file # t
    BY <1>2, <2>1 DEF InTurn
  <2>3. chan'[i].file \in Transfers
    BY KindsOfMessages DEF TypeOK
  <2> QED
    BY <1>4, <2>1, <2>2, <2>3 DEF OfferIsFirst
<1>9. Settled' /\ NoFalseRefusal'
  BY <1>1, <1>4 DEF Settled, NoFalseRefusal, ReceivedWell
<1>10. SavedIsLast'
  <2> SUFFICES ASSUME NEW u \in Transfers, verdict'[u] = "saved"
               PROVE  /\ \A i \in DOMAIN chan' : chan'[i].file # u
                      /\ sndOpen => \A s \in Threads : sender[s].file # u
    BY <1>1 DEF SavedIsLast
  <2>1. CASE u = t
    <3>1. chan[1].kind = "complete"
      BY <2>1 DEF ReceivedWell
    <3>2. \A i \in DOMAIN chan' : i + 1 \in DOMAIN chan /\ 1 < i + 1
      BY <1>2, <1>3
    <3> QED
      BY <1>2, <2>1, <3>1, <3>2 DEF InTurn
  <2>2. CASE u # t
    BY <1>1, <1>2, <1>4, <2>2 DEF SavedIsLast
  <2> QED
    BY <2>1, <2>2
<1>11. Digests' /\ HonestMessages'
  BY <1>1, <1>2 DEF Digests, HonestMessages
<1>12. HonestParts'
  <2> SUFFICES ASSUME NEW u \in Honest, u \in DOMAIN active'
               PROVE  /\ active'[u].size = Len(offered[u])
                      /\ active'[u].bytes = 0 <=> u \notin DOMAIN parts'
                      /\ u \in DOMAIN parts' =>
                           /\ Len(parts'[u]) = active'[u].bytes
                           /\ \A k \in 1..active'[u].bytes :
                                parts'[u][k] = offered[u][k]
    BY <1>1 DEF HonestParts
  <2>1. CASE u = t
    BY <2>1 DEF ReceivedWell
  <2>2. CASE u # t
    BY <1>1, <1>4, <2>2 DEF HonestParts
  <2> QED
    BY <2>1, <2>2
<1>13. \A i \in DOMAIN chan' : Rank(i)' = Rank(i + 1) /\ Rank(i + 1) \in Nat
  <2>1. \A i \in DOMAIN chan' : Rank(i)' = Rank(i + 1)
    BY <1>1, <1>2 DEF Rank
  <2> QED
    BY <1>2, <2>1, RankIsNumber
<1>14. Increasing'
  <2> SUFFICES ASSUME NEW u \in Honest, NEW i \in DOMAIN chan',
                      NEW j \in DOMAIN chan', i < j,
                      chan'[i].file = u, chan'[j].file = u
               PROVE  Rank(i)' < Rank(j)'
    BY <1>1 DEF Increasing
  <2>1. /\ i + 1 \in DOMAIN chan /\ j + 1 \in DOMAIN chan /\ i + 1 < j + 1
        /\ chan'[i] = chan[i + 1] /\ chan'[j] = chan[j + 1]
    BY <1>2
  <2>2. Rank(i + 1) < Rank(j + 1)
    BY <2>1 DEF Increasing
  <2> QED
    BY <1>13, <2>2
<1>15. ASSUME NEW u \in Honest, NEW number, NEW k \in Nat,
              GoesOn(u, number, k + 1), verdict'[u] # "blocked",
              u = t => number # Expected(t) /\ chan[1].kind # "complete"
       PROVE  \/ number = Expected(u)'
              \/ \E j \in DOMAIN chan' : /\ j < k /\ chan'[j].file = u
                                         /\ number = Rank(j)' + 1
  <2>1. CASE u # t
    <3>1. Expected(u)' = Expected(u)
      BY <1>1, <1>4, <2>1 DEF Expected
    <3>2. ASSUME NEW j \in DOMAIN chan, j < k + 1, chan[j].file = u
          PROVE  /\ j - 1 \in DOMAIN chan' /\ j - 1 < k
                 /\ chan'[j - 1].file = u /\ Rank(j - 1)' = Rank(j)
      <4>1. j # 1 /\ j \in Nat
        BY <1>2, <2>1, <3>2
      <4>2. j - 1 \in DOMAIN chan' /\ chan[j] = chan'[j - 1] /\ j - 1 < k
        BY <1>2, <3>2, <4>1
      <4>3. (j - 1) + 1 = j
        BY <4>1
      <4> QED
        BY <1>13, <3>2, <4>2, <4>3
    <3> QED
      BY <1>15, <3>1, <3>2 DEF GoesOn
  <2>2. CASE u = t
    <3>1. Expected(u)' = Rank(1) + 1
      BY <1>15, <2>2 DEF ReceivedWell
    <3>2. PICK j \in DOMAIN chan : /\ j < k + 1 /\ chan[j].file = u
                                   /\ number = Rank(j) + 1
      BY <1>15, <2>2 DEF GoesOn
    <3>3. CASE j = 1
      BY <3>1, <3>2, <3>3
    <3>4. CASE j # 1
      <4>1. /\ j - 1 \in DOMAIN chan' /\ chan[j] = chan'[j - 1] /\ j - 1 < k
            /\ (j - 1) + 1 = j
        BY <1>2, <3>2, <3>4
      <4>2. Rank(j - 1)' = Rank(j)
        BY <1>13, <4>1
      <4> QED
        BY <3>2, <4>1, <4>2
    <3> QED
      BY <3>3, <3>4
  <2> QED
    BY <2>1, <2>2
<1>16. verdict'[t] # "blocked" => verdict[t] # "blocked"
  BY DEF Received
<1>17. ASSUME t \in Honest, verdict'[t] # "blocked"
       PROVE  Rank(1) = Expected(t) /\ Rank(1) \in Nat
  BY <1>2, <1>16, <1>17, HeadIsExpected, RankIsNumber DEF Received
<1>18. Gapless'
  <2> SUFFICES ASSUME NEW u \in Honest, NEW i \in DOMAIN chan',
                      chan'[i].file = u, verdict'[u] # "blocked"
               PROVE  GoesOn(u, Rank(i), i)'
    BY <1>1 DEF Gapless
  <2>1. /\ i + 1 \in DOMAIN chan /\ chan[i + 1] = chan'[i] /\ 1 < i + 1
        /\ i \in Nat
    BY <1>2, <1>3
  <2>2. verdict[u] # "blocked"
    BY <1>4, <1>16, <1>1
  <2>3. GoesOn(u, Rank(i + 1), i + 1)
    BY <2>1, <2>2 DEF Gapless
  <2>4. u = t => Rank(i + 1) # Expected(t) /\ chan[1].kind # "complete"
    <3> SUFFICES ASSUME u = t
                 PROVE  Rank(i + 1) # Expected(t) /\ chan[1].kind # "complete"
      OBVIOUS
    <3>1. Rank(1) < Rank(i + 1)
      BY <1>2, <2>1 DEF Increasing
    <3>2. Rank(1) = Expected(t) /\ Rank(1) \in Nat /\ Rank(i + 1) \in Nat
      BY <1>13, <1>17
    <3>3. chan[1].kind # "complete"
      BY <1>2, <2>1 DEF InTurn
    <3> QED
      BY <3>1, <3>2, <3>3
  <2>5. \/ Rank(i + 1) = Expected(u)'
        \/ \E j \in DOMAIN chan' : /\ j < i /\ chan'[j].file = u
                                   /\ Rank(i + 1) = Rank(j)' + 1
    BY <1>15, <2>1, <2>3, <2>4
  <2> QED
    BY <1>13, <2>5 DEF GoesOn
<1>19. SenderIsNext'
  <2> SUFFICES ASSUME NEW u \in Honest, NEW s \in Threads, sender[s].file = u
               PROVE  /\ sender[s].next <= Len(offered[u]) + 1
                      /\ sndOpen =>
                           /\ \A i \in DOMAIN chan' :
                                chan'[i].file = u => Rank(i)' < sender[s].next
                           /\ verdict'[u] # "blocked" =>
                                GoesOn(u, sender[s].next, Len(chan) + 1)'
    BY <1>1 DEF SenderIsNext
  <2>1. sender[s].next <= Len(offered[u]) + 1
    BY DEF SenderIsNext
  <2>2. ASSUME sndOpen, NEW i \in DOMAIN chan', chan'[i].file = u
        PROVE  Rank(i)' < sender[s].next
    BY <1>1, <1>2, <1>13, <2>2 DEF SenderIsNext
  <2>3. ASSUME sndOpen, verdict'[u] # "blocked"
        PROVE  GoesOn(u, sender[s].next, Len(chan) + 1)'
    <3>1. verdict[u] # "blocked"
      BY <1>1, <1>4, <1>16, <2>3
    <3>2. GoesOn(u, sender[s].next, Len(chan) + 1)
      BY <1>1, <2>3, <3>1 DEF SenderIsNext
    <3>3. u = t => sender[s].next # Expected(t) /\ chan[1].kind # "complete"
      <4> SUFFICES ASSUME u = t
                   PROVE  /\ sender[s].next # Expected(t)
                          /\ chan[1].kind # "complete"
        OBVIOUS
      <4>1. Rank(1) < sender[s].next
        BY <1>1, <1>2, <2>3 DEF SenderIsNext
      <4>2. Rank(1) = Expected(t) /\ Rank(1) \in Nat
        BY <1>17, <2>3
      <4>3. chan[1].kind # "complete"
        BY <1>2, <2>3 DEF InTurn
      <4>4. sender[s].next \in Nat
        BY DEF TypeOK
      <4> QED
        BY <4>1, <4>2, <4>3, <4>4
    <3>4. PICK k \in Nat, number \in Nat :
            k = Len(chan') + 1 /\ Len(chan) = k /\ number = sender[s].next
      BY <1>2 DEF TypeOK
    <3>5. GoesOn(u, number, k + 1)
      BY <3>2, <3>4
    <3>6. u = t => number # Expected(t) /\ chan[1].kind # "complete"
      BY <3>3, <3>4
    <3>7. \/ number = Expected(u)'
          \/ \E j \in DOMAIN chan' : /\ j < k /\ chan'[j].file = u
                                     /\ number = Rank(j)' + 1
      BY <1>15, <2>3, <3>5, <3>6
    <3> QED
      BY <1>1, <3>4, <3>7 DEF GoesOn
  <2> QED
    BY <2>1, <2>2, <2>3
<1> QED
  BY <1>5, <1>6, <1>7, <1>8, <1>9, <1>10, <1>11, <1>12, <1>14, <1>18, <1>19

\* The tables are functions on part of the transfers: what taking one out
\* changes.
LEMMA WithoutOne ==
  ASSUME NEW f, NEW t
  PROVE  /\ DOMAIN Without(f, t) = DOMAIN f \ {t}
         /\ \A u \in DOMAIN f \ {t} : Without(f, t)[u] = f[u]
BY DEF Without

\* What putting one in changes.
LEMMA WithOne ==
  ASSUME NEW f, NEW t, NEW x
  PROVE  /\ DOMAIN With(f, t, x) = DOMAIN f \cup {t}
         /\ With(f, t, x)[t] = x
         /\ \A u \in DOMAIN f \ {t} : With(f, t, x)[u] = f[u]
BY DEF With

\* Taking one out keeps the table's type.
LEMMA WithoutIsPartial ==
  ASSUME NEW f, NEW S, NEW T, IsPartial(f, S, T), NEW t
  PROVE  IsPartial(Without(f, t), S, T)
BY DEF IsPartial, Without

\* Putting one of the type in keeps it, too.
LEMMA WithIsPartial ==
  ASSUME NEW f, NEW S, NEW T, IsPartial(f, S, T), NEW t \in S, NEW x \in T
  PROVE  IsPartial(With(f, t, x), S, T)
<1>1. DOMAIN With(f, t, x) = DOMAIN f \cup {t}
  BY WithOne
<1>2. \A u \in DOMAIN f \cup {t} : (IF u = t THEN x ELSE f[u]) \in T
  BY DEF IsPartial
<1>3. With(f, t, x) \in [DOMAIN f \cup {t} -> T]
  BY <1>2 DEF With
<1> QED
  BY <1>1, <1>3 DEF IsPartial

TableState == [size : Sizes, bytes : Nat, path : Paths]
FileState  == [by : Transfers, content : Contents]

\* The type of what the receiver keeps is all that a step of it can break.
LEMMA ReceiverKeepsType ==
  ASSUME TypeOK, chan # <<>>, chan' = Tail(chan), UNCHANGED <<ends, sending>>,
         IsPartial(active', Transfers, TableState),
         IsPartial(parts', Transfers, Seq(Nat)),
         IsPartial(disk', Paths, FileState),
         seen' \in [Transfers -> SUBSET Paths],
         verdict' \in [Transfers -> {"none", "saved", "failed", "blocked"}],
         got' \in [Transfers -> Contents \cup {NoContent}]
  PROVE  TypeOK'
<1>1. chan' \in Seq(Messages) /\ Len(chan') <= Capacity
  BY Taken
<1>2. /\ UNCHANGED <<side, sessions, sndOpen, rcvOpen>>
      /\ UNCHANGED <<sender, source, name, offered, edited>>
      /\ Threads' = Threads
  BY DEF ends, sending, Threads
<1> QED
  BY <1>1, <1>2 DEF TypeOK, TableState, FileState

\* What each handler of the receiver finds and leaves alone.
LEMMA ReceiveTakesHead ==
  ASSUME IInv, NEW kind, Receive(kind)
  PROVE  /\ rcvOpen /\ chan # <<>> /\ chan' = Tail(chan)
         /\ UNCHANGED <<ends, sending>>
         /\ Head(chan) = chan[1] /\ File = chan[1].file
         /\ chan[1].kind = kind /\ chan[1] \in Messages
         /\ File \in Transfers /\ offered[File] # NoContent
         /\ 1 \in DOMAIN chan
<1>1. /\ rcvOpen /\ chan # <<>> /\ chan' = Tail(chan)
      /\ UNCHANGED <<ends, sending>> /\ Head(chan).kind = kind
  BY DEF Receive
<1> QED
  BY <1>1, HeadIsTyped DEF File

\* A transfer is reported as failed only if it was changed, or stays blocked.
LEMMA RefusalPreservesIInv ==
  ASSUME IInv, NEW t \in Transfers, NEW kind, Receive(kind), t = File,
         ReportFailure(t), verdict[t] # "blocked" => t \in edited,
         \/ /\ active' = active /\ parts' = parts
            /\ t \notin DOMAIN active
         \/ active' = Without(active, t) /\ parts' = Without(parts, t),
         UNCHANGED <<disk, seen, got>>
  PROVE  IInv'
<1>1. /\ rcvOpen /\ chan # <<>> /\ chan' = Tail(chan)
      /\ UNCHANGED <<ends, sending>> /\ t = chan[1].file
  BY ReceiveTakesHead
<1>2. /\ verdict' \in [Transfers -> {"none", "saved", "failed", "blocked"}]
      /\ \A u \in Transfers \ {t} : verdict'[u] = verdict[u]
      /\ verdict[t] = "blocked" => verdict'[t] = "blocked"
      /\ verdict[t] # "blocked" => verdict'[t] = "failed"
  BY DEF IInv, TypeOK, ReportFailure
<1>3. /\ t \notin DOMAIN active'
      /\ \A u \in Transfers \ {t} :
           /\ u \in DOMAIN active' <=> u \in DOMAIN active
           /\ u \in DOMAIN active => active'[u] = active[u]
           /\ u \in DOMAIN parts' <=> u \in DOMAIN parts
           /\ u \in DOMAIN parts => parts'[u] = parts[u]
  <2>1. /\ DOMAIN Without(active, t) = DOMAIN active \ {t}
        /\ \A u \in DOMAIN active \ {t} : Without(active, t)[u] = active[u]
        /\ DOMAIN Without(parts, t) = DOMAIN parts \ {t}
        /\ \A u \in DOMAIN parts \ {t} : Without(parts, t)[u] = parts[u]
    BY WithoutOne
  <2>2. CASE active' = active /\ parts' = parts /\ t \notin DOMAIN active
    BY <2>2
  <2>3. CASE active' = Without(active, t) /\ parts' = Without(parts, t)
    BY <2>1, <2>3
  <2> QED
    BY <2>2, <2>3
<1>4. Received(t)
  BY <1>1, <1>2, <1>3 DEF Received
<1>5. ReceivedWell(t)
  BY <1>2, <1>3 DEF ReceivedWell, Honest
<1>6. TypeOK'
  <2>1. /\ IsPartial(active, Transfers, TableState)
        /\ IsPartial(parts, Transfers, Seq(Nat))
        /\ IsPartial(disk, Paths, FileState)
    BY DEF IInv, TypeOK, TableState, FileState
  <2>2. /\ IsPartial(active', Transfers, TableState)
        /\ IsPartial(parts', Transfers, Seq(Nat))
    BY <2>1, WithoutIsPartial
  <2>3. /\ seen' \in [Transfers -> SUBSET Paths]
        /\ got' \in [Transfers -> Contents \cup {NoContent}]
        /\ IsPartial(disk', Paths, FileState)
    BY <2>1 DEF IInv, TypeOK
  <2> QED
    BY <1>1, <1>2, <2>2, <2>3, ReceiverKeepsType DEF IInv
<1>7. DiskIsOwned'
  <2>1. \A p \in DOMAIN disk : disk[p].by \in Transfers
    BY DEF IInv, TypeOK, IsPartial
  <2>2. verdict[t] # "saved"
    BY <1>1, HeadIsTyped DEF IInv, SavedIsLast
  <2> QED
    BY <1>2, <2>1, <2>2 DEF IInv, DiskIsOwned
<1>8. FreshPath'
  <2> SUFFICES ASSUME side = "desktop", NEW u \in DOMAIN active'
               PROVE  active'[u].path \notin seen[u]
    BY <1>1 DEF FreshPath, ends
  <2>1. u \in Transfers
    BY <1>6 DEF TypeOK, IsPartial
  <2> QED
    BY <1>3, <2>1 DEF IInv, FreshPath
<1> QED
  BY <1>4, <1>5, <1>6, <1>7, <1>8, ReceivedPreservesIInv

\* An accepted offer enters the table with a free name.
LEMMA AcceptPreservesIInv ==
  ASSUME IInv, NEW t \in Transfers, Receive("offer"), t = File,
         NEW path \in Paths, Accept(t, path),
         side = "desktop" => path \notin DOMAIN disk
  PROVE  IInv'
<1> DEFINE entry == [size |-> Head(chan).size, bytes |-> 0, path |-> path]
<1>1. /\ rcvOpen /\ chan # <<>> /\ chan' = Tail(chan)
      /\ UNCHANGED <<ends, sending>> /\ t = chan[1].file
      /\ Head(chan) = chan[1] /\ chan[1].kind = "offer"
      /\ chan[1] \in Messages /\ 1 \in DOMAIN chan
  BY ReceiveTakesHead
<1>2. entry \in TableState
  BY <1>1, KindsOfMessages DEF TableState
<1>3. /\ active' = With(active, t, entry)
      /\ parts' = Without(parts, t)
      /\ seen' = [seen EXCEPT ![t] = DOMAIN disk]
      /\ UNCHANGED <<disk, verdict, got>>
  BY DEF Accept
<1>4. entry.bytes = 0 /\ entry.path = path /\ entry.size = chan[1].size
  BY <1>1
<1> HIDE DEF entry
<1>5. /\ t \in DOMAIN active' /\ active'[t] = entry
      /\ t \notin DOMAIN parts'
      /\ \A u \in Transfers \ {t} :
           /\ u \in DOMAIN active' <=> u \in DOMAIN active
           /\ u \in DOMAIN active => active'[u] = active[u]
           /\ u \in DOMAIN parts' <=> u \in DOMAIN parts
           /\ u \in DOMAIN parts => parts'[u] = parts[u]
  <2>1. /\ DOMAIN Without(parts, t) = DOMAIN parts \ {t}
        /\ \A u \in DOMAIN parts \ {t} : Without(parts, t)[u] = parts[u]
    BY WithoutOne
  <2>2. /\ DOMAIN With(active, t, entry) = DOMAIN active \cup {t}
        /\ With(active, t, entry)[t] = entry
        /\ \A u \in DOMAIN active \ {t} :
             With(active, t, entry)[u] = active[u]
    BY DEF With
  <2> QED
    BY <1>3, <2>1, <2>2
<1>6. verdict[t] = "none" /\ t \notin DOMAIN active
  BY <1>1 DEF IInv, OfferIsFirst
<1>7. Received(t)
  BY <1>1, <1>3, <1>5 DEF Received
<1>8. ReceivedWell(t)
  <2>1. Rank(1) = 0
    BY <1>1 DEF Rank
  <2>2. Expected(t)' = 1
    BY <1>4, <1>5 DEF Expected
  <2>3. t \in Honest => entry.size = Len(offered[t])
    BY <1>1, <1>4 DEF IInv, HonestMessages
  <2> QED
    BY <1>3, <1>4, <1>5, <1>6, <2>1, <2>2, <2>3 DEF ReceivedWell
<1>9. TypeOK'
  <2>1. /\ IsPartial(active, Transfers, TableState)
        /\ IsPartial(parts, Transfers, Seq(Nat))
        /\ IsPartial(disk, Paths, FileState)
    BY DEF IInv, TypeOK, TableState, FileState
  <2>2. /\ IsPartial(active', Transfers, TableState)
        /\ IsPartial(parts', Transfers, Seq(Nat))
    BY <1>2, <1>3, <2>1, WithIsPartial, WithoutIsPartial
  <2>3. seen' \in [Transfers -> SUBSET Paths]
    BY <1>3, <2>1 DEF IInv, TypeOK, IsPartial
  <2>4. /\ verdict' \in [Transfers -> {"none", "saved", "failed", "blocked"}]
        /\ got' \in [Transfers -> Contents \cup {NoContent}]
        /\ IsPartial(disk', Paths, FileState)
    BY <1>3, <2>1 DEF IInv, TypeOK
  <2> QED
    BY <1>1, <2>2, <2>3, <2>4, ReceiverKeepsType DEF IInv
<1>10. DiskIsOwned'
  BY <1>3 DEF IInv, DiskIsOwned
<1>11. FreshPath'
  <2> SUFFICES ASSUME side = "desktop", NEW u \in DOMAIN active'
               PROVE  active'[u].path \notin seen'[u]
    BY <1>1 DEF FreshPath, ends
  <2>1. u \in Transfers
    BY <1>9 DEF TypeOK, IsPartial
  <2>2. seen'[u] = IF u = t THEN DOMAIN disk ELSE seen[u]
    BY <1>3, <2>1 DEF IInv, TypeOK
  <2>3. CASE u = t
    BY <1>4, <1>5, <2>2, <2>3
  <2>4. CASE u # t
    BY <1>5, <2>1, <2>2, <2>4 DEF IInv, FreshPath
  <2> QED
    BY <2>3, <2>4
<1> QED
  BY <1>7, <1>8, <1>9, <1>10, <1>11, ReceivedPreservesIInv

\* An offer, at either receiver: accepted, or refused.
LEMMA OfferPreservesIInv ==
  ASSUME IInv, OfferAtDesktop \/ OfferAtPhone PROVE IInv'
<1>1. /\ Receive("offer") /\ rcvOpen /\ chan # <<>> /\ chan' = Tail(chan)
      /\ UNCHANGED <<ends, sending>>
      /\ File = chan[1].file /\ chan[1].kind = "offer" /\ 1 \in DOMAIN chan
      /\ File \in Transfers
  <2>1. Receive("offer")
    BY DEF OfferAtDesktop, OfferAtPhone
  <2> QED
    BY <2>1, ReceiveTakesHead
<1>2. PICK t \in Transfers : t = File
  BY <1>1
<1>3. name[t] \in Names /\ Limit \in Nat
  BY ConstantsAssumption, FS_CardinalityType DEF IInv, TypeOK, Limit
<1>4. CASE OfferAtDesktop
  <2>1. PICK path : path = Unique(name[t])
    OBVIOUS
  <2>2. path \in Paths \ DOMAIN disk
    BY <1>3, <2>1, UniqueIsNew DEF IInv
  <2>3. Accept(t, path)
    BY <1>2, <1>4, <2>1 DEF OfferAtDesktop
  <2> QED
    BY <1>1, <1>2, <2>2, <2>3, AcceptPreservesIInv
<1>5. CASE OfferAtPhone /\ Accept(File, <<name[File], 0>>)
  <2>1. PICK path \in Paths : path = <<name[t], 0>>
    <3>1. 0 \in 0..Limit
      BY <1>3
    <3>2. <<name[t], 0>> \in Paths
      BY <1>3, <3>1 DEF Paths
    <3> QED
      BY <3>2
  <2>2. Accept(t, path) /\ side # "desktop"
    BY <1>2, <1>5, <2>1 DEF OfferAtPhone
  <2> QED
    BY <1>1, <1>2, <2>2, AcceptPreservesIInv
<1>6. CASE /\ side = "phone"
           /\ verdict' = [verdict EXCEPT ![File] = "blocked"]
           /\ UNCHANGED <<active, parts, disk, seen, got>>
  <2>1. t \notin DOMAIN active
    BY <1>1, <1>2 DEF IInv, OfferIsFirst
  <2>2. /\ verdict'[t] = "blocked"
        /\ verdict' \in [Transfers -> {"none", "saved", "failed", "blocked"}]
        /\ \A u \in Transfers \ {t} : verdict'[u] = verdict[u]
    BY <1>2, <1>6 DEF IInv, TypeOK
  <2>3. Received(t)
    BY <1>1, <1>2, <1>6, <2>2 DEF Received
  <2>4. ReceivedWell(t)
    BY <1>6, <2>1, <2>2 DEF ReceivedWell
  <2>5. TypeOK'
    BY <1>1, <1>6, <2>2, ReceiverKeepsType
    DEF IInv, TypeOK, TableState, FileState
  <2>6. DiskIsOwned'
    <3>1. \A p \in DOMAIN disk : disk[p].by \in Transfers
      BY DEF IInv, TypeOK, IsPartial
    <3>2. verdict[t] = "none"
      BY <1>1, <1>2 DEF IInv, OfferIsFirst
    <3> QED
      BY <1>6, <2>2, <3>1, <3>2 DEF IInv, DiskIsOwned
  <2>7. FreshPath'
    BY <1>1, <1>6 DEF FreshPath, ends
  <2> QED
    BY <2>3, <2>4, <2>5, <2>6, <2>7, ReceivedPreservesIInv
<1> QED
  BY <1>4, <1>5, <1>6 DEF OfferAtPhone

\* A message of an honest transfer, not blocked and not in the table, is its
\* offer.
LEMMA StrangersAreEdited ==
  ASSUME IInv, chan # <<>>, NEW t \in Transfers, t = chan[1].file,
         chan[1].kind # "offer", t \notin DOMAIN active,
         verdict[t] # "blocked"
  PROVE  t \in edited
<1> SUFFICES ASSUME t \in Honest PROVE FALSE
  BY DEF Honest
<1>1. Rank(1) = 0
  BY HeadIsExpected DEF Expected
<1>2. chan[1] \in Messages /\ Len(offered[t]) \in Nat
  BY HeadIsTyped, OfferedHasLength DEF IInv
<1> QED
  BY <1>1, <1>2, KindsOfMessages DEF Rank

\* A chunk: appended to the part file when its offset fits, else the transfer
\* ends.
LEMMA HandleChunkPreservesIInv == ASSUME IInv, HandleChunk PROVE IInv'
<1>1. /\ Receive("chunk") /\ rcvOpen /\ chan # <<>> /\ chan' = Tail(chan)
      /\ UNCHANGED <<ends, sending>> /\ Head(chan) = chan[1]
      /\ File = chan[1].file /\ chan[1].kind = "chunk" /\ 1 \in DOMAIN chan
      /\ File \in Transfers /\ chan[1] \in Messages
      /\ offered[File] # NoContent
  <2>1. Receive("chunk")
    BY DEF HandleChunk
  <2> QED
    BY <2>1, ReceiveTakesHead
<1>2. PICK t \in Transfers : t = File
  BY <1>1
<1>3. chan[1].offset \in Nat /\ chan[1].data \in Nat
  BY <1>1, KindsOfMessages
<1>4. UNCHANGED <<disk, seen, got>>
  BY DEF HandleChunk
<1>5. CASE t \notin DOMAIN active
  <2>1. ReportFailure(t) /\ UNCHANGED <<active, parts>>
    BY <1>2, <1>5 DEF HandleChunk
  <2>2. verdict[t] # "blocked" => t \in edited
    BY <1>1, <1>2, <1>5, StrangersAreEdited
  <2> QED
    BY <1>1, <1>2, <1>4, <1>5, <2>1, <2>2, RefusalPreservesIInv
<1>6. ASSUME t \in DOMAIN active
      PROVE  /\ active[t] \in TableState /\ verdict[t] = "none"
             /\ t \in Honest => chan[1].offset = active[t].bytes
  <2>1. active[t] \in TableState
    BY <1>6 DEF IInv, TypeOK, IsPartial, TableState
  <2>2. verdict[t] = "none"
    BY <1>6 DEF IInv, Settled
  <2>3. ASSUME t \in Honest PROVE chan[1].offset = active[t].bytes
    <3>1. Rank(1) = Expected(t)
      BY <1>1, <1>2, <2>2, <2>3, HeadIsExpected
    <3>2. Rank(1) = chan[1].offset + 1 /\ Expected(t) = active[t].bytes + 1
      BY <1>1, <1>6 DEF Rank, Expected
    <3>3. active[t].bytes \in Nat
      BY <2>1 DEF TableState
    <3> QED
      BY <1>3, <3>1, <3>2, <3>3
  <2> QED
    BY <2>1, <2>2, <2>3
<1>7. CASE t \in DOMAIN active /\ chan[1].offset # active[t].bytes
  <2>1. /\ ReportFailure(t)
        /\ active' = Without(active, t) /\ parts' = Without(parts, t)
    BY <1>1, <1>2, <1>7 DEF HandleChunk
  <2>2. t \in edited
    BY <1>6, <1>7 DEF Honest
  <2> QED
    BY <1>1, <1>2, <1>4, <2>1, <2>2, RefusalPreservesIInv
<1>8. CASE t \in DOMAIN active /\ chan[1].offset = active[t].bytes
  <2> DEFINE old == IF t \in DOMAIN parts THEN parts[t] ELSE <<>>
             new == Append(old, chan[1].data)
  <2>1. /\ parts' = With(parts, t, new)
        /\ active' = [active EXCEPT ![t].bytes = @ + 1]
        /\ verdict' = verdict
    BY <1>1, <1>2, <1>8 DEF HandleChunk
  <2>2. /\ IsPartial(active, Transfers, TableState)
        /\ IsPartial(parts, Transfers, Seq(Nat))
        /\ IsPartial(disk, Paths, FileState)
    BY DEF IInv, TypeOK, TableState, FileState
  <2>3. /\ old \in Seq(Nat) /\ new \in Seq(Nat)
        /\ Len(old) \in Nat /\ Len(new) = Len(old) + 1
        /\ new[Len(old) + 1] = chan[1].data
        /\ \A k \in 1..Len(old) : new[k] = old[k]
    <3>1. old \in Seq(Nat)
      BY <2>2 DEF IsPartial
    <3> HIDE DEF old
    <3> QED
      BY <1>3, <3>1
  <2>4. /\ DOMAIN active' = DOMAIN active
        /\ \A u \in DOMAIN active \ {t} : active'[u] = active[u]
        /\ active'[t] = [active[t] EXCEPT !.bytes = @ + 1]
    BY <1>8, <2>1, <2>2 DEF IsPartial
  <2>5. /\ active'[t].bytes = active[t].bytes + 1
        /\ active'[t].size = active[t].size
        /\ active'[t].path = active[t].path
        /\ active'[t] \in TableState /\ active[t].bytes \in Nat
    BY <1>6, <1>8, <2>4 DEF TableState
  <2> HIDE DEF new
  <2>6. /\ DOMAIN parts' = DOMAIN parts \cup {t}
        /\ parts'[t] = new
        /\ \A u \in DOMAIN parts \ {t} : parts'[u] = parts[u]
    BY <2>1 DEF With
  <2>7. Received(t)
    BY <1>1, <1>2, <2>1, <2>4, <2>6 DEF Received
  <2>8. ReceivedWell(t)
    <3>1. Rank(1) = active[t].bytes + 1
      BY <1>1, <1>8 DEF Rank
    <3>2. Expected(t)' = Rank(1) + 1
      BY <1>8, <2>4, <2>5, <3>1 DEF Expected
    <3>3. ASSUME t \in Honest
          PROVE  /\ active'[t].size = Len(offered[t])
                 /\ Len(new) = active'[t].bytes
                 /\ \A k \in 1..active'[t].bytes : new[k] = offered[t][k]
      <4>1. /\ active[t].size = Len(offered[t])
            /\ Len(old) = active[t].bytes
            /\ \A k \in 1..active[t].bytes : old[k] = offered[t][k]
        <5>1. CASE t \in DOMAIN parts
          BY <1>8, <3>3, <5>1 DEF IInv, HonestParts
        <5>2. CASE t \notin DOMAIN parts
          BY <1>8, <3>3, <5>2 DEF IInv, HonestParts
        <5> QED
          BY <5>1, <5>2
      <4>2. chan[1].data = offered[t][active[t].bytes + 1]
        BY <1>1, <1>2, <1>8, <3>3 DEF IInv, HonestMessages
      <4> HIDE DEF old
      <4>3. ASSUME NEW k \in 1..(active[t].bytes + 1)
            PROVE  new[k] = offered[t][k]
        <5>1. CASE k = active[t].bytes + 1
          BY <2>3, <4>1, <4>2, <5>1
        <5>2. CASE k # active[t].bytes + 1
          <6>1. k \in 1..active[t].bytes
            BY <2>5, <5>2
          <6> QED
            BY <2>3, <4>1, <6>1
        <5> QED
          BY <5>1, <5>2
      <4> QED
        BY <2>3, <2>5, <4>1, <4>3
    <3>4. active'[t].bytes # 0
      BY <2>5
    <3> QED
      BY <1>6, <1>8, <2>1, <2>6, <3>2, <3>3, <3>4 DEF ReceivedWell
  <2>9. TypeOK'
    <3>1. IsPartial(active', Transfers, TableState)
      <4>1. \A u \in DOMAIN active : active'[u] \in TableState
        BY <2>2, <2>4, <2>5 DEF IsPartial
      <4> QED
        BY <2>1, <2>2, <2>4, <4>1 DEF IsPartial
    <3>2. IsPartial(parts', Transfers, Seq(Nat))
      BY <2>1, <2>2, <2>3, WithIsPartial
    <3> QED
      BY <1>1, <1>4, <2>1, <2>2, <3>1, <3>2, ReceiverKeepsType
      DEF IInv, TypeOK
  <2>10. DiskIsOwned'
    BY <1>4, <2>1 DEF IInv, DiskIsOwned
  <2>11. FreshPath'
    BY <1>1, <1>4, <2>4, <2>5 DEF IInv, FreshPath, ends
  <2> QED
    BY <2>7, <2>8, <2>9, <2>10, <2>11, ReceivedPreservesIInv
<1> QED
  BY <1>5, <1>7, <1>8

\* An honest transfer whose completion has come is as it was offered, or it
\* is of an empty file, which has no part file.
LEMMA HonestIsComplete ==
  ASSUME IInv, chan # <<>>, NEW t \in Honest, t = chan[1].file,
         chan[1].kind = "complete", t \in DOMAIN active
  PROVE  ~Mismatch(t)
<1>1. /\ chan[1] \in Messages /\ Head(chan) = chan[1] /\ 1 \in DOMAIN chan
      /\ t \in Transfers /\ offered[t] # NoContent
  BY HeadIsTyped DEF Honest
<1>2. offered[t] \in Seq(Nat) /\ Len(offered[t]) \in Nat
  BY <1>1, OfferedHasLength DEF IInv
<1>3. active[t].bytes \in Nat
  BY DEF IInv, TypeOK, IsPartial
<1>4. verdict[t] # "blocked"
  BY <1>1 DEF IInv, Settled
<1>5. active[t].bytes = Len(offered[t])
  <2>1. Rank(1) = Expected(t)
    BY <1>4, HeadIsExpected
  <2> QED
    BY <1>1, <1>2, <1>3, <2>1 DEF Rank, Expected
<1>6. active[t].size = Len(offered[t]) /\ Head(chan).digest = offered[t]
  BY <1>1 DEF IInv, HonestParts, Digests
<1>7. ASSUME t \in DOMAIN parts PROVE parts[t] = offered[t]
  <2>1. parts[t] \in Seq(Nat)
    BY <1>7 DEF IInv, TypeOK, IsPartial
  <2>2. /\ Len(parts[t]) = Len(offered[t])
        /\ \A k \in 1..Len(offered[t]) : parts[t][k] = offered[t][k]
    BY <1>5, <1>7 DEF IInv, HonestParts
  <2>3. \A a, b \in Seq(Nat) :
          Len(a) = Len(b) /\ (\A k \in 1..Len(b) : a[k] = b[k]) => a = b
    OBVIOUS
  <2> QED
    BY <1>2, <2>1, <2>2, <2>3, Zenon
<1> QED
  BY <1>5, <1>6, <1>7 DEF Mismatch

\* A completion without a transfer, of a wrong size or a wrong digest.
LEMMA CompleteRefusedPreservesIInv ==
  ASSUME IInv, CompleteRefused PROVE IInv'
<1>1. /\ Receive("complete") /\ chan # <<>>
      /\ File = chan[1].file /\ chan[1].kind = "complete"
      /\ File \in Transfers
  <2>1. Receive("complete")
    BY DEF CompleteRefused
  <2> QED
    BY <2>1, ReceiveTakesHead
<1>2. PICK t \in Transfers : t = File
  BY <1>1
<1>3. UNCHANGED <<disk, seen, got>>
  BY DEF CompleteRefused
<1>4. CASE t \notin DOMAIN active
  <2>1. ReportFailure(t) /\ UNCHANGED <<active, parts>>
    BY <1>2, <1>4 DEF CompleteRefused
  <2>2. verdict[t] # "blocked" => t \in edited
    BY <1>1, <1>2, <1>4, StrangersAreEdited
  <2> QED
    BY <1>1, <1>2, <1>3, <1>4, <2>1, <2>2, RefusalPreservesIInv
<1>5. CASE t \in DOMAIN active
  <2>1. /\ Mismatch(t) /\ ReportFailure(t)
        /\ active' = Without(active, t) /\ parts' = Without(parts, t)
    BY <1>2, <1>5 DEF CompleteRefused
  <2>2. t \in edited
    BY <1>1, <1>2, <1>5, <2>1, HonestIsComplete DEF Honest
  <2> QED
    BY <1>1, <1>2, <1>3, <2>1, <2>2, RefusalPreservesIInv
<1> QED
  BY <1>4, <1>5

\* A completion that fits moves the part file to a name nothing has.
LEMMA CompletePreservesIInv ==
  ASSUME IInv, NEW path \in Paths, Complete(path) PROVE IInv'
<1>1. /\ Receive("complete") /\ rcvOpen /\ chan # <<>> /\ chan' = Tail(chan)
      /\ UNCHANGED <<ends, sending>> /\ Head(chan) = chan[1]
      /\ File = chan[1].file /\ chan[1].kind = "complete" /\ 1 \in DOMAIN chan
      /\ File \in Transfers /\ offered[File] # NoContent
  <2>1. Receive("complete")
    BY DEF Complete
  <2> QED
    BY <2>1, ReceiveTakesHead
<1>2. PICK t \in Transfers : t = File
  BY <1>1
<1> DEFINE file == [by |-> t, content |-> parts[t]]
<1>3. /\ t \in DOMAIN active /\ t \in DOMAIN parts /\ ~Mismatch(t)
      /\ disk' = With(disk, path, file)
      /\ parts' = Without(parts, t)
      /\ verdict' = [verdict EXCEPT ![t] = "saved"]
      /\ got' = [got EXCEPT ![t] = parts[t]]
      /\ active' = Without(active, t) /\ seen' = seen
  BY <1>2 DEF Complete, Save
<1>4. parts[t] = offered[t] /\ parts[t] \in Contents
  <2>1. parts[t] = chan[1].digest
    BY <1>1, <1>3 DEF Mismatch
  <2>2. chan[1].digest = offered[t]
    BY <1>1, <1>2 DEF IInv, Digests
  <2> QED
    BY <1>1, <1>2, <2>1, <2>2, OfferedHasLength DEF IInv
<1>5. file \in FileState /\ file.by = t
  BY <1>4 DEF FileState
<1> HIDE DEF file
<1>6. /\ verdict[t] = "none"
      /\ verdict'[t] = "saved"
      /\ \A u \in Transfers \ {t} : verdict'[u] = verdict[u]
      /\ verdict' \in [Transfers -> {"none", "saved", "failed", "blocked"}]
      /\ got' \in [Transfers -> Contents \cup {NoContent}]
  <2>1. verdict[t] = "none"
    BY <1>3 DEF IInv, Settled
  <2> QED
    BY <1>3, <1>4, <2>1 DEF IInv, TypeOK
<1>7. /\ t \notin DOMAIN active'
      /\ \A u \in Transfers \ {t} :
           /\ u \in DOMAIN active' <=> u \in DOMAIN active
           /\ u \in DOMAIN active => active'[u] = active[u]
           /\ u \in DOMAIN parts' <=> u \in DOMAIN parts
           /\ u \in DOMAIN parts => parts'[u] = parts[u]
  BY <1>3 DEF Without
<1>8. Received(t)
  BY <1>1, <1>2, <1>6, <1>7 DEF Received
<1>9. ReceivedWell(t)
  BY <1>1, <1>6, <1>7 DEF ReceivedWell
<1>10. TypeOK'
  <2>1. /\ IsPartial(active, Transfers, TableState)
        /\ IsPartial(parts, Transfers, Seq(Nat))
        /\ IsPartial(disk, Paths, FileState)
    BY DEF IInv, TypeOK, TableState, FileState
  <2>2. /\ IsPartial(active', Transfers, TableState)
        /\ IsPartial(parts', Transfers, Seq(Nat))
        /\ IsPartial(disk', Paths, FileState)
    BY <1>3, <1>5, <2>1, WithIsPartial, WithoutIsPartial
  <2>3. seen' \in [Transfers -> SUBSET Paths]
    BY <1>3 DEF IInv, TypeOK
  <2> QED
    BY <1>1, <1>6, <2>2, <2>3, ReceiverKeepsType DEF IInv
<1>11. DiskIsOwned'
  <2>1. /\ DOMAIN disk' = DOMAIN disk \cup {path} /\ disk'[path] = file
        /\ \A p \in DOMAIN disk \ {path} : disk'[p] = disk[p]
    BY <1>3 DEF With
  <2>2. \A p \in DOMAIN disk : disk[p].by \in Transfers \ {t}
    <3>1. \A p \in DOMAIN disk : disk[p].by \in Transfers
      BY DEF IInv, TypeOK, IsPartial
    <3> QED
      BY <1>6, <3>1 DEF IInv, DiskIsOwned
  <2> QED
    BY <1>5, <1>6, <2>1, <2>2 DEF IInv, DiskIsOwned
<1>12. FreshPath'
  <2> SUFFICES ASSUME side = "desktop", NEW u \in DOMAIN active'
               PROVE  active'[u].path \notin seen[u]
    BY <1>1, <1>3 DEF FreshPath, ends
  <2>1. u \in Transfers
    BY <1>10 DEF TypeOK, IsPartial
  <2> QED
    BY <1>7, <2>1 DEF IInv, FreshPath
<1> QED
  BY <1>8, <1>9, <1>10, <1>11, <1>12, ReceivedPreservesIInv

\* Where a completed transfer is saved.
LEMMA SavedPath ==
  ASSUME IInv, CompleteAtDesktop \/ CompleteAtPhone
  PROVE  \E t \in Transfers, path \in Paths :
           /\ t = File /\ Complete(path)
           /\ \/ /\ side = "desktop" /\ path \notin seen[t]
              \/ path \notin DOMAIN disk
<1>1. chan # <<>>
  BY DEF CompleteAtDesktop, CompleteAtPhone
<1>2. File \in Transfers
  BY <1>1, HeadIsTyped DEF File
<1>3. PICK t \in Transfers : t = File
  BY <1>2
<1>4. CASE CompleteAtDesktop
  <2>1. /\ side = "desktop" /\ t \in DOMAIN active
        /\ Complete(active[t].path)
    BY <1>3, <1>4 DEF CompleteAtDesktop
  <2>2. active[t].path \in Paths /\ active[t].path \notin seen[t]
    BY <2>1 DEF IInv, TypeOK, IsPartial, FreshPath
  <2> QED
    BY <1>3, <2>1, <2>2
<1>5. CASE CompleteAtPhone
  <2>1. Complete(Unique(name[t]))
    BY <1>3, <1>5 DEF CompleteAtPhone
  <2>2. name[t] \in Names
    BY DEF IInv, TypeOK
  <2>3. Unique(name[t]) \in Paths \ DOMAIN disk
    BY <2>2, UniqueIsNew DEF IInv
  <2> QED
    BY <1>3, <2>1, <2>3
<1> QED
  BY <1>4, <1>5

-----------------------------------------------------------------------------
(* All steps.                                                              *)

\* The invariant holds before anything has happened.
LEMMA InitEstablishesIInv == Init => IInv
<1> SUFFICES ASSUME Init PROVE IInv
  OBVIOUS
<1>1. /\ DOMAIN chan = {} /\ chan \in Seq(Messages) /\ Len(chan) = 0
      /\ DOMAIN active = {} /\ DOMAIN parts = {} /\ DOMAIN disk = {}
      /\ active = [t \in {} |-> active[t]] /\ parts = [t \in {} |-> parts[t]]
      /\ disk = [t \in {} |-> disk[t]]
  BY DEF Init
<1>2. TypeOK
  <2>1. sender \in [Threads -> SenderState]
    BY DEF Init, Idle, SenderState
  <2>2. /\ IsPartial(active, Transfers, TableState)
        /\ IsPartial(parts, Transfers, Seq(Nat))
        /\ IsPartial(disk, Paths, FileState)
    BY <1>1 DEF IsPartial
  <2>3. chan \in Seq(Messages) /\ Len(chan) <= Capacity
    BY <1>1, ConstantsAssumption
  <2>4. /\ side \in {"desktop", "phone"} /\ sessions \in 0..MaxSessions
        /\ sndOpen \in BOOLEAN /\ rcvOpen \in BOOLEAN
        /\ source \in [Transfers -> Contents] /\ name \in [Transfers -> Names]
        /\ edited \subseteq Transfers
    <3>1. sessions \in 0..MaxSessions
      BY ConstantsAssumption DEF Init
    <3>2. sndOpen \in BOOLEAN /\ rcvOpen \in BOOLEAN /\ edited \subseteq Transfers
      BY DEF Init
    <3> QED
      BY <3>1, <3>2 DEF Init
  <2>5. /\ offered \in [Transfers -> Contents \cup {NoContent}]
        /\ seen \in [Transfers -> SUBSET Paths]
        /\ verdict \in [Transfers -> {"none", "saved", "failed", "blocked"}]
        /\ got \in [Transfers -> Contents \cup {NoContent}]
    BY DEF Init
  <2> QED
    BY <2>1, <2>2, <2>3, <2>4, <2>5
    DEF TypeOK, SenderState, TableState, FileState
<1>3. /\ \A t \in Transfers : verdict[t] = "none" /\ offered[t] = NoContent
      /\ \A s \in Threads : sender[s].file = NoTransfer
      /\ \A t \in Transfers : t # NoTransfer
      /\ chan = <<>>
      /\ Honest \subseteq Transfers
  BY ConstantsAssumption DEF Init, Idle, Honest
<1>4. /\ ClosedIsEmpty /\ Begun /\ OneSender /\ InTurn /\ OfferIsFirst
      /\ Settled /\ SavedIsLast /\ Digests /\ DiskIsOwned /\ FreshPath
      /\ NoFalseRefusal
  BY <1>1, <1>3
  DEF ClosedIsEmpty, Begun, OneSender, InTurn, OfferIsFirst, Settled,
      SavedIsLast, Digests, DiskIsOwned, FreshPath, NoFalseRefusal
<1>5. /\ SourceKept /\ HonestMessages /\ HonestParts
      /\ Increasing /\ Gapless /\ SenderIsNext
  BY <1>1, <1>3 DEF SourceKept, HonestMessages, HonestParts, Increasing,
                    Gapless, SenderIsNext
<1> QED
  BY <1>2, <1>4, <1>5 DEF IInv

\* Every step keeps the invariant, action by action.
LEMMA NextPreservesIInv == ASSUME IInv, [Next]_vars PROVE IInv'
<1>1. CASE SenderStep
  BY <1>1, SendOfferPreservesIInv, SendChunkPreservesIInv,
     SendCompletePreservesIInv, SendFailsPreservesIInv DEF SenderStep
<1>2. CASE OfferAtDesktop \/ OfferAtPhone
  BY <1>2, OfferPreservesIInv
<1>3. CASE HandleChunk
  BY <1>3, HandleChunkPreservesIInv
<1>4. CASE CompleteRefused
  BY <1>4, CompleteRefusedPreservesIInv
<1>5. CASE CompleteAtDesktop \/ CompleteAtPhone
  <2>1. PICK path \in Paths : Complete(path)
    BY <1>5, SavedPath
  <2> QED
    BY <2>1, CompletePreservesIInv
<1>6. CASE ReceiverThrows \/ ReceiverCloses
  BY <1>6, EndReceiverPreservesIInv
<1>7. CASE \E t \in Transfers : EditSource(t)
  BY <1>7, EditSourcePreservesIInv
<1>8. CASE OpenSession
  BY <1>8, OpenSessionPreservesIInv
<1>9. CASE SenderCloses
  BY <1>9, SenderClosesPreservesIInv
<1>10. CASE UNCHANGED vars
  <2>1. /\ UNCHANGED <<side, sessions, sndOpen, rcvOpen, chan>>
        /\ UNCHANGED <<sender, source, name, offered, edited>>
        /\ UNCHANGED <<active, parts, disk, seen, verdict, got>>
        /\ Threads' = Threads
    BY <1>10 DEF vars, ends, sending, receipts, Threads
  <2>2. TypeOK'
    BY <2>1 DEF IInv, TypeOK
  <2>3. /\ ClosedIsEmpty' /\ Begun' /\ OneSender' /\ InTurn' /\ OfferIsFirst'
        /\ Settled' /\ SavedIsLast' /\ Digests' /\ DiskIsOwned' /\ FreshPath'
        /\ NoFalseRefusal'
    BY <2>1
    DEF IInv, ClosedIsEmpty, Begun, OneSender, InTurn, OfferIsFirst, Settled,
        SavedIsLast, Digests, DiskIsOwned, FreshPath, NoFalseRefusal
  <2>4. Honest' = Honest /\ SourceKept' /\ HonestMessages' /\ HonestParts'
    BY <2>1 DEF IInv, SourceKept, HonestMessages, HonestParts, Honest
  <2>5. /\ \A i \in DOMAIN chan : Rank(i)' = Rank(i)
        /\ \A u \in Honest : Expected(u)' = Expected(u)
    BY <2>1 DEF Rank, Expected
  <2>6. Increasing' /\ Gapless' /\ SenderIsNext'
    BY <2>1, <2>4, <2>5 DEF IInv, Increasing, Gapless, SenderIsNext, GoesOn
  <2> QED
    BY <2>2, <2>3, <2>4, <2>6 DEF IInv
<1> QED
  BY <1>1, <1>2, <1>3, <1>4, <1>5, <1>6, <1>7, <1>8, <1>9, <1>10
  DEF Next, ReceiverStep

-----------------------------------------------------------------------------
(* Theorems.                                                               *)

\* The inductive invariant holds: of each transfer, the channel holds a piece
\* of its messages, in order, that the receiver's table continues.
THEOREM InvariantHolds == Spec => []IInv
<1> QED
  BY InitEstablishesIInv, NextPreservesIInv, PTL DEF Spec

\* The variables of both ends, of the channel and of the disk have their types.
THEOREM TypeCorrect == Spec => []TypeOK
<1>1. IInv => TypeOK
  BY DEF IInv
<1> QED
  BY <1>1, InvariantHolds, PTL

\* handle_chunk and handle_complete, and their counterparts on the phone,
\* report a failure only for a file that changed while it was sent.
THEOREM HonestFilesArrive == Spec => []NoFalseRefusal
<1>1. IInv => NoFalseRefusal
  BY DEF IInv
<1> QED
  BY <1>1, InvariantHolds, PTL

\* A step of Next that is not the saving of a completed transfer leaves the
\* files on the disk alone.
LEMMA OnlySavingWrites ==
  ASSUME [Next]_vars, ~CompleteAtDesktop, ~CompleteAtPhone
  PROVE  disk' = disk
<1>1. CASE SenderStep
  BY <1>1 DEF SenderStep, SendOffer, SendChunk, SendComplete, SendFails, receipts
<1>2. CASE ReceiverStep
  BY <1>2
  DEF ReceiverStep, OfferAtDesktop, OfferAtPhone, Accept, HandleChunk,
      CompleteRefused, ReceiverThrows
<1>3. CASE OpenSession \/ SenderCloses \/ ReceiverCloses
  BY <1>3 DEF OpenSession, SenderCloses, ReceiverCloses, receipts
<1>4. CASE \E t \in Transfers : EditSource(t)
  BY <1>4 DEF EditSource, receipts
<1>5. CASE UNCHANGED vars
  BY <1>5 DEF vars, receipts
<1> QED
  BY <1>1, <1>2, <1>3, <1>4, <1>5 DEF Next

\* _unique_path, asked when an offer is accepted on the desktop, and
\* uniqueFile, asked when a file is saved on the phone, never name a file that
\* is there; on the desktop one may have come since.
THEOREM OldFilesAreSafe == Spec => NoOldFileReplaced
<1> DEFINE Kept == \A p \in DOMAIN disk :
                     disk'[p] # disk[p] => /\ side = "desktop"
                                           /\ p \notin seen[disk'[p].by]
<1>1. IInv /\ [Next]_vars => [Kept]_vars
  <2> SUFFICES ASSUME IInv, [Next]_vars PROVE Kept
    OBVIOUS
  <2>1. CASE ~CompleteAtDesktop /\ ~CompleteAtPhone
    BY <2>1, OnlySavingWrites
  <2>2. CASE CompleteAtDesktop \/ CompleteAtPhone
    <3>1. PICK t \in Transfers, path \in Paths :
            /\ t = File /\ Complete(path)
            /\ \/ side = "desktop" /\ path \notin seen[t]
               \/ path \notin DOMAIN disk
      BY <2>2, SavedPath
    <3>2. disk' = With(disk, path, [by |-> t, content |-> parts[t]])
      BY <3>1 DEF Complete, Save
    <3>3. ASSUME NEW p \in DOMAIN disk, disk'[p] # disk[p]
          PROVE  p = path /\ disk'[p].by = t
      BY <3>2, <3>3 DEF With
    <3> QED
      BY <3>1, <3>3
  <2> QED
    BY <2>1, <2>2
<1> QED
  BY <1>1, InvariantHolds, PTL DEF Spec, NoOldFileReplaced

-----------------------------------------------------------------------------
(* FileTransfer implements FileDelivery.                                   *)

\* The stage of a transfer, as the instance of FileDelivery has it.
Stage ==
  [t \in Transfers |->
     IF offered[t] = NoContent THEN "new"
     ELSE IF verdict[t] = "none" THEN "offered"
     ELSE IF verdict[t] = "saved" THEN "saved"
     ELSE "refused"]

\* A step that moves none of the mapped variables is a stutter of the
\* delivery.
LEMMA UnmovedStutters ==
  ASSUME UNCHANGED <<offered, verdict, got>>
  PROVE  UNCHANGED Delivery!vars
BY DEF Delivery!vars

\* A step that concerns one transfer leaves the stages of the others.
LEMMA StageOfOthers ==
  ASSUME NEW t \in Transfers, NEW stage, Stage'[t] = stage,
         \A u \in Transfers \ {t} : /\ offered'[u] = offered[u]
                                    /\ verdict'[u] = verdict[u]
  PROVE  Stage' = [Stage EXCEPT ![t] = stage]
BY DEF Stage

\* A result that reports a failure refuses the transfer, or repeats that.
LEMMA ReportRefuses ==
  ASSUME IInv, NEW t \in Transfers, offered[t] # NoContent,
         verdict[t] # "saved", UNCHANGED <<offered, got>>,
         \/ ReportFailure(t)
         \/ verdict[t] = "none" /\ verdict' = [verdict EXCEPT ![t] = "blocked"]
  PROVE  Delivery!Refuse(t) \/ UNCHANGED Delivery!vars
<1>1. /\ verdict \in [Transfers -> {"none", "saved", "failed", "blocked"}]
      /\ \A u \in Transfers \ {t} : verdict'[u] = verdict[u]
      /\ verdict'[t] \in {"failed", "blocked"}
  BY DEF IInv, TypeOK, ReportFailure
<1>2. Stage'[t] = "refused"
  BY <1>1 DEF Stage
<1>3. Stage' = [Stage EXCEPT ![t] = "refused"]
  BY <1>1, <1>2, StageOfOthers
<1>4. CASE verdict[t] = "none"
  <2>1. Stage[t] = "offered"
    BY <1>4 DEF Stage
  <2> QED
    BY <1>3, <2>1 DEF Delivery!Refuse, Stage
<1>5. CASE verdict[t] # "none"
  <2>1. Stage[t] = "refused"
    BY <1>1, <1>5 DEF Stage
  <2>2. Stage' = Stage
    BY <1>3, <2>1 DEF Stage
  <2> QED
    BY <2>2 DEF Delivery!vars, Stage
<1> QED
  BY <1>4, <1>5

\* A sender's step is an offer of the delivery, or a stutter.
LEMMA SenderStepDelivers ==
  ASSUME IInv, SenderStep PROVE [Delivery!Next]_Delivery!vars
<1>1. PICK s \in Threads, t \in Transfers :
        \/ SendOffer(s, t) \/ SendChunk(s, t)
        \/ SendComplete(s, t) \/ SendFails(s, t)
  BY DEF SenderStep
<1>2. CASE SendOffer(s, t)
  <2>1. /\ offered' = [offered EXCEPT ![t] = source[t]]
        /\ source[t] \in Contents /\ source[t] # NoContent
        /\ offered[t] = NoContent /\ UNCHANGED <<verdict, got>>
    BY <1>2, ConstantsAssumption DEF SendOffer, receipts, IInv, TypeOK
  <2>2. /\ offered'[t] # NoContent
        /\ \A u \in Transfers \ {t} : offered'[u] = offered[u]
        /\ verdict[t] = "none"
    BY <2>1 DEF IInv, TypeOK, Begun
  <2>3. Stage[t] = "new" /\ Stage'[t] = "offered"
    BY <2>1, <2>2 DEF Stage
  <2>4. Stage' = [Stage EXCEPT ![t] = "offered"]
    BY <2>1, <2>2, <2>3, StageOfOthers
  <2>5. Delivery!Offer(t)
    BY <2>1, <2>3, <2>4 DEF Delivery!Offer, Stage
  <2> QED
    BY <2>5 DEF Delivery!Next
<1>3. CASE SendChunk(s, t) \/ SendComplete(s, t) \/ SendFails(s, t)
  <2>1. UNCHANGED <<offered, verdict, got>>
    BY <1>3 DEF SendChunk, SendComplete, SendFails, receipts
  <2> QED
    BY <2>1, UnmovedStutters
<1> QED
  BY <1>1, <1>2, <1>3

\* A receiver's step is a delivery, a refusal, or a stutter.
LEMMA ReceiverStepDelivers ==
  ASSUME IInv, ReceiverStep PROVE [Delivery!Next]_Delivery!vars
<1>1. ASSUME NEW kind, Receive(kind)
      PROVE  /\ File \in Transfers /\ offered[File] # NoContent
             /\ verdict[File] # "saved" /\ offered' = offered
             /\ kind = "offer" => verdict[File] = "none"
  <2>1. /\ File \in Transfers /\ offered[File] # NoContent
        /\ UNCHANGED sending /\ File = chan[1].file /\ 1 \in DOMAIN chan
        /\ chan[1].kind = kind
    BY <1>1, ReceiveTakesHead
  <2> QED
    BY <2>1 DEF IInv, SavedIsLast, OfferIsFirst, sending
<1>2. ASSUME NEW kind, Receive(kind), UNCHANGED got, ReportFailure(File)
      PROVE  [Delivery!Next]_Delivery!vars
  <2>1. PICK t \in Transfers : t = File
    BY <1>1, <1>2
  <2>2. Delivery!Refuse(t) \/ UNCHANGED Delivery!vars
    BY <1>1, <1>2, <2>1, ReportRefuses
  <2> QED
    BY <2>2 DEF Delivery!Next
<1>3. ASSUME NEW kind, Receive(kind), UNCHANGED <<verdict, got>>
      PROVE  [Delivery!Next]_Delivery!vars
  BY <1>1, <1>3, UnmovedStutters
<1>4. CASE OfferAtDesktop
  BY <1>3, <1>4 DEF OfferAtDesktop, Accept
<1>5. CASE OfferAtPhone
  <2>1. Receive("offer")
    BY <1>5 DEF OfferAtPhone
  <2>2. CASE Accept(File, <<name[File], 0>>)
    BY <1>3, <2>1, <2>2 DEF Accept
  <2>3. CASE /\ verdict' = [verdict EXCEPT ![File] = "blocked"]
             /\ UNCHANGED <<active, parts, disk, seen, got>>
    <3>1. PICK t \in Transfers : t = File
      BY <1>1, <2>1
    <3>2. Delivery!Refuse(t) \/ UNCHANGED Delivery!vars
      BY <1>1, <2>1, <2>3, <3>1, ReportRefuses
    <3> QED
      BY <3>2 DEF Delivery!Next
  <2> QED
    BY <1>5, <2>2, <2>3 DEF OfferAtPhone
<1>6. CASE HandleChunk
  <2>1. Receive("chunk") /\ UNCHANGED got
        /\ (ReportFailure(File) \/ UNCHANGED verdict)
    BY <1>6 DEF HandleChunk
  <2> QED
    BY <1>2, <1>3, <2>1
<1>7. CASE CompleteRefused
  <2>1. Receive("complete") /\ UNCHANGED got /\ ReportFailure(File)
    BY <1>7 DEF CompleteRefused
  <2> QED
    BY <1>2, <2>1
<1>8. CASE CompleteAtDesktop \/ CompleteAtPhone
  <2>1. PICK t \in Transfers, path \in Paths : t = File /\ Complete(path)
    BY <1>8, SavedPath
  <2>2. /\ Receive("complete") /\ t \in DOMAIN active /\ t \in DOMAIN parts
        /\ ~Mismatch(t) /\ verdict' = [verdict EXCEPT ![t] = "saved"]
        /\ got' = [got EXCEPT ![t] = parts[t]]
    BY <2>1 DEF Complete, Save
  <2>3. offered[t] # NoContent /\ offered' = offered
    BY <1>1, <2>1, <2>2
  <2>4. parts[t] = offered[t]
    <3>1. /\ Head(chan) = chan[1] /\ 1 \in DOMAIN chan /\ t = chan[1].file
          /\ chan[1].kind = "complete"
      BY <2>1, <2>2, ReceiveTakesHead
    <3> QED
      BY <2>2, <3>1 DEF Mismatch, IInv, Digests
  <2>5. /\ verdict[t] = "none" /\ verdict'[t] = "saved"
        /\ \A u \in Transfers \ {t} : verdict'[u] = verdict[u]
    BY <2>2 DEF IInv, TypeOK, Settled
  <2>6. Stage[t] = "offered" /\ Stage'[t] = "saved"
    BY <2>3, <2>5 DEF Stage
  <2>7. Stage' = [Stage EXCEPT ![t] = "saved"]
    BY <2>3, <2>5, <2>6, StageOfOthers
  <2>8. Delivery!Deliver(t)
    BY <2>2, <2>3, <2>4, <2>6, <2>7 DEF Delivery!Deliver, Stage
  <2> QED
    BY <2>8 DEF Delivery!Next
<1>9. CASE ReceiverThrows
  <2>1. UNCHANGED <<offered, verdict, got>>
    BY <1>9 DEF ReceiverThrows, EndReceiver, sending
  <2> QED
    BY <2>1, UnmovedStutters
<1> QED
  BY <1>4, <1>5, <1>6, <1>7, <1>8, <1>9 DEF ReceiverStep

\* Whatever the threads, the channel and the sessions do, a transfer is saved
\* as it was offered or refused, once: FileTransfer implements FileDelivery.
THEOREM DeliveryIsKept == Spec => DeliversOrRefuses
<1>1. Init => Delivery!Init
  BY DEF Init, Delivery!Init
<1>2. IInv /\ [Next]_vars => [Delivery!Next]_Delivery!vars
  <2> SUFFICES ASSUME IInv, [Next]_vars PROVE [Delivery!Next]_Delivery!vars
    OBVIOUS
  <2>1. CASE SenderStep
    BY <2>1, SenderStepDelivers
  <2>2. CASE ReceiverStep
    BY <2>2, ReceiverStepDelivers
  <2>3. CASE \/ OpenSession \/ SenderCloses \/ ReceiverCloses
             \/ \E t \in Transfers : EditSource(t)
             \/ UNCHANGED vars
    <3>1. UNCHANGED <<offered, verdict, got>>
      BY <2>3 DEF OpenSession, SenderCloses, ReceiverCloses, EndReceiver,
                  EditSource, vars, sending, receipts
    <3> QED
      BY <3>1, UnmovedStutters
  <2> QED
    BY <2>1, <2>2, <2>3 DEF Next
<1> QED
  BY <1>1, <1>2, InvariantHolds, PTL
  DEF Spec, DeliversOrRefuses, Delivery!Spec

=============================================================================
