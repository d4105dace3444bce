----------------------- MODULE PairingHandshakeProofs -----------------------
(***************************************************************************)
(* Type correctness of PairingHandshake, and the two promises of a         *)
(* pairing: both ends agree on how it ended, and the desktop trusts only   *)
(* whoever's code was typed into the dialog of that very connection.  For  *)
(* any phones and connections, whatever the users type, and whatever fails.*)
(***************************************************************************)
EXTENDS PairingHandshake, TLAPS

\* The frame is on its way to the phone.
InTransit(frame, c) == \E i \in 1..Len(toPhone[c]) : toPhone[c][i] = frame

\* The two ends of a connection begin together.
BothBegin == \A c \in Conns : desk[c] = "none" <=> phone[c] = "none"

\* Past its prompt, a thread has been answered with its own code; what is
\* typed into a dialog that is left over reaches no such thread.
CodeWasTyped ==
  \A c \in Conns :
    desk[c] \in {"matched", "trust", "complete", "paired"} => answer[c] = c

\* A frame that ends the pairing has been sent by a thread that has ended in
\* that very way, whether the frame is on its way or has been read.
EndIsAnnounced ==
  \A c \in Conns :
    /\ InTransit("reject", c) \/ phone[c] = "refused" => desk[c] = "refused"
    /\ InTransit("complete", c) \/ phone[c] = "paired" => desk[c] = "paired"

\* The inductive invariant.  EndsAgree alone is not: what a phone makes of the
\* next frame depends on what the desktop was when it sent it.
IInv ==
  /\ TypeOK
  /\ BothBegin
  /\ CodeWasTyped
  /\ EndIsAnnounced

-----------------------------------------------------------------------------
\* What the two ends do to the channel.

\* A thread that sends puts its frame in the channel or fails; nothing else
\* comes into any channel.
LEMMA SendsFrame ==
  ASSUME TypeOK, NEW c \in Conns, NEW frame \in Frames, NEW step, Sends(c, frame, step)
  PROVE  /\ DeskTo(c, step) \/ DeskTo(c, "failed")
         /\ toPhone' \in [Conns -> Seq(Frames)]
         /\ \A d \in Conns, f \in Frames :
              InTransit(f, d)' => \/ InTransit(f, d)
                                  \/ d = c /\ f = frame /\ DeskTo(c, step)
<1>1. CASE Put(c, frame) /\ DeskTo(c, step)
  <2>1. CASE Broken(c)
    BY <1>1, <2>1 DEF Put, TypeOK, InTransit
  <2>2. CASE ~Broken(c)
    <3>1. toPhone' = [toPhone EXCEPT ![c] = Append(toPhone[c], frame)]
      BY <1>1, <2>2 DEF Put
    <3>2. toPhone' \in [Conns -> Seq(Frames)]
      BY <3>1 DEF TypeOK
    <3>3. ASSUME NEW d \in Conns, NEW f \in Frames, InTransit(f, d)'
          PROVE  InTransit(f, d) \/ (d = c /\ f = frame)
      BY <3>1, <3>3 DEF TypeOK, InTransit
    <3> QED
      BY <1>1, <3>2, <3>3
  <2> QED
    BY <2>1, <2>2
<1>2. CASE Raises(c)
  BY <1>2 DEF Raises, TypeOK, InTransit
<1> QED
  BY <1>1, <1>2 DEF Sends

\* Whatever a thread sends, it moves on or fails; a thread that has not been
\* at its prompt and does not go there leaves the prompt lock to its holder.
LEMMA SendsMoves ==
  ASSUME TypeOK, NEW c \in Conns, NEW frame, NEW step, Sends(c, frame, step)
  PROVE  /\ DeskTo(c, step) \/ DeskTo(c, "failed")
         /\ step # "prompting" /\ lock' = (IF lock = c THEN NoConn ELSE lock)
            => \A d \in Conns : desk'[d] = "prompting" <=> lock' = d
<1>1. desk' = [desk EXCEPT ![c] = step] \/ desk' = [desk EXCEPT ![c] = "failed"]
  BY DEF Sends, Raises, DeskTo
<1> QED
  BY <1>1, ConstantsAssumption DEF TypeOK, DeskTo

\* A phone that reads takes the frame from the channel; nothing comes into it.
LEMMA TakesFrame ==
  ASSUME TypeOK, NEW c \in Conns, NEW frame \in Frames, Take(c, frame)
  PROVE  /\ InTransit(frame, c)
         /\ toPhone' \in [Conns -> Seq(Frames)]
         /\ \A d \in Conns, f \in Frames : InTransit(f, d)' => InTransit(f, d)
<1> DEFINE q == toPhone[c]
<1>1. q \in Seq(Frames) /\ q # <<>> /\ Head(q) = frame
  BY DEF TypeOK, Take
<1>2. Len(q) \in Nat \ {0} /\ q[1] = frame
  BY <1>1
<1>3. /\ Tail(q) \in Seq(Frames)
      /\ Len(Tail(q)) = Len(q) - 1
      /\ \A i \in 1..(Len(q) - 1) : Tail(q)[i] = q[i + 1]
  BY <1>1
<1>4. toPhone' = [toPhone EXCEPT ![c] = Tail(q)]
  BY DEF Take
<1>5. InTransit(frame, c)
  BY <1>2 DEF InTransit
<1>6. toPhone' \in [Conns -> Seq(Frames)]
  BY <1>3, <1>4 DEF TypeOK
<1>7. ASSUME NEW d \in Conns, NEW f \in Frames, InTransit(f, d)'
      PROVE  InTransit(f, d)
  <2>1. CASE d = c
    <3>1. toPhone'[d] = Tail(q)
      BY <1>4, <2>1 DEF TypeOK
    <3>2. PICK i \in 1..(Len(q) - 1) : Tail(q)[i] = f
      BY <1>3, <1>7, <3>1 DEF InTransit
    <3>3. i + 1 \in 1..Len(q) /\ q[i + 1] = f
      BY <1>2, <1>3, <3>2
    <3> QED
      BY <2>1, <3>3 DEF InTransit
  <2>2. CASE d # c
    BY <1>4, <1>7, <2>2 DEF TypeOK, InTransit
  <2> QED
    BY <2>1, <2>2
<1> QED
  BY <1>5, <1>6, <1>7

\* A channel that is emptied carries nothing.
LEMMA EmptiesChannel ==
  ASSUME TypeOK, NEW c \in Conns, toPhone' = [toPhone EXCEPT ![c] = <<>>]
  PROVE  /\ toPhone' \in [Conns -> Seq(Frames)]
         /\ \A d \in Conns, f \in Frames : InTransit(f, d)' => InTransit(f, d)
BY DEF TypeOK, InTransit

-----------------------------------------------------------------------------

\* Nothing has begun when the program starts.
LEMMA InitEstablishesIInv == Init => IInv
<1> SUFFICES ASSUME Init PROVE IInv
  OBVIOUS
<1>1. TypeOK
  <2> USE ConstantsAssumption DEF Init
  <2>1. toPhone \in [Conns -> Seq(Frames)] /\ dialogs \in Seq(Conns)
    OBVIOUS
  <2>2. owner \in [Conns -> Phones \cup {NoConn}]
    OBVIOUS
  <2>3. answer \in [Conns -> Conns \cup {NoConn, NoAnswer}]
    OBVIOUS
  <2>4. desk \in [Conns -> DeskSteps] /\ phone \in [Conns -> PhoneSteps]
    BY DEF DeskSteps, PhoneSteps
  <2>5. \A c \in Conns : desk[c] = "prompting" <=> lock = c
    OBVIOUS
  <2>6. forgets \in 0..MaxForgets
    OBVIOUS
  <2> QED
    BY <2>1, <2>2, <2>3, <2>4, <2>5, <2>6 DEF Init, TypeOK
<1>2. BothBegin /\ CodeWasTyped
  BY DEF Init, BothBegin, CodeWasTyped
<1>3. EndIsAnnounced
  BY DEF Init, EndIsAnnounced, InTransit
<1> QED
  BY <1>1, <1>2, <1>3 DEF IInv

\* A step in which the desktop's thread moves on keeps the invariant, if it
\* keeps the types, goes past the prompt only with its code, and sends the
\* last frame of a pairing only when it ends in that way.
LEMMA DeskMovePreservesIInv ==
  ASSUME IInv, TypeOK', NEW c \in Conns, NEW step, DeskTo(c, step),
         desk[c] \notin {"none"} \cup DeskEnds, step # "none",
         step \in {"matched", "trust", "complete", "paired"} => answer[c] = c,
         UNCHANGED <<phone, answer>>,
         \A d \in Conns, f \in Frames :
           InTransit(f, d)' => \/ InTransit(f, d)
                               \/ /\ d = c
                                  /\ f = "reject" => step = "refused"
                                  /\ f = "complete" => step = "paired"
  PROVE  IInv'
<1> USE DEF IInv, DeskTo, DeskEnds
<1>1. "reject" \in Frames /\ "complete" \in Frames
  BY DEF Frames
<1>2. ASSUME NEW d \in Conns, InTransit("reject", d)' \/ phone'[d] = "refused"
      PROVE  desk'[d] = "refused"
  BY <1>1, <1>2 DEF TypeOK, EndIsAnnounced
<1>3. ASSUME NEW d \in Conns, InTransit("complete", d)' \/ phone'[d] = "paired"
      PROVE  desk'[d] = "paired"
  BY <1>1, <1>3 DEF TypeOK, EndIsAnnounced
<1>4. EndIsAnnounced'
  BY <1>2, <1>3 DEF EndIsAnnounced
<1>5. BothBegin'
  BY DEF BothBegin, TypeOK
<1>6. CodeWasTyped'
  BY DEF CodeWasTyped, TypeOK
<1> QED
  BY <1>4, <1>5, <1>6

\* The same for a thread that sends a frame on its way to a further step.
LEMMA DeskSendPreservesIInv ==
  ASSUME IInv, NEW c \in Conns, NEW frame \in Frames, NEW step \in DeskSteps,
         Sends(c, frame, step),
         desk[c] \notin {"none"} \cup DeskEnds, step # "none",
         step \in {"trust", "complete", "paired"} => answer[c] = c,
         step # "matched",
         frame = "reject" => step = "refused",
         frame = "complete" => step = "paired",
         UNCHANGED <<owner, phone, answer, lost, cut, window, running, trust>>,
         confirmed' \subseteq confirmed,
         lock' \in Conns \cup {NoConn}, dialogs' \in Seq(Conns),
         \A d \in Conns : desk'[d] = "prompting" <=> lock' = d
  PROVE  IInv'
<1> USE DEF IInv
<1>1. /\ DeskTo(c, step) \/ DeskTo(c, "failed")
      /\ toPhone' \in [Conns -> Seq(Frames)]
      /\ \A d \in Conns, f \in Frames :
           InTransit(f, d)' => \/ InTransit(f, d)
                               \/ d = c /\ f = frame /\ DeskTo(c, step)
  BY SendsFrame
<1>2. desk' \in [Conns -> DeskSteps]
  BY <1>1 DEF DeskTo, TypeOK, DeskSteps, DeskEnds
<1>3. TypeOK'
  BY <1>1, <1>2 DEF TypeOK, trust
<1>4. CASE DeskTo(c, step)
  BY <1>1, <1>3, <1>4, DeskMovePreservesIInv
<1>5. CASE DeskTo(c, "failed") /\ ~DeskTo(c, step)
  BY <1>1, <1>3, <1>5, DeskMovePreservesIInv
<1> QED
  BY <1>1, <1>4, <1>5

\* Every step of a thread of the desktop keeps the invariant.
LEMMA DeskStepPreservesIInv ==
  ASSUME IInv, NEW c \in Conns, DeskStep(c)
  PROVE  IInv'
<1> USE DEF IInv, prompt, trust, link, DeskEnds
<1>0. {"challenge", "reject", "confirm", "complete"} \subseteq Frames
  BY DEF Frames
<1>a. {"queued", "prompting", "matched", "trust", "complete", "paired", "refused", "failed"}
        \subseteq DeskSteps
  BY DEF DeskSteps
<1>1. CASE ReadRequest(c)
  <2>1. CASE Sends(c, "reject", "refused")
    <3>1. lock # c /\ lock' = lock /\ lock' \in Conns \cup {NoConn} /\ dialogs' \in Seq(Conns)
      BY <1>1 DEF ReadRequest, TypeOK
    <3>2. \A d \in Conns : desk'[d] = "prompting" <=> lock' = d
      BY <2>1, <3>1, SendsMoves
    <3> QED
      BY <1>0, <1>a, <1>1, <2>1, <3>1, <3>2, DeskSendPreservesIInv DEF ReadRequest
  <2>2. ASSUME NEW step \in {"queued", "failed"}, DeskTo(c, step), UNCHANGED toPhone
        PROVE  IInv'
    <3>1. TypeOK'
      BY <1>a, <1>1, <2>2 DEF ReadRequest, TypeOK, DeskTo
    <3> QED
      BY <1>1, <2>2, <3>1, DeskMovePreservesIInv DEF ReadRequest, InTransit
  <2> QED
    BY <1>1, <2>1, <2>2 DEF ReadRequest, Raises
<1>2. CASE Prompt(c)
  <2>1. desk' = [desk EXCEPT ![c] = "prompting"] \/ desk' = [desk EXCEPT ![c] = "failed"]
    BY <1>2, SendsMoves DEF Prompt, DeskTo
  <2>2. dialogs' \in Seq(Conns)
    <3>1. dialogs \in Seq(Conns)
      BY DEF TypeOK
    <3> QED
      BY <1>2, <3>1 DEF Prompt
  <2>3. /\ lock' \in Conns \cup {NoConn}
        /\ \A d \in Conns : desk'[d] = "prompting" <=> lock' = d
    BY <1>2, <2>1, ConstantsAssumption DEF Prompt, TypeOK
  <2> QED
    BY <1>0, <1>a, <1>2, <2>2, <2>3, DeskSendPreservesIInv DEF Prompt
<1>3. ASSUME NEW typed \in Conns \cup {NoConn}, Judge(c, typed),
             typed = c => answer[c] = c
      PROVE  IInv'
  <2>1. lock = c /\ lock' = NoConn /\ dialogs' = dialogs /\ dialogs \in Seq(Conns)
    BY <1>3 DEF Judge, TypeOK
  <2>2. CASE typed = c
    <3>1. desk' = [desk EXCEPT ![c] = "matched"] /\ UNCHANGED toPhone
      BY <1>3, <2>2, ConstantsAssumption DEF Judge, DeskTo
    <3>2. /\ desk' \in [Conns -> DeskSteps]
          /\ \A d \in Conns : desk'[d] = "prompting" <=> lock' = d
      BY <1>a, <2>1, <3>1, ConstantsAssumption DEF TypeOK
    <3>3. TypeOK'
      BY <1>3, <2>1, <3>1, <3>2 DEF Judge, TypeOK
    <3> QED
      BY <1>3, <2>2, <3>1, <3>3, DeskMovePreservesIInv DEF Judge, InTransit, DeskTo
  <2>3. CASE typed # c
    <3>1. Sends(c, "reject", "refused")
      BY <1>3, <2>3 DEF Judge
    <3>2. \A d \in Conns : desk'[d] = "prompting" <=> lock' = d
      BY <2>1, <3>1, SendsMoves
    <3> QED
      BY <1>0, <1>a, <1>3, <2>1, <3>1, <3>2, DeskSendPreservesIInv DEF Judge
  <2> QED
    BY <2>2, <2>3
<1>4. CASE TakeAnswer(c)
  BY <1>3, <1>4 DEF TakeAnswer, TypeOK
<1>5. CASE PromptTimesOut(c)
  BY <1>3, <1>5, ConstantsAssumption DEF PromptTimesOut
<1>6. CASE ReadConfirm(c)
  <2>1. answer[c] = c
    BY <1>6 DEF ReadConfirm, CodeWasTyped
  <2>2. lock # c /\ lock' = lock /\ lock' \in Conns \cup {NoConn} /\ dialogs' \in Seq(Conns)
    BY <1>6 DEF ReadConfirm, TypeOK
  <2>3. \A d \in Conns : desk'[d] = "prompting" <=> lock' = d
    BY <1>6, <2>2, SendsMoves DEF ReadConfirm
  <2> QED
    BY <1>0, <1>a, <1>6, <2>1, <2>2, <2>3, DeskSendPreservesIInv DEF ReadConfirm
<1>7. CASE NoConfirm(c)
  <2>1. TypeOK'
    BY <1>a, <1>7 DEF NoConfirm, Raises, TypeOK, DeskTo
  <2> QED
    BY <1>7, <2>1, DeskMovePreservesIInv DEF NoConfirm, Raises, InTransit
<1>8. CASE Trust(c)
  <2>1. answer[c] = c
    BY <1>8 DEF Trust, CodeWasTyped
  <2>2. owner[c] \in Phones
    BY <1>8 DEF Trust, BothBegin, TypeOK
  <2>3. TypeOK'
    BY <1>a, <1>8, <2>2 DEF Trust, TypeOK, DeskTo
  <2> QED
    BY <1>8, <2>1, <2>3, DeskMovePreservesIInv DEF Trust, InTransit
<1>9. CASE Complete(c)
  <2>1. answer[c] = c
    BY <1>9 DEF Complete, CodeWasTyped
  <2>2. lock # c /\ lock' = lock /\ lock' \in Conns \cup {NoConn} /\ dialogs' \in Seq(Conns)
    BY <1>9 DEF Complete, TypeOK
  <2>3. \A d \in Conns : desk'[d] = "prompting" <=> lock' = d
    BY <1>9, <2>2, SendsMoves DEF Complete
  <2> QED
    BY <1>0, <1>a, <1>9, <2>1, <2>2, <2>3, DeskSendPreservesIInv DEF Complete
<1> QED
  BY <1>1, <1>2, <1>4, <1>5, <1>6, <1>7, <1>8, <1>9 DEF DeskStep

-----------------------------------------------------------------------------

\* A step in which the phone moves on keeps the invariant, if it keeps the
\* types and ends by a frame only when it has read it.
LEMMA PhoneMovePreservesIInv ==
  ASSUME IInv, TypeOK', NEW c \in Conns, NEW step, PhoneTo(c, step),
         phone[c] # "none", step # "none",
         step = "refused" => InTransit("reject", c),
         step = "paired" => InTransit("complete", c),
         UNCHANGED <<desk, answer>>,
         \A d \in Conns, f \in Frames : InTransit(f, d)' => InTransit(f, d)
  PROVE  IInv'
<1> USE DEF IInv, PhoneTo
<1>1. "reject" \in Frames /\ "complete" \in Frames
  BY DEF Frames
<1>2. EndIsAnnounced'
  BY <1>1 DEF EndIsAnnounced, TypeOK
<1>3. BothBegin' /\ CodeWasTyped'
  BY DEF BothBegin, CodeWasTyped, TypeOK
<1> QED
  BY <1>2, <1>3

\* A step that moves neither end keeps the invariant, if it keeps the types,
\* puts nothing into a channel, and answers only prompts that are open.
LEMMA OutsidePreservesIInv ==
  ASSUME IInv, TypeOK', UNCHANGED <<desk, phone>>,
         \A d \in Conns : desk[d] # "prompting" => answer'[d] = answer[d],
         \A d \in Conns, f \in Frames : InTransit(f, d)' => InTransit(f, d)
  PROVE  IInv'
<1> USE DEF IInv
<1>1. "reject" \in Frames /\ "complete" \in Frames
  BY DEF Frames
<1>2. EndIsAnnounced'
  BY <1>1 DEF EndIsAnnounced
<1>3. BothBegin' /\ CodeWasTyped'
  BY DEF BothBegin, CodeWasTyped
<1> QED
  BY <1>2, <1>3

\* Every step of the phone on a connection keeps the invariant, and so does
\* the failure of the Wi-Fi.
LEMMA PhonePreservesIInv ==
  ASSUME IInv, NEW c \in Conns,
         PhoneStep(c) \/ PhoneTimesOut(c) \/ LeavePairing(c) \/ Lose(c)
  PROVE  IInv'
<1> USE DEF IInv, prompt, trust, link
<1>0. {"challenge", "reject", "confirm", "complete"} \subseteq Frames
  BY DEF Frames
<1>a. ASSUME NEW step \in PhoneSteps \ {"none"}, PhoneTo(c, step), phone[c] # "none",
             toPhone' \in [Conns -> Seq(Frames)], confirmed' \subseteq Conns,
             phoneTrusts' \subseteq phoneTrusts \cup {owner[c]},
             UNCHANGED <<owner, desk, lost, cut, prompt, window, running, deskTrusts,
                         forgets>>
      PROVE  TypeOK'
  <2>1. phone' \in [Conns -> PhoneSteps] /\ owner[c] \in Phones
    BY <1>a DEF PhoneTo, TypeOK
  <2> QED
    BY <1>a, <2>1 DEF TypeOK, PhoneTo
<1>1. CASE ReadChallenge(c)
  <2> USE <1>1 DEF ReadChallenge
  <2>1. TypeOK'
    BY <1>0, <1>a, TakesFrame DEF PhoneSteps, TypeOK
  <2> QED
    BY <1>0, <2>1, TakesFrame, PhoneMovePreservesIInv
<1>2. CASE SendConfirm(c)
  <2> USE <1>2 DEF SendConfirm
  <2>1. confirmed' \subseteq Conns /\ toPhone' \in [Conns -> Seq(Frames)]
    BY DEF TypeOK
  <2>2. TypeOK'
    BY <1>a, <2>1 DEF PhoneSteps
  <2> QED
    BY <2>2, PhoneMovePreservesIInv DEF InTransit
<1>3. CASE ReadDeskConfirm(c)
  <2> USE <1>3 DEF ReadDeskConfirm
  <2>1. TypeOK'
    BY <1>0, <1>a, TakesFrame DEF PhoneSteps, TypeOK
  <2> QED
    BY <1>0, <2>1, TakesFrame, PhoneMovePreservesIInv
<1>4. CASE ReadReject(c)
  <2> USE <1>4 DEF ReadReject
  <2>1. TypeOK'
    BY <1>0, <1>a, TakesFrame DEF PhoneSteps, PhoneEnds, TypeOK
  <2> QED
    BY <1>0, <2>1, TakesFrame, PhoneMovePreservesIInv
<1>5. CASE ReadComplete(c)
  <2> USE <1>5 DEF ReadComplete
  <2>1. TypeOK'
    BY <1>0, <1>a, TakesFrame DEF PhoneSteps, PhoneEnds, TypeOK
  <2> QED
    BY <1>0, <2>1, TakesFrame, PhoneMovePreservesIInv
<1>6. CASE PhoneTimesOut(c)
  <2> USE <1>6 DEF PhoneTimesOut, Reading
  <2>1. confirmed' \subseteq Conns /\ toPhone' \in [Conns -> Seq(Frames)]
    BY DEF TypeOK
  <2>2. TypeOK'
    BY <1>a, <2>1 DEF PhoneSteps, PhoneEnds
  <2> QED
    BY <2>2, PhoneMovePreservesIInv DEF InTransit
<1>7. CASE LeavePairing(c)
  <2> USE <1>7 DEF LeavePairing
  <2>1. TypeOK'
    BY <1>a, EmptiesChannel DEF PhoneSteps, PhoneEnds, TypeOK
  <2> QED
    BY <2>1, EmptiesChannel, PhoneMovePreservesIInv
<1>8. CASE Lose(c)
  <2> USE <1>8 DEF Lose
  <2>1. toPhone' \in [Conns -> Seq(Frames)]
    BY EmptiesChannel
  <2>2. TypeOK'
    BY <2>1 DEF TypeOK
  <2> QED
    BY <2>2, EmptiesChannel, OutsidePreservesIInv
<1> QED
  BY <1>1, <1>2, <1>3, <1>4, <1>5, <1>6, <1>7, <1>8 DEF PhoneStep

\* A new connection keeps the invariant: nothing was ever sent on it.
LEMMA StartPreservesIInv ==
  ASSUME IInv, NEW p \in Phones, NEW c \in Conns, StartPairing(p, c)
  PROVE  IInv'
<1> USE DEF IInv, StartPairing, prompt, trust, link, PhoneTo, DeskTo
<1>1. desk[c] = "none"
  BY DEF BothBegin
<1>2. desk' \in [Conns -> DeskSteps] /\ phone' \in [Conns -> PhoneSteps]
  BY DEF TypeOK, DeskSteps, PhoneSteps
<1>3. /\ owner' \in [Conns -> Phones \cup {NoConn}]
      /\ \A d \in Conns : phone'[d] # "none" => owner'[d] \in Phones
  BY DEF TypeOK
<1>4. \A d \in Conns : desk'[d] = "prompting" <=> lock' = d
  BY <1>1 DEF TypeOK
<1>5. TypeOK'
  BY <1>2, <1>3, <1>4 DEF TypeOK
<1>6. BothBegin' /\ CodeWasTyped'
  BY DEF BothBegin, CodeWasTyped, TypeOK
<1>7. ~InTransit("reject", c) /\ ~InTransit("complete", c)
  BY <1>1 DEF EndIsAnnounced
<1>8. EndIsAnnounced'
  BY <1>7 DEF EndIsAnnounced, InTransit, TypeOK
<1> QED
  BY <1>5, <1>6, <1>8

\* Whatever the desktop's user does keeps the invariant.
LEMMA UserPreservesIInv ==
  ASSUME IInv,
         \/ \E p \in Phones : DesktopForgets(p)
         \/ \E typed \in Conns \cup {NoConn} : AnswerDialog(typed)
         \/ OpenWindow \/ WindowEnds \/ Stop
  PROVE  IInv'
<1> USE DEF IInv, prompt, trust, link
<1>1. ASSUME NEW p \in Phones, DesktopForgets(p) PROVE IInv'
  <2>1. TypeOK'
    BY <1>1, ConstantsAssumption DEF DesktopForgets, TypeOK
  <2> QED
    BY <1>1, <2>1, OutsidePreservesIInv DEF DesktopForgets, InTransit
<1>2. ASSUME NEW typed \in Conns \cup {NoConn}, AnswerDialog(typed) PROVE IInv'
  <2> DEFINE top == dialogs[Len(dialogs)]
  <2>1. dialogs' \in Seq(Conns)
    <3>1. dialogs \in Seq(Conns) /\ Len(dialogs) \in Nat \ {0}
      BY <1>2 DEF AnswerDialog, TypeOK
    <3> QED
      BY <1>2, <3>1 DEF AnswerDialog
  <2>2. answer' \in [Conns -> Conns \cup {NoConn, NoAnswer}]
    BY <1>2 DEF AnswerDialog, TypeOK
  <2>3. TypeOK'
    BY <1>2, <2>1, <2>2 DEF AnswerDialog, TypeOK
  <2>4. \A d \in Conns : desk[d] # "prompting" => answer'[d] = answer[d]
    BY <1>2 DEF AnswerDialog, TypeOK
  <2> QED
    BY <1>2, <2>3, <2>4, OutsidePreservesIInv DEF AnswerDialog, InTransit
<1>3. CASE OpenWindow \/ WindowEnds
  <2>1. TypeOK'
    BY <1>3 DEF OpenWindow, WindowEnds, TypeOK
  <2> QED
    BY <1>3, <2>1, OutsidePreservesIInv DEF OpenWindow, WindowEnds, InTransit
<1>4. CASE Stop
  <2>1. TypeOK'
    BY <1>4 DEF Stop, TypeOK
  <2> QED
    BY <1>4, <2>1, OutsidePreservesIInv DEF Stop, InTransit
<1> QED
  BY <1>1, <1>2, <1>3, <1>4

-----------------------------------------------------------------------------

\* Both ends of every connection, its frames and its answered code agree as
\* IInv says in every reachable state.
THEOREM InvariantHolds == Spec => []IInv
<1>1. IInv /\ [Next]_vars => IInv'
  <2>1. ASSUME IInv, UNCHANGED vars PROVE IInv'
    <3>1. TypeOK'
      BY <2>1 DEF vars, link, prompt, trust, IInv, TypeOK
    <3> QED
      BY <2>1, <3>1, OutsidePreservesIInv DEF vars, link, prompt, InTransit
  <2>2. {c \in Conns : phone[c] \notin {"none", "asked"}} \subseteq Conns
    OBVIOUS
  <2> QED
    BY <2>1, <2>2, DeskStepPreservesIInv, PhonePreservesIInv, StartPreservesIInv,
       UserPreservesIInv
    DEF Next
<1> QED
  BY <1>1, InitEstablishesIInv, PTL DEF Spec

\* Every variable keeps its type; the prompt lock is held by the one thread
\* that waits for a code.
THEOREM TypeCorrect == Spec => []TypeOK
<1>1. IInv => TypeOK
  BY DEF IInv
<1> QED
  BY <1>1, InvariantHolds, PTL

\* However many phones pair at once, whatever is typed, lost or stopped: a
\* phone that is paired has a desktop that trusted it, and no phone is told
\* that it is refused by a desktop that trusts it.
THEOREM BothEndsAgree == Spec => []EndsAgree
<1>1. IInv => EndsAgree
  BY DEF IInv, EndIsAnnounced, EndsAgree
<1> QED
  BY <1>1, InvariantHolds, PTL

\* The desktop trusts a phone only when the code of that phone's connection
\* was typed into the dialog of that connection.
THEOREM TrustIsEarned == Spec => TrustNeedsItsCode
<1> DEFINE Earned ==
      \A p \in deskTrusts' \ deskTrusts :
        \E c \in Conns : owner[c] = p /\ desk[c] = "trust" /\ answer[c] = c
<1>1. ASSUME IInv, NEW c \in Conns, Trust(c) PROVE Earned
  <2>1. desk[c] = "trust" /\ answer[c] = c
    BY <1>1 DEF Trust, IInv, CodeWasTyped
  <2>2. deskTrusts' = deskTrusts \cup {owner[c]}
    BY <1>1 DEF Trust
  <2> QED
    BY <2>1, <2>2
<1>2. ASSUME NEW c \in Conns, DeskStep(c), ~Trust(c) PROVE UNCHANGED deskTrusts
  BY <1>2
  DEF DeskStep, ReadRequest, Prompt, TakeAnswer, PromptTimesOut, Judge, ReadConfirm,
      NoConfirm, Complete, trust
<1>3. ASSUME NEW c \in Conns,
             PhoneStep(c) \/ PhoneTimesOut(c) \/ LeavePairing(c) \/ Lose(c)
      PROVE  UNCHANGED deskTrusts
  BY <1>3
  DEF PhoneStep, ReadChallenge, SendConfirm, ReadDeskConfirm, ReadReject, ReadComplete,
      PhoneTimesOut, LeavePairing, Lose, trust
<1>4. ASSUME NEW p \in Phones, DesktopForgets(p) PROVE deskTrusts' \subseteq deskTrusts
  BY <1>4 DEF DesktopForgets
<1>5. ASSUME NEW p \in Phones, NEW c \in Conns, StartPairing(p, c)
      PROVE  UNCHANGED deskTrusts
  BY <1>5 DEF StartPairing, trust
<1>6. ASSUME NEW typed, AnswerDialog(typed) PROVE UNCHANGED deskTrusts
  BY <1>6 DEF AnswerDialog, trust
<1>7. OpenWindow \/ WindowEnds \/ Stop => UNCHANGED deskTrusts
  BY DEF OpenWindow, WindowEnds, Stop, trust
<1>8. IInv /\ [Next]_vars => [Earned]_vars
  BY <1>1, <1>2, <1>3, <1>4, <1>5, <1>6, <1>7 DEF Next
<1> QED
  BY <1>8, InvariantHolds, PTL DEF Spec, TrustNeedsItsCode

=============================================================================
