---------------------------- MODULE FileDelivery ----------------------------
(***************************************************************************)
(* What a file transfer promises, whoever sends: a file that was offered   *)
(* is saved as it was offered, or refused, or neither because the session  *)
(* ended; and it stays so.  FileTransfer implements this.                  *)
(***************************************************************************)
CONSTANTS Transfers, Contents, NoContent

VARIABLES
  stage,   \* per transfer: new, offered, saved or refused
  doc,     \* the content whose size and digest were offered
  got      \* the content that was saved

vars == <<stage, doc, got>>

Init ==
  /\ stage = [t \in Transfers |-> "new"]
  /\ doc = [t \in Transfers |-> NoContent]
  /\ got = [t \in Transfers |-> NoContent]

Offer(t) ==
  /\ stage[t] = "new"
  /\ stage' = [stage EXCEPT ![t] = "offered"]
  /\ \E c \in Contents : doc' = [doc EXCEPT ![t] = c]
  /\ UNCHANGED got

Deliver(t) ==
  /\ stage[t] = "offered"
  /\ stage' = [stage EXCEPT ![t] = "saved"]
  /\ got' = [got EXCEPT ![t] = doc[t]]
  /\ UNCHANGED doc

Refuse(t) ==
  /\ stage[t] = "offered"
  /\ stage' = [stage EXCEPT ![t] = "refused"]
  /\ UNCHANGED <<doc, got>>

Next == \E t \in Transfers : Offer(t) \/ Deliver(t) \/ Refuse(t)

Spec == Init /\ [][Next]_vars

=============================================================================
