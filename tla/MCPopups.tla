---------------------------- MODULE MCPopups ----------------------------
(* Small instances of Popups. *)
EXTENDS Popups, TLC

\* A ringing call, the same call taken, with and without an action, a missed
\* call, and a message to reply to.
MCContents ==
  {[kind |-> "ringing", acts |-> {"answer", "decline"}],
   [kind |-> "ongoing", acts |-> {"hangup"}],
   [kind |-> "ongoing", acts |-> {}],
   [kind |-> "missed", acts |-> {}],
   [kind |-> "message", acts |-> {"reply"}]}

Alike == Permutations(Callers) \cup Permutations(Texts)
=============================================================================
