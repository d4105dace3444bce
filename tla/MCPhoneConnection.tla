------------------------- MODULE MCPhoneConnection -------------------------
(* A small instance of PhoneConnection for TLC. *)
EXTENDS PhoneConnection

MCSockets == 1..6

\* The coroutine of the confirmation names its sockets from the other end,
\* which makes fewer states.
MCName(free, k) ==
  CHOOSE s \in free : \A u \in free : IF k = "confirm" THEN u <= s ELSE s <= u

=============================================================================
