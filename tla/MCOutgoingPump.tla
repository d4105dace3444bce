--------------------------- MODULE MCOutgoingPump ---------------------------
(* Small instances of OutgoingPump for TLC. *)
EXTENDS OutgoingPump, TLC

CONSTANTS p1, p2

\* First and last of the seventeen families, and the first alone.
TwoFamilies   == <<"file", "ring">>
OneFamily     == <<"file">>
OnePump       == {p1}
TwoPumps      == {p1, p2}

Symmetry == Permutations(Pumps)
=============================================================================
