-------------------------- MODULE MCDesktopSession --------------------------
(* Small instances of DesktopSession for TLC. *)
EXTENDS DesktopSession, TLC

CONSTANTS p1, p2, h1, h2, h3

TwoPhones     == {p1, p2}
OnePhone      == {p1}
TwoHandlers   == {h1, h2}
ThreeHandlers == {h1, h2, h3}

Symmetry == Permutations(Handlers) \cup Permutations(Devices)
HandlerSymmetry == Permutations(Handlers)
=============================================================================
