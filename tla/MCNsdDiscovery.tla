--------------------------- MODULE MCNsdDiscovery ---------------------------
(* Small instances of NsdDiscovery for TLC. *)
EXTENDS NsdDiscovery

CONSTANTS l1, l2, l3, w1, w2

ThreeListeners == {l1, l2, l3}
TwoListeners   == {l1, l2}
TwoNetworks    == {w1, w2}
OneNetwork     == {w1}
=============================================================================
