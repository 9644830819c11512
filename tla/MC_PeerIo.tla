------------------------------ MODULE MC_PeerIo ------------------------------
(* Model-checking instance of PeerIo: peer slots as model values, more    *)
(* connections than slots so that a slot is reused, and partial writes of *)
(* a 3-byte message through a 2-byte send buffer.                         *)
EXTENDS PeerIo

CONSTANTS s1, s2

MC_Slots == {s1, s2}

\* One slot reused by successive connections (the liveness runs).
MC_OneSlot == {s1}
==============================================================================
