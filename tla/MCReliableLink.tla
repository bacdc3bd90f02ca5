--------------------------- MODULE MCReliableLink ---------------------------
(***************************************************************************)
(* ReliableLink for TLC: the option sets the runs use.                     *)
(***************************************************************************)
EXTENDS ReliableLinkInv

GS == {"guaranteed", "sequential"}
GN == {"guaranteed"}
BS == {"sequential"}
GSLazy == {"guaranteed", "sequential", "lazy"}

AllModes == {GS, GN, BS, GSLazy, {}}
GuaranteedModes == {GS, GN}
=============================================================================
