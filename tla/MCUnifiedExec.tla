---------------------------- MODULE MCUnifiedExec ----------------------------
(* Small instances of UnifiedExec for TLC. *)
EXTENDS UnifiedExec

CONSTANTS w1, w2
MCTwoWriters == {w1, w2}
MCOneWriter == {w1}
MCNoTty == {}
MCFirstTty == {1}
=============================================================================
