---------------------------- MODULE MCGlobalLoop ----------------------------
(***************************************************************************)
(* Instances of GlobalLoop for TLC.                                        *)
(***************************************************************************)
EXTENDS GlobalLoop, TLC

CONSTANTS c1, c2, null

MCCtx     == {c1, c2}
MCChan    == {"status", "cmd", "data"}
MCTwoChan == {"status", "cmd"}
Symmetry  == Permutations(MCCtx)
MCAny     == {null}
MCFirst   == {c1}
MCAll     == {c1, c2, null}
=============================================================================
