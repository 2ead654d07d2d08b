-------------------------- MODULE MCSequenceAllocator --------------------------
(* Two callers of one handle and one of another, on a four-bit counter.      *)
EXTENDS SequenceAllocator, TLC

CONSTANTS a1, a2, b1, ha, hb

Shared == (a1 :> ha) @@ (a2 :> ha) @@ (b1 :> hb)
=============================================================================
