---------------------------- MODULE MCI2oInbound -----------------------------
(* I2oInbound with interchangeable message frames. *)
EXTENDS I2oInbound, TLC

Symmetry == Permutations(MFAs)
=============================================================================
