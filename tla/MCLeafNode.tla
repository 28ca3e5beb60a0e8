------------------------------- MODULE MCLeafNode -------------------------------
(***************************************************************************)
(* LeafNode with a hash under which some keys share a fingerprint and some *)
(* do not, and one key hashes to the fingerprint of a zeroed slot.         *)
(***************************************************************************)
EXTENDS LeafNode

Parity(k) == k % 2
================================================================================
