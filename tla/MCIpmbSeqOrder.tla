--------------------------- MODULE MCIpmbSeqOrder ---------------------------
(* A small instance of IpmbSeqOrder for TLC. *)
EXTENDS IpmbSeqOrder, TLC

\* A bound on the tokens that pile up in a slot.
CONSTANT MaxTokens
TokenBound == \A s \in Slot : seq_sem[s] <= MaxTokens

Symmetry == Permutations(Handler)
=============================================================================
