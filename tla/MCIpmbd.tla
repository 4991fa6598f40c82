------------------------------- MODULE MCIpmbd -------------------------------
(* Small instances of Ipmbd for TLC. *)
EXTENDS Ipmbd, TLC

\* Handlers are interchangeable; no property names one.
Symmetry == Permutations(Handler)
=============================================================================
