---------------------------- MODULE MCIpcService ----------------------------
(* Small instances of IpcService for TLC. *)
EXTENDS IpcService, TLC

Symmetry == Permutations(Client)
=============================================================================
