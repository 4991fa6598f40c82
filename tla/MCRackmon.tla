----------------------------- MODULE MCRackmon -----------------------------
(* rackmond for TLC. *)
EXTENDS Rackmon

ScanAndMonitor == {"scan", "monitor"}
=============================================================================
