------------------------------- MODULE MCWdt -------------------------------
(* The watchdog for TLC. *)
EXTENDS Wdt

\* The flags of the uses are independent of each other.
Uses == {"SMS/OS"}
=============================================================================
