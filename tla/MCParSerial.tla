---------------------------- MODULE MCParSerial -----------------------------
(* All trees of three entries: one goroutine can fail while another waits  *)
(* to send and the walker is about to poll.                                *)
EXTENDS ParSerial
=============================================================================
