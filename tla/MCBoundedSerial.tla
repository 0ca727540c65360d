--------------------------- MODULE MCBoundedSerial --------------------------
(* Three entries, each of any kind, and two digesters: enough for a failed *)
(* read to be delivered while the other digester still holds a file and    *)
(* the walker waits with a third path.                                     *)
EXTENDS BoundedSerial, TLC

CONSTANTS d1, d2

MCDigester == {d1, d2}
=============================================================================
