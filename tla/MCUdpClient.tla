------------------------------ MODULE MCUdpClient ------------------------------
(* Instances of UdpClient for TLC. *)
EXTENDS UdpClient, TLC

CONSTANTS f1, f2, v1

\* A command that sets one field and expects a second to be reported with it.
SetAndQuery == {[f \in {f1, f2} |-> IF f = f1 THEN v1 ELSE AnyValue]}
===============================================================================
