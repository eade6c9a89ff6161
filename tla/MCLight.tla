-------------------------------- MODULE MCLight --------------------------------
(* An instance of Light for TLC. *)
EXTENDS Light

\* The wall clock may be set back or forward by one tick at a time.
Steps == {-1, 1}
===============================================================================
