---------------------------- MODULE MCUdpListener ----------------------------
(* Instances of UdpListener for TLC. *)
EXTENDS UdpListener, TLC

Symmetry == Permutations(Clients) \cup Permutations(Listeners)
===============================================================================
