---------------------------- MODULE MCUdpTransport ----------------------------
(* UdpTransport with a device that has had two addresses, and a host name. *)
EXTENDS UdpTransport

CONSTANTS a1, a2, name, none

TwoAddresses == {a1, a2}
AnyConfig == {none, a1, name}
===============================================================================
