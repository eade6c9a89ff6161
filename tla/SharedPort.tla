------------------------------ MODULE SharedPort ------------------------------
(***************************************************************************)
(* What the shared UDP reception of udp.py promises, without its locks,     *)
(* futures and sockets: the response port is bound while somebody listens,  *)
(* a datagram reaches every listener and nobody else, and only an owner     *)
(* itself can end its own reception.                                        *)
(***************************************************************************)
CONSTANT Owners     \* the clients and one-shot discoveries of one port

VARIABLES bound,    \* the response port is bound by this process
          hearing   \* the owners every datagram is delivered to

vars == <<bound, hearing>>

TypeOK == bound \in BOOLEAN /\ hearing \subseteq Owners

Init == bound = FALSE /\ hearing = {}

\* The port is opened for a first owner, which does not hear anything yet.
Bind == ~bound /\ bound' = TRUE /\ UNCHANGED hearing

Attach(o) == bound /\ hearing' = hearing \cup {o} /\ UNCHANGED bound

Detach(o) == hearing' = hearing \ {o} /\ UNCHANGED bound

\* The port is given back only when nobody is listening.
Unbind == bound /\ hearing = {} /\ bound' = FALSE /\ UNCHANGED hearing

Next == Bind \/ Unbind \/ \E o \in Owners : Attach(o) \/ Detach(o)

Spec == Init /\ [][Next]_vars
===============================================================================
