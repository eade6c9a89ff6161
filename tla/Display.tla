------------------------------- MODULE Display -------------------------------
(***************************************************************************)
(* What the entities of a device promise, without reports, timers or clocks: *)
(* a value is shown from the moment it is heard, an expiring one for exactly *)
(* TTL ticks, and no other time passes while anything else is shown.         *)
(***************************************************************************)
EXTENDS Naturals

CONSTANTS Fields, Expiring, Values, NoValue, TTL

VARIABLES
  known,    \* the last valid value of each field
  age,      \* ticks since it was heard, at most TTL
  present,  \* the fields with an entity
  shown     \* the value each entity shows; NoValue: unavailable

vars == <<known, age, present, shown>>

Init ==
  /\ known = [f \in Fields |-> NoValue]
  /\ age = [f \in Fields |-> TTL]
  /\ present = {}
  /\ shown = [f \in Fields |-> NoValue]

Due(f) == IF f \in Expiring /\ age[f] = TTL THEN NoValue ELSE known[f]

Showings == [Fields -> Values \cup {NoValue}]

\* Valid values of some fields are heard: everything is shown as it is due.
Hear ==
  /\ known' \in Showings /\ age' \in [Fields -> 0 .. TTL]
  /\ \A f \in Fields :
       \/ known'[f] \in Values /\ age'[f] = 0
       \/ known'[f] = known[f] /\ age'[f] = age[f]
  /\ shown' = [f \in Fields |-> IF f \in present THEN Due(f)' ELSE shown[f]]
  /\ UNCHANGED present

\* Some entities catch up.
Refresh ==
  /\ shown' \in Showings
  /\ \A f \in Fields : shown'[f] = shown[f] \/ (f \in present /\ shown'[f] = Due(f))
  /\ UNCHANGED <<known, age, present>>

Add(f) ==
  /\ f \notin present
  /\ present' = present \cup {f}
  /\ shown' = [shown EXCEPT ![f] = Due(f)]
  /\ UNCHANGED <<known, age>>

Remove(f) ==
  /\ f \in present
  /\ present' = present \ {f}
  /\ shown' = [shown EXCEPT ![f] = NoValue]
  /\ UNCHANGED <<known, age>>

\* The entry was set up again.
Forget ==
  /\ present = {}
  /\ known' = [f \in Fields |-> NoValue]
  /\ age' = [f \in Fields |-> TTL]
  /\ UNCHANGED <<present, shown>>

Pass ==
  /\ \A f \in present : shown[f] = Due(f)
  /\ age' = [f \in Fields |-> IF age[f] < TTL THEN age[f] + 1 ELSE TTL]
  /\ UNCHANGED <<known, present, shown>>

Next ==
  Hear \/ Refresh \/ Forget \/ Pass \/ \E f \in Fields : Add(f) \/ Remove(f)

Spec == Init /\ [][Next]_vars
===============================================================================
