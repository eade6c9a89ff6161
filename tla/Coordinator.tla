------------------------------ MODULE Coordinator ------------------------------
(***************************************************************************)
(* ZM1Coordinator of coordinator.py: the observations of one device, the     *)
(* callback that expires them, and shutdown while the transport's client may *)
(* still be starting.  The client is reduced to whether its handler is       *)
(* attached (module UdpListener).                                            *)
(*                                                                         *)
(* Time: Tick is one unit of both clocks; the event loop runs a timer that   *)
(* is due before time goes on.  StepClock is the wall clock being set, which *)
(* moves the age of every observation and no timer.                          *)
(***************************************************************************)
EXTENDS Observations

CONSTANTS
  ClockSteps,   \* amounts by which the wall clock may be set
  MaxSkew       \* bound: how far behind an observation the wall clock may be

ASSUME ClockAssumption == ClockSteps \subseteq Int /\ MaxSkew \in Nat

VARIABLES
  obs,      \* data: the observation of each field
  expiry,   \* ticks until _expiry_unsub's timer is due, or Off
  link,     \* the client: "off", "starting" (async_start in flight) or "on"
  life,     \* "running", "closing" (shutdown waits for the start), "down"
  heard     \* history: ticks since a valid value of each field was received

cvars == <<obs, expiry, link, life, heard>>

Off == -1

CTypeOK ==
  /\ obs \in [Fields -> Observation]
  /\ \A f \in Fields : obs[f].age <= TTL
  /\ expiry \in Nat \cup {Off}
  /\ link \in {"off", "starting", "on"}
  /\ life \in {"running", "closing", "down"}
  /\ heard \in [Fields -> 0 .. TTL]

AllFields(x) == [f \in Fields |-> x]

CInit ==
  /\ obs = AllFields(Unobserved)
  /\ expiry = Off
  /\ link = "off"
  /\ life = "running"
  /\ heard = AllFields(TTL)

-------------------------------------------------------------------------------
\* The fields _schedule_expiry computes a deadline for.
Pending(data) == {f \in Expiring : data[f].age < TTL}

\* Schedule with a mistake: the latest deadline.
ScheduleLast(data) ==
  \/ /\ Pending(data) = {}
     /\ expiry' = Off
  \/ \E f \in Pending(data) :
       /\ \A g \in Pending(data) : data[g].age >= data[f].age
       /\ expiry' = TTL - data[f].age

\* _schedule_expiry: a timer for the earliest deadline, that of the oldest field.
Schedule(data) ==
  \/ /\ Pending(data) = {}
     /\ expiry' = Off
  \/ \E f \in Pending(data) :
       /\ \A g \in Pending(data) : data[g].age <= data[f].age
       /\ expiry' = TTL - data[f].age

\* _handle_transport_message, when a report reaches the attached client.
Receive(report, source) ==
  /\ link = "on"
  /\ obs' = Merge(obs, report, source)
  /\ Schedule(obs')
  /\ heard' = [f \in Fields |-> IF report[f] \in Values THEN 0 ELSE heard[f]]
  /\ UNCHANGED <<link, life>>

\* _expire_observations.
Expire ==
  /\ expiry = 0
  /\ Schedule(obs)
  /\ UNCHANGED <<obs, link, life, heard>>

\* async_start, from _async_setup or from a poll after it failed.
StartLink ==
  /\ life = "running"
  /\ link = "off"
  /\ link' = "starting"
  /\ UNCHANGED <<obs, expiry, life, heard>>

\* async_start ends, attached or not; a waiting close lets it finish.
LinkStarted ==
  /\ link = "starting"
  /\ link' \in {"on", "off"}
  /\ UNCHANGED <<obs, expiry, life, heard>>

\* async_shutdown: cancel the expiry callback, then close the client, which waits
\* for a start in flight.
Shutdown ==
  /\ life = "running"
  /\ expiry' = Off
  /\ \/ link = "starting" /\ life' = "closing" /\ UNCHANGED link
     \/ link # "starting" /\ life' = "down" /\ link' = "off"
  /\ UNCHANGED <<obs, heard>>

\* async_close gets the start lock.
CloseLink ==
  /\ life = "closing"
  /\ link # "starting"
  /\ link' = "off"
  /\ life' = "down"
  /\ UNCHANGED <<obs, expiry, heard>>

\* The entry is set up again: a new coordinator without data.
Renew ==
  /\ life = "down"
  /\ obs' = AllFields(Unobserved)
  /\ expiry' = Off
  /\ life' = "running"
  /\ heard' = AllFields(TTL)
  /\ UNCHANGED link

CTick ==
  /\ expiry # 0
  /\ obs' = Aged(obs, 1)
  /\ expiry' = IF expiry = Off THEN Off ELSE expiry - 1
  /\ heard' = [f \in Fields |-> IF heard[f] < TTL THEN heard[f] + 1 ELSE TTL]
  /\ UNCHANGED <<link, life>>

StepClock(d) ==
  /\ \A f \in Fields : obs[f].age + d >= -MaxSkew
  /\ obs' = Aged(obs, d)
  /\ UNCHANGED <<expiry, link, life, heard>>

-------------------------------------------------------------------------------
\* The steps after which nobody is notified.
CQuiet ==
  \/ StartLink \/ LinkStarted \/ CloseLink
  \/ \E d \in ClockSteps : StepClock(d)

CNext ==
  \/ \E r \in Reports, s \in Sources : Receive(r, s)
  \/ Expire \/ CTick \/ Shutdown \/ Renew \/ CQuiet

CSpec == CInit /\ [][CNext]_cvars

-------------------------------------------------------------------------------
(* Properties *)

\* While a coordinator runs, the expiry callback is due no later than the first
\* deadline of an observation that is still valid, whatever order reports, failed
\* values and expiries come in (_schedule_expiry, coordinator.py:125-141).
ExpiryArmed ==
  life = "running" =>
    \A f \in Pending(obs) : expiry # Off /\ expiry <= TTL - obs[f].age

\* A field is valid exactly while a valid value of it was received less than TTL ago:
\* neither another field, an invalid value nor a poll renews it, and none is lost.
FreshMeansHeard == \A f \in Expiring : Fresh(obs[f]) <=> heard[f] < TTL

\* async_shutdown releases "the shared listener, expiry callback and coordinator
\* timers" (coordinator.py:60).
ShutdownReleases == life = "down" => expiry = Off /\ link = "off"
===============================================================================
