-------------------------------- MODULE Outage --------------------------------
(***************************************************************************)
(* What users see of a device over UDP that falls silent and comes back,     *)
(* without polls, retries, discovery, counts and reloads: it is doubted and    *)
(* given up only in silence (after how many failures is the policy's: none may *)
(* be tolerated), polled less and less while it is in doubt, and trusted again, *)
(* at the configured interval and without an issue, only by a report.          *)
(***************************************************************************)
EXTENDS Naturals

CONSTANTS
  Base,       \* the configured interval within its bounds
  Ceiling     \* the longest interval

VARIABLES
  trust,      \* "healthy", "suspected" or "unavailable"
  interval,   \* between polls
  heard,      \* a report came within the configured interval
  issue       \* the Repairs issue exists

vars == <<trust, interval, heard, issue>>

Onward ==
  [healthy     |-> {"suspected", "unavailable"},
   suspected   |-> {"suspected", "unavailable"},
   unavailable |-> {"unavailable"}]

Init ==
  /\ trust = "healthy"
  /\ interval = Base
  /\ heard = FALSE
  /\ issue = FALSE

Doubled == IF 2 * interval <= Ceiling THEN 2 * interval ELSE Ceiling

\* A poll failed: the interval doubles until it is long enough, and giving the device
\* up raises the issue.
Fail ==
  /\ ~heard
  /\ trust' \in Onward[trust]
  /\ interval' = Doubled \/ (trust # "healthy" /\ interval' = interval)
  /\ issue' = (issue \/ trust' = "unavailable")
  /\ UNCHANGED heard

\* A report leaves the device in doubt or ends the outage altogether.
Hear ==
  /\ heard' = TRUE
  /\ \/ trust # "healthy" /\ UNCHANGED <<trust, interval, issue>>
     \/ trust' = "healthy" /\ interval' = Base /\ issue' = FALSE

Silence ==
  /\ heard' = FALSE
  /\ UNCHANGED <<trust, interval, issue>>

\* A new transport: an issue of the old one stays until the device is heard.
Renew ==
  /\ trust' = "healthy"
  /\ interval' = Base
  /\ heard' = FALSE
  /\ UNCHANGED issue

Next == Fail \/ Hear \/ Silence \/ Renew

Spec == Init /\ [][Next]_vars
===============================================================================
