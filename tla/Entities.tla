------------------------------- MODULE Entities -------------------------------
(***************************************************************************)
(* The publication of observations by the entities of entity.py, sensor.py   *)
(* and light.py, composed with the coordinator that notifies them: every     *)
(* change is published at once, identical reports are coalesced.  There is   *)
(* one entity per field (the light for brightness).                          *)
(***************************************************************************)
EXTENDS Coordinator

CONSTANT Interval       \* REPORT_INTERVAL

ASSUME IntervalAssumption == Interval \in Nat \ {0}

VARIABLE ent            \* the entity of each field

vars == <<obs, expiry, link, life, heard, ent>>

\* What _publication_state compares: availability, value and attributes other than
\* observed_at.  Fields that do not expire have no attributes.
Key(f, data) ==
  LET o == data[f] IN
  IF f \in Expiring
  THEN [available |-> Fresh(o),
        value     |-> IF Fresh(o) THEN o.value ELSE NoValue,
        source    |-> o.source]
  ELSE [available |-> o.value # NoValue, value |-> o.value, source |-> NoSource]

Keys == [available : BOOLEAN, value : Values \cup {NoValue}, source : Sources \cup {NoSource}]

\* key is _published_state, since the time since _published_at (at most Interval),
\* timer the ticks until _publish_unsub's timer is due.  lags is history: a report
\* of the field arrived after the last publication.
EntityStates ==
  [added : BOOLEAN, key : Keys, since : 0 .. Interval, timer : Off .. Interval,
   lags : BOOLEAN]

Hidden == [added |-> FALSE,
           key   |-> [available |-> FALSE, value |-> NoValue, source |-> NoSource],
           since |-> 0, timer |-> Off, lags |-> FALSE]

TypeOK == CTypeOK /\ ent \in [Fields -> EntityStates]

Init == CInit /\ ent = AllFields(Hidden)

-------------------------------------------------------------------------------
\* _publish_report.
Published(e, key) ==
  [e EXCEPT !.key = key, !.since = 0, !.timer = Off, !.lags = FALSE]

\* Handled with mistakes: a coalesced report is dropped; every report is published; a
\* change waits like a repeated report.
HandledDrops(e, key) ==
  IF key # e.key \/ e.since = Interval THEN Published(e, key) ELSE e

HandledAlways(e, key) == Published(e, key)

HandledLazily(e, key) ==
  IF e.since = Interval THEN Published(e, key)
  ELSE IF e.timer = Off THEN [e EXCEPT !.timer = Interval - e.since]
  ELSE e

\* _handle_coordinator_update, for an entity whose current key is key.
Handled(e, key) ==
  IF key # e.key \/ e.since = Interval THEN Published(e, key)
  ELSE IF e.timer = Off THEN [e EXCEPT !.timer = Interval - e.since]
  ELSE e

\* async_update_listeners, after observed received a value.
Notify(observed) ==
  ent' = [f \in Fields |->
            IF ent[f].added
            THEN Handled([ent[f] EXCEPT !.lags = @ \/ f \in observed], Key(f, obs'))
            ELSE ent[f]]

Report(r, s) ==
  /\ Receive(r, s)
  /\ Notify({f \in Fields : Stamps(obs[f], r[f])})

\* Message with a mistake: a retained report counts as an observation.
MessageRetained(r, s, retained) ==
  \/ ~retained /\ Report(r, s)
  \/ /\ retained /\ link = "on"
     /\ obs' = Merge(obs, r, s)
     /\ Schedule(obs')
     /\ Notify({})
     /\ UNCHANGED <<link, life, heard>>

\* A report reaches the transport.  An MQTT broker may deliver a retained one, which
\* has no sampling time: handle_message drops it.
Message(r, s, retained) == ~retained /\ Report(r, s)

\* Expiry with a mistake: nobody is told.
ExpirySilent == Expire /\ UNCHANGED ent

Expiry == Expire /\ Notify({})

\* A poll ends: it changes no observation, and DataUpdateCoordinator notifies when
\* the outcome or the data differ from what they were before the poll.
PollEnds ==
  /\ life = "running"
  /\ UNCHANGED cvars
  /\ Notify({})

\* The timer armed for a coalesced report runs _publish_report.
Flush(f) ==
  /\ ent[f].timer = 0
  /\ ent' = [ent EXCEPT ![f] = Published(@, Key(f, obs))]
  /\ UNCHANGED cvars

\* async_added_to_hass, and the state Home Assistant writes next.
Add(f) ==
  /\ life = "running"
  /\ ~ent[f].added
  /\ ent' = [ent EXCEPT ![f] = Published([@ EXCEPT !.added = TRUE], Key(f, obs))]
  /\ UNCHANGED cvars

\* The entity stops listening, then async_will_remove_from_hass.
Remove(f) ==
  /\ ent[f].added
  /\ ent' = [ent EXCEPT ![f] = Hidden]
  /\ UNCHANGED cvars

\* async_unload_entry removes the entities first.
Unload ==
  /\ \A f \in Fields : ~ent[f].added
  /\ Shutdown
  /\ UNCHANGED ent

Tick ==
  /\ \A f \in Fields : ent[f].timer # 0
  /\ CTick
  /\ ent' = [f \in Fields |->
               IF ent[f].added
               THEN [ent[f] EXCEPT !.since = IF @ < Interval THEN @ + 1 ELSE @,
                                   !.timer = IF @ = Off THEN Off ELSE @ - 1]
               ELSE ent[f]]

Quiet == (CQuiet \/ Renew) /\ UNCHANGED ent

Next ==
  \/ \E r \in Reports, s \in Sources, retained \in BOOLEAN : Message(r, s, retained)
  \/ \E f \in Fields : Flush(f) \/ Add(f) \/ Remove(f)
  \/ Expiry \/ PollEnds \/ Unload \/ Tick \/ Quiet

Spec == Init /\ [][Next]_vars

-------------------------------------------------------------------------------
(* Properties *)

\* What is published is what the observations say: no field is shown as available
\* past its time, and no change waits.  The moment between a deadline and the expiry
\* callback that is due is excluded (entity.py:54, coordinator.py:144-147).
ShownIsTrue ==
  expiry # 0 => \A f \in Fields : ent[f].added => ent[f].key = Key(f, obs)

\* A report that was coalesced will have its time stamp published exactly one interval
\* after the last publication, even when the device falls silent (entity.py:50-58).
LaggingIsScheduled ==
  \A f \in Fields : ent[f].added /\ ent[f].lags =>
    ent[f].timer # Off /\ ent[f].since + ent[f].timer = Interval

\* Nothing but a change is published twice within an interval (README: "Repeated
\* identical reports are published at most once per 60 seconds").
CoalescesRepeats ==
  [][\A f \in Fields :
       /\ ent[f].added /\ ent'[f].added
       /\ ent'[f].since = 0 /\ ent[f].since > 0
       /\ ent'[f].key = ent[f].key
       => ent[f].since = Interval]_vars

Display == INSTANCE Display WITH
  known   <- [f \in Fields |-> obs[f].value],
  age     <- heard,
  present <- {f \in Fields : ent[f].added},
  shown   <- [f \in Fields |-> IF ent[f].key.available THEN ent[f].key.value ELSE NoValue]

\* Stamps, deadlines, notifications and coalescing together do what a reader of the
\* entities expects: a field shows its last valid value from its report on, and becomes
\* unavailable exactly at the end of its lifetime (README.md:46-49).
ImplementsDisplay == Display!Spec

\* "One new valid report restores that field immediately" (README.md:49): the entity is
\* available in the very step in which a valid value of its field is heard.
RestoredAtOnce ==
  [][\A f \in Expiring :
       ent[f].added /\ heard[f] > 0 /\ heard'[f] = 0 => ent'[f].key.available]_vars
===============================================================================
