-------------------------------- MODULE Entries --------------------------------
(***************************************************************************)
(* The config entries of __init__.py side by side: setup, unload and reload,  *)
(* the coordinators in hass.data[DOMAIN] that services look up, and what the  *)
(* transport of an entry holds: its MQTT subscriptions (ZM1MqttTransport) and *)
(* its client on the UDP listener (ZM1UdpTransport, or the maintenance client *)
(* of an MQTT entry).                                                         *)
(*                                                                         *)
(* Home Assistant runs one setup or unload of an entry at a time, those of     *)
(* different entries interleave at their awaits.  It reports a platform that    *)
(* cannot be set up without failing the entry.                                *)
(***************************************************************************)
EXTENDS Naturals

CONSTANTS
  Entries,
  Used          \* bound: the entries whose client a poll or a service may start

Topics == 2             \* state and sensor

VARIABLES
  stage,        \* where each entry is in its setup or unload
  transport,    \* CONF_TRANSPORT in the entry's data
  uses,         \* the transport of the coordinator made last
  subs,         \* _mqtt_unsubs: how many subscriptions
  attached,     \* the entries whose client is attached to the listener
  starting,     \* those whose client a poll or a service is about to attach
  registered,   \* hass.data[DOMAIN]: the entries that have a coordinator there
  present,      \* DOMAIN is in hass.data
  issue,        \* the entries with an mqtt_not_ready issue
  due,          \* the entries for which a setup or reload is scheduled
  exists        \* the entries there are

data == <<registered, present>>
client == <<attached, starting>>
held == <<subs, client>>
vars == <<stage, transport, uses, subs, attached, starting, registered, present, issue, due,
          exists>>

\* starting: the transport is set up.  polling: the first refresh queries.
\* forwarding, unloading: the platforms are set up or unloaded.  aborting, closing:
\* the client of a failed setup or of an unload waits for its socket, or for a start in
\* flight.  kept: the platforms did not unload.  failed: unloading raised, or was
\* cancelled.  left: it was cancelled before the close could let go of the client.
Stages == {"off", "starting", "polling", "forwarding", "loaded", "unloading", "aborting",
           "closing", "kept", "failed", "left"}

Transports == {"udp", "mqtt"}

TypeOK ==
  /\ stage \in [Entries -> Stages]
  /\ transport \in [Entries -> Transports]
  /\ uses \in [Entries -> Transports]
  /\ subs \in [Entries -> 0 .. Topics]
  /\ attached \subseteq Entries
  /\ starting \subseteq Entries
  /\ registered \subseteq Entries
  /\ present \in BOOLEAN
  /\ issue \subseteq Entries
  /\ due \subseteq Entries
  /\ exists \subseteq Entries

Init ==
  /\ stage = [e \in Entries |-> "off"]
  /\ transport \in [Entries -> Transports]
  /\ uses = transport
  /\ subs = [e \in Entries |-> 0]
  /\ attached = {}
  /\ starting = {}
  /\ registered = {}
  /\ present = FALSE
  /\ issue = {}
  /\ due = {}
  /\ exists \in SUBSET Entries

Go(e, s) == stage' = [stage EXCEPT ![e] = s]

-------------------------------------------------------------------------------
(* Setup *)

SetupStarts(e) ==
  /\ e \in exists
  /\ stage[e] = "off"
  /\ Go(e, "starting")
  /\ uses' = [uses EXCEPT ![e] = transport[e]]
  /\ due' = due \ {e}
  /\ UNCHANGED <<transport, held, data, issue, exists>>

\* The coordinator is stored and the platforms are set up.
Register(e) ==
  /\ registered' = registered \cup {e}
  /\ present' = TRUE
  /\ Go(e, "forwarding")

\* The client of a UDP entry is attached, or the port is taken and polls will retry.
ClientStarted(e) ==
  /\ stage[e] = "starting" /\ uses[e] = "udp"
  /\ \/ /\ attached' = attached \cup {e}
        /\ Go(e, "polling")
        /\ UNCHANGED data
     \/ /\ Register(e)
        /\ UNCHANGED attached
  /\ UNCHANGED <<transport, uses, subs, starting, issue, due, exists>>

\* The first query is answered or not.
Polled(e) ==
  /\ stage[e] = "polling"
  /\ Register(e)
  /\ UNCHANGED <<transport, uses, held, issue, due, exists>>

\* Subscribed with mistakes: the issue stays; one topic more is subscribed.
SubscribedSilently(e) ==
  /\ stage[e] = "starting" /\ uses[e] = "mqtt"
  /\ subs' = [subs EXCEPT ![e] = @ + 1]
  /\ \/ subs'[e] < Topics /\ UNCHANGED <<data, stage>>
     \/ subs'[e] = Topics /\ Register(e)
  /\ UNCHANGED <<transport, uses, client, issue, due, exists>>

SubscribedOver(e) ==
  /\ stage[e] = "starting" /\ uses[e] = "mqtt"
  /\ subs' = [subs EXCEPT ![e] = @ + 1]
  /\ \/ subs[e] < Topics /\ UNCHANGED <<data, stage, issue>>
     \/ subs[e] = Topics /\ issue' = issue \ {e} /\ Register(e)
  /\ UNCHANGED <<transport, uses, client, due, exists>>

\* One topic is subscribed; after the last one the issue is removed and the first
\* refresh of an MQTT entry has nothing to do.
Subscribed(e) ==
  /\ stage[e] = "starting" /\ uses[e] = "mqtt"
  /\ subs' = [subs EXCEPT ![e] = @ + 1]
  /\ \/ /\ subs'[e] < Topics
        /\ UNCHANGED <<data, stage, issue>>
     \/ /\ subs'[e] = Topics
        /\ issue' = issue \ {e}
        /\ Register(e)
  /\ UNCHANGED <<transport, uses, client, due, exists>>

\* NotReady with a mistake: what was subscribed before is left.
NotReadyKeeps(e) ==
  /\ stage[e] = "starting" /\ uses[e] = "mqtt"
  /\ issue' = issue \cup {e}
  /\ Go(e, "off")
  /\ UNCHANGED <<transport, uses, held, data, due, exists>>

\* Waiting for the MQTT client or subscribing raises: the broker is not ready.
NotReady(e) ==
  /\ stage[e] = "starting" /\ uses[e] = "mqtt"
  /\ subs' = [subs EXCEPT ![e] = 0]
  /\ issue' = issue \cup {e}
  /\ Go(e, "off")
  /\ UNCHANGED <<transport, uses, client, data, due, exists>>

\* ShutDown with a mistake: the client is closed without its start lock.
ShutDownUnlocked(e, waiting) ==
  /\ subs' = [subs EXCEPT ![e] = 0]
  /\ attached' = attached \ {e}
  /\ \/ e \in attached /\ Go(e, waiting)
     \/ Go(e, "off")
  /\ UNCHANGED starting

\* async_shutdown: all subscriptions end, the client lets go of the listener, and waits for
\* the socket if nobody else listens.  It must wait for a start in flight before it
\* can let go.
ShutDown(e, waiting) ==
  /\ subs' = [subs EXCEPT ![e] = 0]
  /\ attached' = attached \ {e}
  /\ \/ e \in attached \cup starting /\ Go(e, waiting)
     \/ e \notin starting /\ Go(e, "off")
  /\ UNCHANGED starting

\* The setup is cancelled: except BaseException.
SetupCancelled(e) ==
  /\ stage[e] \in {"starting", "polling"}
  /\ ShutDown(e, "aborting")
  /\ UNCHANGED <<transport, uses, data, issue, due, exists>>

Aborted(e) ==
  /\ stage[e] = "aborting"
  /\ Go(e, "off")
  /\ UNCHANGED <<transport, uses, held, data, issue, due, exists>>

Forwarded(e) ==
  /\ stage[e] = "forwarding"
  /\ Go(e, "loaded")
  /\ UNCHANGED <<transport, uses, held, data, issue, due, exists>>

-------------------------------------------------------------------------------
(* Unload *)

UnloadStarts(e) ==
  /\ stage[e] = "loaded"
  /\ Go(e, "unloading")
  /\ UNCHANGED <<transport, uses, held, data, issue, due, exists>>

PlatformsKept(e) ==
  /\ stage[e] = "unloading"
  /\ Go(e, "kept")
  /\ UNCHANGED <<transport, uses, held, data, issue, due, exists>>

\* PlatformsUnloaded with a mistake: the dictionary is emptied for the last entry.
PlatformsUnloadedAll(e) ==
  /\ stage[e] = "unloading"
  /\ registered' = {}
  /\ present' = FALSE
  /\ ShutDown(e, "closing")
  /\ UNCHANGED <<transport, uses, issue, due, exists>>

\* The coordinator is taken out and shut down.  If that need not wait, the dictionary
\* goes with its last coordinator at once.
PlatformsUnloaded(e) ==
  /\ stage[e] = "unloading"
  /\ present
  /\ registered' = registered \ {e}
  /\ ShutDown(e, "closing")
  /\ present' = (stage'[e] = "closing" \/ registered' # {})
  /\ UNCHANGED <<transport, uses, issue, due, exists>>

\* The close got the start lock after a start in flight: the client lets go.
Detached(e) ==
  /\ stage[e] = "closing"
  /\ e \in attached
  /\ attached' = attached \ {e}
  /\ UNCHANGED <<stage, transport, uses, subs, starting, data, issue, due, exists>>

\* The client has let go.  The dictionary may have gone with another entry.
Closed(e) ==
  /\ stage[e] = "closing"
  /\ e \notin attached \cup starting
  /\ \/ /\ present
        /\ present' = (registered # {})
        /\ Go(e, "off")
     \/ /\ ~present
        /\ Go(e, "failed")
        /\ UNCHANGED present
  /\ UNCHANGED <<transport, uses, held, registered, issue, due, exists>>

\* The unload is cancelled at the socket, or at the start lock: nobody closes the client.
UnloadCancelled(e) ==
  /\ stage[e] = "closing"
  /\ Go(e, IF e \in attached \cup starting THEN "left" ELSE "failed")
  /\ UNCHANGED <<transport, uses, held, data, issue, due, exists>>

-------------------------------------------------------------------------------
(* Polls, services and the user *)

\* A poll of a UDP entry, or a service that finds the coordinator (_get_coordinator),
\* starts the client.
ClientUsed(e) ==
  /\ e \in Used
  /\ \/ stage[e] = "loaded" /\ uses[e] = "udp"
     \/ present /\ e \in registered
  /\ e \notin attached
  /\ starting' = starting \cup {e}
  /\ UNCHANGED <<stage, transport, uses, subs, attached, data, issue, due, exists>>

\* The start ends, in whatever stage the entry is by then: the client is attached even
\* if it is to be closed, unless the port is taken or the start is cancelled.
StartEnds(e) ==
  /\ e \in starting
  /\ starting' = starting \ {e}
  /\ attached' \in {attached, attached \cup {e}}
  /\ UNCHANGED <<stage, transport, uses, subs, data, issue, due, exists>>

\* What is not closed stays until Home Assistant is restarted.
Stuck == {"kept", "left"}

\* A new entry, with a new entry_id.
Created(e, t) ==
  /\ stage[e] \notin Stuck
  /\ exists' = exists \cup {e}
  /\ transport' = [transport EXCEPT ![e] = t]
  /\ issue' = issue \ {e}
  /\ due' = due \cup {e}
  /\ UNCHANGED <<stage, uses, held, data>>

\* The entry is removed, once it is unloaded or if that failed.
Removed(e) ==
  /\ e \in exists
  /\ stage[e] \in {"off", "failed"} \cup Stuck
  /\ exists' = exists \ {e}
  /\ stage' = IF stage[e] \in Stuck THEN stage ELSE [stage EXCEPT ![e] = "off"]
  /\ due' = due \ {e}
  /\ UNCHANGED <<transport, uses, held, data, issue>>

\* The stages in which the update listener is registered.
Listening == {"forwarding", "loaded", "unloading", "closing"}

\* Reconfigured with a mistake: only the update listener reloads.
ReconfiguredLoaded(e, t) ==
  /\ e \in exists
  /\ transport' = [transport EXCEPT ![e] = t]
  /\ due' = IF stage[e] \in Listening THEN due \cup {e} ELSE due
  /\ UNCHANGED <<stage, uses, held, data, issue, exists>>

\* async_update_reload_and_abort, in any stage.
Reconfigured(e, t) ==
  /\ e \in exists
  /\ transport' = [transport EXCEPT ![e] = t]
  /\ due' = due \cup {e}
  /\ UNCHANGED <<stage, uses, held, data, issue, exists>>

Scheduled(e) ==
  /\ due' = due \cup {e}
  /\ UNCHANGED <<stage, transport, uses, held, data, issue, exists>>

\* An update of the options, or of the entry's data by its transport: _async_update_options
\* reloads if it listens.
Updated(e) ==
  /\ e \in exists
  /\ stage[e] \in Listening
  /\ Scheduled(e)

\* An update of the data by zeroconf also hurries a setup that is to be retried.
Renamed(e) ==
  /\ e \in exists
  /\ stage[e] \in Listening \cup {"off"}
  /\ Scheduled(e)

-------------------------------------------------------------------------------
SetupStep(e) ==
  \/ SetupStarts(e) \/ ClientStarted(e) \/ Polled(e) \/ Subscribed(e) \/ NotReady(e)
  \/ SetupCancelled(e) \/ Aborted(e) \/ Forwarded(e)

UnloadStep(e) ==
  \/ UnloadStarts(e) \/ PlatformsKept(e) \/ PlatformsUnloaded(e) \/ Detached(e)
  \/ Closed(e) \/ UnloadCancelled(e)

EntryStep(e) ==
  \/ SetupStep(e) \/ UnloadStep(e) \/ ClientUsed(e) \/ StartEnds(e)
  \/ Updated(e) \/ Removed(e)

Next ==
  \/ \E e \in Entries : EntryStep(e) \/ Renamed(e)
  \/ \E e \in Entries, t \in Transports : Created(e, t) \/ Reconfigured(e, t)

Spec == Init /\ [][Next]_vars

\* Home Assistant runs a scheduled reload, and every await ends.  Nobody
\* need load an entry that is not due, or subscribe in vain.
Fairness ==
  \A e \in Entries :
    /\ WF_vars(e \in due /\ SetupStarts(e))
    /\ WF_vars(e \in due /\ UnloadStarts(e))
    /\ WF_vars(ClientStarted(e) \/ Subscribed(e) \/ NotReady(e))
    /\ WF_vars(Polled(e)) /\ WF_vars(Aborted(e)) /\ WF_vars(Forwarded(e))
    /\ WF_vars(PlatformsUnloaded(e) \/ PlatformsKept(e))
    /\ WF_vars(StartEnds(e)) /\ WF_vars(Detached(e)) /\ WF_vars(Closed(e))

FairSpec == Spec /\ Fairness

-------------------------------------------------------------------------------
(* Properties *)

\* An entry whose setup failed or was cancelled, or whose unload is over, holds nothing
\* and nothing is about to be attached for it: a retry starts from nothing, although a
\* poll or a service may have been starting the client when it was closed
\* (__init__.py:55-67, 80-83, transport.py:333-334, udp.py:182-195).  Excluded is the
\* unload that is cancelled before its close got the start lock: the entry is left
\* without subscriptions, but its client may stay attached for good.
NothingHeld ==
  \A e \in Entries :
    /\ stage[e] \in {"off", "aborting", "failed"} => e \notin attached \cup starting
    /\ stage[e] \in {"off", "aborting", "closing", "failed", "left"} => subs[e] = 0

SetUp == {"forwarding", "loaded", "unloading", "kept"}

\* Services find the coordinators of the entries that are set up and of no others,
\* although entries are set up and unloaded at the same time (__init__.py:69, 80-83).
FoundByServices ==
  /\ registered = {e \in Entries : stage[e] \in SetUp}
  /\ registered # {} => present

\* A loaded MQTT entry has both subscriptions and no issue: "It removes the issue after
\* recovery".
ReadyMeansSubscribed ==
  \A e \in Entries : stage[e] = "loaded" /\ uses[e] = "mqtt" => subs[e] = Topics /\ e \notin issue

\* A change of the transport takes effect, also one that comes during a setup, when no
\* update listener is registered: "The integration reloads the config entry after
\* either change".  Only an entry that failed to unload is left.
ChangeApplies ==
  \A e \in Entries :
    e \in exists /\ transport[e] # uses[e] ~>
      \/ e \notin exists \/ transport[e] = uses[e] \/ stage[e] \in Stuck \cup {"failed"}

-------------------------------------------------------------------------------
(* The inductive invariant: what an entry holds in the course of its setup.      *)

HeldInv ==
  \A e \in Entries :
    /\ stage[e] = "starting" =>
         e \notin attached /\ subs[e] < Topics /\ (uses[e] = "udp" => subs[e] = 0)
    /\ stage[e] \in {"starting", "polling"} => e \notin starting
    /\ stage[e] = "polling" => uses[e] = "udp"
    /\ stage[e] \in SetUp /\ uses[e] = "mqtt" => subs[e] = Topics /\ e \notin issue

Inv == TypeOK /\ NothingHeld /\ FoundByServices /\ HeldInv
===============================================================================
