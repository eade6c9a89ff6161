------------------------------ MODULE ConfigFlow ------------------------------
(***************************************************************************)
(* The config flows of config_flow.py on the entries of __init__.py: the      *)
(* forms to add a device by hand and to reconfigure an entry, which validate  *)
(* what was entered by a discovery and a query, and the offer to add a device *)
(* that zeroconf discovered.  A form that is open but not submitted has no    *)
(* state.  Entries are named by the device (MAC) they are for.                *)
(***************************************************************************)
EXTENDS Entries

CONSTANT Flows          \* the forms that may be submitted at the same time

VARIABLES
  offered,      \* the devices with a zeroconf_confirm form, whose unique id is set
  flow          \* what the submitted forms are doing

flowVars == <<vars, offered, flow>>

Idle == [kind |-> "none"]

\* discovering, querying, closing: the awaits on discover, query and, after an answer,
\* async_close.
Submitted ==
  [kind : {"user", "reconfigure"}, entry : Entries,
   step : {"discovering", "querying", "closing"}]

FlowTypeOK ==
  /\ TypeOK
  /\ offered \subseteq Entries
  /\ flow \in [Flows -> {Idle} \cup Submitted]

FlowInit ==
  /\ Init
  /\ offered = {}
  /\ flow = [f \in Flows |-> Idle]

-------------------------------------------------------------------------------
\* async_set_unique_id and _abort_if_unique_id_configured.
Free(e) == e \notin offered \cup exists

\* Valid with a mistake: the unique id was checked when the form was submitted.
ValidUnchecked(kind, e, t) ==
  IF kind = "user" THEN Created(e, t) ELSE e \in exists /\ Reconfigured(e, t)

\* The end of async_step_user and of async_step_reconfigure without errors.  The
\* flow aborts when the device is configured or offered, or the entry is gone.
Valid(kind, e, t) ==
  \/ kind = "user" /\ Free(e) /\ Created(e, t)
  \/ kind = "user" /\ ~Free(e) /\ UNCHANGED vars
  \/ kind = "reconfigure" /\ Reconfigured(e, t)
  \/ kind = "reconfigure" /\ e \notin exists /\ UNCHANGED vars

\* A form is submitted.  MQTT needs no validation; without a host UDP discovers first.
Submit(f, kind, e) ==
  /\ flow[f] = Idle
  /\ \/ /\ Valid(kind, e, "mqtt")
        /\ UNCHANGED flow
     \/ /\ \E step \in {"discovering", "querying"} :
             flow' = [flow EXCEPT ![f] = [kind |-> kind, entry |-> e, step |-> step]]
        /\ UNCHANGED vars
  /\ UNCHANGED offered

\* discover and find_discovered_host find the device, or the form is shown again.
Discovered(f) ==
  /\ flow[f] # Idle /\ flow[f].step = "discovering"
  /\ \/ flow' = [flow EXCEPT ![f].step = "querying"]
     \/ flow' = [flow EXCEPT ![f] = Idle]
  /\ UNCHANGED <<vars, offered>>

\* The query is answered and the client is closed, or the form is shown again: the close
\* of a client whose query failed concerns no entry.
Queried(f) ==
  /\ flow[f] # Idle /\ flow[f].step = "querying"
  /\ \/ flow' = [flow EXCEPT ![f].step = "closing"]
     \/ flow' = [flow EXCEPT ![f] = Idle]
  /\ UNCHANGED <<vars, offered>>

ClientClosed(f) ==
  /\ flow[f] # Idle /\ flow[f].step = "closing"
  /\ Valid(flow[f].kind, flow[f].entry, "udp")
  /\ flow' = [flow EXCEPT ![f] = Idle]
  /\ UNCHANGED offered

\* Announced with a mistake: an entry for the device is not looked for.
AnnouncedAlways(e) ==
  /\ offered' = offered \cup {e}
  /\ UNCHANGED <<vars, flow>>

\* async_step_zeroconf: a device is offered unless it is configured or offered.  A new
\* service name is saved, and reloads an entry that listens or is to be set up again.
Announced(e) ==
  /\ \/ Free(e) /\ offered' = offered \cup {e} /\ UNCHANGED vars
     \/ Renamed(e) /\ UNCHANGED offered
  /\ UNCHANGED flow

\* async_step_zeroconf_confirm.
Confirmed(e) ==
  /\ e \in offered
  /\ Created(e, "udp")
  /\ offered' = offered \ {e}
  /\ UNCHANGED flow

FlowStep(f) ==
  \/ \E kind \in {"user", "reconfigure"}, e \in Entries : Submit(f, kind, e)
  \/ Discovered(f) \/ Queried(f) \/ ClientClosed(f)

Alone(e) == EntryStep(e) /\ UNCHANGED <<offered, flow>>

FlowNext ==
  \/ \E f \in Flows : FlowStep(f)
  \/ \E e \in Entries : Alone(e) \/ Announced(e) \/ Confirmed(e)

FlowSpec == FlowInit /\ [][FlowNext]_flowVars

FlowFairSpec == FlowSpec /\ Fairness

-------------------------------------------------------------------------------
(* Properties *)

\* No device is offered that has an entry: confirming the offer would replace it.
NotOffered == offered \cap exists = {}

\* A step that changes the transport of an entry ends no other form than one that
\* reconfigures this very entry, however long validations take and whatever they saw
\* when they were submitted (config_flow.py:151-152, 212-213).
OnlyReconfigured ==
  [][\A e \in exists \cap exists' : transport'[e] # transport[e] =>
       /\ e \notin offered
       /\ \A f \in Flows : flow[f] # Idle /\ flow'[f] = Idle =>
            flow[f].kind = "reconfigure" /\ flow[f].entry = e]_flowVars
===============================================================================
