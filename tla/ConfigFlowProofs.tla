--------------------------- MODULE ConfigFlowProofs ---------------------------
(***************************************************************************)
(* The config flows do to the entries what Entries lets happen to them, so    *)
(* that the theorems of EntriesProofs hold of them; and what they do to an     *)
(* entry that exists.  For any devices and any number of open forms.          *)
(***************************************************************************)
EXTENDS ConfigFlow, EntriesProofs

LEMMA ValidStep ==
  ASSUME NEW kind, NEW e \in Entries, NEW t \in Transports, Valid(kind, e, t)
  PROVE  [Next]_vars
  BY DEF Valid, Next

\* Offers and forms keep their types, and no device is both configured and offered.
FormsInv ==
  /\ offered \subseteq Entries
  /\ flow \in [Flows -> {Idle} \cup Submitted]
  /\ NotOffered

LEMMA SubmittedType ==
  ASSUME NEW x \in Submitted
  PROVE  /\ x.kind \in {"user", "reconfigure"} /\ x.entry \in Entries
         /\ [x EXCEPT !.step = "querying"] \in Submitted
         /\ [x EXCEPT !.step = "closing"] \in Submitted
  BY DEF Submitted

\* A form that ends offers nobody what exists.
LEMMA ValidKeeps ==
  ASSUME NotOffered, NEW kind, NEW e \in Entries, NEW t \in Transports, Valid(kind, e, t),
         UNCHANGED offered
  PROVE  NotOffered'
  BY DEF Valid, Created, Reconfigured, Free, NotOffered, vars

LEMMA EntryStepKeeps ==
  ASSUME NEW e \in Entries, EntryStep(e) \/ Renamed(e)
  PROVE  exists' \subseteq exists /\ UNCHANGED transport
  <1>1. CASE SetupStep(e)
    BY <1>1 DEF SetupStep, SetupStarts, ClientStarted, Polled, Subscribed, NotReady,
                SetupCancelled, Aborted, Forwarded
  <1>2. CASE UnloadStep(e)
    BY <1>2 DEF UnloadStep, UnloadStarts, PlatformsKept, PlatformsUnloaded, Detached,
                Closed, UnloadCancelled
  <1>3. CASE ClientUsed(e) \/ StartEnds(e) \/ Updated(e) \/ Renamed(e) \/ Removed(e)
    BY <1>3 DEF ClientUsed, StartEnds, Updated, Renamed, Scheduled, Removed
  <1>4. QED
    BY <1>1, <1>2, <1>3 DEF EntryStep

LEMMA FormsStep == FormsInv /\ [FlowNext]_flowVars => FormsInv'
  <1> SUFFICES ASSUME FormsInv, [FlowNext]_flowVars PROVE FormsInv'
    OBVIOUS
  <1> USE DEF FormsInv
  <1>1. ASSUME NEW f \in Flows, NEW kind \in {"user", "reconfigure"}, NEW e \in Entries,
               Submit(f, kind, e)
        PROVE  FormsInv'
    <2>1. UNCHANGED offered
      BY <1>1 DEF Submit
    <2>2. CASE Valid(kind, e, "mqtt") /\ UNCHANGED flow
      BY <2>1, <2>2, ValidKeeps DEF Transports
    <2>3. CASE \E step \in {"discovering", "querying"} :
                 /\ flow' = [flow EXCEPT ![f] = [kind |-> kind, entry |-> e, step |-> step]]
                 /\ UNCHANGED vars
      BY <2>1, <2>3 DEF Submitted, NotOffered, vars
    <2>4. QED
      BY <1>1, <2>2, <2>3 DEF Submit
  <1>2. ASSUME NEW f \in Flows, Discovered(f) \/ Queried(f) \/ ClientClosed(f) PROVE FormsInv'
    <2>1. flow[f] \in Submitted /\ UNCHANGED offered
      BY <1>2 DEF Discovered, Queried, ClientClosed
    <2>2. flow' \in [Flows -> {Idle} \cup Submitted]
      BY <1>2, <2>1, SubmittedType DEF Discovered, Queried, ClientClosed
    <2>3. CASE UNCHANGED vars
      BY <2>1, <2>2, <2>3 DEF NotOffered, vars
    <2>4. CASE Valid(flow[f].kind, flow[f].entry, "udp")
      BY <2>1, <2>2, <2>4, SubmittedType, ValidKeeps DEF Transports
    <2>5. QED
      BY <1>2, <2>3, <2>4 DEF Discovered, Queried, ClientClosed
  <1>3. ASSUME NEW e \in Entries, Alone(e) PROVE FormsInv'
    BY <1>3, EntryStepKeeps DEF Alone, NotOffered
  <1>4. ASSUME NEW e \in Entries, Announced(e) PROVE FormsInv'
    <2>1. CASE Renamed(e)
      BY <1>4, <2>1, EntryStepKeeps DEF Announced, NotOffered, Free, vars
    <2>2. CASE ~Renamed(e)
      BY <1>4, <2>2 DEF Announced, NotOffered, Free, vars
    <2>3. QED
      BY <2>1, <2>2
  <1>5. ASSUME NEW e \in Entries, Confirmed(e) PROVE FormsInv'
    BY <1>5 DEF Confirmed, Created, NotOffered
  <1>6. CASE UNCHANGED flowVars
    BY <1>6 DEF flowVars, vars, NotOffered
  <1>7. QED
    BY <1>1, <1>2, <1>3, <1>4, <1>5, <1>6 DEF FlowNext, FlowStep

LEMMA FormsInit == FlowInit => FormsInv
  BY DEF FlowInit, FormsInv, NotOffered

LEMMA StepMaps == FormsInv /\ [FlowNext]_flowVars => [Next]_vars
  <1> SUFFICES ASSUME FormsInv, [FlowNext]_flowVars PROVE [Next]_vars
    OBVIOUS
  <1>1. ASSUME NEW f \in Flows, NEW kind, NEW e \in Entries, Submit(f, kind, e)
        PROVE  [Next]_vars
    <2>1. Valid(kind, e, "mqtt") \/ UNCHANGED vars
      BY <1>1 DEF Submit
    <2>2. QED
      BY <2>1, ValidStep DEF Transports
  <1>2. ASSUME NEW f \in Flows, Discovered(f) \/ Queried(f) \/ ClientClosed(f)
        PROVE  [Next]_vars
    <2>1. flow[f] \in Submitted
      BY <1>2 DEF Discovered, Queried, ClientClosed, FormsInv
    <2>2. Valid(flow[f].kind, flow[f].entry, "udp") \/ UNCHANGED vars
      BY <1>2 DEF Discovered, Queried, ClientClosed
    <2>3. QED
      BY <2>1, <2>2, SubmittedType, ValidStep DEF Transports
  <1>3. ASSUME NEW e \in Entries, Alone(e) \/ Announced(e) \/ Confirmed(e) PROVE [Next]_vars
    BY <1>3 DEF Alone, Announced, Confirmed, Next, Transports
  <1>4. CASE UNCHANGED flowVars
    BY <1>4 DEF flowVars
  <1>5. QED
    BY <1>1, <1>2, <1>3, <1>4 DEF FlowNext, FlowStep

\* Whatever the forms and discoveries do, the entries go through the steps of Entries
\* only: all that is proved of Spec holds with the flows.
THEOREM FlowsUseEntries == FlowSpec => Spec
  <1>1. FlowInit => Init
    BY DEF FlowInit
  <1>2. QED
    BY <1>1, FormsInit, FormsStep, StepMaps, PTL DEF FlowSpec, Spec

\* Entries, offers and forms keep their types.
THEOREM FlowTypeCorrect == FlowSpec => []FlowTypeOK
  <1>1. FormsInv /\ TypeOK => FlowTypeOK
    BY DEF FormsInv, FlowTypeOK
  <1>2. QED
    BY <1>1, FormsInit, FormsStep, FlowsUseEntries, TypeCorrect, PTL DEF FlowSpec

\* A device that has an entry is not offered, so that no confirmation replaces an entry
\* (config_flow.py:61-62, 155-156).
THEOREM NeverOffered == FlowSpec => []NotOffered
  <1>1. FormsInv => NotOffered
    BY DEF FormsInv
  <1>2. QED
    BY <1>1, FormsInit, FormsStep, PTL DEF FlowSpec

\* An existing entry changes its transport by its own reconfiguration only, although
\* the other forms check for it only before they end.
THEOREM ReconfiguredAlone == FlowSpec => OnlyReconfigured
  <1> DEFINE Only ==
        \A e \in exists \cap exists' : transport'[e] # transport[e] =>
          /\ e \notin offered
          /\ \A f \in Flows : flow[f] # Idle /\ flow'[f] = Idle =>
               flow[f].kind = "reconfigure" /\ flow[f].entry = e
  <1>1. ASSUME FormsInv, TypeOK, [FlowNext]_flowVars PROVE [Only]_flowVars
    <2> SUFFICES ASSUME NEW e \in exists \cap exists', transport'[e] # transport[e]
                 PROVE  /\ e \notin offered
                        /\ \A f \in Flows : flow[f] # Idle /\ flow'[f] = Idle =>
                             flow[f].kind = "reconfigure" /\ flow[f].entry = e
      OBVIOUS
    <2>t. e \in Entries /\ e \notin offered /\ transport \in [Entries -> Transports]
      BY <1>1 DEF FormsInv, TypeOK, NotOffered
    <2>1. ASSUME NEW g, NEW kind, NEW t, Valid(kind, g, t)
          PROVE  kind = "reconfigure" /\ g = e
      BY <2>1, <2>t DEF Valid, Created, Reconfigured, Free, vars
    <2>2. ASSUME NEW g \in Flows, NEW kind, NEW d \in Entries, Submit(g, kind, d)
          PROVE  UNCHANGED flow
      BY <2>2 DEF Submit, vars
    <2>3. ASSUME NEW g \in Flows, Discovered(g) \/ Queried(g) PROVE FALSE
      BY <2>3 DEF Discovered, Queried, vars
    <2>4. ASSUME NEW g \in Flows, ClientClosed(g)
          PROVE  /\ flow[g].kind = "reconfigure" /\ flow[g].entry = e
                 /\ \A f \in Flows \ {g} : flow'[f] = flow[f]
      <3>1. Valid(flow[g].kind, flow[g].entry, "udp")
        BY <2>4 DEF ClientClosed, vars
      <3>2. QED
        BY <1>1, <2>1, <2>4, <3>1 DEF ClientClosed, FormsInv
    <2>5. ASSUME NEW d \in Entries, Alone(d) \/ Announced(d) PROVE FALSE
      BY <2>5, EntryStepKeeps DEF Alone, Announced, vars
    <2>6. ASSUME NEW d \in Entries, Confirmed(d) PROVE FALSE
      BY <2>6, <2>t DEF Confirmed, Created
    <2>7. QED
      BY <1>1, <2>t, <2>2, <2>3, <2>4, <2>5, <2>6 DEF FlowNext, FlowStep, flowVars, vars
  <1>2. QED
    BY <1>1, FormsInit, FormsStep, FlowsUseEntries, TypeCorrect, PTL
    DEF FlowSpec, OnlyReconfigured
===============================================================================
