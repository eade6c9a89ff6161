----------------------------- MODULE EntriesProofs -----------------------------
(***************************************************************************)
(* Safety of the config entries, for any number of them: setups and unloads    *)
(* that overlap, fail and are cancelled.                                       *)
(***************************************************************************)
EXTENDS Entries, TLAPS

LEMMA StepPreserves == ASSUME Inv, [Next]_vars PROVE Inv'
  <1> USE DEF Inv, TypeOK, NothingHeld, FoundByServices, HeldInv, SetUp, Stages, Transports,
              Topics, Go, held, client, data
  <1>1. ASSUME NEW e \in Entries, SetupStarts(e) PROVE Inv'
    BY <1>1 DEF SetupStarts
  <1>2. ASSUME NEW e \in Entries, ClientStarted(e) PROVE Inv'
    <2>1. TypeOK'
      BY <1>2 DEF ClientStarted, Register
    <2>2. NothingHeld'
      BY <1>2 DEF ClientStarted, Register
    <2>3. FoundByServices'
      BY <1>2 DEF ClientStarted, Register
    <2>4. HeldInv'
      BY <1>2 DEF ClientStarted, Register
    <2>5. QED
      BY <2>1, <2>2, <2>3, <2>4
  <1>3. ASSUME NEW e \in Entries, Polled(e) PROVE Inv'
    <2>1. TypeOK'
      BY <1>3 DEF Polled, Register
    <2>2. NothingHeld'
      BY <1>3 DEF Polled, Register
    <2>3. FoundByServices'
      BY <1>3 DEF Polled, Register
    <2>4. HeldInv'
      BY <1>3 DEF Polled, Register
    <2>5. QED
      BY <2>1, <2>2, <2>3, <2>4
  <1>4. ASSUME NEW e \in Entries, Subscribed(e) PROVE Inv'
    <2>0. subs[e] + 1 \in 0 .. 2
      BY <1>4 DEF Subscribed
    <2>1. TypeOK'
      BY <1>4, <2>0 DEF Subscribed, Register
    <2>2. NothingHeld'
      BY <1>4 DEF Subscribed, Register
    <2>3. FoundByServices'
      BY <1>4 DEF Subscribed, Register
    <2>4. HeldInv'
      BY <1>4 DEF Subscribed, Register
    <2>5. QED
      BY <2>1, <2>2, <2>3, <2>4
  <1>5. ASSUME NEW e \in Entries, NotReady(e) PROVE Inv'
    BY <1>5 DEF NotReady
  <1>6. ASSUME NEW e \in Entries, SetupCancelled(e) PROVE Inv'
    <2>1. TypeOK'
      BY <1>6 DEF SetupCancelled, ShutDown
    <2>2. NothingHeld'
      BY <1>6 DEF SetupCancelled, ShutDown
    <2>3. FoundByServices'
      BY <1>6 DEF SetupCancelled, ShutDown
    <2>4. HeldInv'
      BY <1>6 DEF SetupCancelled, ShutDown
    <2>5. QED
      BY <2>1, <2>2, <2>3, <2>4
  <1>7. ASSUME NEW e \in Entries, Aborted(e) \/ Forwarded(e) PROVE Inv'
    <2>1. TypeOK'
      BY <1>7 DEF Aborted, Forwarded
    <2>2. NothingHeld'
      BY <1>7 DEF Aborted, Forwarded
    <2>3. FoundByServices'
      BY <1>7 DEF Aborted, Forwarded
    <2>4. HeldInv'
      BY <1>7 DEF Aborted, Forwarded
    <2>5. QED
      BY <2>1, <2>2, <2>3, <2>4
  <1>8. ASSUME NEW e \in Entries, UnloadStarts(e) \/ PlatformsKept(e) PROVE Inv'
    <2>1. TypeOK'
      BY <1>8 DEF UnloadStarts, PlatformsKept
    <2>2. NothingHeld'
      BY <1>8 DEF UnloadStarts, PlatformsKept
    <2>3. FoundByServices'
      BY <1>8 DEF UnloadStarts, PlatformsKept
    <2>4. HeldInv'
      BY <1>8 DEF UnloadStarts, PlatformsKept
    <2>5. QED
      BY <2>1, <2>2, <2>3, <2>4
  <1>9. ASSUME NEW e \in Entries, PlatformsUnloaded(e) PROVE Inv'
    <2>1. TypeOK'
      BY <1>9 DEF PlatformsUnloaded, ShutDown
    <2>2. NothingHeld'
      BY <1>9 DEF PlatformsUnloaded, ShutDown
    <2>3. FoundByServices'
      BY <1>9 DEF PlatformsUnloaded, ShutDown
    <2>4. HeldInv'
      BY <1>9 DEF PlatformsUnloaded, ShutDown
    <2>5. QED
      BY <2>1, <2>2, <2>3, <2>4
  <1>10. ASSUME NEW e \in Entries, Detached(e) \/ Closed(e) \/ UnloadCancelled(e) PROVE Inv'
    <2>1. TypeOK'
      BY <1>10 DEF Detached, Closed, UnloadCancelled
    <2>2. NothingHeld'
      BY <1>10 DEF Detached, Closed, UnloadCancelled
    <2>3. FoundByServices'
      BY <1>10 DEF Detached, Closed, UnloadCancelled
    <2>4. HeldInv'
      BY <1>10 DEF Detached, Closed, UnloadCancelled
    <2>5. QED
      BY <2>1, <2>2, <2>3, <2>4
  <1>11. ASSUME NEW e \in Entries, ClientUsed(e) \/ StartEnds(e) PROVE Inv'
    <2>1. TypeOK'
      BY <1>11 DEF ClientUsed, StartEnds
    <2>2. NothingHeld'
      BY <1>11 DEF ClientUsed, StartEnds
    <2>3. FoundByServices'
      BY <1>11 DEF ClientUsed, StartEnds
    <2>4. HeldInv'
      BY <1>11 DEF ClientUsed, StartEnds
    <2>5. QED
      BY <2>1, <2>2, <2>3, <2>4
  <1>12. ASSUME NEW e \in Entries, NEW t \in Transports, Reconfigured(e, t) PROVE Inv'
    BY <1>12 DEF Reconfigured
  <1>13. ASSUME NEW e \in Entries, Updated(e) \/ Renamed(e) PROVE Inv'
    BY <1>13 DEF Updated, Renamed, Scheduled
  <1>14. ASSUME NEW e \in Entries, NEW t \in Transports, Created(e, t) PROVE Inv'
    BY <1>14 DEF Created, Stuck
  <1>15. ASSUME NEW e \in Entries, Removed(e) PROVE Inv'
    <2>1. TypeOK'
      BY <1>15 DEF Removed, Stuck
    <2>2. NothingHeld'
      BY <1>15 DEF Removed, Stuck
    <2>3. FoundByServices'
      BY <1>15 DEF Removed, Stuck
    <2>4. HeldInv'
      BY <1>15 DEF Removed, Stuck
    <2>5. QED
      BY <2>1, <2>2, <2>3, <2>4
  <1>16. CASE UNCHANGED vars
    BY <1>16 DEF vars
  <1>17. QED
    BY <1>1, <1>2, <1>3, <1>4, <1>5, <1>6, <1>7, <1>8, <1>9, <1>10, <1>11, <1>12, <1>13, <1>14,
       <1>15, <1>16
    DEF Next, EntryStep, SetupStep, UnloadStep

\* What an entry holds, and what services find, follow its stage through every setup
\* and unload, however those of several entries overlap (__init__.py:50-84).
THEOREM Inductive == Spec => []Inv
  <1>1. Init => Inv
    <2> SUFFICES ASSUME Init PROVE Inv
      OBVIOUS
    <2>1. TypeOK
      <3>1. stage \in [Entries -> Stages] /\ subs \in [Entries -> 0 .. Topics]
        BY DEF Init, Stages, Topics
      <3>2. QED
        BY <3>1, Zenon DEF Init, TypeOK
    <2>2. NothingHeld /\ HeldInv
      BY DEF Init, NothingHeld, HeldInv, SetUp, Topics
    <2>3. FoundByServices
      BY DEF Init, FoundByServices, SetUp
    <2>4. QED
      BY <2>1, <2>2, <2>3 DEF Inv
  <1>2. Inv /\ [Next]_vars => Inv'
    BY StepPreserves
  <1>3. QED
    BY <1>1, <1>2, PTL DEF Spec

\* The entries keep their types: no topic is subscribed twice.
THEOREM TypeCorrect == Spec => []TypeOK
  <1>1. Inv => TypeOK
    BY DEF Inv
  <1>2. QED
    BY <1>1, Inductive, PTL

\* An entry that is not set up holds nothing once its setup has failed or its unload is
\* over, although polls and services of it start its client while it is unloaded
\* (__init__.py:55-67, 80-83, udp.py:182-195); not if the unload is cancelled while the
\* close waits for such a start, which leaves the client to it.
THEOREM NothingLeft == Spec => []NothingHeld
  <1>1. Inv => NothingHeld
    BY DEF Inv
  <1>2. QED
    BY <1>1, Inductive, PTL

\* hass.data holds the coordinators of the entries that are set up and no others
\* (__init__.py:69, 80-83).
THEOREM ServicesFind == Spec => []FoundByServices
  <1>1. Inv => FoundByServices
    BY DEF Inv
  <1>2. QED
    BY <1>1, Inductive, PTL

\* A loaded MQTT entry is subscribed to both topics and has no issue
\* (transport.py:326-342).
THEOREM LoadedIsReady == Spec => []ReadyMeansSubscribed
  <1>1. Inv => ReadyMeansSubscribed
    BY DEF Inv, HeldInv, ReadyMeansSubscribed, SetUp
  <1>2. QED
    BY <1>1, Inductive, PTL

-------------------------------------------------------------------------------
(* The safety of ChangeApplies *)

\* A change of the transport that has not taken effect is never forgotten: a setup or a
\* reload of the entry is scheduled.
ChangeIsDue == \A e \in exists : transport[e] # uses[e] => e \in due

LEMMA ChangeIsDueStep ==
  ASSUME TypeOK, ChangeIsDue, [Next]_vars
  PROVE  ChangeIsDue'
  <1> USE DEF TypeOK, ChangeIsDue
  <1>1. ASSUME NEW e \in Entries, SetupStarts(e) PROVE ChangeIsDue'
    BY <1>1 DEF SetupStarts
  <1>2. ASSUME NEW e \in Entries, NEW t \in Transports, Created(e, t) \/ Reconfigured(e, t)
        PROVE  ChangeIsDue'
    BY <1>2 DEF Created, Reconfigured
  <1>3. ASSUME NEW e \in Entries, Removed(e) PROVE ChangeIsDue'
    BY <1>3 DEF Removed
  <1>4. ASSUME NEW e \in Entries, Updated(e) \/ Renamed(e) PROVE ChangeIsDue'
    BY <1>4 DEF Updated, Renamed, Scheduled
  <1>5. ASSUME NEW e \in Entries,
               (SetupStep(e) /\ ~SetupStarts(e)) \/ UnloadStep(e) \/ ClientUsed(e)
                 \/ StartEnds(e)
        PROVE  UNCHANGED <<exists, transport, uses, due>>
    BY <1>5
       DEF SetupStep, ClientStarted, Polled, Subscribed, NotReady, SetupCancelled, Aborted,
           Forwarded, UnloadStep, UnloadStarts, PlatformsKept, PlatformsUnloaded, Detached,
           Closed, UnloadCancelled, ClientUsed, StartEnds
  <1>6. ASSUME UNCHANGED <<exists, transport, uses, due>> PROVE ChangeIsDue'
    BY <1>6
  <1>7. CASE UNCHANGED vars
    BY <1>6, <1>7 DEF vars
  <1>8. QED
    BY <1>1, <1>2, <1>3, <1>4, <1>5, <1>6, <1>7 DEF Next, EntryStep

\* "The integration reloads the config entry after either change": whatever setup, unload
\* or failure the change falls into, and whether or not the update listener is registered,
\* a setup or reload with the new transport is still to come (config_flow.py:214-222,
\* __init__.py:71, 87-89).  What ChangeApplies adds is that it is run.
THEOREM ChangeNotForgotten == Spec => []ChangeIsDue
  <1>1. Init => ChangeIsDue
    BY DEF Init, ChangeIsDue
  <1>2. TypeOK /\ ChangeIsDue /\ [Next]_vars => ChangeIsDue'
    BY ChangeIsDueStep
  <1>3. QED
    BY <1>1, <1>2, TypeCorrect, PTL DEF Spec
===============================================================================
