--------------------------- MODULE CoordinatorProofs ---------------------------
(***************************************************************************)
(* Lemmas about the Coordinator that the proofs of the modules composed with  *)
(* it, EntitiesProofs and LightProofs, share: what its operators return, and  *)
(* that each of its steps keeps its types.                                   *)
(***************************************************************************)
EXTENDS Coordinator, TLAPS

LEMMA MergeType ==
  ASSUME NEW o \in [Fields -> Observation], \A f \in Fields : o[f].age <= TTL,
         NEW r \in Reports, NEW s \in Sources
  PROVE  /\ Merge(o, r, s) \in [Fields -> Observation]
         /\ \A f \in Fields : Merge(o, r, s)[f].age <= TTL
  BY FieldsAssumption, TTLAssumption DEF Merge, Stamps, Observation

LEMMA AgedBound ==
  ASSUME NEW o \in [Fields -> Observation], \A f \in Fields : o[f].age <= TTL, NEW d \in Int
  PROVE  /\ Aged(o, d) \in [Fields -> Observation]
         /\ \A f \in Fields : Aged(o, d)[f].age <= TTL
  BY TTLAssumption DEF Aged, Observation

\* As time goes by a field that was never observed need not be told apart.
LEMMA AgedType ==
  ASSUME NEW o \in [Fields -> Observation], NEW d \in Nat
  PROVE  \A f \in Fields :
           Aged(o, d)[f].age = IF o[f].age + d < TTL THEN o[f].age + d ELSE TTL
  BY TTLAssumption DEF Aged, Observation

\* _schedule_expiry arms the timer no later than any deadline, or needs none.
LEMMA ScheduleArms ==
  ASSUME NEW data \in [Fields -> Observation], Schedule(data)
  PROVE  /\ expiry' \in Nat \cup {Off}
         /\ \A f \in Pending(data) : expiry' # Off /\ expiry' <= TTL - data[f].age
  BY TTLAssumption, FieldsAssumption DEF Schedule, Pending, Off, Observation

LEMMA CTypeStep ==
  ASSUME CTypeOK,
         \/ \E r \in Reports, s \in Sources : Receive(r, s)
         \/ Expire \/ CTick \/ Shutdown \/ Renew \/ CQuiet
  PROVE  CTypeOK'
  <1>1. ASSUME NEW r \in Reports, NEW s \in Sources, Receive(r, s) PROVE CTypeOK'
    <2>1. obs' \in [Fields -> Observation] /\ \A f \in Fields : obs'[f].age <= TTL
      BY <1>1, MergeType DEF CTypeOK, Receive
    <2>2. expiry' \in Nat \cup {Off}
      BY <1>1, <2>1, ScheduleArms DEF Receive
    <2>3. QED
      BY <1>1, <2>1, <2>2, TTLAssumption DEF CTypeOK, Receive
  <1>2. CASE Expire
    BY <1>2, ScheduleArms DEF CTypeOK, Expire
  <1>3. CASE CTick
    <2>1. obs' \in [Fields -> Observation] /\ \A f \in Fields : obs'[f].age <= TTL
      BY <1>3, AgedBound DEF CTypeOK, CTick
    <2>2. expiry' \in Nat \cup {Off}
      BY <1>3 DEF CTypeOK, CTick, Off
    <2>3. heard' \in [Fields -> 0 .. TTL]
      BY <1>3, TTLAssumption DEF CTypeOK, CTick
    <2>4. QED
      BY <1>3, <2>1, <2>2, <2>3 DEF CTypeOK, CTick
  <1>4. CASE Shutdown
    BY <1>4 DEF CTypeOK, Shutdown
  <1>5. CASE Renew
    <2>1. obs' \in [Fields -> Observation] /\ \A f \in Fields : obs'[f].age <= TTL
      BY <1>5, TTLAssumption DEF Renew, AllFields, Unobserved, Observation
    <2>2. QED
      BY <1>5, <2>1, TTLAssumption DEF CTypeOK, Renew, AllFields
  <1>6. CASE CQuiet
    <2>1. CASE StartLink \/ LinkStarted \/ CloseLink
      BY <2>1 DEF CTypeOK, StartLink, LinkStarted, CloseLink
    <2>2. ASSUME NEW d \in ClockSteps, StepClock(d) PROVE CTypeOK'
      <3>1. obs' \in [Fields -> Observation] /\ \A f \in Fields : obs'[f].age <= TTL
        BY <2>2, AgedBound, ClockAssumption DEF CTypeOK, StepClock
      <3>2. QED
        BY <2>2, <3>1 DEF CTypeOK, StepClock
    <2>3. QED
      BY <1>6, <2>1, <2>2 DEF CQuiet
  <1>7. QED
    BY <1>1, <1>2, <1>3, <1>4, <1>5, <1>6

LEMMA CTypeInit == CInit => CTypeOK
  BY TTLAssumption DEF CInit, CTypeOK, AllFields, Unobserved, Observation
===============================================================================
