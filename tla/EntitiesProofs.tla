---------------------------- MODULE EntitiesProofs ----------------------------
(***************************************************************************)
(* Theorems about Entities and the Coordinator it composes, for any fields,  *)
(* values, sources, TTL and publication interval.  What depends on the age   *)
(* of an observation is proved for a wall clock that is not set (SteadyClock) *)
(* or not set back (ForwardClock).                                           *)
(***************************************************************************)
EXTENDS Entities, CoordinatorProofs, TLAPS

SteadyClock == ClockSteps = {}

\* Without clock steps the age of an observation is the time since it was heard.
AgeIsHeard == \A f \in Fields : obs[f].age = heard[f]

\* Entities are removed before the coordinator is shut down.
AddedWhileRunning == \A f \in Fields : ent[f].added => life = "running"

Inv == TypeOK /\ AgeIsHeard /\ ExpiryArmed /\ AddedWhileRunning /\ ShownIsTrue

-------------------------------------------------------------------------------
(* Lemmas about the operators of the specification *)

\* The publication of an entity shows its current key.
LEMMA HandledKey ==
  ASSUME NEW e \in EntityStates, NEW k \in Keys
  PROVE  /\ Handled(e, k) \in EntityStates
         /\ Handled(e, k).key = k
         /\ Handled(e, k).added = e.added
  <1>1. CASE k # e.key \/ e.since = Interval
    <2>1. Handled(e, k) = [e EXCEPT !.key = k, !.since = 0, !.timer = Off, !.lags = FALSE]
      BY <1>1 DEF Handled, Published
    <2>2. Handled(e, k) = [added |-> e.added, key |-> k, since |-> 0, timer |-> Off,
                           lags |-> FALSE]
      BY <2>1 DEF EntityStates
    <2>3. 0 \in 0 .. Interval /\ Off \in Off .. Interval /\ e.added \in BOOLEAN
      BY IntervalAssumption DEF Off, EntityStates
    <2>4. QED
      BY <2>2, <2>3 DEF EntityStates
  <1>2. CASE ~(k # e.key \/ e.since = Interval) /\ e.timer = Off
    <2>1. Handled(e, k) = [e EXCEPT !.timer = Interval - e.since]
      BY <1>2 DEF Handled
    <2>2. Interval - e.since \in Off .. Interval
      BY IntervalAssumption DEF EntityStates, Off
    <2>3. QED
      BY <1>2, <2>1, <2>2 DEF EntityStates
  <1>3. CASE ~(k # e.key \/ e.since = Interval) /\ e.timer # Off
    BY <1>3 DEF Handled
  <1>4. QED
    BY <1>1, <1>2, <1>3

LEMMA KeyType ==
  ASSUME NEW data \in [Fields -> Observation], NEW f \in Fields
  PROVE  Key(f, data) \in Keys
  BY DEF Key, Keys, Observation, Fresh

\* async_update_listeners leaves every entity that is added showing its current key.
LEMMA NotifyShows ==
  ASSUME ent \in [Fields -> EntityStates], obs' \in [Fields -> Observation],
         NEW observed, Notify(observed)
  PROVE  /\ ent' \in [Fields -> EntityStates]
         /\ \A f \in Fields : /\ ent'[f].added = ent[f].added
                              /\ ent[f].added => ent'[f].key = Key(f, obs')
  <1> SUFFICES ASSUME NEW f \in Fields
               PROVE  /\ ent'[f] \in EntityStates
                      /\ ent'[f].added = ent[f].added
                      /\ ent[f].added => ent'[f].key = Key(f, obs')
    BY DEF Notify
  <1> DEFINE e == [ent[f] EXCEPT !.lags = @ \/ f \in observed]
  <1>1. ent[f] \in EntityStates
    OBVIOUS
  <1>2. e \in EntityStates /\ e.added = ent[f].added
    <2>1. (ent[f].lags \/ f \in observed) \in BOOLEAN
      OBVIOUS
    <2>2. e = [added |-> ent[f].added, key |-> ent[f].key, since |-> ent[f].since,
               timer |-> ent[f].timer, lags |-> (ent[f].lags \/ f \in observed)]
      BY <1>1 DEF EntityStates
    <2> HIDE DEF e
    <2>3. QED
      BY <1>1, <2>1, <2>2 DEF EntityStates
  <1>3. Key(f, obs') \in Keys
    BY KeyType
  <1>4. CASE ent[f].added
    <2>1. ent'[f] = Handled(e, Key(f, obs'))
      BY <1>4 DEF Notify
    <2> HIDE DEF e
    <2>2. QED
      BY <1>2, <1>3, <2>1, HandledKey
  <1>5. CASE ~ent[f].added
    BY <1>1, <1>5 DEF Notify
  <1>6. QED
    BY <1>4, <1>5

\* What a publication makes of an entity.
LEMMA PublishedKey ==
  ASSUME NEW e \in EntityStates, NEW k \in Keys
  PROVE  /\ Published(e, k) \in EntityStates
         /\ Published(e, k).key = k
         /\ Published(e, k).added = e.added
  <1>1. Published(e, k) = [added |-> e.added, key |-> k, since |-> 0, timer |-> Off,
                           lags |-> FALSE]
    <2>1. Published(e, k) = [e EXCEPT !.key = k, !.since = 0, !.timer = Off, !.lags = FALSE]
      BY DEF Published
    <2>2. QED
      BY <2>1 DEF EntityStates
  <1>2. 0 \in 0 .. Interval /\ Off \in Off .. Interval /\ e.added \in BOOLEAN
    BY IntervalAssumption DEF Off, EntityStates
  <1>3. QED
    BY <1>1, <1>2 DEF EntityStates

LEMMA AddedType ==
  ASSUME NEW e \in EntityStates
  PROVE  [e EXCEPT !.added = TRUE] \in EntityStates
  BY DEF EntityStates

LEMMA HiddenType == Hidden \in EntityStates /\ ~Hidden.added
  BY IntervalAssumption DEF Hidden, EntityStates, Keys, Off

\* Time passing for an entity.
LEMMA TickType ==
  ASSUME ent \in [Fields -> EntityStates], Tick, NEW f \in Fields
  PROVE  /\ ent'[f] \in EntityStates
         /\ ent'[f].added = ent[f].added
         /\ ent'[f].key = ent[f].key
  <1>1. CASE ent[f].added
    <2> DEFINE s == IF ent[f].since < Interval THEN ent[f].since + 1 ELSE ent[f].since
               t == IF ent[f].timer = Off THEN Off ELSE ent[f].timer - 1
    <2>1. ent'[f] = [ent[f] EXCEPT !.since = s, !.timer = t]
      BY <1>1 DEF Tick
    <2>2. ent[f] \in EntityStates /\ ent[f].timer # 0
      BY DEF Tick
    <2>3. ent'[f] = [added |-> ent[f].added, key |-> ent[f].key, since |-> s, timer |-> t,
                     lags |-> ent[f].lags]
      BY <2>1, <2>2 DEF EntityStates
    <2>4. s \in 0 .. Interval /\ t \in Off .. Interval
      BY <2>2, IntervalAssumption DEF EntityStates, Off
    <2> HIDE DEF s, t
    <2>5. QED
      BY <2>2, <2>3, <2>4 DEF EntityStates
  <1>2. CASE ~ent[f].added
    BY <1>2 DEF Tick
  <1>3. QED
    BY <1>1, <1>2

-------------------------------------------------------------------------------
(* Type correctness *)

LEMMA TypeStep == TypeOK /\ [Next]_vars => TypeOK'
  <1> SUFFICES ASSUME TypeOK, [Next]_vars PROVE TypeOK'
    OBVIOUS
  <1> USE DEF TypeOK
  <1>1. ASSUME NEW r \in Reports, NEW s \in Sources, Report(r, s) PROVE TypeOK'
    <2>1. CTypeOK'
      BY <1>1, CTypeStep DEF Report
    <2>2. QED
      BY <1>1, <2>1, NotifyShows DEF Report, CTypeOK
  <1>2. CASE Expiry
    <2>1. CTypeOK'
      BY <1>2, CTypeStep DEF Expiry
    <2>2. QED
      BY <1>2, <2>1, NotifyShows DEF Expiry, CTypeOK
  <1>3. ASSUME UNCHANGED cvars PROVE CTypeOK'
    BY <1>3 DEF cvars, CTypeOK
  <1>4. CASE PollEnds
    <2>1. CTypeOK'
      BY <1>3, <1>4 DEF PollEnds
    <2>2. QED
      BY <1>4, <2>1, NotifyShows DEF PollEnds, CTypeOK
  <1>5. ASSUME NEW f \in Fields, Flush(f) \/ Add(f) \/ Remove(f) PROVE TypeOK'
    <2>1. CTypeOK' /\ obs \in [Fields -> Observation] /\ ent[f] \in EntityStates
      BY <1>3, <1>5 DEF Flush, Add, Remove, CTypeOK
    <2>2. Key(f, obs) \in Keys
      BY <2>1, KeyType
    <2>3. Published(ent[f], Key(f, obs)) \in EntityStates
      BY <2>1, <2>2, PublishedKey
    <2>4. Published([ent[f] EXCEPT !.added = TRUE], Key(f, obs)) \in EntityStates
      BY <2>1, <2>2, AddedType, PublishedKey
    <2>5. QED
      BY <1>5, <2>1, <2>3, <2>4, HiddenType DEF Flush, Add, Remove
  <1>6. CASE Unload
    BY <1>6, CTypeStep DEF Unload
  <1>7. CASE Tick
    <2>1. CTypeOK'
      BY <1>7, CTypeStep DEF Tick
    <2>2. \A f \in Fields : ent'[f] \in EntityStates
      BY <1>7, TickType
    <2>3. ent' = [f \in Fields |-> ent'[f]]
      BY <1>7 DEF Tick
    <2>4. QED
      BY <2>1, <2>2, <2>3
  <1>8. CASE Quiet
    BY <1>8, CTypeStep DEF Quiet
  <1>9. CASE UNCHANGED vars
    BY <1>3, <1>9 DEF vars, cvars
  <1>10. QED
    BY <1>1, <1>2, <1>4, <1>5, <1>6, <1>7, <1>8, <1>9 DEF Next, Message

\* The state keeps its types, whatever is received and however the clock is set.
THEOREM TypeCorrect == Spec => []TypeOK
  <1>1. Init => TypeOK
    BY CTypeInit, HiddenType DEF Init, TypeOK, AllFields
  <1>2. QED
    BY <1>1, TypeStep, PTL DEF Spec

-------------------------------------------------------------------------------
(* The inductive invariant: ages, the expiry callback and what entities show *)

LEMMA InitInv == Init => Inv
  <1> SUFFICES ASSUME Init PROVE Inv
    OBVIOUS
  <1>1. TypeOK
    BY CTypeInit, HiddenType DEF Init, TypeOK, AllFields
  <1>2. AgeIsHeard
    BY DEF Init, CInit, AgeIsHeard, AllFields, Unobserved
  <1>3. ExpiryArmed
    <2>1. \A f \in Expiring : obs[f].age = TTL
      BY FieldsAssumption DEF Init, CInit, AllFields, Unobserved
    <2>2. QED
      BY <2>1, TTLAssumption DEF ExpiryArmed, Pending
  <1>4. AddedWhileRunning /\ ShownIsTrue
    BY DEF Init, AddedWhileRunning, ShownIsTrue, AllFields, Hidden
  <1>5. QED
    BY <1>1, <1>2, <1>3, <1>4 DEF Inv

\* A report stamps exactly the fields it has a valid value of.
LEMMA ReceiveAges ==
  ASSUME CTypeOK, AgeIsHeard, NEW r \in Reports, NEW s \in Sources, Receive(r, s)
  PROVE  AgeIsHeard'
  <1> SUFFICES ASSUME NEW f \in Fields PROVE obs'[f].age = heard'[f]
    BY DEF AgeIsHeard
  <1>1. obs[f].age = heard[f] /\ heard[f] >= 0
    BY TTLAssumption DEF CTypeOK, AgeIsHeard
  <1>2. Stamps(obs[f], r[f]) <=> r[f] \in Values
    BY <1>1 DEF Stamps
  <1>3. obs'[f] = IF Stamps(obs[f], r[f]) THEN [value |-> r[f], source |-> s, age |-> 0]
                  ELSE obs[f]
    BY DEF Receive, Merge
  <1>4. heard'[f] = IF r[f] \in Values THEN 0 ELSE heard[f]
    BY DEF Receive
  <1>5. QED
    BY <1>1, <1>2, <1>3, <1>4

\* Time passes alike for an observation and for its history.
LEMMA TickAges ==
  ASSUME CTypeOK, AgeIsHeard, CTick
  PROVE  AgeIsHeard'
  <1> SUFFICES ASSUME NEW f \in Fields PROVE obs'[f].age = heard'[f]
    BY DEF AgeIsHeard
  <1>1. obs[f].age = heard[f] /\ heard[f] \in 0 .. TTL
    BY DEF CTypeOK, AgeIsHeard
  <1>2. obs'[f].age = IF obs[f].age + 1 < TTL THEN obs[f].age + 1 ELSE TTL
    BY AgedType DEF CTick, CTypeOK
  <1>3. heard'[f] = IF heard[f] < TTL THEN heard[f] + 1 ELSE TTL
    BY DEF CTick
  <1>4. QED
    BY <1>1, <1>2, <1>3, TTLAssumption

\* The callback comes nearer as fast as the deadlines do.
LEMMA TickArmed ==
  ASSUME CTypeOK, ExpiryArmed, CTick
  PROVE  ExpiryArmed'
  <1> SUFFICES ASSUME life = "running", NEW f \in Expiring, obs'[f].age < TTL
               PROVE  expiry' # Off /\ expiry' <= TTL - obs'[f].age
    BY DEF ExpiryArmed, Pending, CTick
  <1>1. f \in Fields /\ obs[f].age \in Int /\ obs[f].age <= TTL
    BY FieldsAssumption DEF CTypeOK, Observation
  <1>2. obs'[f].age = IF obs[f].age + 1 < TTL THEN obs[f].age + 1 ELSE TTL
    BY <1>1, AgedType DEF CTick, CTypeOK
  <1>3. obs[f].age < TTL /\ obs'[f].age = obs[f].age + 1
    BY <1>1, <1>2, TTLAssumption
  <1>4. expiry # Off /\ expiry <= TTL - obs[f].age
    BY <1>3 DEF ExpiryArmed, Pending
  <1>5. expiry \in Nat \ {0} /\ expiry' = expiry - 1
    BY <1>4 DEF CTypeOK, CTick
  <1>6. QED
    BY <1>1, <1>3, <1>4, <1>5, TTLAssumption DEF Off

\* Unless the expiry callback becomes due, no field goes stale.
LEMMA TickKeepsKeys ==
  ASSUME CTypeOK, AgeIsHeard, ExpiryArmed, CTick, life = "running", expiry' # 0,
         NEW f \in Fields
  PROVE  Key(f, obs') = Key(f, obs)
  <1>1. /\ obs[f].age \in 0 .. TTL
        /\ obs'[f].age = IF obs[f].age + 1 < TTL THEN obs[f].age + 1 ELSE TTL
    BY AgedType DEF CTypeOK, AgeIsHeard, CTick
  <1>2. obs'[f].value = obs[f].value /\ obs'[f].source = obs[f].source
    BY DEF CTypeOK, CTick, Aged, Observation
  <1>3. ASSUME f \in Expiring PROVE Fresh(obs'[f]) <=> Fresh(obs[f])
    <2>1. SUFFICES ASSUME obs[f].age = TTL - 1 PROVE FALSE
      BY <1>1, TTLAssumption DEF Fresh
    <2>2. expiry # Off /\ expiry <= 1
      BY <1>3, <2>1, <1>1, TTLAssumption DEF ExpiryArmed, Pending
    <2>3. expiry = 1 /\ expiry' = 0
      BY <2>2 DEF CTypeOK, CTick, Off
    <2>4. QED
      BY <2>3
  <1>4. CASE f \in Expiring
    <2>1. Fresh(obs'[f]) = Fresh(obs[f])
      BY <1>3, <1>4 DEF Fresh
    <2>2. QED
      BY <1>2, <1>4, <2>1 DEF Key
  <1>5. CASE f \notin Expiring
    BY <1>2, <1>5 DEF Key
  <1>6. QED
    BY <1>4, <1>5

LEMMA StepInv == ASSUME SteadyClock PROVE Inv /\ [Next]_vars => Inv'
  <1> SUFFICES ASSUME Inv, [Next]_vars PROVE Inv'
    OBVIOUS
  <1>t. TypeOK' /\ CTypeOK' /\ CTypeOK /\ ent \in [Fields -> EntityStates]
    BY TypeStep DEF Inv, TypeOK
  <1>o. obs \in [Fields -> Observation] /\ obs' \in [Fields -> Observation]
    BY <1>t DEF CTypeOK
  <1> USE DEF Inv
  <1>n. ASSUME NEW observed, Notify(observed), life' = life
        PROVE  AddedWhileRunning' /\ ShownIsTrue'
    BY <1>n, <1>t, <1>o, NotifyShows DEF AddedWhileRunning, ShownIsTrue
  <1>1. ASSUME NEW r \in Reports, NEW s \in Sources, Report(r, s) PROVE Inv'
    <2>1. AgeIsHeard'
      BY <1>1, <1>t, ReceiveAges DEF Report
    <2>2. ExpiryArmed'
      BY <1>1, <1>o, ScheduleArms DEF Report, Receive, ExpiryArmed, Pending
    <2>3. AddedWhileRunning' /\ ShownIsTrue'
      BY <1>1, <1>n DEF Report, Receive
    <2>4. QED
      BY <1>t, <2>1, <2>2, <2>3
  <1>2. CASE Expiry
    <2>1. AgeIsHeard'
      BY <1>2 DEF Expiry, Expire, AgeIsHeard
    <2>2. ExpiryArmed'
      BY <1>2, <1>o, ScheduleArms DEF Expiry, Expire, ExpiryArmed, Pending
    <2>3. AddedWhileRunning' /\ ShownIsTrue'
      BY <1>2, <1>n DEF Expiry, Expire
    <2>4. QED
      BY <1>t, <2>1, <2>2, <2>3
  <1>c. ASSUME UNCHANGED cvars PROVE AgeIsHeard' /\ ExpiryArmed'
    BY <1>c DEF cvars, AgeIsHeard, ExpiryArmed, Pending
  <1>3. CASE PollEnds
    <2>1. AddedWhileRunning' /\ ShownIsTrue'
      BY <1>3, <1>n DEF PollEnds, cvars
    <2>2. QED
      BY <1>3, <1>c, <1>t, <2>1 DEF PollEnds
  <1>4. ASSUME NEW f \in Fields, Flush(f) \/ Add(f) PROVE Inv'
    <2>1. UNCHANGED cvars
      BY <1>4 DEF Flush, Add
    <2>2. Key(f, obs) \in Keys /\ Key(f, obs') = Key(f, obs) /\ ent[f] \in EntityStates
      BY <2>1, <1>o, <1>t, KeyType DEF cvars
    <2>3. PICK e \in EntityStates :
            /\ ent' = [ent EXCEPT ![f] = Published(e, Key(f, obs))]
            /\ e.added => ent[f].added \/ life = "running"
      BY <1>4, <2>2, AddedType DEF Flush, Add
    <2>4. ent'[f].key = Key(f, obs) /\ (ent'[f].added => e.added)
      BY <2>2, <2>3, <1>t, PublishedKey
    <2>5. AddedWhileRunning'
      BY <2>1, <2>3, <2>4, <1>t DEF AddedWhileRunning, cvars
    <2>6. ShownIsTrue'
      BY <2>1, <2>2, <2>3, <2>4, <1>t DEF ShownIsTrue, cvars
    <2>7. QED
      BY <2>1, <2>5, <2>6, <1>c, <1>t
  <1>5. ASSUME NEW f \in Fields, Remove(f) PROVE Inv'
    <2>1. \A g \in Fields : ent'[g].added => ent[g].added /\ ent'[g] = ent[g]
      BY <1>5, <1>t, HiddenType DEF Remove
    <2>2. AddedWhileRunning' /\ ShownIsTrue'
      BY <1>5, <2>1 DEF Remove, AddedWhileRunning, ShownIsTrue, cvars
    <2>3. QED
      BY <1>5, <1>c, <1>t, <2>2 DEF Remove
  <1>6. CASE Unload
    <2>1. life' # "running" /\ UNCHANGED <<obs, heard, ent>>
      BY <1>6 DEF Unload, Shutdown
    <2>2. QED
      BY <1>6, <2>1, <1>t
         DEF Unload, AgeIsHeard, ExpiryArmed, AddedWhileRunning, ShownIsTrue
  <1>7. CASE Tick
    <2>1. AgeIsHeard' /\ ExpiryArmed'
      BY <1>7, <1>t, TickAges, TickArmed DEF Tick
    <2>2. \A f \in Fields : ent'[f].added = ent[f].added /\ ent'[f].key = ent[f].key
      BY <1>7, <1>t, TickType
    <2>3. AddedWhileRunning'
      BY <1>7, <2>2 DEF AddedWhileRunning, Tick, CTick
    <2>4. ShownIsTrue'
      <3> SUFFICES ASSUME expiry' # 0, NEW f \in Fields, ent'[f].added
                   PROVE  ent'[f].key = Key(f, obs')
        BY DEF ShownIsTrue
      <3>1. ent[f].added /\ life = "running" /\ CTick /\ expiry # 0
        BY <1>7, <2>2 DEF AddedWhileRunning, Tick, CTick
      <3>2. ent[f].key = Key(f, obs)
        BY <3>1 DEF ShownIsTrue
      <3>3. QED
        BY <1>t, <2>2, <3>1, <3>2, TickKeepsKeys
    <2>5. QED
      BY <1>t, <2>1, <2>3, <2>4
  <1>8. CASE Quiet
    <2>1. CASE StartLink \/ LinkStarted \/ CloseLink
      <3>1. UNCHANGED <<obs, heard, expiry, ent>> /\ (life' = life \/ life = "closing")
        BY <1>8, <2>1 DEF Quiet, StartLink, LinkStarted, CloseLink
      <3>2. life' = "running" => life = "running"
        BY <2>1 DEF StartLink, LinkStarted, CloseLink
      <3>3. QED
        BY <3>1, <3>2, <1>t
           DEF AgeIsHeard, ExpiryArmed, Pending, AddedWhileRunning, ShownIsTrue
    <2>2. CASE Renew
      <3>1. \A f \in Fields : ~ent[f].added /\ ent' = ent
        BY <1>8, <2>2 DEF Quiet, Renew, AddedWhileRunning
      <3>2. AddedWhileRunning' /\ ShownIsTrue'
        BY <3>1 DEF AddedWhileRunning, ShownIsTrue
      <3>3. AgeIsHeard' /\ ExpiryArmed'
        BY <2>2, TTLAssumption, FieldsAssumption
           DEF Renew, AgeIsHeard, ExpiryArmed, Pending, AllFields, Unobserved
      <3>4. QED
        BY <3>2, <3>3, <1>t
    <2>3. QED
      BY <1>8, <2>1, <2>2 DEF Quiet, CQuiet, SteadyClock
  <1>9. CASE UNCHANGED vars
    <2>1. UNCHANGED cvars /\ ent' = ent
      BY <1>9 DEF vars, cvars
    <2>2. QED
      BY <2>1, <1>c, <1>t DEF AddedWhileRunning, ShownIsTrue, cvars
  <1>10. QED
    BY <1>1, <1>2, <1>3, <1>4, <1>5, <1>6, <1>7, <1>8, <1>9 DEF Next, Message

\* The conjunction is an invariant as long as the wall clock is not set.
THEOREM Inductive == SteadyClock /\ Spec => []Inv
  <1>1. SteadyClock /\ Inv /\ [Next]_vars => Inv'
    BY StepInv
  <1>2. SteadyClock => SteadyClock'
    BY DEF SteadyClock
  <1>3. QED
    BY InitInv, <1>1, <1>2, PTL DEF Spec

\* _schedule_expiry never leaves a valid observation without a callback in time,
\* for any fields and any lifetime of an observation.
THEOREM ExpiryAlwaysArmed == SteadyClock /\ Spec => []ExpiryArmed
  <1>1. Inv => ExpiryArmed
    BY DEF Inv
  <1>2. QED
    BY <1>1, Inductive, PTL

\* A field is valid exactly for TTL after a valid value of it (merge_report).
THEOREM FreshExactly == SteadyClock /\ Spec => []FreshMeansHeard
  <1>1. ASSUME Inv PROVE FreshMeansHeard
    <2>1. \A f \in Expiring : obs[f].age = heard[f] /\ heard[f] \in 0 .. TTL
      BY <1>1, FieldsAssumption DEF Inv, TypeOK, CTypeOK, AgeIsHeard
    <2>2. QED
      BY <2>1, TTLAssumption DEF FreshMeansHeard, Fresh
  <1>2. QED
    BY <1>1, Inductive, PTL

\* Every entity shows what its observation says, unless the callback that will tell
\* it otherwise is due.
THEOREM ShownAlwaysTrue == SteadyClock /\ Spec => []ShownIsTrue
  <1>1. Inv => ShownIsTrue
    BY DEF Inv
  <1>2. QED
    BY <1>1, Inductive, PTL

-------------------------------------------------------------------------------
(* A wall clock that is set, but never back *)

ForwardClock == ClockSteps \subseteq Nat

\* An observation is at least as old as the last valid value.
AgeCovers == \A f \in Fields : obs[f].age >= heard[f]

LEMMA AgeCoversStep ==
  ASSUME ForwardClock, TypeOK, AgeCovers, [Next]_vars
  PROVE  AgeCovers'
  <1>o. \A f \in Fields : obs[f].age \in Int /\ heard[f] \in 0 .. TTL
    BY DEF TypeOK, CTypeOK, Observation
  <1>1. ASSUME NEW r \in Reports, NEW s \in Sources, Receive(r, s) PROVE AgeCovers'
    <2> SUFFICES ASSUME NEW f \in Fields PROVE obs'[f].age >= heard'[f]
      BY DEF AgeCovers
    <2>1. obs[f].age >= heard[f] /\ obs[f].age >= 0
      BY <1>o, TTLAssumption DEF AgeCovers
    <2>2. CASE r[f] \in Values
      BY <1>1, <2>1, <2>2 DEF Receive, Merge, Stamps
    <2>3. CASE r[f] \notin Values
      BY <1>1, <2>1, <2>3 DEF Receive, Merge, Stamps
    <2>4. QED
      BY <2>2, <2>3
  <1>2. ASSUME UNCHANGED <<obs, heard>> PROVE AgeCovers'
    BY <1>2 DEF AgeCovers
  <1>3. ASSUME NEW d \in Nat, obs' = Aged(obs, d),
               \/ heard' = heard
               \/ d = 1 /\ heard' = [f \in Fields |-> IF heard[f] < TTL THEN heard[f] + 1 ELSE TTL]
        PROVE  AgeCovers'
    <2> SUFFICES ASSUME NEW f \in Fields PROVE obs'[f].age >= heard'[f]
      BY DEF AgeCovers
    <2>1. obs'[f].age = IF obs[f].age + d < TTL THEN obs[f].age + d ELSE TTL
      BY <1>3, AgedType DEF TypeOK, CTypeOK
    <2>2. heard'[f] = heard[f] \/ (d = 1 /\ heard'[f] = IF heard[f] < TTL THEN heard[f] + 1 ELSE TTL)
      BY <1>3
    <2>3. QED
      BY <1>o, <2>1, <2>2, TTLAssumption DEF AgeCovers
  <1>4. ASSUME Tick PROVE AgeCovers'
    BY <1>3, <1>4 DEF Tick, CTick
  <1>5. ASSUME Quiet PROVE AgeCovers'
    <2>1. CASE StartLink \/ LinkStarted \/ CloseLink
      BY <1>2, <2>1 DEF StartLink, LinkStarted, CloseLink
    <2>2. CASE \E d \in ClockSteps : StepClock(d)
      BY <1>3, <2>2 DEF StepClock, ForwardClock
    <2>3. CASE Renew
      BY <2>3, TTLAssumption DEF Renew, AllFields, Unobserved, AgeCovers
    <2>4. QED
      BY <1>5, <2>1, <2>2, <2>3 DEF Quiet, CQuiet
  <1>6. CASE Expiry \/ PollEnds \/ Unload \/ UNCHANGED vars
    BY <1>2, <1>6 DEF Expiry, Expire, PollEnds, Unload, Shutdown, cvars, vars
  <1>7. CASE \E f \in Fields : Flush(f) \/ Add(f) \/ Remove(f)
    BY <1>2, <1>7 DEF Flush, Add, Remove, cvars
  <1>8. QED
    BY <1>1, <1>4, <1>5, <1>6, <1>7 DEF Next, Message, Report

LEMMA ForwardInv == ForwardClock /\ Spec => [](TypeOK /\ AgeCovers)
  <1>1. ASSUME Init PROVE AgeCovers
    <2>1. \A f \in Fields : obs[f].age = TTL /\ heard[f] = TTL
      BY <1>1 DEF Init, CInit, AllFields, Unobserved
    <2>2. TTL >= TTL
      BY TTLAssumption
    <2>3. QED
      BY <2>1, <2>2, Zenon DEF AgeCovers
  <1>2. ForwardClock /\ TypeOK /\ AgeCovers /\ [Next]_vars => AgeCovers'
    BY AgeCoversStep
  <1>3. ForwardClock => ForwardClock'
    BY DEF ForwardClock
  <1>4. QED
    BY <1>1, <1>2, <1>3, TypeCorrect, PTL DEF Spec

\* No field is valid longer than its lifetime after its last valid value: a wall clock
\* that is set forward only shortens it (observations.py:57-60).
NeverTooLong == \A f \in Fields : Fresh(obs[f]) => heard[f] < TTL

\* That holds of every field, whatever is received and however often the clock jumps ahead.
THEOREM FreshNeverTooLong == ForwardClock /\ Spec => []NeverTooLong
  <1>1. ASSUME TypeOK, AgeCovers PROVE NeverTooLong
    <2>1. \A f \in Fields : obs[f].age \in Int /\ heard[f] \in 0 .. TTL /\ obs[f].age >= heard[f]
      BY <1>1 DEF TypeOK, CTypeOK, Observation, AgeCovers
    <2>2. QED
      BY <2>1, TTLAssumption DEF NeverTooLong, Fresh
  <1>2. QED
    BY <1>1, ForwardInv, PTL

\* A valid value makes its entity available in the step that receives it, whatever the
\* entity showed and however long the field was silent; the violation needs a wall clock
\* that is set back.
THEOREM RestoredAlways == ForwardClock /\ Spec => RestoredAtOnce
  <1> DEFINE Restored ==
        \A f \in Expiring :
          ent[f].added /\ heard[f] > 0 /\ heard'[f] = 0 => ent'[f].key.available
  <1>1. ASSUME TypeOK, TypeOK', AgeCovers, [Next]_vars PROVE [Restored]_vars
    <2> SUFFICES ASSUME NEW f \in Expiring,
                        ent[f].added, heard[f] > 0, heard'[f] = 0
                 PROVE  ent'[f].key.available
      OBVIOUS
    <2>t. /\ ent \in [Fields -> EntityStates] /\ obs' \in [Fields -> Observation]
          /\ f \in Fields /\ heard[f] \in 1 .. TTL
          /\ obs[f].age \in Int /\ obs[f].age >= heard[f]
      BY <1>1, FieldsAssumption DEF TypeOK, CTypeOK, Observation, AgeCovers
    <2>1. ASSUME NEW r \in Reports, NEW s \in Sources, Report(r, s)
          PROVE  ent'[f].key.available
      <3>1. ent'[f].key = Key(f, obs')
        BY <2>1, <2>t, NotifyShows DEF Report
      <3>2. r[f] \in Values
        BY <2>1, <2>t DEF Report, Receive
      <3>3. obs'[f].age = 0
        BY <2>1, <2>t, <3>2, TTLAssumption DEF Report, Receive, Merge, Stamps
      <3>4. Fresh(obs'[f])
        BY <3>3, TTLAssumption DEF Fresh
      <3>5. QED
        BY <3>1, <3>4 DEF Key
    <2>2. ASSUME heard' = heard PROVE FALSE
      BY <2>2, <2>t
    <2>3. CASE Expiry \/ PollEnds \/ Unload \/ UNCHANGED vars
      BY <2>2, <2>3 DEF Expiry, Expire, PollEnds, Unload, Shutdown, cvars, vars
    <2>4. CASE \E g \in Fields : Flush(g) \/ Add(g) \/ Remove(g)
      BY <2>2, <2>4 DEF Flush, Add, Remove, cvars
    <2>5. ASSUME Tick PROVE FALSE
      <3>1. heard'[f] = IF heard[f] < TTL THEN heard[f] + 1 ELSE TTL
        BY <2>5, <2>t DEF Tick, CTick
      <3>2. QED
        BY <2>t, <3>1, TTLAssumption
    <2>6. CASE Quiet
      <3>1. CASE Renew
        BY <3>1, <2>t, TTLAssumption DEF Renew, AllFields
      <3>2. CASE CQuiet
        BY <3>2, <2>2 DEF CQuiet, StartLink, LinkStarted, CloseLink, StepClock
      <3>3. QED
        BY <2>6, <3>1, <3>2 DEF Quiet
    <2>7. QED
      BY <1>1, <2>1, <2>3, <2>4, <2>5, <2>6 DEF Next, Message
  <1>2. QED
    BY <1>1, ForwardInv, TypeCorrect, PTL DEF Spec, RestoredAtOnce

-------------------------------------------------------------------------------
(* The refinement of Display *)

ShownBy(key) == IF key.available THEN key.value ELSE NoValue

DueAt(f, data, since) == IF f \in Expiring /\ since[f] = TTL THEN NoValue ELSE data[f].value

\* A key shows what is due, when ages are the times since the reports.
LEMMA KeyShows ==
  ASSUME NEW data \in [Fields -> Observation], NEW since \in [Fields -> 0 .. TTL],
         NEW f \in Fields, data[f].age = since[f]
  PROVE  /\ ShownBy(Key(f, data)) = DueAt(f, data, since)
         /\ DueAt(f, data, since) \in Values \cup {NoValue}
  <1>1. data[f].value \in Values \cup {NoValue} /\ since[f] \in 0 .. TTL
    BY DEF Observation
  <1>2. CASE f \in Expiring
    <2>1. Fresh(data[f]) <=> since[f] # TTL
      BY <1>1, TTLAssumption DEF Fresh
    <2>2. QED
      BY <1>1, <1>2, <2>1 DEF Key, ShownBy, DueAt
  <1>3. CASE f \notin Expiring
    BY <1>1, <1>3 DEF Key, ShownBy, DueAt
  <1>4. QED
    BY <1>2, <1>3

\* A report is heard: what is known and since when.
LEMMA ReceiveKnows ==
  ASSUME CTypeOK, AgeIsHeard, NEW r \in Reports, NEW s \in Sources, Receive(r, s),
         NEW f \in Fields
  PROVE  \/ obs'[f].value \in Values /\ heard'[f] = 0
         \/ obs'[f].value = obs[f].value /\ heard'[f] = heard[f]
  <1>1. obs[f].age >= 0
    BY TTLAssumption DEF CTypeOK, AgeIsHeard
  <1>2. CASE r[f] \in Values
    BY <1>1, <1>2 DEF Receive, Merge, Stamps
  <1>3. CASE r[f] \notin Values
    BY <1>3 DEF Receive, Merge, Stamps
  <1>4. QED
    BY <1>2, <1>3

\* A step of the entities that receives nothing and adds or removes none refreshes the
\* display.
LEMMA RefreshStep ==
  ASSUME TypeOK, TypeOK', AgeIsHeard, UNCHANGED <<obs, heard>>,
         \A f \in Fields :
           /\ ent'[f].added = ent[f].added
           /\ ent'[f].key = ent[f].key \/ (ent[f].added /\ ent'[f].key = Key(f, obs))
  PROVE  Display!Refresh
  <1> DEFINE Now(f)  == ShownBy(ent[f].key)
             Next_(f) == ShownBy(ent'[f].key)
  <1>1. ASSUME NEW f \in Fields
        PROVE  /\ Next_(f) \in Values \cup {NoValue}
               /\ Next_(f) = Now(f) \/ (ent[f].added /\ Next_(f) = DueAt(f, obs, heard))
    <2>1. ent'[f].key \in Keys
      BY DEF TypeOK, EntityStates
    <2>2. ShownBy(Key(f, obs)) = DueAt(f, obs, heard)
      BY KeyShows DEF TypeOK, CTypeOK, AgeIsHeard
    <2>3. QED
      BY <2>1, <2>2 DEF Keys, ShownBy
  <1>2. {f \in Fields : ent'[f].added} = {f \in Fields : ent[f].added}
    OBVIOUS
  <1>3. QED
    BY <1>1, <1>2 DEF Display!Refresh, Display!Showings, Display!Due, ShownBy, DueAt

LEMMA HearStep ==
  ASSUME Inv, Inv', NEW r \in Reports, NEW s \in Sources, Report(r, s)
  PROVE  Display!Hear
  <1>t. /\ CTypeOK /\ AgeIsHeard /\ ent \in [Fields -> EntityStates]
        /\ obs' \in [Fields -> Observation] /\ heard' \in [Fields -> 0 .. TTL]
        /\ AgeIsHeard'
    BY DEF Inv, TypeOK, CTypeOK
  <1>1. \A f \in Fields : \/ obs'[f].value \in Values /\ heard'[f] = 0
                          \/ obs'[f].value = obs[f].value /\ heard'[f] = heard[f]
    BY <1>t, ReceiveKnows DEF Report
  <1>2. \A f \in Fields : obs'[f].value \in Values \cup {NoValue}
    BY <1>t DEF Observation
  <1>3. ASSUME NEW f \in Fields
        PROVE  /\ ent'[f].added = ent[f].added
               /\ ent[f].added => ShownBy(ent'[f].key) = DueAt(f, obs', heard')
               /\ ~ent[f].added => ent'[f].key = ent[f].key
    <2>1. ent'[f].added = ent[f].added /\ (ent[f].added => ent'[f].key = Key(f, obs'))
      BY <1>t, NotifyShows DEF Report
    <2>2. ShownBy(Key(f, obs')) = DueAt(f, obs', heard')
      BY <1>t, KeyShows DEF AgeIsHeard
    <2>3. ~ent[f].added => ent'[f] = ent[f]
      BY DEF Report, Notify
    <2>4. QED
      BY <2>1, <2>2, <2>3
  <1>4. {f \in Fields : ent'[f].added} = {f \in Fields : ent[f].added}
    BY <1>3
  <1>5. QED
    BY <1>t, <1>1, <1>2, <1>3, <1>4 DEF Display!Hear, Display!Showings, Display!Due, ShownBy, DueAt

\* An entity that is not added has no state and no timer.
AbsentIsHidden == \A f \in Fields : ~ent[f].added => ent[f] = Hidden

LEMMA AbsentStep == TypeOK /\ AbsentIsHidden /\ [Next]_vars => AbsentIsHidden'
  <1> SUFFICES ASSUME TypeOK, AbsentIsHidden, [Next]_vars,
                      NEW f \in Fields, ~ent'[f].added
               PROVE  ent'[f] = Hidden
    BY DEF AbsentIsHidden
  <1>t. /\ ent \in [Fields -> EntityStates] /\ obs \in [Fields -> Observation]
        /\ obs' \in [Fields -> Observation]
        /\ ~ent[f].added => ent[f] = Hidden
    BY TypeStep DEF TypeOK, CTypeOK, AbsentIsHidden
  <1>1. ASSUME NEW observed, Notify(observed) PROVE ent'[f] = Hidden
    <2>1. ~ent[f].added
      BY <1>1, <1>t, NotifyShows
    <2>2. QED
      BY <1>1, <1>t, <2>1 DEF Notify
  <1>2. ASSUME NEW g \in Fields, Flush(g) \/ Add(g) PROVE ent'[f] = Hidden
    <2>1. Key(g, obs) \in Keys /\ [ent[g] EXCEPT !.added = TRUE] \in EntityStates
      BY <1>t, KeyType, AddedType
    <2>2. CASE Flush(g)
      <3>1. ent[f].added => ent'[f].added
        BY <1>t, <2>1, <2>2, PublishedKey DEF Flush
      <3>2. ent[f] = Hidden
        BY <1>t, <3>1
      <3>3. g # f
        BY <2>2, <3>2 DEF Flush, Hidden, Off
      <3>4. QED
        BY <1>t, <2>2, <3>2, <3>3 DEF Flush
    <2>3. CASE Add(g)
      <3>1. [ent[g] EXCEPT !.added = TRUE].added
        BY <1>t DEF EntityStates
      <3>2. ent'[g].added
        BY <1>t, <2>1, <2>3, <3>1, PublishedKey DEF Add
      <3>3. ent'[f] = ent[f]
        BY <1>t, <2>3, <3>2 DEF Add
      <3>4. QED
        BY <1>t, <3>3
    <2>4. QED
      BY <1>2, <2>2, <2>3
  <1>3. ASSUME NEW g \in Fields, Remove(g) PROVE ent'[f] = Hidden
    BY <1>3, <1>t DEF Remove
  <1>4. CASE Tick
    <2>1. ~ent[f].added
      BY <1>4, <1>t, TickType
    <2>2. QED
      BY <1>4, <1>t, <2>1 DEF Tick
  <1>5. CASE Unload \/ Quiet \/ UNCHANGED vars
    BY <1>5, <1>t DEF Unload, Quiet, vars
  <1>6. QED
    BY <1>1, <1>2, <1>3, <1>4, <1>5 DEF Next, Message, Report, Expiry, PollEnds

LEMMA AbsentAlways == SteadyClock /\ Spec => [](Inv /\ AbsentIsHidden)
  <1>1. Init => AbsentIsHidden
    BY DEF Init, AllFields, AbsentIsHidden
  <1>2. Inv => TypeOK
    BY DEF Inv
  <1>3. QED
    BY <1>1, <1>2, AbsentStep, Inductive, PTL DEF Spec

\* async_added_to_hass shows what is due at once.
LEMMA AddStep ==
  ASSUME Inv, NEW f \in Fields, Add(f)
  PROVE  Display!Add(f)
  <1>t. /\ obs \in [Fields -> Observation] /\ heard \in [Fields -> 0 .. TTL]
        /\ ent \in [Fields -> EntityStates] /\ AgeIsHeard
        /\ UNCHANGED <<obs, heard>> /\ ~ent[f].added
    BY DEF Inv, TypeOK, CTypeOK, Add, cvars
  <1>1. /\ ent' = [ent EXCEPT ![f] = Published([ent[f] EXCEPT !.added = TRUE], Key(f, obs))]
        /\ [ent[f] EXCEPT !.added = TRUE] \in EntityStates /\ Key(f, obs) \in Keys
    BY <1>t, AddedType, KeyType DEF Add
  <1>2. [ent[f] EXCEPT !.added = TRUE].added
    BY <1>t DEF EntityStates
  <1>3. ent'[f].added /\ ent'[f].key = Key(f, obs)
    BY <1>t, <1>1, <1>2, PublishedKey
  <1>4. ShownBy(ent'[f].key) = DueAt(f, obs, heard)
    BY <1>t, <1>3, KeyShows DEF AgeIsHeard
  <1>5. \A g \in Fields \ {f} : ent'[g] = ent[g]
    BY <1>t, <1>1
  <1>6. {g \in Fields : ent'[g].added} = {g \in Fields : ent[g].added} \cup {f}
    BY <1>3, <1>5
  <1>7. QED
    BY <1>t, <1>4, <1>5, <1>6 DEF Display!Add, Display!Due, ShownBy, DueAt

\* An entity that is removed shows nothing.
LEMMA RemoveStep ==
  ASSUME Inv, NEW f \in Fields, Remove(f)
  PROVE  Display!Remove(f)
  <1>t. /\ ent \in [Fields -> EntityStates] /\ ent[f].added
        /\ ent' = [ent EXCEPT ![f] = Hidden] /\ UNCHANGED <<obs, heard>>
    BY DEF Inv, TypeOK, Remove, cvars
  <1>1. ~ent'[f].added /\ ShownBy(ent'[f].key) = NoValue
    BY <1>t DEF Hidden, ShownBy
  <1>2. \A g \in Fields \ {f} : ent'[g] = ent[g]
    BY <1>t
  <1>3. {g \in Fields : ent'[g].added} = {g \in Fields : ent[g].added} \ {f}
    BY <1>1, <1>2
  <1>4. QED
    BY <1>t, <1>1, <1>2, <1>3 DEF Display!Remove, ShownBy

\* Time passes only while everything is shown as it is due.
LEMMA PassStep ==
  ASSUME Inv, Tick
  PROVE  Display!Pass
  <1>t. /\ CTypeOK /\ obs \in [Fields -> Observation] /\ heard \in [Fields -> 0 .. TTL]
        /\ ent \in [Fields -> EntityStates] /\ AgeIsHeard /\ ShownIsTrue
        /\ CTick /\ expiry # 0
    BY DEF Inv, TypeOK, CTypeOK, Tick, CTick
  <1>1. \A f \in Fields : ent'[f].added = ent[f].added /\ ent'[f].key = ent[f].key
    BY <1>t, TickType
  <1>2. \A f \in Fields : ent[f].added => ShownBy(ent[f].key) = DueAt(f, obs, heard)
    BY <1>t, KeyShows DEF ShownIsTrue, AgeIsHeard
  <1>3. \A f \in Fields : obs'[f].value = obs[f].value
    BY <1>t DEF CTick, Aged, Observation
  <1>4. heard' = [f \in Fields |-> IF heard[f] < TTL THEN heard[f] + 1 ELSE TTL]
    BY <1>t DEF CTick
  <1>5. {f \in Fields : ent'[f].added} = {f \in Fields : ent[f].added}
    BY <1>1
  <1>6. QED
    BY <1>1, <1>2, <1>3, <1>4, <1>5 DEF Display!Pass, Display!Due, ShownBy, DueAt

\* A new coordinator knows nothing, and no entity is left to show it.
LEMMA ForgetStep ==
  ASSUME Inv, Renew, UNCHANGED ent
  PROVE  Display!Forget
  <1>1. \A f \in Fields : ~ent[f].added
    BY DEF Inv, AddedWhileRunning, Renew
  <1>2. QED
    BY <1>1 DEF Display!Forget, Renew, AllFields, Unobserved

\* The entities refine the display: with a steady clock, every step of the reports, the
\* timers and the notifications is one of Display's or changes nothing shown.
THEOREM RefinesDisplay == SteadyClock /\ Spec => ImplementsDisplay
  <1>1. Init => Display!Init
    BY DEF Init, CInit, Display!Init, AllFields, Unobserved, Hidden
  <1>2. ASSUME SteadyClock, Inv, Inv', AbsentIsHidden, [Next]_vars
        PROVE  [Display!Next]_(Display!vars)
    <2>t. /\ TypeOK /\ TypeOK' /\ AgeIsHeard /\ ent \in [Fields -> EntityStates]
          /\ obs \in [Fields -> Observation] /\ obs' \in [Fields -> Observation]
      BY <1>2 DEF Inv, TypeOK, CTypeOK
    <2>s. ASSUME UNCHANGED <<obs, heard, ent>> PROVE UNCHANGED Display!vars
      BY <2>s DEF Display!vars
    <2>1. CASE \E r \in Reports, s \in Sources : Report(r, s)
      BY <1>2, <2>1, HearStep DEF Display!Next
    <2>2. CASE Expiry \/ PollEnds
      <3>1. UNCHANGED <<obs, heard>> /\ Notify({})
        BY <2>2 DEF Expiry, Expire, PollEnds, cvars
      <3>2. \A f \in Fields :
              /\ ent'[f].added = ent[f].added
              /\ ent'[f].key = ent[f].key \/ (ent[f].added /\ ent'[f].key = Key(f, obs))
        <4> TAKE f \in Fields
        <4>1. /\ ent'[f].added = ent[f].added
              /\ ent[f].added => ent'[f].key = Key(f, obs')
          BY <2>t, <3>1, NotifyShows
        <4>2. Key(f, obs') = Key(f, obs)
          BY <3>1
        <4>3. ~ent[f].added => ent'[f] = ent[f]
          BY <3>1 DEF Notify
        <4>4. QED
          BY <4>1, <4>2, <4>3
      <3>3. QED
        BY <2>t, <3>1, <3>2, RefreshStep DEF Display!Next
    <2>3. ASSUME NEW g \in Fields, Flush(g) PROVE Display!Next
      <3>1. UNCHANGED <<obs, heard>> /\ ent' = [ent EXCEPT ![g] = Published(ent[g], Key(g, obs))]
        BY <2>3 DEF Flush, cvars
      <3>2. Published(ent[g], Key(g, obs)).key = Key(g, obs)
            /\ Published(ent[g], Key(g, obs)).added = ent[g].added
        BY <2>t, KeyType, PublishedKey
      <3>3. ent[g].added \/ ent'[g].key = ent[g].key
        BY <1>2, <2>t, <2>3 DEF Flush, AbsentIsHidden, Hidden, Off
      <3>4. QED
        BY <2>t, <3>1, <3>2, <3>3, RefreshStep DEF Display!Next
    <2>4. CASE \E f \in Fields : Add(f) \/ Remove(f)
      BY <1>2, <2>4, AddStep, RemoveStep DEF Display!Next
    <2>5. CASE Tick
      BY <1>2, <2>5, PassStep DEF Display!Next
    <2>6. CASE Unload \/ UNCHANGED vars
      BY <2>6, <2>s DEF Unload, Shutdown, vars
    <2>7. CASE Quiet
      <3>1. CASE Renew
        BY <1>2, <2>7, <3>1, ForgetStep DEF Quiet, Display!Next
      <3>2. CASE CQuiet
        BY <1>2, <2>7, <2>s, <3>2
           DEF Quiet, CQuiet, StartLink, LinkStarted, CloseLink, SteadyClock
      <3>3. QED
        BY <2>7, <3>1, <3>2 DEF Quiet
    <2>8. QED
      BY <1>2, <2>1, <2>2, <2>3, <2>4, <2>5, <2>6, <2>7 DEF Next, Message
  <1>3. SteadyClock => SteadyClock'
    BY DEF SteadyClock
  <1>4. QED
    BY <1>1, <1>2, <1>3, AbsentAlways, PTL DEF Spec, ImplementsDisplay, Display!Spec

-------------------------------------------------------------------------------
(* Coalescing, for any wall clock *)

\* What one entity owes to the last report it coalesced.
Owes(e) ==
  /\ e.timer # Off => e.since + e.timer = Interval
  /\ e.added /\ e.lags => e.timer # Off

PubInv == TypeOK /\ \A f \in Fields : Owes(ent[f])

LEMMA HandledOwes ==
  ASSUME NEW e \in EntityStates, NEW k \in Keys, NEW b \in BOOLEAN,
         e.timer # Off => e.since + e.timer = Interval
  PROVE  Owes(Handled([e EXCEPT !.lags = b], k))
  <1> DEFINE g == [e EXCEPT !.lags = b]
  <1>1. /\ g \in EntityStates
        /\ g.key = e.key /\ g.since = e.since /\ g.timer = e.timer
    BY DEF EntityStates
  <1> SUFFICES Owes(Handled(g, k))
    OBVIOUS
  <1> HIDE DEF g
  <1>2. CASE k # g.key \/ g.since = Interval
    <2>1. Handled(g, k) = [g EXCEPT !.key = k, !.since = 0, !.timer = Off, !.lags = FALSE]
      BY <1>2 DEF Handled, Published
    <2>2. Handled(g, k).timer = Off /\ Handled(g, k).lags = FALSE
      BY <1>1, <2>1 DEF EntityStates
    <2>3. QED
      BY <2>2 DEF Owes
  <1>3. CASE ~(k # g.key \/ g.since = Interval) /\ g.timer = Off
    <2>1. Handled(g, k) = [g EXCEPT !.timer = Interval - g.since]
      BY <1>3 DEF Handled
    <2>2. /\ Handled(g, k).timer = Interval - g.since
          /\ Handled(g, k).since = g.since
          /\ g.since \in 0 .. Interval
      BY <1>1, <2>1 DEF EntityStates
    <2>3. QED
      BY <2>2, IntervalAssumption DEF Owes, Off
  <1>4. CASE ~(k # g.key \/ g.since = Interval) /\ g.timer # Off
    BY <1>1, <1>4 DEF Handled, Owes
  <1>5. QED
    BY <1>2, <1>3, <1>4

LEMMA NotifyOwes ==
  ASSUME PubInv, obs' \in [Fields -> Observation], NEW observed, Notify(observed)
  PROVE  \A f \in Fields : Owes(ent'[f])
  <1> TAKE f \in Fields
  <1>1. ent[f] \in EntityStates /\ Owes(ent[f]) /\ Key(f, obs') \in Keys
    BY KeyType DEF PubInv, TypeOK
  <1>2. CASE ent[f].added
    <2>1. (ent[f].lags \/ f \in observed) \in BOOLEAN
      OBVIOUS
    <2>2. ent'[f] = Handled([ent[f] EXCEPT !.lags = (ent[f].lags \/ f \in observed)],
                            Key(f, obs'))
      BY <1>2 DEF Notify
    <2>3. QED
      BY <1>1, <2>1, <2>2, HandledOwes DEF Owes
  <1>3. CASE ~ent[f].added
    BY <1>1, <1>3 DEF Notify
  <1>4. QED
    BY <1>2, <1>3

\* A publication leaves nothing owed.
LEMMA PublishedOwes ==
  ASSUME NEW e \in EntityStates, NEW k
  PROVE  Owes(Published(e, k))
  <1>1. Published(e, k) = [e EXCEPT !.key = k, !.since = 0, !.timer = Off, !.lags = FALSE]
    BY DEF Published
  <1>2. Published(e, k).timer = Off /\ Published(e, k).lags = FALSE
    BY <1>1 DEF EntityStates
  <1>3. QED
    BY <1>2 DEF Owes

LEMMA TickOwes ==
  ASSUME PubInv, Tick, NEW f \in Fields
  PROVE  Owes(ent'[f])
  <1>1. ent[f] \in EntityStates /\ Owes(ent[f]) /\ ent[f].timer # 0
    BY DEF PubInv, TypeOK, Tick
  <1>2. CASE ent[f].added
    <2> DEFINE s == IF ent[f].since < Interval THEN ent[f].since + 1 ELSE ent[f].since
               t == IF ent[f].timer = Off THEN Off ELSE ent[f].timer - 1
    <2>1. ent'[f] = [ent[f] EXCEPT !.since = s, !.timer = t]
      BY <1>2 DEF Tick
    <2>2. /\ ent'[f].since = s /\ ent'[f].timer = t
          /\ ent'[f].added = ent[f].added /\ ent'[f].lags = ent[f].lags
      BY <1>1, <2>1 DEF EntityStates
    <2>3. t # Off => ent[f].timer # Off /\ ent[f].timer \in 1 .. Interval
      BY <1>1, IntervalAssumption DEF EntityStates, Off
    <2>4. t # Off => s + t = Interval
      BY <1>1, <2>3, IntervalAssumption DEF EntityStates, Owes, Off
    <2>5. ent[f].timer # Off => t # Off
      BY <1>1, IntervalAssumption DEF EntityStates, Off
    <2> HIDE DEF s, t
    <2>6. QED
      BY <1>1, <2>2, <2>4, <2>5 DEF Owes
  <1>3. CASE ~ent[f].added
    BY <1>1, <1>3 DEF Tick
  <1>4. QED
    BY <1>2, <1>3

LEMMA HiddenOwes == Owes(Hidden)
  BY DEF Owes, Hidden

LEMMA PubStep == PubInv /\ [Next]_vars => PubInv'
  <1> SUFFICES ASSUME PubInv, [Next]_vars PROVE PubInv'
    OBVIOUS
  <1>t. TypeOK /\ TypeOK' /\ obs' \in [Fields -> Observation]
    BY TypeStep DEF PubInv, TypeOK, CTypeOK
  <1>1. ASSUME NEW observed, Notify(observed) PROVE PubInv'
    BY <1>1, <1>t, NotifyOwes DEF PubInv
  <1>2. CASE \E r \in Reports, s \in Sources : Report(r, s)
    BY <1>1, <1>2 DEF Report
  <1>3. CASE Expiry \/ PollEnds
    BY <1>1, <1>3 DEF Expiry, PollEnds
  <1>4. ASSUME NEW f \in Fields, Flush(f) \/ Add(f) \/ Remove(f) PROVE PubInv'
    <2>1. /\ ent[f] \in EntityStates
          /\ [ent[f] EXCEPT !.added = TRUE] \in EntityStates
      BY <1>t, AddedType DEF TypeOK
    <2>2. /\ Owes(Published(ent[f], Key(f, obs)))
          /\ Owes(Published([ent[f] EXCEPT !.added = TRUE], Key(f, obs)))
      BY <2>1, PublishedOwes
    <2>3. QED
      BY <1>4, <1>t, <2>2, HiddenOwes DEF PubInv, TypeOK, Flush, Add, Remove
  <1>5. CASE Tick
    BY <1>5, <1>t, TickOwes DEF PubInv
  <1>6. CASE Unload \/ Quiet \/ UNCHANGED vars
    <2>1. ent' = ent
      BY <1>6 DEF Unload, Quiet, vars
    <2>2. QED
      BY <1>t, <2>1 DEF PubInv
  <1>7. QED
    BY <1>2, <1>3, <1>4, <1>5, <1>6 DEF Next, Message

LEMMA PubInit == Init => PubInv
  <1>1. Init => TypeOK
    BY CTypeInit, HiddenType DEF Init, TypeOK, AllFields
  <1>2. QED
    BY <1>1, HiddenOwes DEF Init, PubInv, AllFields

\* Whatever is coalesced is published when the interval ends, however the reports, the
\* polls and the expiries come (entity.py:50-67).
THEOREM NothingLags == Spec => []LaggingIsScheduled
  <1>1. PubInv => LaggingIsScheduled
    BY DEF PubInv, Owes, LaggingIsScheduled
  <1>2. QED
    BY <1>1, PubInit, PubStep, PTL DEF Spec

\* An entity publishes the same state twice only with an interval between.
THEOREM RepeatsCoalesced == Spec => CoalescesRepeats
  <1> DEFINE Coalesced ==
        \A f \in Fields :
          /\ ent[f].added /\ ent'[f].added
          /\ ent'[f].since = 0 /\ ent[f].since > 0
          /\ ent'[f].key = ent[f].key
          => ent[f].since = Interval
  <1>1. ASSUME PubInv, [Next]_vars PROVE [Coalesced]_vars
    <2> SUFFICES ASSUME NEW f \in Fields,
                        ent[f].added, ent'[f].added,
                        ent'[f].since = 0, ent[f].since > 0, ent'[f].key = ent[f].key
                 PROVE  ent[f].since = Interval
      OBVIOUS
    <2>t. /\ ent \in [Fields -> EntityStates] /\ ent[f] \in EntityStates
          /\ Owes(ent[f]) /\ obs' \in [Fields -> Observation]
      BY <1>1, TypeStep DEF PubInv, TypeOK, CTypeOK
    <2>1. ASSUME NEW observed, Notify(observed) PROVE ent[f].since = Interval
      <3> DEFINE e == [ent[f] EXCEPT !.lags = @ \/ f \in observed]
      <3>1. e.key = ent[f].key /\ e.since = ent[f].since
        BY <2>t DEF EntityStates
      <3>2. ent'[f] = Handled(e, Key(f, obs')) /\ ent'[f].key = Key(f, obs')
        BY <2>1, <2>t, NotifyShows DEF Notify
      <3>3. ASSUME e.since # Interval PROVE ent'[f].since = ent[f].since
        <4>1. ent'[f] = IF e.timer = Off THEN [e EXCEPT !.timer = Interval - e.since] ELSE e
          BY <3>1, <3>2, <3>3 DEF Handled
        <4>2. [e EXCEPT !.timer = Interval - e.since].since = e.since
          BY <2>t DEF EntityStates
        <4>3. QED
          BY <3>1, <4>1, <4>2
      <3>4. QED
        BY <3>1, <3>3
    <2>2. CASE \E r \in Reports, s \in Sources : Report(r, s)
      BY <2>1, <2>2 DEF Report
    <2>3. CASE Expiry \/ PollEnds
      BY <2>1, <2>3 DEF Expiry, PollEnds
    <2>4. ASSUME NEW g \in Fields, Flush(g) \/ Add(g) \/ Remove(g)
          PROVE  ent[f].since = Interval
      <3>1. g = f
        BY <2>4, <2>t DEF Flush, Add, Remove
      <3>2. Flush(f)
        BY <2>4, <2>t, <3>1, HiddenType DEF Add, Remove
      <3>3. ent[f].timer = 0 /\ ent[f].since + ent[f].timer = Interval
        BY <2>t, <3>2 DEF Flush, Owes, Off
      <3>4. QED
        BY <2>t, <3>3 DEF EntityStates
    <2>5. CASE Tick
      <3> DEFINE s == IF ent[f].since < Interval THEN ent[f].since + 1 ELSE ent[f].since
      <3>1. ent'[f] = [ent[f] EXCEPT !.since = s,
                         !.timer = IF @ = Off THEN Off ELSE @ - 1]
        BY <2>5 DEF Tick
      <3>2. ent'[f].since = s
        BY <2>t, <3>1 DEF EntityStates
      <3>3. QED
        BY <2>t, <3>2 DEF EntityStates
    <2>6. CASE Unload \/ Quiet \/ UNCHANGED vars
      BY <2>6 DEF Unload, Quiet, vars
    <2>7. QED
      BY <1>1, <2>2, <2>3, <2>4, <2>5, <2>6 DEF Next, Message
  <1>2. QED
    BY <1>1, PubInit, PubStep, PTL DEF Spec, CoalescesRepeats

-------------------------------------------------------------------------------
(* Shutdown *)

\* No report reaches the transport while its shutdown waits for a start in flight.
QuietClosing == [][life = "closing" => ~\E r \in Reports, s \in Sources : Receive(r, s)]_vars

\* Nothing arms the expiry callback again once the shutdown has cancelled it, and the
\* client stays let go.
Released ==
  /\ life # "running" => expiry = Off
  /\ life = "down" => link = "off"

LEMMA ReleasedStep ==
  ASSUME TypeOK, Released, [Next]_vars,
         life = "closing" => ~\E r \in Reports, s \in Sources : Receive(r, s)
  PROVE  Released'
  <1> USE DEF Released
  <1>1. ASSUME NEW r \in Reports, NEW s \in Sources, Report(r, s) PROVE Released'
    <2>1. Receive(r, s)
      BY <1>1 DEF Report
    <2>2. life' = life /\ link = "on"
      BY <2>1 DEF Receive
    <2>3. life \in {"running", "closing", "down"}
      BY DEF TypeOK, CTypeOK
    <2>4. life = "running"
      BY <2>1, <2>2, <2>3
    <2>5. QED
      BY <2>2, <2>4
  <1>2. CASE Expiry
    BY <1>2 DEF Expiry, Expire, Off
  <1>3. CASE PollEnds \/ UNCHANGED vars
    BY <1>3 DEF PollEnds, cvars, vars
  <1>4. CASE \E f \in Fields : Flush(f) \/ Add(f) \/ Remove(f)
    BY <1>4 DEF Flush, Add, Remove, cvars
  <1>5. CASE Unload
    BY <1>5 DEF Unload, Shutdown
  <1>6. CASE Tick
    <2>1. CTick
      BY <1>6 DEF Tick
    <2>2. life' = life /\ link' = link /\ (expiry = Off => expiry' = Off)
      BY <2>1 DEF CTick
    <2>3. QED
      BY <2>2
  <1>7. CASE Quiet
    BY <1>7 DEF Quiet, CQuiet, StartLink, LinkStarted, CloseLink, StepClock, Renew
  <1>8. QED
    BY <1>1, <1>2, <1>3, <1>4, <1>5, <1>6, <1>7 DEF Next, Message

\* "Release the shared listener, expiry callback and coordinator timers"
\* (coordinator.py:60) holds, also when the wall clock is set, of every shutdown that no
\* report interrupts: the one that arrives while async_close waits for a start is all
\* that can arm the callback again.
THEOREM ReleasedUnlessHeard == Spec /\ QuietClosing => []ShutdownReleases
  <1>1. Init => Released
    BY DEF Init, CInit, Released
  <1>2. TypeOK /\ Released /\ [Next]_vars
          /\ [life = "closing" => ~\E r \in Reports, s \in Sources : Receive(r, s)]_vars
        => Released'
    <2>1. CASE UNCHANGED vars
      BY <2>1 DEF Released, vars
    <2>2. QED
      BY <2>1, ReleasedStep
  <1>3. Released => ShutdownReleases
    BY DEF Released, ShutdownReleases
  <1>4. QED
    BY <1>1, <1>2, <1>3, TypeCorrect, PTL DEF Spec, QuietClosing
===============================================================================
