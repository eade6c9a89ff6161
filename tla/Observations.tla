----------------------------- MODULE Observations -----------------------------
(***************************************************************************)
(* The per-field observations of observations.py: merge_report and           *)
(* field_is_fresh.  A time stamp is kept as an age, the wall clock's now     *)
(* minus observed_at.  Ages stop at TTL, where a field that was never         *)
(* observed stays, however the clock is set.                                 *)
(***************************************************************************)
EXTENDS Integers

CONSTANTS
  Fields,       \* keys of a report, after _ALIASES
  Expiring,     \* EXPIRING_FIELDS
  Values,       \* values that pass _numeric (or, for the other fields, not null)
  Sources,      \* "udp", "mqtt"
  Bad,          \* a value _numeric rejects, or null
  Absent,       \* the key is not in the report
  NoValue,
  NoSource,
  TTL           \* OBSERVATION_TTL

ASSUME FieldsAssumption ==
  /\ Expiring \subseteq Fields
  /\ {Bad, Absent, NoValue} \cap Values = {}
  /\ NoSource \notin Sources

ASSUME TTLAssumption == TTL \in Nat \ {0}

Reports == [Fields -> Values \cup {Bad, Absent}]

\* An age is negative when the wall clock was set back after the observation.
Observation ==
  {o \in [value : Values \cup {NoValue}, source : Sources \cup {NoSource}, age : Int] :
     o.value = NoValue => o.age = TTL}

Unobserved == [value |-> NoValue, source |-> NoSource, age |-> TTL]

\* field_is_fresh.
Fresh(o) == 0 <= o.age /\ o.age < TTL

\* Stamps with a mistake: the value is not validated.
StampsAny(o, v) == v # Absent /\ o.age >= 0

\* A field of the report is kept unless it is invalid or older than what is known.
Stamps(o, v) == v \in Values /\ o.age >= 0

\* Merge with a mistake: any report renews every observation.
MergeRenews(obs, report, source) ==
  [f \in Fields |-> IF Stamps(obs[f], report[f])
                    THEN [value |-> report[f], source |-> source, age |-> 0]
                    ELSE [obs[f] EXCEPT !.age = IF @ < TTL THEN 0 ELSE @]]

\* merge_report.  _last_seen, which only its own diagnostic sensor reads, is left out.
Merge(obs, report, source) ==
  [f \in Fields |-> IF Stamps(obs[f], report[f])
                    THEN [value |-> report[f], source |-> source, age |-> 0]
                    ELSE obs[f]]

\* The same observations d ticks of the wall clock later.
Aged(obs, d) ==
  [f \in Fields |->
     IF obs[f].value = NoValue THEN obs[f]
     ELSE [obs[f] EXCEPT !.age = IF @ + d < TTL THEN @ + d ELSE TTL]]
===============================================================================
