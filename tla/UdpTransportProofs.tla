-------------------------- MODULE UdpTransportProofs --------------------------
(***************************************************************************)
(* Safety of the polling policy and of the UDP transport, for any bounds and   *)
(* intervals, any addresses and any order of failures, reports and reloads.    *)
(***************************************************************************)
EXTENDS UdpTransport, FiniteSetTheorems, TLAPS

-------------------------------------------------------------------------------
(* The policy *)

LEMMA IntervalBounds ==
  /\ BaseInterval \in Nat \ {0} /\ Ceiling \in Nat \ {0} /\ BaseInterval <= Ceiling
  /\ Recoveries \in Nat \ {0} /\ Tolerance \in Nat
  BY PollingAssumption DEF BaseInterval, Ceiling, Recoveries, Tolerance, Least, Greatest

\* Backing off neither shortens the interval nor exceeds its ceiling.
LEMMA BackoffBounds ==
  ASSUME NEW n \in Nat
  PROVE  Backoff(n) \in BaseInterval .. Ceiling
  <1> DEFINE k == Least(n, MaxDoublings)
  <1>1. k \in Nat
    BY PollingAssumption DEF Least
  <1> HIDE DEF k
  <1>2. 2 ^ k \in Int
    BY <1>1
  <1> DEFINE d == BaseInterval * 2 ^ k
  <1>3. d \in Int
    BY <1>2, IntervalBounds
  <1> HIDE DEF d
  <1>4. Least(Ceiling, Greatest(BaseInterval, d)) \in BaseInterval .. Ceiling
    BY <1>3, IntervalBounds DEF Least, Greatest
  <1>5. QED
    BY <1>4 DEF Backoff, d, k

\* The powers of the backoff, counted as subsets: a set of one element more has twice as
\* many.
LEMMA PowerDoubles ==
  ASSUME NEW k \in Nat
  PROVE  2 ^ k \in Nat \ {0} /\ 2 ^ (k + 1) = 2 * 2 ^ k
  <1> DEFINE Old == SUBSET (1 .. k)
             New == {s \cup {k + 1} : s \in Old}
             add == [s \in Old |-> s \cup {k + 1}]
  <1>1. IsFiniteSet(Old) /\ Cardinality(Old) = 2 ^ k
    <2>1. IsFiniteSet(1 .. k) /\ Cardinality(1 .. k) = k
      BY FS_Interval
    <2>2. QED
      BY <2>1, FS_SUBSET
  <1>2. Cardinality(SUBSET (1 .. k + 1)) = 2 ^ (k + 1)
    <2>1. IsFiniteSet(1 .. k + 1) /\ Cardinality(1 .. k + 1) = k + 1
      BY FS_Interval
    <2>2. QED
      BY <2>1, FS_SUBSET
  <1>3. k + 1 \notin 1 .. k
    OBVIOUS
  <1>4. ExistsBijection(Old, New)
    <2>1. add \in [Old -> New]
      OBVIOUS
    <2>2. \A s, t \in Old : add[s] = add[t] => s = t
      BY <1>3
    <2>3. \A t \in New : \E s \in Old : add[s] = t
      OBVIOUS
    <2>4. add \in Bijection(Old, New)
      BY <2>1, <2>2, <2>3 DEF Bijection, Injection, Surjection, IsInjective
    <2>5. QED
      BY <2>4 DEF ExistsBijection
  <1>5. IsFiniteSet(New) /\ Cardinality(New) = 2 ^ k
    BY <1>1, <1>4, FS_Bijection
  <1>6. Old \cap New = {}
    BY <1>3
  <1>7. SUBSET (1 .. k + 1) = Old \cup New
    <2>1. 1 .. k + 1 = (1 .. k) \cup {k + 1}
      OBVIOUS
    <2>2. ASSUME NEW t \in SUBSET (1 .. k + 1) PROVE t \in Old \cup New
      <3>1. CASE k + 1 \in t
        <4>1. t \ {k + 1} \in Old /\ t = (t \ {k + 1}) \cup {k + 1}
          BY <2>1, <2>2, <3>1
        <4>2. QED
          BY <4>1
      <3>2. CASE k + 1 \notin t
        BY <2>1, <2>2, <3>2
      <3>3. QED
        BY <3>1, <3>2
    <2>3. ASSUME NEW t \in Old \cup New PROVE t \in SUBSET (1 .. k + 1)
      BY <2>1, <2>3
    <2> DEFINE All == SUBSET (1 .. k + 1)
    <2>4. \A t : t \in All <=> t \in Old \cup New
      BY <2>2, <2>3
    <2> HIDE DEF Old, New, All
    <2>5. All = Old \cup New
      BY <2>4
    <2>6. QED
      BY <2>5 DEF All
  <1>8. Cardinality(Old) \in Nat
    BY <1>1, FS_CardinalityType
  <1> HIDE DEF Old, New, add
  <1>9. Cardinality(Old \cup New) = Cardinality(Old) + Cardinality(New) - Cardinality(Old \cap New)
    BY <1>1, <1>5, FS_Union
  <1>10. Cardinality(Old \cap New) = 0
    BY <1>6, FS_EmptySet
  <1>11. 2 ^ k \in Nat \ {0}
    <2>1. {} \in Old
      BY DEF Old
    <2>2. Cardinality(Old) # 0
      BY <1>1, <2>1, FS_EmptySet
    <2>3. QED
      BY <1>1, <1>8, <2>2
  <1>12. Cardinality(Old \cup New) = 2 ^ (k + 1)
    BY <1>2, <1>7
  <1>13. 2 ^ (k + 1) = 2 ^ k + 2 ^ k
    BY <1>1, <1>5, <1>9, <1>10, <1>11, <1>12
  <1>14. QED
    BY <1>11, <1>13

\* How often the interval has been doubled is all that a backoff depends on.
LEMMA BackoffIsPower ==
  ASSUME NEW n \in Nat
  PROVE  Backoff(n) = Least(Ceiling, BaseInterval * 2 ^ Least(n, MaxDoublings))
  <1> DEFINE k == Least(n, MaxDoublings)
             y == 2 ^ k
  <1>1. k \in Nat
    BY PollingAssumption DEF Least
  <1>2. y \in Nat \ {0}
    BY <1>1, PowerDoubles
  <1> HIDE DEF k, y
  <1>3. BaseInterval * y >= BaseInterval /\ BaseInterval * y \in Nat
    BY <1>2, IntervalBounds
  <1>4. Greatest(BaseInterval, BaseInterval * y) = BaseInterval * y
    BY <1>3, IntervalBounds DEF Greatest
  <1>5. QED
    BY <1>4 DEF Backoff, k, y

LEMMA BackoffDoubles ==
  ASSUME NEW n \in Nat, n < MaxDoublings
  PROVE  Backoff(n + 1) = IF 2 * Backoff(n) <= Ceiling THEN 2 * Backoff(n) ELSE Ceiling
  <1> DEFINE x == BaseInterval * 2 ^ n
  <1>1. Least(n, MaxDoublings) = n /\ Least(n + 1, MaxDoublings) = n + 1
    BY PollingAssumption DEF Least
  <1>2. x \in Nat /\ BaseInterval * 2 ^ (n + 1) = 2 * x
    <2>1. \A b, y \in Nat : b * y \in Nat /\ b * (2 * y) = 2 * (b * y)
      OBVIOUS
    <2>2. QED
      BY <2>1, PowerDoubles, IntervalBounds
  <1>3. Backoff(n) = Least(Ceiling, x) /\ Backoff(n + 1) = Least(Ceiling, 2 * x)
    BY <1>1, <1>2, BackoffIsPower
  <1> HIDE DEF x
  <1>4. QED
    BY <1>2, <1>3, IntervalBounds DEF Least

LEMMA NewPolicyConsistent == NewPolicy \in Policies /\ Consistent(NewPolicy)
  BY IntervalBounds, PollingAssumption DEF NewPolicy, Policies, Consistent

\* A report leaves the failures as they are or ends them.
LEMMA SuccessConsistent ==
  ASSUME NEW p \in Policies, Consistent(p)
  PROVE  /\ RecordSuccess(p) \in Policies /\ Consistent(RecordSuccess(p))
         /\ RecordSuccess(p).failures \in {0, p.failures}
  <1>1. CASE p.failures = 0
    BY <1>1, IntervalBounds DEF RecordSuccess, Policies, Consistent
  <1>2. CASE p.failures # 0 /\ p.successes + 1 >= Recoveries
    BY <1>2, NewPolicyConsistent DEF RecordSuccess, NewPolicy
  <1>3. CASE p.failures # 0 /\ ~(p.successes + 1 >= Recoveries)
    BY <1>3, IntervalBounds DEF RecordSuccess, Policies, Consistent
  <1>4. QED
    BY <1>1, <1>2, <1>3

\* A failure keeps a device that counts as unavailable so.
LEMMA FailureConsistent ==
  ASSUME NEW p \in Policies, Consistent(p)
  PROVE  /\ RecordFailure(p) \in Policies /\ Consistent(RecordFailure(p))
         /\ ShouldReportUnavailable(p) => ShouldReportUnavailable(RecordFailure(p))
         /\ RecordFailure(p).failures # 0
  <1> DEFINE n == Least(p.failures + 1, FailureBound)
  <1>1. p.failures \in 0 .. FailureBound
    BY DEF Policies
  <1>2. n \in 1 .. FailureBound /\ n >= p.failures
    BY <1>1, PollingAssumption DEF Least
  <1>3. Backoff(n) \in BaseInterval .. Ceiling
    BY <1>2, BackoffBounds
  <1> HIDE DEF n
  <1>4. RecordFailure(p) = [interval |-> Backoff(n), failures |-> n, successes |-> 0]
    BY DEF RecordFailure, n
  <1>5. RecordFailure(p) \in Policies
    BY <1>2, <1>3, <1>4, IntervalBounds DEF Policies
  <1>6. Consistent(RecordFailure(p))
    BY <1>2, <1>4 DEF Consistent
  <1>7. QED
    BY <1>1, <1>2, <1>4, <1>5, <1>6, IntervalBounds DEF ShouldReportUnavailable

-------------------------------------------------------------------------------
(* The inductive invariant *)

Inv == TypeOK /\ PolicyConsistent /\ IssueStands

LEMMA InitInv == Init => Inv
  <1> SUFFICES ASSUME Init PROVE Inv
    OBVIOUS
  <1>1. TypeOK
    <2>1. silence \in 0 .. BaseInterval /\ measured \in 0 .. TTL
      BY IntervalBounds, TransportAssumption DEF Init
    <2>2. policy \in Policies
      BY NewPolicyConsistent DEF Init
    <2>3. QED
      BY <2>1, <2>2 DEF Init, TypeOK, Hosts, Saved, Stages, Discovering, Commands
  <1>2. PolicyConsistent
    BY NewPolicyConsistent DEF Init, PolicyConsistent
  <1>3. IssueStands
    BY DEF Init, IssueStands
  <1>4. QED
    BY <1>1, <1>2, <1>3 DEF Inv

\* Steps that touch neither the policy nor the issue and bring no report.
LEMMA QuietInv ==
  ASSUME Inv, TypeOK', UNCHANGED <<policy, issue>>, silence' >= silence
  PROVE  Inv'
  <1>1. HasRecentReport' => HasRecentReport
    BY IntervalBounds DEF Inv, TypeOK, HasRecentReport
  <1>2. IssueStands'
    BY <1>1 DEF Inv, IssueStands
  <1>3. PolicyConsistent'
    BY DEF Inv, PolicyConsistent
  <1>4. QED
    BY <1>2, <1>3 DEF Inv

\* The search of a poll is where its stage says.
LEMMA GoesTyped ==
  ASSUME NEW stage \in Stages, Goes(stage), known' \in BOOLEAN
  PROVE  /\ poll' \in Stages
         /\ search' \in {"none", "name", "browse", "broadcast"}
         /\ search' # "none" <=> poll' \in Discovering
  BY DEF Goes

LEMMA PollEndsTyped ==
  ASSUME Inv, PollEnds, known' \in BOOLEAN
  PROVE  /\ life' \in {"off", "loading", "loaded", "reloading", "leaving"}
         /\ poll' \in Stages
         /\ search' \in {"none", "name", "browse", "broadcast"}
         /\ search' # "none" <=> poll' \in Discovering
  <1>1. "idle" \in Stages
    BY DEF Stages
  <1>2. QED
    BY <1>1, GoesTyped DEF PollEnds, Inv, TypeOK

LEMMA EntryInv == ASSUME Inv, EntryStep PROVE Inv'
  <1>1. CASE Setup
    <2>1. TypeOK'
      <3>1. /\ silence' \in 0 .. BaseInterval
            /\ policy' \in Policies
        BY <1>1, NewPolicyConsistent, IntervalBounds DEF Setup
      <3>2. /\ host' \in Hosts
            /\ UNCHANGED <<configured, lastHost, named, at, measured>>
            /\ known' \in BOOLEAN
        BY <1>1, TransportAssumption DEF Setup, Inv, TypeOK, Hosts, Saved
      <3>3. /\ life' \in {"loading", "loaded"}
            /\ listening' \in BOOLEAN
            /\ command' \in Commands
            /\ issue' \in {"none", "raised", "left"}
            /\ reloadDue' \in BOOLEAN
        BY <1>1 DEF Setup, Inv, TypeOK, Commands
      <3>4. \E stage \in Stages : Goes(stage)
        BY <1>1 DEF Setup, Stages
      <3>5. QED
        BY <3>1, <3>2, <3>3, <3>4, GoesTyped DEF Inv, TypeOK
    <2>2. PolicyConsistent'
      BY <1>1, NewPolicyConsistent DEF Setup, PolicyConsistent
    <2>3. IssueStands'
      BY <1>1, IntervalBounds DEF Setup, IssueStands, HasRecentReport, Inv, TypeOK
    <2>4. QED
      BY <2>1, <2>2, <2>3 DEF Inv
  <1>2. CASE Reload \/ UserUnload \/ Unloaded
    <2>1. UNCHANGED <<policy, issue, silence>>
      BY <1>2 DEF Reload, UserUnload, Unloaded, Unload, client
    <2>2. TypeOK'
      <3>1. TTL \in 0 .. TTL
        BY TransportAssumption
      <3>2. CASE Reload
        BY <3>1, <3>2 DEF Reload, Unload, polling, Inv, TypeOK
      <3>3. CASE UserUnload
        BY <3>1, <3>3 DEF UserUnload, Unload, polling, Inv, TypeOK
      <3>4. CASE Unloaded
        BY <3>4 DEF Unloaded, client, polling, Inv, TypeOK
      <3>5. QED
        BY <1>2, <3>2, <3>3, <3>4
    <2>3. QED
      BY <2>1, <2>2, QuietInv, IntervalBounds DEF Inv, TypeOK
  <1>3. QED
    BY <1>1, <1>2 DEF EntryStep

\* However a poll fails.
LEMMA FailedInv == ASSUME Inv, Failed PROVE Inv'
  <1>1. /\ PollEnds
        /\ UNCHANGED <<configured, lastHost, named, host, known, at, listening, silence,
                       measured, command, reloadDue>>
    BY DEF Failed, client
  <1>a. /\ life' \in {"off", "loading", "loaded", "reloading", "leaving"}
        /\ poll' \in Stages
        /\ search' \in {"none", "name", "browse", "broadcast"}
        /\ search' # "none" <=> poll' \in Discovering
    BY <1>1, PollEndsTyped DEF Inv, TypeOK
  <1>2. CASE UNCHANGED <<policy, issue>>
    <2>1. TypeOK'
      BY <1>1, <1>a, <1>2 DEF Inv, TypeOK
    <2>2. QED
      BY <1>1, <1>2, <2>1, QuietInv DEF Inv, TypeOK
  <1>3. CASE /\ ~HasRecentReport
             /\ policy' = RecordFailure(policy)
             /\ issue' = IF ShouldReportUnavailable(policy') THEN "raised" ELSE issue
    <2>1. /\ policy' \in Policies /\ Consistent(policy')
          /\ ShouldReportUnavailable(policy) => ShouldReportUnavailable(policy')
      BY <1>3, FailureConsistent DEF Inv, TypeOK, PolicyConsistent
    <2>2. TypeOK'
      BY <1>1, <1>a, <1>3, <2>1 DEF Inv, TypeOK
    <2>3. ~HasRecentReport'
      BY <1>1, <1>3 DEF HasRecentReport
    <2>4. issue' = "raised" => ShouldReportUnavailable(policy')
      BY <1>3, <2>1 DEF Inv, IssueStands
    <2>5. QED
      BY <2>1, <2>2, <2>3, <2>4 DEF Inv, PolicyConsistent, IssueStands
  <1>4. QED
    BY <1>2, <1>3 DEF Failed

\* However a poll ends without a failure, or goes on.
LEMMA GoingInv ==
  ASSUME Inv, UNCHANGED <<policy, silence, issue, configured, lastHost, named, known, at,
                          measured, command, reloadDue>>,
         host' \in Hosts, listening' \in BOOLEAN,
         PollEnds \/ (UNCHANGED life /\ \E stage \in Stages : Goes(stage))
  PROVE  Inv'
  <1>1. /\ life' \in {"off", "loading", "loaded", "reloading", "leaving"}
        /\ poll' \in Stages
        /\ search' \in {"none", "name", "browse", "broadcast"}
        /\ search' # "none" <=> poll' \in Discovering
    BY PollEndsTyped, GoesTyped DEF Inv, TypeOK
  <1>2. TypeOK'
    BY <1>1 DEF Inv, TypeOK
  <1>3. QED
    BY <1>2, QuietInv DEF Inv, TypeOK

LEMMA PollInv == ASSUME Inv, PollStep PROVE Inv'
  <1>1. CASE PollCannotStart \/ NoAnswerAgain \/ NameFails
    BY <1>1, FailedInv DEF PollCannotStart, NoAnswerAgain, NameFails
  <1>2. CASE PollCut
    <2>1. CASE Failed
      BY <2>1, FailedInv
    <2>2. CASE PollEnds /\ UNCHANGED <<configured, lastHost, named, client, at, policy, command,
                                       issue, reloadDue>>
      <3>1. host' \in Hosts /\ listening' \in BOOLEAN
        BY <2>2 DEF client, Inv, TypeOK
      <3>2. QED
        BY <2>2, <3>1, GoingInv DEF client
    <2>3. QED
      BY <1>2, <2>1, <2>2 DEF PollCut
  <1>3. CASE PollStarts
    BY <1>3, GoingInv, TransportAssumption DEF PollStarts, Aimed, entry, Inv, TypeOK, Hosts, Saved, Stages
  <1>4. CASE NoAnswer
    <2>1. host' \in Hosts /\ listening' \in BOOLEAN
      BY <1>4 DEF NoAnswer, client, Inv, TypeOK
    <2>2. PollEnds \/ (UNCHANGED life /\ \E stage \in Stages : Goes(stage))
      BY <1>4 DEF NoAnswer, Stages
    <2>3. QED
      BY <1>4, <2>1, <2>2, GoingInv DEF NoAnswer, client
  <1>5. CASE Resume
    BY <1>5, GoingInv, TransportAssumption
       DEF Resume, Aimed, entry, Inv, TypeOK, Hosts, Saved, Stages
  <1>6. ASSUME NEW h \in Addresses, NameResolved(h) PROVE Inv'
    <2>1. TypeOK'
      BY <1>6 DEF NameResolved, entry, polling, Inv, TypeOK, Hosts, Saved
    <2>2. QED
      BY <1>6, <2>1, QuietInv DEF NameResolved, Inv, TypeOK
  <1>7. QED
    BY <1>1, <1>2, <1>3, <1>4, <1>5, <1>6 DEF PollStep

\* What a search found is an address, and the name that is saved is known or not.
LEMMA LocatedInv ==
  ASSUME Inv, NEW h \in Addresses, Located(h), known' \in BOOLEAN
  PROVE  Inv'
  <1>1. \E stage \in Stages : Goes(stage)
    BY DEF Located, Stages
  <1>2. /\ poll' \in Stages
        /\ search' \in {"none", "name", "browse", "broadcast"}
        /\ search' # "none" <=> poll' \in Discovering
    BY <1>1, GoesTyped
  <1>3. TypeOK'
    BY <1>2 DEF Located, Save, Closing, Inv, TypeOK, Hosts, Saved
  <1>4. QED
    BY <1>3, QuietInv DEF Located, Inv, TypeOK

LEMMA SearchInv == ASSUME Inv, SearchStep PROVE Inv'
  <1>1. CASE Unresolved \/ NotBrowsed
    <2>1. TypeOK'
      BY <1>1 DEF Unresolved, NotBrowsed, SearchOn, entry, client, Inv, TypeOK
    <2>2. QED
      BY <1>1, <2>1, QuietInv DEF Unresolved, NotBrowsed, SearchOn, client, Inv, TypeOK
  <1>2. CASE BrowseRaises
    <2>1. host' \in Hosts /\ listening' \in BOOLEAN
      BY <1>2 DEF BrowseRaises, client, Inv, TypeOK
    <2>2. QED
      BY <1>2, <2>1, GoingInv DEF BrowseRaises, client
  <1>3. CASE NotAnswered
    BY <1>3, FailedInv DEF NotAnswered
  <1>4. ASSUME NEW h \in Addresses, Resolved(h) \/ Browsed(h) \/ Answered(h)
        PROVE  Inv'
    BY <1>4, LocatedInv DEF Resolved, Browsed, Answered, Inv, TypeOK
  <1>5. QED
    BY <1>1, <1>2, <1>3, <1>4 DEF SearchStep

LEMMA CommandInv == ASSUME Inv, CommandStep PROVE Inv'
  <1>1. UNCHANGED <<policy, issue, silence>>
    BY DEF CommandStep, CommandStarts, CommandLocates, CommandLocated, CommandNotLocated, client
  <1>2. TypeOK'
    <2>0. CASE CommandStarts
      BY <2>0, TransportAssumption
         DEF CommandStarts, Aimed, entry, polling, Inv, TypeOK, Hosts, Saved
    <2>1. CASE CommandLocates \/ CommandNotLocated
      BY <2>1 DEF CommandLocates, CommandNotLocated, entry, client, polling, Commands, Inv, TypeOK
    <2>2. ASSUME NEW h \in Addresses, CommandLocated(h) PROVE TypeOK'
      <3>1. /\ host' \in Hosts /\ known' \in BOOLEAN
            /\ \E name \in BOOLEAN : Save(h, name)
        BY <2>2 DEF CommandLocated, Inv, TypeOK, Hosts, Saved
      <3>2. lastHost' \in Saved /\ named' \in BOOLEAN /\ reloadDue' \in BOOLEAN
        BY <3>1 DEF Save, Closing, Inv, TypeOK, Hosts, Saved
      <3>3. QED
        BY <2>2, <3>1, <3>2 DEF CommandLocated, polling, Commands, Inv, TypeOK
    <2>3. QED
      BY <2>0, <2>1, <2>2 DEF CommandStep
  <1>3. QED
    BY <1>1, <1>2, QuietInv DEF Inv, TypeOK

\* A report recovers the policy and the issue in the same step.
LEMMA ReportInv ==
  ASSUME Inv, NEW kind \in {"state", "sensor"}, Report(kind)
  PROVE  Inv'
  <1>1. /\ policy' \in Policies /\ Consistent(policy')
        /\ policy'.failures \in {0, policy.failures}
    BY SuccessConsistent DEF Report, Inv, TypeOK, PolicyConsistent
  <1>2. TypeOK'
    <2>1. /\ host' \in Hosts /\ silence' \in 0 .. BaseInterval /\ measured' \in 0 .. TTL
          /\ issue' \in {"none", "raised", "left"}
          /\ UNCHANGED <<configured, lastHost, named, known, at, listening, command, reloadDue>>
      BY IntervalBounds, TransportAssumption DEF Report, Inv, TypeOK, Hosts, Saved
    <2>2. PollEnds \/ UNCHANGED <<polling, life>>
      BY DEF Report
    <2>3. /\ life' \in {"off", "loading", "loaded", "reloading", "leaving"}
          /\ poll' \in Stages
          /\ search' \in {"none", "name", "browse", "broadcast"}
          /\ search' # "none" <=> poll' \in Discovering
      BY <2>1, <2>2, PollEndsTyped DEF polling, Inv, TypeOK
    <2>4. QED
      BY <1>1, <2>1, <2>3 DEF Inv, TypeOK
  <1>3. issue' = IF IsHealthy(policy') THEN "none" ELSE issue
    BY DEF Report
  <1>4. IssueStands'
    BY <1>1, <1>3 DEF IssueStands, IsHealthy, ShouldReportUnavailable, Inv
  <1>5. QED
    BY <1>1, <1>2, <1>4 DEF Inv, PolicyConsistent

LEMMA StepInv == Inv /\ [Next]_vars => Inv'
  <1> SUFFICES ASSUME Inv, [Next]_vars PROVE Inv'
    OBVIOUS
  <1>1. CASE EntryStep
    BY <1>1, EntryInv
  <1>2. CASE PollStep
    BY <1>2, PollInv
  <1>3. CASE CommandStep
    BY <1>3, CommandInv
  <1>9. CASE SearchStep
    BY <1>9, SearchInv
  <1>4. ASSUME NEW kind \in {"state", "sensor"}, Report(kind) PROVE Inv'
    BY <1>4, ReportInv
  <1>5. ASSUME NEW a \in Addresses, Move(a) PROVE Inv'
    <2>1. TypeOK'
      BY <1>5 DEF Move, entry, client, polling, Inv, TypeOK
    <2>2. QED
      BY <1>5, <2>1, QuietInv DEF Move, client, Inv, TypeOK
  <1>6. CASE Tick
    <2>1. silence' \in 0 .. BaseInterval /\ silence' >= silence /\ measured' \in 0 .. TTL
      BY <1>6, IntervalBounds, TransportAssumption DEF Tick, Least, Inv, TypeOK
    <2>2. TypeOK'
      BY <1>6, <2>1 DEF Tick, entry, polling, Inv, TypeOK
    <2>3. QED
      BY <1>6, <2>1, <2>2, QuietInv DEF Tick
  <1>7. CASE UNCHANGED vars
    <2>1. TypeOK'
      BY <1>7 DEF vars, Inv, TypeOK
    <2>2. QED
      BY <1>7, <2>1, QuietInv DEF vars, Inv, TypeOK
  <1>8. QED
    BY <1>1, <1>2, <1>3, <1>9, <1>4, <1>5, <1>6, <1>7 DEF Next

\* Types, policy and issue are inductive together, for every history of polls.
THEOREM Inductive == Spec => []Inv
  BY InitInv, StepInv, PTL DEF Spec

\* The interval is within its bounds and failures are counted within theirs, whatever
\* the configured interval.
THEOREM TypeCorrect == Spec => []TypeOK
  <1>1. Inv => TypeOK
    BY DEF Inv
  <1>2. QED
    BY <1>1, Inductive, PTL

\* AdaptivePollingPolicy: the interval is the backoff of the failures not recovered from.
THEOREM BacksOff == Spec => []PolicyConsistent
  <1>1. Inv => PolicyConsistent
    BY DEF Inv
  <1>2. QED
    BY <1>1, Inductive, PTL

\* udp_response_unavailable stands for an outage and ends with it, across reloads.
THEOREM IssueMeansOutage == Spec => []IssueStands
  <1>1. Inv => IssueStands
    BY DEF Inv
  <1>2. QED
    BY <1>1, Inductive, PTL

-------------------------------------------------------------------------------
(* The outage *)

\* What a failure to poll does to the policy, whatever the intervals and tolerances.
LEMMA FailureDoubles ==
  ASSUME NEW p \in Policies, Consistent(p)
  PROVE  \/ RecordFailure(p).interval = IF 2 * p.interval <= Ceiling
                                       THEN 2 * p.interval ELSE Ceiling
         \/ p.failures # 0 /\ RecordFailure(p).interval = p.interval
  <1> DEFINE n == p.failures
  <1>1. n \in 0 .. FailureBound
    BY DEF Policies
  <1>2. p.interval = Backoff(n)
    <2>1. CASE n = 0
      <3>1. Least(0, MaxDoublings) = 0 /\ 2 ^ 0 = 1
        BY PollingAssumption DEF Least
      <3>2. Backoff(0) = Least(Ceiling, BaseInterval * 1)
        BY <3>1, BackoffIsPower
      <3>3. Backoff(0) = BaseInterval
        BY <3>2, IntervalBounds DEF Least
      <3>4. QED
        BY <2>1, <3>3 DEF Consistent
    <2>2. QED
      BY <2>1 DEF Consistent
  <1>3. RecordFailure(p).interval = Backoff(Least(n + 1, FailureBound))
    BY DEF RecordFailure
  <1> HIDE DEF n
  <1>4. CASE n < MaxDoublings
    <2>1. Least(n + 1, FailureBound) = n + 1
      BY <1>1, <1>4, PollingAssumption DEF Least
    <2>2. QED
      BY <1>1, <1>2, <1>3, <1>4, <2>1, BackoffDoubles
  <1>5. CASE ~(n < MaxDoublings)
    <2> DEFINE m == Least(n + 1, FailureBound)
    <2>1. m \in Nat /\ Least(m, MaxDoublings) = Least(n, MaxDoublings)
      BY <1>1, <1>5, PollingAssumption DEF Least
    <2> HIDE DEF m
    <2>2. Backoff(m) = Backoff(n)
      BY <1>1, <2>1, BackoffIsPower
    <2>3. n # 0
      BY <1>5, PollingAssumption
    <2>4. QED
      BY <1>2, <1>3, <2>2, <2>3 DEF m, n
  <1>6. QED
    BY <1>4, <1>5

LEMMA OutageKept ==
  ASSUME UNCHANGED <<policy, silence, issue>>
  PROVE  UNCHANGED Outage!vars
  BY DEF Outage!vars, Trust, HasRecentReport

\* A failure that counts is one in silence.
LEMMA FailStep ==
  ASSUME Inv, Failed
  PROVE  [Outage!Next]_(Outage!vars)
  <1>1. silence' = silence /\ (HasRecentReport' <=> HasRecentReport)
    BY DEF Failed, client, HasRecentReport
  <1>2. CASE UNCHANGED <<policy, issue>>
    BY <1>1, <1>2, OutageKept
  <1>3. CASE /\ ~HasRecentReport
             /\ policy' = RecordFailure(policy)
             /\ issue' = IF ShouldReportUnavailable(policy') THEN "raised" ELSE issue
    <2>1. policy \in Policies /\ Consistent(policy)
      BY DEF Inv, TypeOK, PolicyConsistent
    <2>2. /\ ~IsHealthy(policy')
          /\ ShouldReportUnavailable(policy) => ShouldReportUnavailable(policy')
      BY <1>3, <2>1, FailureConsistent DEF IsHealthy
    <2>3. ShouldReportUnavailable(policy) => ~IsHealthy(policy)
      BY <2>1, IntervalBounds DEF ShouldReportUnavailable, IsHealthy, Policies
    <2>4. Trust' \in Outage!Onward[Trust]
      BY <2>2, <2>3 DEF Trust, Outage!Onward
    <2>5. policy'.interval = Outage!Doubled \/ (Trust # "healthy" /\ policy'.interval = policy.interval)
      BY <1>3, <2>1, FailureDoubles DEF Outage!Doubled, Trust, IsHealthy
    <2>6. (issue' # "none") = ((issue # "none") \/ Trust' = "unavailable")
      BY <1>3, <2>2 DEF Trust
    <2>7. Outage!Fail
      BY <1>1, <1>3, <2>4, <2>5, <2>6 DEF Outage!Fail
    <2>8. QED
      BY <2>7 DEF Outage!Next
  <1>4. QED
    BY <1>2, <1>3 DEF Failed

LEMMA HearStep ==
  ASSUME Inv, NEW kind \in {"state", "sensor"}, Report(kind)
  PROVE  Outage!Hear
  <1>1. /\ policy' = RecordSuccess(policy)
        /\ issue' = IF IsHealthy(policy') THEN "none" ELSE issue
        /\ HasRecentReport'
    BY IntervalBounds DEF Report, HasRecentReport
  <1>2. policy \in Policies
    BY DEF Inv, TypeOK
  <1>3. CASE policy.failures = 0 \/ policy.successes + 1 >= Recoveries
    <2>1. policy'.failures = 0 /\ policy'.interval = BaseInterval
      BY <1>1, <1>2, <1>3 DEF RecordSuccess, NewPolicy, Policies
    <2>2. QED
      BY <1>1, <2>1 DEF Outage!Hear, Trust, IsHealthy
  <1>4. CASE ~(policy.failures = 0 \/ policy.successes + 1 >= Recoveries)
    <2>1. policy'.failures = policy.failures /\ policy'.interval = policy.interval
      BY <1>1, <1>2, <1>4 DEF RecordSuccess, Policies
    <2>2. UNCHANGED issue /\ Trust' = Trust /\ Trust # "healthy"
      BY <1>1, <1>4, <2>1 DEF Trust, IsHealthy, ShouldReportUnavailable
    <2>3. QED
      BY <1>1, <2>1, <2>2 DEF Outage!Hear
  <1>5. QED
    BY <1>3, <1>4

LEMMA RenewStep == Setup => Outage!Renew
  <1> SUFFICES ASSUME Setup PROVE Outage!Renew
    OBVIOUS
  <1>1. policy' = NewPolicy /\ silence' = BaseInterval
    BY DEF Setup
  <1>2. (issue' # "none") = (issue # "none")
    BY DEF Setup
  <1>3. ~HasRecentReport'
    BY <1>1, IntervalBounds DEF HasRecentReport
  <1>4. QED
    BY <1>1, <1>2, <1>3 DEF Outage!Renew, Trust, NewPolicy, IsHealthy

LEMMA SilenceStep == ASSUME Inv, Tick PROVE [Outage!Next]_(Outage!vars)
  <1>1. UNCHANGED <<policy, issue>> /\ silence' >= silence
    BY IntervalBounds DEF Tick, Least, Inv, TypeOK
  <1>2. CASE HasRecentReport'
    <2>1. HasRecentReport
      BY <1>1, <1>2, IntervalBounds DEF Tick, Least, Inv, TypeOK, HasRecentReport
    <2>2. QED
      BY <1>1, <1>2, <2>1 DEF Outage!vars, Trust
  <1>3. CASE ~HasRecentReport'
    BY <1>1, <1>3 DEF Outage!Next, Outage!Silence, Trust
  <1>4. QED
    BY <1>2, <1>3

\* Every history of polls, retries, searches, commands, reports and reloads is a history
\* of Outage: the device is given up in silence only, the interval doubles
\* up to its ceiling while polls fail (polling.py:66) and an outage ends as a whole
\* (transport.py:160).
THEOREM RefinesOutage == Spec => ImplementsOutage
  <1>1. Init => Outage!Init
    BY IntervalBounds
       DEF Init, Outage!Init, Trust, HasRecentReport, NewPolicy, IsHealthy
  <1>2. ASSUME Inv, [Next]_vars PROVE [Outage!Next]_(Outage!vars)
    <2>1. CASE Setup
      BY <2>1, RenewStep DEF Outage!Next
    <2>2. CASE Reload \/ UserUnload \/ Unloaded
      BY <2>2, OutageKept DEF Reload, UserUnload, Unloaded, Unload, client
    <2>3. CASE Failed
      BY <1>2, <2>3, FailStep
    <2>4. CASE PollStep
      <3>1. CASE PollStarts \/ NoAnswer \/ Resume \/ \E h \in Addresses : NameResolved(h)
        BY <3>1, OutageKept DEF PollStarts, NoAnswer, Resume, NameResolved, client
      <3>2. CASE PollCut
        BY <2>3, <3>2, OutageKept DEF PollCut, client
      <3>3. QED
        BY <2>3, <2>4, <3>1, <3>2 DEF PollStep, PollCannotStart, NoAnswerAgain, NameFails
    <2>5. CASE SearchStep
      <3>1. CASE Unresolved \/ NotBrowsed \/ BrowseRaises
        BY <3>1, OutageKept DEF Unresolved, NotBrowsed, SearchOn, BrowseRaises, client
      <3>2. ASSUME NEW h \in Addresses, Resolved(h) \/ Browsed(h) \/ Answered(h)
            PROVE  UNCHANGED Outage!vars
        BY <3>2, OutageKept DEF Resolved, Browsed, Answered, Located
      <3>3. QED
        BY <2>3, <2>5, <3>1, <3>2 DEF SearchStep, NotAnswered
    <2>6. CASE CommandStep
      BY <2>6, OutageKept
         DEF CommandStep, CommandStarts, CommandLocates, CommandLocated, CommandNotLocated, client
    <2>7. ASSUME NEW kind \in {"state", "sensor"}, Report(kind) PROVE Outage!Next
      BY <1>2, <2>7, HearStep DEF Outage!Next
    <2>8. CASE Tick
      BY <1>2, <2>8, SilenceStep
    <2>9. CASE (\E a \in Addresses : Move(a)) \/ UNCHANGED vars
      BY <2>9, OutageKept DEF Move, client, vars
    <2>10. QED
      BY <1>2, <2>1, <2>2, <2>4, <2>5, <2>6, <2>7, <2>8, <2>9 DEF Next, EntryStep
  <1>3. QED
    BY <1>1, <1>2, Inductive, PTL DEF Spec, ImplementsOutage, Outage!Spec

-------------------------------------------------------------------------------
(* Measurements *)

\* A device whose address is configured is never searched for, so that nothing is saved.
Settled ==
  /\ configured # NoHost
  /\ poll \notin Discovering
  /\ command = "none"
  /\ ~reloadDue

LEMMA SettledStep == TypeOK /\ Settled /\ [Next]_vars => Settled'
  <1> SUFFICES ASSUME TypeOK, Settled, [Next]_vars PROVE Settled'
    OBVIOUS
  <1> USE DEF Settled, Discovering
  <1>s. search = "none"
    BY DEF TypeOK
  <1>1. CASE Setup
    <2>1. UNCHANGED configured /\ command' = "none" /\ poll' \in {"asking", "idle"}
      BY <1>1 DEF Setup, Goes
    <2>2. ~reloadDue'
      BY <1>1 DEF Setup, TypeOK
    <2>3. QED
      BY <2>1, <2>2
  <1>2. CASE Reload \/ UserUnload \/ Unloaded
    BY <1>2 DEF Reload, UserUnload, Unloaded, Unload, polling, client
  <1>3. CASE Failed
    BY <1>3 DEF Failed, PollEnds, Goes, client
  <1>4. CASE PollStep
    <2>1. CASE PollStarts
      BY <2>1 DEF PollStarts, Aimed, Goes, entry
    <2>2. CASE NoAnswer
      BY <2>2 DEF NoAnswer, PollEnds, Goes, client
    <2>3. CASE Resume
      BY <2>3 DEF Resume, Goes, entry
    <2>4. CASE PollCut
      BY <1>3, <2>4 DEF PollCut, PollEnds, Goes, client
    <2>5. CASE \E h \in Addresses : NameResolved(h)
      BY <2>5 DEF NameResolved, entry, polling
    <2>6. QED
      BY <1>3, <1>4, <2>1, <2>2, <2>3, <2>4, <2>5
      DEF PollStep, PollCannotStart, NoAnswerAgain, NameFails
  <1>5. ~SearchStep
    BY <1>s DEF SearchStep, Unresolved, NotBrowsed, BrowseRaises, NotAnswered, Resolved, Browsed,
                Answered
  <1>6. CASE CommandStep
    <2>1. CommandStarts
      BY <1>6 DEF CommandStep, CommandLocates, CommandLocated, CommandNotLocated
    <2>2. QED
      BY <2>1 DEF CommandStarts, entry, polling
  <1>7. ASSUME NEW kind \in {"state", "sensor"}, Report(kind) PROVE Settled'
    <2>1. UNCHANGED <<configured, command, reloadDue>>
      BY <1>7 DEF Report
    <2>2. poll' \in {poll, "idle"}
      BY <1>7 DEF Report, PollEnds, Goes, polling
    <2>3. QED
      BY <2>1, <2>2
  <1>8. CASE (\E a \in Addresses : Move(a)) \/ Tick \/ UNCHANGED vars
    BY <1>8 DEF Move, Tick, entry, client, polling, vars
  <1>9. QED
    BY <1>1, <1>2, <1>4, <1>5, <1>6, <1>7, <1>8 DEF Next, EntryStep

\* README.md promises that failed polls do not end a measurement before its time.  It
\* holds of every entry whose address the user has configured: only a discovery that
\* saves an address reloads an entry (transport.py:268).
THEOREM ConfiguredKeepsMeasurements == configured # NoHost /\ Spec => KeepsMeasurements
  <1> DEFINE Kept == measured < TTL - 1 /\ measured' = TTL => life' = "leaving"
  <1>1. Init /\ configured # NoHost => Settled
    BY DEF Init, Settled, Discovering
  <1>2. ASSUME TypeOK, Settled, [Next]_vars
        PROVE  [~IsHealthy(policy) /\ measured < TTL - 1 /\ measured' = TTL
                => life' = "leaving"]_vars
    <2>t. measured \in 0 .. TTL /\ TTL \in Nat \ {0} /\ search = "none"
      BY <1>2, TransportAssumption DEF TypeOK, Settled
    <2>1. CASE UNCHANGED measured
      BY <2>1, <2>t
    <2>2. CASE Reload \/ UserUnload
      BY <1>2, <2>2 DEF Reload, UserUnload, Unload, Settled
    <2>3. CASE Setup \/ Unloaded \/ PollStep \/ CommandStarts
      <3>1. UNCHANGED measured
        BY <2>3 DEF Setup, Unloaded, PollStep, PollStarts, PollCannotStart, NoAnswer, Resume,
                    NoAnswerAgain, PollCut, NameFails, NameResolved, CommandStarts, Failed, client
      <3>2. QED
        BY <2>1, <3>1
    <2>4. CASE SearchStep \/ (CommandStep /\ ~CommandStarts) \/ \E a \in Addresses : Move(a)
      <3>1. ~SearchStep
        BY <2>t DEF SearchStep, Unresolved, NotBrowsed, BrowseRaises, NotAnswered, Resolved,
                    Browsed, Answered
      <3>2. CommandStep => CommandStarts
        BY <1>2 DEF Settled, CommandStep, CommandLocates, CommandLocated, CommandNotLocated
      <3>3. UNCHANGED measured
        BY <2>4, <3>1, <3>2 DEF Move, client
      <3>4. QED
        BY <2>1, <3>3
    <2>5. ASSUME NEW kind \in {"state", "sensor"}, Report(kind) PROVE Kept
      BY <2>5, <2>t DEF Report
    <2>6. CASE Tick
      BY <2>6, <2>t DEF Tick, Least
    <2>7. CASE UNCHANGED vars
      BY <2>7
    <2>8. QED
      BY <1>2, <2>2, <2>3, <2>4, <2>5, <2>6, <2>7 DEF Next, EntryStep
  <1>3. QED
    BY <1>1, <1>2, SettledStep, TypeCorrect, PTL DEF Spec, KeepsMeasurements
===============================================================================
