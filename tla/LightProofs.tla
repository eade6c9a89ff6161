------------------------------ MODULE LightProofs ------------------------------
(***************************************************************************)
(* Theorems about Light, for any lifetime of an observation, any setting of   *)
(* the clock and any number of commands on their way.                        *)
(***************************************************************************)
EXTENDS Light, CoordinatorProofs, TLAPS

\* What Home Assistant shows of each level.
LEMMA Shown == ToHA(0) = 0 /\ ToHA(1) = 64 /\ ToHA(2) = 128 /\ ToHA(3) = 191 /\ ToHA(4) = 255
  BY DEF ToHA, Rounded, MAX

\* A brightness asked for turns the light on, at the level shown nearest to it
\* (ha_brightness_to_zm1 and zm1_brightness_to_ha, for all the 256 values).
THEOREM LevelIsNearest == \A b \in 0 .. 255 : ToLevel(b) \in Nearest(b)
  <1> SUFFICES ASSUME NEW b \in 0 .. 255 PROVE ToLevel(b) \in Nearest(b)
    OBVIOUS
  <1>1. /\ b <= 95 => ToLevel(b) = 1
        /\ 96 <= b /\ b <= 159 => ToLevel(b) = 2
        /\ 160 <= b /\ b <= 223 => ToLevel(b) = 3
        /\ 224 <= b => ToLevel(b) = 4
    BY DEF ToLevel, Clamped, Rounded, MAX
  <1>2. Levels \ {0} = {1, 2, 3, 4}
    BY DEF Levels, MAX
  <1> DEFINE Far(l) == IF ToHA(l) < b THEN b - ToHA(l) ELSE ToHA(l) - b
  <1>3. /\ Far(1) = IF 64 < b THEN b - 64 ELSE 64 - b
        /\ Far(2) = IF 128 < b THEN b - 128 ELSE 128 - b
        /\ Far(3) = IF 191 < b THEN b - 191 ELSE 191 - b
        /\ Far(4) = IF 255 < b THEN b - 255 ELSE 255 - b
    BY Shown
  <1>4. Nearest(b) = {l \in Levels \ {0} : \A k \in Levels \ {0} : Far(l) <= Far(k)}
    BY DEF Nearest
  <1> HIDE DEF Far
  <1>5. \A l \in {1, 2, 3, 4} :
          (\A k \in {1, 2, 3, 4} : Far(l) <= Far(k)) => l \in Nearest(b)
    BY <1>2, <1>4
  <1>6. CASE b <= 95
    BY <1>1, <1>3, <1>5, <1>6
  <1>7. CASE 96 <= b /\ b <= 159
    BY <1>1, <1>3, <1>5, <1>7
  <1>8. CASE 160 <= b /\ b <= 223
    BY <1>1, <1>3, <1>5, <1>8
  <1>9. CASE 224 <= b
    BY <1>1, <1>3, <1>5, <1>9
  <1>10. QED
    BY <1>6, <1>7, <1>8, <1>9

\* Asking for the brightness that is shown asks for the level it is shown for.
THEOREM RoundTrip == \A l \in Levels \ {0} : ToHA(l) \in 0 .. 255 /\ ToLevel(ToHA(l)) = l
  <1>1. Levels \ {0} = {1, 2, 3, 4}
    BY DEF Levels, MAX
  <1>2. ToLevel(64) = 1 /\ ToLevel(128) = 2 /\ ToLevel(191) = 3 /\ ToLevel(255) = 4
    BY DEF ToLevel, Clamped, Rounded, MAX
  <1>3. QED
    BY <1>1, <1>2, Shown

-------------------------------------------------------------------------------
(* The wish of the last heeded call *)

\* The last command on its way is what the last heeded call wants.
LastWanted == asked # <<>> => asked[Len(asked)] \in wish

LInv == LTypeOK /\ HeededWishHolds /\ LastWanted

\* What the calls ask for, and accept.
LEMMA CallsType ==
  /\ \A b \in Dims : ToLevel(b) \in Nearest(b) /\ ToLevel(b) \in Levels /\ Nearest(b) \subseteq Levels
  /\ Fallback \in Levels \ {0}
  /\ 0 \in Levels
  <1>1. \A b \in Dims : ToLevel(b) \in Nearest(b)
    BY LevelIsNearest, LightAssumption
  <1>2. \A b \in Dims : Nearest(b) \subseteq Levels
    BY DEF Nearest
  <1>3. QED
    BY <1>1, <1>2 DEF Fallback, Levels, MAX

LEMMA CommandInv ==
  ASSUME LInv, NEW l \in Levels, NEW levels \in SUBSET Levels, l \in levels, Command(l, levels)
  PROVE  LInv'
  <1>1. UNCHANGED <<cvars, level>>
    BY DEF Command
  <1>2. CTypeOK' /\ level' \in Levels
    BY <1>1 DEF LInv, LTypeOK, CTypeOK, cvars
  <1>3. CASE Known = l
    <2>1. asked' = asked /\ wish' = IF Heeded THEN levels ELSE wish
      BY <1>3 DEF Command
    <2>2. CASE Heeded
      <3>1. asked' = <<>> /\ wish' = levels
        BY <2>1, <2>2 DEF Heeded
      <3>2. Fresh(obs[Brightness]) /\ obs[Brightness].value = l
        BY <1>3, FieldsAssumption, LightAssumption DEF Known
      <3>3. level' \in wish'
        BY <1>1, <2>2, <3>1, <3>2 DEF Heeded
      <3>4. LTypeOK'
        BY <1>2, <2>1, <3>1 DEF LInv, LTypeOK
      <3>5. QED
        BY <3>1, <3>3, <3>4 DEF LInv, HeededWishHolds, LastWanted
    <2>3. CASE ~Heeded
      <3>1. asked' = asked /\ wish' = wish
        BY <2>1, <2>3
      <3>2. QED
        BY <1>1, <1>2, <3>1 DEF LInv, LTypeOK, HeededWishHolds, LastWanted
    <2>4. QED
      BY <2>2, <2>3
  <1>4. CASE Known # l
    <2>1. Len(asked) < MaxAsked /\ asked' = Append(asked, l) /\ wish' = levels
      BY <1>4 DEF Command
    <2>2. asked \in Seq(Levels)
      BY DEF LInv, LTypeOK
    <2>3. /\ asked' \in Seq(Levels) /\ Len(asked') = Len(asked) + 1
          /\ asked'[Len(asked')] = l
      BY <2>1, <2>2
    <2>4. Len(asked') <= MaxAsked /\ asked' # <<>>
      <3>1. Len(asked) \in Nat
        BY <2>2
      <3>2. Len(asked') <= MaxAsked
        BY <2>1, <2>3, <3>1, LightAssumption
      <3>3. Len(asked') > 0
        BY <2>3, <3>1
      <3>4. asked' # <<>>
        BY <2>3, <3>3
      <3>5. QED
        BY <3>2, <3>4
    <2>5. QED
      BY <1>2, <2>1, <2>3, <2>4 DEF LInv, LTypeOK, HeededWishHolds, LastWanted
  <1>5. QED
    BY <1>3, <1>4

LEMMA LightStep == LInv /\ [LightNext]_lightVars => LInv'
  <1> SUFFICES ASSUME LInv, [LightNext]_lightVars PROVE LInv'
    OBVIOUS
  <1> USE DEF LInv, LTypeOK
  <1>1. ASSUME NEW r \in Reports, NEW s \in Sources, Reported(r, s) PROVE LInv'
    BY <1>1, CTypeStep DEF Reported, lvars, HeededWishHolds, LastWanted
  <1>2. ASSUME NEW b \in Dims, Dim(b) PROVE LInv'
    BY <1>2, CallsType, CommandInv DEF Dim
  <1>3. CASE TurnOn \/ TurnOff
    BY <1>3, CallsType, CommandInv DEF TurnOn, TurnOff
  <1>4. CASE Applied
    <2>1. asked \in Seq(Levels) /\ asked # <<>> /\ asked' = Tail(asked) /\ level' = asked[1]
      BY <1>4 DEF Applied
    <2>2. /\ asked' \in Seq(Levels) /\ Len(asked') = Len(asked) - 1 /\ level' \in Levels
          /\ asked' # <<>> => asked'[Len(asked')] = asked[Len(asked)]
          /\ asked' = <<>> => asked[Len(asked)] = asked[1]
      BY <2>1
    <2>3. Len(asked') <= MaxAsked
      BY <2>1, <2>2, LightAssumption
    <2>4. asked[Len(asked)] \in wish' /\ wish' \subseteq Levels
      BY <1>4, <2>1 DEF Applied, LastWanted
    <2>5. CTypeOK'
      BY <1>4 DEF Applied, cvars, CTypeOK
    <2>6. QED
      BY <2>1, <2>2, <2>3, <2>4, <2>5 DEF HeededWishHolds, LastWanted
  <1>5. CASE Lost
    <2>1. asked \in Seq(Levels) /\ asked # <<>> /\ asked' = Tail(asked) /\ wish' = Levels
      BY <1>5 DEF Lost
    <2>2. /\ asked' \in Seq(Levels) /\ Len(asked') = Len(asked) - 1
          /\ asked' # <<>> => asked'[Len(asked')] \in Levels
      BY <2>1
    <2>3. Len(asked') <= MaxAsked
      BY <2>1, <2>2, LightAssumption
    <2>4. CTypeOK' /\ level' = level
      BY <1>5 DEF Lost, cvars, CTypeOK
    <2>5. QED
      BY <2>1, <2>2, <2>3, <2>4 DEF HeededWishHolds, LastWanted
  <1>6. CASE Touched
    <2>1. CTypeOK' /\ asked' = asked /\ level' \in Levels /\ wish' = Levels
      BY <1>6 DEF Touched, cvars, CTypeOK
    <2>2. QED
      BY <2>1 DEF HeededWishHolds, LastWanted
  <1>7. CASE Around
    BY <1>7, CTypeStep DEF Around, lvars, HeededWishHolds, LastWanted
  <1>8. CASE UNCHANGED lightVars
    BY <1>8 DEF lightVars, lvars, cvars, CTypeOK, HeededWishHolds, LastWanted
  <1>9. QED
    BY <1>1, <1>2, <1>3, <1>4, <1>5, <1>6, <1>7, <1>8 DEF LightNext

LEMMA LightInitInv == LightInit => LInv
  BY CTypeInit, LightAssumption DEF LightInit, LInv, LTypeOK, HeededWishHolds, LastWanted

\* The light keeps its types.
THEOREM LightTypeCorrect == LightSpec => []LTypeOK
  <1>1. LInv => LTypeOK
    BY DEF LInv
  <1>2. QED
    BY <1>1, LightInitInv, LightStep, PTL DEF LightSpec

\* When no command is under way the light is where the last call wanted it that was sent
\* or was skipped on a true report: a later call skipped on a report that a command or the
\* device has left behind changes nothing.  Nothing is said from a lost command or a hand on the
\* device to the next heeded call.
THEOREM HeededAlwaysHolds == LightSpec => []HeededWishHolds
  <1>1. LInv => HeededWishHolds
    BY DEF LInv
  <1>2. QED
    BY <1>1, LightInitInv, LightStep, PTL DEF LightSpec
===============================================================================
