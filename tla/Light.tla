--------------------------------- MODULE Light ---------------------------------
(***************************************************************************)
(* The light of light.py, on the Coordinator whose observation of the         *)
(* brightness it reads, and the conversions between Home Assistant's 0..255   *)
(* and the device's 0..4 of protocol.py.  A command that would change nothing *)
(* according to a valid report is skipped; the others reach the device in the *)
(* order they were sent, or are lost.                                         *)
(***************************************************************************)
EXTENDS Coordinator, Sequences

CONSTANTS
  Brightness,   \* the field "brightness"
  Dims,         \* the brightness, 0..255, that a user may ask for
  MaxAsked      \* bound: commands on their way to the device at once

MAX == 4        \* MAX_ZM1_BRIGHTNESS
Levels == 0 .. MAX

ASSUME LightAssumption ==
  /\ Brightness \in Expiring
  /\ Levels \subseteq Values
  /\ Dims \subseteq 0 .. 255
  /\ MaxAsked \in Nat \ {0}

VARIABLES
  level,    \* the brightness of the device
  asked,    \* the commands sent and not yet carried out
  wish      \* history: the levels the last call that was heeded may leave the light at

lvars == <<level, asked, wish>>
lightVars == <<cvars, lvars>>

LTypeOK ==
  /\ CTypeOK
  /\ level \in Levels
  /\ asked \in Seq(Levels) /\ Len(asked) <= MaxAsked
  /\ wish \subseteq Levels

LightInit ==
  /\ CInit
  /\ level \in Levels
  /\ asked = <<>>
  /\ wish = Levels

-------------------------------------------------------------------------------
\* round(n / d): to the nearest integer, to the even one from halfway.
Rounded(n, d) ==
  LET q == n \div d
      twice == 2 * (n % d)
  IN IF twice > d \/ (twice = d /\ q % 2 = 1) THEN q + 1 ELSE q

Clamped(lo, n) == IF n < lo THEN lo ELSE IF n > MAX THEN MAX ELSE n

\* zm1_brightness_to_ha, of a level.
ToHA(l) == Rounded(255 * l, MAX)

\* ToLevel with a mistake: it truncates.
ToLevelTruncates(b) == Clamped(1, (MAX * b) \div 255)

\* ha_brightness_to_zm1, of a brightness.
ToLevel(b) == Clamped(1, Rounded(MAX * b, 255))

\* _raw_brightness: the level the light is known to be at.
Known == IF Fresh(obs[Brightness]) THEN obs[Brightness].value ELSE NoValue

\* ha_brightness_to_zm1 without a brightness: the known level unless it is off.
Fallback == IF Known \in Levels \ {0} THEN Known ELSE MAX

\* What is known is not misleading: no command is under way, and no valid report tells of
\* another level than the device's.  A call that is skipped although it is has no effect.
Heeded ==
  /\ asked = <<>>
  /\ Fresh(obs[Brightness]) => obs[Brightness].value = level

\* Command with a mistake: an expired observation counts.
CommandStale(l, levels) ==
  /\ life = "running"
  /\ IF obs[Brightness].value = l
     THEN /\ wish' = IF Heeded THEN levels ELSE wish
          /\ UNCHANGED asked
     ELSE /\ Len(asked) < MaxAsked
          /\ asked' = Append(asked, l)
          /\ wish' = levels
  /\ UNCHANGED <<cvars, level>>

\* async_send_command of a level, unless the light is known to be there, truly or not:
\* the end of async_turn_on and async_turn_off.
Command(l, levels) ==
  /\ life = "running"
  /\ IF Known = l
     THEN /\ wish' = IF Heeded THEN levels ELSE wish
          /\ UNCHANGED asked
     ELSE /\ Len(asked) < MaxAsked
          /\ asked' = Append(asked, l)
          /\ wish' = levels
  /\ UNCHANGED <<cvars, level>>

\* The levels on that Home Assistant shows nearest to a brightness.
Nearest(b) ==
  LET Far(l) == IF ToHA(l) < b THEN b - ToHA(l) ELSE ToHA(l) - b
  IN {l \in Levels \ {0} : \A k \in Levels \ {0} : Far(l) <= Far(k)}

\* async_turn_on with a brightness, and without.
Dim(b) == Command(ToLevel(b), Nearest(b))

TurnOn == Command(Fallback, Levels \ {0})

\* async_turn_off.
TurnOff == Command(0, {0})

\* The device carries out the next command.
Applied ==
  /\ asked # <<>>
  /\ level' = Head(asked)
  /\ asked' = Tail(asked)
  /\ UNCHANGED <<cvars, wish>>

\* A command does not reach the device: the caller of a UDP command is told, that of
\* an MQTT command is not.
Lost ==
  /\ asked # <<>>
  /\ asked' = Tail(asked)
  /\ wish' = Levels
  /\ UNCHANGED <<cvars, level>>

\* The light is changed by hand, or by another client.
Touched ==
  /\ level' \in Levels
  /\ wish' = Levels
  /\ UNCHANGED <<cvars, asked>>

\* A report, of the level of the device if it has a valid one.
Reported(r, s) ==
  /\ r[Brightness] \in {level, Bad, Absent}
  /\ Receive(r, s)
  /\ UNCHANGED lvars

Around ==
  /\ Expire \/ CTick \/ Shutdown \/ Renew \/ CQuiet
  /\ UNCHANGED lvars

LightNext ==
  \/ \E r \in Reports, s \in Sources : Reported(r, s)
  \/ \E b \in Dims : Dim(b)
  \/ TurnOn \/ TurnOff \/ Applied \/ Lost \/ Touched \/ Around

LightSpec == LightInit /\ [][LightNext]_lightVars

-------------------------------------------------------------------------------
(* Properties *)

\* When every command is carried out the device is where the last heeded call wanted it:
\* off, on, or at the level shown nearest to the brightness asked for, although levels
\* are rounded both ways (light.py:60-73, protocol.py:110-134).  Heeded is a call that
\* was sent, or skipped on what was true.  A call that is skipped on a valid report which
\* a command under way or the device itself has left behind is NOT: after a report of 0,
\* turning on and then off leaves the light on, where the call before wanted it.  Nor is
\* anything said from a lost command or a hand on the device to the next heeded call.
HeededWishHolds == asked = <<>> => level \in wish
===============================================================================
