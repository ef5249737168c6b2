---------------------------- MODULE PilotControl ----------------------------
(***************************************************************************)
(* The numeric side of the autopilot's control loop,                       *)
(* crates/plugins/autopilot/src/pd.rs and the second half of a tick in     *)
(* lib.rs: PID with anti-windup, gain scheduling, recovery mode, rudder    *)
(* rate limiting and the rudder feedback monitor.                          *)
(*                                                                         *)
(* Angles are integers on a circle of 2 * Half units, rudder angles and    *)
(* errors use the same unit, gains are in hundredths.  Divisions round     *)
(* towards zero where the code has fractions.  The heading error, the D    *)
(* term and the feed-forward of heel and gusts come from sensors: a tick   *)
(* chooses them.                                                           *)
(***************************************************************************)
EXTENDS Integers

CONSTANTS
  Half,             \* half a circle, pi
  Gains,            \* gain_p, gain_i and gain_d in hundredths
  DeadZone,         \* dead_zone_rad
  MaxRudder,        \* max_rudder_rad
  IntegralLimit,    \* integral_limit
  MaxRate,          \* max_rudder_rate_rad_per_sec, 0 = unlimited
  SpeedNominal,     \* speed_nominal_mps, 0 = disabled
  RecoveryThreshold, RecoveryTicks, RecoveryFactor,
  FeedbackThreshold, FeedbackTicks,
  Errors, DErrors, Speeds, FeedForwards, Actuals, Steps,  \* inputs of a tick
  NoReading         \* no rudder sensor

ASSUME ControlAssumption ==
  /\ Half \in Nat \ {0}
  /\ Gains \in [p : Nat, i : Nat, d : Nat]
  /\ {DeadZone, MaxRudder, IntegralLimit, MaxRate, SpeedNominal} \subseteq Nat
  /\ {RecoveryThreshold, RecoveryTicks, RecoveryFactor} \subseteq Nat
  /\ {FeedbackThreshold, FeedbackTicks} \subseteq Nat
  /\ Errors \cup DErrors \cup FeedForwards \subseteq Int
  /\ Speeds \subseteq Nat
  /\ Steps \subseteq Nat \ {0}
  /\ NoReading \notin Int
  /\ Actuals \subseteq Int \cup {NoReading}

VARIABLES
  integral,         \* PidController.integral
  recovery,         \* RecoveryState
  feedback,         \* RudderFeedbackMonitor
  rudder,           \* AutopilotState.last_rudder_rad
  failure_shown,    \* notifications.steering.autopilot.rudderFeedbackFailure
  recovering_for,   \* ticks in a row with boosted gains (history)
  misses_for        \* mismatches the monitor was shown since the last match,
                    \* mode change or trip (history)

controlVars == <<integral, recovery, feedback, rudder, failure_shown,
                 recovering_for, misses_for>>

Magnitude(x) == IF x < 0 THEN -x ELSE x
Clamp(x, lo, hi) == IF x < lo THEN lo ELSE IF x > hi THEN hi ELSE x
TowardsZero(x, n) == IF x < 0 THEN -((-x) \div n) ELSE x \div n
(* f64::signum is 1 for 0.0.                                               *)
Signum(x) == IF x < 0 THEN -1 ELSE 1

(* The loop subtracts or adds whole circles until -pi <= x <= pi, so both  *)
(* ends of the interval are kept.                                          *)
Normalize(a) ==
  LET m == a % (2 * Half)
  IN  IF a \in -Half..Half THEN a
      ELSE IF m > Half \/ (m = Half /\ a < 0) THEN m - 2 * Half
      ELSE m

ScaleGains(g, speed) ==
  IF SpeedNominal = 0 \/ speed = 0 THEN g
  ELSE LET ratio == Clamp((100 * speed) \div SpeedNominal, 30, 300)
       IN  [p |-> (g.p * ratio) \div 100, i |-> (g.i * ratio) \div 100,
            d |-> (g.d * 100) \div ratio]

(* The new integral and the rudder.  Inside the dead zone the integral     *)
(* decays by 5%; outside it grows unless the output is saturated and the   *)
(* error pushes the same way.                                              *)
PidCompute(i, error, d, dt, g) ==
  LET pd    == g.p * error + g.d * d
      grows == \/ Magnitude(pd + g.i * i) < 100 * MaxRudder
               \/ Signum(error) # Signum(i)
      i2    == IF grows
               THEN Clamp(i + error * dt, -IntegralLimit, IntegralLimit) ELSE i
  IN  IF Magnitude(error) < DeadZone
      THEN [integral |-> TowardsZero(95 * i, 100), out |-> 0]
      ELSE [integral |-> i2,
            out |-> Clamp(TowardsZero(pd + g.i * i2, 100), -MaxRudder, MaxRudder)]

NotRecovering == [active |-> FALSE, left |-> 0]

(* The tick that activates recovery counts as its first; it ends when the  *)
(* ticks run out or the error falls below 30% of the threshold.            *)
RecoveryUpdate(r, error) ==
  LET starts == ~r.active /\ Magnitude(error) > RecoveryThreshold
      left   == IF starts THEN RecoveryTicks ELSE r.left
      ticked == IF left = 0 THEN 0 ELSE left - 1
  IN  IF RecoveryThreshold = 0 \/ ~(r.active \/ starts) THEN r
      ELSE [active |-> ticked # 0
                       /\ 10 * Magnitude(error) >= 3 * RecoveryThreshold,
            left   |-> ticked]

RecoveryApply(r, g) ==
  IF r.active THEN [p |-> g.p * RecoveryFactor, i |-> 0, d |-> g.d * RecoveryFactor]
  ELSE g

NoFeedback == [misses |-> 0, alarm |-> FALSE]

Mismatch(command, actual) == Magnitude(command - actual) > FeedbackThreshold

(* What the monitor remembers after a tick.                                *)
FeedbackUpdate(f, command, actual) ==
  IF FeedbackThreshold = 0 \/ actual = NoReading THEN f
  ELSE IF Mismatch(command, actual)
  THEN [misses |-> f.misses + 1,
        alarm  |-> f.alarm \/ f.misses + 1 >= FeedbackTicks]
  ELSE NoFeedback

Command_raw(out, ff) == out + ff

(* The controller's output plus heel and gust compensation.                *)
Command(out, ff) == Clamp(out + ff, -MaxRudder, MaxRudder)

RateLimit(current, target, dt) ==
  IF MaxRate = 0 THEN target
  ELSE current + Clamp(target - current, -(MaxRate * dt), MaxRate * dt)

ControlInit ==
  /\ integral = 0
  /\ recovery = NotRecovering
  /\ feedback = NoFeedback
  /\ rudder = 0
  /\ failure_shown = "none"
  /\ recovering_for = 0
  /\ misses_for = 0

(* The monitor's verdict: it tells the store when its alarm changes.       *)
ReportFeedback(f2) ==
  failure_shown' = CASE f2.alarm /\ ~feedback.alarm -> "alarm"
                     [] ~f2.alarm /\ feedback.alarm -> "normal"
                     [] OTHER -> failure_shown

(* One tick of an engaged autopilot with a plausible heading.              *)
Steer(error, d, speed, ff, actual, dt) ==
  LET r2  == RecoveryUpdate(recovery, error)
      pid == PidCompute(integral, error, d, dt,
                        RecoveryApply(r2, ScaleGains(Gains, speed)))
      cmd == RateLimit(rudder, Command(pid.out, ff), dt)
      f2  == FeedbackUpdate(feedback, cmd, actual)
  IN  /\ f2.misses <= FeedbackTicks + 1      \* bound
      /\ recovery' = r2
      /\ integral' = pid.integral
      /\ rudder' = cmd
      /\ feedback' = f2
      /\ ReportFeedback(f2)
      /\ recovering_for' = IF r2.active THEN recovering_for + 1 ELSE 0
      /\ misses_for' = IF actual = NoReading THEN misses_for
                       ELSE IF Mismatch(cmd, actual) THEN misses_for + 1 ELSE 0

(* A new mode resets the controllers; the rudder stays where it is.        *)
ResetControllers ==
  /\ integral' = 0
  /\ recovery' = NotRecovering
  /\ feedback' = NoFeedback
  /\ recovering_for' = 0
  /\ misses_for' = 0

ModeChange == ResetControllers /\ UNCHANGED <<rudder, failure_shown>>

(* A sensor timeout or heading failure centres the rudder as well.         *)
TripControl == ResetControllers /\ rudder' = 0 /\ UNCHANGED failure_shown

ControlNext ==
  \/ \E error \in Errors, d \in DErrors, speed \in Speeds, ff \in FeedForwards,
        actual \in Actuals, dt \in Steps :
          Steer(Normalize(error), d, speed, ff, actual, dt)
  \/ ModeChange
  \/ TripControl

ControlSpec == ControlInit /\ [][ControlNext]_controlVars

-----------------------------------------------------------------------------
(* Every part of the control state keeps its range.                        *)
ControlTypeOK ==
  /\ integral \in -IntegralLimit..IntegralLimit
  /\ recovery \in [active : BOOLEAN, left : 0..RecoveryTicks]
  /\ feedback \in [misses : 0..(FeedbackTicks + 1), alarm : BOOLEAN]
  /\ rudder \in Int
  /\ failure_shown \in {"none", "alarm", "normal"}
  /\ recovering_for \in Nat
  /\ misses_for \in Nat

(* Whatever the feed-forward, the gains and the speed, no command leaves   *)
(* the rudder's range: the rate limiter starts from the last command, so a *)
(* single one outside would pull all later ones with it.                   *)
RudderInRange == rudder \in -MaxRudder..MaxRudder

(* Recovery multiplies the gains for at most RecoveryTicks ticks on end,   *)
(* however long the error stays large and however often the mode changes.  *)
RecoveryRests == recovering_for < RecoveryTicks \/ recovering_for = 0

(* A rudder that did not follow for FeedbackTicks samples in a row is      *)
(* alarmed in the store, whatever modes and alarms came before.            *)
PersistentMismatchIsShown ==
  (FeedbackThreshold > 0 /\ FeedbackTicks > 0 /\ misses_for >= FeedbackTicks)
    => failure_shown = "alarm"

(* What the controllers owe the steering gear after any sequence of inputs: *)
(* commands it can follow, an end of every recovery, an alarm when it does *)
(* not follow.                                                             *)
ControlBounded ==
  /\ ControlTypeOK /\ RudderInRange /\ RecoveryRests
  /\ PersistentMismatchIsShown
=============================================================================
