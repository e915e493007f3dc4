-------------------------------- MODULE Device --------------------------------
(***************************************************************************)
(* The main program (src/main.cpp): setup(), the passes of loop(), the     *)
(* search for a card each second, the status LED, and the clock with its   *)
(* three sources: NOW.TXT, a time server and USB (src/time_manager.cpp).   *)
(*                                                                         *)
(* Time passes in units; millis() is a counter that wraps around.  The     *)
(* real-time clock is represented by its error, so that its value and the  *)
(* start time of a log do not change while time passes.                    *)
(***************************************************************************)
EXTENDS Integers

CONSTANTS
  Wrap,       \* 2^32: millis() counts modulo this, in units
  Second,     \* ONE_SECOND_PERIOD, in units
  BlueAfter,  \* 1000 ms of the LED, in units
  GreenAfter, \* 1200 ms of the LED, in units
  SetupTime,  \* bound: how many units setup() may take
  Word,       \* 2^32: unsigned differences of clock values, modulo this
  Minute,     \* 60 s, in units of the clock error
  MaxError,   \* bound: how far the clock, NOW.TXT and USB may be off
  NoFile, OldTime  \* NOW.TXT is missing; holds a time before DEFAULT_TIME

ASSUME TimeAssumption ==
  /\ Second \in Nat \ {0} /\ SetupTime \in Nat
  /\ BlueAfter \in Nat /\ GreenAfter \in Nat /\ BlueAfter < GreenAfter
  /\ Wrap \in Nat /\ GreenAfter + SetupTime < Wrap /\ 2 * Second < Wrap

ASSUME ClockAssumption ==
  /\ Word \in Nat /\ Minute \in Nat /\ 2 * Minute < Word
  /\ MaxError \in Nat /\ MaxError + Minute < Word
  /\ NoFile \notin Int /\ OldTime \notin Int /\ NoFile # OldTime

VARIABLES
  at,        \* where the main program is: see Places
  card,      \* whether a card is in the slot
  status,    \* status
  led,       \* the colour of the LED
  log,       \* what start_log() did: "none" before the first call
  millis,    \* millis()
  target,    \* target_time
  lastOff,   \* last_off
  waited,    \* history: how long loop() has left a card unnoticed
  rtc,       \* the error of the real-time clock
  logTime,   \* the error of the start time of the log
  timeFile,  \* NOW.TXT: NoFile, OldTime or the error of the time in it
  wifi,      \* config.wifi_enabled
  ntpTimer,  \* whether timer_NTP_check runs
  drifted    \* history: that timer set the clock and the log was not restarted

timing == <<millis, target, lastOff, waited>>
clock  == <<rtc, logTime, timeFile, drifted>>
vars   == <<at, card, status, led, log, timing, clock, wifi, ntpTimer>>

Errors == -MaxError .. MaxError

Places == {"setup", "wifi", "retry", "timers", "serial", "blink", "wait"}

Init ==
  /\ at = "setup" /\ card \in BOOLEAN
  /\ status = "boot" /\ led = "orange" /\ log = "none"
  /\ millis = 0 /\ target = 0 /\ lastOff = 0 /\ waited = 0
  /\ rtc \in Errors /\ logTime = 0 /\ drifted = FALSE
  /\ timeFile \in Errors \cup {NoFile, OldTime}
  /\ wifi = FALSE /\ ntpTimer = FALSE

\* Before a card was found the user may put one in or take it out.
UserMovesCard ==
  /\ status \in {"boot", "no_sd"}
  /\ card' = ~card
  /\ waited' = 0
  /\ UNCHANGED <<at, status, led, log, millis, target, lastOff, clock, wifi, ntpTimer>>

\* One unit of time passes: in setup(), or after a pass of loop().
Tick ==
  /\ at = "wait" \/ (at \in {"setup", "wifi"} /\ millis < SetupTime)
  /\ millis' = (millis + 1) % Wrap
  /\ IF at = "wait" THEN /\ at' = "retry"
                         /\ waited' = IF card /\ status = "no_sd" THEN waited + 1 ELSE 0
                    ELSE UNCHANGED <<at, waited>>
  /\ UNCHANGED <<card, status, led, log, target, lastOff, clock, wifi, ntpTimer>>

-----------------------------------------------------------------------------
\* Mutant: start_log() takes an absent card for one with space.
StartLogAnyway(t) ==
  /\ log' = "on"
  /\ logTime' = t
  /\ drifted' = FALSE

\* start_log() with the clock at t: it logs or, on a full card or without any,
\* it does not.
StartLog(t) ==
  /\ log' \in IF status' = "no_sd" THEN {"off"} ELSE {"on", "off"}
  /\ logTime' = IF log' = "on" THEN t ELSE 0
  /\ drifted' = FALSE

\* read_time_file(): NOW.TXT sets the clock, unless its time is known bad.
TimeFromFile == IF timeFile \in Errors THEN timeFile ELSE rtc

\* setup_from_sd_card(): without a card, and with one.
CardMissing ==
  /\ ~card
  /\ status' = "no_sd" /\ led' = "red"
  /\ UNCHANGED <<log, clock, wifi>>

CardFound ==
  /\ card
  /\ rtc' = TimeFromFile /\ timeFile' = NoFile
  /\ wifi' \in BOOLEAN
  /\ status' = "waiting_for_data" /\ led' = "green"
  /\ StartLog(rtc')

SetupFromCard == CardMissing \/ CardFound

-----------------------------------------------------------------------------
(* setup()                                                                 *)

Setup ==
  /\ at = "setup"
  /\ SetupFromCard
  /\ at' = IF wifi' THEN "wifi" ELSE "wait"
  /\ UNCHANGED <<card, timing, ntpTimer>>

\* No known network was reached.
NotConnected ==
  /\ at = "wifi"
  /\ at' = "wait"
  /\ UNCHANGED <<card, status, led, log, timing, clock, wifi, ntpTimer>>

\* The time server did not answer; its timer is started all the same.
NtpFails ==
  /\ at = "wifi"
  /\ ntpTimer' = TRUE
  /\ at' = "wait"
  /\ UNCHANGED <<card, status, led, log, timing, clock, wifi>>

\* Mutant: the difference has a sign.
SignedStep == 0 - rtc

\* The step of the clock that the time server corrects, a difference of
\* unsigned numbers.
ClockStep == (0 - rtc) % Word

\* The time server sets the clock; a step of more than a minute restarts the log.
NtpSets ==
  /\ at = "wifi"
  /\ rtc' = 0
  /\ ntpTimer' = TRUE
  /\ at' = "wait"
  /\ UNCHANGED <<card, status, led, timing, timeFile, wifi>>
  /\ IF ClockStep > Minute THEN StartLog(0) ELSE UNCHANGED <<log, logTime, drifted>>

-----------------------------------------------------------------------------
(* loop()                                                                  *)

\* Mutant: the test that does not survive the wrap of millis().
PastTarget == millis >= target + Second

Due == (millis - target) % Wrap >= Second

\* Each second the card is looked for, if there was none.
RetryCard ==
  /\ at = "retry"
  /\ at' = "timers"
  /\ target' = IF Due THEN (target + Second) % Wrap ELSE target
  /\ IF Due /\ status = "no_sd" THEN SetupFromCard
                                ELSE UNCHANGED <<status, led, log, clock, wifi>>
  /\ UNCHANGED <<card, millis, lastOff, waited, ntpTimer>>

\* tick() may call check_set_rtc_from_wifi(), whose result nobody looks at.
NtpTimerSets ==
  /\ at = "timers" /\ ntpTimer
  /\ rtc' = 0
  /\ drifted' = TRUE
  /\ at' = "serial"
  /\ UNCHANGED <<card, status, led, log, timing, logTime, timeFile, wifi, ntpTimer>>

NoTimer ==
  /\ at = "timers"
  /\ at' = "serial"
  /\ UNCHANGED <<card, status, led, log, timing, clock, wifi, ntpTimer>>

\* A time came over USB: the clock is set and restart_logging() called.
SerialSets ==
  /\ at = "serial"
  /\ rtc' \in Errors
  /\ at' = "blink"
  /\ UNCHANGED <<card, status, led, timing, timeFile, wifi, ntpTimer>>
  /\ StartLog(rtc')

\* None came: check_serial_time() ends without a return value, which may be
\* taken for true.
SerialReturnsTrue ==
  /\ at = "serial"
  /\ at' = "blink"
  /\ UNCHANGED <<card, status, led, timing, rtc, timeFile, wifi, ntpTimer>>
  /\ StartLog(rtc)

SerialReturnsFalse ==
  /\ at = "serial"
  /\ at' = "blink"
  /\ UNCHANGED <<card, status, led, log, timing, clock, wifi, ntpTimer>>

\* Both tests compare with a sum that may have wrapped around.
GreenDue == millis > (lastOff + GreenAfter) % Wrap

\* Mutant: blue waits for the time of green.
BlueWithGreen == GreenDue
BlueDue       == millis > (lastOff + BlueAfter) % Wrap

\* The LED is set green and, a second later, blue, whatever the status is.
Blink ==
  /\ at = "blink"
  /\ led' = IF GreenDue THEN "green" ELSE IF BlueDue THEN "blue" ELSE led
  /\ lastOff' = IF GreenDue THEN millis ELSE lastOff
  /\ at' = "wait"
  /\ UNCHANGED <<card, status, log, millis, target, waited, clock, wifi, ntpTimer>>

-----------------------------------------------------------------------------
Runs ==
  \/ Setup \/ NotConnected \/ NtpFails \/ NtpSets
  \/ RetryCard \/ NtpTimerSets \/ NoTimer
  \/ SerialSets \/ SerialReturnsTrue \/ SerialReturnsFalse \/ Blink

Next == UserMovesCard \/ Tick \/ Runs

\* The program runs and time passes; the user does what he likes.
Spec == Init /\ [][Next]_vars /\ WF_vars(Runs) /\ WF_vars(Tick)

-----------------------------------------------------------------------------
(* Properties.                                                             *)

TypeOK ==
  /\ at \in Places /\ card \in BOOLEAN
  /\ status \in {"boot", "no_sd", "waiting_for_data"}
  /\ led \in {"orange", "red", "green", "blue"}
  /\ log \in {"none", "on", "off"}
  /\ millis \in 0 .. Wrap - 1 /\ target \in 0 .. Wrap - 1 /\ lastOff \in 0 .. Wrap - 1
  /\ waited \in Nat
  /\ rtc \in Errors /\ logTime \in Errors
  /\ timeFile \in Errors \cup {NoFile, OldTime}
  /\ wifi \in BOOLEAN /\ ntpTimer \in BOOLEAN /\ drifted \in BOOLEAN
  /\ log = "on" => status = "waiting_for_data"

\* A card is noticed within a second (README.md:79), also when millis() wraps
\* around and when target_time lags behind after a long setup().
CardSeenInASecond == waited <= Second

\* The log being written starts at most a minute off the clock, whichever source
\* set the clock and in whichever direction; only the timer of the time server
\* sets it behind the log's back.
LogFollowsClock ==
  log = "on" /\ ~drifted => logTime - rtc \in -Minute .. Minute

\* While a log is written the LED goes on to blink green and blue
\* (README.md:53, 54), also across the wrap of millis().  It does so without a log
\* being written, too, where README.md:79 and 81 promise red and orange: nothing
\* is required of it then.
BlinksWhileLogging ==
  /\ log = "on" ~> led = "blue" \/ log # "on"
  /\ log = "on" ~> led = "green" \/ log # "on"
=============================================================================
