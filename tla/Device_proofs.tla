---------------------------- MODULE Device_proofs ----------------------------
(***************************************************************************)
(* Theorems about Device, for every width of millis() and of the clock,    *)
(* every period and every duration of setup() the assumptions allow.       *)
(***************************************************************************)
EXTENDS Device, TLAPS

\* TypeOK, and: setup() has started no log yet, and leaves a status that tells
\* whether a card was found.
TypeInv ==
  /\ TypeOK
  /\ at = "setup" => status = "boot" /\ log = "none"
  /\ at # "setup" => status # "boot"

\* A log that was started in setup() has the time of the clock until the time
\* server answers: this is why the step it makes measures the error of the log.
ClockInv ==
  /\ log = "on" /\ at = "wifi" => logTime = rtc
  /\ LogFollowsClock

\* How far millis() is ahead of target_time.
Lag == (millis - target) % Wrap

\* The largest lag: the one setup() leaves, or that of a pass of loop().
MaxLag == IF SetupTime < Second THEN Second ELSE SetupTime

\* The card waits no longer than target_time lags behind, and that lag is below
\* a second whenever the search was just skipped.
SearchInv ==
  /\ at \in {"setup", "wifi"} => target = 0 /\ millis <= SetupTime /\ waited = 0
  /\ Lag <= IF at = "retry" THEN MaxLag + 1 ELSE MaxLag
  /\ CardSeenInASecond
  /\ card /\ status = "no_sd" =>
       IF at = "retry" THEN waited <= Lag
                       ELSE waited = 0 \/ (waited <= Lag /\ Lag < Second)

-----------------------------------------------------------------------------
(* Lemmas about unsigned numbers.                                          *)

\* Within its range a number is its own remainder.
LEMMA ModSmall ==
  ASSUME NEW w \in Nat \ {0}, NEW x \in 0 .. w - 1
  PROVE  x % w = x
  BY SMT

\* A negative number wraps around once.
LEMMA ModNegative ==
  ASSUME NEW w \in Nat \ {0}, NEW x \in -w .. -1
  PROVE  x % w = x + w
  BY SMT

\* So does a sum of two numbers that leaves the range.
LEMMA ModLarge ==
  ASSUME NEW w \in Nat \ {0}, NEW x \in w .. 2*w - 1
  PROVE  x % w = x - w
  BY SMT

\* A remainder is in the range.
LEMMA ModRange ==
  ASSUME NEW w \in Nat \ {0}, NEW x \in Int
  PROVE  x % w \in 0 .. w - 1
  BY SMT

\* A difference of two counters that wrap around.
LEMMA Difference ==
  ASSUME NEW w \in Nat \ {0}, NEW a \in 0 .. w - 1, NEW b \in 0 .. w - 1
  PROVE  (a - b) % w = IF b <= a THEN a - b ELSE a - b + w
<1>1. CASE b <= a
  <2>1. a - b \in 0 .. w - 1
    BY <1>1
  <2> QED
    BY <1>1, <2>1, ModSmall
<1>2. CASE ~(b <= a)
  <2>1. a - b \in -w .. -1
    BY <1>2
  <2>2. (a - b) % w = a - b + w
    BY <2>1, ModNegative
  <2> QED
    BY <1>2, <2>2
<1> QED
  BY <1>1, <1>2

\* A sum of two numbers of the range.
LEMMA Sum ==
  ASSUME NEW w \in Nat \ {0}, NEW a \in 0 .. w - 1, NEW b \in 0 .. w - 1
  PROVE  (a + b) % w = IF a + b < w THEN a + b ELSE a + b - w
<1>1. CASE a + b < w
  <2>1. a + b \in 0 .. w - 1
    BY <1>1
  <2> QED
    BY <1>1, <2>1, ModSmall
<1>2. CASE ~(a + b < w)
  <2>1. a + b \in w .. 2*w - 1
    BY <1>2
  <2>2. (a + b) % w = a + b - w
    BY <2>1, ModLarge
  <2> QED
    BY <1>2, <2>2
<1> QED
  BY <1>1, <1>2

\* The counter goes one ahead: the difference grows by one, until it wraps.
LEMMA CounterAhead ==
  ASSUME NEW w \in Nat \ {0}, w > 1, NEW a \in 0 .. w - 1, NEW b \in 0 .. w - 1,
         ((a - b) % w) + 1 < w
  PROVE  (((a + 1) % w) - b) % w = ((a - b) % w) + 1
<1> DEFINE n == (a + 1) % w
<1>1. n = IF a + 1 < w THEN a + 1 ELSE a + 1 - w
  <2>1. 1 \in 0 .. w - 1
    OBVIOUS
  <2> QED
    BY <2>1, Sum
<1>2. n \in 0 .. w - 1
  BY <1>1
<1>3. (n - b) % w = IF b <= n THEN n - b ELSE n - b + w
  BY <1>2, Difference
<1>4. (a - b) % w = IF b <= a THEN a - b ELSE a - b + w
  BY Difference
<1> HIDE DEF n
<1>5. (n - b) % w = ((a - b) % w) + 1
  BY <1>1, <1>3, <1>4
<1> QED
  BY <1>5 DEF n

\* The target goes s ahead: the difference shrinks by s, if it is that large.
LEMMA TargetAhead ==
  ASSUME NEW w \in Nat \ {0}, NEW a \in 0 .. w - 1, NEW b \in 0 .. w - 1,
         NEW s \in 0 .. w - 1, (a - b) % w >= s
  PROVE  (a - ((b + s) % w)) % w = ((a - b) % w) - s
<1> DEFINE n == (b + s) % w
<1>1. n = IF b + s < w THEN b + s ELSE b + s - w
  BY Sum
<1>2. n \in 0 .. w - 1
  BY <1>1
<1>3. (a - n) % w = IF n <= a THEN a - n ELSE a - n + w
  BY <1>2, Difference
<1>4. (a - b) % w = IF b <= a THEN a - b ELSE a - b + w
  BY Difference
<1> HIDE DEF n
<1>5. (a - n) % w = ((a - b) % w) - s
  BY <1>1, <1>3, <1>4
<1> QED
  BY <1>5 DEF n

-----------------------------------------------------------------------------
(* Types.                                                                  *)

\* The clock may be right, and a counter of millis() has 0 and 1.
LEMMA Constants ==
  /\ 0 \in Errors
  /\ Wrap \in Nat \ {0} /\ 0 \in 0 .. Wrap - 1 /\ 1 \in 0 .. Wrap - 1
  /\ Second \in 0 .. Wrap - 1 /\ Second \in Nat \ {0}
  /\ MaxLag \in Nat /\ MaxLag + 1 < Wrap
  BY TimeAssumption, ClockAssumption DEF Errors, MaxLag

\* setup_from_sd_card() leaves the types alone, and logs only with a card.
LEMMA CardTypes ==
  ASSUME TypeOK, status # "boot" \/ log = "none", SetupFromCard
  PROVE  /\ status' \in {"no_sd", "waiting_for_data"}
         /\ led' \in {"red", "green"}
         /\ log' \in {"none", "on", "off"}
         /\ log' = "on" => status' = "waiting_for_data" \/ (log = "on" /\ ~card)
         /\ rtc' \in Errors /\ logTime' \in Errors
         /\ timeFile' \in Errors \cup {NoFile, OldTime}
         /\ wifi' \in BOOLEAN /\ drifted' \in BOOLEAN
<1>1. CASE CardMissing
  BY <1>1 DEF CardMissing, TypeOK, clock
<1>2. CASE CardFound
  <2>1. rtc' \in Errors
    BY <1>2 DEF CardFound, TimeFromFile, TypeOK
  <2>2. logTime' \in Errors /\ log' \in {"on", "off"} /\ drifted' = FALSE
    BY <1>2, <2>1, Constants DEF CardFound, StartLog
  <2> QED
    BY <1>2, <2>1, <2>2 DEF CardFound, TypeOK
<1> QED
  BY <1>1, <1>2 DEF SetupFromCard

LEMMA TypeInit == Init => TypeInv
<1> SUFFICES ASSUME Init PROVE TypeInv
  OBVIOUS
<1> QED
  BY Constants DEF Init, TypeInv, TypeOK, Places

LEMMA TypeStep == TypeInv /\ [Next]_vars => TypeInv'
<1> SUFFICES ASSUME TypeInv, [Next]_vars PROVE TypeInv'
  OBVIOUS
<1> USE DEF TypeInv
<1>1. CASE UserMovesCard
  BY <1>1 DEF UserMovesCard, TypeOK, clock, Places
<1>2. CASE Tick
  <2>1. millis + 1 \in Int
    BY DEF TypeOK
  <2>2. (millis + 1) % Wrap \in 0 .. Wrap - 1
    BY <2>1, Constants, ModRange
  <2>3. /\ millis' \in 0 .. Wrap - 1
        /\ at' \in Places /\ (at' = "setup" <=> at = "setup")
        /\ waited' \in Nat
    BY <1>2, <2>2 DEF Tick, TypeOK, Places
  <2> QED
    BY <1>2, <2>3 DEF Tick, TypeOK, clock
<1>3. CASE Setup
  <2>1. /\ at = "setup" /\ SetupFromCard
        /\ at' \in {"wifi", "wait"}
        /\ UNCHANGED <<card, timing, ntpTimer>>
    BY <1>3 DEF Setup
  <2> QED
    BY <2>1, CardTypes DEF TypeOK, Places, timing
<1>4. CASE NotConnected
  BY <1>4 DEF NotConnected, TypeOK, timing, clock, Places
<1>5. CASE NtpFails
  BY <1>5 DEF NtpFails, TypeOK, timing, clock, Places
<1>6. CASE NtpSets
  <2>1. /\ log' \in {"none", "on", "off"} /\ logTime' \in Errors
        /\ drifted' \in BOOLEAN
        /\ log' = "on" => status' = "waiting_for_data"
    BY <1>6, Constants DEF NtpSets, StartLog, TypeOK
  <2> QED
    BY <1>6, <2>1, Constants DEF NtpSets, TypeOK, timing, Places
<1>7. CASE RetryCard
  <2>1. target' \in 0 .. Wrap - 1
    <3>1. (target + Second) % Wrap \in 0 .. Wrap - 1
      BY Constants, ModRange DEF TypeOK
    <3> QED
      BY <1>7, <3>1 DEF RetryCard, TypeOK
  <2>2. CASE Due /\ status = "no_sd"
    <3>1. /\ at' = "timers" /\ SetupFromCard
          /\ UNCHANGED <<card, millis, lastOff, waited, ntpTimer>>
      BY <1>7, <2>2 DEF RetryCard
    <3>2. log # "on"
      BY <2>2 DEF TypeOK
    <3> QED
      BY <2>1, <2>2, <3>1, <3>2, CardTypes DEF TypeOK, Places
  <2>3. CASE ~(Due /\ status = "no_sd")
    BY <1>7, <2>1, <2>3 DEF RetryCard, TypeOK, clock, Places
  <2> QED
    BY <2>2, <2>3
<1>8. CASE NtpTimerSets
  BY <1>8, Constants DEF NtpTimerSets, TypeOK, timing, Places
<1>9. CASE NoTimer
  BY <1>9 DEF NoTimer, TypeOK, timing, clock, Places
<1>10. CASE SerialSets
  <2>1. rtc' \in Errors
    BY <1>10 DEF SerialSets
  <2>2. /\ log' \in {"on", "off"} /\ logTime' \in Errors /\ drifted' = FALSE
        /\ log' = "on" => status' = "waiting_for_data"
    BY <1>10, <2>1, Constants DEF SerialSets, StartLog, TypeOK
  <2> QED
    BY <1>10, <2>1, <2>2 DEF SerialSets, TypeOK, timing, Places
<1>11. CASE SerialReturnsTrue
  <2>1. /\ log' \in {"on", "off"} /\ logTime' \in Errors /\ drifted' = FALSE
        /\ log' = "on" => status' = "waiting_for_data"
    BY <1>11, Constants DEF SerialReturnsTrue, StartLog, TypeOK
  <2> QED
    BY <1>11, <2>1 DEF SerialReturnsTrue, TypeOK, timing, Places
<1>12. CASE SerialReturnsFalse
  BY <1>12 DEF SerialReturnsFalse, TypeOK, timing, clock, Places
<1>13. CASE Blink
  <2>1. led' \in {"orange", "red", "green", "blue"} /\ lastOff' \in 0 .. Wrap - 1
    BY <1>13 DEF Blink, TypeOK
  <2> QED
    BY <1>13, <2>1 DEF Blink, TypeOK, clock, Places
<1>14. CASE UNCHANGED vars
  BY <1>14 DEF vars, TypeOK, timing, clock
<1> QED
  BY <1>1, <1>2, <1>3, <1>4, <1>5, <1>6, <1>7, <1>8, <1>9, <1>10, <1>11, <1>12,
     <1>13, <1>14 DEF Next, Runs

\* Types hold whatever the periods are, and lines are logged only while the
\* status says that a card was found.
THEOREM TypeCorrect == Spec => []TypeOK
<1>1. Spec => []TypeInv
  BY TypeInit, TypeStep, PTL DEF Spec
<1>2. TypeInv => TypeOK
  BY DEF TypeInv
<1> QED
  BY <1>1, <1>2, PTL

-----------------------------------------------------------------------------
(* The clock and the log.                                                  *)

\* The unsigned step the time server makes is small only when the clock was a
\* little slow: one that goes back is large.
LEMMA StepOfClock ==
  ASSUME rtc \in Errors
  PROVE  ClockStep > Minute \/ rtc \in -Minute .. 0
<1>1. Word \in Nat \ {0} /\ MaxError \in 0 .. Word - 1 /\ Minute \in Nat
  BY ClockAssumption
<1>2. CASE rtc > 0
  <2>1. 0 - rtc \in -Word .. -1
    BY <1>1, <1>2 DEF Errors
  <2>2. ClockStep = (0 - rtc) + Word
    BY <1>1, <2>1, ModNegative DEF ClockStep
  <2> QED
    BY <1>1, <2>2, ClockAssumption DEF Errors
<1>3. CASE ~(rtc > 0)
  <2>1. 0 - rtc \in 0 .. Word - 1
    BY <1>1, <1>3 DEF Errors
  <2>2. ClockStep = 0 - rtc
    BY <1>1, <2>1, ModSmall DEF ClockStep
  <2> QED
    BY <1>1, <1>3, <2>2 DEF Errors
<1> QED
  BY <1>2, <1>3

\* A log that starts now has the time of the clock.
LEMMA StartsOnTime ==
  ASSUME TypeInv', NEW t, rtc' = t, StartLog(t)
  PROVE  ClockInv'
<1>1. log' = "on" => logTime' = rtc'
  BY DEF StartLog
<1>2. rtc' \in Errors
  BY DEF TypeInv, TypeOK
<1>3. rtc' - rtc' = 0 /\ 0 \in -Minute .. Minute
  BY <1>2, ClockAssumption DEF Errors
<1> QED
  BY <1>1, <1>3 DEF ClockInv, LogFollowsClock

\* A step that leaves clock and log alone.
LEMMA ClockUnchanged ==
  ASSUME ClockInv, UNCHANGED <<log, logTime, rtc, drifted>>, at' = "wifi" => at = "wifi"
  PROVE  ClockInv'
  BY DEF ClockInv, LogFollowsClock

LEMMA ClockInit == Init => ClockInv
  BY DEF Init, ClockInv, LogFollowsClock

LEMMA ClockInvStep == TypeInv /\ ClockInv /\ [Next]_vars => ClockInv'
<1> SUFFICES ASSUME TypeInv, ClockInv, [Next]_vars PROVE ClockInv'
  OBVIOUS
<1>0. TypeInv'
  BY TypeStep
<1>1. CASE UserMovesCard
  BY <1>1, ClockUnchanged DEF UserMovesCard, clock
<1>2. CASE Tick
  BY <1>2, ClockUnchanged DEF Tick, clock
<1>3. CASE Setup
  <2>1. at = "setup" /\ log = "none"
    BY <1>3 DEF Setup, TypeInv
  <2>2. CASE CardMissing
    BY <2>1, <2>2 DEF CardMissing, clock, ClockInv, LogFollowsClock
  <2>3. CASE CardFound
    BY <1>0, <2>3, StartsOnTime DEF CardFound
  <2> QED
    BY <1>3, <2>2, <2>3 DEF Setup, SetupFromCard
<1>4. CASE NotConnected
  BY <1>4, ClockUnchanged DEF NotConnected, clock
<1>5. CASE NtpFails
  BY <1>5, ClockUnchanged DEF NtpFails, clock
<1>6. CASE NtpSets
  <2>1. at = "wifi" /\ at' = "wait" /\ rtc' = 0
    BY <1>6 DEF NtpSets
  <2>2. CASE ClockStep > Minute
    BY <1>0, <1>6, <2>1, <2>2, StartsOnTime DEF NtpSets
  <2>3. CASE ~(ClockStep > Minute)
    <3>1. rtc \in -Minute .. 0
      BY <2>3, StepOfClock DEF TypeInv, TypeOK
    <3>2. UNCHANGED <<log, logTime, drifted>>
      BY <1>6, <2>3 DEF NtpSets
    <3>3. log' = "on" => logTime' - rtc' \in -Minute .. Minute
      BY <2>1, <3>1, <3>2, ClockAssumption DEF ClockInv
    <3> QED
      BY <2>1, <3>3 DEF ClockInv, LogFollowsClock
  <2> QED
    BY <2>2, <2>3
<1>7. CASE RetryCard
  <2>1. CASE Due /\ status = "no_sd" /\ CardFound
    BY <1>0, <2>1, StartsOnTime DEF CardFound
  <2>2. CASE ~(Due /\ status = "no_sd" /\ CardFound)
    <3>1. UNCHANGED <<log, logTime, rtc, drifted>> /\ at' = "timers"
      BY <1>7, <2>2 DEF RetryCard, SetupFromCard, CardMissing, clock
    <3> QED
      BY <3>1, ClockUnchanged
  <2> QED
    BY <2>1, <2>2
<1>8. CASE NtpTimerSets
  BY <1>8 DEF NtpTimerSets, ClockInv, LogFollowsClock
<1>9. CASE NoTimer
  BY <1>9, ClockUnchanged DEF NoTimer, clock
<1>10. CASE SerialSets
  BY <1>0, <1>10, StartsOnTime DEF SerialSets
<1>11. CASE SerialReturnsTrue
  BY <1>0, <1>11, StartsOnTime DEF SerialReturnsTrue
<1>12. CASE SerialReturnsFalse
  BY <1>12, ClockUnchanged DEF SerialReturnsFalse, clock
<1>13. CASE Blink
  BY <1>13, ClockUnchanged DEF Blink, clock
<1>14. CASE UNCHANGED vars
  BY <1>14, ClockUnchanged DEF vars, clock
<1> QED
  BY <1>1, <1>2, <1>3, <1>4, <1>5, <1>6, <1>7, <1>8, <1>9, <1>10, <1>11, <1>12,
     <1>13, <1>14 DEF Next, Runs

\* The log being written starts at most a minute off the clock, also when the
\* clock is set back, as long as only the timer of the time server sets the
\* clock without restarting the log.
THEOREM LogTimeCorrect == Spec => []LogFollowsClock
<1>1. Spec => []TypeInv
  BY TypeInit, TypeStep, PTL DEF Spec
<1>2. Spec => []ClockInv
  BY <1>1, ClockInit, ClockInvStep, PTL DEF Spec
<1>3. ClockInv => LogFollowsClock
  BY DEF ClockInv
<1> QED
  BY <1>2, <1>3, PTL

-----------------------------------------------------------------------------
(* The search for a card.                                                  *)

LEMMA SearchInit == Init => SearchInv
<1> SUFFICES ASSUME Init PROVE SearchInv
  OBVIOUS
<1>1. Lag = 0
  BY Constants, Difference DEF Init, Lag
<1> QED
  BY <1>1, Constants, TimeAssumption DEF Init, SearchInv, CardSeenInASecond

\* One unit of time: the lag grows by one and does not wrap around.
LEMMA LagTicks ==
  ASSUME TypeInv, SearchInv, Tick
  PROVE  Lag' = Lag + 1 /\ Lag \in Nat
<1>1. millis \in 0 .. Wrap - 1 /\ target \in 0 .. Wrap - 1
  BY DEF TypeInv, TypeOK
<1>2. Lag \in 0 .. Wrap - 1
  BY <1>1, Constants, ModRange DEF Lag
<1>3. Lag + 1 < Wrap
  BY <1>2, Constants DEF SearchInv, Tick
<1>4. millis' = (millis + 1) % Wrap /\ target' = target
  BY DEF Tick
<1>5. (((millis + 1) % Wrap) - target) % Wrap = ((millis - target) % Wrap) + 1
  BY <1>1, <1>3, Constants, CounterAhead DEF Lag
<1> QED
  BY <1>2, <1>4, <1>5 DEF Lag

\* A step that leaves millis(), the target and the wait alone.
LEMMA SearchUnchanged ==
  ASSUME TypeInv, SearchInv, UNCHANGED <<millis, target, waited>>,
         at # "retry", at' # "retry", at' \in {"setup", "wifi"} => at \in {"setup", "wifi"},
         card' /\ status' = "no_sd" => card /\ status = "no_sd"
  PROVE  SearchInv'
<1>1. Lag' = Lag
  BY DEF Lag
<1> QED
  BY <1>1 DEF SearchInv, CardSeenInASecond

LEMMA SearchStep == TypeInv /\ SearchInv /\ [Next]_vars => SearchInv'
<1> SUFFICES ASSUME TypeInv, SearchInv, [Next]_vars PROVE SearchInv'
  OBVIOUS
<1>1. CASE UserMovesCard
  <2>1. Lag' = Lag /\ waited' = 0 /\ at' = at /\ UNCHANGED <<millis, target>>
    BY <1>1 DEF UserMovesCard, Lag
  <2>2. Lag \in Nat
    BY Constants, ModRange DEF Lag, TypeInv, TypeOK
  <2> QED
    BY <2>1, <2>2, TimeAssumption DEF SearchInv, CardSeenInASecond
<1>2. CASE Tick
  <2>1. Lag' = Lag + 1 /\ Lag \in Nat
    BY <1>2, LagTicks
  <2>2. CASE at = "wait"
    <3>1. at' = "retry" /\ UNCHANGED <<card, status, target>>
      BY <1>2, <2>2 DEF Tick
    <3>2. CASE card /\ status = "no_sd"
      <4>1. waited' = waited + 1
        BY <1>2, <2>2, <3>2 DEF Tick
      <4>2. waited' <= Lag' /\ waited' <= Second
        BY <2>1, <2>2, <3>2, <4>1, TimeAssumption DEF SearchInv, TypeInv, TypeOK
      <4> QED
        BY <2>1, <2>2, <3>1, <4>2, Constants DEF SearchInv, CardSeenInASecond
    <3>3. CASE ~(card /\ status = "no_sd")
      <4>1. waited' = 0
        BY <1>2, <2>2, <3>3 DEF Tick
      <4> QED
        BY <2>1, <2>2, <3>1, <3>3, <4>1, Constants DEF SearchInv, CardSeenInASecond
    <3> QED
      BY <3>2, <3>3
  <2>3. CASE at \in {"setup", "wifi"}
    <3>1. /\ millis < SetupTime /\ target = 0 /\ waited = 0
          /\ UNCHANGED <<at, card, status, target, waited>>
          /\ millis' = (millis + 1) % Wrap
      BY <1>2, <2>3 DEF Tick, SearchInv
    <3>2. millis' = millis + 1 /\ millis' <= SetupTime
      <4>1. millis + 1 \in 0 .. Wrap - 1
        BY <3>1, TimeAssumption DEF TypeInv, TypeOK
      <4> QED
        BY <3>1, <4>1, Constants, ModSmall, TimeAssumption DEF TypeInv, TypeOK
    <3>3. Lag' = millis'
      <4>1. millis' \in 0 .. Wrap - 1
        BY <3>1, <3>2, TimeAssumption DEF TypeInv, TypeOK
      <4>2. (millis' - 0) % Wrap = millis' - 0
        BY <4>1, Constants, Difference
      <4> QED
        BY <3>1, <4>1, <4>2 DEF Lag
    <3>4. Lag' <= MaxLag
      BY <3>2, <3>3, TimeAssumption DEF MaxLag, TypeInv, TypeOK
    <3> QED
      BY <2>3, <3>1, <3>2, <3>4 DEF SearchInv, CardSeenInASecond
  <2> QED
    BY <1>2, <2>2, <2>3 DEF Tick
<1>3. CASE Setup
  <2>1. /\ at = "setup" /\ at' \in {"wifi", "wait"} /\ SetupFromCard
        /\ UNCHANGED <<card, millis, target, waited>>
    BY <1>3 DEF Setup, timing
  <2>2. ~(card' /\ status' = "no_sd")
    BY <2>1 DEF SetupFromCard, CardMissing, CardFound
  <2> QED
    BY <2>1, <2>2, SearchUnchanged
<1>4. CASE NotConnected
  BY <1>4, SearchUnchanged DEF NotConnected, timing
<1>5. CASE NtpFails
  BY <1>5, SearchUnchanged DEF NtpFails, timing
<1>6. CASE NtpSets
  BY <1>6, SearchUnchanged DEF NtpSets, timing
<1>7. CASE RetryCard
  <2>1. at = "retry" /\ at' = "timers" /\ UNCHANGED <<card, millis, waited>>
    BY <1>7 DEF RetryCard
  <2>2. Lag \in Nat /\ Lag <= MaxLag + 1
    BY <2>1, Constants, ModRange DEF Lag, SearchInv, TypeInv, TypeOK
  <2>3. CASE Due
    <3>1. target' = (target + Second) % Wrap
      BY <1>7, <2>3 DEF RetryCard
    <3>2. (millis - ((target + Second) % Wrap)) % Wrap = ((millis - target) % Wrap) - Second
      BY <2>3, Constants, TargetAhead DEF Due, TypeInv, TypeOK
    <3>3. Lag' = Lag - Second
      BY <2>1, <3>1, <3>2 DEF Lag
    <3>4. ~(card' /\ status' = "no_sd")
      BY <1>7, <2>1, <2>3 DEF RetryCard, SetupFromCard, CardMissing, CardFound
    <3>5. Lag' <= MaxLag
      BY <2>2, <3>3, Constants
    <3> QED
      BY <2>1, <3>4, <3>5 DEF SearchInv, CardSeenInASecond
  <2>4. CASE ~Due
    <3>1. UNCHANGED <<target, status>>
      BY <1>7, <2>4 DEF RetryCard
    <3>2. Lag' = Lag /\ Lag < Second
      BY <2>1, <2>2, <2>4, <3>1, Constants DEF Lag, Due
    <3>3. Lag' <= MaxLag
      BY <2>2, <3>2, TimeAssumption DEF MaxLag
    <3> QED
      BY <2>1, <3>1, <3>2, <3>3 DEF SearchInv, CardSeenInASecond
  <2> QED
    BY <2>3, <2>4
<1>8. CASE NtpTimerSets
  BY <1>8, SearchUnchanged DEF NtpTimerSets, timing
<1>9. CASE NoTimer
  BY <1>9, SearchUnchanged DEF NoTimer, timing
<1>10. CASE SerialSets
  BY <1>10, SearchUnchanged DEF SerialSets, timing
<1>11. CASE SerialReturnsTrue
  BY <1>11, SearchUnchanged DEF SerialReturnsTrue, timing
<1>12. CASE SerialReturnsFalse
  BY <1>12, SearchUnchanged DEF SerialReturnsFalse, timing
<1>13. CASE Blink
  BY <1>13, SearchUnchanged DEF Blink
<1>14. CASE UNCHANGED vars
  <2>1. UNCHANGED <<at, card, status, millis, target, waited>>
    BY <1>14 DEF vars, timing
  <2>2. Lag' = Lag
    BY <2>1 DEF Lag
  <2> QED
    BY <2>1, <2>2 DEF SearchInv, CardSeenInASecond
<1> QED
  BY <1>1, <1>2, <1>3, <1>4, <1>5, <1>6, <1>7, <1>8, <1>9, <1>10, <1>11, <1>12,
     <1>13, <1>14 DEF Next, Runs

\* A card is noticed within a second, wherever millis() wraps around, however
\* long setup() took and whenever the card is put in.
THEOREM CardIsSeen == Spec => []CardSeenInASecond
<1>1. Spec => []TypeInv
  BY TypeInit, TypeStep, PTL DEF Spec
<1>2. Spec => []SearchInv
  BY <1>1, SearchInit, SearchStep, PTL DEF Spec
<1>3. SearchInv => CardSeenInASecond
  BY DEF SearchInv
<1> QED
  BY <1>2, <1>3, PTL
=============================================================================
