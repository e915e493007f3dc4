# CAN-Insight: models, checks and proofs

CAN-Insight is the firmware of a CAN bus logger on a Teensy: it writes every
frame of up to three buses to log files on an SD card, and uploads finished
logs over WiFi.  This directory holds TLA+ modules that model its own code
(`src/src/`, about 1700 lines), TLC configurations that check them on small
instances, and theorems checked by TLAPS.  Line numbers refer to the repository;
`PROJECT.json` maps every definition to the lines it models.

## 1. Inventory

| Part | State | Operations |
|---|---|---|
| Log numbering (`can_log.cpp`, `helpers.cpp`) | `next_log_file_number`, `first_log_file_number`, `overwriting_old_files`, `log_file_name`; four EEPROM cells; the log files and the free space of the card | constructor, `reset_log_file_numbers`, `check_sd_free_space`, `set_next_log_filename`, `start_log`, `restart_logging` |
| Write path (`can_log.cpp`, `main.cpp`) | `data_file` and its position, `write_buffer`, `no_write_file`, `log_enabled`, `log_start_millis` | `can_callback`, `write_sd_line`, `flush_sd_file`, `reopen_file` |
| Uploader (`data_uploader.cpp`, `log_file.cpp`) | `next_log_to_upload` (RAM and EEPROM), `max_log_to_upload` | constructor, `upload_data`, `upload_file`, `increment_next_log_to_upload`, `LogFileMeta` |
| Main program (`main.cpp`) | `status`, the LED times | `setup`, `setup_from_sd_card`, `loop` |
| Configuration (`config_manager.cpp`) | the values of `CONFIG.TXT` | `read_config_file`, `set_new_wifi_net` |
| WiFi (`wifi_manager.cpp`) | the saved networks | `search_and_connect`, `set_new_saved_network` |
| Clock (`time_manager.cpp`) | the RTC | `check_serial_time`, `read_time_file`, `check_set_rtc_from_wifi` |
| LED (`rgb_led.cpp`) | none | `set_led_from_status` |

Everything under `src/lib` is vendored.  FlexCAN_T4, TeensyTimerTool and the
Teensy core are not in the repository.

**How they interact.**  There is no operating system.  The *main program* runs
`setup()` and `loop()`; the *CAN interrupt* calls `can_callback()` for each
frame; a *PIT timer interrupt* calls `flush_sd_file()` once a second
(main.cpp:33, 83).  All three work on `data_file` and `write_buffer` without
any lock.  Two flags stand in for one: `log_enabled` keeps the CAN interrupt
out while `start_log()` runs, `no_write_file` sends its lines to the buffer
while a log is uploaded.  The uploader also stops the timer.  `start_log()`
runs from `setup()`, from `loop()` after the clock was set over USB, from
`setup()` after NTP, and from the CAN interrupt when a log is full.  The numbers
of the logs connect the logger with the uploader through EEPROM.

**What is hard.**

* Interleaving: an interrupt between any two steps of a flush, of
  `reopen_file()` or of `start_log()`.
* Crash and recovery: the car is switched off at any moment.  The numbers live
  in four cells that are written one by one, and the files are created and
  removed in between.
* Ordering: lines go through the buffer or around it, depending on a flag.
* Partial failure: the connection breaks in the middle of an upload, `sd.open()`
  fails, the card is full.
* Numbers at their limits: `MAX_LOG_NUMBER`, the three- and four-digit names,
  a first number that is not yet known (0).
* Termination: the search for a free name and the deletion loop may run inside
  an interrupt.

`PROJECT.json` lists the hazards at their lines, with the properties that cover
them or the reason why none does.

**What makes each part correct.**

* Log numbering: a log is never appended to by a later start; a log is removed
  only with the owner's consent; what RAM and EEPROM say agrees whenever lines
  are logged; a log that is not larger than `max_log_size` has room for the line that
  ends it and the end-of-file line; the first log number names a file;
  `start_log()` returns.
* Write path: frames are recorded in order and once; nothing is overwritten;
  what was accepted is not lost; a log begins with its header; a log ends when it
  is large enough; the buffer is emptied in the end.
* Uploader: every finished log reaches the server before it is removed or
  skipped, but for two defined ways to skip one; the server never has half a log;
  the upload ends, also while the interrupt keeps starting logs.
* Main program, clock, LED: a card is found within a second; the log in progress
  starts when the clock says it does; the LED blinks blue while a log is written.

## 2. Modules

| Module | Models |
|---|---|
| `LogStore` | the numbering, naming, removal and creation of logs, with power losses |
| `LogStore_proofs` | six theorems about `LogStore` |
| `LogClaims` | what the comments say of the numbering and the code does not do |
| `LossyFifo` | abstract: an ordered channel that may refuse frames and lose those it holds |
| `LossyFifo_proofs` | that this channel keeps the order |
| `WritePath` | interrupts and main program on the buffer and the file; implements `LossyFifo` |
| `WritePath_proofs` | six theorems about `WritePath`, the refinement among them |
| `PathClaims` | what the documentation says of the recorded frames and logs and the code does not do |
| `Delivery` | abstract: a log is forgotten by the device only when the server has it |
| `Uploader` | the uploader beside the logger; extends `LogStore`, implements `Delivery` |
| `Uploader_proofs` | two theorems about `Uploader`, the refinement among them |
| `Sent_proofs` | two theorems about what `Uploader` sends and skips without overwriting |
| `UploadClaims` | what the comments say of the uploaded logs and the code does not do |
| `Device` | `setup()`, `loop()`, the search for a card, the clock and its sources, the LED |
| `Device_proofs` | three theorems about `Device` |

### LogStore

One action is one effect that outlives a power loss: one `EEPROM.put`, one
removal, one creation, one line.  `pc` says where `start_log()` is; since it
clears `log_enabled` first, only one activity is ever inside, and `log_enabled`
is `pc = "logging"`.  `puts` holds the `EEPROM.put` calls under way in program
order: `EepromPut` does the first of them, every other step of the program waits
until none is left.  `PowerLoss` may come at any time, resets the RAM and keeps
the cells and the card; `PowerOn` is the constructor.  `Spec` also has a user who
takes single logs off the card while it is out of the device (a constant).

A file name is the pair of what `sprintf_num_to_logfile_name()` writes: position 3
of the buffer (`lead`) and the three digits behind it (`low`).  The three-digit
form leaves position 3 alone, so a buffer that once held a four-digit name keeps
its leading digit: this is modelled by passing the buffer to `SetName`.  Two
branches of `set_next_log_filename()` and `check_sd_free_space()` use two
different buffers, `name` and `delName`.

The `return;` without a value at can_log.cpp:165 is undefined behaviour: the
model lets `start_log()` take it as true or as false.

Sizes are in lines: `MinFree` is the required free space, `MaxSize` the largest
log, `Capacity` the card.  A line goes to the log in one of two ways.  `WriteLine`
is the direct one: a line that makes the log larger than `MaxSize` is followed by
the end-of-file line, and a new log begins.  `WriteBuffered` is the one of
`no_write_file`, through the buffer and `flush_sd_file()`: no size is looked at,
so the log may grow until the card is full.  `LogStore` takes either at any time,
since an upload that broke off leaves the flag set; which one it is depends on the
flag in `Uploader` and `WritePath`.  The buffer itself is `WritePath`'s subject: a
line is added here when it is flushed.  The free space is exact, while the code
rounds to clusters and kilobytes.  One put is atomic: on this processor it is a
block write of the Teensy core (EEPROM.h:147), which is not in the repository.

### WritePath

Its variables are the shared ones of the code plus the control point of the main
program (`main`).  Each step of the main program that touches shared state is an
action: the four calls of `reopen_file()`, the test, print and clearing of
`flush_sd_file()`, the steps of `upload_file()`, and the steps of `start_log()`.
Both interrupts are one action each, since they have the same priority and do
not interrupt each other; either may come between any two steps of the main
program.  The one exception is the retry of `write_sd_line()` when the file is not
open: it calls itself until the file opens, so `retrying` holds its frame and
nothing else runs (`FrameRetries`, `RetrySucceeds`).

A line has length 1 and carries its frame number and the log whose start its
time is counted from; the header is frame 0.  `Overwrite` is a write at a
position inside a file.  A print to a closed file does nothing; the position of a
closed file is 0 and a seek on it fails.  `log` holds the current log and `past`
those before it.  Which name a log gets, and why `start_log()` may refuse, is
`LogStore`'s subject: here it opens a new log or not.  Setup's card and
configuration steps are done in the initial state, in which a first log is open.

The timer fires in `WritePath` at any moment at which it runs; the last write of
the timer before `can_log_timer.stop()` takes effect is included.  The file to be
uploaded has at most `MaxChunks` chunks; reading it does not change the logger.

`LossyFifo` says what an observer of the frames sees: those held (`Held`: the
buffered ones that are not printed yet, and the one whose interrupt retries) and
those recorded, with a 0 where a log begins.  The mapping is `sent <- arrived,
pending <- Held, recorded <- Recorded`; `printed` is a history variable, the number
of buffered lines that the main program has printed and not yet cleared.  A frame that is printed but not yet cleared is recorded in the
abstract state, which is how the print and the clearing map to one step and a
stutter; a frame that arrives in between, and is cleared, maps to `LoseHeld`.

### Uploader

`Uploader` extends `LogStore`: its steps come between any two steps of the
logger, except while `start_log()` runs, which keeps the main program waiting
(`MainFree`; it does so in the interrupt, too).  `upc` follows `setup()` from the
constructor through `upload_data()` and `upload_file()`:

| Control point | Code |
|---|---|
| `off`, `connected`, `synced` | before the constructor, after it, after the log was restarted for NTP (main.cpp:151-181) |
| `ask` | the GET that asks whether the server has the log (data_uploader.cpp:143-156) |
| `connect`, `send` | the connection and the body of the POST (161-221) |
| `answer` | the status of the POST, if there is one yet (223-249) |
| `remove`, `load`, `store`, `put` | deletion, and `first_log_file_number++` with its `EEPROM.put` (232-239) |
| `count` | `increment_next_log_to_upload()` and the test of the loop (52-57, 106-126) |

The increment of the first number is a load and a store, since `start_log()` in
the interrupt changes the same number in between.  While `no_write_file` is set,
lines go through the buffer and grow the log without a look at its size
(`FlushBuffered`); an upload that breaks off leaves it set.  The result of
`upload_file()` after a failed connection is undefined, so it is both true and
false here (`ConnectReturnsTrue`, `ConnectReturnsFalse`).

`setup()` ends at `done`, at once when `wifi_enabled` is false (`WifiDisabled`);
from there `loop()` may restart the log for a time that came over USB
(`SerialRestart`), also with `no_write_file` still set.  The restart for NTP is
`ClockJumps`.  Every power-on calls `start_log()`, whatever the numbers are.

External: the server.  It stores only complete POSTs and knows a log by its name
and start time, so a new log under an old name is unknown to it
(`NewLogsUnknown`).  It answers 200 for what it has, may refuse a log, and its
answer may come too late for `available()`.  The HTTP client connects anew for
each request, so no bytes of an earlier answer are left; a request that cannot be
made ends in the timeout of `responseStatusCode()` (`AskFails`).  Writes into the
client that fail are not noticed by the code; this case is a log that is not
stored and an answer that has not come.  A status line is taken to arrive whole.

`server` holds the length each log had when it was sent; `skipped` is a history
variable with the logs that were counted although the server does not have them.
`renumbered` is another: an uploaded log was deleted, or the next log number fell,
by the wrap of can_log.cpp:181, by a search that took a number from the beginning,
or by a reset (`NumbersStartAgain`).  From then on a number may stand for two
logs, and `skipped` is emptied.

`Delivery` has three steps: a log is recorded, delivered, discarded.  The mapping
is `kept <- DOMAIN card, held <- DOMAIN server`.

### Device

One action per part of a pass of `loop()` (`RetryCard`, the timer, the serial
line, `Blink`), then `Tick`: one pass takes one unit of time, in which `millis()`
grows modulo `Wrap`; `setup()` takes up to `SetupTime` units.  All four tests of
`millis()` are translated with their unsigned arithmetic: the difference of
main.cpp:198 and the sums of lines 215 and 219, which may wrap.

The clock is represented by its error (0 is the true time): as time passes neither
the error nor that of the start time of a log changes, and NOW.TXT, the time
server and USB only move it.  The step after NTP is an unsigned difference modulo
`Word`.  `start_log()` logs or does not (a full card), never without a card;
`check_serial_time()`, which falls off its end when nothing arrives, returns true
or false.  `log` is what `start_log()` did, `drifted` a history variable for the
NTP timer of `loop()`, which sets the clock and leaves the log alone.  Which card
is in the slot changes only until one was found: nothing looks at it afterwards.

Passes of `loop()` are taken as short, one unit of time each: what a blocking read
of the serial line or an answer of the time server takes in `loop()` is not timed,
so `CardSeenInASecond` is about a loop that is not held up by them.

## 3. Runs

| Run | Checks | Bounds |
|---|---|---|
| `keep` | overwriting off, power losses, a user who takes logs away, lines with and without the size test: `TypeOK`, `NumbersPersisted`, `OnlyLogOneReopened`, `RoomForLog`, `OldestLogOnCard`, `RemovalNeedsConsent`, `StartReturns` | 3 log numbers, four-digit names from 4, logs of at most 1 line before they are ended, 3 lines of required space, 6 lines on the card, numbers to 5: 710 thousand states |
| `overwrite` | overwriting allowed or not, chosen anew at each power-on, an empty card or one with two logs: `TypeOK`, `NumbersPersisted`, `OnlyLogOneReopened`, `RoomForLog`, `RemovalNeedsConsent` | as above: 6.5 million states |
| `path_safety` | the card always ready: `TypeOK`, `FramesInOrder`, `WritesAtEnd`, `RightLog`, `LossPoints`, `IsLossyFifo`, `BufferDrains` | 4 frames, buffer of 2 lines, 3 logs of 3 lines, 2 uploads of 1 chunk: 59 thousand states |
| `path_io` | `sd.open()` may fail at any time: `TypeOK`, `LossPoints` | the same: 203 thousand states |
| `upload` | overwriting off, the network fails and the server refuses, nothing is deleted: `UploaderTypeOK`, `SentWhole`, `NothingElseSkipped`, `UploadEnds` | 3 log numbers, four-digit names from 4, 5 lines on the card, 2 of them required, numbers to 5: 2.0 million states |
| `upload_delete` | the same with logs deleted after the upload: `IsDelivery` | 2 log numbers, four-digit names from 3, 5 lines on the card, 2 of them required, numbers to 4: 10.5 million states |
| `device` | cards come and go, the clock is set from all sources: `TypeOK`, `CardSeenInASecond`, `LogFollowsClock`, `BlinksWhileLogging` | `millis()` modulo 16, a second of 5 units, LED after 5 and 6, setup up to 7; clock differences modulo 16, a minute of 1, errors up to 2: 176 thousand states |
| `claim_cleared` | can_log.cpp:169, a missing first log means a cleared card: violated | 4 log numbers, 6 lines on the card, 3 of them required |
| `claim_space` | can_log.cpp:252-256, `check_sd_free_space()` returns: violated | 3 log numbers, as `overwrite` |
| `claim_clear` | TEST.md:4, no message lost by the flush during an upload: violated | as `path_safety` |
| `claim_limit` | README.md:25, a log that is too large is followed by a new one: violated | logs of 1 line, 5 frames, 1 upload |
| `claim_open` | can_log.cpp:82, the log being written is not uploaded, without overwriting and without deletion: violated | 3 log numbers, 8 lines on the card, 3 of them required, numbers to 6 |

**Why the bounds are enough.**  In `LogStore`, three numbers are the fewest with a
first, a middle and a last one; four-digit names begin right after the last
number, which is where the code meets them (number 1000 after 999).  Three lines
are the least required space for which `MinFree > MaxSize + 1`; a card of six
lines is full by space with two or three logs on it, and by numbers when logs
are taken away and numbers are tried whose file failed to be created.  `NumBound`
lets the numbers go two past `MaxLog`, where the wrap-around and the reset of the
constructor apply; it bounds rotations and restarts, never a power-on.
No run needs symmetry: the numbers are ordered.  In
`WritePath`, two uploads are needed for one that breaks off to follow one that
succeeds, three logs for a rotation to follow a restart, and four frames to fill
the buffer, overflow it and write once more.  One chunk gives both calls of
`reopen_file()`, the one between chunks and the last one.

In `upload`, three log numbers are two finished logs beside the open one: the
pointer passes a log that was sent, or one that was skipped, while another is
still to come.  The numbers wrap around and are reset, so the run also enters the
rounds after the first.  A card of five lines, with two required, has room for a
log that follows one ended for its size.  In `upload_delete`, two numbers are
enough for a log to take the name of a deleted one that the uploader still points
past, and deletions make room for it.  In `device`, `millis()` wraps after three seconds, `setup()`
takes longer than a second (so `target_time` lags more than one behind) and the
errors of the clock lie on both sides of a minute, in both directions.

**What the passing runs show.**  The order of the effects in `start_log()` is
sound for everything but the first number: after any power loss the stored
numbers belong together once lines are logged again, no log gets a second header
except log 1 (which a reset starts again by design), and nothing is removed
by the logger without consent, not even through the shortcut that does not look at the
configuration.  `WritesAtEnd` shows that stopping the timer and buffering the
frames is enough to protect `reopen_file()`; were the timer left running, its
flush between the reading and the seeking of the position would be overwritten.  `LossPoints` names the only places where a frame that was
accepted can be lost: the clearing in `flush_sd_file()`, a file that is not open,
and a write position inside the file.

The uploader keeps its promise to the server's owner: `IsDelivery` holds through
power losses between any two steps, deletions, and logs that take the names of
deleted ones.  Without deletions, and until the numbers start again, the order in which
`increment_next_log_to_upload()` stores and tests is harmless (`SentWhole`,
`NothingElseSkipped`): a number above the limit is never used, because the
constructor goes back to 1 whenever it finds one.  (That reset is also the answer
to the question at data_uploader.cpp:79, why a file is uploaded twice: after a
complete upload the next number is stored above the limit, the next power-on
starts at 1 again, and only the GET request keeps the logs from being sent anew.)
`CardSeenInASecond` shows that the comparison of main.cpp:198 survives the wrap
and a late start; `LogFollowsClock` that a clock set back, whose unsigned
difference is huge, restarts the log as one set forward does.

**What the claims show.**

* `claim_cleared`: on a card that is full by space, a power loss between the
  removal of the oldest log (283) and the store of the new first number (289) makes
  the next start reset all numbers on a card that is not empty.  The removal of
  line 234 leaves the same window until the put of 238.
* `claim_space`: after a four-digit name was formatted, later logs get names the
  deletion loop never forms; it wraps around for ever, possibly in the interrupt.
* `claim_clear`: a frame that is buffered between the print and the clearing of
  the flush at data_uploader.cpp:206 is lost.
* `claim_limit`: after an upload that broke off `no_write_file` stays true, and
  the path that looks at the size is never taken again.
* `claim_open`: a power loss after the put of the next number and before the file
  is created leaves a number without a file.  After the last number the search
  takes that number for a log that NTP restarts, while the limit the uploader
  read is above it, so `upload_data()` sends that log while it grows.  With
  overwriting it already happens when a rotation overwrites log 1 before the
  uploader is constructed: the pointer is reset to 1, which equals the limit.

Met while modelling, without a run of their own:

* A refused log whose answer is not there yet when `available()` is asked counts
  as uploaded and is not tried again until the numbers start anew
  (data_uploader.cpp:223, 244-249).
* A card that holds every number gets a further log, number 1000 after 999, or
  log 1 again after a reset, where README.md:90 says that no further logging
  occurs after the last number (there 9999; config.h:17 has 999): the missing wrap
  test behind `claim_space` (can_log.cpp:202).
* Deletion counts the first number up to one that may name no log
  (data_uploader.cpp:233-239): when log 2 failed to open, log 3 is open and log 1
  is deleted, the first number is 2, and the next start resets the numbers on a
  card that is not empty.
* The lines an upload that broke off leaves in the buffer are printed by the timer
  in front of the next log's header (README.md:92 says the header is the first
  line): the flag behind `claim_limit`.
* The timer flush between `close()` and `open()` (can_log.cpp:80-81) drops the
  buffer; after a failed reopening the next `reopen_file()` seeks to 0 and the
  header is overwritten.
* `check_serial_time()` has no return value when nothing arrives; taken as true,
  `loop()` restarts the log in every pass (main.cpp:206-211).
* `get_current_log_count()` subtracts the wrong way round; nothing calls it.
* After an uploaded log was deleted, or once the numbers start again, `SentWhole`
  and `NothingElseSkipped` do not hold, which is why both say so in their guard
  (`renumbered`).  With deletion, a rotation between the removal and
  `first_log_file_number++`, or an `open()` that fails, resets the numbering; the
  next log starts below the pointer of the uploader, and the open log may be sent.
  Without deletion it takes what `claim_open` shows.
* `loop()` shows green and blue whatever the status is (main.cpp:214-221): the red
  of a missing card (README.md:52, 79) lasts until the first blink, and the orange
  of a full card (README.md:81) is replaced by green before `setup()` ends.  So no
  property asks anything of the LED when no log is written; `BlinksWhileLogging`
  is about the blue of a log that is.
* The NTP timer of `loop()` sets the clock without restarting the log; a card that
  is put in after power-on never enables WiFi; the search for a network ends at
  the first known network that does not answer.

**Fairness.**  `LogStore!FairSpec`: once `start_log()` is entered the processor
executes it (`WF_vars(RunsOn)`); frames, the user and the power come and go as
they like.  `WritePath!FairSpec`: the main program does not stop in the middle of
an upload or a restart (`WF_vars(MainRuns)`), and a running timer fires
(`WF_vars(TimerFlush)`).  Nothing is assumed of frames, uploads or the clock, and
nothing of a card that does not open (`BufferDrains` is checked with
`IOErrors = FALSE`).  `Uploader!UploaderFairSpec`: the processor executes
`upload_data()` and `start_log()`; this holds because every wait of the HTTP
client ends by a timeout.  A step of the network may always be the failure.
`Device!Spec`: the program runs and time passes.  Deadlock is checked in every
run; `LoopIdles` is the pass of `loop()` that finds nothing to do.

## 4. Proofs

All theorems hold for every value of the constants that the assumptions in the
modules allow, and for any number of logs, starts and power losses.

| Theorem | States | Strengthening |
|---|---|---|
| `TypeCorrect` | `Spec => []TypeOK` | `TypeInv`: the next number is at least 1 while the device is on, and pending puts hold naturals. Without it `next - 1` could leave the naturals |
| `RemovalConsent` | `Spec => RemovalNeedsConsent` | `ConsentInv`: `overwriting_old_files` is only ever set in a power cycle whose configuration allows overwriting, and RAM does not outlive the cycle |
| `Persistence` | `Spec => []NumbersPersisted` | `PersistInv`: with the pending puts applied, the first number agrees with RAM whenever the device is on, the next number from `open` on, the upload limit from `header` on |
| `NoSecondHeader` | `Spec => []OnlyLogOneReopened` | `ReopenInv`: at `open` and `header` the name is that of a file without a header, or its number is 1 |
| `RoomWhileLogging` | `MinFree > MaxSize + 1`: `Spec => []RoomForLog` | `SpaceInv`: from the check to the header `MinFree` lines are free; afterwards free space and the size of the log in progress add up to as much, also for lines that go through the buffer. A log that is not larger than `MaxSize` then leaves room for the line that ends it and the end-of-file line |
| `OldestLogStays` | `Configs = {FALSE} /\ MaxLog < Erased => (Spec => []OldestLogOnCard)` | `OldestInv`: without overwriting the first number is 0 or 1 in RAM, in EEPROM and on its way there, and a name buffer holds a four-digit name only when log 1 exists |
| `TypeCorrect` (`Device_proofs`) | `Spec => []TypeOK` | `TypeInv`: in `setup()` nothing was started yet, and `setup()` leaves a status that tells whether a card was found |
| `LogTimeCorrect` | `Spec => []LogFollowsClock` | `ClockInv`: a log started in `setup()` has the time of the clock until the time server answers, so the step it makes measures the error of the log. Lemma `StepOfClock`: the unsigned difference is small only for a clock that was a little slow |
| `CardIsSeen` | `Spec => []CardSeenInASecond` | `SearchInv`: the unsigned lag of `target_time` is at most the longer of a second and `setup()`, a card waits no longer than that lag, and when it waits outside of the test the lag is below a second. Lemmas `CounterAhead`, `TargetAhead`: how the lag changes when either side wraps |
| `Delivers` | `Configs = {FALSE}`: `UploaderSpec => IsDelivery` | `DeliveryInv`: a log under upload is on the card, is unknown to the server until it is sent, and is known when it is removed. Lemmas `StartGrows`, `LoggerGrows`: without overwriting the logger removes nothing |
| `UploaderTypeCorrect` | `UploaderSpec => []UploaderTypeOK` | `UpTypeInv`: with `LogStore`'s `TypeInv`. Lemma `NextLogName`: writing the next number into the name of a log gives the name of the next log, with three digits or four |
| `SentLogsWhole` | `NoOverwriting`: `UploaderSpec => []SentWhole` | `SentInv`, with `DeliveryInv` and `UpTypeInv`; see below |
| `UploadResumes` | `NoOverwriting`: `UploaderSpec => []NothingElseSkipped` | `SentInv`: the logs below the number in EEPROM are at the server or counted, and that number is the uploader's own while it works. Lemma `ErasedHasNoFile`: a cell that was never written names no log |
| `FifoInOrder` | `LossyFifo`: `Spec => []InOrder` | `IInv`: recorded and held frames together ascend and are at most `sent`. Lemma `InsertBegin`: the beginning of a log changes no order |
| `TypeCorrect` (`WritePath_proofs`) | `Spec => []TypeOK` | `TypeInv` with `ControlInv`: what the main program has arranged at each of its steps (flag set, timer stopped, logging disabled, saved position inside the file). Without the last the seek could leave the file |
| `RightLogAlways` | `Spec => []RightLog` | `BaseInv`: before any upload the buffer is empty, and time base and log differ only at `header`, where no interrupt logs |
| `WritesGoToTheEnd` | `IOErrors = FALSE => (Spec => []WritesAtEnd)` | `EndInv`: the file is closed only between the steps of `reopen_file()` and of `start_log()`, the saved position is the end of the file there, and nobody else writes |
| `LostAtLossPoints` | `Spec => LossPoints` | `TypeInv`. Lemmas `FramesOfConcat`, `WriteKeeps`: a write at the end of a file keeps all frames |
| `ImplementsLossyFifo` | `IOErrors = FALSE`: `Spec => IsLossyFifo` | `TypeInv`, `EndInv`. Lemmas `NumbersOfConcat`, `RestOfAppend`, `FifoStep`: each action is the abstract step that section 2 describes, or a stutter |
| `FramesAlwaysInOrder` | `IOErrors = FALSE => (Spec => []FramesInOrder)` | `FifoInOrder` under the refinement mapping |

Each proof has the initial condition, one lemma for the step with one case per
action, and a last temporal step.  TLC checked each property first.  The
hypotheses name what the configuration has to satisfy: the code's 1.5 times gives
`MinFree > MaxSize + 1`, except for logs of a few kilobytes, where the integer
division by 1000 makes it too small (0 below 1000 bytes); `Configs = {FALSE}` is
`overwrite_logs = false`.  `Device`'s theorems use `TimeAssumption` and
`ClockAssumption`: a second, the LED times and the duration of `setup()` are
shorter than the period of `millis()` (49 days), a minute and the error of the
clock shorter than that of the clock (136 years).

`IOErrors = FALSE`, a card that is always ready, is the configuration of
`path_safety`.  It is needed: after a failed reopening the saved position is 0 and
the next line goes over the header, so neither the end nor the order holds then;
what can still be said is `LostAtLossPoints`, which has no hypothesis.

`Delivers` has its hypothesis because with overwriting the logger itself may
remove a log the server does not have, with the owner's consent
(`RemovalConsent`).

`SentInv` holds until `renumbered`.  `NamesInv`: names have
three digits.  `CountedInv`: what lies below the pointer is settled, and the server
has each log as it is on the card.  `StageInv`: a device is in one of three stages,
which is where the order of the pointer, the limit and the next number comes from.

* `FullInv`: the card has no room, nothing is logged.
* `YoungLogger`, `YoungUploader`: the first number is still 0 in EEPROM (or the cell
  is erased) and `start_log()` resets the numbers again after each power loss; the
  limit is then 0 and the uploader finds nothing to do.  No reset can follow once
  the put of the first number is done.
* `GrownLogger`, `GrownUploader`: that number is 1 for good and the next number only
  grows, in EEPROM and in RAM, the former never ahead of the latter.  The log being
  written carries the number before it (`LogBefore`), and the pointer and the limit
  of the uploader, in RAM and in EEPROM, lie below that number.

No weaker invariant was found to be inductive: a limit below the open log in RAM
says nothing after a power loss unless the cells are ordered too, and the cells are
not ordered while the puts of a reset are on their way.  TLC checked `SentInv`
with the constants of `upload`.

`NoOverwriting` says what the two theorems are about: no overwriting, and an erased
cell is larger than every log number.  The rest is in the guard of the properties,
`~renumbered`: they hold for any first card and any number of power losses and
restarts, until an uploaded log was deleted or the numbers start again.  The guard
is needed, as `claim_open` shows (can_log.cpp:82); without deletion the device has
to come to its last number, 999, on one card for this.

Only model-checked: liveness (`StartReturns`, `BufferDrains`, `UploadEnds`,
`BlinksWhileLogging`), which is out of the prover's reach.

## 5. Not modelled

* Contents of lines, JSON and HTTP text, the brightness of the LED, serial output:
  wording and I/O.
* The configuration manager and the list of saved networks: both are filled once
  from CONFIG.TXT and then only read.  What depends on them is a choice in the
  models (`overwrite_logs`, `delete_uploaded_logs`, `wifi_enabled`, whether a known
  network is reached) or a constant (`max_log_size`); parsing has no control that
  the properties could tell apart.
* An `EEPROM.put` that is torn by a power loss, an interrupt inside a library call
  on the same card, the clusters of the card (a removed log that is still open):
  each would need code that is not in the repository or the inside of a file
  system.
* `test_can.cpp` is commented out; `cycle_rgb_led()`, `test_get_route()` and
  `get_current_log_count()` are not called; `testing/create_logs.py` makes files
  for manual tests.
* The vendored libraries under `src/lib` (SdFat, WiFi101, ArduinoHttpClient,
  ArduinoJson, EEPROM, SPI, Time): 86 thousand of the repository's 88 thousand
  lines.  They are third-party code with a life of their own; the models translate
  the calls the program makes (`FatFile::write`, `FsBaseFile::open` and `write`,
  the requests of `HttpClient` and their failures) and leave the rest out.

## 6. Plan

Done: every part of `src/src/` whose state changes under interleaving, failure or
time, and a theorem for each safety invariant and each action property of the
passing runs.  What remains:

1. `Sent_proofs` once the numbers start again: which logs stay whole when the
   search finds a hole, as an invariant weaker than `SentWhole`.
2. `Delivery` with overwriting: the abstract device may also forget a log when the
   configuration consents, so that `Delivers` loses its hypothesis.
