------------------------------ MODULE LogStore ------------------------------
(***************************************************************************)
(* The log files of the CAN logger: which file SD_CAN_Logger writes, how   *)
(* it numbers them, and what survives a power loss (src/can_log.cpp).      *)
(*                                                                         *)
(* The logger keeps two numbers, the oldest log and the next log to use,   *)
(* in RAM and in four EEPROM cells.  start_log() frees space on the card,  *)
(* picks a file name, opens the file and writes its header.  One step of   *)
(* this module is one effect that outlives a power loss: an EEPROM.put, a  *)
(* removal, the creation of a file, a line written.  PowerLoss may come    *)
(* between any two of them.                                                *)
(*                                                                         *)
(* start_log() runs from setup(), from loop() and from the CAN interrupt.  *)
(* It clears log_enabled first, so the interrupt's guard keeps a second    *)
(* activation out while one runs: a single control variable is enough, and *)
(* log_enabled is pc = "logging".                                          *)
(***************************************************************************)
EXTENDS Integers, Sequences, FiniteSets

CONSTANTS
  MaxLog,       \* MAX_LOG_NUMBER, the largest log number
  NameBase,     \* 1000: numbers from here on need the four-digit name
  MaxSize,      \* max_log_size, in lines
  MinFree,      \* min_free_space, in lines
  Capacity,     \* what an empty card holds, in lines
  Configs,      \* the values of overwrite_logs that config.txt may give
  InitialLogs,  \* how many logs the card may hold when the device is new
  UserDeletes,  \* whether the user takes single logs off the card
  NumBound      \* bound: no log is started once a number reached this

ASSUME NumberAssumption ==
  /\ MaxLog \in Nat \ {0}
  /\ NameBase \in Nat /\ NameBase > MaxLog
  /\ NumBound \in Nat

ASSUME SpaceAssumption ==
  /\ MaxSize \in Nat \ {0}
  /\ MinFree \in Nat
  /\ Capacity \in Nat

\* A log that was ended for its size: the line that made it too large and the
\* end-of-file line come on top.
FullLog == MaxSize + 2

ASSUME CardAssumption ==
  /\ Configs \subseteq BOOLEAN /\ Configs # {}
  /\ InitialLogs \subseteq 0 .. MaxLog
  /\ \A n \in InitialLogs : n * FullLog <= Capacity
  /\ UserDeletes \in BOOLEAN

VARIABLES
  pc,           \* where the logger is: see Control
  next, first,  \* next_log_file_number, first_log_file_number (RAM)
  overwriting,  \* overwriting_old_files
  overwrite,    \* config->overwrite_logs
  name,         \* log_file_name, the buffer the logger formats names into
  delName,      \* log_file_to_delete, a local buffer of check_sd_free_space
  toTry,        \* log_file_to_try, a local of set_next_log_filename
  puts,         \* the EEPROM.put calls under way, in program order
  ee,           \* the EEPROM cells
  card,         \* the log files: their size and the headers in them, in lines
  free          \* free space on the card, in lines

ram  == <<next, first, overwriting, overwrite, name, delName, toTry>>
disk == <<card, free>>
vars == <<pc, ram, puts, ee, disk>>

Control == {"off", "idle", "space", "pick", "search", "open", "header",
            "logging", "stopped"}
\* The control points inside start_log().
Starting == {"space", "pick", "search", "open", "header"}

Cells  == {"next", "first", "upNext", "upMax"}
Erased == 65535   \* a uint16_t cell that was never written

(***************************************************************************)
(* File names.  sprintf_num_to_logfile_name writes the digits of a number  *)
(* into a name buffer: four of them from position 3 for a number above     *)
(* 999, else three from position 4, which leaves position 3 as it was.     *)
(* A name is that leading character (0 for the '_' of the default name)    *)
(* and the three digits after it.                                          *)
(***************************************************************************)
FileNames   == [lead : Nat, low : Nat]
DefaultName == [lead |-> 0, low |-> 0]

SetName(n, buf) ==
  IF n >= NameBase THEN [lead |-> n \div NameBase, low |-> n % NameBase]
                   ELSE [buf EXCEPT !.low = n]

\* The file that carries number n when its name is formatted from scratch.
LogFile(n) == SetName(n, DefaultName)

Exists(f) == f \in DOMAIN card
SizeOf(f) == IF Exists(f) THEN card[f].size ELSE 0

\* sd.remove(f)
Remove(f) ==
  /\ card' = [g \in DOMAIN card \ {f} |-> card[g]]
  /\ free' = free + SizeOf(f)

\* What the card takes of n more lines; a print to a full card writes nothing.
Room(n) == IF n <= free THEN n ELSE free

Put(c, v) == [cell |-> c, val |-> v]

\* Mutants of the two operators below: a number is not stored.
StoreNothing(n)      == << >>
StoreNextOnly(n, f)  == << Put("next", n) >>

StoreNext(n)    == << Put("next", n) >>
StoreBoth(n, f) == << Put("next", n), Put("first", f) >>

-----------------------------------------------------------------------------
(* Power, EEPROM and the user's hands on the card.                         *)

ResetPuts == << Put("next", 1), Put("first", 0), Put("upNext", 1), Put("upMax", 0) >>

\* Mutant of ResetNumbers: the next number starts at 0.
ResetNumbersToZero ==
  /\ next' = 0 /\ first' = 0
  /\ puts' = ResetPuts

\* reset_log_file_numbers()
ResetNumbers ==
  /\ next' = 1 /\ first' = 0
  /\ puts' = ResetPuts

\* A new device: erased EEPROM, a card with no logs or with the logs 1..n.
Init ==
  /\ pc = "off" /\ puts = << >>
  /\ next = 0 /\ first = 0 /\ toTry = 0
  /\ overwriting = FALSE /\ overwrite = FALSE
  /\ name = DefaultName /\ delName = DefaultName
  /\ ee = [c \in Cells |-> Erased]
  /\ \E n \in InitialLogs :
       /\ card = [f \in {LogFile(k) : k \in 1 .. n} |->
                    [size |-> FullLog, headers |-> 1]]
       /\ free = Capacity - n * FullLog

\* The constructor reads the numbers back and resets them when out of range.
PowerOn ==
  /\ pc = "off"
  /\ pc' = "idle"
  /\ IF ee["next"] > MaxLog \/ ee["first"] > MaxLog
       THEN ResetNumbers
       ELSE next' = ee["next"] /\ first' = ee["first"] /\ puts' = << >>
  /\ UNCHANGED <<overwriting, overwrite, name, delName, toTry, ee, disk>>

PowerLoss ==
  /\ pc # "off"
  /\ pc' = "off" /\ puts' = << >>
  /\ next' = 0 /\ first' = 0 /\ toTry' = 0
  /\ overwriting' = FALSE /\ overwrite' = FALSE
  /\ name' = DefaultName /\ delName' = DefaultName
  /\ UNCHANGED <<ee, disk>>

\* The next EEPROM.put of the calls under way.
EepromPut ==
  /\ puts # << >>
  /\ ee' = [ee EXCEPT ![Head(puts).cell] = Head(puts).val]
  /\ puts' = Tail(puts)
  /\ UNCHANGED <<pc, ram, disk>>

\* With the device off the user deletes a log from the card.
UserDeletesLog ==
  /\ UserDeletes
  /\ pc = "off"
  /\ \E f \in DOMAIN card : Remove(f)
  /\ UNCHANGED <<pc, ram, puts, ee>>

-----------------------------------------------------------------------------
(* Entering start_log().                                                   *)

EnterStartLog ==
  /\ pc' = "space"
  /\ delName' = LogFile(first)

Bounded == next < NumBound /\ first < NumBound

\* setup_from_sd_card(): the card answers, config.txt is read, start_log().
StartAtBoot ==
  /\ pc = "idle"
  /\ overwrite' \in Configs
  /\ EnterStartLog
  /\ UNCHANGED <<next, first, overwriting, name, toTry, puts, ee, disk>>

\* restart_logging() from the main program, after the clock was set.
RestartLogging ==
  /\ pc \in {"logging", "stopped"}
  /\ Bounded
  /\ EnterStartLog
  /\ UNCHANGED <<next, first, overwriting, overwrite, name, toTry, puts, ee, disk>>

-----------------------------------------------------------------------------
(* check_sd_free_space()                                                   *)

\* Mutants: the header is forgotten; the configuration is not looked at.
HasSpaceForLines == free >= MaxSize
MayAlwaysRemove  == TRUE

HasSpace  == free >= MinFree
MayRemove == overwrite

SpaceEnough ==
  /\ pc = "space" /\ HasSpace
  /\ pc' = "pick"
  /\ delName' = DefaultName
  /\ UNCHANGED <<next, first, overwriting, overwrite, name, toTry, puts, ee, disk>>

SpaceDenied ==
  /\ pc = "space" /\ ~HasSpace /\ ~MayRemove
  /\ pc' = "stopped"
  /\ delName' = DefaultName
  /\ UNCHANGED <<next, first, overwriting, overwrite, name, toTry, puts, ee, disk>>

NextOldest(n) == IF n + 1 > MaxLog THEN 1 ELSE n + 1

\* Remove the oldest log and go round the loop with the next oldest one.
DeleteOldest ==
  /\ pc = "space" /\ ~HasSpace /\ MayRemove
  /\ Remove(delName)
  /\ first' = NextOldest(first)
  /\ puts' = << Put("first", first') >>
  /\ delName' = SetName(first', delName)
  /\ UNCHANGED <<pc, next, overwriting, overwrite, name, toTry, ee>>

-----------------------------------------------------------------------------
(* set_next_log_filename()                                                 *)

Shortcut == overwriting /\ next = first

\* The oldest log is overwritten.  The function then leaves through a
\* "return;" without a value: what start_log() makes of it is open.
PickOverwriting ==
  /\ pc = "pick" /\ Shortcut
  /\ name' = SetName(next, name)
  /\ Remove(name')
  /\ next' = next + 1 /\ first' = first + 1
  /\ puts' = StoreBoth(next', first')
  /\ pc' \in {"open", "stopped"}
  /\ UNCHANGED <<overwriting, overwrite, delName, toTry, ee>>

\* The buffer after the name of the first log was formatted into it.
FirstName == SetName(first, name)

\* Mutant: a missing first log goes unnoticed.
FirstAlwaysOnCard == TRUE

FirstOnCard == Exists(FirstName)

\* The first log is missing: the card is taken to be cleared.
PickReset ==
  /\ pc = "pick" /\ ~Shortcut /\ ~FirstOnCard
  /\ ResetNumbers
  /\ name' = SetName(1, FirstName)
  /\ pc' = "open"
  /\ UNCHANGED <<overwriting, overwrite, delName, toTry, ee, disk>>

\* next_log_file_number after the wrap-around test
Wrapped  == IF next > MaxLog THEN 1 ELSE next
NextName == SetName(Wrapped, FirstName)

\* Mutant: the number is used whether its file exists or not.
NextNeverTaken == FALSE

NextTaken == Exists(NextName)

PickNext ==
  /\ pc = "pick" /\ ~Shortcut /\ FirstOnCard /\ ~NextTaken
  /\ name' = NextName
  /\ next' = Wrapped + 1
  /\ puts' = StoreNext(next')
  /\ pc' = "open"
  /\ UNCHANGED <<first, overwriting, overwrite, delName, toTry, ee, disk>>

\* The file exists: look for a free number from the one after it.
PickSearch ==
  /\ pc = "pick" /\ ~Shortcut /\ FirstOnCard /\ NextTaken
  /\ name' = NextName
  /\ next' = Wrapped
  /\ toTry' = Wrapped + 1
  /\ pc' = "search"
  /\ UNCHANGED <<first, overwriting, overwrite, delName, puts, ee, disk>>

TryName == SetName(toTry, name)
NextTry == IF toTry + 1 > MaxLog THEN 1 ELSE toTry + 1

\* Mutant: the search does not stop at the first log.
NeverBack == FALSE

BackAtFirst == NextTry = first

SearchFound ==
  /\ pc = "search" /\ ~Exists(TryName)
  /\ name' = TryName
  /\ next' = toTry + 1
  /\ puts' = StoreNext(next')
  /\ pc' = "open" /\ toTry' = 0
  /\ UNCHANGED <<first, overwriting, overwrite, delName, ee, disk>>

SearchOn ==
  /\ pc = "search" /\ Exists(TryName) /\ ~BackAtFirst
  /\ name' = TryName
  /\ toTry' = NextTry
  /\ UNCHANGED <<pc, next, first, overwriting, overwrite, delName, puts, ee, disk>>

\* Every number is taken and overwriting is allowed: the oldest log goes.
SearchOverwrite ==
  /\ pc = "search" /\ Exists(TryName) /\ BackAtFirst /\ MayRemove
  /\ name' = SetName(first, TryName)
  /\ Remove(name')
  /\ first' = first + 1 /\ next' = first + 1
  /\ puts' = StoreBoth(next', first')
  /\ overwriting' = TRUE
  /\ pc' = "open" /\ toTry' = 0
  /\ UNCHANGED <<overwrite, delName, ee>>

SearchFull ==
  /\ pc = "search" /\ Exists(TryName) /\ BackAtFirst /\ ~MayRemove
  /\ name' = TryName
  /\ pc' = "stopped" /\ toTry' = 0
  /\ UNCHANGED <<next, first, overwriting, overwrite, delName, puts, ee, disk>>

-----------------------------------------------------------------------------
(* The rest of start_log(), and the lines of the log.                      *)

\* sd.open(log_file_name, FILE_WRITE) creates the file or appends to it, or
\* fails; the last log to upload is recorded either way.
OpenLog ==
  /\ pc = "open"
  /\ card' = IF Exists(name) THEN card
             ELSE [f \in DOMAIN card \cup {name} |->
                     IF f = name THEN [size |-> 0, headers |-> 0] ELSE card[f]]
  /\ puts' = << Put("upMax", next - 1) >>
  /\ pc' = "header"
  /\ UNCHANGED <<ram, ee, free>>

OpenFails ==
  /\ pc = "open"
  /\ puts' = << Put("upMax", next - 1) >>
  /\ pc' = "stopped"
  /\ UNCHANGED <<ram, ee, disk>>

\* The header is written and flushed and log_enabled is set.
WriteHeader ==
  /\ pc = "header"
  /\ card' = [card EXCEPT ![name] = [size |-> @.size + Room(1),
                                       headers |-> @.headers + Room(1)]]
  /\ free' = free - Room(1)
  /\ pc' = "logging"
  /\ IF first = 0 THEN first' = 1 /\ puts' = << Put("first", 1) >>
                  ELSE UNCHANGED <<first, puts>>
  /\ UNCHANGED <<next, overwriting, overwrite, name, delName, toTry, ee>>

\* n lines are added to the log being written.
Grow(n) ==
  /\ card' = [card EXCEPT ![name].size = @ + Room(n)]
  /\ free' = free - Room(n)

TooLarge == SizeOf(name) + Room(1) > MaxSize

\* write_sd_line(): a line that makes the file too large ends the log with
\* the end-of-file line and starts the next one.  The interrupt may bring
\* lines while start_log() still stores the first log number; that they fill
\* a whole log before the store is done is left out.
WriteLine ==
  /\ pc = "logging"
  /\ IF TooLarge THEN Grow(2) /\ puts = << >> /\ Bounded /\ EnterStartLog
                 ELSE Grow(1) /\ UNCHANGED <<pc, delName>>
  /\ UNCHANGED <<next, first, overwriting, overwrite, name, toTry, puts, ee>>

\* With no_write_file set a line goes to the buffer, and flush_sd_file() adds
\* it to the log without a look at its size.  Which of the two a line does is
\* up to the uploader: module Uploader.
WriteBuffered ==
  /\ pc = "logging"
  /\ Grow(1)
  /\ UNCHANGED <<pc, ram, puts, ee>>

-----------------------------------------------------------------------------
\* What the processor does by itself once start_log() was entered.
InStartLog ==
  \/ SpaceEnough \/ SpaceDenied \/ DeleteOldest
  \/ PickOverwriting \/ PickReset \/ PickNext \/ PickSearch
  \/ SearchFound \/ SearchOn \/ SearchOverwrite \/ SearchFull
  \/ OpenLog \/ OpenFails \/ WriteHeader

Step ==
  /\ puts = << >>
  /\ InStartLog \/ StartAtBoot \/ RestartLogging

Next ==
  EepromPut \/ Step \/ WriteLine \/ WriteBuffered
    \/ PowerOn \/ PowerLoss \/ UserDeletesLog

Spec == Init /\ [][Next]_vars

\* The processor keeps executing start_log(); nothing else is promised:
\* frames, the user and the power come and go as they like.
RunsOn == EepromPut \/ (puts = << >> /\ InStartLog)

FairSpec == Spec /\ WF_vars(RunsOn)

-----------------------------------------------------------------------------
(* Properties.                                                             *)

\* Types, and the idle values of a device without power.
TypeOK ==
  /\ pc \in Control
  /\ next \in Nat /\ first \in Nat /\ toTry \in Nat
  /\ overwriting \in BOOLEAN /\ overwrite \in BOOLEAN
  /\ name \in FileNames /\ delName \in FileNames
  /\ puts \in Seq([cell : Cells, val : Nat])
  /\ ee \in [Cells -> Nat]
  /\ DOMAIN card \subseteq FileNames
  /\ card \in [DOMAIN card -> [size : Nat, headers : Nat]]
  /\ free \in Nat

\* The logger removes a log only when config.txt allows overwriting: neither
\* the free-space loop, nor the search, nor the overwriting shortcut, which
\* does not look at the configuration, removes one otherwise.
RemovalNeedsConsent ==
  [][pc # "off" /\ ~(DOMAIN card \subseteq DOMAIN card') => overwrite]_vars

\* Whenever lines are being logged, a power loss finds the numbers of RAM in
\* EEPROM, and the upload limit that belongs to them.
NumbersPersisted ==
  pc = "logging" /\ puts = << >> =>
    /\ ee["next"] = next
    /\ ee["first"] = first
    /\ ee["upMax"] = next - 1

\* A log is never appended to by a later start_log(), and so has one header,
\* unless its number is 1, the one a reset starts with.
OnlyLogOneReopened ==
  \A f \in DOMAIN card : card[f].headers <= 1 \/ f.low = 1

\* check_sd_free_space() leaves room for a whole log: as long as the log is not
\* larger than max_log_size, the card takes the line that ends it and the
\* end-of-file line, also in a log 1 that is continued.  Lines that are
\* written from the buffer without the size test may fill the card: such a log
\* is larger (see RotatesAtLimit in PathClaims).
RoomForLog == pc = "logging" /\ SizeOf(name) <= MaxSize => free >= 2

\* Without overwriting, the oldest log number in use names a file: after a
\* power cycle start_log() does not take the card to be cleared, unless the
\* user took that log away.  It is about the logger alone: the uploader's
\* delete_uploaded_logs removes logs and counts this number up without looking
\* at the card (data_uploader.cpp:233-239), which breaks it.
OldestLogOnCard == pc = "logging" => Exists(LogFile(first))

\* start_log() returns, unless the power goes.
StartReturns == pc \in Starting ~> pc \in {"logging", "stopped", "off"}
=============================================================================
