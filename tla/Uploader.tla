------------------------------- MODULE Uploader -------------------------------
(***************************************************************************)
(* The uploader (src/data_uploader.cpp) beside the logger of LogStore.     *)
(*                                                                         *)
(* setup() runs the uploader once after the first log was started: it asks *)
(* the server for each log from next_log_to_upload on and sends those the  *)
(* server does not have, while the CAN interrupt keeps logging and starts  *)
(* new logs.  Both sides share the card, the EEPROM cells, the first log   *)
(* number and no_write_file.                                               *)
(*                                                                         *)
(* Each action of the uploader is a step of the main program, which waits  *)
(* while start_log() runs (MainFree).  PowerLoss may come at any time.     *)
(***************************************************************************)
EXTENDS LogStore

CONSTANTS
  DeleteConfigs,  \* the values of delete_uploaded_logs config.txt may give
  Faults          \* whether the network fails and the server refuses

ASSUME UploadAssumption ==
  /\ DeleteConfigs \subseteq BOOLEAN /\ DeleteConfigs # {}
  /\ Faults \in BOOLEAN

VARIABLES
  upc,       \* where the uploader is: see UploadControl
  upNext,    \* next_log_to_upload
  upMax,     \* max_log_to_upload
  upName,    \* file_name, a local buffer of upload_data
  delete,    \* config.delete_uploaded_logs
  noWrite,   \* sd_logger.no_write_file
  fileSize,  \* file_size, a local of upload_file
  loaded,    \* the first log number between its load and store in line 238
  server,    \* what the server has of the logs on the card, in lines
  skipped,   \* history: logs that were counted without the server having them
  renumbered \* history: whether a number may name another log than it once did,
             \* because an uploaded log was deleted or the numbers started
             \* again; nothing is noted in skipped from then on

upRam  == <<upc, upNext, upMax, upName, delete, noWrite, fileSize, loaded>>
outside == <<server, skipped, renumbered>>
upVars == <<vars, upRam, outside>>

UploadControl == {"off", "connected", "synced", "ask", "connect", "send",
                  "answer", "remove", "load", "store", "put", "count", "done"}
\* The control points inside upload_data().
Uploading == UploadControl \ {"off", "connected", "synced", "done"}

\* The main program runs: no start_log() is under way.
MainFree == pc \in {"logging", "stopped"} /\ puts = << >>

\* The uploader is a local of setup(): it is gone when upload_data() returned.
Leave ==
  /\ upc' = "done"
  /\ upNext' = 0 /\ upMax' = 0 /\ upName' = DefaultName

InitUploader ==
  /\ upc = "off"
  /\ upNext = 0 /\ upMax = 0 /\ upName = DefaultName
  /\ delete = FALSE /\ noWrite = FALSE
  /\ fileSize = 0 /\ loaded = 0
  /\ server = << >> /\ skipped = {} /\ renumbered = FALSE

-----------------------------------------------------------------------------
(* The logger beside the uploader.                                         *)

\* The server knows a log by its name and start time: a new log is unknown.
NewLogsUnknown ==
  LET created == DOMAIN card' \ DOMAIN card
  IN  /\ server' = [f \in DOMAIN server \ created |-> server[f]]
      /\ skipped' = IF renumbered' THEN {} ELSE skipped \ created

\* The next number falls back: it was wrapped around, the search took a number
\* from the beginning, or the numbers were reset.
NumbersStartAgain ==
  IF pc = "off" THEN ee["next"] # Erased /\ next' < ee["next"] ELSE next' < next

History ==
  /\ renumbered' = (renumbered \/ NumbersStartAgain)
  /\ NewLogsUnknown

\* write_sd_line() with no_write_file clear, on a log that is on the card.
LineWritten ==
  /\ ~noWrite /\ Exists(name)
  /\ WriteLine

\* With no_write_file set the lines reach the file through flush_sd_file(),
\* which does not look at the size of the log.
FlushBuffered ==
  /\ noWrite /\ Exists(name)
  /\ WriteBuffered

BootStarts == puts = << >> /\ StartAtBoot

LoggerStep ==
  /\ EepromPut \/ (puts = << >> /\ InStartLog) \/ BootStarts \/ PowerOn
       \/ LineWritten \/ FlushBuffered
  /\ History
  /\ UNCHANGED upRam

PowerFails ==
  /\ PowerLoss
  /\ upc' = "off"
  /\ upNext' = 0 /\ upMax' = 0 /\ upName' = DefaultName
  /\ delete' = FALSE /\ noWrite' = FALSE
  /\ fileSize' = 0 /\ loaded' = 0
  /\ UNCHANGED outside

-----------------------------------------------------------------------------
(* setup(): the constructor, the clock, the beginning of upload_data().    *)

\* The number the constructor starts from: the stored one, or 1 when that is
\* above the limit or its log is not on the card.
FirstToUpload ==
  LET stored == IF ee["upNext"] > ee["upMax"] THEN 1 ELSE ee["upNext"]
  IN  IF Exists(LogFile(stored)) THEN stored ELSE 1

\* search_and_connect() and the constructor, which stores what it starts from.
Construct ==
  /\ upc = "off" /\ MainFree
  /\ upNext' = FirstToUpload
  /\ ee' = [ee EXCEPT !["upNext"] = FirstToUpload]
  /\ upMax' = ee["upMax"]
  /\ delete' \in DeleteConfigs
  /\ upc' = "connected"
  /\ UNCHANGED <<pc, ram, puts, disk, upName, noWrite, fileSize, loaded, outside>>

\* config.txt does not ask for wifi: setup() ends.
WifiDisabled ==
  /\ upc = "off" /\ MainFree
  /\ upc' = "done"
  /\ UNCHANGED <<vars, upNext, upMax, upName, delete, noWrite, fileSize, loaded, outside>>

\* No known network answers: setup() ends.
NotConnected ==
  /\ upc = "connected" /\ MainFree /\ Faults
  /\ Leave
  /\ UNCHANGED <<vars, delete, noWrite, fileSize, loaded, outside>>

\* The time server set the clock by more than a minute: a new log is started.
ClockJumps ==
  /\ upc = "connected" /\ puts = << >>
  /\ RestartLogging
  /\ upc' = "synced"
  /\ UNCHANGED <<upNext, upMax, upName, delete, noWrite, fileSize, loaded, outside>>

\* upload_data() up to the first test of its loop.
BeginUpload ==
  /\ upc \in {"connected", "synced"} /\ MainFree
  /\ IF upNext <= upMax /\ Exists(LogFile(upNext))
       THEN upc' = "ask" /\ upName' = LogFile(upNext) /\ UNCHANGED <<upNext, upMax>>
       ELSE Leave
  /\ UNCHANGED <<vars, delete, noWrite, fileSize, loaded, outside>>

-----------------------------------------------------------------------------
(* upload_file().                                                          *)

Known == upName \in DOMAIN server

\* The log is counted; it is noted when the server does not have it.
CountedUnseen ==
  skipped' = IF Known \/ renumbered THEN skipped ELSE skipped \cup {upName}

\* upload_file() returns false: no other log is tried.
GiveUp ==
  /\ Leave
  /\ UNCHANGED <<vars, delete, noWrite, fileSize, loaded, outside>>

GoTo(c) ==
  /\ upc' = c
  /\ UNCHANGED <<upNext, upMax, upName>>

\* The GET request: 200 for a log the server has, 404 for one it has not.
Asked ==
  /\ upc = "ask" /\ MainFree
  /\ GoTo(IF Known THEN "count" ELSE "connect")
  /\ UNCHANGED <<vars, delete, noWrite, fileSize, loaded, outside>>

AskFails == upc = "ask" /\ MainFree /\ Faults /\ GiveUp

\* The connection for the POST stands; from here on lines are buffered.
Connected ==
  /\ upc = "connect" /\ MainFree
  /\ noWrite' = TRUE
  /\ fileSize' = SizeOf(upName)
  /\ GoTo("send")
  /\ UNCHANGED <<vars, delete, loaded, outside>>

\* It does not stand: the function ends without a return value.
ConnectReturnsTrue ==
  /\ upc = "connect" /\ MainFree /\ Faults
  /\ GoTo("count")
  /\ CountedUnseen
  /\ UNCHANGED <<vars, delete, noWrite, fileSize, loaded, server, renumbered>>

ConnectReturnsFalse == upc = "connect" /\ MainFree /\ Faults /\ GiveUp

\* The client is found disconnected between two chunks; no_write_file stays.
SendBreaks ==
  /\ upc = "send" /\ MainFree /\ Faults
  /\ fileSize' = 0
  /\ Leave
  /\ UNCHANGED <<vars, delete, noWrite, loaded, outside>>

\* Everything was handed to the client.  The server stores the log, or does
\* not get all of it or refuses it.
SendAll(stored) ==
  /\ upc = "send" /\ MainFree
  /\ stored \/ Faults
  /\ server' = IF stored THEN [f \in DOMAIN server \cup {upName} |->
                                 IF f = upName THEN fileSize ELSE server[f]]
                         ELSE server
  /\ noWrite' = FALSE
  /\ fileSize' = 0
  /\ GoTo("answer")
  /\ UNCHANGED <<vars, delete, loaded, skipped, renumbered>>

\* Mutant: the status line is not compared.
AnyStatus == TRUE

\* The server answers 200 to what it stored.
Status200 == Known

Answered ==
  /\ upc = "answer" /\ MainFree /\ Status200
  /\ GoTo(IF delete THEN "remove" ELSE "count")
  /\ UNCHANGED <<vars, delete, noWrite, fileSize, loaded, outside>>

Refused == upc = "answer" /\ MainFree /\ ~Status200 /\ GiveUp

\* available() is 0: no answer has arrived yet, the function returns true.
NoAnswerYet ==
  /\ upc = "answer" /\ MainFree
  /\ GoTo("count")
  /\ CountedUnseen
  /\ UNCHANGED <<vars, delete, noWrite, fileSize, loaded, server, renumbered>>

RemoveUploaded ==
  /\ upc = "remove" /\ MainFree
  /\ Remove(upName)
  /\ renumbered' = TRUE /\ skipped' = {}
  /\ GoTo("load")
  /\ UNCHANGED <<pc, ram, puts, ee, delete, noWrite, fileSize, loaded,
                 server>>

\* first_log_file_number++ is a load and a store, and its put a third step.
LoadFirst ==
  /\ upc = "load" /\ MainFree
  /\ loaded' = first
  /\ GoTo("store")
  /\ UNCHANGED <<vars, delete, noWrite, fileSize, outside>>

StoreFirst ==
  /\ upc = "store" /\ MainFree
  /\ first' = loaded + 1
  /\ loaded' = 0
  /\ GoTo("put")
  /\ UNCHANGED <<pc, next, overwriting, overwrite, name, delName, toTry, puts,
                 ee, disk, delete, noWrite, fileSize, outside>>

PutFirst ==
  /\ upc = "put" /\ MainFree
  /\ ee' = [ee EXCEPT !["first"] = first]
  /\ GoTo("count")
  /\ UNCHANGED <<pc, ram, puts, disk, delete, noWrite, fileSize, loaded, outside>>

-----------------------------------------------------------------------------
(* upload_file() returned true: the next log, if there is one below the    *)
(* limit and on the card.                                                  *)

\* Mutants: a log is left out; the number is not incremented; the log being
\* written is sent; the limit is not looked at.
LogAfterNext(n)   == n + 2
SameLog(n)        == n
UpToLimit(n)      == n <= upMax
AllOnCard(n)      == TRUE

LogAfter(n)   == n + 1
BelowLimit(n) == n + 1 <= upMax

CountUploaded ==
  /\ upc = "count" /\ MainFree
  /\ ee' = [ee EXCEPT !["upNext"] = LogAfter(upNext)]
  /\ IF BelowLimit(LogAfter(upNext)) /\ Exists(SetName(LogAfter(upNext), upName))
       THEN /\ upNext' = LogAfter(upNext)
            /\ upName' = SetName(upNext', upName)
            /\ upc' = "ask" /\ UNCHANGED upMax
       ELSE Leave
  /\ UNCHANGED <<pc, ram, puts, disk, delete, noWrite, fileSize, loaded, outside>>

\* loop() restarts the log when a time came over USB.  no_write_file may still
\* be set by an upload that broke off.
SerialRestart ==
  /\ upc = "done" /\ puts = << >>
  /\ RestartLogging
  /\ UNCHANGED <<upRam, outside>>

-----------------------------------------------------------------------------
UploadStep ==
  \/ BeginUpload \/ Asked \/ AskFails
  \/ Connected \/ ConnectReturnsTrue \/ ConnectReturnsFalse
  \/ SendBreaks \/ (\E stored \in BOOLEAN : SendAll(stored))
  \/ Answered \/ Refused \/ NoAnswerYet
  \/ RemoveUploaded \/ LoadFirst \/ StoreFirst \/ PutFirst \/ CountUploaded

UploaderNext ==
  \/ LoggerStep \/ PowerFails
  \/ WifiDisabled \/ Construct \/ NotConnected \/ ClockJumps \/ UploadStep
  \/ SerialRestart

UploaderSpec == Init /\ InitUploader /\ [][UploaderNext]_upVars

\* The processor executes start_log() and upload_data(): every wait of the
\* HTTP client ends by a timeout, and start_log() ends.
UploaderFairSpec ==
  /\ UploaderSpec
  /\ WF_upVars(UploadStep)
  /\ WF_upVars(LoggerStep /\ RunsOn)

-----------------------------------------------------------------------------
(* Properties.                                                             *)

\* Types; while logs are uploaded the number is within the limit the constructor
\* read, and the name is that of the number.
UploaderTypeOK ==
  /\ upc \in UploadControl
  /\ upNext \in Nat /\ upMax \in Nat /\ upName \in FileNames
  /\ delete \in BOOLEAN /\ noWrite \in BOOLEAN
  /\ fileSize \in Nat /\ loaded \in Nat
  /\ DOMAIN server \subseteq FileNames /\ server \in [DOMAIN server -> Nat]
  /\ skipped \subseteq FileNames /\ renumbered \in BOOLEAN
  /\ upc \in Uploading => upNext <= upMax /\ upName = LogFile(upNext)

\* Without overwriting the log being written is not sent (can_log.cpp:82), and
\* what the server has of a log stays complete: neither a rotation, nor a
\* restart after the clock was set, nor a power loss makes the uploader send a
\* log that still grows.  It is about the first round of log numbers on a
\* device that deletes no uploaded log.  Once one was deleted its name is taken
\* again, and once the numbers started again the limit may be the number of an
\* earlier round: the open log may then be sent (OpenLogNotSent in
\* UploadClaims).
SentWhole ==
  ~renumbered =>
    /\ upc \in {"send", "answer"} /\ pc = "logging" => upName # name
    /\ \A f \in DOMAIN server : server[f] = SizeOf(f)

\* The upload resumes where it was: every log below the one the constructor
\* would start from after a power loss is at the server, or was counted by the
\* undefined result of a failed connection or before any answer came.  In the
\* first round of log numbers, as above: what a number of an earlier round
\* stood for says nothing about the log that has it now.
NothingElseSkipped ==
  ~renumbered =>
    \A n \in 1 .. FirstToUpload - 1 : LogFile(n) \in DOMAIN server \cup skipped

\* The uploader removes a log only when the server has it, also when the logger
\* starts logs under the names that deleted ones had.
D == INSTANCE Delivery WITH kept <- DOMAIN card, held <- DOMAIN server
IsDelivery == D!Spec

\* upload_data() ends, whatever the network does and however many logs the
\* interrupt starts meanwhile.
UploadEnds == upc \in Uploading ~> upc \in {"off", "done"}
=============================================================================
