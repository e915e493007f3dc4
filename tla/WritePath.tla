----------------------------- MODULE WritePath -----------------------------
(***************************************************************************)
(* The way of a CAN frame into a log file (src/can_log.cpp), and what the  *)
(* uploader does to it (src/data_uploader.cpp).                            *)
(*                                                                         *)
(* Three activities share data_file and write_buffer: the CAN interrupt,   *)
(* the one-second timer interrupt that flushes the file, and the main      *)
(* program, which uploads logs and restarts logging.  The interrupts have  *)
(* one priority, so each runs to its end before the other; both may come   *)
(* between any two steps of the main program.                              *)
(*                                                                         *)
(* A line has length 1 here, in the buffer and on the card.  Which file    *)
(* name start_log() takes is the subject of LogStore; here it opens a new  *)
(* log or fails.                                                           *)
(***************************************************************************)
EXTENDS Integers, Sequences

CONSTANTS
  BufferLen,   \* SD_WRITE_BUFFER_LEN, in lines
  MaxSize,     \* max_log_size, in lines
  MaxChunks,   \* chunks of the largest log to upload
  IOErrors,    \* whether sd.open() may fail
  MaxFrames,   \* bound: frames that arrive
  MaxLogs,     \* bound: logs started
  MaxUploads   \* bound: uploads tried

ASSUME PathAssumption ==
  /\ BufferLen \in Nat \ {0} /\ MaxSize \in Nat \ {0} /\ MaxChunks \in Nat
  /\ IOErrors \in BOOLEAN
  /\ MaxFrames \in Nat /\ MaxLogs \in Nat \ {0} /\ MaxUploads \in Nat

VARIABLES
  main,         \* where the main program is: see Control
  back,         \* where start_log() returns to in the main program
  final,        \* reopen_file() was called after the last chunk
  chunks,       \* chunks of the file still to send
  pos,          \* pos, the local variable of reopen_file()
  uploads,      \* uploads begun
  no_write_file,
  timerOn,      \* can_log_timer runs
  log_enabled,
  open,         \* data_file is open
  at,           \* the write position of data_file
  log,          \* the lines of the current log
  past,         \* the lines of the logs before it
  logNo,        \* which log is the current one
  base,         \* log_start_millis: the log whose start times are counted from
  write_buffer,
  printed,      \* history: how many of its lines the main program has printed
  arrived,      \* frames so far; they are numbered from 1
  dropped,      \* frames that were refused
  retrying      \* the frame whose interrupt tries to open the file, or 0

mainVars == <<main, back, final, chunks, pos, uploads>>
fileVars == <<open, at, log, past, logNo, base>>
buffer   == <<write_buffer, printed>>
vars == <<mainVars, no_write_file, timerOn, log_enabled, fileVars,
          buffer, arrived, dropped, retrying>>

Control == {"setup", "upload", "loop",
            "stopTimer", "chunk", "reopen", "close", "open", "seek",
            "flush", "print", "clear", "startTimer", "release",
            "disable", "pick", "closeOld", "openNew", "header", "enable"}

\* A line carries its frame and the log whose start its time is counted from.
FrameLine(f) == [frame |-> f, log |-> base]
Header(n)    == [frame |-> 0, log |-> n]

\* What a file holds after lines are written at position p.
Overwrite(file, p, lines) ==
  SubSeq(file, 1, p) \o lines \o SubSeq(file, p + Len(lines) + 1, Len(file))

\* data_file.print(): nothing happens when the file is not open.
PrintLines(lines) ==
  IF open THEN /\ log' = Overwrite(log, at, lines)
               /\ at' = at + Len(lines)
          ELSE UNCHANGED <<log, at>>

\* After setup_from_sd_card(): a first log is open, with its header.
Init ==
  /\ main = "setup" /\ back = "upload" /\ final = FALSE
  /\ chunks = 0 /\ pos = 0 /\ uploads = 0
  /\ no_write_file = FALSE /\ timerOn = TRUE /\ log_enabled = TRUE
  /\ open = TRUE /\ at = 1 /\ log = << Header(1) >> /\ past = << >> /\ logNo = 1 /\ base = 1
  /\ write_buffer = << >> /\ printed = 0 /\ arrived = 0 /\ dropped = {} /\ retrying = 0

-----------------------------------------------------------------------------
(* The CAN interrupt: can_callback() and write_sd_line().                  *)

Arrive ==
  /\ retrying = 0 /\ arrived < MaxFrames
  /\ arrived' = arrived + 1

FrameIgnored ==
  /\ Arrive /\ ~log_enabled
  /\ dropped' = dropped \cup {arrived'}
  /\ UNCHANGED <<mainVars, no_write_file, timerOn, log_enabled, fileVars, buffer, retrying>>

\* Mutant: the terminating zero of the buffer is forgotten.
RoomForLine == Len(write_buffer) + 1 <= BufferLen

HasRoom == Len(write_buffer) + 1 < BufferLen

FrameBuffered ==
  /\ Arrive /\ log_enabled /\ no_write_file /\ HasRoom
  /\ write_buffer' = Append(write_buffer, FrameLine(arrived'))
  /\ UNCHANGED <<mainVars, no_write_file, timerOn, log_enabled, fileVars, printed, dropped, retrying>>

FrameOverrun ==
  /\ Arrive /\ log_enabled /\ no_write_file /\ ~HasRoom
  /\ dropped' = dropped \cup {arrived'}
  /\ UNCHANGED <<mainVars, no_write_file, timerOn, log_enabled, fileVars, buffer, retrying>>

\* The outcomes of an sd.open().
Opened == {TRUE, ~IOErrors}

\* start_log() inside the interrupt: a new log, or none, because there is no
\* space, no name, or the file does not open.
StartsNewLog(file) ==
  /\ logNo < MaxLogs
  /\ past' = past \o file /\ logNo' = logNo + 1 /\ base' = logNo'
  /\ log' = << Header(logNo') >> /\ at' = 1 /\ open' = TRUE
  /\ UNCHANGED log_enabled

StartsNoLog(file) ==
  /\ log_enabled' = FALSE
  /\ log' = file /\ open' \in Opened
  /\ UNCHANGED <<past, logNo, base>>

\* Mutants: the buffer goes behind the line, or is lost; it is not cleared.
LineBeforeBuffer(f) == << FrameLine(f) >> \o write_buffer
LineOnly(f)         == << FrameLine(f) >>
Uncleared           == write_buffer

BufferAndLine(f) == Append(write_buffer, FrameLine(f))
Cleared          == << >>

\* The open file gets the buffered lines and the frame's own at position p.
WriteFrame(f, p) ==
  LET lines == BufferAndLine(f)
      file  == Overwrite(log, p, lines)
  IN  /\ write_buffer' = Cleared /\ printed' = 0
      /\ \/ Len(file) > MaxSize /\ StartsNewLog(file)
         \/ Len(file) > MaxSize /\ StartsNoLog(file) /\ at' = p + Len(lines)
         \/ /\ Len(file) <= MaxSize
            /\ log' = file /\ at' = p + Len(lines) /\ open' = TRUE
            /\ UNCHANGED <<log_enabled, past, logNo, base>>

FrameWritten ==
  /\ Arrive /\ log_enabled /\ ~no_write_file /\ open
  /\ WriteFrame(arrived', at)
  /\ UNCHANGED <<mainVars, no_write_file, timerOn, dropped, retrying>>

\* The file is not open: write_sd_line() opens it and calls itself, and does
\* so again for as long as it does not open.
FrameRetries ==
  /\ Arrive /\ log_enabled /\ ~no_write_file /\ ~open
  /\ retrying' = arrived'
  /\ UNCHANGED <<mainVars, no_write_file, timerOn, log_enabled, fileVars, buffer, dropped>>

RetrySucceeds ==
  /\ retrying # 0
  /\ WriteFrame(retrying, Len(log))
  /\ retrying' = 0
  /\ UNCHANGED <<mainVars, no_write_file, timerOn, arrived, dropped>>

-----------------------------------------------------------------------------
(* The timer interrupt: flush_sd_file().                                   *)

TimerFlush ==
  /\ retrying = 0 /\ timerOn /\ write_buffer # << >>
  /\ PrintLines(write_buffer)
  /\ write_buffer' = Cleared /\ printed' = 0
  /\ UNCHANGED <<mainVars, no_write_file, timerOn, log_enabled, open, past, logNo, base,
                 arrived, dropped, retrying>>

-----------------------------------------------------------------------------
(* The main program uploads logs: upload_file() and its callees.           *)

\* The main program goes from one control point to the next.
Goes(from, to) ==
  /\ retrying = 0
  /\ main = from /\ main' = to

\* The rest of a step of the main program that leaves the frames alone.
NoFrame == UNCHANGED <<log_enabled, buffer, arrived, dropped, retrying>>

\* setup() goes on without restarting the log, or upload_data() is done.
SkipRestart ==
  /\ Goes("setup", "upload")
  /\ NoFrame
  /\ UNCHANGED <<back, final, chunks, pos, uploads, no_write_file, timerOn, fileVars>>

UploadsDone ==
  /\ Goes("upload", "loop")
  /\ NoFrame
  /\ UNCHANGED <<back, final, chunks, pos, uploads, no_write_file, timerOn, fileVars>>

\* The server asks for the file and the connection stands.
UploadBegins ==
  /\ uploads < MaxUploads
  /\ Goes("upload", "stopTimer")
  /\ no_write_file' = TRUE
  /\ chunks' \in 0 .. MaxChunks
  /\ uploads' = uploads + 1
  /\ NoFrame
  /\ UNCHANGED <<back, final, pos, timerOn, fileVars>>

\* Mutants: the timer is not stopped, not started again.
KeepTimer == TRUE
NoRestart == timerOn

TimerStopped == FALSE
TimerStarted == TRUE

StopTimer ==
  /\ Goes("stopTimer", "chunk")
  /\ timerOn' = TimerStopped
  /\ NoFrame
  /\ UNCHANGED <<back, final, chunks, pos, uploads, no_write_file, fileVars>>

\* The client is not connected any more: upload_file() returns false, and
\* no_write_file stays as it is.
Disconnected ==
  /\ chunks > 0
  /\ Goes("chunk", "loop")
  /\ timerOn' = TimerStarted
  /\ NoFrame
  /\ UNCHANGED <<back, final, chunks, pos, uploads, no_write_file, fileVars>>

\* A chunk is read and sent; every 500 ms the log is reopened and flushed.
SendChunk ==
  /\ chunks > 0
  /\ main' \in {"chunk", "reopen"} /\ Goes("chunk", main')
  /\ chunks' = chunks - 1
  /\ final' = FALSE
  /\ NoFrame
  /\ UNCHANGED <<back, pos, uploads, no_write_file, timerOn, fileVars>>

LastChunkSent ==
  /\ chunks = 0
  /\ Goes("chunk", "reopen")
  /\ final' = TRUE
  /\ NoFrame
  /\ UNCHANGED <<back, chunks, pos, uploads, no_write_file, timerOn, fileVars>>

ReopenPosition ==
  /\ Goes("reopen", "close")
  /\ pos' = IF open THEN at ELSE 0
  /\ NoFrame
  /\ UNCHANGED <<back, final, chunks, uploads, no_write_file, timerOn, fileVars>>

ReopenClose ==
  /\ Goes("close", "open")
  /\ open' = FALSE
  /\ NoFrame
  /\ UNCHANGED <<back, final, chunks, pos, uploads, no_write_file, timerOn, at, log, past, logNo, base>>

\* data_file.open(log_file_name, FILE_WRITE) goes to the end of the file.
ReopenOpen ==
  /\ Goes("open", "seek")
  /\ open' \in Opened
  /\ at' = Len(log)
  /\ NoFrame
  /\ UNCHANGED <<back, final, chunks, pos, uploads, no_write_file, timerOn, log, past, logNo, base>>

ReopenSeek ==
  /\ Goes("seek", IF final THEN "startTimer" ELSE "flush")
  /\ at' = IF open THEN pos ELSE at
  /\ NoFrame
  /\ UNCHANGED <<back, final, chunks, pos, uploads, no_write_file, timerOn,
                 open, log, past, logNo, base>>

\* flush_sd_file(), called by the main program: test, print, clear.
FlushTest ==
  /\ Goes("flush", IF write_buffer = << >> THEN "chunk" ELSE "print")
  /\ NoFrame
  /\ UNCHANGED <<back, final, chunks, pos, uploads, no_write_file, timerOn, fileVars>>

FlushPrint ==
  /\ Goes("print", "clear")
  /\ PrintLines(write_buffer)
  /\ printed' = IF open THEN Len(write_buffer) ELSE 0
  /\ UNCHANGED <<back, final, chunks, pos, uploads, no_write_file, timerOn, open, past, logNo, base,
                 log_enabled, write_buffer, arrived, dropped, retrying>>

FlushClear ==
  /\ Goes("clear", "chunk")
  /\ write_buffer' = Cleared /\ printed' = 0
  /\ UNCHANGED <<back, final, chunks, pos, uploads, no_write_file, timerOn, fileVars,
                 log_enabled, arrived, dropped, retrying>>

StartTimer ==
  /\ Goes("startTimer", "release")
  /\ timerOn' = TimerStarted
  /\ NoFrame
  /\ UNCHANGED <<back, final, chunks, pos, uploads, no_write_file, fileVars>>

\* no_write_file is false again; upload_data() tries the next log or stops.
Release ==
  /\ Goes("release", "upload")
  /\ no_write_file' = FALSE
  /\ NoFrame
  /\ UNCHANGED <<back, final, chunks, pos, uploads, timerOn, fileVars>>

-----------------------------------------------------------------------------
(* The main program restarts the log: restart_logging() and start_log().   *)

\* After the clock was set, from the network in setup() or over USB in loop().
RestartLogging ==
  /\ main \in {"setup", "loop"} /\ Goes(main, "disable")
  /\ back' = IF main = "setup" THEN "upload" ELSE "loop"
  /\ NoFrame
  /\ UNCHANGED <<final, chunks, pos, uploads, no_write_file, timerOn, fileVars>>

\* Mutant: start_log() lets the interrupt go on logging.
StaysEnabled == log_enabled

WhileStarting == FALSE

Disable ==
  /\ Goes("disable", "pick")
  /\ log_enabled' = WhileStarting
  /\ UNCHANGED <<back, final, chunks, pos, uploads, no_write_file, timerOn, fileVars,
                 buffer, arrived, dropped, retrying>>

\* There is space and a name for the new log, or start_log() returns.
Pick ==
  /\ main' \in {back} \cup (IF logNo < MaxLogs THEN {"closeOld"} ELSE {})
  /\ Goes("pick", main')
  /\ NoFrame
  /\ UNCHANGED <<back, final, chunks, pos, uploads, no_write_file, timerOn, fileVars>>

CloseOld ==
  /\ Goes("closeOld", "openNew")
  /\ open' = FALSE
  /\ NoFrame
  /\ UNCHANGED <<back, final, chunks, pos, uploads, no_write_file, timerOn, at, log, past, logNo, base>>

OpenNew ==
  /\ Goes("openNew", "header")
  /\ past' = past \o log /\ log' = << >> /\ logNo' = logNo + 1
  /\ at' = 0 /\ open' = TRUE
  /\ NoFrame
  /\ UNCHANGED <<back, final, chunks, pos, uploads, no_write_file, timerOn, base>>

OpenNewFails ==
  /\ IOErrors
  /\ Goes("openNew", back)
  /\ NoFrame
  /\ UNCHANGED <<back, final, chunks, pos, uploads, no_write_file, timerOn, fileVars>>

PrintHeader ==
  /\ Goes("header", "enable")
  /\ PrintLines(<< Header(logNo) >>)
  /\ base' = logNo
  /\ NoFrame
  /\ UNCHANGED <<back, final, chunks, pos, uploads, no_write_file, timerOn, open, past, logNo>>

Enable ==
  /\ Goes("enable", back)
  /\ log_enabled' = TRUE
  /\ UNCHANGED <<back, final, chunks, pos, uploads, no_write_file, timerOn, fileVars,
                 buffer, arrived, dropped, retrying>>

\* loop() finds nothing to do.
LoopIdles == main = "loop" /\ UNCHANGED vars

-----------------------------------------------------------------------------
CanInterrupt ==
  \/ FrameIgnored \/ FrameBuffered \/ FrameOverrun
  \/ FrameWritten \/ FrameRetries \/ RetrySucceeds

\* What the main program does by itself once an upload or a start_log() began.
MainRuns ==
  \/ StopTimer \/ Disconnected \/ SendChunk \/ LastChunkSent
  \/ ReopenPosition \/ ReopenClose \/ ReopenOpen \/ ReopenSeek
  \/ FlushTest \/ FlushPrint \/ FlushClear \/ StartTimer \/ Release
  \/ Disable \/ Pick \/ CloseOld \/ OpenNew \/ OpenNewFails \/ PrintHeader \/ Enable

Next ==
  \/ CanInterrupt \/ TimerFlush \/ MainRuns
  \/ SkipRestart \/ UploadBegins \/ UploadsDone \/ RestartLogging \/ LoopIdles

Spec == Init /\ [][Next]_vars

\* The processor runs on and the timer fires once a second.  Frames, uploads
\* and settings of the clock come as they like.
FairSpec == Spec /\ WF_vars(MainRuns) /\ WF_vars(TimerFlush)

-----------------------------------------------------------------------------
(* Properties.                                                             *)

Numbers(lines) == [i \in DOMAIN lines |-> lines[i].frame]
FrameSet(lines) == {lines[i].frame : i \in DOMAIN lines}

\* The files of all logs, one behind the other: a header is 0.
Recorded == Numbers(past \o log)

\* The frames held: those of the buffer that were not printed yet, and the
\* one whose interrupt waits for the file.
Held ==
  Numbers(SubSeq(write_buffer, printed + 1, Len(write_buffer)))
    \o IF retrying = 0 THEN << >> ELSE << retrying >>

Fifo == INSTANCE LossyFifo WITH sent <- arrived, pending <- Held, recorded <- Recorded
IsLossyFifo == Fifo!Spec

\* Frames are recorded in the order they came in, and none twice.
FramesInOrder == Fifo!InOrder

TypeOK ==
  /\ main \in Control /\ back \in {"upload", "loop"}
  /\ {final, no_write_file, timerOn, log_enabled, open} \subseteq BOOLEAN
  /\ chunks \in 0 .. MaxChunks /\ uploads \in 0 .. MaxUploads
  /\ pos \in Nat /\ at \in 0 .. Len(log)
  /\ logNo \in 1 .. MaxLogs /\ base \in 1 .. logNo
  /\ \A lines \in {log, past, write_buffer} : \A i \in DOMAIN lines :
        lines[i] \in [frame : 0 .. arrived, log : 1 .. logNo]
  /\ Len(write_buffer) < BufferLen /\ printed \in 0 .. Len(write_buffer)
  /\ arrived \in 0 .. MaxFrames /\ dropped \subseteq 1 .. arrived
  /\ retrying \in 0 .. arrived

\* reopen_file() restores the position it saved: the next line never lands on
\* top of lines the interrupts wrote while the file was being reopened.
WritesAtEnd == open /\ main # "seek" => at = Len(log)

\* A frame the logger took and then lost.
Lost ==
  1 .. arrived \ (FrameSet(past \o log) \cup FrameSet(write_buffer)
                    \cup dropped \cup {retrying})

\* Frames that were taken are lost in three places only: when the main program
\* clears the buffer, when the file is not open, and when data_file is written
\* elsewhere than at its end.
LossPoints == [][Lost' # Lost => main = "clear" \/ ~open \/ at # Len(log)]_vars

\* As long as no upload buffered lines, every line is in the log whose start
\* its time is counted from: interrupts never write between the closing of
\* one log and the time base of the next.
RightLog == uploads = 0 => \A i \in DOMAIN log : log[i].log = logNo

\* A buffered frame leaves the buffer, even when the upload broke off.
BufferDrains == write_buffer # << >> ~> write_buffer = << >>
=============================================================================
