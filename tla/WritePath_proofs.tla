--------------------------- MODULE WritePath_proofs ---------------------------
(***************************************************************************)
(* Theorems about WritePath, for every buffer, log size, number of frames, *)
(* logs and uploads.                                                       *)
(***************************************************************************)
EXTENDS WritePath, SequenceTheorems, TLAPS

\* The lines there can be after a frames and n logs.
Line(a, n) == [frame : 0 .. a, log : 1 .. n]

\* upload_file() runs; the timer is stopped; start_log() runs.
Sending  == {"stopTimer", "chunk", "reopen", "close", "open", "seek",
             "flush", "print", "clear", "startTimer", "release"}
Untimed  == Sending \ {"stopTimer", "release"}
Starting == {"pick", "closeOld", "openNew", "header", "enable"}

\* What the main program has arranged at each of its steps: during an upload the
\* interrupts only touch the buffer, and while a log is started no line comes.
ControlInv ==
  /\ main \in Sending => no_write_file
  /\ main \in Untimed => ~timerOn
  /\ main \in Starting => ~log_enabled
  /\ main \in {"closeOld", "openNew"} => logNo < MaxLogs
  /\ main \in {"close", "open", "seek"} => pos <= Len(log)
  /\ retrying # 0 => log_enabled /\ ~no_write_file /\ ~open
  /\ main # "clear" => printed = 0

SeqsOK ==
  /\ log \in Seq(Line(arrived, logNo))
  /\ past \in Seq(Line(arrived, logNo))
  /\ write_buffer \in Seq(Line(arrived, logNo))

\* The rest of TypeOK.
ScalarsOK ==
  /\ main \in Control /\ back \in {"upload", "loop"}
  /\ final \in BOOLEAN /\ no_write_file \in BOOLEAN /\ timerOn \in BOOLEAN
  /\ log_enabled \in BOOLEAN /\ open \in BOOLEAN
  /\ chunks \in 0 .. MaxChunks /\ uploads \in 0 .. MaxUploads
  /\ pos \in Nat /\ at \in 0 .. Len(log)
  /\ logNo \in 1 .. MaxLogs /\ base \in 1 .. logNo
  /\ Len(write_buffer) < BufferLen /\ printed \in 0 .. Len(write_buffer)
  /\ arrived \in 0 .. MaxFrames /\ dropped \subseteq 1 .. arrived
  /\ retrying \in 0 .. arrived

TypeInv == ScalarsOK /\ SeqsOK /\ ControlInv

\* Before any upload the buffer is empty, and the start time the lines are
\* counted from is that of the log, unless its header is still to come.
LinesOf(n) == [frame : Nat, log : {n}]

BaseInv ==
  uploads = 0 =>
    /\ main \notin Sending /\ ~no_write_file /\ write_buffer = << >>
    /\ base = logNo \/ main = "header"
    /\ log \in Seq(LinesOf(logNo))

\* With a card that is always ready, the file is closed only where the main
\* program has just closed it, and every write goes to its end.
EndInv ==
  /\ open <=> main \notin {"open", "openNew"}
  /\ open => at = Len(log)
  /\ main \in {"close", "open", "seek"} => pos = Len(log)
-----------------------------------------------------------------------------
(* Lemmas about sequences of lines.                                        *)

\* More frames and more logs only add lines there can be.
LEMMA LinesGrow ==
  ASSUME NEW a \in Nat, NEW n \in Nat, NEW b \in Nat, NEW m \in Nat,
         a <= b, n <= m, NEW s \in Seq(Line(a, n))
  PROVE  s \in Seq(Line(b, m))
<1>1. Line(a, n) \subseteq Line(b, m)
  BY DEF Line
<1> QED
  BY <1>1, SeqMonotonic

\* A file after a print inside it: nothing but old and new lines, none of the
\* new ones missing; at its end, the new lines follow the old ones.
LEMMA OverwriteType ==
  ASSUME NEW S, NEW file \in Seq(S), NEW lines \in Seq(S), NEW p \in 0 .. Len(file)
  PROVE  /\ Overwrite(file, p, lines) \in Seq(S)
         /\ Len(Overwrite(file, p, lines)) >= p + Len(lines)
         /\ Len(Overwrite(file, p, lines)) >= Len(file)
<1> DEFINE front == SubSeq(file, 1, p)
           rest  == SubSeq(file, p + Len(lines) + 1, Len(file))
<1>1. Len(file) \in Nat /\ Len(lines) \in Nat
  OBVIOUS
<1>2. front \in Seq(S) /\ Len(front) = p
  <2>1. \A i \in 1 .. p : file[i] \in S
    BY <1>1
  <2> QED
    BY <2>1, <1>1, SubSeqProperties
<1>3. rest \in Seq(S) /\ Len(rest) >= Len(file) - (p + Len(lines)) /\ Len(rest) \in Nat
  <2>1. \A i \in p + Len(lines) + 1 .. Len(file) : file[i] \in S
    BY <1>1
  <2>2. p + Len(lines) + 1 \in Int /\ Len(file) \in Int
    BY <1>1
  <2>3. /\ rest \in Seq(S)
        /\ Len(rest) = IF p + Len(lines) + 1 <= Len(file) THEN Len(file) - (p + Len(lines) + 1) + 1 ELSE 0
    BY <2>1, <2>2, SubSeqProperties
  <2> QED
    BY <2>3, <1>1
<1> HIDE DEF front, rest
<1>4. /\ front \o lines \in Seq(S)
      /\ Len(front \o lines) = p + Len(lines)
  BY <1>2, ConcatProperties
<1>5. /\ (front \o lines) \o rest \in Seq(S)
      /\ Len((front \o lines) \o rest) = p + Len(lines) + Len(rest)
  BY <1>3, <1>4, ConcatProperties
<1>6. Overwrite(file, p, lines) = (front \o lines) \o rest
  BY DEF Overwrite, front, rest
<1> QED
  BY <1>1, <1>3, <1>5, <1>6

LEMMA OverwriteAtEnd ==
  ASSUME NEW S, NEW file \in Seq(S), NEW lines \in Seq(S)
  PROVE  Overwrite(file, Len(file), lines) = file \o lines
<1>1. Len(file) \in Nat /\ Len(lines) \in Nat
  OBVIOUS
<1>2. SubSeq(file, 1, Len(file)) = file
  BY SubSeqFull
<1>3. SubSeq(file, Len(file) + Len(lines) + 1, Len(file)) = << >>
  BY <1>1, SubSeqEmpty
<1>4. file \o lines \in Seq(S)
  BY ConcatProperties
<1> QED
  BY <1>2, <1>3, <1>4, ConcatEmptySeq DEF Overwrite

-----------------------------------------------------------------------------
(* Type correctness.                                                       *)

LEMMA TypeInvImpliesTypeOK == TypeInv => TypeOK
<1> SUFFICES ASSUME TypeInv PROVE TypeOK
  OBVIOUS
<1>1. \A lines \in {log, past, write_buffer} : \A i \in DOMAIN lines :
         lines[i] \in Line(arrived, logNo)
  BY DEF TypeInv, SeqsOK
<1> QED
  BY <1>1 DEF TypeInv, ScalarsOK, TypeOK, Line

LEMMA TypeInit == Init => TypeInv
<1> SUFFICES ASSUME Init PROVE TypeInv
  OBVIOUS
<1>1. Header(1) \in Line(0, 1)
  BY DEF Header, Line
<1>2. SeqsOK
  BY <1>1 DEF Init, SeqsOK
<1>3. ScalarsOK
  <2>1. Len(log) = 1 /\ Len(write_buffer) = 0
    BY DEF Init
  <2>2. {1} \subseteq 1 .. MaxLogs /\ 0 \in 0 .. MaxChunks /\ 0 \in 0 .. MaxUploads /\ 0 \in 0 .. MaxFrames
        /\ 0 < BufferLen
    BY PathAssumption
  <2>3. main \in Control /\ back \in {"upload", "loop"}
    BY DEF Init, Control
  <2>4. dropped \subseteq 1 .. arrived
    BY DEF Init
  <2>5. /\ at \in 0 .. Len(log) /\ logNo \in 1 .. MaxLogs /\ base \in 1 .. logNo
        /\ Len(write_buffer) < BufferLen /\ printed \in 0 .. Len(write_buffer)
        /\ retrying \in 0 .. arrived
    BY <2>1, <2>2 DEF Init
  <2> QED
    BY <2>2, <2>3, <2>4, <2>5 DEF Init, ScalarsOK
<1>4. ControlInv
  BY DEF Init, ControlInv, Sending, Untimed, Starting
<1> QED
  BY <1>2, <1>3, <1>4 DEF TypeInv

\* data_file.print() with lines there can be.
LEMMA PrintType ==
  ASSUME NEW S, log \in Seq(S), at \in 0 .. Len(log), NEW lines \in Seq(S),
         PrintLines(lines)
  PROVE  log' \in Seq(S) /\ at' \in 0 .. Len(log') /\ Len(log') >= Len(log)
<1>1. CASE open
  <2>1. log' = Overwrite(log, at, lines) /\ at' = at + Len(lines)
    BY <1>1 DEF PrintLines
  <2>2. /\ Overwrite(log, at, lines) \in Seq(S)
        /\ Len(Overwrite(log, at, lines)) >= at + Len(lines)
        /\ Len(Overwrite(log, at, lines)) >= Len(log)
    BY OverwriteType
  <2>3. Len(lines) \in Nat /\ Len(log') \in Nat
    BY <2>1, <2>2
  <2> QED
    BY <2>1, <2>2, <2>3
<1>2. CASE ~open
  BY <1>2 DEF PrintLines
<1> QED
  BY <1>1, <1>2

\* A new log in the interrupt, or none.
LEMMA StartType ==
  ASSUME TypeInv, NEW a \in Nat, arrived <= a, a <= MaxFrames,
         NEW file \in Seq(Line(a, logNo))
  PROVE  /\ StartsNewLog(file) =>
              /\ log' \in Seq(Line(a, logNo')) /\ past' \in Seq(Line(a, logNo'))
              /\ logNo' \in 1 .. MaxLogs /\ base' \in 1 .. logNo'
              /\ at' \in 0 .. Len(log') /\ open' = TRUE
              /\ log_enabled' = log_enabled
         /\ StartsNoLog(file) =>
              /\ log' = file /\ past' = past /\ logNo' = logNo /\ base' = base
              /\ open' \in BOOLEAN /\ log_enabled' = FALSE
<1> USE PathAssumption
<1>1. ASSUME StartsNewLog(file)
      PROVE  /\ log' \in Seq(Line(a, logNo')) /\ past' \in Seq(Line(a, logNo'))
             /\ logNo' \in 1 .. MaxLogs /\ base' \in 1 .. logNo'
             /\ at' \in 0 .. Len(log') /\ open' = TRUE
             /\ log_enabled' = log_enabled
  <2>1. /\ logNo \in Nat /\ arrived \in Nat /\ logNo' = logNo + 1 /\ logNo' \in 1 .. MaxLogs
        /\ base' = logNo' /\ log' = << Header(logNo') >> /\ at' = 1
    BY <1>1 DEF StartsNewLog, TypeInv, ScalarsOK
  <2>2. Header(logNo') \in Line(a, logNo')
    BY <2>1 DEF Header, Line
  <2>3. past \in Seq(Line(arrived, logNo))
    BY DEF TypeInv, SeqsOK
  <2>4. past \in Seq(Line(a, logNo')) /\ file \in Seq(Line(a, logNo'))
    BY <2>1, <2>3, LinesGrow
  <2>5. past' \in Seq(Line(a, logNo'))
    BY <2>4, <1>1, ConcatProperties DEF StartsNewLog
  <2> QED
    BY <1>1, <2>1, <2>2, <2>5 DEF StartsNewLog
<1>2. ASSUME StartsNoLog(file)
      PROVE  /\ log' = file /\ past' = past /\ logNo' = logNo /\ base' = base
             /\ open' \in BOOLEAN /\ log_enabled' = FALSE
  BY <1>2 DEF StartsNoLog, Opened
<1> QED
  BY <1>1, <1>2

\* A frame that is written with the buffer in front of it.
LEMMA WriteType ==
  ASSUME TypeInv, NEW f \in 1 .. MaxFrames, arrived' \in Nat, arrived <= arrived',
         arrived' <= MaxFrames, f <= arrived', NEW p \in 0 .. Len(log), WriteFrame(f, p)
  PROVE  /\ SeqsOK'
         /\ write_buffer' = << >> /\ printed' = 0
         /\ logNo' \in 1 .. MaxLogs /\ base' \in 1 .. logNo'
         /\ at' \in 0 .. Len(log') /\ open' \in BOOLEAN /\ log_enabled' \in BOOLEAN
<1> DEFINE S     == Line(arrived', logNo)
           lines == BufferAndLine(f)
           file  == Overwrite(log, p, lines)
<1>1. arrived \in Nat /\ logNo \in Nat /\ base \in 1 .. logNo
      /\ logNo \in 1 .. MaxLogs /\ log_enabled \in BOOLEAN
  BY PathAssumption DEF TypeInv, ScalarsOK
<1>2. log \in Seq(S) /\ past \in Seq(S) /\ write_buffer \in Seq(S)
  BY <1>1, LinesGrow DEF TypeInv, SeqsOK
<1>3. FrameLine(f) \in S
  BY <1>1 DEF FrameLine, Line
<1> HIDE DEF S
<1>4. lines \in Seq(S)
  BY <1>2, <1>3 DEF BufferAndLine
<1> HIDE DEF lines
<1>5. /\ file \in Seq(S) /\ Len(file) >= p + Len(lines) /\ Len(lines) \in Nat /\ Len(file) \in Nat
  BY <1>2, <1>4, OverwriteType
<1> HIDE DEF file
<1>6. write_buffer' = << >> /\ printed' = 0
  BY DEF WriteFrame, Cleared
<1>7. \/ StartsNewLog(file)
      \/ StartsNoLog(file) /\ at' = p + Len(lines)
      \/ /\ log' = file /\ at' = p + Len(lines) /\ open' = TRUE
         /\ UNCHANGED <<log_enabled, past, logNo, base>>
  BY DEF WriteFrame, file, lines
<1>11. << >> \in Seq(Line(arrived', logNo'))
  OBVIOUS
<1>8. CASE StartsNewLog(file)
  <2>1. file \in Seq(Line(arrived', logNo))
    BY <1>5 DEF S
  <2>2. /\ log' \in Seq(Line(arrived', logNo')) /\ past' \in Seq(Line(arrived', logNo'))
        /\ logNo' \in 1 .. MaxLogs /\ base' \in 1 .. logNo'
        /\ at' \in 0 .. Len(log') /\ open' = TRUE
        /\ log_enabled' = log_enabled
    BY <1>8, <2>1, StartType
  <2> QED
    BY <1>1, <1>6, <1>11, <2>2 DEF SeqsOK
<1>9. CASE StartsNoLog(file) /\ at' = p + Len(lines)
  <2>1. /\ log' = file /\ past' = past /\ logNo' = logNo /\ base' = base
        /\ open' \in BOOLEAN /\ log_enabled' = FALSE
    BY <1>1, <1>5, <1>9, StartType DEF S
  <2>2. SeqsOK'
    BY <1>2, <1>5, <1>6, <1>11, <2>1 DEF SeqsOK, S
  <2>3. at' \in 0 .. Len(log')
    BY <1>5, <1>9, <2>1
  <2> QED
    BY <1>1, <1>6, <2>1, <2>2, <2>3
<1>10. CASE /\ log' = file /\ at' = p + Len(lines) /\ open' = TRUE
            /\ UNCHANGED <<log_enabled, past, logNo, base>>
  <2>2. SeqsOK'
    BY <1>2, <1>5, <1>6, <1>10, <1>11 DEF SeqsOK, S
  <2>3. at' \in 0 .. Len(log')
    BY <1>5, <1>10
  <2> QED
    BY <1>1, <1>6, <1>10, <2>2, <2>3
<1> QED
  BY <1>7, <1>8, <1>9, <1>10

LEMMA OpenedType == Opened \subseteq BOOLEAN
  BY PathAssumption DEF Opened

\* The steps of the main program that print nothing.
LEMMA QuietType ==
  ASSUME TypeInv,
         \/ SkipRestart \/ UploadsDone \/ UploadBegins \/ StopTimer \/ Disconnected
         \/ SendChunk \/ LastChunkSent \/ ReopenPosition \/ ReopenClose \/ ReopenOpen
         \/ ReopenSeek \/ FlushTest \/ FlushClear \/ StartTimer \/ Release
         \/ RestartLogging \/ Disable \/ Pick \/ CloseOld \/ OpenNewFails
         \/ Enable
  PROVE  TypeInv'
<1> USE PathAssumption DEF Goes, NoFrame, fileVars, buffer, TypeInv, ScalarsOK, SeqsOK, ControlInv,
      Control, Sending, Untimed, Starting
<1>1. CASE SkipRestart
  BY <1>1 DEF SkipRestart
<1>2. CASE UploadsDone
  BY <1>2 DEF UploadsDone
<1>3. CASE UploadBegins
  BY <1>3 DEF UploadBegins
<1>4. CASE StopTimer
  BY <1>4 DEF StopTimer, TimerStopped
<1>5. CASE Disconnected
  BY <1>5 DEF Disconnected, TimerStarted
<1>6. CASE SendChunk
  <2>1. chunks' \in 0 .. MaxChunks /\ main' \in {"chunk", "reopen"}
    BY <1>6 DEF SendChunk
  <2>2. ScalarsOK'
    BY <1>6, <2>1 DEF SendChunk
  <2>3. SeqsOK'
    BY <1>6 DEF SendChunk
  <2>4. ControlInv'
    BY <1>6, <2>1 DEF SendChunk
  <2> QED
    BY <2>2, <2>3, <2>4
<1>7. CASE LastChunkSent
  BY <1>7 DEF LastChunkSent
<1>8. CASE ReopenPosition
  BY <1>8 DEF ReopenPosition
<1>9. CASE ReopenClose
  BY <1>9 DEF ReopenClose
<1>10. CASE ReopenOpen
  <2>1. open' \in BOOLEAN
    BY <1>10, OpenedType DEF ReopenOpen
  <2>2. Len(log) \in Nat
    OBVIOUS
  <2> QED
    BY <1>10, <2>1, <2>2 DEF ReopenOpen
<1>11. CASE ReopenSeek
  BY <1>11 DEF ReopenSeek
<1>12. CASE FlushTest
  BY <1>12 DEF FlushTest
<1>13. CASE FlushClear
  BY <1>13 DEF FlushClear, Cleared
<1>14. CASE StartTimer
  BY <1>14 DEF StartTimer, TimerStarted
<1>15. CASE Release
  BY <1>15 DEF Release
<1>16. CASE RestartLogging
  BY <1>16 DEF RestartLogging
<1>17. CASE Disable
  BY <1>17 DEF Disable, WhileStarting
<1>18. CASE Pick
  BY <1>18 DEF Pick
<1>19. CASE CloseOld
  BY <1>19 DEF CloseOld
<1>20. CASE OpenNewFails
  BY <1>20 DEF OpenNewFails
<1>21. CASE Enable
  BY <1>21 DEF Enable
<1> QED
  BY <1>1, <1>2, <1>3, <1>4, <1>5, <1>6, <1>7, <1>8, <1>9, <1>10, <1>11, <1>12, <1>13, <1>14, <1>15, <1>16, <1>17, <1>18, <1>19, <1>20, <1>21

\* The steps of the main program and of the timer that print or open a new log.
LEMMA PrintingType ==
  ASSUME TypeInv, FlushPrint \/ OpenNew \/ PrintHeader \/ TimerFlush
  PROVE  TypeInv'
<1> USE PathAssumption DEF Goes, NoFrame, fileVars, mainVars, buffer, TypeInv, ScalarsOK,
      ControlInv, Control, Sending, Untimed, Starting
<1> DEFINE S == Line(arrived, logNo)
<1>0. /\ log \in Seq(S) /\ past \in Seq(S) /\ write_buffer \in Seq(S)
      /\ logNo \in Nat /\ arrived \in Nat /\ Len(write_buffer) \in Nat
  BY DEF SeqsOK
<1> HIDE DEF S
<1>1. CASE FlushPrint
  <2>1. log' \in Seq(S) /\ at' \in 0 .. Len(log') /\ Len(log') >= Len(log)
    BY <1>0, <1>1, PrintType DEF FlushPrint
  <2>2. SeqsOK'
    BY <1>0, <1>1, <2>1 DEF FlushPrint, SeqsOK, S
  <2>3. printed' \in 0 .. Len(write_buffer)
    BY <1>0, <1>1 DEF FlushPrint
  <2> QED
    BY <1>1, <2>1, <2>2, <2>3 DEF FlushPrint
<1>2. CASE OpenNew
  <2>1. logNo < MaxLogs /\ logNo' = logNo + 1 /\ logNo' \in 1 .. MaxLogs /\ arrived' = arrived
    BY <1>0, <1>2 DEF OpenNew
  <2>2. log \in Seq(Line(arrived', logNo')) /\ past \in Seq(Line(arrived', logNo'))
        /\ write_buffer \in Seq(Line(arrived', logNo'))
    BY <1>0, <2>1, LinesGrow DEF S
  <2>3. /\ past' = past \o log /\ log' = << >> /\ write_buffer' = write_buffer
    BY <1>2 DEF OpenNew
  <2>4. past' \in Seq(Line(arrived', logNo'))
    BY <2>2, <2>3, ConcatProperties
  <2>5. SeqsOK'
    BY <2>2, <2>3, <2>4 DEF SeqsOK
  <2>6. at' \in 0 .. Len(log') /\ Len(log') = 0
    BY <1>2, <2>3 DEF OpenNew
  <2> QED
    BY <1>0, <1>2, <2>1, <2>5, <2>6 DEF OpenNew
<1>3. CASE PrintHeader
  <2>1. Header(logNo) \in S
    BY <1>0 DEF Header, Line, S
  <2>2. << Header(logNo) >> \in Seq(S)
    BY <2>1
  <2>3. log' \in Seq(S) /\ at' \in 0 .. Len(log') /\ Len(log') >= Len(log)
    BY <1>0, <1>3, <2>2, PrintType DEF PrintHeader
  <2>4. SeqsOK'
    BY <1>0, <1>3, <2>3 DEF PrintHeader, SeqsOK, S
  <2> QED
    BY <1>3, <2>3, <2>4 DEF PrintHeader
<1>4. CASE TimerFlush
  <2>1. log' \in Seq(S) /\ at' \in 0 .. Len(log') /\ Len(log') >= Len(log)
    BY <1>0, <1>4, PrintType DEF TimerFlush
  <2>2. write_buffer' = << >> /\ Len(write_buffer') = 0 /\ write_buffer' \in Seq(S)
    BY <1>4 DEF TimerFlush, Cleared
  <2>3. SeqsOK'
    BY <1>0, <1>4, <2>1, <2>2 DEF TimerFlush, SeqsOK, S
  <2>4. main \notin Untimed
    BY <1>4 DEF TimerFlush
  <2> QED
    BY <1>4, <2>1, <2>2, <2>3, <2>4 DEF TimerFlush
<1> QED
  BY <1>1, <1>2, <1>3, <1>4

\* One frame more.
LEMMA ArriveType ==
  ASSUME TypeInv, Arrive
  PROVE  /\ arrived \in Nat /\ logNo \in Nat
         /\ arrived' = arrived + 1 /\ arrived' \in 1 .. MaxFrames /\ retrying = 0
         /\ log \in Seq(Line(arrived', logNo)) /\ past \in Seq(Line(arrived', logNo))
         /\ write_buffer \in Seq(Line(arrived', logNo))
<1>1. /\ arrived \in Nat /\ logNo \in Nat
      /\ arrived' = arrived + 1 /\ arrived' \in 1 .. MaxFrames /\ retrying = 0
  BY PathAssumption DEF Arrive, TypeInv, ScalarsOK
<1> QED
  BY <1>1, LinesGrow DEF TypeInv, SeqsOK

LEMMA InterruptType ==
  ASSUME TypeInv, CanInterrupt
  PROVE  TypeInv'
<1> USE PathAssumption DEF fileVars, mainVars, buffer, TypeInv, ScalarsOK, ControlInv,
      Control, Sending, Untimed, Starting
<1>1. CASE FrameIgnored \/ FrameOverrun
  <2>1. Arrive /\ dropped' = dropped \cup {arrived'}
    BY <1>1 DEF FrameIgnored, FrameOverrun
  <2>2. SeqsOK'
    BY <1>1, <2>1, ArriveType DEF FrameIgnored, FrameOverrun, SeqsOK
  <2>3. arrived' = arrived + 1 /\ arrived \in Nat /\ arrived' \in 0 .. MaxFrames /\ retrying = 0
    BY <2>1, ArriveType
  <2>4. dropped' \subseteq 1 .. arrived'
    <3>1. 1 .. arrived \subseteq 1 .. arrived' /\ arrived' \in 1 .. arrived'
      BY <2>3
    <3> QED
      BY <2>1, <3>1
  <2>5. CASE FrameIgnored
    BY <2>2, <2>3, <2>4, <2>5 DEF FrameIgnored
  <2>6. CASE FrameOverrun
    BY <2>2, <2>3, <2>4, <2>6 DEF FrameOverrun
  <2> QED
    BY <1>1, <2>5, <2>6
<1>2. CASE FrameBuffered
  <2>1. Arrive /\ write_buffer' = Append(write_buffer, FrameLine(arrived')) /\ HasRoom
        /\ UNCHANGED <<log, past, logNo>> /\ no_write_file
    BY <1>2 DEF FrameBuffered
  <2>2. FrameLine(arrived') \in Line(arrived', logNo)
    BY <2>1, ArriveType DEF FrameLine, Line
  <2>3. SeqsOK' /\ Len(write_buffer') = Len(write_buffer) + 1 /\ Len(write_buffer) \in Nat
    BY <2>1, <2>2, ArriveType DEF SeqsOK
  <2>4. Len(write_buffer') < BufferLen /\ printed \in 0 .. Len(write_buffer')
    BY <2>1, <2>3 DEF HasRoom
  <2>5. dropped \subseteq 1 .. arrived' /\ arrived' \in 0 .. MaxFrames /\ retrying \in 0 .. arrived'
    BY <2>1, ArriveType
  <2> QED
    BY <1>2, <2>3, <2>4, <2>5 DEF FrameBuffered
<1>3. CASE FrameWritten
  <2>1. Arrive /\ WriteFrame(arrived', at) /\ log_enabled /\ ~no_write_file
        /\ UNCHANGED <<mainVars, no_write_file, timerOn, dropped, retrying>>
    BY <1>3 DEF FrameWritten
  <2>2. /\ arrived' \in 1 .. MaxFrames /\ arrived' = arrived + 1 /\ arrived \in Nat /\ retrying = 0
    BY <2>1, ArriveType
  <2>3. /\ SeqsOK'
        /\ write_buffer' = << >> /\ printed' = 0
        /\ logNo' \in 1 .. MaxLogs /\ base' \in 1 .. logNo'
        /\ at' \in 0 .. Len(log') /\ open' \in BOOLEAN /\ log_enabled' \in BOOLEAN
    BY <2>1, <2>2, WriteType
  <2>4. main \notin Sending \cup Starting
    BY <2>1
  <2>5. dropped \subseteq 1 .. arrived' /\ Len(write_buffer') = 0
    BY <2>2, <2>3
  <2> QED
    BY <2>1, <2>2, <2>3, <2>4, <2>5
<1>4. CASE FrameRetries
  <2>1. Arrive /\ retrying' = arrived'
    BY <1>4 DEF FrameRetries
  <2>2. SeqsOK'
    BY <1>4, <2>1, ArriveType DEF FrameRetries, SeqsOK
  <2>3. dropped \subseteq 1 .. arrived' /\ arrived' \in 0 .. MaxFrames /\ retrying' \in 0 .. arrived'
    BY <2>1, ArriveType
  <2> QED
    BY <1>4, <2>2, <2>3 DEF FrameRetries
<1>5. CASE RetrySucceeds
  <2>1. /\ retrying # 0 /\ WriteFrame(retrying, Len(log)) /\ retrying' = 0
        /\ UNCHANGED <<mainVars, no_write_file, timerOn, arrived, dropped>>
    BY <1>5 DEF RetrySucceeds
  <2>2. retrying \in 1 .. MaxFrames /\ arrived' \in Nat /\ arrived <= arrived' /\ arrived' <= MaxFrames
        /\ retrying <= arrived' /\ Len(log) \in 0 .. Len(log)
    BY <2>1 DEF SeqsOK
  <2>3. /\ SeqsOK'
        /\ write_buffer' = << >> /\ printed' = 0
        /\ logNo' \in 1 .. MaxLogs /\ base' \in 1 .. logNo'
        /\ at' \in 0 .. Len(log') /\ open' \in BOOLEAN /\ log_enabled' \in BOOLEAN
    BY <2>1, <2>2, WriteType
  <2>4. main \notin Sending \cup Starting
    BY <2>1
  <2>5. Len(write_buffer') = 0
    BY <2>3
  <2> QED
    BY <2>1, <2>2, <2>3, <2>4, <2>5
<1> QED
  BY <1>1, <1>2, <1>3, <1>4, <1>5 DEF CanInterrupt

LEMMA TypeStep == TypeInv /\ [Next]_vars => TypeInv'
<1> SUFFICES ASSUME TypeInv, [Next]_vars PROVE TypeInv'
  OBVIOUS
<1>1. CASE UNCHANGED vars
  BY <1>1 DEF vars, mainVars, fileVars, buffer, TypeInv, ScalarsOK, SeqsOK, ControlInv
<1> QED
  BY <1>1, QuietType, PrintingType, InterruptType DEF Next, MainRuns, LoopIdles

\* can_callback(), flush_sd_file(), upload_file() and start_log() keep their
\* variables in their ranges, however the interrupts come in between: the write
\* position stays inside the file and the buffer has room for its terminator.
THEOREM TypeCorrect == Spec => []TypeOK
<1>1. Spec => []TypeInv
  BY TypeInit, TypeStep, PTL DEF Spec
<1> QED
  BY <1>1, TypeInvImpliesTypeOK, PTL

-----------------------------------------------------------------------------
(* Each line is in the log whose start its time is counted from.           *)

LEMMA BaseInit == Init => BaseInv
<1> SUFFICES ASSUME Init PROVE BaseInv
  OBVIOUS
<1>1. Header(1) \in LinesOf(1)
  BY DEF Header, LinesOf
<1> QED
  BY <1>1 DEF Init, BaseInv, Sending

\* A frame that is written before any upload comes alone.
LEMMA WriteBase ==
  ASSUME TypeInv, BaseInv, uploads = 0, main # "header",
         NEW f \in Nat, NEW p \in 0 .. Len(log), WriteFrame(f, p)
  PROVE  write_buffer' = << >> /\ base' = logNo' /\ log' \in Seq(LinesOf(logNo'))
<1> DEFINE lines == BufferAndLine(f)
           file  == Overwrite(log, p, lines)
<1>1. write_buffer = << >> /\ base = logNo /\ log \in Seq(LinesOf(logNo))
  BY DEF BaseInv
<1>2. FrameLine(f) \in LinesOf(logNo)
  BY <1>1 DEF FrameLine, LinesOf
<1>3. lines \in Seq(LinesOf(logNo))
  BY <1>1, <1>2 DEF BufferAndLine
<1> HIDE DEF lines
<1>4. file \in Seq(LinesOf(logNo))
  BY <1>1, <1>3, OverwriteType
<1> HIDE DEF file
<1>5. write_buffer' = << >>
  BY DEF WriteFrame, Cleared
<1>6. \/ StartsNewLog(file)
      \/ StartsNoLog(file)
      \/ log' = file /\ UNCHANGED <<logNo, base>>
  BY DEF WriteFrame, file, lines
<1>7. CASE StartsNewLog(file)
  <2>1. Header(logNo') \in LinesOf(logNo')
    BY DEF Header, LinesOf
  <2> QED
    BY <1>5, <1>7, <2>1 DEF StartsNewLog
<1>8. CASE StartsNoLog(file)
  BY <1>1, <1>4, <1>5, <1>8 DEF StartsNoLog
<1>9. CASE log' = file /\ UNCHANGED <<logNo, base>>
  BY <1>1, <1>4, <1>5, <1>9
<1> QED
  BY <1>6, <1>7, <1>8, <1>9

\* An interrupt writes only while no log is being started, and the main program
\* buffers and prints lines only while it uploads.
LEMMA BaseStep == TypeInv /\ BaseInv /\ [Next]_vars => BaseInv'
<1> SUFFICES ASSUME TypeInv, BaseInv, [Next]_vars, uploads' = 0 PROVE BaseInv'
  BY DEF BaseInv
<1>0. uploads = 0 \/ UploadBegins
  BY DEF Next, CanInterrupt, MainRuns, LoopIdles, vars, mainVars, FrameIgnored, FrameBuffered, FrameOverrun,
     FrameWritten, FrameRetries, RetrySucceeds, TimerFlush, FlushPrint, OpenNew, PrintHeader,
     SkipRestart, UploadsDone, StopTimer, Disconnected, SendChunk, LastChunkSent,
     ReopenPosition, ReopenClose, ReopenOpen, ReopenSeek, FlushTest, FlushClear, StartTimer,
     Release, RestartLogging, Disable, Pick, CloseOld, OpenNewFails, Enable
<1>1. ~UploadBegins
  BY PathAssumption DEF UploadBegins, TypeInv, ScalarsOK
<1>2. /\ uploads = 0 /\ main \notin Sending /\ ~no_write_file /\ write_buffer = << >>
      /\ base = logNo \/ main = "header"
      /\ log \in Seq(LinesOf(logNo))
  BY <1>0, <1>1 DEF BaseInv
<1>3. main \notin {"stopTimer", "chunk", "reopen", "close", "open", "seek", "flush", "print", "clear",
                   "startTimer", "release"}
  BY <1>2 DEF Sending
<1>4. CASE FrameIgnored \/ FrameOverrun \/ FrameRetries
  BY <1>2, <1>4 DEF FrameIgnored, FrameOverrun, FrameRetries, BaseInv, mainVars, fileVars, buffer
<1>5. CASE FrameWritten
  <2>1. main # "header" /\ arrived' \in Nat /\ at \in 0 .. Len(log)
    BY <1>5, ArriveType DEF FrameWritten, TypeInv, ScalarsOK, ControlInv, Starting
  <2> QED
    BY <1>2, <1>5, <2>1, WriteBase DEF FrameWritten, BaseInv, mainVars
<1>6. CASE RetrySucceeds
  <2>1. main # "header" /\ retrying \in Nat /\ Len(log) \in 0 .. Len(log)
    BY <1>6, <1>2, PathAssumption DEF RetrySucceeds, TypeInv, ScalarsOK, ControlInv, Starting
  <2> QED
    BY <1>2, <1>6, <2>1, WriteBase DEF RetrySucceeds, BaseInv, mainVars
<1>7. CASE SkipRestart \/ UploadsDone \/ RestartLogging \/ Disable \/ Pick \/ CloseOld \/ OpenNewFails \/ Enable
  <2>1. /\ main' \in {"upload", "loop", "disable", "pick", "closeOld", "openNew"}
        /\ main # "header" /\ UNCHANGED <<no_write_file, write_buffer, base, logNo, log>>
    BY <1>7 DEF SkipRestart, UploadsDone, RestartLogging, Disable, Pick, CloseOld, OpenNewFails, Enable,
       Goes, NoFrame, buffer, fileVars, TypeInv, ScalarsOK
  <2> QED
    BY <1>2, <2>1 DEF BaseInv, Sending
<1>8. CASE OpenNew
  <2>1. main' = "header" /\ log' = << >> /\ UNCHANGED <<no_write_file, write_buffer>>
    BY <1>8 DEF OpenNew, Goes, NoFrame, buffer
  <2> QED
    BY <1>2, <2>1 DEF BaseInv, Sending
<1>9. CASE PrintHeader
  <2>1. Header(logNo) \in LinesOf(logNo) /\ << Header(logNo) >> \in Seq(LinesOf(logNo))
    BY DEF Header, LinesOf
  <2>2. log' \in Seq(LinesOf(logNo))
    BY <1>2, <1>9, <2>1, PrintType DEF PrintHeader, TypeInv, ScalarsOK
  <2>3. main' = "enable" /\ base' = logNo /\ logNo' = logNo /\ UNCHANGED <<no_write_file, write_buffer>>
    BY <1>9 DEF PrintHeader, Goes, NoFrame, buffer
  <2> QED
    BY <1>2, <2>2, <2>3 DEF BaseInv, Sending
<1>10. CASE LoopIdles \/ UNCHANGED vars
  BY <1>2, <1>10 DEF LoopIdles, vars, mainVars, fileVars, buffer, BaseInv
<1>11. ~FrameBuffered /\ ~TimerFlush /\ ~FlushPrint
  BY <1>2, <1>3 DEF FrameBuffered, TimerFlush, FlushPrint, Goes
<1>12. ~(\/ StopTimer \/ Disconnected \/ SendChunk \/ LastChunkSent
         \/ ReopenPosition \/ ReopenClose \/ ReopenOpen \/ ReopenSeek
         \/ FlushTest \/ FlushClear \/ StartTimer \/ Release)
  BY <1>3 DEF StopTimer, Disconnected, SendChunk, LastChunkSent, ReopenPosition, ReopenClose,
     ReopenOpen, ReopenSeek, FlushTest, FlushClear, StartTimer, Release, Goes
<1> QED
  BY <1>1, <1>4, <1>5, <1>6, <1>7, <1>8, <1>9, <1>10, <1>11, <1>12 DEF Next, CanInterrupt, MainRuns

\* Before any upload, start_log() never lets a line into a log whose start its
\* time is not counted from: it clears log_enabled before it closes the old log,
\* and sets it again behind the header and the new start time.
THEOREM RightLogAlways == Spec => []RightLog
<1>1. Spec => []TypeInv
  BY TypeInit, TypeStep, PTL DEF Spec
<1>2. Spec => []BaseInv
  BY <1>1, BaseInit, BaseStep, PTL DEF Spec
<1>3. BaseInv => RightLog
  <2> SUFFICES ASSUME BaseInv, uploads = 0, NEW i \in DOMAIN log PROVE log[i].log = logNo
    BY DEF RightLog
  <2>1. log \in Seq(LinesOf(logNo))
    BY DEF BaseInv
  <2>2. log[i] \in LinesOf(logNo)
    BY <2>1
  <2> QED
    BY <2>2 DEF LinesOf
<1> QED
  BY <1>2, <1>3, PTL

-----------------------------------------------------------------------------
(* Every write goes to the end of the file.                                *)

LEMMA PrintAtEnd ==
  ASSUME NEW S, log \in Seq(S), NEW lines \in Seq(S), open, at = Len(log), PrintLines(lines)
  PROVE  log' = log \o lines /\ at' = Len(log')
<1>1. log' = log \o lines /\ at' = Len(log) + Len(lines)
  BY OverwriteAtEnd DEF PrintLines
<1> QED
  BY <1>1, ConcatProperties

\* A frame that is written at the end of the file: the buffer and its line follow
\* the log, which a new one may follow.
LEMMA WriteAtEnd ==
  ASSUME TypeInv, NEW f \in 1 .. MaxFrames, arrived' \in Nat, arrived <= arrived',
         f <= arrived', WriteFrame(f, Len(log))
  PROVE  LET file == log \o BufferAndLine(f)
         IN  /\ file \in Seq(Line(arrived', logNo)) /\ BufferAndLine(f) \in Seq(Line(arrived', logNo))
             /\ write_buffer' = << >> /\ printed' = 0
             /\ \/ past' = past \o file /\ log' = << Header(logNo') >> /\ at' = 1 /\ open'
                \/ past' = past /\ log' = file /\ at' = Len(log') /\ open' \in Opened
<1> DEFINE S     == Line(arrived', logNo)
           lines == BufferAndLine(f)
           file  == log \o lines
<1>1. arrived \in Nat /\ logNo \in Nat /\ base \in 1 .. logNo
  BY PathAssumption DEF TypeInv, ScalarsOK
<1>2. log \in Seq(S) /\ write_buffer \in Seq(S)
  BY <1>1, LinesGrow DEF TypeInv, SeqsOK
<1>3. FrameLine(f) \in S
  BY <1>1 DEF FrameLine, Line
<1> HIDE DEF S
<1>4. lines \in Seq(S)
  BY <1>2, <1>3 DEF BufferAndLine
<1> HIDE DEF lines
<1>5. Overwrite(log, Len(log), lines) = file
  BY <1>2, <1>4, OverwriteAtEnd
<1>6. file \in Seq(S) /\ Len(file) = Len(log) + Len(lines)
  BY <1>2, <1>4, ConcatProperties
<1> HIDE DEF file
<1>7. write_buffer' = << >> /\ printed' = 0
  BY DEF WriteFrame, Cleared
<1>8. \/ StartsNewLog(file)
      \/ StartsNoLog(file) /\ at' = Len(log) + Len(lines)
      \/ /\ log' = file /\ at' = Len(log) + Len(lines) /\ open' = TRUE
         /\ UNCHANGED past
  BY <1>5 DEF WriteFrame, lines
<1>9. \/ past' = past \o file /\ log' = << Header(logNo') >> /\ at' = 1 /\ open'
      \/ past' = past /\ log' = file /\ at' = Len(log') /\ open' \in Opened
  BY <1>6, <1>8 DEF StartsNewLog, StartsNoLog, Opened
<1> QED
  BY <1>4, <1>6, <1>7, <1>9 DEF file, lines, S

LEMMA EndInit == Init => EndInv
<1> SUFFICES ASSUME Init PROVE EndInv
  OBVIOUS
<1>1. Len(log) = 1
  BY DEF Init
<1> QED
  BY <1>1 DEF Init, EndInv

\* Nothing but reopen_file() and start_log() closes the file of a ready card, so
\* no interrupt has to open it.
LEMMA NoRetry ==
  ASSUME TypeInv, EndInv
  PROVE  retrying = 0
  BY DEF TypeInv, ControlInv, EndInv, Sending, Starting

LEMMA EndStep == IOErrors = FALSE /\ TypeInv /\ EndInv /\ [Next]_vars => EndInv'
<1> SUFFICES ASSUME IOErrors = FALSE, TypeInv, EndInv, [Next]_vars PROVE EndInv'
  OBVIOUS
<1>0. Opened = {TRUE}
  BY DEF Opened
<1>1. /\ Len(log) \in Nat /\ log \in Seq(Line(arrived, logNo)) /\ arrived \in Nat
      /\ write_buffer \in Seq(Line(arrived, logNo)) /\ main \in Control /\ open \in BOOLEAN
  BY PathAssumption DEF TypeInv, ScalarsOK, SeqsOK
<1>2. CASE \/ SkipRestart \/ UploadsDone \/ StopTimer \/ Disconnected \/ SendChunk
           \/ LastChunkSent \/ FlushTest \/ FlushClear \/ StartTimer \/ Release
           \/ RestartLogging \/ Disable \/ Pick \/ Enable \/ UploadBegins
  <2>1. UNCHANGED <<open, at, log>> /\ main \notin {"close", "open", "seek", "openNew"}
        /\ main' \notin {"close", "open", "seek", "openNew"}
    BY <1>2 DEF SkipRestart, UploadsDone, StopTimer, Disconnected, SendChunk, LastChunkSent,
       FlushTest, FlushClear, StartTimer, Release, RestartLogging, Disable, Pick, Enable,
       UploadBegins,
       Goes, NoFrame, fileVars, TypeInv, ScalarsOK
  <2> QED
    BY <2>1 DEF EndInv
<1>3. CASE ReopenPosition \/ ReopenClose \/ CloseOld
  BY <1>1, <1>3 DEF ReopenPosition, ReopenClose, CloseOld, Goes, EndInv, fileVars
<1>4. CASE ReopenOpen \/ ReopenSeek
  BY <1>0, <1>1, <1>4 DEF ReopenOpen, ReopenSeek, Goes, EndInv
<1>5. ~OpenNewFails
  BY DEF OpenNewFails
<1>6. CASE OpenNew
  <2>1. log' = << >> /\ Len(log') = 0
    BY <1>6 DEF OpenNew
  <2> QED
    BY <1>6, <2>1 DEF OpenNew, Goes, EndInv
<1>7. CASE FlushPrint
  <2>1. open /\ at = Len(log)
    BY <1>7 DEF FlushPrint, Goes, EndInv
  <2>2. at' = Len(log')
    BY <1>1, <1>7, <2>1, PrintAtEnd DEF FlushPrint
  <2> QED
    BY <1>7, <2>1, <2>2 DEF FlushPrint, Goes, EndInv
<1>8. CASE PrintHeader
  <2>1. open /\ at = Len(log)
    BY <1>8 DEF PrintHeader, Goes, EndInv
  <2>2. << Header(logNo) >> \in Seq([frame : {0}, log : {logNo}] \cup Line(arrived, logNo))
    BY DEF Header
  <2>3. log \in Seq([frame : {0}, log : {logNo}] \cup Line(arrived, logNo))
    BY <1>1, SeqMonotonic
  <2>4. at' = Len(log')
    BY <1>8, <2>1, <2>2, <2>3, PrintAtEnd DEF PrintHeader
  <2> QED
    BY <1>8, <2>1, <2>4 DEF PrintHeader, Goes, EndInv
<1>9. CASE TimerFlush
  <2>1. main \notin {"close", "open", "seek"} /\ main' = main /\ open' = open
    BY <1>9 DEF TimerFlush, TypeInv, ControlInv, Sending, Untimed, mainVars
  <2>2. CASE open
    BY <1>1, <1>9, <2>1, <2>2, PrintAtEnd DEF TimerFlush, EndInv
  <2>3. CASE ~open
    BY <2>1, <2>3 DEF EndInv
  <2> QED
    BY <2>2, <2>3
<1>10. CASE FrameWritten
  <2>1. main \notin {"close", "open", "seek", "openNew"} /\ main' = main /\ at = Len(log)
    BY <1>10 DEF FrameWritten, TypeInv, ControlInv, Sending, Starting, mainVars, EndInv
  <2>2. /\ arrived' \in 1 .. MaxFrames /\ arrived' \in Nat /\ arrived <= arrived' /\ arrived' <= arrived'
    BY <1>10, ArriveType DEF FrameWritten
  <2>3. WriteFrame(arrived', Len(log))
    BY <1>10, <2>1 DEF FrameWritten
  <2>4. at' = Len(log') /\ open'
    <3>1. \/ log' = << Header(logNo') >> /\ at' = 1 /\ open'
          \/ at' = Len(log') /\ open' \in Opened
      BY <2>2, <2>3, WriteAtEnd
    <3>2. Len(<< Header(logNo') >>) = 1
      OBVIOUS
    <3> QED
      BY <1>0, <3>1, <3>2
  <2> QED
    BY <2>1, <2>4 DEF EndInv
<1>11. CASE FrameIgnored \/ FrameOverrun \/ FrameBuffered \/ LoopIdles \/ UNCHANGED vars
  BY <1>11 DEF FrameIgnored, FrameOverrun, FrameBuffered, LoopIdles, vars, mainVars, fileVars, EndInv
<1>12. ~FrameRetries /\ ~RetrySucceeds
  BY NoRetry DEF RetrySucceeds, FrameRetries, TypeInv, ControlInv, EndInv, Sending, Starting
<1> QED
  BY <1>2, <1>3, <1>4, <1>5, <1>6, <1>7, <1>8, <1>9, <1>10, <1>11, <1>12
     DEF Next, CanInterrupt, MainRuns

\* With a card that is always ready, what protects reopen_file() suffices: between
\* the reading and the seeking of the position no interrupt writes to the file.
THEOREM WritesGoToTheEnd == ASSUME IOErrors = FALSE PROVE Spec => []WritesAtEnd
<1>1. Spec => []TypeInv
  BY TypeInit, TypeStep, PTL DEF Spec
<1>2. EndInv /\ TypeInv /\ [Next]_vars => EndInv'
  BY EndStep
<1>3. Spec => []EndInv
  BY <1>1, <1>2, EndInit, PTL DEF Spec
<1>4. EndInv => WritesAtEnd
  BY DEF EndInv, WritesAtEnd
<1> QED
  BY <1>3, <1>4, PTL

-----------------------------------------------------------------------------
(* Where frames are lost.                                                  *)

\* The frames of a file are those of its parts.
LEMMA FramesOfConcat ==
  ASSUME NEW S, NEW s \in Seq(S), NEW t \in Seq(S)
  PROVE  FrameSet(s \o t) = FrameSet(s) \cup FrameSet(t)
<1>1. /\ s \o t \in Seq(S) /\ Len(s) \in Nat /\ Len(t) \in Nat
      /\ Len(s \o t) = Len(s) + Len(t)
      /\ DOMAIN s = 1 .. Len(s) /\ DOMAIN t = 1 .. Len(t) /\ DOMAIN (s \o t) = 1 .. Len(s) + Len(t)
  BY ConcatProperties
<1>2. \A i \in 1 .. Len(s) : (s \o t)[i] = s[i] /\ i \in 1 .. Len(s) + Len(t)
  BY <1>1, ConcatProperties
<1>3. \A i \in 1 .. Len(t) : (s \o t)[Len(s) + i] = t[i] /\ Len(s) + i \in 1 .. Len(s) + Len(t)
  <2> SUFFICES ASSUME NEW i \in 1 .. Len(t)
               PROVE  (s \o t)[Len(s) + i] = t[i] /\ Len(s) + i \in 1 .. Len(s) + Len(t)
    OBVIOUS
  <2>1. Len(s) + i \in 1 .. Len(s) + Len(t) /\ ~(Len(s) + i <= Len(s)) /\ (Len(s) + i) - Len(s) = i
    BY <1>1
  <2>2. (s \o t)[Len(s) + i] = t[(Len(s) + i) - Len(s)]
    BY <2>1, ConcatProperties
  <2> QED
    BY <2>1, <2>2
<1>4. \A i \in 1 .. Len(s) + Len(t) : i \in 1 .. Len(s) \/ i - Len(s) \in 1 .. Len(t)
  BY <1>1
<1>5. \A i \in 1 .. Len(s) + Len(t) : i = Len(s) + (i - Len(s))
  BY <1>1
<1>6. FrameSet(s \o t) \subseteq FrameSet(s) \cup FrameSet(t)
  BY <1>1, <1>2, <1>3, <1>4, <1>5 DEF FrameSet
<1>7. FrameSet(s) \subseteq FrameSet(s \o t)
  BY <1>1, <1>2 DEF FrameSet
<1>8. FrameSet(t) \subseteq FrameSet(s \o t)
  BY <1>1, <1>3 DEF FrameSet
<1> QED
  BY <1>6, <1>7, <1>8

LEMMA FramesOfOne ==
  /\ FrameSet(<< >>) = {}
  /\ \A line : FrameSet(<< line >>) = {line.frame}
<1>1. FrameSet(<< >>) = {}
  BY DEF FrameSet
<1>2. ASSUME NEW line PROVE FrameSet(<< line >>) = {line.frame}
  <2>1. DOMAIN << line >> = {1} /\ << line >>[1] = line
    OBVIOUS
  <2> QED
    BY <2>1 DEF FrameSet
<1> QED
  BY <1>1, <1>2

LEMMA FramesWithOne ==
  ASSUME NEW S, NEW s \in Seq(S), NEW line \in S
  PROVE  FrameSet(s \o << line >>) = FrameSet(s) \cup {line.frame}
<1>1. << line >> \in Seq(S)
  OBVIOUS
<1>2. FrameSet(s \o << line >>) = FrameSet(s) \cup FrameSet(<< line >>)
  BY <1>1, FramesOfConcat
<1> QED
  BY <1>2, FramesOfOne

\* Where a frame is that was not lost.
Kept == FrameSet(past) \cup FrameSet(log) \cup FrameSet(write_buffer) \cup dropped \cup {retrying}

\* A frame, with the buffer in front of it, that goes to the end of the file.
LEMMA WriteKeeps ==
  ASSUME TypeInv, NEW f \in 1 .. MaxFrames, arrived' \in Nat, arrived <= arrived',
         f <= arrived', WriteFrame(f, Len(log))
  PROVE  FrameSet(past') \cup FrameSet(log') \cup FrameSet(write_buffer') \cup {0}
           = FrameSet(past) \cup FrameSet(log) \cup FrameSet(write_buffer) \cup {f, 0}
<1> DEFINE S    == Line(arrived', logNo)
           file == log \o BufferAndLine(f)
<1>1. arrived \in Nat /\ logNo \in Nat /\ base \in 1 .. logNo
  BY PathAssumption DEF TypeInv, ScalarsOK
<1>2. log \in Seq(S) /\ past \in Seq(S) /\ write_buffer \in Seq(S)
  BY <1>1, LinesGrow DEF TypeInv, SeqsOK
<1>3. FrameLine(f) \in S /\ FrameLine(f).frame = f
  BY <1>1 DEF FrameLine, Line
<1>4. /\ file \in Seq(S) /\ BufferAndLine(f) \in Seq(S)
      /\ write_buffer' = << >>
      /\ \/ past' = past \o file /\ log' = << Header(logNo') >>
         \/ past' = past /\ log' = file
  BY WriteAtEnd
<1> HIDE DEF S
<1>5. FrameSet(BufferAndLine(f)) = FrameSet(write_buffer) \cup {f}
  <2>1. BufferAndLine(f) = write_buffer \o << FrameLine(f) >>
    BY <1>2, <1>3 DEF BufferAndLine
  <2> QED
    BY <1>2, <1>3, <2>1, FramesWithOne
<1>6. FrameSet(file) = FrameSet(log) \cup FrameSet(write_buffer) \cup {f}
  BY <1>2, <1>4, <1>5, FramesOfConcat
<1> HIDE DEF file
<1>7. FrameSet(past \o file) = FrameSet(past) \cup FrameSet(file)
  BY <1>2, <1>4, FramesOfConcat
<1>8. FrameSet(<< >>) = {} /\ FrameSet(<< Header(logNo') >>) = {0}
  BY FramesOfOne DEF Header
<1> QED
  BY <1>4, <1>6, <1>7, <1>8

LEMMA LossStep ==
  ASSUME TypeInv, [Next]_vars, main # "clear", open, at = Len(log)
  PROVE  Lost' = Lost
<1>0. /\ arrived \in Nat /\ dropped \subseteq 1 .. arrived /\ Len(log) \in Nat
      /\ past \in Seq(Line(arrived, logNo)) /\ log \in Seq(Line(arrived, logNo))
      /\ write_buffer \in Seq(Line(arrived, logNo)) /\ retrying = 0
  BY PathAssumption DEF TypeInv, ScalarsOK, SeqsOK, ControlInv
<1>1. TypeInv'
  BY TypeStep
<1>2. Lost = 1 .. arrived \ Kept /\ Lost' = 1 .. arrived' \ Kept'
  <2>1. FrameSet(past \o log) = FrameSet(past) \cup FrameSet(log)
    BY <1>0, FramesOfConcat
  <2>2. past' \in Seq(Line(arrived', logNo')) /\ log' \in Seq(Line(arrived', logNo'))
    BY <1>1 DEF TypeInv, SeqsOK
  <2>3. FrameSet(past' \o log') = FrameSet(past') \cup FrameSet(log')
    BY <2>2, FramesOfConcat
  <2> QED
    BY <2>1, <2>3 DEF Lost, Kept
<1>3. ASSUME arrived' = arrived, Kept' \cup {0} = Kept \cup {0}
      PROVE  Lost' = Lost
  BY <1>0, <1>2, <1>3
<1>4. ASSUME arrived' = arrived + 1, Kept' \cup {0} = Kept \cup {arrived', 0}
      PROVE  Lost' = Lost
  <2>1. 1 .. arrived' = (1 .. arrived) \cup {arrived'} /\ arrived' # 0 /\ arrived' \notin 1 .. arrived
        /\ 0 \notin 1 .. arrived'
    BY <1>0, <1>4
  <2> QED
    BY <1>2, <1>4, <2>1
<1>5. CASE \/ SkipRestart \/ UploadsDone \/ StopTimer \/ Disconnected \/ SendChunk
           \/ LastChunkSent \/ ReopenPosition \/ ReopenClose \/ ReopenOpen \/ ReopenSeek
           \/ FlushTest \/ StartTimer \/ Release \/ RestartLogging \/ Disable
           \/ Pick \/ CloseOld \/ OpenNewFails \/ Enable \/ UploadBegins
  <2>1. UNCHANGED <<past, log, write_buffer, dropped, retrying, arrived>>
    BY <1>5 DEF SkipRestart, UploadsDone, StopTimer, Disconnected, SendChunk, LastChunkSent,
       ReopenPosition, ReopenClose, ReopenOpen, ReopenSeek, FlushTest, StartTimer,
       Release, RestartLogging, Disable, Pick, CloseOld, OpenNewFails, Enable,
       UploadBegins, NoFrame, fileVars, buffer
  <2> QED
    BY <1>2, <2>1 DEF Kept
<1>6. CASE LoopIdles \/ UNCHANGED vars
  <2>1. UNCHANGED <<past, log, write_buffer, dropped, retrying, arrived>>
    BY <1>6 DEF LoopIdles, vars, fileVars, buffer
  <2> QED
    BY <1>2, <2>1 DEF Kept
<1>7. ~FlushClear /\ ~FrameRetries /\ ~RetrySucceeds
  BY <1>0 DEF FlushClear, FrameRetries, RetrySucceeds, Goes
<1>8. CASE OpenNew
  <2>1. /\ past' = past \o log /\ log' = << >>
        /\ UNCHANGED <<write_buffer, dropped, retrying, arrived>>
    BY <1>8 DEF OpenNew, NoFrame, buffer
  <2>2. Kept' = Kept
    BY <1>0, <2>1, FramesOfConcat, FramesOfOne DEF Kept
  <2> QED
    BY <1>3, <2>1, <2>2
<1>9. CASE FlushPrint
  <2>1. /\ log' = log \o write_buffer
        /\ UNCHANGED <<past, write_buffer, dropped, retrying, arrived>>
    BY <1>0, <1>9, PrintAtEnd DEF FlushPrint
  <2>2. Kept' = Kept
    BY <1>0, <2>1, FramesOfConcat DEF Kept
  <2> QED
    BY <1>3, <2>1, <2>2
<1>10. CASE TimerFlush
  <2>1. /\ log' = log \o write_buffer /\ write_buffer' = << >>
        /\ UNCHANGED <<past, dropped, retrying, arrived>>
    BY <1>0, <1>10, PrintAtEnd DEF TimerFlush, Cleared
  <2>2. Kept' = Kept
    BY <1>0, <2>1, FramesOfConcat, FramesOfOne DEF Kept
  <2> QED
    BY <1>3, <2>1, <2>2
<1>11. CASE PrintHeader
  <2>1. Header(logNo) \in Line(arrived, logNo) /\ Header(logNo).frame = 0
    BY <1>0 DEF Header, Line, TypeInv, ScalarsOK
  <2>2. << Header(logNo) >> \in Seq(Line(arrived, logNo))
    BY <2>1
  <2>3. /\ log' = log \o << Header(logNo) >>
        /\ UNCHANGED <<past, write_buffer, dropped, retrying, arrived>>
    BY <1>0, <1>11, <2>2, PrintAtEnd DEF PrintHeader, NoFrame, buffer
  <2>4. FrameSet(log') = FrameSet(log) \cup {0}
    BY <1>0, <2>1, <2>3, FramesWithOne
  <2>5. Kept' \cup {0} = Kept \cup {0}
    BY <2>3, <2>4 DEF Kept
  <2> QED
    BY <1>3, <2>3, <2>5
<1>12. CASE FrameIgnored \/ FrameOverrun
  <2>1. /\ dropped' = dropped \cup {arrived'} /\ arrived' = arrived + 1
        /\ UNCHANGED <<past, log, write_buffer, retrying>>
    BY <1>12 DEF FrameIgnored, FrameOverrun, Arrive, fileVars, buffer
  <2>2. Kept' \cup {0} = Kept \cup {arrived', 0}
    BY <2>1 DEF Kept
  <2> QED
    BY <1>4, <2>1, <2>2
<1>13. CASE FrameBuffered
  <2>1. /\ write_buffer' = Append(write_buffer, FrameLine(arrived')) /\ arrived' = arrived + 1
        /\ UNCHANGED <<past, log, dropped, retrying>>
    BY <1>13 DEF FrameBuffered, Arrive, fileVars
  <2>2. /\ FrameLine(arrived') \in Line(arrived', logNo) /\ FrameLine(arrived').frame = arrived'
        /\ write_buffer \in Seq(Line(arrived', logNo))
    BY <1>13, ArriveType DEF FrameBuffered, FrameLine, Line, TypeInv, ScalarsOK
  <2>3. /\ write_buffer' = write_buffer \o << FrameLine(arrived') >>
        /\ << FrameLine(arrived') >> \in Seq(Line(arrived', logNo))
    BY <2>1, <2>2
  <2>4. FrameSet(write_buffer') = FrameSet(write_buffer) \cup {arrived'}
    BY <2>2, <2>3, FramesWithOne
  <2>5. Kept' \cup {0} = Kept \cup {arrived', 0}
    BY <2>1, <2>4 DEF Kept
  <2> QED
    BY <1>4, <2>1, <2>5
<1>14. CASE FrameWritten
  <2>1. /\ WriteFrame(arrived', Len(log)) /\ UNCHANGED <<dropped, retrying>>
    BY <1>14 DEF FrameWritten
  <2>2. /\ arrived' \in 1 .. MaxFrames /\ arrived' \in Nat /\ arrived <= arrived' /\ arrived' <= arrived'
        /\ arrived' = arrived + 1
    BY <1>14, ArriveType DEF FrameWritten
  <2>3. FrameSet(past') \cup FrameSet(log') \cup FrameSet(write_buffer') \cup {0}
          = FrameSet(past) \cup FrameSet(log) \cup FrameSet(write_buffer) \cup {arrived', 0}
    BY <2>1, <2>2, WriteKeeps
  <2>4. Kept' \cup {0} = Kept \cup {arrived', 0}
    BY <2>1, <2>3 DEF Kept
  <2> QED
    BY <1>4, <2>2, <2>4
<1> QED
  BY <1>5, <1>6, <1>7, <1>8, <1>9, <1>10, <1>11, <1>12, <1>13, <1>14
     DEF Next, CanInterrupt, MainRuns

\* Whatever the interrupts and the card do, can_callback(), the flushes and the log
\* starts lose a frame only at the three places: the clearing of the buffer by the
\* main program, a file that is not open, and a write elsewhere than at the end.
THEOREM LostAtLossPoints == Spec => LossPoints
<1>1. Spec => []TypeInv
  BY TypeInit, TypeStep, PTL DEF Spec
<1>2. TypeInv /\ [Next]_vars => [Lost' # Lost => main = "clear" \/ ~open \/ at # Len(log)]_vars
  BY LossStep
<1> QED
  BY <1>1, <1>2, PTL DEF Spec, LossPoints

-----------------------------------------------------------------------------
(* The logger is a lossy FIFO.                                             *)

AnyLine == [frame : Nat, log : Nat]

\* The frame numbers of a sequence of lines, one for each line.
LEMMA NumbersType ==
  ASSUME NEW s \in Seq(AnyLine)
  PROVE  /\ Numbers(s) \in Seq(Nat) /\ Len(Numbers(s)) = Len(s) /\ Len(s) \in Nat
         /\ \A i \in 1 .. Len(s) : Numbers(s)[i] = s[i].frame
<1>1. /\ Len(s) \in Nat /\ DOMAIN s = 1 .. Len(s)
      /\ \A i \in 1 .. Len(s) : s[i].frame \in Nat
  <2>1. \A i \in 1 .. Len(s) : s[i] \in AnyLine
    BY ElementOfSeq
  <2>2. Len(s) \in Nat /\ DOMAIN s = 1 .. Len(s)
    BY LenProperties
  <2> QED
    BY <2>1, <2>2 DEF AnyLine
<1>2. Numbers(s) = [i \in 1 .. Len(s) |-> s[i].frame]
  BY <1>1 DEF Numbers
<1>3. Numbers(s) \in [1 .. Len(s) -> Nat]
  BY <1>1, <1>2
<1> QED
  BY <1>1, <1>2, <1>3

LEMMA NumbersOfConcat ==
  ASSUME NEW s \in Seq(AnyLine), NEW t \in Seq(AnyLine)
  PROVE  Numbers(s \o t) = Numbers(s) \o Numbers(t)
<1>1. /\ s \o t \in Seq(AnyLine) /\ Len(s \o t) = Len(s) + Len(t)
      /\ \A i \in 1 .. Len(s) + Len(t) : (s \o t)[i] = IF i <= Len(s) THEN s[i] ELSE t[i - Len(s)]
  BY ConcatProperties
<1>2. /\ Numbers(s) \in Seq(Nat) /\ Len(Numbers(s)) = Len(s) /\ Len(s) \in Nat
      /\ \A i \in 1 .. Len(s) : Numbers(s)[i] = s[i].frame
  BY NumbersType
<1>3. /\ Numbers(t) \in Seq(Nat) /\ Len(Numbers(t)) = Len(t) /\ Len(t) \in Nat
      /\ \A i \in 1 .. Len(t) : Numbers(t)[i] = t[i].frame
  BY NumbersType
<1>4. /\ Numbers(s \o t) \in Seq(Nat) /\ Len(Numbers(s \o t)) = Len(s) + Len(t)
      /\ \A i \in 1 .. Len(s) + Len(t) : Numbers(s \o t)[i] = (s \o t)[i].frame
  BY <1>1, NumbersType
<1>5. /\ Numbers(s) \o Numbers(t) \in Seq(Nat)
      /\ Len(Numbers(s) \o Numbers(t)) = Len(s) + Len(t)
      /\ \A i \in 1 .. Len(s) + Len(t) :
            (Numbers(s) \o Numbers(t))[i] = IF i <= Len(s) THEN Numbers(s)[i] ELSE Numbers(t)[i - Len(s)]
  BY <1>2, <1>3, ConcatProperties
<1>6. \A i \in 1 .. Len(s) + Len(t) : Numbers(s \o t)[i] = (Numbers(s) \o Numbers(t))[i]
  <2> SUFFICES ASSUME NEW i \in 1 .. Len(s) + Len(t)
               PROVE  Numbers(s \o t)[i] = (Numbers(s) \o Numbers(t))[i]
    OBVIOUS
  <2>1. CASE i <= Len(s)
    <3>1. i \in 1 .. Len(s)
      BY <2>1, <1>2, <1>3
    <3> QED
      BY <2>1, <3>1, <1>1, <1>2, <1>4, <1>5
  <2>2. CASE ~(i <= Len(s))
    <3>1. i - Len(s) \in 1 .. Len(t)
      BY <2>2, <1>2, <1>3
    <3> QED
      BY <2>2, <3>1, <1>1, <1>3, <1>4, <1>5
  <2> QED
    BY <2>1, <2>2
<1> QED
  BY <1>4, <1>5, <1>6, SeqEqual

LEMMA NumbersOfNone == Numbers(<< >>) = << >>
<1>1. << >> \in Seq(AnyLine) /\ Len(<< >>) = 0
  OBVIOUS
<1>2. Numbers(<< >>) \in Seq(Nat) /\ Len(Numbers(<< >>)) = 0
  BY <1>1, NumbersType
<1> QED
  BY <1>2, EmptySeq

LEMMA NumbersOfAppend ==
  ASSUME NEW s \in Seq(AnyLine), NEW line \in AnyLine
  PROVE  Numbers(Append(s, line)) = Append(Numbers(s), line.frame)
<1>1. << line >> \in Seq(AnyLine) /\ Len(<< line >>) = 1 /\ << line >>[1] = line
      /\ line.frame \in Nat
  BY DEF AnyLine
<1>2. Numbers(<< line >>) = << line.frame >>
  <2>1. Numbers(<< line >>) \in Seq(Nat) /\ Len(Numbers(<< line >>)) = 1
        /\ Numbers(<< line >>)[1] = line.frame
    <3> DEFINE t == << line >>
    <3>1. t \in Seq(AnyLine) /\ Len(t) = 1 /\ t[1] = line /\ 1 \in 1 .. 1
      BY <1>1
    <3> HIDE DEF t
    <3>2. Numbers(t) \in Seq(Nat) /\ Len(Numbers(t)) = 1 /\ Numbers(t)[1] = line.frame
      BY <3>1, NumbersType
    <3> QED
      BY <3>2 DEF t
  <2>2. << line.frame >> \in Seq(Nat) /\ Len(<< line.frame >>) = 1
        /\ << line.frame >>[1] = line.frame
    BY <1>1
  <2>3. \A i \in 1 .. 1 : i = 1
    OBVIOUS
  <2> QED
    BY <2>1, <2>2, <2>3, SeqEqual
<1>3. Append(s, line) = s \o << line >>
  OBVIOUS
<1>4. Numbers(s) \in Seq(Nat)
  BY NumbersType
<1>5. Append(Numbers(s), line.frame) = Numbers(s) \o << line.frame >>
  BY <1>1, <1>4, AppendIsConcat
<1> QED
  BY <1>1, <1>2, <1>3, <1>5, NumbersOfConcat

\* The lines behind the first p, before and after a line is added.
LEMMA RestOfAppend ==
  ASSUME NEW S, NEW s \in Seq(S), NEW x \in S, NEW p \in 0 .. Len(s)
  PROVE  /\ SubSeq(s, p + 1, Len(s)) \in Seq(S)
         /\ SubSeq(Append(s, x), p + 1, Len(Append(s, x))) = Append(SubSeq(s, p + 1, Len(s)), x)
<1> DEFINE a == Append(s, x)
           rest == SubSeq(s, p + 1, Len(s))
           left == SubSeq(a, p + 1, Len(a))
<1>1. /\ a \in Seq(S) /\ Len(a) = Len(s) + 1 /\ Len(s) \in Nat /\ p + 1 \in Int
      /\ (\A i \in 1 .. Len(s) : a[i] = s[i]) /\ a[Len(s) + 1] = x
  BY AppendProperties
<1> HIDE DEF a
<1>2. /\ rest \in Seq(S) /\ Len(rest) = Len(s) - p
      /\ \A i \in 1 .. Len(s) - p : rest[i] = s[p + i]
  <2>1. \A i \in p + 1 .. Len(s) : s[i] \in S
    BY <1>1
  <2>2. /\ rest \in Seq(S)
        /\ Len(rest) = IF p + 1 <= Len(s) THEN Len(s) - (p + 1) + 1 ELSE 0
        /\ \A i \in 1 .. Len(s) - (p + 1) + 1 : rest[i] = s[(p + 1) + i - 1]
    BY <2>1, <1>1, SubSeqProperties
  <2>3. \A i \in 1 .. Len(s) - p : (p + 1) + i - 1 = p + i /\ i \in 1 .. Len(s) - (p + 1) + 1
    BY <1>1
  <2> HIDE DEF rest
  <2> QED
    BY <1>1, <2>2, <2>3
<1>3. /\ left \in Seq(S) /\ Len(left) = Len(s) + 1 - p
      /\ \A i \in 1 .. Len(s) + 1 - p : left[i] = a[p + i]
  <2>1. \A i \in p + 1 .. Len(a) : a[i] \in S
    BY <1>1
  <2>2. /\ left \in Seq(S)
        /\ Len(left) = IF p + 1 <= Len(a) THEN Len(a) - (p + 1) + 1 ELSE 0
        /\ \A i \in 1 .. Len(a) - (p + 1) + 1 : left[i] = a[(p + 1) + i - 1]
    BY <2>1, <1>1, SubSeqProperties
  <2>3. \A i \in 1 .. Len(s) + 1 - p : (p + 1) + i - 1 = p + i /\ i \in 1 .. Len(a) - (p + 1) + 1
    BY <1>1
  <2> HIDE DEF left
  <2> QED
    BY <1>1, <2>2, <2>3
<1> HIDE DEF rest, left
<1>4. /\ Append(rest, x) \in Seq(S) /\ Len(Append(rest, x)) = Len(s) - p + 1
      /\ (\A i \in 1 .. Len(s) - p : Append(rest, x)[i] = rest[i])
      /\ Append(rest, x)[Len(s) - p + 1] = x
  BY <1>2, AppendProperties
<1>5. \A i \in 1 .. Len(left) : left[i] = Append(rest, x)[i]
  <2> SUFFICES ASSUME NEW i \in 1 .. Len(left) PROVE left[i] = Append(rest, x)[i]
    OBVIOUS
  <2>1. CASE i = Len(s) - p + 1
    BY <2>1, <1>1, <1>3, <1>4
  <2>2. CASE i \in 1 .. Len(s) - p
    <3>1. p + i \in 1 .. Len(s) /\ i \in 1 .. Len(s) + 1 - p
      BY <2>2, <1>1
    <3> QED
      BY <2>2, <3>1, <1>1, <1>2, <1>3, <1>4
  <2>3. i \in 1 .. Len(s) + 1 - p
    BY <1>3
  <2>4. i = Len(s) - p + 1 \/ i \in 1 .. Len(s) - p
    BY <2>3, <1>1
  <2> QED
    BY <2>1, <2>2, <2>4
<1>6. left = Append(rest, x)
  BY <1>1, <1>3, <1>4, <1>5, SeqEqual
<1> QED
  BY <1>2, <1>6 DEF left, rest, a

LEMMA AnyLines ==
  ASSUME NEW a \in Nat, NEW n \in Nat
  PROVE  Line(a, n) \subseteq AnyLine /\ Seq(Line(a, n)) \subseteq Seq(AnyLine)
<1>1. Line(a, n) \subseteq AnyLine
  BY DEF Line, AnyLine
<1> QED
  BY <1>1, SeqMonotonic

\* What is held, with a ready card: the buffer behind the lines that were printed.
LEMMA HeldWithoutRetry ==
  ASSUME NEW s \in Seq(AnyLine), NEW p \in 0 .. Len(s)
  PROVE  /\ SubSeq(s, p + 1, Len(s)) \in Seq(AnyLine)
         /\ Numbers(SubSeq(s, p + 1, Len(s))) \o << >> = Numbers(SubSeq(s, p + 1, Len(s)))
         /\ p = 0 => SubSeq(s, p + 1, Len(s)) = s
         /\ p = Len(s) => Numbers(SubSeq(s, p + 1, Len(s))) = << >>
<1> DEFINE rest == SubSeq(s, p + 1, Len(s))
<1>1. Len(s) \in Nat /\ p + 1 \in Int /\ p + 1 >= 1 /\ (\A i \in 1 .. Len(s) : s[i] \in AnyLine)
  BY LenProperties, ElementOfSeq
<1>2. \A i \in p + 1 .. Len(s) : s[i] \in AnyLine
  BY <1>1
<1>3. rest \in Seq(AnyLine)
  BY <1>1, <1>2, SubSeqProperties
<1>4. p = 0 => rest = s
  BY SubSeqFull
<1>5. p = Len(s) => rest = << >>
  BY <1>1, SubSeqEmpty
<1> HIDE DEF rest
<1>6. Numbers(rest) \o << >> = Numbers(rest)
  BY <1>3, NumbersType, ConcatEmptySeq
<1> QED
  BY <1>3, <1>4, <1>5, <1>6, NumbersOfNone DEF rest

LEMMA FifoStart == Init => Fifo!Init
<1> SUFFICES ASSUME Init PROVE Fifo!Init
  OBVIOUS
<1>1. arrived = 0 /\ retrying = 0 /\ printed = 0 /\ write_buffer = << >> /\ past = << >> /\ log = << Header(1) >>
  BY DEF Init
<1>2. Header(1) \in AnyLine /\ Header(1).frame = 0 /\ << >> \in Seq(AnyLine) /\ Len(<< >>) = 0
  BY DEF Header, AnyLine
<1>3. Held = << >>
  <2> DEFINE none == << >>
  <2>1. none \in Seq(AnyLine) /\ Len(none) = 0 /\ 0 \in 0 .. Len(none)
    BY <1>2
  <2>2. Held = Numbers(SubSeq(none, 0 + 1, Len(none))) \o << >>
    BY <1>1 DEF Held
  <2> HIDE DEF none
  <2> QED
    BY <2>1, <2>2, HeldWithoutRetry
<1>4. past \o log = Append(<< >>, Header(1))
  BY <1>1, <1>2
<1>5. Recorded = Append(<< >>, 0)
  BY <1>2, <1>4, NumbersOfAppend, NumbersOfNone DEF Recorded
<1> QED
  BY <1>1, <1>3, <1>5 DEF Fifo!Init

\* Each interrupt and each step of the main program does to the frames recorded
\* and held what the lossy FIFO may do, or nothing.
LEMMA FifoStep ==
  ASSUME IOErrors = FALSE, TypeInv, EndInv, [Next]_vars
  PROVE  [Fifo!Next]_(Fifo!vars)
<1> DEFINE held(s, p) == Numbers(SubSeq(s, p + 1, Len(s)))
<1>0. /\ arrived \in Nat /\ logNo \in Nat /\ Len(log) \in Nat /\ retrying = 0 /\ main \in Control
      /\ Line(arrived, logNo) \subseteq AnyLine
      /\ past \in Seq(AnyLine) /\ log \in Seq(AnyLine) /\ write_buffer \in Seq(AnyLine)
      /\ printed \in 0 .. Len(write_buffer) /\ Len(write_buffer) \in Nat
  BY NoRetry, AnyLines, PathAssumption DEF TypeInv, ScalarsOK, SeqsOK
<1>1. Held = held(write_buffer, printed)
  BY <1>0, HeldWithoutRetry DEF Held
<1>2. printed = 0 => Held = Numbers(write_buffer)
  BY <1>0, <1>1, HeldWithoutRetry
<1>3. Recorded = Numbers(past) \o Numbers(log)
  BY <1>0, NumbersOfConcat DEF Recorded
<1>4. /\ Numbers(past) \in Seq(Nat) /\ Numbers(log) \in Seq(Nat) /\ Numbers(write_buffer) \in Seq(Nat)
      /\ past \o log \in Seq(AnyLine) /\ Recorded \in Seq(Nat)
  BY <1>0, <1>3, NumbersType, ConcatProperties
<1>5. ASSUME retrying' = 0, write_buffer' = << >>, printed' = 0
      PROVE  Held' = << >>
  <2> DEFINE none == << >>
  <2>1. none \in Seq(AnyLine) /\ Len(none) = 0 /\ 0 \in 0 .. Len(none)
    OBVIOUS
  <2>2. Held' = held(none, 0) \o << >>
    BY <1>5 DEF Held
  <2> HIDE DEF none
  <2> QED
    BY <2>1, <2>2, HeldWithoutRetry
<1>6. CASE \/ SkipRestart \/ UploadsDone \/ StopTimer \/ Disconnected \/ SendChunk
           \/ LastChunkSent \/ ReopenPosition \/ ReopenClose \/ ReopenOpen \/ ReopenSeek
           \/ FlushTest \/ StartTimer \/ Release \/ RestartLogging \/ Disable
           \/ Pick \/ CloseOld \/ OpenNewFails \/ Enable \/ UploadBegins
  <2>1. UNCHANGED <<past, log, write_buffer, printed, retrying, arrived>>
    BY <1>6 DEF SkipRestart, UploadsDone, StopTimer, Disconnected, SendChunk, LastChunkSent,
       ReopenPosition, ReopenClose, ReopenOpen, ReopenSeek, FlushTest, StartTimer,
       Release, RestartLogging, Disable, Pick, CloseOld, OpenNewFails, Enable,
       UploadBegins, NoFrame, fileVars, buffer
  <2> QED
    BY <2>1 DEF Held, Recorded, Fifo!vars
<1>7. CASE LoopIdles \/ UNCHANGED vars
  <2>1. UNCHANGED <<past, log, write_buffer, printed, retrying, arrived>>
    BY <1>7 DEF LoopIdles, vars, fileVars, buffer
  <2> QED
    BY <2>1 DEF Held, Recorded, Fifo!vars
<1>8. ~FrameRetries /\ ~RetrySucceeds
  BY <1>0 DEF RetrySucceeds, FrameRetries, TypeInv, ControlInv, EndInv, Sending, Starting
<1>9. CASE OpenNew
  <2>1. /\ past' \o log' = (past \o log) \o << >>
        /\ UNCHANGED <<write_buffer, printed, retrying, arrived>>
    BY <1>9 DEF OpenNew, NoFrame, buffer
  <2>2. past' \o log' = past \o log
    BY <1>4, <2>1, ConcatEmptySeq
  <2> QED
    BY <2>1, <2>2 DEF Held, Recorded, Fifo!vars
<1>10. CASE FlushClear
  <2>1. UNCHANGED <<past, log, retrying, arrived>> /\ write_buffer' = << >> /\ printed' = 0
    BY <1>10 DEF FlushClear, Cleared, fileVars
  <2>2. Held' = << >> /\ Recorded' = Recorded
    BY <1>0, <1>5, <2>1 DEF Recorded
  <2> QED
    BY <2>1, <2>2 DEF Fifo!Next, Fifo!LoseHeld
<1>11. ASSUME open, at = Len(log), PrintLines(write_buffer), printed = 0,
              UNCHANGED <<past, arrived>>, Held' = << >>
       PROVE  Fifo!RecordHeld
  <2>1. log' = log \o write_buffer
    BY <1>0, <1>11, PrintAtEnd
  <2>2. past' \o log' = (past \o log) \o write_buffer
    BY <1>0, <1>11, <2>1, ConcatAssociative
  <2>3. Recorded' = Recorded \o Held
    BY <1>0, <1>2, <1>4, <1>11, <2>2, NumbersOfConcat DEF Recorded
  <2>4. Recorded \o Held \in Seq(Nat)
    BY <1>2, <1>4, <1>11, ConcatProperties
  <2>5. Recorded' = Recorded \o Held \o << >>
    BY <2>3, <2>4, ConcatEmptySeq
  <2> QED
    BY <1>11, <2>5 DEF Fifo!RecordHeld, Fifo!Record
<1>12. CASE FlushPrint
  <2>1. /\ open /\ at = Len(log) /\ printed = 0
        /\ PrintLines(write_buffer) /\ printed' = Len(write_buffer)
        /\ UNCHANGED <<past, arrived, write_buffer, retrying>>
    BY <1>12 DEF FlushPrint, Goes, EndInv, TypeInv, ControlInv
  <2>2. Held' = held(write_buffer, Len(write_buffer)) \o << >>
    BY <1>0, <2>1 DEF Held
  <2>3. Held' = << >>
    BY <1>0, <2>2, HeldWithoutRetry
  <2> QED
    BY <1>11, <2>1, <2>3 DEF Fifo!Next
<1>13. CASE TimerFlush
  <2>1. /\ timerOn /\ retrying' = 0 /\ write_buffer' = << >> /\ printed' = 0
        /\ PrintLines(write_buffer) /\ UNCHANGED <<past, arrived>>
    BY <1>0, <1>13 DEF TimerFlush, Cleared
  <2>2. main # "clear" /\ printed = 0
    BY <2>1 DEF TypeInv, ControlInv, Sending, Untimed
  <2>3. Held' = << >>
    BY <1>5, <2>1
  <2>4. CASE open
    BY <1>11, <2>1, <2>2, <2>3, <2>4 DEF EndInv, Fifo!Next
  <2>5. CASE ~open
    <3>1. Recorded' = Recorded
      BY <2>1, <2>5 DEF PrintLines, Recorded
    <3> QED
      BY <2>1, <2>3, <3>1 DEF Fifo!Next, Fifo!LoseHeld
  <2> QED
    BY <2>4, <2>5
<1>14. CASE PrintHeader
  <2>1. /\ open /\ at = Len(log) /\ PrintLines(<< Header(logNo) >>)
        /\ UNCHANGED <<past, write_buffer, printed, retrying, arrived>>
    BY <1>14 DEF PrintHeader, Goes, EndInv, NoFrame, buffer
  <2>2. Header(logNo) \in AnyLine /\ Header(logNo).frame = 0 /\ << Header(logNo) >> \in Seq(AnyLine)
    BY <1>0 DEF Header, AnyLine
  <2>3. log' = log \o << Header(logNo) >>
    BY <1>0, <2>1, <2>2, PrintAtEnd
  <2>4. past' \o log' = (past \o log) \o << Header(logNo) >>
    BY <1>0, <2>1, <2>2, <2>3, ConcatAssociative
  <2>5. past' \o log' = Append(past \o log, Header(logNo))
    BY <1>4, <2>2, <2>4, AppendIsConcat
  <2>6. Recorded' = Append(Recorded, 0)
    BY <1>4, <2>2, <2>5, NumbersOfAppend DEF Recorded
  <2>7. Held' = Held
    BY <2>1 DEF Held
  <2> QED
    BY <2>1, <2>6, <2>7 DEF Fifo!Next, Fifo!BeginLog
<1>15. CASE FrameIgnored \/ FrameOverrun
  <2>1. arrived' = arrived + 1 /\ UNCHANGED <<past, log, write_buffer, printed, retrying>>
    BY <1>15 DEF FrameIgnored, FrameOverrun, Arrive, fileVars, buffer
  <2> QED
    BY <2>1 DEF Held, Recorded, Fifo!Next, Fifo!Refuse
<1>16. CASE FrameBuffered
  <2>1. /\ write_buffer' = Append(write_buffer, FrameLine(arrived')) /\ arrived' = arrived + 1
        /\ UNCHANGED <<past, log, printed, retrying>>
    BY <1>16 DEF FrameBuffered, Arrive, fileVars
  <2>2. FrameLine(arrived') \in AnyLine /\ FrameLine(arrived').frame = arrived'
    BY <1>0, <2>1 DEF FrameLine, AnyLine, TypeInv, ScalarsOK
  <2>3. write_buffer' \in Seq(AnyLine) /\ Len(write_buffer') = Len(write_buffer) + 1
        /\ printed' \in 0 .. Len(write_buffer')
    BY <1>0, <2>1, <2>2, AppendProperties
  <2>4. Held' = held(write_buffer', printed')
    BY <1>0, <2>1, <2>3, HeldWithoutRetry DEF Held
  <2>5. Held' = Numbers(Append(SubSeq(write_buffer, printed + 1, Len(write_buffer)), FrameLine(arrived')))
    BY <1>0, <2>1, <2>2, <2>4, RestOfAppend
  <2>6. Held' = Append(Held, arrived')
    BY <1>0, <1>1, <2>2, <2>5, HeldWithoutRetry, NumbersOfAppend
  <2>7. Recorded' = Recorded
    BY <2>1 DEF Recorded
  <2> QED
    BY <2>1, <2>6, <2>7 DEF Fifo!Next, Fifo!Accept
<1>17. CASE FrameWritten
  <2>1. /\ WriteFrame(arrived', Len(log)) /\ retrying' = 0 /\ main # "clear"
    BY <1>0, <1>17 DEF FrameWritten, TypeInv, ControlInv, EndInv, Sending
  <2>2. /\ arrived' \in 1 .. MaxFrames /\ arrived' \in Nat /\ arrived <= arrived' /\ arrived' <= arrived'
        /\ arrived' = arrived + 1
    BY <1>17, ArriveType DEF FrameWritten
  <2> DEFINE lines == BufferAndLine(arrived')
             file  == log \o lines
  <2>3. /\ write_buffer' = << >> /\ printed' = 0
        /\ \/ past' = past \o file /\ log' = << Header(logNo') >>
           \/ past' = past /\ log' = file
    BY <2>1, <2>2, WriteAtEnd
  <2>4. Held' = << >> /\ Held = Numbers(write_buffer)
    BY <1>2, <1>5, <2>1, <2>3 DEF TypeInv, ControlInv
  <2>5. FrameLine(arrived') \in AnyLine /\ FrameLine(arrived').frame = arrived'
    BY <1>0, <2>2 DEF FrameLine, AnyLine, TypeInv, ScalarsOK
  <2>6. lines \in Seq(AnyLine) /\ Numbers(lines) = Append(Held, arrived')
    BY <1>0, <2>4, <2>5, NumbersOfAppend, AppendProperties DEF BufferAndLine
  <2> HIDE DEF lines
  <2>7. past \o file = (past \o log) \o lines /\ past \o file \in Seq(AnyLine) /\ file \in Seq(AnyLine)
    <3>1. file \in Seq(AnyLine)
      BY <1>0, <2>6, ConcatProperties
    <3>2. past \o file = (past \o log) \o lines
      <4>1. past \in Seq(AnyLine) /\ log \in Seq(AnyLine) /\ lines \in Seq(AnyLine)
        BY <1>0, <2>6
      <4>2. (past \o log) \o lines = past \o (log \o lines)
        BY ONLY <4>1, ConcatAssociative
      <4> QED
        BY <4>2
    <3> HIDE DEF file
    <3> QED
      BY <1>0, <3>1, <3>2, ConcatProperties
  <2>8. Numbers(past \o file) = Recorded \o Append(Held, arrived')
    BY <1>4, <2>6, <2>7, NumbersOfConcat DEF Recorded
  <2>9. Numbers(past \o file) \in Seq(Nat)
    BY <2>7, NumbersType
  <2> HIDE DEF file
  <2>10. \E begin \in {<< >>, << 0 >>} : Recorded' = Recorded \o Append(Held, arrived') \o begin
    <3>1. CASE past' = past \o file /\ log' = << Header(logNo') >>
      <4>1. logNo' \in Nat /\ Header(logNo') \in AnyLine /\ Header(logNo').frame = 0
        <5>1. TypeInv'
          BY TypeStep
        <5>2. logNo' \in Nat
          BY <5>1, PathAssumption DEF TypeInv, ScalarsOK
        <5> QED
          BY <5>2 DEF Header, AnyLine
      <4>2. past' \o log' = Append(past \o file, Header(logNo'))
        BY <3>1, <2>7, <4>1, AppendIsConcat
      <4>3. Recorded' = Append(Numbers(past \o file), 0)
        BY <2>7, <4>1, <4>2, NumbersOfAppend DEF Recorded
      <4>4. Recorded' = Numbers(past \o file) \o << 0 >>
        BY <2>9, <4>3, AppendIsConcat
      <4> QED
        BY <2>8, <4>4
    <3>2. CASE past' = past /\ log' = file
      <4>1. Recorded' = Numbers(past \o file) \o << >>
        BY <2>9, <3>2, ConcatEmptySeq DEF Recorded
      <4> QED
        BY <2>8, <4>1
    <3> QED
      BY <2>3, <3>1, <3>2
  <2> QED
    BY <2>2, <2>4, <2>10 DEF Fifo!Next, Fifo!AcceptAndRecord, Fifo!Record
<1> QED
  BY <1>6, <1>7, <1>8, <1>9, <1>10, <1>12, <1>13, <1>14, <1>15, <1>16, <1>17
     DEF Next, CanInterrupt, MainRuns

\* With a card that is always ready, can_callback(), the flushes, the uploads and
\* the log starts together do no more to the frames than a lossy FIFO: refuse one,
\* record or lose all that are held.
THEOREM ImplementsLossyFifo == ASSUME IOErrors = FALSE PROVE Spec => IsLossyFifo
<1>1. Spec => []TypeInv
  BY TypeInit, TypeStep, PTL DEF Spec
<1>2. EndInv /\ TypeInv /\ [Next]_vars => EndInv'
  BY EndStep
<1>3. Spec => []EndInv
  BY <1>1, <1>2, EndInit, PTL DEF Spec
<1>4. TypeInv /\ EndInv /\ [Next]_vars => [Fifo!Next]_(Fifo!vars)
  BY FifoStep
<1> QED
  BY <1>1, <1>3, <1>4, FifoStart, PTL DEF Spec, IsLossyFifo, Fifo!Spec

-----------------------------------------------------------------------------
(* Frames are recorded in order.                                           *)

FP == INSTANCE LossyFifo_proofs WITH sent <- arrived, pending <- Held, recorded <- Recorded

\* What the lossy FIFO keeps, the logger keeps: with a card that is always ready
\* no frame is recorded twice or behind a later one, although the uploader prints
\* the buffer while the interrupts fill it and reopens the file they write to.
THEOREM FramesAlwaysInOrder == ASSUME IOErrors = FALSE PROVE Spec => []FramesInOrder
<1>1. Spec => IsLossyFifo
  BY ImplementsLossyFifo
<1>2. IsLossyFifo <=> FP!Spec
  BY DEF IsLossyFifo, Fifo!Spec, FP!Spec, Fifo!Init, FP!Init, Fifo!Next, FP!Next, Fifo!vars, FP!vars,
     Fifo!Accept, FP!Accept, Fifo!Refuse, FP!Refuse, Fifo!AcceptAndRecord, FP!AcceptAndRecord,
     Fifo!RecordHeld, FP!RecordHeld, Fifo!BeginLog, FP!BeginLog, Fifo!LoseHeld, FP!LoseHeld,
     Fifo!Record, FP!Record
<1>3. FP!InOrder => FramesInOrder
  BY DEF FramesInOrder, Fifo!InOrder, FP!InOrder
<1>4. FP!Spec => []FP!InOrder
  BY FP!FifoInOrder
<1> QED
  BY <1>1, <1>2, <1>3, <1>4, PTL
=============================================================================
