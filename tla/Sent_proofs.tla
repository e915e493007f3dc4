----------------------------- MODULE Sent_proofs -----------------------------
(***************************************************************************)
(* What the server has: theorems about Uploader in the first round of the  *)
(* log numbers, until they start again or an uploaded log is deleted.      *)
(***************************************************************************)
EXTENDS Uploader_proofs

\* Without overwriting; a cell that was never written exceeds the last log number
\* and the number after it.
NoOverwriting ==
  /\ Configs = {FALSE}
  /\ 1 < MaxLog /\ MaxLog + 1 < Erased

\* The control points from the constructor of the uploader to its end.
Working == {"connected", "synced"} \cup Uploading

\* start_log() has its name, or has ended since the power came.
Named == {"open", "header", "logging", "stopped"}

-----------------------------------------------------------------------------
(* The invariant.                                                          *)

\* Nothing but three-digit names is in use.
NamesInv ==
  /\ name.lead = 0
  /\ \A f \in DOMAIN card : f.lead = 0 /\ f.low \in 1 .. MaxLog

\* A log that the uploader is done with.
Settled(f) == f \in DOMAIN card /\ f \in DOMAIN server \cup skipped

\* The logs below the number in EEPROM are settled, and what the server has is
\* what is on the card.
CountedInv ==
  /\ upc \notin {"load", "store", "put"}
  /\ upc # "off" => pc \notin {"off", "idle"}
  /\ \A p \in Pending : p.cell = "upNext" => p.val = 1 /\ (upc \in Working => upNext = 1)
  /\ upc \in Working => upNext >= 1 /\ ee["upNext"] = upNext
  /\ ee["upNext"] >= 1
  /\ ee["upNext"] = Erased \/ \A n \in 1 .. ee["upNext"] - 1 : Settled(LogFile(n))
  /\ upc = "count" => Settled(upName)
  /\ upc = "send" => fileSize = SizeOf(upName)
  /\ \A f \in DOMAIN server : f \in DOMAIN card /\ server[f] = SizeOf(f)

\* A device is in one of three stages.  The card is full: nothing is logged.
FullInv == free < MinFree /\ pc \in {"off", "idle", "space", "stopped"}

\* The logs on the card carry the numbers from 1 on.
Consecutive == \A f \in DOMAIN card : \A n \in 1 .. f.low : LogFile(n) \in DOMAIN card

\* The first number is not stored yet: the device has logged nothing, or its
\* first lines, and the uploader finds nothing to do.
YoungLogger ==
  /\ ee["first"] \in {0, Erased} /\ ee["next"] \in {1, Erased}
  /\ Consecutive
  /\ \A p \in Pending : /\ p.cell \in {"next", "upNext"} => p.val = 1
                        /\ p.cell = "upMax" => p.val = 0
                        /\ p.cell = "first" => p.val = first
  /\ pc # "off" => next = 1
  /\ pc # "search"
  /\ pc # "logging" => first = 0
  /\ pc = "logging" => first = 1 /\ puts = << Put("first", 1) >>
  /\ pc \in Named => Synced("next", 1) /\ Synced("upNext", 1) /\ Synced("upMax", 0)
  /\ pc \in {"open", "header", "logging"} => name = LogFile(1)
  /\ pc \in {"header", "logging"} => name \in DOMAIN card

YoungUploader ==
  /\ DOMAIN server = {} /\ skipped = {}
  /\ upc \in {"off", "connected", "synced", "done"}
  /\ upc \in {"connected", "synced"} => upNext = 1 /\ upMax = 0

\* The number of the log before number n is taken; a reset starts with number 1
\* and leaves it in place.
LogBefore(n) == IF n = 1 THEN 1 ELSE n - 1

\* The first number is 1 for good, so no reset follows while the power stays: numbers
\* only grow, and the log being written is the last one.
GrownLogger ==
  /\ ee["first"] = 1 /\ LogFile(1) \in DOMAIN card
  /\ pc # "off" =>
       first = 1 /\ next \in 1 .. MaxLog + 1 /\ ee["next"] <= next /\ Synced("next", next)
  /\ \A p \in Pending : \/ p.cell = "next" /\ pc = "open"
                        \/ p.cell = "upMax" /\ ee["next"] # 1
  /\ pc = "off" => puts = << >>
  /\ ee["next"] \in 1 .. MaxLog + 1 /\ ee["next"] # 2
  /\ ee["next"] = 1 => Consecutive /\ ee["upMax"] = 0
  /\ ee["next"] # 1 => \A f \in DOMAIN card : f.low < ee["next"]
  /\ pc = "search" => next = 1 /\ toTry \in 2 .. MaxLog /\ LogFile(toTry - 1) \in DOMAIN card
  /\ pc = "open" => next >= 3 /\ name = LogFile(next - 1) /\ \A f \in DOMAIN card : f.low < next - 1
  /\ pc \in {"header", "logging"} => name = LogFile(LogBefore(next)) /\ name \in DOMAIN card
  /\ pc \in {"header", "logging", "stopped"} => Synced("upMax", next - 1)

\* All that the uploader works on lies before the log being written.
GrownUploader ==
  /\ pc \in {"header", "logging"} => name \notin DOMAIN server
  /\ ee["upNext"] <= LogBefore(ee["next"])
  /\ upc = "off" /\ pc \in Named => ee["upNext"] <= LogBefore(LogBefore(next))
  /\ upc \in Working => upMax <= next - 1
  /\ upc \in Working /\ upNext <= upMax =>
        /\ upNext < next
        /\ pc \in Named => upNext < next - 1

StageInv == FullInv \/ (YoungLogger /\ YoungUploader) \/ (GrownLogger /\ GrownUploader)

SentInv == ~renumbered => NamesInv /\ CountedInv /\ StageInv

-----------------------------------------------------------------------------
(* Names.                                                                  *)

\* Up to the last log number a name is the number, and stays so in a buffer that
\* held another one.
LEMMA ShortNames ==
  /\ \A n \in 0 .. MaxLog : LogFile(n) = [lead |-> 0, low |-> n]
  /\ \A n \in 0 .. MaxLog, buf \in FileNames : buf.lead = 0 => SetName(n, buf) = LogFile(n)
<1>1. ASSUME NEW n \in 0 .. MaxLog, NEW buf \in FileNames, buf.lead = 0
      PROVE  SetName(n, buf) = [lead |-> 0, low |-> n]
  <2>1. SetName(n, buf) = [buf EXCEPT !.low = n]
    BY NumberAssumption DEF SetName
  <2>2. buf = [lead |-> 0, low |-> buf.low]
    BY <1>1 DEF FileNames
  <2> QED
    BY <2>1, <2>2
<1>2. DefaultName \in FileNames /\ DefaultName.lead = 0
  BY DefaultNameType DEF DefaultName
<1> QED
  BY <1>1, <1>2 DEF LogFile

\* Different numbers, different logs.
LEMMA NamesDiffer ==
  ASSUME NEW m \in 0 .. MaxLog, NEW n \in 0 .. MaxLog, LogFile(m) = LogFile(n)
  PROVE  m = n
<1>1. LogFile(m).low = m /\ LogFile(n).low = n
  BY ShortNames
<1> QED
  BY <1>1

\* A file on the card has the name of its number.
LEMMA NameOfFile ==
  ASSUME TypeInv, NamesInv, NEW f \in DOMAIN card
  PROVE  f = LogFile(f.low) /\ f.low \in 1 .. MaxLog
<1>1. f \in FileNames /\ f.lead = 0 /\ f.low \in 1 .. MaxLog
  BY DEF TypeInv, CardOK, NamesInv
<1>2. f = [lead |-> 0, low |-> f.low]
  BY <1>1 DEF FileNames
<1> QED
  BY <1>1, <1>2, ShortNames, NumberAssumption

-----------------------------------------------------------------------------
(* Stored numbers.                                                         *)

\* What each way of setting puts means for a cell.
LEMMA PutsEffect ==
  /\ puts' = puts => \A c, v : ee'[c] = ee[c] => (Synced(c, v)' <=> Synced(c, v))
  /\ puts' = << >> => \A c, v : Synced(c, v)' <=> ee'[c] = v
  /\ \A c, v : puts' = << Put(c, v) >> =>
        Synced(c, v)' /\ \A d, w : d # c /\ ee'[d] = w => Synced(d, w)'
  BY PutsPending DEF Synced, Put

\* A put brings one cell to the value it waits for, and all others stay.
LEMMA PutDone ==
  ASSUME TypeInv, EepromPut
  PROVE  \E p \in Pending :
           /\ p.cell \in Cells /\ p.val \in Nat
           /\ ee' = [ee EXCEPT ![p.cell] = p.val]
           /\ ee'[p.cell] = p.val
           /\ \A c \in Cells : c # p.cell => ee'[c] = ee[c]
           /\ Pending' \subseteq Pending
           /\ \A c \in Cells : \A v : Synced(c, v) => Synced(c, v)'
<1>1. PICK p \in [cell : Cells, val : Nat] :
        /\ p \in Pending /\ ee' = [ee EXCEPT ![p.cell] = p.val]
        /\ Pending' \subseteq Pending /\ Pending \subseteq Pending' \cup {p}
  BY PutTaken DEF TypeInv
<1>2. p.cell \in Cells /\ p.val \in Nat
  BY <1>1
<1>3. ee \in [Cells -> Nat]
  BY DEF TypeInv, NumbersOK
<1>4. ee'[p.cell] = p.val /\ \A c \in Cells : c # p.cell => ee'[c] = ee[c]
  BY <1>1, <1>2, <1>3
<1>5. ASSUME NEW c \in Cells, NEW v, Synced(c, v) PROVE Synced(c, v)'
  BY <1>1, <1>4, <1>5 DEF Synced
<1> QED
  BY <1>1, <1>2, <1>4, <1>5

\* ResetPuts leaves these values pending.
LEMMA ResetPending ==
  ASSUME puts' = ResetPuts
  PROVE  /\ \A p \in Pending' : /\ p.cell \in {"next", "upNext"} => p.val = 1
                                /\ p.cell \in {"first", "upMax"} => p.val = 0
         /\ Synced("next", 1)' /\ Synced("upNext", 1)' /\ Synced("upMax", 0)'
<1>1. Pending' = {Put("next", 1), Put("first", 0), Put("upNext", 1), Put("upMax", 0)}
  BY PutsPending
<1> QED
  BY <1>1 DEF Synced, Put

-----------------------------------------------------------------------------
(* Files.                                                                  *)

\* The logger removes nothing, and only the log being written grows.
LEMMA SizesKept ==
  ASSUME NoOverwriting, DeliveryInv, LoggerStep
  PROVE  /\ DOMAIN card \subseteq DOMAIN card'
         /\ DOMAIN card' # DOMAIN card =>
              pc = "open" /\ name \notin DOMAIN card /\ DOMAIN card' = DOMAIN card \cup {name}
         /\ \A f \in DOMAIN card :
              f # name \/ pc \notin {"header", "logging"} => card'[f] = card[f]
<1>1. CASE EepromPut \/ PowerOn \/ BootStarts
  BY <1>1 DEF EepromPut, PowerOn, BootStarts, StartAtBoot, disk
<1>2. CASE LineWritten \/ FlushBuffered
  BY <1>2 DEF LineWritten, WriteLine, FlushBuffered, WriteBuffered, Grow
<1>3. CASE InStartLog
  <2>1. CASE SpaceEnough \/ SpaceDenied \/ PickReset \/ PickNext \/ PickSearch
    BY <2>1 DEF SpaceEnough, SpaceDenied, PickReset, PickNext, PickSearch, disk
  <2>2. CASE SearchFound \/ SearchOn \/ SearchFull \/ OpenFails
    BY <2>2 DEF SearchFound, SearchOn, SearchFull, OpenFails, disk
  <2>3. CASE OpenLog
    <3>1. CASE name \in DOMAIN card
      BY <2>3, <3>1 DEF OpenLog, Exists
    <3>2. CASE name \notin DOMAIN card
      BY <2>3, <3>2 DEF OpenLog, Exists
    <3> QED
      BY <3>1, <3>2
  <2>4. CASE WriteHeader
    BY <2>4 DEF WriteHeader
  <2>5. ~DeleteOldest /\ ~PickOverwriting /\ ~SearchOverwrite
    BY DEF DeliveryInv, DeleteOldest, PickOverwriting, SearchOverwrite, MayRemove, Shortcut
  <2> QED
    BY <1>3, <2>1, <2>2, <2>3, <2>4, <2>5 DEF InStartLog
<1> QED
  BY <1>1, <1>2, <1>3 DEF LoggerStep

\* A step of the logger neither unsettles a log nor makes one known.
LEMMA SettledStays ==
  ASSUME NoOverwriting, DeliveryInv, LoggerStep
  PROVE  /\ ~renumbered' => \A f : Settled(f) => Settled(f)'
         /\ DOMAIN server' \subseteq DOMAIN server
         /\ \A f \in DOMAIN server' : server'[f] = server[f]
         /\ skipped' \subseteq skipped
         /\ renumbered' = (renumbered \/ NumbersStartAgain)
         /\ upc' = upc /\ upNext' = upNext /\ upMax' = upMax /\ upName' = upName
         /\ fileSize' = fileSize
<1>1. /\ NewLogsUnknown /\ UNCHANGED upRam
      /\ renumbered' = (renumbered \/ NumbersStartAgain)
  BY DEF LoggerStep, History
<1>2. DOMAIN card \subseteq DOMAIN card'
  BY SizesKept
<1>3. /\ DOMAIN server' = DOMAIN server \ (DOMAIN card' \ DOMAIN card)
      /\ \A f \in DOMAIN server' : server'[f] = server[f]
      /\ skipped' = IF renumbered' THEN {} ELSE skipped \ (DOMAIN card' \ DOMAIN card)
  BY <1>1 DEF NewLogsUnknown
<1> QED
  BY <1>1, <1>2, <1>3 DEF Settled, upRam

-----------------------------------------------------------------------------
(* The stages, as the logger goes on.                                      *)

\* Without overwriting, these branches of start_log() are not taken.
LEMMA NothingRemoved ==
  ASSUME DeliveryInv
  PROVE  ~DeleteOldest /\ ~PickOverwriting /\ ~SearchOverwrite /\ ~Shortcut /\ ~MayRemove
  BY DEF DeliveryInv, DeleteOldest, PickOverwriting, SearchOverwrite, MayRemove, Shortcut

\* The logger steps that leave the card and the name of the log alone.
LEMMA NamesKept ==
  ASSUME NamesInv, name' = name \/ name'.lead = 0, DOMAIN card' = DOMAIN card
  PROVE  NamesInv'
  BY DEF NamesInv

\* A full card stays full: start_log() finds no space.
LEMMA FullLogger ==
  ASSUME NoOverwriting, TypeInv, DeliveryInv, NamesInv, FullInv, LoggerStep
  PROVE  NamesInv' /\ FullInv'
<1> USE DEF FullInv
<1>1. CASE EepromPut
  BY <1>1, NamesKept DEF EepromPut, ram, disk
<1>2. CASE PowerOn
  BY <1>2, NamesKept DEF PowerOn, disk
<1>3. CASE BootStarts
  BY <1>3, NamesKept DEF BootStarts, StartAtBoot, EnterStartLog, disk
<1>4. ~LineWritten /\ ~FlushBuffered
  BY DEF LineWritten, WriteLine, FlushBuffered, WriteBuffered
<1>5. CASE InStartLog
  <2>1. ~SpaceEnough /\ ~PickReset /\ ~PickNext /\ ~PickSearch /\ ~SearchFound /\ ~SearchOn
        /\ ~SearchFull /\ ~OpenLog /\ ~OpenFails /\ ~WriteHeader
    <3>1. free \in Nat /\ MinFree \in Nat
      BY SpaceAssumption DEF TypeInv, NumbersOK
    <3>2. ~(free >= MinFree)
      BY <3>1
    <3> QED
      BY <3>2 DEF SpaceEnough, HasSpace, PickReset, PickNext, PickSearch, SearchFound,
         SearchOn, SearchFull, OpenLog, OpenFails, WriteHeader
  <2>2. SpaceDenied
    BY <1>5, <2>1, NothingRemoved DEF InStartLog
  <2> QED
    BY <2>2, NamesKept DEF SpaceDenied, disk
<1> QED
  BY <1>1, <1>2, <1>3, <1>4, <1>5 DEF LoggerStep

\* The uploader's part of the young stage does not depend on the logger.
LEMMA YoungUploaderStays ==
  ASSUME NoOverwriting, DeliveryInv, YoungUploader, LoggerStep
  PROVE  YoungUploader'
  BY SettledStays DEF YoungUploader

\* The first put of the first number ends the young stage.
LEMMA YoungGrows ==
  ASSUME NoOverwriting, TypeInv, CountedInv, YoungLogger, YoungUploader, EepromPut, LoggerStep,
         DeliveryInv, pc = "logging"
  PROVE  (GrownLogger /\ GrownUploader)'
<1>0. MaxLog \in Nat /\ 1 < MaxLog
  BY NumberAssumption DEF NoOverwriting
<1>1. UNCHANGED <<pc, next, first, name, toTry, card>>
  BY DEF EepromPut, ram, disk
<1>2. puts = << Put("first", 1) >> /\ puts' = << >> /\ ee' = [ee EXCEPT !["first"] = 1]
  <2>1. puts = << Put("first", 1) >>
    BY DEF YoungLogger
  <2>2. Head(puts) = Put("first", 1) /\ Tail(puts) = << >>
    BY <2>1
  <2>3. puts' = Tail(puts) /\ ee' = [ee EXCEPT ![Head(puts).cell] = Head(puts).val]
    BY DEF EepromPut
  <2>4. Put("first", 1).cell = "first" /\ Put("first", 1).val = 1
    BY DEF Put
  <2> QED
    BY <2>1, <2>2, <2>3, <2>4
<1>3. Pending = {Put("first", 1)} /\ Pending' = {}
  BY <1>2, PutsPending DEF Pending
<1>4. ee \in [Cells -> Nat]
  BY DEF TypeInv, NumbersOK
<1>5. ee["next"] = 1 /\ ee["upNext"] = 1 /\ ee["upMax"] = 0
  BY <1>3 DEF YoungLogger, Synced, Put, Named
<1>6. ee'["first"] = 1 /\ ee'["next"] = 1 /\ ee'["upNext"] = 1 /\ ee'["upMax"] = 0
  BY <1>2, <1>4, <1>5 DEF Cells
<1>7. next = 1 /\ first = 1 /\ name = LogFile(1) /\ name \in DOMAIN card /\ Consecutive
  BY DEF YoungLogger
<1>8. Synced("next", next)' /\ Synced("upMax", next - 1)'
  BY <1>1, <1>2, <1>6, <1>7, PutsEffect
<1>9. Consecutive'
  BY <1>1, <1>7 DEF Consecutive
<1>10. LogBefore(1) = 1 /\ LogBefore(LogBefore(1)) = 1
  BY DEF LogBefore
<1>11. GrownLogger'
  BY <1>0, <1>1, <1>3, <1>6, <1>7, <1>8, <1>9, <1>10 DEF GrownLogger
<1>12. YoungUploader'
  BY YoungUploaderStays
<1>13. upc' \in Working => upMax' = 0 /\ upNext' = 1
  BY <1>12 DEF YoungUploader, Working, Uploading, UploadControl
<1>14. GrownUploader'
  BY <1>1, <1>6, <1>7, <1>10, <1>12, <1>13 DEF GrownUploader, YoungUploader
<1> QED
  BY <1>11, <1>14


\* In the young stage the logger starts over with number 1 or logs its first
\* lines, until the first number is stored.
LEMMA YoungLoggerStep ==
  ASSUME NoOverwriting, TypeInv, DeliveryInv, NamesInv, CountedInv, YoungLogger, YoungUploader,
         LoggerStep
  PROVE  NamesInv' /\ StageInv'
<1>0. MaxLog \in Nat /\ 1 < MaxLog /\ MaxLog < Erased /\ Configs = {FALSE}
  BY NumberAssumption DEF NoOverwriting, Erased
<1>up. YoungUploader'
  BY YoungUploaderStays
<1>cells. {"next", "first", "upNext", "upMax"} = Cells
  BY DEF Cells
<1>same. card' = card \/ DOMAIN card' = DOMAIN card => Consecutive'
  BY DEF Consecutive, YoungLogger
<1>young. NamesInv' /\ YoungLogger' => NamesInv' /\ StageInv'
  BY <1>up DEF StageInv
<1>first. LogFile(1) = [lead |-> 0, low |-> 1]
  BY <1>0, ShortNames
<1>miss. pc = "pick" => /\ FirstName = LogFile(0) /\ FirstName \in FileNames
                        /\ FirstName.lead = 0 /\ ~FirstOnCard
  <2> SUFFICES ASSUME pc = "pick" PROVE /\ FirstName = LogFile(0) /\ FirstName \in FileNames
                                        /\ FirstName.lead = 0 /\ ~FirstOnCard
    OBVIOUS
  <2>1. first = 0 /\ name \in FileNames /\ name.lead = 0
    BY DEF YoungLogger, NamesInv, TypeInv, NumbersOK
  <2>2. FirstName = LogFile(0) /\ LogFile(0) = [lead |-> 0, low |-> 0]
    BY <1>0, <2>1, ShortNames DEF FirstName
  <2>3. FirstName \notin DOMAIN card
    <3> SUFFICES ASSUME FirstName \in DOMAIN card PROVE FALSE
      OBVIOUS
    <3> QED
      BY <1>0, <2>2 DEF NamesInv
  <2> QED
    BY <2>2, <2>3 DEF FirstOnCard, Exists, FileNames
<1>1. CASE EepromPut
  <2>1. UNCHANGED <<pc, next, first, name, toTry, card>>
    BY <1>1 DEF EepromPut, ram, disk
  <2>2. CASE pc = "logging"
    BY <1>1, <2>1, <2>2, YoungGrows, NamesKept DEF StageInv
  <2>3. CASE pc # "logging"
    <3>1. PICK p \in Pending :
           /\ p.cell \in Cells /\ p.val \in Nat
           /\ ee' = [ee EXCEPT ![p.cell] = p.val]
           /\ ee'[p.cell] = p.val
           /\ \A c \in Cells : c # p.cell => ee'[c] = ee[c]
           /\ Pending' \subseteq Pending
           /\ \A c \in Cells : \A v : Synced(c, v) => Synced(c, v)'
      BY <1>1, PutDone
    <3>2. ee'["first"] \in {0, Erased} /\ ee'["next"] \in {1, Erased}
      BY <2>3, <3>1 DEF YoungLogger, Cells
    <3>3. pc' \in Named => Synced("next", 1)' /\ Synced("upNext", 1)' /\ Synced("upMax", 0)'
      BY <2>1, <3>1 DEF YoungLogger, Cells
    <3>4. YoungLogger'
      BY <2>1, <2>3, <3>1, <3>2, <3>3, <1>same DEF YoungLogger
    <3> QED
      BY <2>1, <3>4, <1>young, NamesKept
  <2> QED
    BY <2>2, <2>3
<1>2. CASE PowerOn
  <2>1. UNCHANGED <<ee, card, name>> /\ pc' = "idle" /\ next' = 1 /\ first' = 0
        /\ puts' \in {<< >>, ResetPuts}
    BY <1>0, <1>2 DEF PowerOn, ResetNumbers, YoungLogger, disk
  <2>2. \A p \in Pending' : /\ p.cell \in {"next", "upNext"} => p.val = 1
                            /\ p.cell \in {"first", "upMax"} => p.val = 0
    BY <2>1, ResetPending, PutsPending
  <2>3. YoungLogger'
    BY <2>1, <2>2, <1>same DEF YoungLogger, Named
  <2> QED
    BY <2>1, <2>3, <1>young, NamesKept
<1>3. CASE BootStarts
  <2>1. UNCHANGED <<ee, puts, card, name, next, first>> /\ pc = "idle" /\ pc' = "space"
    BY <1>3 DEF BootStarts, StartAtBoot, EnterStartLog, disk
  <2>2. YoungLogger'
    BY <2>1, <1>same, PutsPending DEF YoungLogger, Named
  <2> QED
    BY <2>1, <2>2, <1>young, NamesKept
<1>4. CASE LineWritten \/ FlushBuffered
  <2>1. /\ UNCHANGED <<ee, puts, name, next, first>> /\ DOMAIN card' = DOMAIN card
        /\ pc = "logging" /\ puts # << >>
    BY <1>4 DEF LineWritten, WriteLine, FlushBuffered, WriteBuffered, Grow, YoungLogger, ram
  <2>2. pc' = "logging"
    BY <1>4, <2>1 DEF LineWritten, WriteLine, FlushBuffered, WriteBuffered
  <2>3. /\ Synced("next", 1)' /\ Synced("upNext", 1)' /\ Synced("upMax", 0)'
    BY <2>1, PutsEffect DEF YoungLogger, Named
  <2>4. YoungLogger'
    BY <2>1, <2>2, <2>3, <1>same, PutsPending DEF YoungLogger
  <2> QED
    BY <2>1, <2>4, <1>young, NamesKept
<1>5. CASE puts = << >> /\ (SpaceEnough \/ SpaceDenied)
  <2>1. UNCHANGED <<ee, puts, card, name, next, first>> /\ pc = "space"
    BY <1>5 DEF SpaceEnough, SpaceDenied, disk
  <2>2. CASE SpaceEnough
    <3>1. YoungLogger'
      BY <2>1, <2>2, <1>same, PutsPending DEF YoungLogger, Named, SpaceEnough
    <3> QED
      BY <2>1, <3>1, <1>young, NamesKept
  <2>3. CASE SpaceDenied
    <3>1. FullInv'
      <4>1. free' = free /\ ~(free >= MinFree) /\ pc' = "stopped"
        BY <2>3 DEF SpaceDenied, HasSpace, disk
      <4>2. free \in Nat /\ MinFree \in Nat
        BY SpaceAssumption DEF TypeInv, NumbersOK
      <4> QED
        BY <4>1, <4>2 DEF FullInv
    <3> QED
      BY <2>1, <3>1, NamesKept DEF StageInv
  <2> QED
    BY <1>5, <2>2, <2>3
<1>6. CASE PickReset
  <2>1. /\ UNCHANGED <<ee, card>> /\ pc = "pick" /\ pc' = "open" /\ next' = 1 /\ first' = 0
        /\ puts' = ResetPuts /\ name' = SetName(1, FirstName)
    BY <1>6 DEF PickReset, ResetNumbers, disk
  <2>2. name' = LogFile(1)
    BY <1>0, <1>miss, <2>1, ShortNames
  <2>3. YoungLogger'
    BY <2>1, <2>2, <1>same, ResetPending DEF YoungLogger
  <2>4. name'.lead = 0
    BY <2>2, <1>first
  <2> QED
    BY <2>1, <2>3, <2>4, <1>young, NamesKept
<1>7. CASE puts = << >> /\ OpenLog
  <2>1. /\ UNCHANGED <<ee, name, next, first>> /\ pc = "open" /\ pc' = "header"
        /\ puts' = << Put("upMax", next - 1) >> /\ DOMAIN card' = DOMAIN card \cup {name}
    BY <1>7 DEF OpenLog, ram, Exists
  <2>2. next = 1 /\ next - 1 = 0 /\ name = LogFile(1) /\ first = 0
    BY <2>1 DEF YoungLogger
  <2>3. ee["next"] = 1 /\ ee["upNext"] = 1
    BY <1>7, <2>1, SyncedQuiet DEF YoungLogger, Named
  <2>4. Synced("next", 1)' /\ Synced("upNext", 1)' /\ Synced("upMax", 0)'
    BY <2>1, <2>2, <2>3, PutsEffect
  <2>5. Pending' = {Put("upMax", 0)}
    BY <2>1, <2>2, PutsPending
  <2>6. Consecutive'
    <3> SUFFICES ASSUME NEW f \in DOMAIN card', NEW n \in 1 .. f.low
                 PROVE  LogFile(n) \in DOMAIN card'
      BY <1>0, <2>1, <2>2, <1>first DEF Consecutive, YoungLogger
    <3>1. CASE f = LogFile(1)
      BY <1>0, <2>1, <2>2, <3>1, <1>first
    <3>2. CASE f \in DOMAIN card
      BY <2>1, <3>2 DEF Consecutive, YoungLogger
    <3> QED
      BY <2>1, <2>2, <3>1, <3>2
  <2>7. YoungLogger'
    BY <2>1, <2>2, <2>4, <2>5, <2>6 DEF YoungLogger, Put
  <2>8. NamesInv'
    BY <1>0, <2>1, <2>2, <1>first DEF NamesInv
  <2> QED
    BY <2>7, <2>8, <1>young
<1>8. CASE puts = << >> /\ OpenFails
  <2>1. /\ UNCHANGED <<ee, name, next, first, card>> /\ pc = "open" /\ pc' = "stopped"
        /\ puts' = << Put("upMax", next - 1) >>
    BY <1>8 DEF OpenFails, ram, disk
  <2>2. next = 1 /\ next - 1 = 0 /\ first = 0
    BY <2>1 DEF YoungLogger
  <2>3. ee["next"] = 1 /\ ee["upNext"] = 1
    BY <1>8, <2>1, SyncedQuiet DEF YoungLogger, Named
  <2>4. Synced("next", 1)' /\ Synced("upNext", 1)' /\ Synced("upMax", 0)'
    BY <2>1, <2>2, <2>3, PutsEffect
  <2>5. Pending' = {Put("upMax", 0)}
    BY <2>1, <2>2, PutsPending
  <2>6. YoungLogger'
    BY <2>1, <2>2, <2>4, <2>5, <1>same DEF YoungLogger, Put
  <2> QED
    BY <2>1, <2>6, <1>young, NamesKept
<1>9. CASE puts = << >> /\ WriteHeader
  <2>1. /\ UNCHANGED <<ee, name, next>> /\ pc = "header" /\ pc' = "logging" /\ first = 0
        /\ first' = 1 /\ puts' = << Put("first", 1) >> /\ DOMAIN card' = DOMAIN card
    BY <1>9 DEF WriteHeader, YoungLogger
  <2>2. ee["next"] = 1 /\ ee["upNext"] = 1 /\ ee["upMax"] = 0
    BY <1>9, <2>1, SyncedQuiet DEF YoungLogger, Named
  <2>3. Synced("next", 1)' /\ Synced("upNext", 1)' /\ Synced("upMax", 0)'
    BY <2>1, <2>2, PutsEffect
  <2>4. Pending' = {Put("first", 1)}
    BY <2>1, PutsPending
  <2>5. YoungLogger'
    BY <2>1, <2>3, <2>4, <1>same DEF YoungLogger, Put
  <2> QED
    BY <2>1, <2>5, <1>young, NamesKept
<1>10. ~PickNext /\ ~PickSearch /\ ~SearchFound /\ ~SearchOn /\ ~SearchFull
  BY <1>miss DEF PickNext, PickSearch, SearchFound, SearchOn, SearchFull, YoungLogger
<1> QED
  BY <1>1, <1>2, <1>3, <1>4, <1>5, <1>6, <1>7, <1>8, <1>9, <1>10, NothingRemoved
     DEF LoggerStep, InStartLog


\* The uploader's part of the grown stage while the numbers stay.
LEMMA GrownUploaderStays ==
  ASSUME NoOverwriting, DeliveryInv, LoggerStep, GrownUploader,
         next' = next, ee'["next"] = ee["next"], ee'["upNext"] = ee["upNext"],
         pc' \in Named => pc \in Named,
         pc' \in {"header", "logging"} => name' \notin DOMAIN server
  PROVE  GrownUploader'
  BY SettledStays DEF GrownUploader

\* A new number lies behind all that the uploader works on.
LEMMA GrownUploaderAdvances ==
  ASSUME NoOverwriting, TypeInv, UploaderTypeOK, CountedInv, GrownLogger, GrownUploader,
         LoggerStep, DeliveryInv, puts = << >>, pc \in {"pick", "search"},
         pc' = "open", ee' = ee, next' \in Nat, next' >= 3, next' > next
  PROVE  GrownUploader'
<1>1. ee["next"] = next /\ next \in Nat /\ next >= 1
  BY SyncedQuiet, NumberAssumption DEF GrownLogger
<1>2. /\ upc' = upc /\ upNext' = upNext /\ upMax' = upMax
      /\ upNext \in Nat /\ upMax \in Nat /\ ee["upNext"] \in Nat
  BY SettledStays DEF UploaderTypeOK, TypeInv, NumbersOK, Cells
<1>3. ee["upNext"] <= LogBefore(LogBefore(next'))
  BY <1>1, <1>2 DEF GrownUploader, LogBefore
<1>4. \A m \in Nat : m > next =>
        /\ upc \in Working => upMax <= m - 1
        /\ upc \in Working /\ upNext <= upMax => upNext < m /\ upNext < m - 1
  BY <1>1, <1>2 DEF GrownUploader
<1>5. upc \in Working => upMax <= next' - 1
  BY <1>4
<1>6. upc \in Working /\ upNext <= upMax => upNext < next' /\ upNext < next' - 1
  BY <1>4
<1> QED
  BY <1>2, <1>3, <1>5, <1>6 DEF GrownUploader

\* In the grown stage a new log gets a number behind all logs on the card.
LEMMA GrownLoggerStep ==
  ASSUME NoOverwriting, UpTypeInv, DeliveryInv, NamesInv, CountedInv, GrownLogger, GrownUploader,
         LoggerStep, ~renumbered'
  PROVE  NamesInv' /\ StageInv'
<1>0. /\ MaxLog \in Nat /\ 1 < MaxLog /\ MaxLog + 1 < Erased /\ Erased \in Nat /\ Configs = {FALSE}
  BY NumberAssumption DEF NoOverwriting, Erased
<1>type. /\ TypeInv /\ UploaderTypeOK /\ next \in Nat /\ toTry \in Nat /\ name \in FileNames
         /\ ee \in [Cells -> Nat] /\ \A c \in {"next", "first", "upNext", "upMax"} : ee[c] \in Nat
  BY DEF UpTypeInv, TypeInv, NumbersOK, Cells
<1>same. DOMAIN card' = DOMAIN card => (Consecutive => Consecutive')
  BY DEF Consecutive
<1>on. /\ pc = "off" => ~(next' < ee["next"])
       /\ pc # "off" => ~(next' < next)
  <2>1. ~NumbersStartAgain
    BY SettledStays
  <2>2. ee["next"] # Erased
    BY <1>0 DEF GrownLogger
  <2> QED
    BY <2>1, <2>2 DEF NumbersStartAgain
<1>file. \A f \in DOMAIN card : f = LogFile(f.low) /\ f.low \in 1 .. MaxLog
  BY <1>type, NameOfFile
<1>kept. NamesInv' /\ GrownLogger' /\ GrownUploader' => NamesInv' /\ StageInv'
  BY DEF StageInv
<1>named. \A n \in 0 .. MaxLog :
            /\ LogFile(n).lead = 0 /\ LogFile(n).low = n /\ LogFile(n) \in FileNames
            /\ \A buf \in FileNames : buf.lead = 0 => SetName(n, buf) = LogFile(n)
  BY ShortNames DEF FileNames
<1>found. pc = "pick" => FirstName = LogFile(1) /\ FirstOnCard /\ FirstName.lead = 0
                         /\ FirstName \in FileNames
  BY <1>0, <1>type, <1>named DEF FirstName, FirstOnCard, Exists, NamesInv, GrownLogger
<1>1. CASE EepromPut
  <2>1. UNCHANGED <<pc, next, first, name, toTry, card>>
    BY <1>1 DEF EepromPut, ram, disk
  <2>2. PICK p \in Pending :
         /\ p.cell \in Cells /\ p.val \in Nat
         /\ ee' = [ee EXCEPT ![p.cell] = p.val]
         /\ ee'[p.cell] = p.val
         /\ \A c \in Cells : c # p.cell => ee'[c] = ee[c]
         /\ Pending' \subseteq Pending
         /\ \A c \in Cells : \A v : Synced(c, v) => Synced(c, v)'
    BY <1>1, <1>type, PutDone
  <2>3. /\ ee'["first"] = 1 /\ ee'["upNext"] = ee["upNext"]
        /\ p.cell = "upMax" => ee'["next"] = ee["next"]
        /\ p.cell = "next" => ee'["next"] = next /\ pc = "open"
    <3>1. p.cell \in {"next", "upMax"} /\ (p.cell = "next" => pc = "open")
      BY <2>2 DEF GrownLogger
    <3>2. p.cell = "next" => p.val = next
      BY <2>2, <3>1 DEF GrownLogger, Synced
    <3> QED
      BY <2>2, <3>1, <3>2 DEF GrownLogger, Cells
  <2>4. p.cell = "next" \/ p.cell = "upMax"
    BY <2>2 DEF GrownLogger
  <2>5. \A c \in {"next", "upMax"} : \A v : Synced(c, v) => Synced(c, v)'
    BY <2>2 DEF Cells
  <2>7. GrownLogger' /\ GrownUploader'
    <3>1. CASE p.cell = "upMax"
      <4>1. GrownLogger'
        <5>1. pc' # "off" => Synced("next", next)'
          BY <2>1, <2>5 DEF GrownLogger
        <5>2. pc' \in {"header", "logging", "stopped"} => Synced("upMax", next - 1)'
          BY <2>1, <2>5 DEF GrownLogger
        <5>3. ee["next"] # 1
          BY <2>2, <3>1 DEF GrownLogger
        <5>4. pc' # "off"
          BY <1>1, <2>1 DEF EepromPut, GrownLogger
        <5> QED
          BY <2>1, <2>2, <2>3, <3>1, <5>1, <5>2, <5>3, <5>4, <1>same DEF GrownLogger
      <4>2. GrownUploader'
        BY <2>1, <2>3, <3>1, GrownUploaderStays DEF GrownUploader
      <4> QED
        BY <4>1, <4>2
    <3>2. CASE p.cell = "next"
      <4>1. pc = "open" /\ ee'["next"] = next /\ next \in 1 .. MaxLog + 1 /\ next >= 3
            /\ ee["next"] <= next
        BY <2>3, <3>2 DEF GrownLogger
      <4>2. GrownLogger'
        <5>1. Synced("next", next)'
          BY <2>1, <2>5, <4>1 DEF GrownLogger
        <5>2. \A f \in DOMAIN card : f.low < next
          BY <4>1, <1>file, <1>0 DEF GrownLogger
        <5> QED
          BY <1>0, <2>1, <2>2, <2>3, <4>1, <5>1, <5>2 DEF GrownLogger
      <4>3. LogBefore(ee["next"]) <= LogBefore(next)
        BY <1>0, <1>type, <4>1 DEF LogBefore, GrownLogger
      <4>4. ee'["upNext"] <= LogBefore(ee'["next"])
        BY <1>0, <1>type, <2>3, <4>1, <4>3 DEF GrownUploader, LogBefore
      <4>5. GrownUploader'
        BY <2>1, <2>3, <4>1, <4>4, SettledStays DEF GrownUploader
      <4> QED
        BY <4>2, <4>5
    <3> QED
      BY <2>4, <3>1, <3>2
  <2> QED
    BY <2>1, <2>7, <1>kept, NamesKept
<1>2. CASE PowerOn
  <2>1. /\ UNCHANGED <<ee, card, name>> /\ pc = "off" /\ pc' = "idle"
        /\ next' = ee["next"] /\ first' = 1 /\ puts' = << >> /\ puts = << >>
    <3>1. CASE ee["next"] <= MaxLog
      BY <1>0, <1>2, <1>type, <3>1 DEF PowerOn, GrownLogger, disk
    <3>2. CASE ee["next"] > MaxLog
      <4>1. next' = 1 /\ pc = "off"
        BY <1>2, <3>2 DEF PowerOn, ResetNumbers
      <4> QED
        BY <1>0, <1>type, <3>2, <4>1, <1>on
    <3> QED
      BY <1>0, <1>type, <3>1, <3>2
  <2>2. Synced("next", next)' /\ Pending' = {}
    BY <2>1, PutsEffect, PutsPending
  <2>3. GrownLogger'
    BY <1>0, <2>1, <2>2, <1>same DEF GrownLogger
  <2>4. upc' = "off"
    BY <2>1, SettledStays DEF CountedInv
  <2>5. GrownUploader'
    BY <2>1, <2>4 DEF GrownUploader, Working, Uploading, Named
  <2> QED
    BY <2>1, <2>3, <2>5, <1>kept, NamesKept
<1>3. CASE BootStarts
  <2>1. UNCHANGED <<ee, puts, card, name, next, first>> /\ pc = "idle" /\ pc' = "space"
    BY <1>3 DEF BootStarts, StartAtBoot, EnterStartLog, disk
  <2>2. Synced("next", next)' /\ Pending' = Pending
    BY <2>1, PutsEffect, PutsPending DEF GrownLogger
  <2>3. GrownLogger'
    BY <2>1, <2>2, <1>same DEF GrownLogger
  <2>4. GrownUploader'
    BY <2>1, GrownUploaderStays DEF Named
  <2> QED
    BY <2>1, <2>3, <2>4, <1>kept, NamesKept
<1>4. CASE LineWritten \/ FlushBuffered
  <2>1. /\ UNCHANGED <<ee, puts, name, next, first>> /\ DOMAIN card' = DOMAIN card
        /\ pc = "logging"
    BY <1>4 DEF LineWritten, WriteLine, FlushBuffered, WriteBuffered, Grow, ram
  <2>2. pc' \in {"logging", "space"}
    BY <1>4, <2>1 DEF LineWritten, WriteLine, FlushBuffered, WriteBuffered, EnterStartLog
  <2>3. Synced("next", next)' /\ Synced("upMax", next - 1)' /\ Pending' = Pending
    BY <2>1, PutsEffect, PutsPending DEF GrownLogger
  <2>4. GrownLogger'
    BY <2>1, <2>2, <2>3, <1>same DEF GrownLogger
  <2>5. GrownUploader'
    BY <2>1, <2>2, GrownUploaderStays DEF Named, GrownUploader
  <2> QED
    BY <2>1, <2>4, <2>5, <1>kept, NamesKept
<1>5. CASE puts = << >> /\ (SpaceEnough \/ SpaceDenied)
  <2>1. UNCHANGED <<ee, puts, card, name, next, first>> /\ pc = "space"
    BY <1>5 DEF SpaceEnough, SpaceDenied, disk
  <2>2. CASE SpaceEnough
    <3>1. pc' = "pick"
      BY <2>2 DEF SpaceEnough
    <3>2. Synced("next", next)' /\ Pending' = Pending
      BY <2>1, PutsEffect, PutsPending DEF GrownLogger
    <3>3. GrownLogger'
      BY <2>1, <3>1, <3>2, <1>same DEF GrownLogger
    <3>4. GrownUploader'
      BY <2>1, <3>1, GrownUploaderStays DEF Named
    <3> QED
      BY <2>1, <3>3, <3>4, <1>kept, NamesKept
  <2>3. CASE SpaceDenied
    <3>1. free' = free /\ ~(free >= MinFree) /\ pc' = "stopped"
      BY <2>3 DEF SpaceDenied, HasSpace, disk
    <3>2. free \in Nat /\ MinFree \in Nat
      BY <1>type, SpaceAssumption DEF TypeInv, NumbersOK
    <3>3. FullInv'
      BY <3>1, <3>2 DEF FullInv
    <3> QED
      BY <2>1, <3>3, NamesKept DEF StageInv
  <2> QED
    BY <1>5, <2>2, <2>3
<1>6. ~PickReset
  BY <1>found DEF PickReset
<1>7. CASE puts = << >> /\ PickNext
  <2>1. /\ UNCHANGED <<ee, card, first>> /\ pc = "pick" /\ pc' = "open" /\ ~NextTaken
        /\ name' = NextName /\ next' = Wrapped + 1 /\ puts' = << Put("next", next') >>
    BY <1>7 DEF PickNext, StoreNext, disk
  <2>2. next <= MaxLog /\ next >= 1 /\ ee["next"] = next
    <3>1. next \in 1 .. MaxLog + 1 /\ ee["next"] = next
      BY <1>7, <2>1, SyncedQuiet DEF GrownLogger
    <3>2. next > MaxLog => next' = 2
      BY <2>1 DEF Wrapped
    <3> QED
      BY <1>0, <1>type, <1>on, <2>1, <3>1, <3>2
  <2>3. Wrapped = next /\ next' = next + 1 /\ NextName = LogFile(next)
    BY <1>0, <1>type, <1>found, <1>named, <2>1, <2>2 DEF Wrapped, NextName
  <2>4. LogFile(next) \notin DOMAIN card
    BY <2>1, <2>3 DEF NextTaken, Exists
  <2>5. next >= 3
    <3>1. next # 1
      BY <2>4 DEF GrownLogger
    <3>2. next # 2
      BY <2>2 DEF GrownLogger
    <3> QED
      BY <1>type, <2>2, <3>1, <3>2
  <2>6. \A f \in DOMAIN card : f.low < next
    BY <2>2, <2>5 DEF GrownLogger
  <2>7. next' - 1 = next /\ next' >= 3 /\ next' \in 1 .. MaxLog + 1 /\ ee["next"] <= next' /\ next' > next
        /\ next' \in Nat
    BY <1>0, <1>type, <2>2, <2>3, <2>5
  <2>8. Pending' = {Put("next", next')} /\ Synced("next", next)'
    BY <2>1, PutsPending, PutsEffect
  <2>9. GrownLogger'
    <3>1. name' = LogFile(next' - 1) /\ \A f \in DOMAIN card' : f.low < next' - 1
      BY <2>1, <2>3, <2>6, <2>7
    <3>2. ee["next"] # 1
      BY <2>2, <2>5
    <3> QED
      BY <2>1, <2>7, <2>8, <3>1, <3>2 DEF GrownLogger, Put
  <2>10. GrownUploader'
    BY <1>type, <1>7, <2>1, <2>7, GrownUploaderAdvances
  <2>11. name'.lead = 0
    BY <1>0, <1>type, <1>named, <2>1, <2>2, <2>3
  <2> QED
    BY <2>1, <2>9, <2>10, <2>11, <1>kept, NamesKept
<1>8. CASE puts = << >> /\ PickSearch
  <2>1. /\ UNCHANGED <<ee, card, first, puts>> /\ pc = "pick" /\ pc' = "search" /\ NextTaken
        /\ name' = NextName /\ next' = Wrapped /\ toTry' = Wrapped + 1
    BY <1>8 DEF PickSearch, disk
  <2>2. next <= MaxLog /\ next >= 1 /\ ee["next"] = next
    <3>1. next \in 1 .. MaxLog + 1 /\ ee["next"] = next
      BY <1>8, <2>1, SyncedQuiet DEF GrownLogger
    <3>2. next > MaxLog => next' = 1
      BY <2>1 DEF Wrapped
    <3> QED
      BY <1>0, <1>type, <1>on, <2>1, <3>1, <3>2
  <2>3. Wrapped = next /\ NextName = LogFile(next) /\ LogFile(next).low = next
    BY <1>0, <1>type, <1>found, <1>named, <2>1, <2>2 DEF Wrapped, NextName
  <2>4. LogFile(next) \in DOMAIN card
    BY <2>1, <2>3 DEF NextTaken, Exists
  <2>5. next = 1
    <3>1. next # 1 => next < next
      BY <2>2, <2>3, <2>4 DEF GrownLogger
    <3> QED
      BY <1>type, <3>1
  <2>6. next' = 1 /\ toTry' = 2 /\ toTry' - 1 = 1
    BY <2>1, <2>3, <2>5
  <2>7. Pending' = Pending /\ Synced("next", next)'
    BY <2>1, <2>5, <2>6, PutsPending, PutsEffect DEF GrownLogger
  <2>8. GrownLogger'
    BY <1>0, <2>1, <2>2, <2>4, <2>5, <2>6, <2>7, <1>same DEF GrownLogger
  <2>9. GrownUploader'
    BY <2>1, <2>5, <2>6, GrownUploaderStays DEF Named
  <2>10. name'.lead = 0
    BY <1>0, <1>type, <1>named, <2>1, <2>2, <2>3
  <2> QED
    BY <2>1, <2>8, <2>9, <2>10, <1>kept, NamesKept
<1>search. pc = "search" /\ puts = << >> =>
              /\ next = 1 /\ ee["next"] = 1 /\ ee["upMax"] = 0 /\ toTry \in 2 .. MaxLog
              /\ Consecutive /\ LogFile(toTry - 1) \in DOMAIN card
              /\ TryName = LogFile(toTry) /\ LogFile(toTry).lead = 0 /\ LogFile(toTry).low = toTry
  <2> SUFFICES ASSUME pc = "search", puts = << >>
               PROVE  /\ next = 1 /\ ee["next"] = 1 /\ ee["upMax"] = 0 /\ toTry \in 2 .. MaxLog
                      /\ Consecutive /\ LogFile(toTry - 1) \in DOMAIN card
                      /\ TryName = LogFile(toTry) /\ LogFile(toTry).lead = 0
                      /\ LogFile(toTry).low = toTry
    OBVIOUS
  <2>1. /\ next = 1 /\ toTry \in 2 .. MaxLog /\ LogFile(toTry - 1) \in DOMAIN card
        /\ ee["next"] = 1
    BY SyncedQuiet DEF GrownLogger
  <2>2. Consecutive /\ ee["upMax"] = 0
    BY <2>1, SyncedQuiet DEF GrownLogger
  <2> QED
    BY <1>0, <1>type, <1>named, <2>1, <2>2 DEF TryName, NamesInv
<1>9. CASE puts = << >> /\ SearchFound
  <2>1. /\ UNCHANGED <<ee, card, first>> /\ pc = "search" /\ pc' = "open" /\ ~Exists(TryName)
        /\ name' = TryName /\ next' = toTry + 1 /\ puts' = << Put("next", next') >>
    BY <1>9 DEF SearchFound, StoreNext, disk
  <2>2. /\ next' >= 3 /\ next' - 1 = toTry /\ next' \in 1 .. MaxLog + 1 /\ next' > next
        /\ ee["next"] <= next' /\ next' \in Nat
    BY <1>0, <1>type, <1>9, <1>search, <2>1
  <2>3. \A f \in DOMAIN card : f.low < toTry
    <3> SUFFICES ASSUME NEW f \in DOMAIN card, ~(f.low < toTry) PROVE FALSE
      OBVIOUS
    <3>1. toTry \in 1 .. f.low
      BY <1>0, <1>type, <1>9, <1>search, <1>file, <2>1
    <3>2. LogFile(toTry) \in DOMAIN card
      BY <1>9, <2>1, <3>1, <1>search DEF Consecutive
    <3> QED
      BY <1>9, <2>1, <3>2, <1>search DEF Exists
  <2>4. Pending' = {Put("next", next')} /\ Synced("next", next)'
    BY <2>1, PutsPending, PutsEffect
  <2>5. name' = LogFile(toTry) /\ name'.lead = 0
    BY <1>9, <2>1, <1>search
  <2>6. GrownLogger'
    <3>1. name' = LogFile(next' - 1) /\ \A f \in DOMAIN card' : f.low < next' - 1
      BY <2>1, <2>2, <2>3, <2>5
    <3>2. ee'["next"] = 1 /\ ee'["upMax"] = 0 /\ Consecutive'
      BY <1>9, <2>1, <1>search, <1>same
    <3>3. \A p \in Pending' : p.cell = "next" /\ pc' = "open"
      BY <2>1, <2>4 DEF Put
    <3>4. ee'["first"] = 1 /\ LogFile(1) \in DOMAIN card' /\ first' = 1
      BY <2>1 DEF GrownLogger
    <3>5. ee'["next"] <= next' /\ ee'["next"] \in 1 .. MaxLog + 1 /\ ee'["next"] # 2
      BY <1>0, <2>2, <3>2
    <3>6. pc' = "open" /\ next' \in 1 .. MaxLog + 1 /\ Synced("next", next)' /\ next' >= 3
      BY <2>1, <2>2, <2>4
    <3> QED
      BY <3>1, <3>2, <3>3, <3>4, <3>5, <3>6 DEF GrownLogger
  <2>7. GrownUploader'
    BY <1>type, <1>9, <2>1, <2>2, GrownUploaderAdvances
  <2> QED
    BY <2>1, <2>5, <2>6, <2>7, <1>kept, NamesKept
<1>10. CASE puts = << >> /\ SearchOn
  <2>1. /\ UNCHANGED <<ee, card, first, next, puts>> /\ pc = "search" /\ pc' = "search"
        /\ Exists(TryName) /\ name' = TryName /\ toTry' = NextTry
    BY <1>10 DEF SearchOn, disk
  <2>2. toTry' = toTry + 1 /\ toTry' - 1 = toTry /\ toTry' \in 2 .. MaxLog
    <3>1. toTry + 1 <= MaxLog
      BY <1>0, <1>type, <1>10 DEF SearchOn, BackAtFirst, NextTry, GrownLogger
    <3> QED
      BY <1>0, <1>type, <1>10, <1>search, <2>1, <3>1 DEF NextTry
  <2>3. Pending' = Pending /\ Synced("next", next)'
    BY <2>1, PutsPending, PutsEffect DEF GrownLogger
  <2>4. name' = LogFile(toTry) /\ name'.lead = 0 /\ LogFile(toTry) \in DOMAIN card
    BY <1>10, <2>1, <1>search DEF Exists
  <2>5. GrownLogger'
    BY <2>1, <2>2, <2>3, <2>4, <1>same DEF GrownLogger
  <2>6. GrownUploader'
    BY <2>1, GrownUploaderStays DEF Named
  <2> QED
    BY <2>1, <2>4, <2>5, <2>6, <1>kept, NamesKept
<1>11. CASE puts = << >> /\ SearchFull
  <2>1. /\ UNCHANGED <<ee, card, first, next, puts>> /\ pc = "search" /\ pc' = "stopped"
        /\ name' = TryName
    BY <1>11 DEF SearchFull, disk
  <2>2. Pending' = Pending /\ Synced("next", next)' /\ Synced("upMax", 0)'
    BY <1>11, <1>search, <2>1, PutsPending, PutsEffect, SyncedQuiet DEF GrownLogger
  <2>3. next' = 1 /\ next' - 1 = 0 /\ name'.lead = 0 /\ ee["next"] = 1
    BY <1>11, <1>search, <2>1
  <2>4. GrownLogger'
    BY <2>1, <2>2, <2>3, <1>same DEF GrownLogger
  <2>5. GrownUploader'
    <3>1. /\ upc' = upc /\ upNext' = upNext /\ upMax' = upMax /\ DOMAIN server' \subseteq DOMAIN server
      BY SettledStays
    <3>2. ee["upNext"] <= 1 /\ LogBefore(1) = 1
      BY <2>3 DEF GrownUploader, LogBefore
    <3>3. upc \in Working => upMax <= 0 /\ upNext >= 1
      BY <2>1, <2>3 DEF GrownUploader, CountedInv
    <3>4. upc \in Working => ~(upNext <= upMax)
      BY <1>type, <3>3 DEF UploaderTypeOK
    <3> QED
      BY <2>1, <2>3, <3>1, <3>2, <3>3, <3>4 DEF GrownUploader
  <2> QED
    BY <2>1, <2>3, <2>4, <2>5, <1>kept, NamesKept
<1>open. pc = "open" /\ puts = << >> =>
            /\ next >= 3 /\ next \in 1 .. MaxLog + 1 /\ ee["next"] = next /\ name = LogFile(next - 1)
            /\ LogBefore(next) = next - 1 /\ name \notin DOMAIN card
            /\ name.lead = 0 /\ name.low = next - 1 /\ \A f \in DOMAIN card : f.low < next - 1
  <2> SUFFICES ASSUME pc = "open", puts = << >>
               PROVE  /\ next >= 3 /\ next \in 1 .. MaxLog + 1 /\ ee["next"] = next
                      /\ name = LogFile(next - 1) /\ LogBefore(next) = next - 1
                      /\ name \notin DOMAIN card /\ name.lead = 0 /\ name.low = next - 1
                      /\ \A f \in DOMAIN card : f.low < next - 1
    OBVIOUS
  <2>1. /\ next >= 3 /\ next \in 1 .. MaxLog + 1 /\ ee["next"] = next /\ name = LogFile(next - 1)
        /\ \A f \in DOMAIN card : f.low < next - 1
    BY SyncedQuiet DEF GrownLogger
  <2>2. next - 1 \in 0 .. MaxLog /\ next # 1
    BY <1>0, <1>type, <2>1
  <2>3. name.lead = 0 /\ name.low = next - 1
    BY <1>named, <2>1, <2>2
  <2>4. name \notin DOMAIN card
    <3> SUFFICES ASSUME name \in DOMAIN card PROVE FALSE
      OBVIOUS
    <3>1. next - 1 < next - 1
      BY <2>1, <2>3
    <3> QED
      BY <1>type, <3>1
  <2> QED
    BY <2>1, <2>2, <2>3, <2>4 DEF LogBefore
<1>12. CASE puts = << >> /\ OpenLog
  <2>1. /\ UNCHANGED <<ee, name, next, first>> /\ pc = "open" /\ pc' = "header"
        /\ puts' = << Put("upMax", next - 1) >> /\ DOMAIN card' = DOMAIN card \cup {name}
    BY <1>12 DEF OpenLog, ram, Exists
  <2>2. Pending' = {Put("upMax", next - 1)} /\ Synced("next", next)' /\ Synced("upMax", next - 1)'
    BY <1>12, <1>open, <2>1, PutsPending, PutsEffect
  <2>3. \A f \in DOMAIN card' : f.low < ee["next"]
    BY <1>12, <1>open, <1>file, <1>type, <2>1
  <2>4. GrownLogger'
    BY <1>12, <1>open, <2>1, <2>2, <2>3 DEF GrownLogger, Put
  <2>5. name' \notin DOMAIN server
    BY <1>12, <1>open, <2>1 DEF CountedInv
  <2>6. GrownUploader'
    BY <2>1, <2>5, GrownUploaderStays DEF Named
  <2>7. NamesInv'
    <3>1. name.low \in 1 .. MaxLog
      BY <1>0, <1>type, <1>12, <1>open, <2>1
    <3> QED
      BY <1>12, <1>open, <2>1, <3>1 DEF NamesInv
  <2> QED
    BY <2>4, <2>6, <2>7, <1>kept
<1>13. CASE puts = << >> /\ OpenFails
  <2>1. /\ UNCHANGED <<ee, name, next, first, card>> /\ pc = "open" /\ pc' = "stopped"
        /\ puts' = << Put("upMax", next - 1) >>
    BY <1>13 DEF OpenFails, ram, disk
  <2>2. Pending' = {Put("upMax", next - 1)} /\ Synced("next", next)' /\ Synced("upMax", next - 1)'
    BY <1>13, <1>open, <2>1, PutsPending, PutsEffect
  <2>3. GrownLogger'
    BY <1>13, <1>open, <2>1, <2>2, <1>same DEF GrownLogger, Put
  <2>4. GrownUploader'
    BY <2>1, GrownUploaderStays DEF Named
  <2> QED
    BY <2>1, <2>3, <2>4, <1>kept, NamesKept
<1>14. CASE puts = << >> /\ WriteHeader
  <2>1. /\ UNCHANGED <<ee, name, next, first, puts>> /\ pc = "header" /\ pc' = "logging"
        /\ DOMAIN card' = DOMAIN card
    BY <1>14 DEF WriteHeader, GrownLogger
  <2>2. Pending' = Pending /\ Synced("next", next)' /\ Synced("upMax", next - 1)'
    BY <2>1, PutsPending, PutsEffect DEF GrownLogger
  <2>3. GrownLogger'
    BY <2>1, <2>2, <1>same DEF GrownLogger
  <2>4. GrownUploader'
    BY <2>1, GrownUploaderStays DEF Named, GrownUploader
  <2> QED
    BY <2>1, <2>3, <2>4, <1>kept, NamesKept
<1> QED
  BY <1>1, <1>2, <1>3, <1>4, <1>5, <1>6, <1>7, <1>8, <1>9, <1>10, <1>11, <1>12, <1>13, <1>14,
     NothingRemoved DEF LoggerStep, InStartLog


\* A step of the logger keeps the device in one of the stages.
LEMMA StageLogger ==
  ASSUME NoOverwriting, UpTypeInv, DeliveryInv, NamesInv, CountedInv, StageInv, LoggerStep,
         ~renumbered'
  PROVE  NamesInv' /\ StageInv'
<1>1. CASE FullInv
  BY <1>1, FullLogger DEF StageInv, UpTypeInv
<1>2. CASE YoungLogger /\ YoungUploader
  BY <1>2, YoungLoggerStep DEF UpTypeInv
<1>3. CASE GrownLogger /\ GrownUploader
  BY <1>3, GrownLoggerStep
<1> QED
  BY <1>1, <1>2, <1>3 DEF StageInv

-----------------------------------------------------------------------------
(* What is counted and sent, as the logger goes on.                        *)

\* The log being written is neither known to the server nor under upload.
LEMMA LogIsNew ==
  ASSUME NoOverwriting, UpTypeInv, StageInv, pc \in {"header", "logging"}
  PROVE  /\ name \notin DOMAIN server
         /\ upc \in Uploading => upName # name
<1>1. CASE FullInv
  BY <1>1 DEF FullInv
<1>2. CASE YoungLogger /\ YoungUploader
  BY <1>2 DEF YoungUploader, Uploading
<1>3. CASE GrownLogger /\ GrownUploader
  <2>1. name \notin DOMAIN server
    BY <1>3 DEF GrownUploader
  <2>2. ASSUME upc \in Uploading, upName = name PROVE FALSE
    <3>1. /\ upNext <= upMax /\ upName = LogFile(upNext) /\ upNext \in Nat
          /\ name = LogFile(LogBefore(next)) /\ next \in 1 .. MaxLog + 1 /\ upc \in Working
      BY <1>3, <2>2 DEF UpTypeInv, UploaderTypeOK, GrownLogger, Working
    <3>2. upNext < next - 1
      BY <1>3, <3>1 DEF GrownUploader, Named
    <3>3. upNext \in 0 .. MaxLog /\ LogBefore(next) \in 0 .. MaxLog /\ upNext # LogBefore(next)
      BY <3>1, <3>2, NumberAssumption DEF LogBefore, NoOverwriting
    <3> QED
      BY <2>2, <3>1, <3>3, NamesDiffer
  <2> QED
    BY <2>1, <2>2
<1> QED
  BY <1>1, <1>2, <1>3 DEF StageInv

\* The logger does not turn the power off, nor does a put of the uploader's number
\* come up again once the uploader has counted a log.
LEMMA LoggerPuts ==
  ASSUME NoOverwriting, UpTypeInv, DeliveryInv, NamesInv, CountedInv, StageInv, LoggerStep
  PROVE  /\ pc \notin {"off", "idle"} => pc' \notin {"off", "idle"}
         /\ \A p \in Pending' : p.cell = "upNext" => p.val = 1 /\ (upc \in Working => upNext = 1)
<1>one. \A c, v : puts' = << Put(c, v) >> => \A p \in Pending' : p.cell = c
  BY PutsPending DEF Put
<1>reset. puts' = ResetPuts => \A p \in Pending' : p.cell = "upNext" => p.val = 1
  BY ResetPending
<1>kept. /\ puts' = puts => Pending' = Pending
         /\ puts' = << >> => Pending' = {}
  BY PutsPending
<1> USE DEF CountedInv
<1>1. CASE EepromPut
  <2>1. Pending' \subseteq Pending /\ pc' = pc
    BY <1>1, PutTaken DEF UpTypeInv, TypeInv, EepromPut
  <2> QED
    BY <2>1
<1>2. CASE PowerOn
  BY <1>2, <1>reset, <1>kept DEF PowerOn, ResetNumbers, Working, Uploading
<1>3. CASE BootStarts \/ LineWritten \/ FlushBuffered
  BY <1>3, <1>kept DEF BootStarts, StartAtBoot, EnterStartLog, LineWritten, WriteLine,
     FlushBuffered, WriteBuffered
<1>4. CASE PickReset
  <2>1. upc \in Working => upNext = 1
    <3>1. CASE FullInv
      BY <1>4, <3>1 DEF PickReset, FullInv
    <3>2. CASE YoungLogger /\ YoungUploader
      BY <3>2 DEF YoungUploader, Working, Uploading
    <3>3. CASE GrownLogger /\ GrownUploader
      <4>1. FirstName = LogFile(1)
        BY <1>4, <3>3, ShortNames, NumberAssumption
           DEF FirstName, PickReset, GrownLogger, NamesInv, UpTypeInv, TypeInv, NumbersOK
      <4> QED
        BY <1>4, <3>3, <4>1 DEF PickReset, FirstOnCard, Exists, GrownLogger
    <3> QED
      BY <3>1, <3>2, <3>3 DEF StageInv
  <2> QED
    BY <1>4, <2>1, <1>reset DEF PickReset, ResetNumbers
<1>5. CASE SpaceEnough \/ SpaceDenied \/ PickSearch \/ SearchOn \/ SearchFull
  BY <1>5, <1>kept DEF SpaceEnough, SpaceDenied, PickSearch, SearchOn, SearchFull
<1>6. CASE PickNext \/ SearchFound \/ OpenLog \/ OpenFails
  BY <1>6, <1>one DEF PickNext, SearchFound, StoreNext, OpenLog, OpenFails
<1>7. CASE WriteHeader
  BY <1>7, <1>one, <1>kept DEF WriteHeader
<1> QED
  BY <1>1, <1>2, <1>3, <1>4, <1>5, <1>6, <1>7, NothingRemoved DEF LoggerStep, InStartLog

\* A step of the logger changes neither what is counted nor what was sent.
LEMMA CountedLogger ==
  ASSUME NoOverwriting, UpTypeInv, DeliveryInv, NamesInv, CountedInv, StageInv, LoggerStep,
         ~renumbered'
  PROVE  CountedInv'
<1>up. /\ \A f : Settled(f) => Settled(f)'
       /\ DOMAIN server' \subseteq DOMAIN server
       /\ \A f \in DOMAIN server' : server'[f] = server[f]
       /\ upc' = upc /\ upNext' = upNext /\ upName' = upName /\ fileSize' = fileSize
  BY SettledStays
<1>1. /\ pc \notin {"off", "idle"} => pc' \notin {"off", "idle"}
      /\ \A p \in Pending' : p.cell = "upNext" => p.val = 1 /\ (upc \in Working => upNext = 1)
  BY LoggerPuts
<1>2. \A f \in DOMAIN card : f # name \/ pc \notin {"header", "logging"} =>
         f \in DOMAIN card' /\ SizeOf(f)' = SizeOf(f)
  BY SizesKept DEF SizeOf, Exists
<1>3. \A f \in DOMAIN server' : f \in DOMAIN card' /\ server'[f] = SizeOf(f)'
  BY <1>up, <1>2, LogIsNew DEF CountedInv
<1>4. upc' = "send" => fileSize' = SizeOf(upName)'
  <2> SUFFICES ASSUME upc = "send" PROVE fileSize' = SizeOf(upName)'
    BY <1>up
  <2>1. upName \in DOMAIN card /\ fileSize = SizeOf(upName)
    BY DEF DeliveryInv, Asking, CountedInv
  <2>2. pc \in {"header", "logging"} => upName # name
    BY LogIsNew DEF Uploading, UploadControl
  <2> QED
    BY <1>up, <1>2, <2>1, <2>2
<1>5. CASE ee'["upNext"] = ee["upNext"]
  BY <1>up, <1>1, <1>3, <1>4, <1>5 DEF CountedInv
<1>6. CASE ee'["upNext"] # ee["upNext"]
  <2>1. EepromPut
    BY <1>6 DEF LoggerStep, InStartLog, BootStarts, StartAtBoot, PowerOn, LineWritten, WriteLine,
       FlushBuffered, WriteBuffered, SpaceEnough, SpaceDenied, DeleteOldest, PickOverwriting, PickReset, PickNext,
       PickSearch, SearchFound, SearchOn, SearchOverwrite, SearchFull, OpenLog, OpenFails, WriteHeader
  <2>2. ee'["upNext"] = 1 /\ (upc \in Working => upNext = 1)
    BY <1>6, <2>1, PutDone DEF UpTypeInv, CountedInv, Cells
  <2> QED
    BY <1>up, <1>1, <1>3, <1>4, <2>2 DEF CountedInv
<1> QED
  BY <1>5, <1>6


-----------------------------------------------------------------------------
(* The stages and the counts, as the power fails and the uploader goes on. *)

\* The power fails: what is in EEPROM and on the card stays.
LEMMA SentPowerFails ==
  ASSUME NamesInv, CountedInv, StageInv, PowerFails
  PROVE  NamesInv' /\ CountedInv' /\ StageInv'
<1>1. /\ pc' = "off" /\ puts' = << >> /\ next' = 0 /\ first' = 0 /\ name' = DefaultName
      /\ upc' = "off" /\ upNext' = 0 /\ upMax' = 0
      /\ UNCHANGED <<ee, card, free, server, skipped>>
  BY DEF PowerFails, PowerLoss, disk, outside
<1>2. Pending' = {}
  BY <1>1, PutsPending
<1>3. NamesInv'
  BY <1>1, NamesKept DEF DefaultName
<1>4. CountedInv'
  BY <1>1, <1>2 DEF CountedInv, Working, Uploading, Settled, SizeOf, Exists
<1>5. CASE FullInv
  BY <1>1, <1>3, <1>4, <1>5 DEF FullInv, StageInv
<1>6. CASE YoungLogger /\ YoungUploader
  <2>1. YoungLogger'
    BY <1>1, <1>2, <1>6 DEF YoungLogger, Consecutive, Named
  <2>2. YoungUploader'
    BY <1>1, <1>6 DEF YoungUploader
  <2> QED
    BY <1>3, <1>4, <2>1, <2>2 DEF StageInv
<1>7. CASE GrownLogger /\ GrownUploader
  <2>1. GrownLogger'
    BY <1>1, <1>2, <1>7 DEF GrownLogger, Consecutive
  <2>2. GrownUploader'
    BY <1>1, <1>7 DEF GrownUploader, Working, Uploading, Named
  <2> QED
    BY <1>3, <1>4, <2>1, <2>2 DEF StageInv
<1> QED
  BY <1>5, <1>6, <1>7 DEF StageInv

\* The clock is set: a new log is started while the uploader waits, or after it.
LEMMA SentRestart ==
  ASSUME NoOverwriting, UpTypeInv, NamesInv, CountedInv, StageInv, ClockJumps \/ SerialRestart
  PROVE  NamesInv' /\ CountedInv' /\ StageInv'
<1>1. /\ pc \in {"logging", "stopped"} /\ pc' = "space" /\ puts = << >>
      /\ (upc = "connected" /\ upc' = "synced") \/ (upc = "done" /\ upc' = "done")
      /\ UNCHANGED <<puts, next, first, name, ee, card, free, server, skipped, upNext, upMax>>
  BY DEF ClockJumps, SerialRestart, RestartLogging, EnterStartLog, disk, upRam, outside
<1>2. Pending' = Pending /\ \A c, v : Synced(c, v)' <=> Synced(c, v)
  BY <1>1, PutsPending, PutsEffect
<1>3. NamesInv'
  BY <1>1, NamesKept
<1>4. CountedInv'
  BY <1>1, <1>2 DEF CountedInv, Working, Uploading, Settled, SizeOf, Exists
<1>5. CASE FullInv
  BY <1>1, <1>3, <1>4, <1>5 DEF FullInv, StageInv
<1>6. CASE YoungLogger /\ YoungUploader
  <2>1. pc = "stopped"
    BY <1>1, <1>6 DEF YoungLogger
  <2>2. YoungLogger'
    BY <1>1, <1>2, <1>6, <2>1 DEF YoungLogger, Consecutive, Named
  <2>3. YoungUploader'
    BY <1>1, <1>6 DEF YoungUploader
  <2> QED
    BY <1>3, <1>4, <2>2, <2>3 DEF StageInv
<1>7. CASE GrownLogger /\ GrownUploader
  <2>2. GrownLogger'
    <3>1. Synced("next", next)'
      BY <1>1, <1>2, <1>7 DEF GrownLogger
    <3> QED
      BY <1>1, <1>2, <1>7, <3>1 DEF GrownLogger, Consecutive
  <2>3. GrownUploader'
    BY <1>1, <1>7 DEF GrownUploader, Working, Uploading, Named
  <2> QED
    BY <1>3, <1>4, <2>2, <2>3 DEF StageInv
<1> QED
  BY <1>5, <1>6, <1>7 DEF StageInv

\* A step of the uploader that stores at most its own number in EEPROM leaves the
\* logger's part of each stage alone.
LEMMA LoggerQuiet ==
  ASSUME UpTypeInv, NamesInv, UNCHANGED <<pc, ram, puts, disk>>,
         NEW v, ee' = [ee EXCEPT !["upNext"] = v]
  PROVE  /\ NamesInv' /\ Pending' = Pending
         /\ FullInv => FullInv'
         /\ YoungLogger /\ v = ee["upNext"] => YoungLogger'
         /\ GrownLogger => GrownLogger'
<1>1. /\ UNCHANGED <<pc, puts, next, first, name, toTry, card, free>>
      /\ Pending' = Pending
  BY PutsPending DEF ram, disk
<1>2. ee \in [Cells -> Nat] /\ \A c \in {"next", "first", "upMax"} : ee'[c] = ee[c]
  BY DEF UpTypeInv, TypeInv, NumbersOK, Cells
<1>3. \A c \in {"next", "first", "upMax"} : \A w : Synced(c, w)' <=> Synced(c, w)
  BY <1>1, <1>2, PutsEffect
<1>4. Consecutive => Consecutive'
  BY <1>1 DEF Consecutive
<1>5. NamesInv' /\ (FullInv => FullInv')
  BY <1>1, NamesKept DEF FullInv
<1>6. ASSUME YoungLogger, v = ee["upNext"] PROVE YoungLogger'
  <2>1. ee'["upNext"] = ee["upNext"]
    BY <1>2, <1>6 DEF Cells
  <2>2. \A w : Synced("upNext", w)' <=> Synced("upNext", w)
    BY <1>1, <2>1, PutsEffect
  <2> QED
    BY <1>1, <1>2, <1>3, <1>4, <1>6, <2>2 DEF YoungLogger
<1>7. ASSUME GrownLogger PROVE GrownLogger'
  <2>1. pc' # "off" => Synced("next", next)'
    BY <1>1, <1>3, <1>7 DEF GrownLogger
  <2>2. pc' \in {"header", "logging", "stopped"} => Synced("upMax", next - 1)'
    BY <1>1, <1>3, <1>7 DEF GrownLogger
  <2> QED
    BY <1>1, <1>2, <1>4, <1>7, <2>1, <2>2 DEF GrownLogger
<1> QED
  BY <1>1, <1>5, <1>6, <1>7

\* The same for the whole of the logger's variables.
LEMMA LoggerStill ==
  ASSUME UpTypeInv, NamesInv, UNCHANGED vars
  PROVE  /\ NamesInv' /\ Pending' = Pending /\ (FullInv => FullInv')
         /\ (YoungLogger => YoungLogger') /\ (GrownLogger => GrownLogger')
<1>1. UNCHANGED <<pc, ram, puts, disk>> /\ ee' = ee
  BY DEF vars
<1>2. ee' = [ee EXCEPT !["upNext"] = ee["upNext"]]
  BY <1>1 DEF UpTypeInv, TypeInv, NumbersOK, Cells
<1> QED
  BY <1>1, <1>2, LoggerQuiet


\* No log has the number that an EEPROM cell holds before it is written.
LEMMA ErasedHasNoFile ==
  ASSUME NoOverwriting, NamesInv
  PROVE  LogFile(Erased) \notin DOMAIN card
<1> SUFFICES ASSUME LogFile(Erased) \in DOMAIN card PROVE FALSE
  OBVIOUS
<1>1. /\ MaxLog \in Nat /\ MaxLog < Erased
      /\ Erased \in Nat /\ Erased >= 1
  BY NumberAssumption DEF NoOverwriting, Erased
<1>2. LogFile(Erased).lead = 0 /\ LogFile(Erased).low \in 1 .. MaxLog
  BY DEF NamesInv
<1>3. CASE Erased < NameBase
  <2>1. LogFile(Erased).low = Erased
    BY <1>1, <1>3, NumberedName, DefaultNameType DEF LogFile
  <2> QED
    BY <1>1, <1>2, <2>1
<1>4. CASE Erased >= NameBase
  <2>1. LogFile(Erased).lead = Erased \div NameBase
    BY <1>4 DEF LogFile, SetName
  <2>2. Erased \div NameBase >= 1
    BY <1>1, <1>4, NumberAssumption
  <2> QED
    BY <1>2, <2>1, <2>2
<1> QED
  BY <1>1, <1>3, <1>4, NumberAssumption

\* The constructor starts from 1, or from the number in EEPROM when its log is on
\* the card: the logs below it are settled.
LEMMA SentConstruct ==
  ASSUME NoOverwriting, UpTypeInv, NamesInv, CountedInv, StageInv, Construct
  PROVE  NamesInv' /\ CountedInv' /\ StageInv'
<1> DEFINE F == FirstToUpload
<1>0. MaxLog \in Nat /\ 1 < MaxLog
  BY NumberAssumption DEF NoOverwriting
<1>1. /\ upc = "off" /\ pc \in {"logging", "stopped"} /\ puts = << >>
      /\ upNext' = F /\ ee' = [ee EXCEPT !["upNext"] = F] /\ upMax' = ee["upMax"]
      /\ upc' = "connected"
      /\ UNCHANGED <<pc, ram, puts, disk, server, skipped>>
  BY DEF Construct, MainFree, outside
<1>2. ee \in [Cells -> Nat] /\ \A c \in {"next", "first", "upNext", "upMax"} : ee[c] \in Nat
  BY DEF UpTypeInv, TypeInv, NumbersOK, Cells
<1>3. F \in Nat
  BY FirstToUploadType DEF UpTypeInv
<1>4. ee["upNext"] = Erased => ~Exists(LogFile(ee["upNext"]))
  BY ErasedHasNoFile DEF Exists
<1>5. F = 1 \/ (F = ee["upNext"] /\ ee["upNext"] # Erased /\ ee["upNext"] <= ee["upMax"])
  BY <1>2, <1>4 DEF FirstToUpload
<1>6. ee'["upNext"] = F /\ \A c \in {"next", "first", "upMax"} : ee'[c] = ee[c]
  BY <1>1, <1>2 DEF Cells
<1> HIDE DEF F
<1>7. F >= 1 /\ \A n \in 1 .. F - 1 : Settled(LogFile(n))
  BY <1>3, <1>5 DEF CountedInv
<1>8. \A f : Settled(f)' <=> Settled(f)
  BY <1>1 DEF Settled, disk
<1>9. Pending' = {}
  BY <1>1, PutsPending
<1>10. NamesInv'
  BY <1>1, NamesKept DEF ram, disk
<1>11. CountedInv'
  BY <1>1, <1>6, <1>7, <1>8, <1>9 DEF CountedInv, Working, Uploading, SizeOf, Exists, disk
<1>12. CASE FullInv
  BY <1>1, <1>10, <1>11, <1>12 DEF FullInv, StageInv, disk
<1>13. CASE YoungLogger /\ YoungUploader
  <2>1. ee["upNext"] = 1 /\ ee["upMax"] = 0 /\ F = 1
    BY <1>1, <1>5, <1>13, SyncedQuiet DEF YoungLogger, Named
  <2>2. YoungLogger'
    BY <1>1, <1>13, <2>1, LoggerQuiet
  <2>3. YoungUploader'
    BY <1>1, <1>13, <2>1 DEF YoungUploader
  <2> QED
    BY <1>10, <1>11, <2>2, <2>3 DEF StageInv
<1>14. CASE GrownLogger /\ GrownUploader
  <2>1. GrownLogger'
    BY <1>1, <1>14, LoggerQuiet
  <2>2. /\ next \in 1 .. MaxLog + 1 /\ ee["next"] = next /\ next # 2 /\ ee["upMax"] = next - 1
    BY <1>1, <1>14, SyncedQuiet DEF GrownLogger
  <2>3. ee["upNext"] <= LogBefore(ee["next"]) /\ ee["upNext"] <= LogBefore(LogBefore(next))
    BY <1>1, <1>14 DEF GrownUploader, Named
  <2>4. F <= LogBefore(next)
    BY <1>0, <1>2, <1>3, <1>5, <2>2, <2>3 DEF LogBefore
  <2>5. F <= next - 1 => F < next /\ F < next - 1
    BY <1>0, <1>2, <1>3, <1>5, <1>7, <2>2, <2>3 DEF LogBefore
  <2>6. /\ next' = next /\ ee'["next"] = next /\ ee'["upNext"] = F
        /\ upMax' = next - 1 /\ upNext' = F /\ upc' = "connected" /\ name' = name /\ server' = server
    BY <1>1, <1>6, <2>2 DEF ram
  <2>7. next' - 1 = next - 1
    BY <2>6
  <2>8. upMax' <= next' - 1 /\ (upNext' <= upMax' => upNext' < next' /\ upNext' < next' - 1)
    BY <2>2, <2>5, <2>6, <2>7
  <2>9. GrownUploader'
    BY <1>1, <1>14, <2>2, <2>4, <2>6, <2>8 DEF GrownUploader
  <2> QED
    BY <1>10, <1>11, <2>1, <2>9 DEF StageInv
<1> QED
  BY <1>12, <1>13, <1>14 DEF StageInv

\* A step of the uploader that leaves the logger alone keeps the stage, when it
\* keeps the number and the limit, or ends the uploader.
LEMMA StageKept ==
  ASSUME NoOverwriting, UpTypeInv, NamesInv, StageInv, UNCHANGED vars,
         upc \in Working, upc' # "off",
         upc' \in Working => UNCHANGED <<upNext, upMax>>,
         upc \notin Uploading =>
            server' = server /\ skipped' = skipped /\ (upc' \in Uploading => upNext <= upMax),
         upc' \in {"connected", "synced"} => upc \in {"connected", "synced"},
         upc' \in Working \cup {"done"},
         DOMAIN server' \subseteq DOMAIN server \cup {upName}
  PROVE  StageInv'
<1>1. CASE FullInv
  BY <1>1, LoggerStill DEF StageInv
<1>2. CASE YoungLogger /\ YoungUploader
  <2>1. upc \notin Uploading /\ upNext = 1 /\ upMax = 0
    BY <1>2 DEF YoungUploader, Working, Uploading
  <2>2. YoungUploader'
    BY <1>2, <2>1 DEF YoungUploader, Working
  <2> QED
    BY <1>2, <2>2, LoggerStill DEF StageInv
<1>3. CASE GrownLogger /\ GrownUploader
  <2>1. pc' = pc /\ name' = name /\ next' = next /\ ee' = ee
    BY DEF vars, ram
  <2>2. pc' \in {"header", "logging"} => name \notin DOMAIN server'
    BY <2>1, LogIsNew DEF Uploading
  <2>3. GrownUploader'
    BY <1>3, <2>1, <2>2 DEF GrownUploader, Working
  <2> QED
    BY <1>3, <2>3, LoggerStill DEF StageInv
<1> QED
  BY <1>1, <1>2, <1>3 DEF StageInv

\* It keeps the counts, when logs stay settled and the number stays.
LEMMA CountedKept ==
  ASSUME UpTypeInv, NamesInv, CountedInv, UNCHANGED vars,
         upc \in Working, upc' \notin {"off", "load", "store", "put"},
         upc' \in Working => upNext' = upNext,
         DOMAIN server \subseteq DOMAIN server', skipped \subseteq skipped',
         upc' = "count" => upName' \in DOMAIN card /\ upName' \in DOMAIN server' \cup skipped',
         upc' = "send" => fileSize' = SizeOf(upName'),
         \A f \in DOMAIN server' : f \in DOMAIN card /\ server'[f] = SizeOf(f)
  PROVE  CountedInv'
<1>1. pc' = pc /\ ee' = ee /\ card' = card /\ Pending' = Pending
  BY LoggerStill DEF vars, disk
<1>2. \A f : Settled(f) => Settled(f)'
  BY <1>1 DEF Settled
<1>3. \A f : SizeOf(f)' = SizeOf(f)
  BY <1>1 DEF SizeOf, Exists
<1>4. upc' = "count" => Settled(upName)'
  BY <1>1 DEF Settled
<1>5. upc' = "send" => fileSize' = SizeOf(upName)'
  BY <1>1 DEF SizeOf, Exists
<1>6. \A f \in DOMAIN server' : f \in DOMAIN card' /\ server'[f] = SizeOf(f)'
  BY <1>1, <1>3
<1>7. upc' \in Working => upNext' >= 1 /\ ee'["upNext"] = upNext'
  BY <1>1 DEF CountedInv
<1>8. \A p \in Pending' : p.cell = "upNext" => p.val = 1 /\ (upc' \in Working => upNext' = 1)
  BY <1>1 DEF CountedInv
<1>9. pc \notin {"off", "idle"}
  BY DEF CountedInv, Working, Uploading
<1> QED
  BY <1>1, <1>2, <1>4, <1>5, <1>6, <1>7, <1>8, <1>9 DEF CountedInv


\* The uploader stops: what it counted stays.
LEMMA SentLeave ==
  ASSUME NoOverwriting, UpTypeInv, NamesInv, CountedInv, StageInv,
         UNCHANGED <<vars, outside>>, upc \in Working, Leave
  PROVE  NamesInv' /\ CountedInv' /\ StageInv'
<1>1. UNCHANGED vars /\ server' = server /\ skipped' = skipped /\ upc' = "done" /\ upc' \notin Working
  BY DEF Leave, outside, Working, Uploading
<1>2. NamesInv'
  BY <1>1, LoggerStill
<1>3. StageInv'
  BY <1>1, StageKept DEF Uploading
<1>4. \A f \in DOMAIN server' : f \in DOMAIN card /\ server'[f] = SizeOf(f)
  BY <1>1 DEF CountedInv
<1>5. CountedInv'
  BY <1>1, <1>4, CountedKept
<1> QED
  BY <1>2, <1>3, <1>5

\* The uploader goes on with the same log.
LEMMA SentGoesOn ==
  ASSUME NoOverwriting, UpTypeInv, NamesInv, CountedInv, StageInv,
         UNCHANGED <<vars, upNext, upMax, upName>>, upc \in Uploading,
         upc' \in {"connect", "send", "answer", "remove", "count"},
         DOMAIN server \subseteq DOMAIN server', skipped \subseteq skipped',
         DOMAIN server' \subseteq DOMAIN server \cup {upName},
         upc' = "count" => upName \in DOMAIN card /\ upName \in DOMAIN server' \cup skipped',
         upc' = "send" => fileSize' = SizeOf(upName),
         \A f \in DOMAIN server' : f \in DOMAIN card /\ server'[f] = SizeOf(f)
  PROVE  NamesInv' /\ CountedInv' /\ StageInv'
<1>1. UNCHANGED vars /\ upName' = upName /\ upc \in Working /\ upc' \in Working
      /\ upc' \notin {"off", "load", "store", "put", "connected", "synced"}
  BY DEF Working, Uploading, UploadControl
<1>2. NamesInv'
  BY <1>1, LoggerStill
<1>3. StageInv'
  BY <1>1, StageKept
<1>4. CountedInv'
  BY <1>1, CountedKept
<1> QED
  BY <1>2, <1>3, <1>4

\* A log is counted: the number in EEPROM goes on by one.
LEMMA SentCountUploaded ==
  ASSUME NoOverwriting, UpTypeInv, NamesInv, CountedInv, StageInv, CountUploaded
  PROVE  NamesInv' /\ CountedInv' /\ StageInv'
<1> DEFINE n == upNext + 1
<1>1. /\ upc = "count" /\ pc \in {"logging", "stopped"} /\ puts = << >>
      /\ ee' = [ee EXCEPT !["upNext"] = n]
      /\ UNCHANGED <<pc, ram, puts, disk, fileSize, server, skipped>>
  BY DEF CountUploaded, MainFree, LogAfter, outside
<1>2. /\ upNext \in Nat /\ upMax \in Nat /\ upNext >= 1 /\ upNext <= upMax
      /\ upName = LogFile(upNext) /\ ee["upNext"] = upNext
  BY <1>1 DEF UpTypeInv, UploaderTypeOK, CountedInv, Working, Uploading, UploadControl
<1>3. ee'["upNext"] = n /\ \A c \in {"next", "first", "upMax"} : ee'[c] = ee[c]
  BY <1>1 DEF UpTypeInv, TypeInv, NumbersOK, Cells
<1>4. \/ upc' = "ask" /\ upNext' = n /\ upMax' = upMax /\ n + 1 <= upMax
      \/ upc' = "done"
  BY DEF CountUploaded, LogAfter, BelowLimit, Leave
<1>5. \A f : Settled(f)' <=> Settled(f)
  BY <1>1 DEF Settled, disk
<1>6. NamesInv'
  BY <1>1, NamesKept DEF ram, disk
<1>7. Settled(upName)
  BY <1>1 DEF CountedInv
<1>8. CountedInv'
  <2>1. n - 1 = upNext /\ n >= 1
    BY <1>2
  <2>2. ASSUME NEW k \in 1 .. n - 1 PROVE Settled(LogFile(k))'
    <3>1. CASE k = upNext
      BY <1>2, <1>5, <1>7, <3>1
    <3>2. CASE k \in 1 .. upNext - 1
      <4>1. ee["upNext"] # Erased
        BY <1>2, <1>7, ErasedHasNoFile DEF Settled
      <4> QED
        BY <1>2, <1>5, <3>2, <4>1 DEF CountedInv
    <3> QED
      BY <1>2, <2>1, <3>1, <3>2
  <2>3. Pending' = {}
    BY <1>1, PutsPending
  <2> HIDE DEF n
  <2> QED
    BY <1>1, <1>3, <1>4, <1>5, <2>1, <2>2, <2>3
       DEF CountedInv, Working, Uploading, UploadControl, SizeOf, Exists, disk
<1>9. CASE FullInv
  BY <1>1, <1>6, <1>8, <1>9, LoggerQuiet DEF StageInv
<1>10. CASE YoungLogger /\ YoungUploader
  BY <1>1, <1>10 DEF YoungUploader
<1>11. CASE GrownLogger /\ GrownUploader
  <2>1. GrownLogger'
    BY <1>1, <1>11, LoggerQuiet
  <2>2. next \in 1 .. MaxLog + 1 /\ ee["next"] = next
    BY <1>1, <1>11, SyncedQuiet DEF GrownLogger
  <2>3. upNext < next - 1 /\ upMax <= next - 1
    BY <1>1, <1>2, <1>11 DEF GrownUploader, Working, Uploading, UploadControl, Named
  <2>4. /\ next' = next /\ pc' = pc /\ name' = name /\ server' = server
        /\ ee'["next"] = next /\ ee'["upNext"] = n
    BY <1>1, <1>3, <2>2 DEF ram
  <2>5. next' - 1 = next - 1
    BY <2>4
  <2>6. n <= LogBefore(next)
    BY <1>2, <2>2, <2>3 DEF LogBefore
  <2>7. upc' = "ask" => upMax' <= next' - 1 /\ upNext' < next' /\ upNext' < next' - 1
    BY <1>2, <1>4, <2>2, <2>3, <2>4, <2>5
  <2>8. upc' \in Working => upc' = "ask"
    BY <1>4 DEF Working, Uploading
  <2>9. GrownUploader'
    BY <1>4, <1>11, <2>4, <2>6, <2>7, <2>8 DEF GrownUploader
  <2> QED
    BY <1>6, <1>8, <2>1, <2>9 DEF StageInv
<1> QED
  BY <1>6, <1>8, <1>9, <1>10, <1>11 DEF StageInv

\* Every step of the upload, but the removal of a log, keeps the invariant.
LEMMA SentUpload ==
  ASSUME NoOverwriting, UpTypeInv, DeliveryInv, NamesInv, CountedInv, StageInv,
         UploadStep \/ NotConnected, ~RemoveUploaded, ~renumbered
  PROVE  NamesInv' /\ CountedInv' /\ StageInv'
<1>up. upc \in Uploading => upc \in Working
  BY DEF Working
<1>server. \A f \in DOMAIN server : f \in DOMAIN card /\ server[f] = SizeOf(f)
  BY DEF CountedInv
<1>1. CASE NotConnected \/ AskFails \/ ConnectReturnsFalse \/ Refused
  <2>1. UNCHANGED <<vars, outside>> /\ Leave /\ upc \in Working
    BY <1>1 DEF NotConnected, AskFails, ConnectReturnsFalse, Refused, GiveUp, Working,
       Uploading, UploadControl
  <2> QED
    BY <2>1, SentLeave
<1>2. CASE SendBreaks
  <2>1. UNCHANGED <<vars, outside>> /\ Leave /\ upc \in Working
    BY <1>2 DEF SendBreaks, Working, Uploading, UploadControl
  <2> QED
    BY <2>1, SentLeave
<1>3. CASE BeginUpload
  <2>1. upc \in Working /\ UNCHANGED <<vars, outside>>
    BY <1>3 DEF BeginUpload, Working
  <2>2. CASE Leave
    BY <2>1, <2>2, SentLeave
  <2>3. CASE ~Leave
    <3>1. /\ upc \in {"connected", "synced"} /\ upc' = "ask"
          /\ upNext <= upMax /\ UNCHANGED <<upNext, upMax>>
      BY <1>3, <2>3 DEF BeginUpload
    <3>2. UNCHANGED vars /\ server' = server /\ skipped' = skipped
      BY <2>1 DEF outside
    <3>3. NamesInv'
      BY <3>2, LoggerStill
    <3>4. StageInv'
      <4>1. upc' \in Working \cup {"done"}
        BY <3>1 DEF Working, Uploading, UploadControl
      <4> QED
        BY <2>1, <3>1, <3>2, <4>1, StageKept
    <3>5. CountedInv'
      BY <1>server, <2>1, <3>1, <3>2, CountedKept
    <3> QED
      BY <3>3, <3>4, <3>5
  <2> QED
    BY <2>2, <2>3
<1>4. CASE Asked \/ Connected \/ Answered
  <2>1. /\ UNCHANGED <<vars, upNext, upMax, upName>> /\ server' = server /\ skipped' = skipped
        /\ upc \in Asking /\ upc \in Uploading /\ upc' \in {"connect", "send", "remove", "count"}
    BY <1>4 DEF Asked, Connected, Answered, GoTo, outside, Asking, Uploading, UploadControl
  <2>2. upName \in DOMAIN card
    BY <2>1 DEF DeliveryInv
  <2>3. upc' = "count" => upName \in DOMAIN server
    BY <1>4 DEF Asked, Connected, Answered, GoTo, Known, Status200
  <2>4. upc' = "send" => fileSize' = SizeOf(upName)
    BY <1>4 DEF Asked, Connected, Answered, GoTo
  <2> QED
    BY <1>server, <2>1, <2>2, <2>3, <2>4, SentGoesOn
<1>5. CASE ConnectReturnsTrue \/ NoAnswerYet
  <2>1. /\ UNCHANGED <<vars, upNext, upMax, upName>> /\ server' = server
        /\ skipped \subseteq skipped' /\ upName \in DOMAIN server \cup skipped'
        /\ upc \in Asking /\ upc \in Uploading /\ upc' = "count"
    BY <1>5 DEF ConnectReturnsTrue, NoAnswerYet, GoTo, CountedUnseen, Known, Asking, Uploading,
       UploadControl
  <2>2. upName \in DOMAIN card
    BY <2>1 DEF DeliveryInv
  <2> QED
    BY <1>server, <2>1, <2>2, SentGoesOn
<1>6. CASE \E stored \in BOOLEAN : SendAll(stored)
  <2>1. PICK stored \in BOOLEAN : SendAll(stored)
    BY <1>6
  <2>2. /\ UNCHANGED <<vars, upNext, upMax, upName>> /\ skipped' = skipped
        /\ upc = "send" /\ upc' = "answer"
        /\ server' = IF stored THEN [f \in DOMAIN server \cup {upName} |->
                                       IF f = upName THEN fileSize ELSE server[f]]
                               ELSE server
    BY <2>1 DEF SendAll, GoTo
  <2>3. upc \in Uploading /\ upName \in DOMAIN card /\ fileSize = SizeOf(upName)
    BY <2>2 DEF DeliveryInv, CountedInv, Asking, Uploading, UploadControl
  <2>4. /\ DOMAIN server \subseteq DOMAIN server' /\ DOMAIN server' \subseteq DOMAIN server \cup {upName}
        /\ \A f \in DOMAIN server' : f \in DOMAIN card /\ server'[f] = SizeOf(f)
    BY <1>server, <2>2, <2>3
  <2> QED
    BY <2>2, <2>3, <2>4, SentGoesOn
<1>7. CASE LoadFirst \/ StoreFirst \/ PutFirst
  BY <1>7 DEF LoadFirst, StoreFirst, PutFirst, CountedInv
<1>8. CASE CountUploaded
  BY <1>8, SentCountUploaded
<1> QED
  BY <1>1, <1>2, <1>3, <1>4, <1>5, <1>6, <1>7, <1>8 DEF UploadStep

-----------------------------------------------------------------------------
(* The theorems.                                                           *)

LEMMA SentStep ==
  ASSUME NoOverwriting, UpTypeInv, DeliveryInv, SentInv, [UploaderNext]_upVars
  PROVE  SentInv'
<1> SUFFICES ASSUME ~renumbered' PROVE NamesInv' /\ CountedInv' /\ StageInv'
  BY DEF SentInv
<1>1. ~RemoveUploaded
  BY DEF RemoveUploaded
<1>2. CASE LoggerStep
  <2>1. ~renumbered
    <3>1. renumbered' = (renumbered \/ NumbersStartAgain)
      BY <1>2, SettledStays
    <3> QED
      BY <3>1, Zenon
  <2>2. NamesInv /\ CountedInv /\ StageInv
    BY <2>1 DEF SentInv
  <2> QED
    BY <1>2, <2>2, StageLogger, CountedLogger
<1>3. CASE PowerFails \/ Construct \/ ClockJumps \/ SerialRestart
  <2>1. ~renumbered
    BY <1>3 DEF PowerFails, Construct, ClockJumps, SerialRestart, outside
  <2>2. NamesInv /\ CountedInv /\ StageInv
    BY <2>1 DEF SentInv
  <2> QED
    BY <1>3, <2>2, SentPowerFails, SentConstruct, SentRestart
<1>4. CASE UploadStep \/ NotConnected
  <2>1. ~renumbered
    BY <1>1, <1>4 DEF UploadStep, NotConnected, BeginUpload, Asked, AskFails, Connected,
       ConnectReturnsTrue, ConnectReturnsFalse, SendBreaks, SendAll, Answered, Refused,
       NoAnswerYet, LoadFirst, StoreFirst, PutFirst, CountUploaded, GiveUp, outside
  <2>2. NamesInv /\ CountedInv /\ StageInv
    BY <2>1 DEF SentInv
  <2> QED
    BY <1>1, <1>4, <2>1, <2>2, SentUpload
<1>6. CASE WifiDisabled
  <2>1. /\ UNCHANGED <<vars, upNext, upMax, upName, fileSize, server, skipped, renumbered>>
        /\ upc' = "done" /\ pc \notin {"off", "idle"}
    BY <1>6 DEF WifiDisabled, MainFree, outside
  <2>2. NamesInv /\ CountedInv /\ StageInv
    BY <2>1 DEF SentInv
  <2>3. /\ NamesInv' /\ Pending' = Pending /\ (FullInv => FullInv')
        /\ (YoungLogger => YoungLogger') /\ (GrownLogger => GrownLogger')
    BY <2>1, <2>2, LoggerStill
  <2>4. UNCHANGED <<pc, next, name, ee, card>>
    BY <2>1 DEF vars, ram, disk
  <2>5. CountedInv'
    BY <2>1, <2>2, <2>3, <2>4 DEF CountedInv, Working, Uploading, Settled, SizeOf, Exists
  <2>6. (YoungUploader => YoungUploader') /\ (GrownUploader => GrownUploader')
    BY <2>1, <2>4 DEF YoungUploader, GrownUploader, Working, Uploading
  <2> QED
    BY <2>2, <2>3, <2>5, <2>6 DEF StageInv
<1>5. CASE UNCHANGED upVars
  <2>1. UNCHANGED <<vars, upc, upNext, upMax, upName, fileSize, server, skipped, renumbered>>
    BY <1>5 DEF upVars, upRam, outside
  <2>2. NamesInv /\ CountedInv /\ StageInv
    BY <2>1 DEF SentInv
  <2>3. /\ NamesInv' /\ Pending' = Pending /\ (FullInv => FullInv')
        /\ (YoungLogger => YoungLogger') /\ (GrownLogger => GrownLogger')
    BY <2>1, <2>2, LoggerStill
  <2>4. UNCHANGED <<pc, next, name, ee, card>>
    BY <2>1 DEF vars, ram, disk
  <2>5. CountedInv'
    BY <2>1, <2>2, <2>3, <2>4 DEF CountedInv, Settled, SizeOf, Exists
  <2>6. (YoungUploader => YoungUploader') /\ (GrownUploader => GrownUploader')
    BY <2>1, <2>4 DEF YoungUploader, GrownUploader
  <2> QED
    BY <2>2, <2>3, <2>5, <2>6 DEF StageInv
<1> QED
  BY <1>2, <1>3, <1>4, <1>5, <1>6 DEF UploaderNext


LEMMA SentInit ==
  ASSUME NoOverwriting, Init, InitUploader
  PROVE  SentInv
<1>1. /\ pc = "off" /\ puts = << >> /\ first = 0 /\ name = DefaultName
      /\ upc = "off" /\ server = << >> /\ skipped = {}
      /\ \A c \in Cells : ee[c] = Erased
  BY DEF Init, InitUploader
<1>2. Pending = {} /\ DOMAIN server = {}
  BY <1>1, PendingNone
<1>3. Erased \in Nat /\ Erased >= 1
  BY DEF Erased
<1>4. PICK n \in InitialLogs : DOMAIN card = {LogFile(k) : k \in 1 .. n}
  BY DEF Init
<1>5. n \in Nat /\ n <= MaxLog /\ MaxLog \in Nat
  BY CardAssumption, NumberAssumption DEF NoOverwriting
<1>6. \A f \in DOMAIN card :
         f.lead = 0 /\ f.low \in 1 .. MaxLog /\ \A k \in 1 .. f.low : LogFile(k) \in DOMAIN card
  <2> TAKE f \in DOMAIN card
  <2>1. PICK m \in 1 .. n : f = LogFile(m)
    BY <1>4
  <2>2. f = [lead |-> 0, low |-> m]
    BY <1>5, <2>1, ShortNames
  <2>3. f.low = m /\ f.lead = 0
    BY <2>2
  <2>4. \A k \in 1 .. m : k \in 1 .. n
    BY <1>5
  <2> QED
    BY <1>4, <1>5, <2>3, <2>4
<1>7. NamesInv
  BY <1>1, <1>6 DEF NamesInv, DefaultName
<1>8. CountedInv
  BY <1>1, <1>2, <1>3 DEF CountedInv, Working, Uploading, Cells
<1>9. YoungLogger
  <2>1. Consecutive
    BY <1>6 DEF Consecutive
  <2>2. ee["next"] = Erased /\ ee["first"] = Erased
    BY <1>1 DEF Cells
  <2> QED
    BY <1>1, <1>2, <2>1, <2>2 DEF YoungLogger, Named
<1>10. YoungUploader
  BY <1>1, <1>2 DEF YoungUploader
<1> QED
  BY <1>7, <1>8, <1>9, <1>10 DEF SentInv, StageInv

\* What the theorems rest on holds in every reachable state.
LEMMA SentAlways ==
  ASSUME NoOverwriting
  PROVE  UploaderSpec => [](UpTypeInv /\ SentInv)
<1>1. Init /\ InitUploader => UpTypeInv /\ DeliveryInv /\ SentInv
  BY UpTypeInit, DeliveryInit, SentInit
<1>2. UpTypeInv /\ DeliveryInv /\ SentInv /\ [UploaderNext]_upVars =>
        UpTypeInv' /\ DeliveryInv' /\ SentInv'
  <2> SUFFICES ASSUME UpTypeInv, DeliveryInv, SentInv, [UploaderNext]_upVars
               PROVE  UpTypeInv' /\ DeliveryInv' /\ SentInv'
    OBVIOUS
  <2>1. UpTypeInv'
    BY LoggerTypes, UploaderTypeStep DEF UpTypeInv
  <2>2. DeliveryInv'
    BY DeliveryInvStep DEF NoOverwriting
  <2> QED
    BY <2>1, <2>2, SentStep
<1> QED
  BY <1>1, <1>2, PTL DEF UploaderSpec

\* Without overwriting and until the numbers start again, upload_file() never
\* sends the log the interrupt writes to, and the server's copy of a log is as
\* long as the log on the card: no rotation, restart by the clock, failed open or
\* power loss makes a log grow after it was sent.
THEOREM SentLogsWhole == ASSUME NoOverwriting PROVE UploaderSpec => []SentWhole
<1>1. UpTypeInv /\ SentInv => SentWhole
  <2> SUFFICES ASSUME UpTypeInv, SentInv, ~renumbered
               PROVE  /\ upc \in {"send", "answer"} /\ pc = "logging" => upName # name
                      /\ \A f \in DOMAIN server : server[f] = SizeOf(f)
    BY DEF SentWhole
  <2>1. CountedInv /\ StageInv
    BY DEF SentInv
  <2>2. ASSUME upc \in {"send", "answer"}, pc = "logging" PROVE upName # name
    BY <2>1, <2>2, LogIsNew DEF Uploading, UploadControl
  <2> QED
    BY <2>1, <2>2 DEF CountedInv
<1> QED
  BY <1>1, SentAlways, PTL

\* Under the same conditions the constructor of the uploader never starts beyond
\* a log that the server does not have, except one that was counted because
\* upload_file() ended without a return value or before any answer came.
THEOREM UploadResumes == ASSUME NoOverwriting PROVE UploaderSpec => []NothingElseSkipped
<1>1. UpTypeInv /\ SentInv => NothingElseSkipped
  <2> SUFFICES ASSUME UpTypeInv, SentInv, ~renumbered, NEW n \in 1 .. FirstToUpload - 1
               PROVE  LogFile(n) \in DOMAIN server \cup skipped
    BY DEF NothingElseSkipped
  <2>1. NamesInv /\ CountedInv
    BY DEF SentInv
  <2>2. FirstToUpload \in Nat
    BY FirstToUploadType DEF UpTypeInv
  <2>3. FirstToUpload = 1 \/ (FirstToUpload = ee["upNext"] /\ ee["upNext"] # Erased)
    BY <2>1, ErasedHasNoFile DEF FirstToUpload, Exists
  <2>4. FirstToUpload # 1
    BY <2>2
  <2> QED
    BY <2>1, <2>3, <2>4 DEF CountedInv, Settled
<1> QED
  BY <1>1, SentAlways, PTL
=============================================================================
