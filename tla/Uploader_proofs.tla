---------------------------- MODULE Uploader_proofs ----------------------------
(***************************************************************************)
(* Theorems about Uploader, for every card, limit and sequence of faults.  *)
(***************************************************************************)
EXTENDS Uploader, LogStore_proofs

-----------------------------------------------------------------------------
(* Delivery.  Without overwriting only the uploader removes logs, so a log *)
(* it works on stays on the card, and one the server has stays known.      *)

\* The control points at which the log is on the card.
Asking == {"ask", "connect", "send", "answer", "remove"}

DeliveryInv ==
  /\ ~overwrite /\ ~overwriting
  /\ upc \in Asking => upName \in DOMAIN card
  /\ upc \in {"connect", "send"} => upName \notin DOMAIN server
  /\ upc = "remove" => upName \in DOMAIN server

\* The card keeps its logs, or gets one more.
Grows == DOMAIN card' = DOMAIN card \/ \E f : f \notin DOMAIN card /\ DOMAIN card' = DOMAIN card \cup {f}

\* Without overwriting nothing in start_log() removes a log.
LEMMA StartGrows ==
  ASSUME DeliveryInv, InStartLog
  PROVE  Grows /\ ~overwrite' /\ ~overwriting'
<1> USE DEF DeliveryInv, Grows
<1>1. CASE SpaceEnough \/ SpaceDenied
  BY <1>1 DEF SpaceEnough, SpaceDenied, disk
<1>2. CASE PickReset \/ PickNext \/ PickSearch
  BY <1>2 DEF PickReset, PickNext, PickSearch, disk
<1>3. CASE SearchFound \/ SearchOn \/ SearchFull
  BY <1>3 DEF SearchFound, SearchOn, SearchFull, disk
<1>4. CASE OpenLog
  BY <1>4 DEF OpenLog, Exists, ram
<1>5. CASE OpenFails
  BY <1>5 DEF OpenFails, ram, disk
<1>6. CASE WriteHeader
  BY <1>6 DEF WriteHeader
<1>7. ~DeleteOldest /\ ~PickOverwriting /\ ~SearchOverwrite
  BY DEF DeleteOldest, PickOverwriting, SearchOverwrite, MayRemove, Shortcut
<1> QED
  BY <1>1, <1>2, <1>3, <1>4, <1>5, <1>6, <1>7 DEF InStartLog

\* Nor does any other step of the logger.
LEMMA LoggerGrows ==
  ASSUME DeliveryInv, Configs = {FALSE}, LoggerStep
  PROVE  Grows /\ ~overwrite' /\ ~overwriting'
<1>1. CASE EepromPut
  BY <1>1 DEF EepromPut, DeliveryInv, Grows, ram, disk
<1>2. CASE InStartLog
  BY <1>2, StartGrows
<1>3. CASE BootStarts
  BY <1>3 DEF BootStarts, StartAtBoot, DeliveryInv, Grows, disk
<1>4. CASE PowerOn
  BY <1>4 DEF PowerOn, DeliveryInv, Grows, disk
<1>5. CASE LineWritten
  BY <1>5 DEF LineWritten, WriteLine, Grow, DeliveryInv, Grows
<1>6. CASE FlushBuffered
  BY <1>6 DEF FlushBuffered, WriteBuffered, Grow, DeliveryInv, Grows, ram
<1> QED
  BY <1>1, <1>2, <1>3, <1>4, <1>5, <1>6 DEF LoggerStep

\* What a step of the logger means to the server: a new log is recorded.
LEMMA LoggerRecords ==
  ASSUME Grows, NewLogsUnknown
  PROVE  /\ DOMAIN card \subseteq DOMAIN card'
         /\ DOMAIN server' = DOMAIN server \ (DOMAIN card' \ DOMAIN card)
         /\ DOMAIN card' # DOMAIN card => \E f \in DOMAIN card' : D!Record(f)
<1>1. /\ DOMAIN card \subseteq DOMAIN card'
      /\ DOMAIN server' = DOMAIN server \ (DOMAIN card' \ DOMAIN card)
  BY DEF Grows, NewLogsUnknown
<1>2. ASSUME DOMAIN card' # DOMAIN card PROVE \E f \in DOMAIN card' : D!Record(f)
  <2>1. PICK f : f \notin DOMAIN card /\ DOMAIN card' = DOMAIN card \cup {f}
    BY <1>2 DEF Grows
  <2>2. DOMAIN server' = DOMAIN server \ {f}
    BY <1>1, <2>1
  <2> QED
    BY <2>1, <2>2 DEF D!Record
<1> QED
  BY <1>1, <1>2

LEMMA DeliveryInit == Init /\ InitUploader => DeliveryInv
  BY DEF Init, InitUploader, DeliveryInv, Asking

\* Each step keeps the log the uploader works on, and what the server has of it.
LEMMA DeliveryInvStep ==
  ASSUME Configs = {FALSE}, DeliveryInv, [UploaderNext]_upVars
  PROVE  DeliveryInv'
<1> USE DEF Asking
<1>1. CASE LoggerStep
  <2>1. Grows /\ ~overwrite' /\ ~overwriting' /\ NewLogsUnknown /\ UNCHANGED <<upc, upName>>
    BY <1>1, LoggerGrows DEF LoggerStep, History, upRam
  <2>2. DOMAIN card \subseteq DOMAIN card'
        /\ DOMAIN server' = DOMAIN server \ (DOMAIN card' \ DOMAIN card)
    BY <2>1, LoggerRecords
  <2> QED
    BY <2>1, <2>2 DEF DeliveryInv
<1>2. CASE PowerFails
  BY <1>2 DEF PowerFails, PowerLoss, DeliveryInv
<1>3. CASE Construct \/ WifiDisabled
  BY <1>3 DEF Construct, WifiDisabled, DeliveryInv, vars, ram
<1>4. CASE NotConnected \/ GiveUp
  BY <1>4 DEF NotConnected, GiveUp, Leave, DeliveryInv, vars, ram
<1>5. CASE ClockJumps \/ SerialRestart
  BY <1>5 DEF ClockJumps, SerialRestart, RestartLogging, DeliveryInv, upRam
<1>6. CASE BeginUpload
  BY <1>6 DEF BeginUpload, Leave, Exists, DeliveryInv, vars, ram, disk, outside
<1>7. CASE Asked
  BY <1>7 DEF Asked, GoTo, Known, DeliveryInv, vars, ram, disk, outside
<1>8. CASE Connected
  BY <1>8 DEF Connected, GoTo, DeliveryInv, vars, ram, disk, outside
<1>9. CASE ConnectReturnsTrue
  BY <1>9 DEF ConnectReturnsTrue, GoTo, DeliveryInv, vars, ram
<1>10. CASE SendBreaks
  BY <1>10 DEF SendBreaks, Leave, DeliveryInv, vars, ram
<1>11. CASE \E stored \in BOOLEAN : SendAll(stored)
  BY <1>11 DEF SendAll, GoTo, DeliveryInv, vars, ram, disk
<1>12. CASE Answered
  BY <1>12 DEF Answered, Status200, Known, GoTo, DeliveryInv, vars, ram, disk, outside
<1>13. CASE NoAnswerYet
  BY <1>13 DEF NoAnswerYet, GoTo, DeliveryInv, vars, ram
<1>14. CASE RemoveUploaded
  BY <1>14 DEF RemoveUploaded, GoTo, DeliveryInv, ram
<1>15. CASE LoadFirst \/ StoreFirst \/ PutFirst
  BY <1>15 DEF LoadFirst, StoreFirst, PutFirst, GoTo, DeliveryInv, vars, ram
<1>16. CASE CountUploaded
  BY <1>16 DEF CountUploaded, Leave, Exists, DeliveryInv, ram, disk, outside
<1>17. CASE UNCHANGED upVars
  BY <1>17 DEF DeliveryInv, upVars, vars, ram, disk, upRam, outside
<1> QED
  BY <1>1, <1>2, <1>3, <1>4, <1>5, <1>6, <1>7, <1>8, <1>9, <1>10, <1>11, <1>12,
     <1>13, <1>14, <1>15, <1>16, <1>17
     DEF UploaderNext, UploadStep, AskFails, ConnectReturnsFalse, Refused

\* Each step is one of Delivery, or leaves card and server as they are.
LEMMA DeliveryStep ==
  ASSUME Configs = {FALSE}, DeliveryInv, [UploaderNext]_upVars
  PROVE  [D!Next]_(D!vars)
<1> DEFINE Quiet == UNCHANGED <<DOMAIN card, DOMAIN server>>
<1>0. Quiet => [D!Next]_(D!vars)
  BY DEF D!vars
<1> USE DEF Asking
<1>1. CASE LoggerStep
  <2>1. Grows /\ NewLogsUnknown
    BY <1>1, LoggerGrows DEF LoggerStep, History
  <2>2. CASE DOMAIN card' = DOMAIN card
    BY <1>0, <2>1, <2>2, LoggerRecords
  <2>3. CASE DOMAIN card' # DOMAIN card
    BY <2>1, <2>3, LoggerRecords DEF D!Next
  <2> QED
    BY <2>2, <2>3
<1>2. CASE \E stored \in BOOLEAN : SendAll(stored)
  <2>1. PICK stored \in BOOLEAN : SendAll(stored)
    BY <1>2
  <2>2. upc = "send" /\ DOMAIN card' = DOMAIN card
    BY <2>1 DEF SendAll, vars, disk
  <2>3. upName \in DOMAIN card /\ upName \notin DOMAIN server
    BY <2>2 DEF DeliveryInv
  <2>4. CASE stored
    <3>1. DOMAIN server' = DOMAIN server \cup {upName}
      BY <2>1, <2>4 DEF SendAll
    <3>2. D!Deliver(upName)
      BY <2>2, <2>3, <3>1 DEF D!Deliver
    <3> QED
      BY <2>3, <3>2 DEF D!Next
  <2>5. CASE ~stored
    BY <1>0, <2>1, <2>2, <2>5 DEF SendAll
  <2> QED
    BY <2>4, <2>5
<1>3. CASE RemoveUploaded
  <2>1. upName \in DOMAIN card /\ upName \in DOMAIN server
    BY <1>3 DEF RemoveUploaded, DeliveryInv
  <2>2. DOMAIN card' = DOMAIN card \ {upName} /\ DOMAIN server' = DOMAIN server
    BY <1>3 DEF RemoveUploaded, Remove
  <2>3. D!Discard(upName)
    BY <2>1, <2>2 DEF D!Discard
  <2> QED
    BY <2>1, <2>3 DEF D!Next
<1>4. CASE PowerFails
  BY <1>0, <1>4 DEF PowerFails, PowerLoss, disk, outside
<1>5. CASE Construct \/ WifiDisabled \/ NotConnected \/ GiveUp \/ BeginUpload
  BY <1>0, <1>5 DEF Construct, WifiDisabled, NotConnected, GiveUp, BeginUpload, vars, disk, outside
<1>9. CASE ClockJumps \/ SerialRestart
  BY <1>0, <1>9 DEF ClockJumps, SerialRestart, RestartLogging, disk, outside
<1>6. CASE Asked \/ Connected \/ ConnectReturnsTrue \/ SendBreaks \/ Answered \/ NoAnswerYet
  BY <1>0, <1>6 DEF Asked, Connected, ConnectReturnsTrue, SendBreaks, Answered, NoAnswerYet,
     vars, disk, outside
<1>7. CASE LoadFirst \/ StoreFirst \/ PutFirst \/ CountUploaded
  BY <1>0, <1>7 DEF LoadFirst, StoreFirst, PutFirst, CountUploaded, vars, disk, outside
<1>8. CASE UNCHANGED upVars
  BY <1>0, <1>8 DEF upVars, vars, disk, outside
<1> QED
  BY <1>1, <1>2, <1>3, <1>4, <1>5, <1>6, <1>7, <1>8, <1>9
     DEF UploaderNext, UploadStep, AskFails, ConnectReturnsFalse, Refused

\* Without overwriting, the uploader and the logger together implement
\* Delivery: a log leaves the card only when the server has it.
THEOREM Delivers == ASSUME Configs = {FALSE} PROVE UploaderSpec => IsDelivery
<1>1. Init /\ InitUploader => DeliveryInv /\ D!Init
  BY DeliveryInit DEF InitUploader, D!Init
<1>2. DeliveryInv /\ [UploaderNext]_upVars => DeliveryInv'
  BY DeliveryInvStep
<1>3. DeliveryInv /\ [UploaderNext]_upVars => [D!Next]_(D!vars)
  BY DeliveryStep
<1> QED
  BY <1>1, <1>2, <1>3, PTL DEF UploaderSpec, IsDelivery, D!Spec

-----------------------------------------------------------------------------
(* Types.                                                                  *)

UpTypeInv == TypeInv /\ UploaderTypeOK

\* The number after n is written into the name of n, whether it has three
\* digits or four.
LEMMA NextLogName ==
  ASSUME NEW n \in Nat
  PROVE  SetName(n + 1, LogFile(n)) = LogFile(n + 1)
  BY NumberAssumption DEF SetName, LogFile, DefaultName

\* The constructor starts from a log number.
LEMMA FirstToUploadType ==
  ASSUME TypeInv
  PROVE  FirstToUpload \in Nat
  BY DEF FirstToUpload, TypeInv, NumbersOK, Cells

\* A step that changes nothing of the logger.
LEMMA LoggerUnchanged ==
  ASSUME TypeInv, UNCHANGED vars
  PROVE  TypeInv'
  BY TypeStep

\* A step that stores a number in EEPROM, and changes nothing else there.
LEMMA StoreType ==
  ASSUME TypeInv, NEW c \in Cells \ {"next"}, NEW v \in Nat,
         ee' = [ee EXCEPT ![c] = v], UNCHANGED <<pc, ram, puts, disk>>
  PROVE  TypeInv'
<1>1. ee' \in [Cells -> Nat] /\ ee'["next"] >= 1
  BY DEF TypeInv, NumbersOK, Cells
<1>2. CardOK'
  BY DEF TypeInv, CardOK, disk
<1> QED
  BY <1>1, <1>2, PutsType DEF TypeInv, NumbersOK, ram, disk

LEMMA UpTypeInit == Init /\ InitUploader => UpTypeInv
<1> SUFFICES ASSUME Init, InitUploader PROVE UpTypeInv
  OBVIOUS
<1>1. TypeInv
  BY TypeInit
<1>2. DOMAIN server = {} /\ server \in [DOMAIN server -> Nat]
  BY DEF InitUploader
<1> QED
  BY <1>1, <1>2, DefaultNameType
     DEF InitUploader, UpTypeInv, UploaderTypeOK, UploadControl, Uploading

\* The logger keeps its types beside the uploader.
LEMMA LoggerTypes ==
  ASSUME UpTypeInv, [UploaderNext]_upVars
  PROVE  TypeInv'
<1> USE DEF UpTypeInv
<1>1. CASE LoggerStep
  <2>1. Next
    BY <1>1 DEF LoggerStep, BootStarts, LineWritten, FlushBuffered, Next, Step
  <2> QED
    BY <2>1, TypeStep
<1>2. CASE PowerFails
  BY <1>2, TypeStep DEF PowerFails, Next
<1>3. CASE Construct
  <2>1. FirstToUpload \in Nat
    BY FirstToUploadType
  <2> QED
    BY <1>3, <2>1, StoreType DEF Construct, Cells
<1>4. CASE ClockJumps \/ SerialRestart
  <2>1. Next
    BY <1>4 DEF ClockJumps, SerialRestart, Next, Step
  <2> QED
    BY <2>1, TypeStep
<1>5. CASE RemoveUploaded
  <2>1. CardOK' /\ free' \in Nat
    <3>1. Remove(upName)
      BY <1>5 DEF RemoveUploaded
    <3> QED
      BY <3>1, RemoveType DEF TypeInv, NumbersOK
  <2> QED
    BY <1>5, <2>1, PutsType DEF RemoveUploaded, TypeInv, NumbersOK, ram
<1>6. CASE StoreFirst
  <2>1. first' \in Nat
    BY <1>6 DEF StoreFirst, UploaderTypeOK
  <2>2. CardOK'
    BY <1>6 DEF StoreFirst, TypeInv, CardOK, disk
  <2> QED
    BY <1>6, <2>1, <2>2, PutsType DEF StoreFirst, TypeInv, NumbersOK, disk
<1>7. CASE PutFirst
  <2>1. first \in Nat
    BY DEF TypeInv, NumbersOK
  <2> QED
    BY <1>7, <2>1, StoreType DEF PutFirst, Cells
<1>8. CASE CountUploaded
  <2>1. LogAfter(upNext) \in Nat
    BY DEF LogAfter, UploaderTypeOK
  <2> QED
    BY <1>8, <2>1, StoreType DEF CountUploaded, Cells
<1>9. CASE UNCHANGED vars
  BY <1>9, LoggerUnchanged
<1> QED
  BY <1>1, <1>2, <1>3, <1>4, <1>5, <1>6, <1>7, <1>8, <1>9
     DEF UploaderNext, UploadStep, WifiDisabled, NotConnected, BeginUpload, Asked, AskFails, GiveUp,
         Connected, ConnectReturnsTrue, ConnectReturnsFalse, SendBreaks, SendAll,
         Answered, Refused, NoAnswerYet, LoadFirst, upVars

\* A step that leaves the number, the limit and the name alone, inside
\* upload_data() or out of it.
LEMMA PointerUnchanged ==
  ASSUME UploaderTypeOK, UNCHANGED <<upNext, upMax, upName>>,
         upc' \in UploadControl, upc' \in Uploading => upc \in Uploading,
         noWrite' \in BOOLEAN, fileSize' \in Nat, loaded' \in Nat, delete' \in BOOLEAN,
         renumbered' \in BOOLEAN, skipped' \subseteq FileNames,
         DOMAIN server' \subseteq FileNames /\ server' \in [DOMAIN server' -> Nat]
  PROVE  UploaderTypeOK'
  BY DEF UploaderTypeOK

\* The size of a file is a number.
LEMMA SizeType ==
  ASSUME TypeInv, NEW f
  PROVE  SizeOf(f) \in Nat
  BY DEF TypeInv, CardOK, SizeOf, Exists

\* Leaving upload_data().
LEMMA LeaveType ==
  ASSUME UploaderTypeOK, Leave, noWrite' \in BOOLEAN, fileSize' \in Nat,
         UNCHANGED <<delete, loaded, outside>>
  PROVE  UploaderTypeOK'
  BY DefaultNameType DEF Leave, UploaderTypeOK, UploadControl, Uploading, outside

\* Counting a log.
LEMMA CountedType ==
  ASSUME UploaderTypeOK, CountedUnseen
  PROVE  skipped' \subseteq FileNames
  BY DEF UploaderTypeOK, CountedUnseen

LEMMA UploaderTypeStep ==
  ASSUME UpTypeInv, [UploaderNext]_upVars
  PROVE  UploaderTypeOK'
<1> USE DEF UpTypeInv, UploadControl, Uploading
<1>1. CASE LoggerStep
  <2>1. UNCHANGED upRam /\ NewLogsUnknown
    BY <1>1 DEF LoggerStep, History
  <2>2. /\ DOMAIN server' \subseteq FileNames /\ server' \in [DOMAIN server' -> Nat]
        /\ skipped' \subseteq FileNames
    BY <2>1 DEF NewLogsUnknown, UploaderTypeOK
  <2>3. renumbered' \in BOOLEAN
    BY <1>1 DEF LoggerStep, History, NumbersStartAgain, UploaderTypeOK
  <2> QED
    BY <2>1, <2>2, <2>3 DEF upRam, UploaderTypeOK
<1>2. CASE PowerFails
  BY <1>2, DefaultNameType DEF PowerFails, UploaderTypeOK, outside
<1>3. CASE Construct
  <2>1. FirstToUpload \in Nat /\ ee["upMax"] \in Nat
    BY FirstToUploadType DEF TypeInv, NumbersOK, Cells
  <2>2. delete' \in BOOLEAN
    BY <1>3, UploadAssumption DEF Construct
  <2> QED
    BY <1>3, <2>1, <2>2 DEF Construct, UploaderTypeOK, outside
<1>4. CASE NotConnected \/ GiveUp
  BY <1>4, LeaveType DEF NotConnected, GiveUp, outside, UploaderTypeOK
<1>5. CASE ClockJumps \/ SerialRestart \/ WifiDisabled
  BY <1>5 DEF ClockJumps, SerialRestart, WifiDisabled, UploaderTypeOK, upRam, outside
<1>6. CASE BeginUpload
  <2>1. LogFile(upNext) \in FileNames
    BY SetNameType, DefaultNameType DEF LogFile, UploaderTypeOK
  <2>2. CASE upNext <= upMax /\ Exists(LogFile(upNext))
    BY <1>6, <2>1, <2>2 DEF BeginUpload, UploaderTypeOK, outside
  <2>3. CASE ~(upNext <= upMax /\ Exists(LogFile(upNext)))
    BY <1>6, <2>3, LeaveType DEF BeginUpload, UploaderTypeOK, outside
  <2> QED
    BY <2>2, <2>3
<1>7. CASE Asked
  BY <1>7, PointerUnchanged DEF Asked, GoTo, UploaderTypeOK, outside
<1>8. CASE Connected
  BY <1>8, PointerUnchanged, SizeType DEF Connected, GoTo, UploaderTypeOK, outside
<1>9. CASE ConnectReturnsTrue
  BY <1>9, CountedType, PointerUnchanged DEF ConnectReturnsTrue, GoTo, UploaderTypeOK
<1>10. CASE SendBreaks
  BY <1>10, LeaveType DEF SendBreaks, outside, UploaderTypeOK
<1>11. CASE \E stored \in BOOLEAN : SendAll(stored)
  <2>1. PICK stored \in BOOLEAN : SendAll(stored)
    BY <1>11
  <2>2. DOMAIN server' \subseteq FileNames /\ server' \in [DOMAIN server' -> Nat]
    BY <2>1 DEF SendAll, UploaderTypeOK
  <2> QED
    BY <2>1, <2>2, PointerUnchanged DEF SendAll, GoTo, UploaderTypeOK
<1>12. CASE Answered
  BY <1>12, PointerUnchanged DEF Answered, GoTo, UploaderTypeOK, outside
<1>13. CASE NoAnswerYet
  <2>1. skipped' \subseteq FileNames
    BY <1>13, CountedType DEF NoAnswerYet
  <2> QED
    BY <1>13, <2>1, PointerUnchanged DEF NoAnswerYet, GoTo, UploaderTypeOK
<1>14. CASE RemoveUploaded
  BY <1>14, PointerUnchanged DEF RemoveUploaded, GoTo, UploaderTypeOK
<1>15. CASE LoadFirst
  <2>1. first \in Nat
    BY DEF TypeInv, NumbersOK
  <2> QED
    BY <1>15, <2>1, PointerUnchanged DEF LoadFirst, GoTo, UploaderTypeOK, outside
<1>16. CASE StoreFirst \/ PutFirst
  BY <1>16, PointerUnchanged DEF StoreFirst, PutFirst, GoTo, UploaderTypeOK, outside
<1>17. CASE CountUploaded
  <2>1. upName = LogFile(upNext) /\ upNext \in Nat /\ upMax \in Nat
    BY <1>17 DEF CountUploaded, UploaderTypeOK
  <2>2. CASE BelowLimit(LogAfter(upNext)) /\ Exists(SetName(LogAfter(upNext), upName))
    <3>1. /\ upc' = "ask" /\ upMax' = upMax /\ upNext' = upNext + 1
          /\ upName' = SetName(upNext + 1, upName)
      BY <1>17, <2>2 DEF CountUploaded, LogAfter
    <3>2. upNext' <= upMax'
      BY <2>1, <2>2, <3>1 DEF BelowLimit, LogAfter
    <3>3. upName' = LogFile(upNext')
      BY <2>1, <3>1, NextLogName
    <3>4. upName' \in FileNames
      <4>1. upName \in FileNames /\ upNext + 1 \in Nat
        BY <2>1 DEF UploaderTypeOK
      <4> QED
        BY <3>1, <4>1, SetNameType
    <3> QED
      BY <1>17, <2>1, <3>1, <3>2, <3>3, <3>4 DEF CountUploaded, UploaderTypeOK, outside
  <2>3. CASE ~(BelowLimit(LogAfter(upNext)) /\ Exists(SetName(LogAfter(upNext), upName)))
    BY <1>17, <2>3, LeaveType DEF CountUploaded, UploaderTypeOK, outside
  <2> QED
    BY <2>2, <2>3
<1>18. CASE UNCHANGED upVars
  BY <1>18 DEF upVars, upRam, outside, UploaderTypeOK
<1> QED
  BY <1>1, <1>2, <1>3, <1>4, <1>5, <1>6, <1>7, <1>8, <1>9, <1>10, <1>11, <1>12,
     <1>13, <1>14, <1>15, <1>16, <1>17, <1>18
     DEF UploaderNext, UploadStep, AskFails, ConnectReturnsFalse, Refused

\* While logs are uploaded, the number stays within the limit the constructor
\* read and the name is the number's, whatever the interrupt does to the logs.
THEOREM UploaderTypeCorrect == UploaderSpec => []UploaderTypeOK
<1>1. UpTypeInv /\ [UploaderNext]_upVars => UpTypeInv'
  BY LoggerTypes, UploaderTypeStep DEF UpTypeInv
<1>2. UpTypeInv => UploaderTypeOK
  BY DEF UpTypeInv
<1> QED
  BY <1>1, <1>2, UpTypeInit, PTL DEF UploaderSpec
=============================================================================
