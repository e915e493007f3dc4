--------------------------- MODULE LogStore_proofs ---------------------------
(***************************************************************************)
(* Theorems about LogStore, for every value of its constants: any number   *)
(* of logs, any card, any sequence of power losses.                        *)
(***************************************************************************)
EXTENDS LogStore, SequenceTheorems, TLAPS

\* The EEPROM.put calls still under way, in no order.
Pending == {puts[i] : i \in DOMAIN puts}

PutsOK ==
  /\ puts \in Seq([cell : Cells, val : Nat])
  /\ \A p \in Pending : p.cell = "next" => p.val >= 1

CardOK ==
  /\ DOMAIN card \subseteq FileNames
  /\ card \in [DOMAIN card -> [size : Nat, headers : Nat]]

NumbersOK ==
  /\ pc \in Control
  /\ next \in Nat /\ first \in Nat /\ toTry \in Nat
  /\ overwriting \in BOOLEAN /\ overwrite \in BOOLEAN
  /\ name \in FileNames /\ delName \in FileNames
  /\ ee \in [Cells -> Nat] /\ free \in Nat
  /\ pc # "off" => next >= 1
  /\ ee["next"] >= 1

\* TypeOK, and: the next log number is at least 1 from the constructor on, in
\* RAM, in EEPROM and on its way there, so start_log() may subtract 1 from it.
TypeInv == PutsOK /\ CardOK /\ NumbersOK

-----------------------------------------------------------------------------
(* Lemmas about the operators of the model.                                *)

\* Formatting a number into a name buffer gives a file name.
LEMMA SetNameType ==
  ASSUME NEW n \in Nat, NEW buf \in FileNames
  PROVE  SetName(n, buf) \in FileNames
  BY NumberAssumption DEF SetName, FileNames

\* The default name is a file name.
LEMMA DefaultNameType == DefaultName \in FileNames
  BY DEF DefaultName, FileNames

\* Removing a file leaves a card, and does not take space away.
LEMMA RemoveType ==
  ASSUME CardOK, free \in Nat, NEW f, Remove(f)
  PROVE  /\ CardOK' /\ free' \in Nat /\ free' >= free
         /\ DOMAIN card' = DOMAIN card \ {f}
         /\ \A g \in DOMAIN card' : card'[g] = card[g]
  BY DEF Remove, CardOK, SizeOf, Exists

\* What is written takes at most the space there is.
LEMMA RoomType ==
  ASSUME NEW n \in Nat, free \in Nat
  PROVE  Room(n) \in 0 .. n /\ free - Room(n) \in Nat
  BY DEF Room

\* Writing moves space from the card to the log, and touches no other log.
LEMMA GrowType ==
  ASSUME CardOK, free \in Nat, NEW n \in Nat, Grow(n)
  PROVE  /\ CardOK' /\ free' \in Nat
         /\ DOMAIN card' = DOMAIN card
         /\ \A f \in DOMAIN card : /\ card'[f].headers = card[f].headers
                                   /\ f # name => card'[f] = card[f]
         /\ name \in DOMAIN card =>
              /\ card'[name].size \in Nat
              /\ free' + card'[name].size = free + card[name].size
<1>1. Room(n) \in Nat /\ free - Room(n) \in Nat
  BY RoomType
<1>2. DOMAIN card' = DOMAIN card
  BY DEF Grow
<1>3. \A f \in DOMAIN card :
        card'[f] = IF f = name THEN [card[f] EXCEPT !.size = @ + Room(n)] ELSE card[f]
  BY DEF Grow
<1>4. \A f \in DOMAIN card : card[f] \in [size : Nat, headers : Nat]
  BY DEF CardOK
<1>5. \A f \in DOMAIN card : card'[f] \in [size : Nat, headers : Nat]
                             /\ card'[f].headers = card[f].headers
  <2> TAKE f \in DOMAIN card
  <2>1. card[f] \in [size : Nat, headers : Nat]
    BY <1>4
  <2>2. CASE f = name
    <3>1. card'[f] = [card[f] EXCEPT !.size = card[f].size + Room(n)]
      BY <1>3, <2>2
    <3> QED
      BY <1>1, <2>1, <3>1
  <2>3. CASE f # name
    BY <1>3, <2>1, <2>3
  <2> QED
    BY <2>2, <2>3
<1>6. card' = [f \in DOMAIN card' |-> card'[f]]
  BY DEF Grow
<1>7. CardOK'
  BY <1>2, <1>5, <1>6 DEF CardOK
<1>8. ASSUME name \in DOMAIN card
      PROVE  /\ card'[name].size \in Nat
             /\ free' + card'[name].size = free + card[name].size
  <2>1. card'[name].size = card[name].size + Room(n) /\ card[name].size \in Nat
    BY <1>3, <1>4, <1>8
  <2> QED
    BY <1>1, <2>1 DEF Grow
<1> QED
  BY <1>1, <1>2, <1>3, <1>5, <1>7, <1>8 DEF Grow

\* A put comes from the pending ones, and leaves the others pending.
LEMMA PutTaken ==
  ASSUME PutsOK, EepromPut
  PROVE  /\ Head(puts) \in Pending /\ Head(puts) \in [cell : Cells, val : Nat]
         /\ puts' \in Seq([cell : Cells, val : Nat])
         /\ Pending' \subseteq Pending /\ Pending \subseteq Pending' \cup {Head(puts)}
         /\ ee' = [ee EXCEPT ![Head(puts).cell] = Head(puts).val]
<1> DEFINE P == [cell : Cells, val : Nat]
<1>1. puts \in Seq(P) /\ puts # << >> /\ puts' = Tail(puts)
  BY DEF PutsOK, EepromPut
<1> HIDE DEF P
<1>2. Head(puts) \in P /\ Tail(puts) \in Seq(P)
  BY <1>1, HeadTailProperties
<1>3. /\ Len(puts) \in Nat \ {0} /\ DOMAIN puts = 1 .. Len(puts)
      /\ DOMAIN Tail(puts) = 1 .. Len(puts) - 1
      /\ \A i \in 1 .. Len(puts) - 1 : Tail(puts)[i] = puts[i + 1]
  BY <1>1, <1>2, HeadTailProperties, LenProperties, EmptySeq
<1>4. Head(puts) = puts[1]
  BY <1>1
<1>5. Head(puts) \in Pending
  BY <1>3, <1>4 DEF Pending
<1>6. Pending' \subseteq Pending
  BY <1>1, <1>3 DEF Pending
<1>7. Pending \subseteq Pending' \cup {Head(puts)}
  <2> SUFFICES ASSUME NEW i \in 1 .. Len(puts), i # 1
               PROVE  puts[i] \in Pending'
    BY <1>3, <1>4 DEF Pending
  <2>1. i - 1 \in 1 .. Len(puts) - 1 /\ Tail(puts)[i - 1] = puts[i]
    BY <1>3
  <2> QED
    BY <2>1, <1>1, <1>3 DEF Pending
<1> QED
  BY <1>1, <1>2, <1>5, <1>6, <1>7 DEF EepromPut, P

\* What each way of setting puts leaves pending.
LEMMA PutsPending ==
  /\ \A c, v : puts' = << Put(c, v) >> => Pending' = {Put(c, v)}
  /\ \A n, f : puts' = StoreBoth(n, f) => Pending' = {Put("next", n), Put("first", f)}
  /\ puts' = puts => Pending' = Pending
  /\ puts' = << >> => Pending' = {}
  /\ puts' = ResetPuts =>
       Pending' = {Put("next", 1), Put("first", 0), Put("upNext", 1), Put("upMax", 0)}
  BY DEF Pending, StoreBoth, ResetPuts

\* Each way of setting puts leaves a sequence of puts.
LEMMA PutsType ==
  /\ PutsOK /\ puts' = puts => PutsOK'
  /\ puts' = << >> => PutsOK'
  /\ puts' = ResetPuts => PutsOK'
  /\ \A n \in Nat : n >= 1 /\ puts' = StoreNext(n) => PutsOK'
  /\ \A n, f \in Nat : n >= 1 /\ puts' = StoreBoth(n, f) => PutsOK'
  /\ \A c \in Cells, v \in Nat : c # "next" /\ puts' = << Put(c, v) >> => PutsOK'
<1>1. PutsOK /\ puts' = puts => PutsOK'
  BY PutsPending DEF PutsOK
<1>2. puts' = << >> => PutsOK'
  BY PutsPending DEF PutsOK
<1>3. puts' = ResetPuts => PutsOK'
  <2> SUFFICES ASSUME puts' = ResetPuts PROVE PutsOK'
    OBVIOUS
  <2>1. puts' \in Seq([cell : Cells, val : Nat])
    BY DEF ResetPuts, Put, Cells
  <2> QED
    BY <2>1, PutsPending DEF PutsOK, Put
<1>4. \A n \in Nat : n >= 1 /\ puts' = StoreNext(n) => PutsOK'
  <2> SUFFICES ASSUME NEW n \in Nat, n >= 1, puts' = << Put("next", n) >> PROVE PutsOK'
    BY DEF StoreNext
  <2>1. puts' \in Seq([cell : Cells, val : Nat])
    BY DEF Put, Cells
  <2> QED
    BY <2>1, PutsPending DEF PutsOK, Put
<1>5. \A n, f \in Nat : n >= 1 /\ puts' = StoreBoth(n, f) => PutsOK'
  <2> SUFFICES ASSUME NEW n \in Nat, NEW f \in Nat, n >= 1, puts' = StoreBoth(n, f)
               PROVE  PutsOK'
    OBVIOUS
  <2>1. puts' \in Seq([cell : Cells, val : Nat])
    BY DEF StoreBoth, Put, Cells
  <2> QED
    BY <2>1, PutsPending DEF PutsOK, Put
<1>6. \A c \in Cells, v \in Nat : c # "next" /\ puts' = << Put(c, v) >> => PutsOK'
  <2> SUFFICES ASSUME NEW c \in Cells, NEW v \in Nat, c # "next", puts' = << Put(c, v) >>
               PROVE  PutsOK'
    OBVIOUS
  <2>1. puts' \in Seq([cell : Cells, val : Nat])
    BY DEF Put
  <2> QED
    BY <2>1, PutsPending DEF PutsOK, Put
<1> QED
  BY <1>1, <1>2, <1>3, <1>4, <1>5, <1>6

\* No EEPROM.put is pending after the last one, or with the power off.
LEMMA PendingNone == puts = << >> => Pending = {}
  BY DEF Pending

-----------------------------------------------------------------------------
(* Type correctness.                                                       *)

\* A new device satisfies the type invariant.
LEMMA TypeInit == Init => TypeInv
<1> SUFFICES ASSUME Init PROVE TypeInv
  OBVIOUS
<1>1. DefaultName \in FileNames
  BY DefaultNameType
<1>2. PICK n \in InitialLogs :
        /\ card = [f \in {LogFile(k) : k \in 1 .. n} |-> [size |-> FullLog, headers |-> 1]]
        /\ free = Capacity - n * FullLog
  BY DEF Init
<1>3. n \in Nat /\ n * FullLog <= Capacity /\ n * FullLog \in Nat
  BY CardAssumption, NumberAssumption, SpaceAssumption DEF FullLog
<1>4. free \in Nat
  BY <1>2, <1>3, SpaceAssumption
<1>5. \A k \in 1 .. n : LogFile(k) \in FileNames
  BY <1>1, SetNameType DEF LogFile
<1>6. card \in [DOMAIN card -> [size : Nat, headers : Nat]]
  BY <1>2, SpaceAssumption DEF FullLog
<1>7. DOMAIN card \subseteq FileNames
  BY <1>2, <1>5
<1>8. PutsOK
  BY PendingNone DEF Init, PutsOK
<1>9. ee \in [Cells -> Nat] /\ ee["next"] >= 1
  BY DEF Init, Erased, Cells
<1> QED
  BY <1>1, <1>4, <1>6, <1>7, <1>8, <1>9 DEF Init, TypeInv, CardOK, NumbersOK, Control

\* Every step keeps the type invariant.
LEMMA TypeStep == TypeInv /\ [Next]_vars => TypeInv'
<1> SUFFICES ASSUME TypeInv, [Next]_vars PROVE TypeInv'
  OBVIOUS
<1> USE NumberAssumption, SpaceAssumption DEF TypeInv
<1>names. /\ DefaultName \in FileNames
          /\ \A n \in Nat, buf \in FileNames : SetName(n, buf) \in FileNames
  BY SetNameType, DefaultNameType
<1>line. Room(1) \in {0, 1} /\ free - Room(1) \in Nat
  <2>1. Room(1) \in 0 .. 1 /\ free - Room(1) \in Nat
    BY RoomType DEF NumbersOK
  <2> QED
    BY <2>1
<1>grown. ASSUME NEW n \in Nat, Grow(n) PROVE CardOK' /\ free' \in Nat
  BY <1>grown, GrowType DEF NumbersOK
<1>card. card' = card => CardOK'
  BY DEF CardOK
<1>1. CASE EepromPut
  <2>1. PICK p \in [cell : Cells, val : Nat] :
          p \in Pending /\ ee' = [ee EXCEPT ![p.cell] = p.val]
    BY <1>1, PutTaken
  <2>2. PutsOK'
    BY <1>1, PutTaken DEF PutsOK
  <2>3. ee' \in [Cells -> Nat] /\ ee'["next"] >= 1
    BY <2>1 DEF NumbersOK, PutsOK, Cells
  <2> QED
    BY <1>1, <2>2, <2>3, <1>card DEF EepromPut, NumbersOK, ram, disk
<1>2. CASE PowerOn
  BY <1>2, <1>names, <1>card, PutsType DEF PowerOn, NumbersOK, Control, ResetNumbers, Cells, ram, disk
<1>3. CASE PowerLoss
  BY <1>3, <1>names, <1>card, PutsType DEF PowerLoss, NumbersOK, Control, disk
<1>4. CASE UserDeletesLog
  BY <1>4, <1>names, <1>card, PutsType, RemoveType DEF UserDeletesLog, NumbersOK, Control, ram
<1>5. CASE StartAtBoot
  BY <1>5, <1>names, <1>card, PutsType, CardAssumption DEF StartAtBoot, NumbersOK, Control, EnterStartLog, LogFile, disk
<1>6. CASE RestartLogging
  BY <1>6, <1>names, <1>card, PutsType DEF RestartLogging, NumbersOK, Control, EnterStartLog, LogFile, disk
<1>7. CASE SpaceEnough
  BY <1>7, <1>names, <1>card, PutsType DEF SpaceEnough, NumbersOK, Control, disk
<1>8. CASE SpaceDenied
  BY <1>8, <1>names, <1>card, PutsType DEF SpaceDenied, NumbersOK, Control, disk
<1>9. CASE DeleteOldest
  <2>1. CardOK' /\ free' \in Nat
    <3>1. Remove(delName)
      BY <1>9 DEF DeleteOldest
    <3> QED
      BY <3>1, RemoveType DEF NumbersOK
  <2> QED
    BY <1>9, <1>names, <2>1, PutsType DEF DeleteOldest, NumbersOK, Control, NextOldest, Cells
<1>10. CASE PickOverwriting
  <2>1. CardOK' /\ free' \in Nat
    <3>1. Remove(name')
      BY <1>10 DEF PickOverwriting
    <3> QED
      BY <3>1, RemoveType DEF NumbersOK
  <2> QED
    BY <1>10, <1>names, <2>1, PutsType DEF PickOverwriting, NumbersOK, Control
<1>11. CASE PickReset
  BY <1>11, <1>names, <1>card, PutsType DEF PickReset, NumbersOK, Control, ResetNumbers, FirstName, disk
<1>12. CASE PickNext
  BY <1>12, <1>names, <1>card, PutsType DEF PickNext, NumbersOK, Control, Wrapped, NextName, FirstName, disk
<1>13. CASE PickSearch
  BY <1>13, <1>names, <1>card, PutsType DEF PickSearch, NumbersOK, Control, Wrapped, NextName, FirstName, disk
<1>14. CASE SearchFound
  BY <1>14, <1>names, <1>card, PutsType DEF SearchFound, NumbersOK, Control, TryName, disk
<1>15. CASE SearchOn
  BY <1>15, <1>names, <1>card, PutsType DEF SearchOn, NumbersOK, Control, TryName, NextTry, disk
<1>16. CASE SearchOverwrite
  <2>1. CardOK' /\ free' \in Nat
    <3>1. Remove(name')
      BY <1>16 DEF SearchOverwrite
    <3> QED
      BY <3>1, RemoveType DEF NumbersOK
  <2> QED
    BY <1>16, <1>names, <2>1, PutsType DEF SearchOverwrite, NumbersOK, Control, TryName
<1>17. CASE SearchFull
  BY <1>17, <1>names, <1>card, PutsType DEF SearchFull, NumbersOK, Control, TryName, disk
<1>18. CASE OpenLog
  <2>1. CardOK'
    BY <1>18 DEF OpenLog, CardOK, NumbersOK, Exists
  <2> QED
    BY <1>18, <2>1, PutsType DEF OpenLog, NumbersOK, Control, Cells, ram
<1>19. CASE OpenFails
  BY <1>19, <1>names, <1>card, PutsType DEF OpenFails, NumbersOK, Control, Cells, ram, disk
<1>20. CASE WriteHeader
  <2>1. CardOK'
    <3>1. DOMAIN card' = DOMAIN card
      BY <1>20 DEF WriteHeader
    <3>2. \A f \in DOMAIN card : card'[f] \in [size : Nat, headers : Nat]
      BY <1>20, <1>line DEF WriteHeader, CardOK
    <3> QED
      BY <1>20, <3>1, <3>2 DEF WriteHeader, CardOK
  <2> QED
    BY <1>20, <1>line, <2>1, PutsType DEF WriteHeader, NumbersOK, Control, Cells
<1>21. CASE WriteLine
  <2>1. Grow(1) \/ Grow(2)
    BY <1>21 DEF WriteLine
  <2>2. CardOK' /\ free' \in Nat
    BY <2>1, <1>grown
  <2>3. pc' \in {"logging", "space"} /\ delName' \in {delName, LogFile(first)}
    BY <1>21 DEF WriteLine, EnterStartLog
  <2>4. LogFile(first) \in FileNames
    BY <1>names DEF LogFile, NumbersOK
  <2> QED
    BY <1>21, <2>2, <2>3, <2>4, PutsType DEF WriteLine, NumbersOK, Control
<1>23. CASE WriteBuffered
  <2>1. CardOK' /\ free' \in Nat
    BY <1>23, <1>grown DEF WriteBuffered
  <2> QED
    BY <1>23, <2>1, PutsType DEF WriteBuffered, NumbersOK, Control, ram
<1>22. CASE UNCHANGED vars
  BY <1>22, <1>card, PutsType DEF NumbersOK, vars, ram, disk
<1> QED
  BY <1>1, <1>2, <1>3, <1>4, <1>5, <1>6, <1>7, <1>8, <1>9, <1>10, <1>11, <1>12,
     <1>13, <1>14, <1>15, <1>16, <1>17, <1>18, <1>19, <1>20, <1>21, <1>22, <1>23
     DEF Next, Step, InStartLog

\* The variables keep their types: no number, no free space and no stored
\* upload limit ever goes below zero, whatever is interrupted where.
THEOREM TypeCorrect == Spec => []TypeOK
<1>1. Spec => []TypeInv
  BY TypeInit, TypeStep, PTL DEF Spec
<1>2. TypeInv => TypeOK
  BY DEF TypeInv, TypeOK, PutsOK, CardOK, NumbersOK
<1> QED
  BY <1>1, <1>2, PTL
-----------------------------------------------------------------------------
(* Removals.  The overwriting shortcut does not look at the configuration:  *)
(* it is safe because overwriting_old_files is only set under it, and the   *)
(* configuration does not change before the next power-on clears the flag.  *)

ConsentInv == overwriting => overwrite /\ pc \notin {"off", "idle"}

\* A new device is not overwriting.
LEMMA ConsentInit == Init => ConsentInv
  BY DEF Init, ConsentInv

\* Every step keeps overwriting within the consent.
LEMMA ConsentStep == TypeInv /\ ConsentInv /\ [Next]_vars => ConsentInv'
<1> SUFFICES ASSUME TypeInv, ConsentInv, [Next]_vars PROVE ConsentInv'
  OBVIOUS
<1>1. CASE EepromPut
  BY <1>1 DEF ConsentInv, EepromPut, ram
<1>2. CASE PowerOn
  BY <1>2 DEF ConsentInv, PowerOn
<1>3. CASE PowerLoss
  BY <1>3 DEF ConsentInv, PowerLoss
<1>4. CASE UserDeletesLog
  BY <1>4 DEF ConsentInv, UserDeletesLog, ram
<1>5. CASE StartAtBoot
  BY <1>5 DEF ConsentInv, StartAtBoot, EnterStartLog, TypeInv, NumbersOK
<1>6. CASE RestartLogging
  BY <1>6 DEF ConsentInv, RestartLogging, EnterStartLog
<1>7. CASE SpaceEnough
  BY <1>7 DEF ConsentInv, SpaceEnough
<1>8. CASE SpaceDenied
  BY <1>8 DEF ConsentInv, SpaceDenied
<1>9. CASE DeleteOldest
  BY <1>9 DEF ConsentInv, DeleteOldest
<1>10. CASE PickOverwriting
  BY <1>10 DEF ConsentInv, PickOverwriting
<1>11. CASE PickReset
  BY <1>11 DEF ConsentInv, PickReset
<1>12. CASE PickNext
  BY <1>12 DEF ConsentInv, PickNext
<1>13. CASE PickSearch
  BY <1>13 DEF ConsentInv, PickSearch
<1>14. CASE SearchFound
  BY <1>14 DEF ConsentInv, SearchFound
<1>15. CASE SearchOn
  BY <1>15 DEF ConsentInv, SearchOn
<1>16. CASE SearchOverwrite
  BY <1>16 DEF ConsentInv, SearchOverwrite, MayRemove
<1>17. CASE SearchFull
  BY <1>17 DEF ConsentInv, SearchFull
<1>18. CASE OpenLog
  BY <1>18 DEF ConsentInv, OpenLog, ram
<1>19. CASE OpenFails
  BY <1>19 DEF ConsentInv, OpenFails, ram
<1>20. CASE WriteHeader
  BY <1>20 DEF ConsentInv, WriteHeader
<1>21. CASE WriteLine
  BY <1>21 DEF ConsentInv, WriteLine, EnterStartLog
<1>23. CASE WriteBuffered
  BY <1>23 DEF ConsentInv, WriteBuffered, ram
<1>22. CASE UNCHANGED vars
  BY <1>22 DEF ConsentInv, vars, ram, disk
<1> QED
  BY <1>1, <1>2, <1>3, <1>4, <1>5, <1>6, <1>7, <1>8, <1>9, <1>10, <1>11, <1>12,
     <1>13, <1>14, <1>15, <1>16, <1>17, <1>18, <1>19, <1>20, <1>21, <1>22, <1>23
     DEF Next, Step, InStartLog

\* A step that removes a log has the consent.
LEMMA RemovalStep ==
  TypeInv /\ ConsentInv /\ [Next]_vars =>
    [pc # "off" /\ ~(DOMAIN card \subseteq DOMAIN card') => overwrite]_vars
<1> SUFFICES ASSUME TypeInv, ConsentInv, Next, pc # "off", ~overwrite
             PROVE  DOMAIN card \subseteq DOMAIN card'
  BY DEF ConsentInv
<1>1. CASE EepromPut
  BY <1>1 DEF ConsentInv, EepromPut, disk
<1>2. CASE PowerOn
  BY <1>2 DEF ConsentInv, PowerOn, disk
<1>3. CASE PowerLoss
  BY <1>3 DEF ConsentInv, PowerLoss, disk
<1>4. CASE UserDeletesLog
  BY <1>4 DEF ConsentInv, UserDeletesLog, disk
<1>5. CASE StartAtBoot
  BY <1>5 DEF ConsentInv, StartAtBoot, disk
<1>6. CASE RestartLogging
  BY <1>6 DEF ConsentInv, RestartLogging, disk
<1>7. CASE SpaceEnough
  BY <1>7 DEF ConsentInv, SpaceEnough, disk
<1>8. CASE SpaceDenied
  BY <1>8 DEF ConsentInv, SpaceDenied, disk
<1>9. CASE DeleteOldest
  BY <1>9 DEF ConsentInv, DeleteOldest, MayRemove
<1>10. CASE PickOverwriting
  BY <1>10 DEF ConsentInv, PickOverwriting, Shortcut
<1>11. CASE PickReset
  BY <1>11 DEF ConsentInv, PickReset, disk
<1>12. CASE PickNext
  BY <1>12 DEF ConsentInv, PickNext, disk
<1>13. CASE PickSearch
  BY <1>13 DEF ConsentInv, PickSearch, disk
<1>14. CASE SearchFound
  BY <1>14 DEF ConsentInv, SearchFound, disk
<1>15. CASE SearchOn
  BY <1>15 DEF ConsentInv, SearchOn, disk
<1>16. CASE SearchOverwrite
  BY <1>16 DEF ConsentInv, SearchOverwrite, MayRemove
<1>17. CASE SearchFull
  BY <1>17 DEF ConsentInv, SearchFull, disk
<1>18. CASE OpenLog
  BY <1>18 DEF ConsentInv, OpenLog
<1>19. CASE OpenFails
  BY <1>19 DEF ConsentInv, OpenFails, disk
<1>20. CASE WriteHeader
  BY <1>20 DEF ConsentInv, WriteHeader
<1>21. CASE WriteLine
  BY <1>21 DEF ConsentInv, WriteLine, Grow
<1>22. CASE WriteBuffered
  BY <1>22 DEF ConsentInv, WriteBuffered, Grow
<1> QED
  BY <1>1, <1>2, <1>3, <1>4, <1>5, <1>6, <1>7, <1>8, <1>9, <1>10, <1>11, <1>12,
     <1>13, <1>14, <1>15, <1>16, <1>17, <1>18, <1>19, <1>20, <1>21, <1>22
     DEF Next, Step, InStartLog

\* A log is removed only when the configuration allows overwriting.
THEOREM RemovalConsent == Spec => RemovalNeedsConsent
<1>1. TypeInv /\ ConsentInv /\ [Next]_vars => (TypeInv /\ ConsentInv)'
  BY TypeStep, ConsentStep
<1>2. Init => TypeInv /\ ConsentInv
  BY TypeInit, ConsentInit
<1> QED
  BY <1>1, <1>2, RemovalStep, PTL DEF Spec, RemovalNeedsConsent
-----------------------------------------------------------------------------
(* Persistence.  Synced(c, v): once the pending puts are done cell c holds  *)
(* v, and nothing but v is on its way to it.                                *)

Synced(c, v) ==
  /\ \A p \in Pending : p.cell = c => p.val = v
  /\ (\A p \in Pending : p.cell # c) => ee[c] = v

PersistInv ==
  /\ pc # "off" => Synced("first", first)
  /\ pc \in {"open", "header", "logging"} => Synced("next", next)
  /\ pc \in {"header", "logging"} => Synced("upMax", next - 1)

\* A new device has nothing to keep in step.
LEMMA PersistInit == Init => PersistInv
  BY DEF Init, PersistInv

\* Without a pending put, the cells themselves are in step.
LEMMA SyncedQuiet == puts = << >> => \A c, v : Synced(c, v) <=> ee[c] = v
  BY PendingNone DEF Synced

\* Every step keeps EEPROM in step with RAM.
LEMMA PersistStep == TypeInv /\ PersistInv /\ [Next]_vars => PersistInv'
<1> SUFFICES ASSUME TypeInv, PersistInv, [Next]_vars PROVE PersistInv'
  OBVIOUS
<1>quiet. puts = << >> => \A c, v : Synced(c, v) <=> ee[c] = v
  BY SyncedQuiet
<1>kept. puts' = puts /\ ee' = ee => \A c, v : Synced(c, v)' <=> Synced(c, v)
  BY PutsPending DEF Synced
<1>none. puts' = << >> => \A c, v : Synced(c, v)' <=> ee'[c] = v
  BY PutsPending DEF Synced
<1>one. \A c, v : puts' = << Put(c, v) >> /\ ee' = ee =>
          Synced(c, v)' /\ \A d, w : d # c /\ ee[d] = w => Synced(d, w)'
  BY PutsPending DEF Synced, Put
<1>both. \A n, f : puts' = StoreBoth(n, f) => Synced("next", n)' /\ Synced("first", f)'
  <2> SUFFICES ASSUME NEW n, NEW f, puts' = StoreBoth(n, f)
               PROVE  Synced("next", n)' /\ Synced("first", f)'
    OBVIOUS
  <2>1. Pending' = {Put("next", n), Put("first", f)}
    BY PutsPending
  <2> QED
    BY <2>1 DEF Synced, Put
<1>all. puts' = ResetPuts => Synced("next", 1)' /\ Synced("first", 0)' /\ Synced("upMax", 0)'
  <2> SUFFICES ASSUME puts' = ResetPuts
               PROVE  Synced("next", 1)' /\ Synced("first", 0)' /\ Synced("upMax", 0)'
    OBVIOUS
  <2>1. Pending' = {Put("next", 1), Put("first", 0), Put("upNext", 1), Put("upMax", 0)}
    BY PutsPending
  <2> QED
    BY <2>1 DEF Synced, Put
<1>1. CASE EepromPut
  <2>1. PICK p \in [cell : Cells, val : Nat] :
          /\ p \in Pending /\ ee' = [ee EXCEPT ![p.cell] = p.val]
          /\ Pending' \subseteq Pending /\ Pending \subseteq Pending' \cup {p}
    BY <1>1, PutTaken DEF TypeInv
  <2>2. ASSUME NEW c \in Cells, NEW v, Synced(c, v) PROVE Synced(c, v)'
    BY <2>1, <2>2 DEF Synced, TypeInv, NumbersOK
  <2>3. pc' = pc /\ first' = first /\ next' = next
    BY <1>1 DEF EepromPut, ram
  <2> QED
    BY <2>2, <2>3 DEF PersistInv, Cells
<1>2. CASE PowerOn
  BY <1>2, <1>none, <1>all DEF PersistInv, PowerOn, ResetNumbers, ram
<1>3. CASE PowerLoss
  BY <1>3 DEF PersistInv, PowerLoss
<1>4. CASE UserDeletesLog
  BY <1>4, <1>kept DEF PersistInv, UserDeletesLog, ram
<1>5. CASE StartAtBoot
  BY <1>5, <1>kept DEF PersistInv, StartAtBoot, EnterStartLog
<1>6. CASE RestartLogging
  BY <1>6, <1>kept DEF PersistInv, RestartLogging, EnterStartLog
<1>7. CASE SpaceEnough
  BY <1>7, <1>kept DEF PersistInv, SpaceEnough
<1>8. CASE SpaceDenied
  BY <1>8, <1>kept DEF PersistInv, SpaceDenied
<1>9. CASE DeleteOldest
  BY <1>9, <1>one DEF PersistInv, DeleteOldest
<1>10. CASE PickOverwriting
  BY <1>10, <1>both DEF PersistInv, PickOverwriting
<1>11. CASE PickReset
  BY <1>11, <1>all DEF PersistInv, PickReset, ResetNumbers
<1>12. CASE puts = << >> /\ PickNext
  BY <1>12, <1>quiet, <1>one DEF PersistInv, PickNext, StoreNext
<1>13. CASE PickSearch
  BY <1>13, <1>kept DEF PersistInv, PickSearch
<1>14. CASE puts = << >> /\ SearchFound
  BY <1>14, <1>quiet, <1>one DEF PersistInv, SearchFound, StoreNext
<1>15. CASE SearchOn
  BY <1>15, <1>kept DEF PersistInv, SearchOn
<1>16. CASE SearchOverwrite
  BY <1>16, <1>both DEF PersistInv, SearchOverwrite
<1>17. CASE SearchFull
  BY <1>17, <1>kept DEF PersistInv, SearchFull
<1>18. CASE puts = << >> /\ OpenLog
  BY <1>18, <1>quiet, <1>one DEF PersistInv, OpenLog, ram
<1>19. CASE puts = << >> /\ OpenFails
  BY <1>19, <1>quiet, <1>one DEF PersistInv, OpenFails, ram
<1>20. CASE puts = << >> /\ WriteHeader
  BY <1>20, <1>quiet, <1>kept, <1>one DEF PersistInv, WriteHeader
<1>21. CASE WriteLine
  BY <1>21, <1>kept DEF PersistInv, WriteLine, EnterStartLog
<1>23. CASE WriteBuffered
  BY <1>23, <1>kept DEF PersistInv, WriteBuffered, ram
<1>22. CASE UNCHANGED vars
  BY <1>22, <1>kept DEF PersistInv, vars, ram, disk
<1> QED
  BY <1>1, <1>2, <1>3, <1>4, <1>5, <1>6, <1>7, <1>8, <1>9, <1>10, <1>11, <1>12,
     <1>13, <1>14, <1>15, <1>16, <1>17, <1>18, <1>19, <1>20, <1>21, <1>22, <1>23
     DEF Next, Step, InStartLog

\* Whenever logging has settled, a power loss finds the numbers of RAM and
\* the upload limit in EEPROM.
THEOREM Persistence == Spec => []NumbersPersisted
<1>1. TypeInv /\ PersistInv /\ [Next]_vars => (TypeInv /\ PersistInv)'
  BY TypeStep, PersistStep
<1>2. Init => TypeInv /\ PersistInv
  BY TypeInit, PersistInit
<1>3. PersistInv => NumbersPersisted
  BY SyncedQuiet DEF PersistInv, NumbersPersisted
<1> QED
  BY <1>1, <1>2, <1>3, PTL DEF Spec
-----------------------------------------------------------------------------
(* Headers.  A file is opened when it is not on the card or is log 1.       *)

Fresh(f) == f \notin DOMAIN card \/ card[f].headers = 0 \/ f.low = 1

ReopenInv ==
  /\ OnlyLogOneReopened
  /\ pc = "open" => name \notin DOMAIN card \/ name.low = 1
  /\ pc = "header" => Fresh(name)

\* The logs of a new device have one header each.
LEMMA ReopenInit == Init => ReopenInv
  BY DEF Init, ReopenInv, OnlyLogOneReopened

\* Every step opens fresh logs only, or log 1.
LEMMA ReopenStep == TypeInv /\ ReopenInv /\ [Next]_vars => ReopenInv'
<1> SUFFICES ASSUME TypeInv, ReopenInv, [Next]_vars PROVE ReopenInv'
  OBVIOUS
<1> USE DEF TypeInv, CardOK, NumbersOK
<1>kept. card' = card => OnlyLogOneReopened'
  BY DEF OnlyLogOneReopened, ReopenInv
<1>line. Room(1) \in {0, 1}
  BY RoomType
<1>grown. ASSUME NEW n \in Nat, Grow(n)
          PROVE  OnlyLogOneReopened' /\ \A f : Fresh(f) => Fresh(f)'
  BY <1>grown, GrowType DEF OnlyLogOneReopened, ReopenInv, Fresh
<1>removed. ASSUME NEW f, Remove(f) PROVE OnlyLogOneReopened' /\ f \notin DOMAIN card'
  BY <1>removed, RemoveType DEF OnlyLogOneReopened, ReopenInv
<1>one. \A buf \in FileNames : SetName(1, buf).low = 1
  BY NumberAssumption DEF SetName, FileNames
<1>1. CASE EepromPut
  BY <1>1, <1>kept DEF ReopenInv, Fresh, EepromPut, ram, disk
<1>2. CASE PowerOn
  BY <1>2, <1>kept DEF ReopenInv, PowerOn, disk
<1>3. CASE PowerLoss
  BY <1>3, <1>kept DEF ReopenInv, PowerLoss, disk
<1>4. CASE UserDeletesLog
  BY <1>4, <1>removed DEF ReopenInv, UserDeletesLog
<1>5. CASE StartAtBoot
  BY <1>5, <1>kept DEF ReopenInv, StartAtBoot, EnterStartLog, disk
<1>6. CASE RestartLogging
  BY <1>6, <1>kept DEF ReopenInv, RestartLogging, EnterStartLog, disk
<1>7. CASE SpaceEnough
  BY <1>7, <1>kept DEF ReopenInv, SpaceEnough, disk
<1>8. CASE SpaceDenied
  BY <1>8, <1>kept DEF ReopenInv, SpaceDenied, disk
<1>9. CASE DeleteOldest
  BY <1>9, <1>removed DEF ReopenInv, DeleteOldest
<1>10. CASE PickOverwriting
  <2>1. Remove(name')
    BY <1>10 DEF PickOverwriting
  <2> QED
    BY <1>10, <2>1, <1>removed DEF PickOverwriting, ReopenInv
<1>11. CASE PickReset
  <2>1. FirstName \in FileNames
    BY SetNameType DEF FirstName
  <2> QED
    BY <1>11, <2>1, <1>one, <1>kept DEF PickReset, ReopenInv, disk
<1>12. CASE PickNext
  BY <1>12, <1>kept DEF ReopenInv, PickNext, disk, NextTaken, Exists
<1>13. CASE PickSearch
  BY <1>13, <1>kept DEF ReopenInv, PickSearch, disk
<1>14. CASE SearchFound
  BY <1>14, <1>kept DEF ReopenInv, SearchFound, disk, Exists
<1>15. CASE SearchOn
  BY <1>15, <1>kept DEF ReopenInv, SearchOn, disk
<1>16. CASE SearchOverwrite
  <2>1. Remove(name')
    BY <1>16 DEF SearchOverwrite
  <2> QED
    BY <1>16, <2>1, <1>removed DEF SearchOverwrite, ReopenInv
<1>17. CASE SearchFull
  BY <1>17, <1>kept DEF ReopenInv, SearchFull, disk
<1>18. CASE OpenLog
  <2>1. \A f \in DOMAIN card' : IF f \in DOMAIN card THEN card'[f] = card[f]
                               ELSE f = name /\ card'[f].headers = 0
    <3>1. CASE name \in DOMAIN card
      BY <1>18, <3>1 DEF OpenLog, Exists
    <3>2. CASE name \notin DOMAIN card
      <4>1. card' = [f \in DOMAIN card \cup {name} |->
                      IF f = name THEN [size |-> 0, headers |-> 0] ELSE card[f]]
        BY <1>18, <3>2 DEF OpenLog, Exists
      <4> QED
        BY <3>2, <4>1
    <3> QED
      BY <3>1, <3>2
  <2>2. name' = name /\ pc = "open" /\ pc' = "header"
    BY <1>18 DEF OpenLog, ram
  <2> QED
    BY <2>1, <2>2 DEF ReopenInv, OnlyLogOneReopened, Fresh
<1>19. CASE OpenFails
  BY <1>19, <1>kept DEF ReopenInv, OpenFails, ram, disk
<1>20. CASE WriteHeader
  <2>1. DOMAIN card' = DOMAIN card
    BY <1>20 DEF WriteHeader
  <2>2. \A f \in DOMAIN card : f # name => card'[f] = card[f]
    BY <1>20 DEF WriteHeader
  <2>3. name \in DOMAIN card => card'[name].headers = card[name].headers + Room(1)
    BY <1>20 DEF WriteHeader
  <2> QED
    BY <1>20, <1>line, <2>1, <2>2, <2>3 DEF WriteHeader, ReopenInv, OnlyLogOneReopened, Fresh
<1>21. CASE WriteLine
  <2>1. Grow(1) \/ Grow(2)
    BY <1>21 DEF WriteLine
  <2>2. OnlyLogOneReopened' /\ pc' \in {"logging", "space"}
    BY <1>21, <2>1, <1>grown DEF WriteLine, EnterStartLog
  <2> QED
    BY <2>2 DEF ReopenInv
<1>23. CASE WriteBuffered
  <2>1. OnlyLogOneReopened' /\ pc' = "logging"
    BY <1>23, <1>grown DEF WriteBuffered
  <2> QED
    BY <2>1 DEF ReopenInv
<1>22. CASE UNCHANGED vars
  BY <1>22, <1>kept DEF ReopenInv, Fresh, vars, ram, disk
<1> QED
  BY <1>1, <1>2, <1>3, <1>4, <1>5, <1>6, <1>7, <1>8, <1>9, <1>10, <1>11, <1>12,
     <1>13, <1>14, <1>15, <1>16, <1>17, <1>18, <1>19, <1>20, <1>21, <1>22, <1>23
     DEF Next, Step, InStartLog

\* No log but number 1 ever gets a second header.
THEOREM NoSecondHeader == Spec => []OnlyLogOneReopened
<1>1. TypeInv /\ ReopenInv /\ [Next]_vars => (TypeInv /\ ReopenInv)'
  BY TypeStep, ReopenStep
<1>2. Init => TypeInv /\ ReopenInv
  BY TypeInit, ReopenInit
<1>3. ReopenInv => OnlyLogOneReopened
  BY DEF ReopenInv
<1> QED
  BY <1>1, <1>2, <1>3, PTL DEF Spec
-----------------------------------------------------------------------------
(* Space.  While a log grows, what it has taken and what is left add up to  *)
(* what check_sd_free_space() found, or more.                               *)

SpaceInv ==
  /\ pc \in {"pick", "search", "open", "header"} => free >= MinFree
  /\ pc \in {"header", "logging"} => name \in DOMAIN card
  /\ pc = "logging" => free + card[name].size >= MinFree

\* A new device is writing no log.
LEMMA SpaceInit == Init => SpaceInv
  BY DEF Init, SpaceInv

\* Every step keeps room for the log in progress.
LEMMA SpaceStep == TypeInv /\ SpaceInv /\ [Next]_vars => SpaceInv'
<1> SUFFICES ASSUME TypeInv, SpaceInv, [Next]_vars PROVE SpaceInv'
  OBVIOUS
<1> USE SpaceAssumption DEF TypeInv, CardOK, NumbersOK
<1>removed. ASSUME NEW f, Remove(f) PROVE free' >= free /\ free' \in Nat
  BY <1>removed, RemoveType
<1>grown. ASSUME Grow(1), pc = "logging", SpaceInv, name' = name
          PROVE  name' \in DOMAIN card' /\ free' + card'[name'].size >= MinFree
  BY <1>grown, GrowType DEF SpaceInv
<1>1. CASE EepromPut
  BY <1>1 DEF SpaceInv, EepromPut, ram, disk
<1>2. CASE PowerOn
  BY <1>2 DEF SpaceInv, PowerOn, disk
<1>3. CASE PowerLoss
  BY <1>3 DEF SpaceInv, PowerLoss, disk
<1>4. CASE UserDeletesLog
  BY <1>4, <1>removed DEF SpaceInv, UserDeletesLog
<1>5. CASE StartAtBoot
  BY <1>5 DEF SpaceInv, StartAtBoot, EnterStartLog, disk
<1>6. CASE RestartLogging
  BY <1>6 DEF SpaceInv, RestartLogging, EnterStartLog, disk
<1>7. CASE SpaceEnough
  BY <1>7 DEF SpaceInv, SpaceEnough, disk, HasSpace
<1>8. CASE SpaceDenied
  BY <1>8 DEF SpaceInv, SpaceDenied, disk
<1>9. CASE DeleteOldest
  BY <1>9, <1>removed DEF SpaceInv, DeleteOldest
<1>10. CASE PickOverwriting
  <2>1. Remove(name')
    BY <1>10 DEF PickOverwriting
  <2> QED
    BY <1>10, <2>1, <1>removed DEF PickOverwriting, SpaceInv
<1>11. CASE PickReset
  BY <1>11 DEF SpaceInv, PickReset, disk
<1>12. CASE PickNext
  BY <1>12 DEF SpaceInv, PickNext, disk
<1>13. CASE PickSearch
  BY <1>13 DEF SpaceInv, PickSearch, disk
<1>14. CASE SearchFound
  BY <1>14 DEF SpaceInv, SearchFound, disk
<1>15. CASE SearchOn
  BY <1>15 DEF SpaceInv, SearchOn, disk
<1>16. CASE SearchOverwrite
  <2>1. Remove(name')
    BY <1>16 DEF SearchOverwrite
  <2> QED
    BY <1>16, <2>1, <1>removed DEF SearchOverwrite, SpaceInv
<1>17. CASE SearchFull
  BY <1>17 DEF SpaceInv, SearchFull, disk
<1>18. CASE OpenLog
  BY <1>18 DEF SpaceInv, OpenLog, ram, Exists
<1>19. CASE OpenFails
  BY <1>19 DEF SpaceInv, OpenFails, ram, disk
<1>20. CASE WriteHeader
  <2>1. Room(1) \in Nat /\ name \in DOMAIN card /\ free >= MinFree /\ card[name].size \in Nat
    BY <1>20, RoomType DEF WriteHeader, SpaceInv
  <2>2. DOMAIN card' = DOMAIN card /\ card'[name].size = card[name].size + Room(1)
    BY <1>20, <2>1 DEF WriteHeader
  <2>3. pc' = "logging" /\ name' = name /\ free' = free - Room(1)
    BY <1>20, <2>1 DEF WriteHeader
  <2> QED
    BY <2>1, <2>2, <2>3 DEF SpaceInv
<1>21. CASE WriteLine
  <2>1. CASE TooLarge
    BY <1>21, <2>1 DEF WriteLine, EnterStartLog, SpaceInv
  <2>2. CASE ~TooLarge
    <3>1. Grow(1) /\ pc = "logging" /\ pc' = pc /\ name' = name
      BY <1>21, <2>2 DEF WriteLine
    <3> QED
      BY <3>1, <1>grown DEF SpaceInv
  <2> QED
    BY <2>1, <2>2
<1>23. CASE WriteBuffered
  <2>1. Grow(1) /\ pc = "logging" /\ pc' = pc /\ name' = name
    BY <1>23 DEF WriteBuffered, ram
  <2> QED
    BY <2>1, <1>grown DEF SpaceInv
<1>22. CASE UNCHANGED vars
  BY <1>22 DEF SpaceInv, vars, ram, disk
<1> QED
  BY <1>1, <1>2, <1>3, <1>4, <1>5, <1>6, <1>7, <1>8, <1>9, <1>10, <1>11, <1>12,
     <1>13, <1>14, <1>15, <1>16, <1>17, <1>18, <1>19, <1>20, <1>21, <1>22, <1>23
     DEF Next, Step, InStartLog

\* When the minimum free space is larger than a full log with its end-of-file
\* line, there is room for the line that ends a log and for that line, for as
\* long as the log is not larger than max_log_size.
THEOREM RoomWhileLogging ==
  ASSUME MinFree > MaxSize + 1
  PROVE  Spec => []RoomForLog
<1>1. TypeInv /\ SpaceInv /\ [Next]_vars => (TypeInv /\ SpaceInv)'
  BY TypeStep, SpaceStep
<1>2. Init => TypeInv /\ SpaceInv
  BY TypeInit, SpaceInit
<1>3. TypeInv /\ SpaceInv => RoomForLog
  <2> SUFFICES ASSUME TypeInv, SpaceInv, pc = "logging", SizeOf(name) <= MaxSize
               PROVE  free >= 2
    BY DEF RoomForLog
  <2>1. card[name].size \in Nat /\ free \in Nat /\ SizeOf(name) = card[name].size
    BY DEF SpaceInv, TypeInv, CardOK, NumbersOK, SizeOf, Exists
  <2> QED
    BY <2>1, SpaceAssumption DEF SpaceInv
<1> QED
  BY <1>1, <1>2, <1>3, PTL DEF Spec
-----------------------------------------------------------------------------
(* The oldest log.  Without overwriting its number is 0 or 1 for ever.  The *)
(* name buffer is what makes this less than obvious: after a four-digit     *)
(* name the first log is looked for under another name than CAN_001.        *)

IsLog(f) == f \in FileNames /\ f # DefaultName

OldestInv ==
  /\ ~overwriting /\ ~overwrite
  /\ first \in {0, 1} /\ ee["first"] \in {0, 1, Erased}
  /\ \A p \in Pending : p.cell = "first" => p.val \in {0, 1}
  /\ \A f \in DOMAIN card : IsLog(f)
  /\ name.lead # 0 => pc # "off" /\ Exists(LogFile(1))
  /\ pc \in {"off", "idle"} => name = DefaultName
  /\ pc = "search" => Exists(LogFile(1)) /\ toTry >= 1
  /\ pc = "open" => IsLog(name) /\ (Exists(LogFile(1)) \/ name = LogFile(1))
  /\ pc \in {"header", "logging"} => Exists(LogFile(1))
  /\ pc = "logging" => first = 1

\* Numbers from 1 on have names of their own, never the default name.
LEMMA NumberedName ==
  ASSUME NEW n \in Nat, n >= 1, NEW buf \in FileNames
  PROVE  /\ IsLog(SetName(n, buf))
         /\ n < NameBase => SetName(n, buf) = [lead |-> buf.lead, low |-> n]
<1>1. SetName(n, buf) \in FileNames
  BY SetNameType
<1>2. CASE n < NameBase
  <2>1. SetName(n, buf) = [buf EXCEPT !.low = n]
    BY <1>2, NumberAssumption DEF SetName
  <2>2. buf = [lead |-> buf.lead, low |-> buf.low]
    BY DEF FileNames
  <2>3. SetName(n, buf) = [lead |-> buf.lead, low |-> n]
    BY <2>1, <2>2
  <2> QED
    BY <1>1, <2>3 DEF IsLog, DefaultName
<1>3. CASE n >= NameBase
  <2>1. SetName(n, buf).lead = n \div NameBase
    BY <1>3 DEF SetName
  <2>2. n \div NameBase >= 1
    BY <1>3, NumberAssumption
  <2> QED
    BY <1>1, <1>3, <2>1, <2>2, NumberAssumption DEF IsLog, DefaultName
<1> QED
  BY <1>2, <1>3, NumberAssumption

\* A new device has only logs with numbers of three digits.
LEMMA OldestInit == Init => OldestInv
<1> SUFFICES ASSUME Init PROVE OldestInv
  OBVIOUS
<1>1. DefaultName \in FileNames
  BY DefaultNameType
<1>2. PICK n \in InitialLogs : DOMAIN card = {LogFile(k) : k \in 1 .. n}
  BY DEF Init
<1>3. n \in Nat
  BY CardAssumption, NumberAssumption
<1>4. \A k \in 1 .. n : IsLog(LogFile(k))
  BY <1>1, <1>3, NumberedName DEF LogFile
<1>5. \A f \in DOMAIN card : IsLog(f)
  BY <1>2, <1>4
<1>6. Pending = {}
  BY PendingNone DEF Init
<1> QED
  BY <1>5, <1>6 DEF Init, OldestInv, DefaultName, Cells

\* Every step keeps the first log on the card while it is in use.
LEMMA OldestStep ==
  Configs = {FALSE} /\ MaxLog < Erased /\ TypeInv /\ OldestInv /\ [Next]_vars => OldestInv'
<1> SUFFICES ASSUME Configs = {FALSE}, MaxLog < Erased, TypeInv, OldestInv, [Next]_vars
             PROVE  OldestInv'
  OBVIOUS
<1> USE DEF TypeInv, NumbersOK
<1>kept. /\ puts' = puts => Pending' = Pending
         /\ puts' = << >> => Pending' = {}
  BY PutsPending
<1>one. \A c, v : puts' = << Put(c, v) >> => \A p \in Pending' : p.cell = c /\ p.val = v
  BY PutsPending DEF Put
<1>all. puts' = ResetPuts => \A p \in Pending' : p.cell = "first" => p.val = 0
  <2> SUFFICES ASSUME puts' = ResetPuts
               PROVE  \A p \in Pending' : p.cell = "first" => p.val = 0
    OBVIOUS
  <2>1. Pending' = {Put("next", 1), Put("first", 0), Put("upNext", 1), Put("upMax", 0)}
    BY PutsPending
  <2> QED
    BY <2>1 DEF Put
<1>log1. LogFile(1) = [lead |-> 0, low |-> 1]
  BY NumberedName, NumberAssumption, DefaultNameType DEF LogFile, DefaultName
<1>first. FirstName \in FileNames /\ FirstName = [lead |-> name.lead, low |-> first]
  <2>1. name = [lead |-> name.lead, low |-> name.low]
    BY DEF FileNames
  <2>2. first < NameBase
    BY NumberAssumption DEF OldestInv
  <2>3. FirstName = [name EXCEPT !.low = first]
    BY <2>2, NumberAssumption DEF FirstName, SetName
  <2>4. FirstName = [lead |-> name.lead, low |-> first]
    BY <2>1, <2>3
  <2> QED
    BY <2>4, SetNameType DEF FirstName
<1>found. FirstOnCard => Exists(LogFile(1))
  <2> SUFFICES ASSUME FirstOnCard, name.lead = 0 PROVE Exists(LogFile(1))
    BY DEF OldestInv
  <2>1. FirstName # DefaultName /\ FirstName \in DOMAIN card
    BY DEF FirstOnCard, Exists, OldestInv, IsLog
  <2> QED
    BY <2>1, <1>first, <1>log1 DEF OldestInv, DefaultName, Exists
<1>names. \A n \in Nat, buf \in FileNames : n >= 1 => IsLog(SetName(n, buf))
  BY NumberedName
<1>1. CASE EepromPut
  <2>1. PICK p \in [cell : Cells, val : Nat] :
          p \in Pending /\ ee' = [ee EXCEPT ![p.cell] = p.val] /\ Pending' \subseteq Pending
    BY <1>1, PutTaken
  <2>2. ee'["first"] \in {0, 1, Erased}
    BY <2>1 DEF OldestInv, Cells
  <2> QED
    BY <1>1, <2>1, <2>2 DEF EepromPut, OldestInv, Exists, ram, disk
<1>2. CASE PowerOn
  BY <1>2, <1>kept, <1>all DEF OldestInv, PowerOn, ResetNumbers, Erased, Exists, DefaultName, disk
<1>3. CASE PowerLoss
  BY <1>3, <1>kept DEF OldestInv, PowerLoss, DefaultName, disk
<1>4. CASE UserDeletesLog
  BY <1>4, <1>kept DEF OldestInv, UserDeletesLog, ram, Remove, DefaultName, Exists
<1>5. CASE StartAtBoot
  BY <1>5, <1>kept DEF OldestInv, StartAtBoot, EnterStartLog, Exists, disk
<1>6. CASE RestartLogging
  BY <1>6, <1>kept DEF OldestInv, RestartLogging, EnterStartLog, Exists, disk
<1>7. CASE SpaceEnough
  BY <1>7, <1>kept DEF OldestInv, SpaceEnough, Exists, disk
<1>8. CASE SpaceDenied
  BY <1>8, <1>kept DEF OldestInv, SpaceDenied, Exists, disk
<1>9. CASE DeleteOldest
  BY <1>9 DEF OldestInv, DeleteOldest, MayRemove
<1>10. CASE PickOverwriting
  BY <1>10 DEF OldestInv, PickOverwriting, Shortcut
<1>11. CASE PickReset
  <2>1. name' = [lead |-> name.lead, low |-> 1] /\ IsLog(name')
    BY <1>11, <1>first, NumberedName, NumberAssumption DEF PickReset
  <2>2. name.lead = 0 => name' = LogFile(1)
    BY <2>1, <1>log1
  <2>3. first' = 0 /\ \A p \in Pending' : p.cell = "first" => p.val = 0
    BY <1>11, <1>all DEF PickReset, ResetNumbers
  <2> QED
    BY <1>11, <2>1, <2>2, <2>3 DEF PickReset, OldestInv, Exists, disk
<1>12. CASE PickNext
  <2>1. Wrapped \in Nat /\ Wrapped >= 1
    BY <1>12 DEF PickNext, Wrapped
  <2>2. IsLog(NextName)
    BY <2>1, <1>first, <1>names DEF NextName
  <2> QED
    BY <1>12, <1>found, <2>2, <1>one DEF PickNext, OldestInv, StoreNext, Exists, disk
<1>13. CASE PickSearch
  <2>1. Wrapped \in Nat /\ Wrapped >= 1
    BY <1>13 DEF PickSearch, Wrapped
  <2>2. IsLog(NextName)
    BY <2>1, <1>first, <1>names DEF NextName
  <2> QED
    BY <1>13, <1>found, <2>1, <2>2, <1>kept DEF PickSearch, OldestInv, StoreNext, Exists, disk
<1>14. CASE SearchFound
  <2>1. IsLog(TryName)
    BY <1>14, <1>names DEF SearchFound, OldestInv, TryName
  <2> QED
    BY <1>14, <2>1, <1>one DEF SearchFound, OldestInv, StoreNext, Exists, disk
<1>15. CASE SearchOn
  BY <1>15, <1>kept DEF OldestInv, SearchOn, NextTry, Exists, disk
<1>16. CASE SearchOverwrite
  BY <1>16 DEF OldestInv, SearchOverwrite, MayRemove
<1>17. CASE SearchFull
  BY <1>17, <1>kept DEF OldestInv, SearchFull, Exists, disk
<1>18. CASE OpenLog
  <2>1. DOMAIN card' = DOMAIN card \cup {name}
    BY <1>18 DEF OpenLog, Exists
  <2> QED
    BY <1>18, <2>1, <1>one DEF OpenLog, OldestInv, Exists, ram
<1>19. CASE OpenFails
  BY <1>19, <1>one DEF OldestInv, OpenFails, Exists, disk, ram
<1>20. CASE WriteHeader
  <2>1. DOMAIN card' = DOMAIN card
    BY <1>20 DEF WriteHeader
  <2> QED
    BY <1>20, <2>1, <1>one, <1>kept DEF WriteHeader, OldestInv, Exists
<1>21. CASE WriteLine
  <2>1. DOMAIN card' = DOMAIN card
    BY <1>21 DEF WriteLine, Grow
  <2> QED
    BY <1>21, <2>1, <1>kept DEF WriteLine, EnterStartLog, OldestInv, Exists
<1>23. CASE WriteBuffered
  <2>1. DOMAIN card' = DOMAIN card
    BY <1>23 DEF WriteBuffered, Grow
  <2> QED
    BY <1>23, <2>1, <1>kept DEF WriteBuffered, ram, OldestInv, Exists
<1>22. CASE UNCHANGED vars
  BY <1>22, <1>kept DEF OldestInv, Exists, vars, ram, disk
<1> QED
  BY <1>1, <1>2, <1>3, <1>4, <1>5, <1>6, <1>7, <1>8, <1>9, <1>10, <1>11, <1>12,
     <1>13, <1>14, <1>15, <1>16, <1>17, <1>18, <1>19, <1>20, <1>21, <1>22, <1>23
     DEF Next, Step, InStartLog

\* Without overwriting, and with a last log number that an erased cell
\* exceeds, the first log is on the card whenever lines are logged: start_log()
\* after a power cycle does not take the card for a cleared one by itself.
THEOREM OldestLogStays ==
  ASSUME Configs = {FALSE}, MaxLog < Erased
  PROVE  Spec => []OldestLogOnCard
<1>1. TypeInv /\ OldestInv /\ [Next]_vars => (TypeInv /\ OldestInv)'
  BY TypeStep, OldestStep
<1>2. Init => TypeInv /\ OldestInv
  BY TypeInit, OldestInit
<1>3. OldestInv => OldestLogOnCard
  BY DEF OldestInv, OldestLogOnCard
<1> QED
  BY <1>1, <1>2, <1>3, PTL DEF Spec
=============================================================================
