--------------------------- MODULE KnxStoreProofs ---------------------------
(***************************************************************************)
(* Proofs about KnxStore, for any addresses and identities and any number  *)
(* of events: a start comes up with what it owes, a master reset leaves    *)
(* the flash empty, no device goes on with another one's tables.           *)
(***************************************************************************)
EXTENDS KnxStore, TLAPS

Act == Ets \/ User \/ Crash \/ Saving \/ MainStep \/ WebStep

(* An erased identity and an erased address go together.                    *)
PairedIn(i) == i.identity = Blank <=> i.address = Blank
Paired == PairedIn(buffer) /\ PairedIn(image)

(* What is being written is empty or complete.                              *)
Filled ==
    main \in Writing \/ web \in Writing =>
        buffer = Empty \/ (buffer.identity # Blank /\ buffer.table # Blank)

Typed == ImagesOK /\ ValuesOK /\ StepsOK /\ FlagsOK /\ Paired /\ Filled

(* Types.                                                                   *)
LEMMA StepsStay == StepsOK /\ Act => StepsOK'
<1> SUFFICES ASSUME StepsOK, Act PROVE StepsOK'
  OBVIOUS
<1> USE DEF StepsOK, Writing, stack, flash, names, watch, flags, tasks, history
<1>1. CASE Download
  BY <1>1 DEF Download
<1>2. CASE RestartByEts
  BY <1>2 DEF RestartByEts, Fill, Image
<1>3. CASE ToggleProgMode
  BY <1>3 DEF ToggleProgMode
<1>4. CASE ResetConfiguration
  BY <1>4 DEF ResetConfiguration, Fill
<1>5. CASE FactoryReset
  BY <1>5 DEF FactoryReset, Begin
<1>6. CASE Crash
  BY <1>6 DEF Crash, Begin
<1>7. CASE Notice
  BY <1>7 DEF Notice
<1>8. CASE Settle
  BY <1>8 DEF Settle
<1>9. CASE Persist
  BY <1>9 DEF Persist, Fill, Image
<1>10. CASE Written
  BY <1>10 DEF Written
<1>11. CASE HangUp
  BY <1>11 DEF HangUp
<1>12. CASE Reboot
  BY <1>12 DEF Reboot, Begin
<1>13. CASE ScheduleReboot
  BY <1>13 DEF ScheduleReboot
<1>14. CASE PreserveAddress
  BY <1>14 DEF PreserveAddress
<1>15. CASE \E a \in Addresses : WriteAddress(a)
  BY <1>15 DEF WriteAddress
<1>16. CASE \E k \in BOOLEAN : MasterReset(k)
  BY <1>16 DEF MasterReset, Fill, Image
<1>17. CASE \E i \in Identities : StoreIdentity(i)
  BY <1>17 DEF StoreIdentity
<1>18. CASE \E t \in {"main", "web"} : Erase(t)
  BY <1>18 DEF Erase, Step, BufferAtCommit
<1>19. CASE \E t \in {"main", "web"} : WriteHeader(t)
  BY <1>19 DEF WriteHeader, Step
<1>20. CASE \E t \in {"main", "web"} : WriteMeta(t)
  BY <1>20 DEF WriteMeta, Step, Over
<1>21. CASE \E t \in {"main", "web"} : WriteBody(t)
  BY <1>21 DEF WriteBody, Step, Over
<1>22. CASE \E t \in {"main", "web"} : FlashFails(t)
  BY <1>22 DEF FlashFails, Step
<1>23. QED
  BY <1>1, <1>2, <1>3, <1>4, <1>5, <1>6, <1>7, <1>8, <1>9, <1>10, <1>11,
     <1>12, <1>13, <1>14, <1>15, <1>16, <1>17, <1>18, <1>19, <1>20, <1>21,
     <1>22
  DEF Act, Ets, User, Saving, MainStep, WebStep, Commit

(* What is put together of values is a value.                               *)
LEMMA OverTyped ==
    ASSUME NEW S, Rubbish \in S, NEW old \in S, NEW new \in S
    PROVE  Over(old, new) \in S
BY DEF Over

LEMMA ImageTyped == ValuesOK => Image \in Images
<1> SUFFICES ASSUME ValuesOK PROVE Image \in Images
  OBVIOUS
<1>1. identity \in Identities \cup {Blank, Rubbish}
  BY DEF ValuesOK
<1>2. address \in Addresses \cup {Default, Blank, Rubbish}
  BY DEF ValuesOK
<1>3. table \in Identities \cup {None, Loading, Blank, Rubbish}
  BY DEF ValuesOK
<1>4. QED
  BY <1>1, <1>2, <1>3 DEF Image, Images

OwedValues ==
    [address : Addresses \cup {Default, Rubbish, Unknown},
     table : Identities \cup {None, Loading, Rubbish, Unknown}]

LEMMA OwedTyped ==
    ValuesOK => OwedUntilWritten \in OwedValues
<1> SUFFICES ASSUME ValuesOK PROVE OwedUntilWritten \in OwedValues
  OBVIOUS
<1>1. owed.address \in Addresses \cup {Default, Rubbish, Unknown}
  BY DEF ValuesOK
<1>2. QED
  BY <1>1 DEF OwedUntilWritten, OwedValues

(* Flags, each of which is set, cleared or left.                             *)
LEMMA FlagsStay == FlagsOK /\ Act => FlagsOK'
<1> SUFFICES ASSUME FlagsOK, Act PROVE FlagsOK'
  OBVIOUS
<1> USE DEF FlagsOK, stack, flash, names, watch, flags, tasks, history
<1>1. CASE Download
  BY <1>1 DEF Download
<1>2. CASE RestartByEts
  BY <1>2 DEF RestartByEts, Fill, Image
<1>3. CASE ToggleProgMode
  BY <1>3 DEF ToggleProgMode
<1>4. CASE ResetConfiguration
  BY <1>4 DEF ResetConfiguration, Fill
<1>5. CASE FactoryReset
  BY <1>5 DEF FactoryReset, Begin
<1>6. CASE Crash
  BY <1>6 DEF Crash, Begin
<1>7. CASE Notice
  BY <1>7 DEF Notice
<1>8. CASE Settle
  BY <1>8 DEF Settle
<1>9. CASE Persist
  BY <1>9 DEF Persist, Fill, Image
<1>10. CASE Written
  BY <1>10 DEF Written
<1>11. CASE HangUp
  BY <1>11 DEF HangUp
<1>12. CASE Reboot
  BY <1>12 DEF Reboot, Begin
<1>13. CASE ScheduleReboot
  BY <1>13 DEF ScheduleReboot
<1>14. CASE PreserveAddress
  BY <1>14 DEF PreserveAddress
<1>15. CASE \E a \in Addresses : WriteAddress(a)
  BY <1>15 DEF WriteAddress
<1>16. CASE \E k \in BOOLEAN : MasterReset(k)
  BY <1>16 DEF MasterReset, Fill, Image
<1>17. CASE \E i \in Identities : StoreIdentity(i)
  BY <1>17 DEF StoreIdentity
<1>18. CASE \E t \in {"main", "web"} : Erase(t)
  BY <1>18 DEF Erase, Step, BufferAtCommit
<1>19. CASE \E t \in {"main", "web"} : WriteHeader(t)
  BY <1>19 DEF WriteHeader, Step
<1>20. CASE \E t \in {"main", "web"} : WriteMeta(t)
  BY <1>20 DEF WriteMeta, Step, Over
<1>21. CASE \E t \in {"main", "web"} : WriteBody(t)
  BY <1>21 DEF WriteBody, Step, Over
<1>22. CASE \E t \in {"main", "web"} : FlashFails(t)
  BY <1>22 DEF FlashFails, Step
<1>23. QED
  BY <1>1, <1>2, <1>3, <1>4, <1>5, <1>6, <1>7, <1>8, <1>9, <1>10, <1>11,
     <1>12, <1>13, <1>14, <1>15, <1>16, <1>17, <1>18, <1>19, <1>20, <1>21,
     <1>22
  DEF Act, Ets, User, Saving, MainStep, WebStep, Commit

LEMMA EmptyTyped == Empty \in Images
BY DEF Empty, Images

LEMMA OverBlank ==
    ASSUME NEW old, NEW new
    PROVE  Over(old, new) = Blank <=> old = Blank /\ new = Blank
BY DEF Over, Blank, Rubbish

LEMMA ImageFull ==
    ValuesOK => Image.identity # Blank /\ Image.address # Blank /\ Image.table # Blank
<1> SUFFICES ASSUME ValuesOK
             PROVE  Image.identity # Blank /\ Image.address # Blank /\ Image.table # Blank
  OBVIOUS
<1>1. identity # Blank
  BY IdentityAssumption DEF ValuesOK
<1>2. address # Blank
  BY AddressAssumption DEF ValuesOK, Blank, Rubbish
<1>3. table # Blank
  BY IdentityAssumption DEF ValuesOK, Blank, Rubbish, None, Loading
<1>4. QED
  BY <1>1, <1>2, <1>3 DEF Image

(* The image is written and erased in pairs.                                *)
LEMMA PairedStays == ImagesOK /\ Paired /\ ValuesOK /\ Act => Paired'
<1> SUFFICES ASSUME ImagesOK, Paired, ValuesOK, Act PROVE Paired'
  OBVIOUS
<1> USE DEF Paired, PairedIn, Empty, stack, flash, names, watch, flags, tasks,
      history
<1>1. CASE Download
  BY <1>1 DEF Download
<1>2. CASE RestartByEts
  BY <1>2, ImageFull DEF RestartByEts, Fill
<1>3. CASE ToggleProgMode
  BY <1>3 DEF ToggleProgMode
<1>4. CASE ResetConfiguration
  BY <1>4 DEF ResetConfiguration, Fill
<1>5. CASE FactoryReset
  BY <1>5 DEF FactoryReset, Begin
<1>6. CASE Crash
  BY <1>6 DEF Crash, Begin
<1>7. CASE Notice
  BY <1>7 DEF Notice
<1>8. CASE Settle
  BY <1>8 DEF Settle
<1>9. CASE Persist
  BY <1>9, ImageFull DEF Persist, Fill
<1>10. CASE Written
  BY <1>10 DEF Written
<1>11. CASE HangUp
  BY <1>11 DEF HangUp
<1>12. CASE Reboot
  BY <1>12 DEF Reboot, Begin
<1>13. CASE ScheduleReboot
  BY <1>13 DEF ScheduleReboot
<1>14. CASE PreserveAddress
  BY <1>14 DEF PreserveAddress
<1>15. CASE \E a \in Addresses : WriteAddress(a)
  BY <1>15 DEF WriteAddress
<1>16. CASE \E k \in BOOLEAN : MasterReset(k)
  BY <1>16, ImageFull DEF MasterReset, Fill
<1>17. CASE \E i \in Identities : StoreIdentity(i)
  BY <1>17 DEF StoreIdentity
<1>18. CASE \E t \in {"main", "web"} : Erase(t)
  BY <1>18 DEF Erase, Step, BufferAtCommit
<1>19. CASE \E t \in {"main", "web"} : WriteHeader(t)
  BY <1>19 DEF WriteHeader, Step
<1>20. CASE \E t \in {"main", "web"} : WriteMeta(t)
  <2>1. PICK t \in {"main", "web"} : WriteMeta(t)
    BY <1>20
  <2>2. image' = [image EXCEPT !.identity = Over(image.identity, buffer.identity),
                               !.address = Over(image.address, buffer.address)]
    BY <2>1 DEF WriteMeta
  <2>3. /\ image'.identity = Over(image.identity, buffer.identity)
        /\ image'.address = Over(image.address, buffer.address)
    BY <2>2 DEF ImagesOK, Images
  <2>4. QED
    BY <2>1, <2>3, OverBlank DEF WriteMeta
<1>21. CASE \E t \in {"main", "web"} : WriteBody(t)
  BY <1>21 DEF WriteBody, Step, Over
<1>22. CASE \E t \in {"main", "web"} : FlashFails(t)
  BY <1>22 DEF FlashFails, Step
<1>23. QED
  BY <1>1, <1>2, <1>3, <1>4, <1>5, <1>6, <1>7, <1>8, <1>9, <1>10, <1>11,
     <1>12, <1>13, <1>14, <1>15, <1>16, <1>17, <1>18, <1>19, <1>20, <1>21,
     <1>22
  DEF Act, Ets, User, Saving, MainStep, WebStep, Commit

(* An image is filled from the stack or emptied before it is written.       *)
LEMMA FilledStays == Filled /\ ValuesOK /\ Act => Filled'
<1> SUFFICES ASSUME Filled, ValuesOK, Act PROVE Filled'
  OBVIOUS
<1> USE DEF Filled, Writing, stack, flash, names, watch, flags, tasks, history
<1>1. CASE Download
  BY <1>1 DEF Download
<1>2. CASE RestartByEts
  BY <1>2, ImageFull DEF RestartByEts, Fill
<1>3. CASE ToggleProgMode
  BY <1>3 DEF ToggleProgMode
<1>4. CASE ResetConfiguration
  BY <1>4 DEF ResetConfiguration, Fill
<1>5. CASE FactoryReset
  BY <1>5 DEF FactoryReset, Begin
<1>6. CASE Crash
  BY <1>6 DEF Crash, Begin
<1>7. CASE Notice
  BY <1>7 DEF Notice
<1>8. CASE Settle
  BY <1>8 DEF Settle
<1>9. CASE Persist
  BY <1>9, ImageFull DEF Persist, Fill
<1>10. CASE Written
  BY <1>10 DEF Written
<1>11. CASE HangUp
  BY <1>11 DEF HangUp
<1>12. CASE Reboot
  BY <1>12 DEF Reboot, Begin
<1>13. CASE ScheduleReboot
  BY <1>13 DEF ScheduleReboot
<1>14. CASE PreserveAddress
  BY <1>14 DEF PreserveAddress
<1>15. CASE \E a \in Addresses : WriteAddress(a)
  BY <1>15 DEF WriteAddress
<1>16. CASE \E k \in BOOLEAN : MasterReset(k)
  BY <1>16, ImageFull DEF MasterReset, Fill
<1>17. CASE \E i \in Identities : StoreIdentity(i)
  BY <1>17 DEF StoreIdentity
<1>18. CASE \E t \in {"main", "web"} : Erase(t)
  BY <1>18 DEF Erase, Step, BufferAtCommit
<1>19. CASE \E t \in {"main", "web"} : WriteHeader(t)
  BY <1>19 DEF WriteHeader, Step
<1>20. CASE \E t \in {"main", "web"} : WriteMeta(t)
  BY <1>20 DEF WriteMeta, Step, Over
<1>21. CASE \E t \in {"main", "web"} : WriteBody(t)
  BY <1>21 DEF WriteBody, Step, Over
<1>22. CASE \E t \in {"main", "web"} : FlashFails(t)
  BY <1>22 DEF FlashFails, Step
<1>23. QED
  BY <1>1, <1>2, <1>3, <1>4, <1>5, <1>6, <1>7, <1>8, <1>9, <1>10, <1>11,
     <1>12, <1>13, <1>14, <1>15, <1>16, <1>17, <1>18, <1>19, <1>20, <1>21,
     <1>22
  DEF Act, Ets, User, Saving, MainStep, WebStep, Commit

(* The two copies of the image are images.                                  *)
LEMMA ImagesStay == ImagesOK /\ ValuesOK /\ Act => ImagesOK'
<1> SUFFICES ASSUME ImagesOK, ValuesOK, Act PROVE ImagesOK'
  OBVIOUS
<1> USE AddressAssumption, IdentityAssumption, EmptyTyped
  DEF ImagesOK, stack, flash, names, watch, flags, tasks, history
<1>1. CASE Download
  BY <1>1 DEF Download
<1>2. CASE RestartByEts
  BY <1>2, ImageTyped DEF RestartByEts, Fill
<1>3. CASE ToggleProgMode
  BY <1>3 DEF ToggleProgMode
<1>4. CASE ResetConfiguration
  BY <1>4 DEF ResetConfiguration, Fill
<1>5. CASE FactoryReset
  BY <1>5 DEF FactoryReset, Begin
<1>6. CASE Crash
  BY <1>6 DEF Crash, Begin
<1>7. CASE Notice
  BY <1>7 DEF Notice
<1>8. CASE Settle
  BY <1>8 DEF Settle
<1>9. CASE Persist
  BY <1>9, ImageTyped DEF Persist, Fill
<1>10. CASE Written
  BY <1>10 DEF Written
<1>11. CASE HangUp
  BY <1>11 DEF HangUp
<1>12. CASE Reboot
  BY <1>12 DEF Reboot, Begin
<1>13. CASE ScheduleReboot
  BY <1>13 DEF ScheduleReboot
<1>14. CASE PreserveAddress
  BY <1>14 DEF PreserveAddress
<1>15. CASE \E a \in Addresses : WriteAddress(a)
  BY <1>15 DEF WriteAddress
<1>16. CASE \E k \in BOOLEAN : MasterReset(k)
  BY <1>16, ImageTyped DEF MasterReset, Fill
<1>17. CASE \E i \in Identities : StoreIdentity(i)
  BY <1>17 DEF StoreIdentity
<1>18. CASE \E t \in {"main", "web"} : Erase(t)
  BY <1>18 DEF Erase, Step, BufferAtCommit
<1>19. CASE \E t \in {"main", "web"} : WriteHeader(t)
  BY <1>19 DEF WriteHeader, Step
<1>20. CASE \E t \in {"main", "web"} : WriteMeta(t)
  <2>1. PICK t \in {"main", "web"} : WriteMeta(t)
    BY <1>20
  <2>2. buffer' = buffer
    BY <2>1 DEF WriteMeta
  <2>3. Over(image.identity, buffer.identity) \in Identities \cup {Blank, Rubbish}
    BY OverTyped DEF Images
  <2>4. Over(image.address, buffer.address) \in Addresses \cup {Default, Blank, Rubbish}
    BY OverTyped DEF Images
  <2>5. image' \in Images
    BY <2>1, <2>3, <2>4 DEF WriteMeta, Images
  <2>6. QED
    BY <2>2, <2>5
<1>21. CASE \E t \in {"main", "web"} : WriteBody(t)
  <2>1. PICK t \in {"main", "web"} : WriteBody(t)
    BY <1>21
  <2>2. buffer' = buffer
    BY <2>1 DEF WriteBody
  <2>3. Over(image.table, buffer.table) \in Identities \cup {None, Loading, Blank, Rubbish}
    BY OverTyped DEF Images
  <2>4. image' \in Images
    BY <2>1, <2>3 DEF WriteBody, Images
  <2>5. QED
    BY <2>2, <2>4
<1>22. CASE \E t \in {"main", "web"} : FlashFails(t)
  BY <1>22 DEF FlashFails, Step
<1>23. QED
  BY <1>1, <1>2, <1>3, <1>4, <1>5, <1>6, <1>7, <1>8, <1>9, <1>10, <1>11,
     <1>12, <1>13, <1>14, <1>15, <1>16, <1>17, <1>18, <1>19, <1>20, <1>21,
     <1>22
  DEF Act, Ets, User, Saving, MainStep, WebStep, Commit

LEMMA WhenWrittenTyped ==
    ASSUME ValuesOK, ImagesOK, Paired, buffer = Empty \/ buffer.table # Blank
    PROVE  OwedWhenWritten \in OwedValues
<1>1. CASE upset
  BY <1>1, OwedTyped DEF OwedWhenWritten
<1>2. CASE ~upset
  <2>1. OwedWhenWritten.address \in Addresses \cup {Default, Rubbish, Unknown}
    BY <1>2, AddressAssumption, IdentityAssumption
    DEF OwedWhenWritten, Parked, Paired, PairedIn, ImagesOK, Images, ValuesOK
  <2>2. OwedWhenWritten.table \in Identities \cup {None, Loading, Rubbish, Unknown}
    BY <1>2 DEF OwedWhenWritten, ImagesOK, Images, ValuesOK
  <2>3. QED
    BY <1>2, <2>1, <2>2 DEF OwedWhenWritten, OwedValues
<1>3. QED
  BY <1>1, <1>2

(* What a start reads from an image is a value of the stack.                *)
LEMMA ValuesStay == Typed /\ Act => ValuesOK'
<1> SUFFICES ASSUME Typed, Act PROVE ValuesOK'
  OBVIOUS
<1> USE AddressAssumption, IdentityAssumption
  DEF ValuesOK, Typed, stack, flash, names, watch, flags, tasks, history
<1>1. CASE Download
  BY <1>1 DEF Download
<1>2. CASE RestartByEts
  BY <1>2, OwedTyped DEF RestartByEts, OwedValues
<1>3. CASE ToggleProgMode
  BY <1>3 DEF ToggleProgMode
<1>4. CASE ResetConfiguration
  BY <1>4 DEF ResetConfiguration, Fill
<1>5. CASE FactoryReset
  BY <1>5
  DEF FactoryReset, Begin, AddressAfter, SavedAfter, AddressInImage,
      TableInImage, Valid, Paired, PairedIn, ImagesOK, Images
<1>6. CASE Crash
  BY <1>6
  DEF Crash, Begin, AddressAfter, SavedAfter, AddressInImage, TableInImage,
      Valid, Paired, PairedIn, ImagesOK, Images
<1>7. CASE Notice
  BY <1>7 DEF Notice
<1>8. CASE Settle
  BY <1>8 DEF Settle
<1>9. CASE Persist
  BY <1>9, OwedTyped DEF Persist, OwedValues
<1>10. CASE Written
  BY <1>10 DEF Written
<1>11. CASE HangUp
  BY <1>11 DEF HangUp
<1>12. CASE Reboot
  BY <1>12
  DEF Reboot, Begin, AddressAfter, SavedAfter, AddressInImage, TableInImage,
      Valid, Paired, PairedIn, ImagesOK, Images
<1>13. CASE ScheduleReboot
  BY <1>13 DEF ScheduleReboot
<1>14. CASE PreserveAddress
  BY <1>14 DEF PreserveAddress
<1>15. CASE \E a \in Addresses : WriteAddress(a)
  BY <1>15 DEF WriteAddress
<1>16. CASE \E k \in BOOLEAN : MasterReset(k)
  BY <1>16 DEF MasterReset, Fill, Image
<1>17. CASE \E i \in Identities : StoreIdentity(i)
  <2>1. PICK i \in Identities : StoreIdentity(i)
    BY <1>17
  <2>2. owed' \in OwedValues
    BY <2>1 DEF StoreIdentity, Parked, OwedValues
  <2>3. QED
    BY <2>1, <2>2 DEF StoreIdentity, OwedValues
<1>18. CASE \E t \in {"main", "web"} : Erase(t)
  BY <1>18 DEF Erase, Step, BufferAtCommit
<1>19. CASE \E t \in {"main", "web"} : WriteHeader(t)
  BY <1>19 DEF WriteHeader, Step
<1>20. CASE \E t \in {"main", "web"} : WriteMeta(t)
  BY <1>20 DEF WriteMeta, Step, Over
<1>21. CASE \E t \in {"main", "web"} : WriteBody(t)
  <2>1. PICK t \in {"main", "web"} : WriteBody(t)
    BY <1>21
  <2>2. owed' \in OwedValues
    BY <2>1, WhenWrittenTyped DEF WriteBody, Typed, Filled, Step, Writing
  <2>3. QED
    BY <2>1, <2>2 DEF WriteBody, OwedValues
<1>22. CASE \E t \in {"main", "web"} : FlashFails(t)
  BY <1>22 DEF FlashFails, Step
<1>23. QED
  BY <1>1, <1>2, <1>3, <1>4, <1>5, <1>6, <1>7, <1>8, <1>9, <1>10, <1>11,
     <1>12, <1>13, <1>14, <1>15, <1>16, <1>17, <1>18, <1>19, <1>20, <1>21,
     <1>22
  DEF Act, Ets, User, Saving, MainStep, WebStep, Commit

(* The two tasks write the image at once only with the history upset.       *)
Alone == ~upset => ~(main \in Writing /\ web \in Writing)

(* Once the main task has erased, a wipe has emptied both copies.           *)
Wiped == wipe /\ ~upset /\ main # "erase" => buffer = Empty /\ image = Empty

(* Nothing of another identity's tables gets into an image.                 *)
TablesOf(id) == {id, None, Loading, Rubbish, Blank}
Filling == main \in Writing \/ web \in Writing
Erased(pc) == pc \in {"header", "meta", "body"}
Owned ==
    /\ OwnTables
    /\ image.identity \in Identities => image.table \in TablesOf(image.identity)
    /\ Filling => buffer.identity \in {Blank, identity} /\ buffer.table \in TablesOf(identity)
    /\ Erased(main) \/ Erased(web) =>
           image.identity \in {Blank, Rubbish, identity} /\ image.table \in TablesOf(identity)

(* How far the image has got while one task writes it.                      *)
ShapeAt(pc) ==
    /\ pc \in {"header", "meta"} => image = Empty
    /\ pc \in {"meta", "body"} => header
    /\ pc = "body" => /\ image.identity = buffer.identity /\ image.address = buffer.address
                      /\ image.table = Blank
Shape == ~upset => ShapeAt(main) /\ ShapeAt(web)

(* What is owed is what a start would come up with; while the image is      *)
(* being written, or after a fault, only a parked address is owed.          *)
OwesNothing ==
    upset \/ Filling =>
        owed.table = Unknown /\ (owed.address # Unknown => keepia = owed.address)
Owes ==
    /\ owed.address # Unknown => AddressAfter(keepia, AddressInImage(stored)) = owed.address
    /\ owed.table # Unknown => TableInImage(stored) = owed.table
    /\ OwesNothing

(* A task that fills the image while the other writes it sets the history.  *)
LEMMA AloneStays == Alone /\ StepsOK /\ Act => Alone'
<1> SUFFICES ASSUME Alone, StepsOK, Act PROVE Alone'
  OBVIOUS
<1> USE DEF Alone, StepsOK, Writing, stack, flash, names, watch, flags, tasks,
      history
<1>1. CASE Download
  BY <1>1 DEF Download
<1>2. CASE RestartByEts
  BY <1>2 DEF RestartByEts, Fill, Image
<1>3. CASE ToggleProgMode
  BY <1>3 DEF ToggleProgMode
<1>4. CASE ResetConfiguration
  BY <1>4 DEF ResetConfiguration, Fill
<1>5. CASE FactoryReset
  BY <1>5 DEF FactoryReset, Begin
<1>6. CASE Crash
  BY <1>6 DEF Crash, Begin
<1>7. CASE Notice
  BY <1>7 DEF Notice
<1>8. CASE Settle
  BY <1>8 DEF Settle
<1>9. CASE Persist
  BY <1>9 DEF Persist, Fill, Image
<1>10. CASE Written
  BY <1>10 DEF Written
<1>11. CASE HangUp
  BY <1>11 DEF HangUp
<1>12. CASE Reboot
  BY <1>12 DEF Reboot, Begin
<1>13. CASE ScheduleReboot
  BY <1>13 DEF ScheduleReboot
<1>14. CASE PreserveAddress
  BY <1>14 DEF PreserveAddress
<1>15. CASE \E a \in Addresses : WriteAddress(a)
  BY <1>15 DEF WriteAddress
<1>16. CASE \E k \in BOOLEAN : MasterReset(k)
  BY <1>16 DEF MasterReset, Fill, Image
<1>17. CASE \E i \in Identities : StoreIdentity(i)
  BY <1>17 DEF StoreIdentity
<1>18. CASE \E t \in {"main", "web"} : Erase(t)
  BY <1>18 DEF Erase, Step, BufferAtCommit
<1>19. CASE \E t \in {"main", "web"} : WriteHeader(t)
  BY <1>19 DEF WriteHeader, Step
<1>20. CASE \E t \in {"main", "web"} : WriteMeta(t)
  BY <1>20 DEF WriteMeta, Step, Over
<1>21. CASE \E t \in {"main", "web"} : WriteBody(t)
  BY <1>21 DEF WriteBody, Step, Over
<1>22. CASE \E t \in {"main", "web"} : FlashFails(t)
  BY <1>22 DEF FlashFails, Step
<1>23. QED
  BY <1>1, <1>2, <1>3, <1>4, <1>5, <1>6, <1>7, <1>8, <1>9, <1>10, <1>11,
     <1>12, <1>13, <1>14, <1>15, <1>16, <1>17, <1>18, <1>19, <1>20, <1>21,
     <1>22
  DEF Act, Ets, User, Saving, MainStep, WebStep, Commit

(* A wipe in progress is undone by nothing.                                 *)
LEMMA WipedStays == Wiped /\ Alone /\ StepsOK /\ Act => Wiped'
<1> SUFFICES ASSUME Wiped, Alone, StepsOK, Act PROVE Wiped'
  OBVIOUS
<1> USE DEF Wiped, Alone, StepsOK, Writing, stack, flash, names, watch, flags,
      tasks, history
<1>1. CASE Download
  BY <1>1 DEF Download
<1>2. CASE RestartByEts
  BY <1>2 DEF RestartByEts, Fill, Image
<1>3. CASE ToggleProgMode
  BY <1>3 DEF ToggleProgMode
<1>4. CASE ResetConfiguration
  BY <1>4 DEF ResetConfiguration, Fill
<1>5. CASE FactoryReset
  BY <1>5 DEF FactoryReset, Begin
<1>6. CASE Crash
  BY <1>6 DEF Crash, Begin
<1>7. CASE Notice
  BY <1>7 DEF Notice
<1>8. CASE Settle
  BY <1>8 DEF Settle
<1>9. CASE Persist
  BY <1>9 DEF Persist, Fill, Image
<1>10. CASE Written
  BY <1>10 DEF Written
<1>11. CASE HangUp
  BY <1>11 DEF HangUp
<1>12. CASE Reboot
  BY <1>12 DEF Reboot, Begin
<1>13. CASE ScheduleReboot
  BY <1>13 DEF ScheduleReboot
<1>14. CASE PreserveAddress
  BY <1>14 DEF PreserveAddress
<1>15. CASE \E a \in Addresses : WriteAddress(a)
  BY <1>15 DEF WriteAddress
<1>16. CASE \E k \in BOOLEAN : MasterReset(k)
  BY <1>16 DEF MasterReset, Fill, Image
<1>17. CASE \E i \in Identities : StoreIdentity(i)
  BY <1>17 DEF StoreIdentity
<1>18. CASE \E t \in {"main", "web"} : Erase(t)
  BY <1>18 DEF Erase, Step, BufferAtCommit
<1>19. CASE \E t \in {"main", "web"} : WriteHeader(t)
  BY <1>19 DEF WriteHeader, Step
<1>20. CASE \E t \in {"main", "web"} : WriteMeta(t)
  <2>1. PICK t \in {"main", "web"} : WriteMeta(t)
    BY <1>20
  <2>2. SUFFICES ASSUME wipe, ~upset, main' # "erase"
                 PROVE  image' = Empty
    BY <2>1 DEF WriteMeta, Step
  <2>3. main # "erase"
    BY <2>1, <2>2 DEF WriteMeta, Step
  <2>4. buffer = Empty /\ image = Empty
    BY <2>2, <2>3
  <2>5. image' = [Empty EXCEPT !.identity = Over(Blank, Blank), !.address = Over(Blank, Blank)]
    BY <2>1, <2>4 DEF WriteMeta, Empty
  <2>6. QED
    BY <2>5 DEF Over, Empty
<1>21. CASE \E t \in {"main", "web"} : WriteBody(t)
  <2>1. PICK t \in {"main", "web"} : WriteBody(t)
    BY <1>21
  <2>2. SUFFICES ASSUME wipe, ~upset, main' # "erase"
                 PROVE  image' = Empty
    BY <2>1 DEF WriteBody, Step
  <2>3. main # "erase"
    BY <2>1, <2>2 DEF WriteBody, Step
  <2>4. buffer = Empty /\ image = Empty
    BY <2>2, <2>3
  <2>5. image' = [Empty EXCEPT !.table = Over(Blank, Blank)]
    BY <2>1, <2>4 DEF WriteBody, Empty
  <2>6. QED
    BY <2>5 DEF Over, Empty
<1>22. CASE \E t \in {"main", "web"} : FlashFails(t)
  BY <1>22 DEF FlashFails, Step
<1>23. QED
  BY <1>1, <1>2, <1>3, <1>4, <1>5, <1>6, <1>7, <1>8, <1>9, <1>10, <1>11,
     <1>12, <1>13, <1>14, <1>15, <1>16, <1>17, <1>18, <1>19, <1>20, <1>21,
     <1>22
  DEF Act, Ets, User, Saving, MainStep, WebStep, Commit

(* Tables of one identity never meet the name of another.                   *)
LEMMA OwnedStays == Owned /\ Typed /\ Act => Owned'
<1> SUFFICES ASSUME Owned, Typed, Act PROVE Owned'
  OBVIOUS
<1> USE AddressAssumption, IdentityAssumption
  DEF Owned, OwnTables, TablesOf, Filling, Erased, Writing, stack, flash, names,
      watch, flags, tasks, history
<1>1. CASE Download
  BY <1>1 DEF Download
<1>2. CASE RestartByEts
  BY <1>2 DEF RestartByEts, Fill, Image
<1>3. CASE ToggleProgMode
  BY <1>3 DEF ToggleProgMode
<1>4. CASE ResetConfiguration
  BY <1>4 DEF ResetConfiguration, Fill, Empty
<1>5. CASE FactoryReset
  BY <1>5
  DEF FactoryReset, Begin, TableInImage, Valid, Typed, ImagesOK, Images,
      ValuesOK
<1>6. CASE Crash
  BY <1>6 DEF Crash, Begin, TableInImage, Valid, Typed, ImagesOK, Images, ValuesOK
<1>7. CASE Notice
  BY <1>7 DEF Notice
<1>8. CASE Settle
  BY <1>8 DEF Settle
<1>9. CASE Persist
  BY <1>9 DEF Persist, Fill, Image
<1>10. CASE Written
  BY <1>10 DEF Written
<1>11. CASE HangUp
  BY <1>11 DEF HangUp
<1>12. CASE Reboot
  BY <1>12 DEF Reboot, Begin, TableInImage, Valid, Typed, ImagesOK, Images, ValuesOK
<1>13. CASE ScheduleReboot
  BY <1>13 DEF ScheduleReboot
<1>14. CASE PreserveAddress
  BY <1>14 DEF PreserveAddress
<1>15. CASE \E a \in Addresses : WriteAddress(a)
  BY <1>15 DEF WriteAddress
<1>16. CASE \E k \in BOOLEAN : MasterReset(k)
  BY <1>16 DEF MasterReset, Fill, Image
<1>17. CASE \E i \in Identities : StoreIdentity(i)
  BY <1>17 DEF StoreIdentity
<1>18. CASE \E t \in {"main", "web"} : Erase(t)
  BY <1>18 DEF Erase, Step, BufferAtCommit, Empty
<1>19. CASE \E t \in {"main", "web"} : WriteHeader(t)
  BY <1>19 DEF WriteHeader, Step
<1>20. CASE \E t \in {"main", "web"} : WriteMeta(t)
  BY <1>20 DEF WriteMeta, Step, Over
<1>21. CASE \E t \in {"main", "web"} : WriteBody(t)
  BY <1>21 DEF WriteBody, Step, Over
<1>22. CASE \E t \in {"main", "web"} : FlashFails(t)
  BY <1>22 DEF FlashFails, Step
<1>23. QED
  BY <1>1, <1>2, <1>3, <1>4, <1>5, <1>6, <1>7, <1>8, <1>9, <1>10, <1>11,
     <1>12, <1>13, <1>14, <1>15, <1>16, <1>17, <1>18, <1>19, <1>20, <1>21,
     <1>22
  DEF Act, Ets, User, Saving, MainStep, WebStep, Commit

(* A task alone with the image writes it step by step.                      *)
LEMMA ShapeStays == Shape /\ Alone /\ Typed /\ Act => Shape'
<1> SUFFICES ASSUME Shape, Alone, Typed, Act PROVE Shape'
  OBVIOUS
<1> USE AddressAssumption, IdentityAssumption
  DEF Shape, ShapeAt, Alone, Writing, stack, flash, names, watch, flags, tasks,
      history
<1>1. CASE Download
  BY <1>1 DEF Download
<1>2. CASE RestartByEts
  BY <1>2 DEF RestartByEts, Fill, Image
<1>3. CASE ToggleProgMode
  BY <1>3 DEF ToggleProgMode
<1>4. CASE ResetConfiguration
  BY <1>4 DEF ResetConfiguration, Fill
<1>5. CASE FactoryReset
  BY <1>5 DEF FactoryReset, Begin
<1>6. CASE Crash
  BY <1>6 DEF Crash, Begin
<1>7. CASE Notice
  BY <1>7 DEF Notice
<1>8. CASE Settle
  BY <1>8 DEF Settle
<1>9. CASE Persist
  BY <1>9 DEF Persist, Fill, Image
<1>10. CASE Written
  BY <1>10 DEF Written
<1>11. CASE HangUp
  BY <1>11 DEF HangUp
<1>12. CASE Reboot
  BY <1>12 DEF Reboot, Begin
<1>13. CASE ScheduleReboot
  BY <1>13 DEF ScheduleReboot
<1>14. CASE PreserveAddress
  BY <1>14 DEF PreserveAddress
<1>15. CASE \E a \in Addresses : WriteAddress(a)
  BY <1>15 DEF WriteAddress
<1>16. CASE \E k \in BOOLEAN : MasterReset(k)
  BY <1>16 DEF MasterReset, Fill, Image
<1>17. CASE \E i \in Identities : StoreIdentity(i)
  BY <1>17 DEF StoreIdentity
<1>18. CASE \E t \in {"main", "web"} : Erase(t)
  BY <1>18 DEF Erase, Step, BufferAtCommit
<1>19. CASE \E t \in {"main", "web"} : WriteHeader(t)
  BY <1>19 DEF WriteHeader, Step
<1>20. CASE \E t \in {"main", "web"} : WriteMeta(t)
  <2>1. PICK t \in {"main", "web"} : WriteMeta(t)
    BY <1>20
  <2>2. SUFFICES ASSUME ~upset
                 PROVE  ShapeAt(main)' /\ ShapeAt(web)'
    BY <2>1 DEF WriteMeta
  <2>3. \/ main = "meta" /\ main' = "body" /\ web' = web /\ web \notin Writing
        \/ web = "meta" /\ web' = "body" /\ main' = main /\ main \notin Writing
    <3>1. CASE t = "main"
      <4>1. Step("main", "meta", "body")
        BY <2>1, <3>1 DEF WriteMeta
      <4>2. main = "meta" /\ main' = "body" /\ web' = web
        BY <4>1 DEF Step
      <4>3. web \notin Writing
        BY <2>2, <4>2
      <4>4. QED
        BY <4>2, <4>3
    <3>2. CASE t = "web"
      BY <2>1, <2>2, <3>2 DEF WriteMeta, Step
    <3>3. QED
      BY <3>1, <3>2
  <2>4. image = Empty /\ header
    BY <2>2, <2>3
  <2>5. image' = [Empty EXCEPT !.identity = Over(Blank, buffer.identity),
                               !.address = Over(Blank, buffer.address)]
    BY <2>1, <2>4 DEF WriteMeta, Empty
  <2>6. image'.identity = buffer.identity /\ image'.address = buffer.address
        /\ image'.table = Blank
    BY <2>5 DEF Over, Empty
  <2>7. buffer' = buffer /\ header' = header
    BY <2>1 DEF WriteMeta
  <2>8. QED
    BY <2>3, <2>4, <2>6, <2>7
<1>21. CASE \E t \in {"main", "web"} : WriteBody(t)
  BY <1>21 DEF WriteBody, Step, Over
<1>22. CASE \E t \in {"main", "web"} : FlashFails(t)
  BY <1>22 DEF FlashFails, Step
<1>23. QED
  BY <1>1, <1>2, <1>3, <1>4, <1>5, <1>6, <1>7, <1>8, <1>9, <1>10, <1>11,
     <1>12, <1>13, <1>14, <1>15, <1>16, <1>17, <1>18, <1>19, <1>20, <1>21,
     <1>22
  DEF Act, Ets, User, Saving, MainStep, WebStep, Commit

LEMMA NoneApart ==
    ValuesOK => /\ address # None /\ address # Unknown /\ owed.address # None
                /\ Default # None /\ Default # Unknown /\ stored # Blank
<1> SUFFICES ASSUME ValuesOK
             PROVE  /\ address # None /\ address # Unknown /\ owed.address # None
                    /\ Default # None /\ Default # Unknown /\ stored # Blank
  OBVIOUS
<1>1. address # None /\ address # Unknown /\ Default # None /\ Default # Unknown
  BY AddressAssumption DEF ValuesOK, Rubbish, None, Unknown
<1>2. owed.address \in Addresses \cup {Default, Rubbish, Unknown}
  BY DEF ValuesOK
<1>3. owed.address # None
  BY <1>2, AddressAssumption DEF Rubbish, None, Unknown
<1>4. stored # Blank
  BY IdentityAssumption DEF ValuesOK
<1>5. QED
  BY <1>1, <1>3, <1>4

(* What is owed stays what a start would come up with.                      *)
LEMMA OwesStays == Owes /\ Shape /\ Alone /\ Typed /\ Act => Owes'
<1> SUFFICES ASSUME Owes, Shape, Alone, Typed, Act PROVE Owes'
  OBVIOUS
<1> USE AddressAssumption, IdentityAssumption
  DEF Owes, OwesNothing, Filling, Writing, Parked, OwedUntilWritten,
      AddressAfter, AddressInImage, TableInImage, Valid, Typed, ValuesOK, stack,
      flash, names, watch, flags, tasks, history
<1>1. CASE Download
  BY <1>1 DEF Download
<1>2. CASE RestartByEts
  BY <1>2 DEF RestartByEts, Fill, Image
<1>3. CASE ToggleProgMode
  BY <1>3 DEF ToggleProgMode
<1>4. CASE ResetConfiguration
  BY <1>4 DEF ResetConfiguration, Fill
<1>5. CASE FactoryReset
  BY <1>5 DEF FactoryReset, Begin
<1>6. CASE Crash
  BY <1>6 DEF Crash, Begin
<1>7. CASE Notice
  BY <1>7 DEF Notice
<1>8. CASE Settle
  BY <1>8 DEF Settle
<1>9. CASE Persist
  BY <1>9 DEF Persist, Fill, Image
<1>10. CASE Written
  BY <1>10 DEF Written
<1>11. CASE HangUp
  BY <1>11 DEF HangUp
<1>12. CASE Reboot
  BY <1>12 DEF Reboot, Begin
<1>13. CASE ScheduleReboot
  BY <1>13 DEF ScheduleReboot
<1>14. CASE PreserveAddress
  BY <1>14, NoneApart DEF PreserveAddress
<1>15. CASE \E a \in Addresses : WriteAddress(a)
  BY <1>15, NoneApart DEF WriteAddress
<1>16. CASE \E k \in BOOLEAN : MasterReset(k)
  BY <1>16, NoneApart DEF MasterReset, Fill
<1>17. CASE \E i \in Identities : StoreIdentity(i)
  BY <1>17 DEF StoreIdentity
<1>18. CASE \E t \in {"main", "web"} : Erase(t)
  <2>1. PICK t \in {"main", "web"} : Erase(t)
    BY <1>18
  <2>2. Filling
    BY <2>1 DEF Erase, Step
  <2>3. owed' = owed /\ keepia' = keepia /\ stored' = stored
    BY <2>1 DEF Erase
  <2>4. owed.table = Unknown /\ (owed.address # Unknown => keepia = owed.address)
    BY <2>2
  <2>5. QED
    BY <2>3, <2>4, NoneApart
<1>19. CASE \E t \in {"main", "web"} : WriteHeader(t)
  BY <1>19 DEF WriteHeader, Step
<1>20. CASE \E t \in {"main", "web"} : WriteMeta(t)
  <2>1. PICK t \in {"main", "web"} : WriteMeta(t)
    BY <1>20
  <2>2. Filling
    BY <2>1 DEF WriteMeta, Step
  <2>3. owed' = owed /\ keepia' = keepia /\ stored' = stored
    BY <2>1 DEF WriteMeta
  <2>4. owed.table = Unknown /\ (owed.address # Unknown => keepia = owed.address)
    BY <2>2
  <2>5. QED
    BY <2>3, <2>4, NoneApart
<1>21. CASE \E t \in {"main", "web"} : WriteBody(t)
  <2>1. PICK t \in {"main", "web"} : WriteBody(t)
    BY <1>21
  <2>2. keepia' = keepia /\ stored' = stored /\ upset' = upset /\ header' = header
        /\ owed' = OwedWhenWritten
    BY <2>1 DEF WriteBody
  <2>3. CASE upset
    <3>1. owed' = OwedUntilWritten
      BY <2>2, <2>3 DEF OwedWhenWritten
    <3>2. QED
      BY <2>2, <3>1, NoneApart
  <2>4. CASE ~upset
    <3>1. main' \notin Writing /\ web' \notin Writing
      <4>1. CASE t = "main"
        BY <2>1, <2>4, <4>1 DEF WriteBody, Step, Alone
      <4>2. CASE t = "web"
        BY <2>1, <2>4, <4>2 DEF WriteBody, Step, Alone
      <4>3. QED
        BY <4>1, <4>2
    <3>2. header /\ image.identity = buffer.identity /\ image.address = buffer.address
          /\ image.table = Blank
      BY <2>1, <2>4 DEF WriteBody, Step, Shape, ShapeAt
    <3>3. image' = [image EXCEPT !.table = buffer.table]
      BY <2>1, <3>2 DEF WriteBody, Over
    <3>4. image'.identity = buffer.identity /\ image'.address = buffer.address
          /\ image'.table = buffer.table
      BY <3>2, <3>3 DEF ImagesOK, Images
    <3>5. buffer = Empty \/ (buffer.identity # Blank /\ buffer.table # Blank)
      BY <2>1 DEF WriteBody, Step, Filled
    <3>6. owed'.address # Unknown => AddressAfter(keepia, AddressInImage(stored))' = owed'.address
      BY <2>2, <2>4, <3>2, <3>4, NoneApart DEF OwedWhenWritten, Empty
    <3>7. owed'.table # Unknown => TableInImage(stored)' = owed'.table
      BY <2>2, <2>4, <3>2, <3>4, <3>5, NoneApart DEF OwedWhenWritten, Empty
    <3>8. QED
      BY <2>2, <2>4, <3>1, <3>6, <3>7
  <2>5. QED
    BY <2>3, <2>4
<1>22. CASE \E t \in {"main", "web"} : FlashFails(t)
  BY <1>22 DEF FlashFails, Step
<1>23. QED
  BY <1>1, <1>2, <1>3, <1>4, <1>5, <1>6, <1>7, <1>8, <1>9, <1>10, <1>11,
     <1>12, <1>13, <1>14, <1>15, <1>16, <1>17, <1>18, <1>19, <1>20, <1>21,
     <1>22
  DEF Act, Ets, User, Saving, MainStep, WebStep, Commit

(* The invariants from which the properties follow.                         *)
Inv == Typed /\ Alone /\ Wiped /\ Owned /\ Shape /\ Owes

LEMMA InitInv == Init => Inv
<1> SUFFICES ASSUME Init PROVE Inv
  OBVIOUS
<1>1. ImagesOK /\ Paired /\ Filled
  BY DEF Init, ImagesOK, Images, Empty, Paired, PairedIn, Filled, Writing
<1>2. ValuesOK
  BY IdentityAssumption DEF Init, ValuesOK
<1>3. StepsOK /\ FlagsOK
  BY DEF Init, StepsOK, FlagsOK
<1>4. Alone /\ Wiped /\ Shape
  BY DEF Init, Alone, Wiped, Shape, ShapeAt, Writing
<1>5. Owned
  BY IdentityAssumption
  DEF Init, Owned, OwnTables, TablesOf, Filling, Erased, Empty, Writing
<1>6. Owes
  BY NoneApart, <1>2
  DEF Init, Owes, OwesNothing, Filling, Writing, AddressAfter, AddressInImage,
      TableInImage, Valid
<1>7. QED
  BY <1>1, <1>2, <1>3, <1>4, <1>5, <1>6 DEF Inv, Typed

LEMMA InvStays == Inv /\ [Next]_vars => Inv'
<1> SUFFICES ASSUME Inv, [Next]_vars PROVE Inv'
  OBVIOUS
<1>1. CASE Act
  <2>1. Typed'
    BY <1>1, StepsStay, FlagsStay, PairedStays, FilledStays, ImagesStay, ValuesStay
    DEF Inv, Typed
  <2>2. Alone' /\ Wiped' /\ Owned'
    BY <1>1, AloneStays, WipedStays, OwnedStays DEF Inv, Typed
  <2>3. Shape' /\ Owes'
    BY <1>1, ShapeStays, OwesStays DEF Inv, Typed
  <2>4. QED
    BY <2>1, <2>2, <2>3 DEF Inv
<1>2. CASE UNCHANGED vars
  <2> USE <1>2 DEF vars, stack, flash, names, watch, flags, tasks, history, Inv
  <2>1. Typed'
    BY DEF Typed, ImagesOK, ValuesOK, StepsOK, FlagsOK, Paired, PairedIn, Filled
  <2>2. Alone' /\ Wiped' /\ Shape'
    BY DEF Alone, Wiped, Shape, ShapeAt
  <2>3. Owned'
    BY DEF Owned, OwnTables, TablesOf, Filling, Erased
  <2>4. Owes'
    BY DEF Owes, OwesNothing, Filling, AddressAfter, AddressInImage,
        TableInImage, Valid
  <2>5. QED
    BY <2>1, <2>2, <2>3, <2>4
<1>3. QED
  BY <1>1, <1>2 DEF Next, Act

LEMMA AlwaysInv == Spec => []Inv
<1>1. QED
  BY InitInv, InvStays, PTL DEF Spec

(* Every variable keeps its type, and what ETS, the web and crashes do      *)
(* stays within the bound of the model.                                     *)
THEOREM TypeCorrect == Spec => []TypeOK
<1> DEFINE Bounded == events \in 0 .. MaxEvents
<1>1. Init => Bounded
  BY BoundAssumption DEF Init
<1>2. Bounded /\ [Next]_vars => Bounded'
  BY BoundAssumption DEF Next, vars
<1>3. Inv /\ Bounded => TypeOK
  BY DEF Inv, Typed, TypeOK
<1> HIDE DEF Bounded
<1>4. QED
  BY <1>1, <1>2, <1>3, AlwaysInv, PTL DEF Spec

(* After a master reset the flash stays empty until the restart, whatever   *)
(* the two tasks write the memory for, however often.                       *)
THEOREM WipeStaysEmpty == Spec => []WipeSticks
<1>1. Inv => WipeSticks
  BY DEF Inv, Wiped, WipeSticks
<1>2. QED
  BY <1>1, AlwaysInv, PTL

(* No device ever goes on with the tables of an identity it had before.     *)
THEOREM TablesAreOwn == Spec => []OwnTables
<1>1. Inv => OwnTables
  BY DEF Inv, Owned
<1>2. QED
  BY <1>1, AlwaysInv, PTL

(* A start, after a crash at any step of either task, comes up with the     *)
(* address and the tables that are owed.                                    *)
THEOREM StartsRight == Spec => StartsAsOwed
<1>1. Inv /\ [Next]_vars =>
          [Crash => /\ owed.address # Unknown => address' = owed.address
                    /\ owed.table # Unknown => table' = owed.table]_vars
  BY DEF Inv, Owes, Crash, Begin
<1>2. QED
  BY <1>1, AlwaysInv, PTL DEF Spec, StartsAsOwed

=============================================================================
