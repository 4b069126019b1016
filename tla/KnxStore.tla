------------------------------ MODULE KnxStore ------------------------------
(***************************************************************************)
(* The KNX configuration and where it is kept (src/src/knx_link.cpp): the  *)
(* stack's objects in RAM, the image of them in the knxcfg partition, and  *)
(* an individual address parked in NVS over a change that discards the     *)
(* image.  The stack and all that ETS does to it run on the main task; the *)
(* web task clears the image and changes the identity.                     *)
(*                                                                         *)
(* The stack is a library.  Of it the module takes what knx_link.cpp says: *)
(* a restart asked for by ETS writes the image first, a master reset calls *)
(* doMasterReset() before that, an image of another identity is discarded. *)
(***************************************************************************)
EXTENDS Naturals

CONSTANTS
    Addresses,   \* individual addresses ETS may write
    Identities,  \* identities that invalidate each other's image
    Factory,     \* the built-in identity
    Default,     \* address of a device that was never programmed, 15.15.255
    MaxEvents    \* bound of the model: what ETS, the web, and crashes do

Blank == "blank"      \* erased flash
Rubbish == "rubbish"  \* what an incomplete or mixed image is read as
None == "none"
Unknown == "unknown"
Loading == "loading"

ASSUME AddressAssumption ==
    {Blank, Rubbish, None, Unknown} \cap (Addresses \cup {Default}) = {}
ASSUME BoundAssumption == MaxEvents \in Nat
ASSUME IdentityAssumption ==
    /\ Factory \in Identities
    /\ {Blank, Rubbish, None, Unknown, Loading} \cap Identities = {}

VARIABLES
    address, table,  \* the stack: device object and tables.  A table is named
                     \* after the identity it was downloaded to
    buffer,      \* _knxMemory
    wipe,        \* _wipe
    header, image,   \* the partition: magic and size, contents
    keepia,      \* the NVS key KEY_KEEPIA
    identity,    \* the identity the stack runs with
    stored,      \* the identity in NVS
    saved, pending, settled,  \* _savedAddress, _pendingAddress, ten seconds on
    progMode,
    restarting,  \* _restartPending
    rebooting,   \* NetManager::_pendingReboot
    main, web,   \* the steps of the two tasks
    why,         \* what the main task writes the image for
    owed,        \* history: what the next start has to come up with
    upset,       \* history: a flash operation failed, or both tasks wrote the
                 \* image at once
    events       \* how often ETS, the web or a crash has acted

stack == <<address, table>>
flash == <<header, image>>
names == <<identity, stored>>
watch == <<saved, pending, settled>>
flags == <<progMode, restarting, rebooting>>
tasks == <<main, web, why>>
history == <<owed, upset>>
vars == <<stack, buffer, wipe, flash, keepia, names, watch, flags, tasks, history, events>>

Images ==
    [identity : Identities \cup {Blank, Rubbish},
     address : Addresses \cup {Default, Blank, Rubbish},
     table : Identities \cup {None, Loading, Blank, Rubbish}]
Empty == [identity |-> Blank, address |-> Blank, table |-> Blank]
Image == [identity |-> identity, address |-> address, table |-> table]
Writing == {"erase", "header", "meta", "body"}

Init ==
    /\ address = Default /\ table = None
    /\ buffer = Empty /\ wipe = FALSE
    /\ header = FALSE /\ image = Empty
    /\ keepia = None /\ identity = Factory /\ stored = Factory
    /\ saved = Default /\ pending = Default /\ settled = FALSE
    /\ progMode = FALSE /\ restarting = FALSE /\ rebooting = FALSE
    /\ main = "idle" /\ web = "idle" /\ why = None
    /\ owed = [address |-> Default, table |-> None] /\ upset = FALSE
    /\ events = 0

----------------------------------------------------------------------------
(* History.  A parked address is owed from then on, an image when it is     *)
(* complete; nothing is owed while an image is being rewritten, or when an  *)
(* address is parked that is no longer the one to come up with.             *)
Parked == keepia # None /\ keepia = owed.address
OwedUntilWritten ==
    [address |-> IF Parked THEN owed.address ELSE Unknown, table |-> Unknown]
OwedWhenWritten ==
    IF upset THEN OwedUntilWritten
    ELSE [address |->
              IF keepia # None THEN IF Parked THEN keepia ELSE Unknown
              ELSE IF buffer = Empty THEN Default
              ELSE IF buffer.identity = stored THEN buffer.address ELSE Unknown,
          table |->
              IF buffer # Empty /\ buffer.identity = stored THEN buffer.table
              ELSE None]

(* Filling the image in RAM, the step before commitToEeprom().              *)
Fill(filled, other) ==
    /\ buffer' = filled
    /\ upset' = IF other \in Writing THEN TRUE ELSE upset

----------------------------------------------------------------------------
(* commitToEeprom(): the wipe that a master reset asked for, erase, header, *)
(* contents.  Bits of flash go one way only until they are erased.          *)
Over(old, new) ==
    IF old = Blank \/ old = new THEN new ELSE IF new = Blank THEN old ELSE Rubbish

BufferKept == buffer  \* mutant of BufferAtCommit
BufferAtCommit == IF wipe THEN Empty ELSE buffer

Step(t, from, to) ==
    \/ t = "main" /\ main = from /\ main' = to /\ UNCHANGED <<web, why>>
    \/ t = "web" /\ web = from /\ web' = to /\ UNCHANGED <<main, why>>

Erase(t) ==
    /\ Step(t, "erase", "header")
    /\ buffer' = BufferAtCommit
    /\ header' = FALSE /\ image' = Empty
    /\ UNCHANGED <<stack, wipe, keepia, names, watch, flags, history>>

WriteHeader(t) ==
    /\ Step(t, "header", "meta")
    /\ header' = TRUE
    /\ UNCHANGED <<stack, buffer, wipe, image, keepia, names, watch, flags, history>>

WriteMeta(t) ==
    /\ Step(t, "meta", "body")
    /\ image' = [image EXCEPT !.identity = Over(@, buffer.identity),
                              !.address = Over(@, buffer.address)]
    /\ UNCHANGED <<stack, buffer, wipe, header, keepia, names, watch, flags, history>>

WriteBody(t) ==
    /\ Step(t, "body", "done")
    /\ image' = [image EXCEPT !.table = Over(@, buffer.table)]
    /\ owed' = OwedWhenWritten
    /\ UNCHANGED <<stack, buffer, wipe, header, keepia, names, watch, flags, upset>>

(* An operation that fails ends the commit; nobody is told.                 *)
FlashFails(t) ==
    /\ \E from \in Writing : Step(t, from, "done")
    /\ upset' = TRUE
    /\ UNCHANGED <<stack, buffer, wipe, flash, keepia, names, watch, flags, owed>>

Commit(t) ==
    Erase(t) \/ WriteHeader(t) \/ WriteMeta(t) \/ WriteBody(t) \/ FlashFails(t)

----------------------------------------------------------------------------
(* What ETS does, inside knx.loop().                                        *)
WriteAddress(a) ==
    /\ main = "idle"
    /\ address' = a
    /\ owed' = IF keepia = None THEN owed ELSE [owed EXCEPT !.address = Unknown]
    /\ UNCHANGED <<table, buffer, wipe, flash, keepia, names, watch, flags, tasks, upset>>

Download ==
    /\ main = "idle"
    /\ table' = IF table = Loading THEN identity ELSE Loading
    /\ UNCHANGED <<address, buffer, wipe, flash, keepia, names, watch, flags, tasks, history>>

(* A_Restart: the image is written, then restart() is called.               *)
RestartByEts ==
    /\ main = "idle" /\ main' = "erase" /\ why' = "restart"
    /\ Fill(Image, web)
    /\ owed' = OwedUntilWritten
    /\ UNCHANGED <<stack, wipe, flash, keepia, names, watch, flags, web>>

(* A_Restart as master reset, with doMasterReset() before that.  NVS may    *)
(* refuse to park the address.                                              *)
MasterReset(keepAddress) ==
    /\ main = "idle" /\ main' = "erase" /\ why' = "restart"
    /\ wipe' = TRUE
    /\ \/ keepAddress /\ keepia' = address
       \/ UNCHANGED keepia
    /\ owed' = [address |-> IF keepAddress /\ keepia' = address THEN address ELSE Unknown,
                table |-> Unknown]
    /\ Fill(Image, web)
    /\ UNCHANGED <<stack, flash, names, watch, flags, web>>

(* persistAddress(): a changed address is noticed, ...                      *)
Notice ==
    /\ main = "idle" /\ pending # address
    /\ pending' = address /\ settled' = FALSE
    /\ UNCHANGED <<stack, buffer, wipe, flash, keepia, names, saved, flags, tasks, history>>

(* ... ten seconds pass, ...                                                *)
Settle ==
    /\ pending # saved /\ ~settled
    /\ settled' = TRUE
    /\ UNCHANGED <<stack, buffer, wipe, flash, keepia, names, saved, pending, flags, tasks,
                   history>>

(* ... and it is written, unless ETS is still at work.                      *)
Persist ==
    /\ main = "idle" /\ address # saved /\ address = pending /\ settled
    /\ ~progMode /\ table # Loading
    /\ main' = "erase" /\ why' = "save"
    /\ Fill(Image, web)
    /\ owed' = OwedUntilWritten
    /\ UNCHANGED <<stack, wipe, flash, keepia, names, watch, flags, web>>

Written ==
    /\ main = "done" /\ main' = "idle" /\ why' = None
    /\ saved' = IF why = "save" THEN address ELSE saved
    /\ restarting' = IF why = "restart" THEN TRUE ELSE restarting
    /\ UNCHANGED <<stack, buffer, wipe, flash, keepia, names, pending, settled, progMode,
                   rebooting, web, history>>

(* superviseRestart(): the client hung up, or six seconds are over.         *)
HangUp ==
    /\ main = "idle" /\ restarting
    /\ restarting' = FALSE /\ rebooting' = TRUE
    /\ UNCHANGED <<stack, buffer, wipe, flash, keepia, names, watch, progMode, tasks, history>>

ToggleProgMode ==
    /\ main = "idle"
    /\ progMode' = ~progMode
    /\ UNCHANGED <<stack, buffer, wipe, flash, keepia, names, watch, restarting, rebooting,
                   tasks, history>>

----------------------------------------------------------------------------
(* The web task: /api/knx/reset with resetConfiguration(), ...              *)
ResetConfiguration ==
    /\ web = "idle" /\ web' = "erase"
    /\ Fill(Empty, main)
    /\ owed' = [address |-> Unknown, table |-> Unknown]
    /\ UNCHANGED <<stack, wipe, flash, keepia, names, watch, flags, main, why>>

ScheduleReboot ==
    /\ web = "done" /\ web' = "idle"
    /\ rebooting' = TRUE
    /\ UNCHANGED <<stack, buffer, wipe, flash, keepia, names, watch, progMode, restarting,
                   main, why, history>>

(* ... and /api/knx/identity: the identity is stored, and if that makes the *)
(* image invalid preserveAddress() parks the address.                       *)
StoreIdentity(id) ==
    /\ web = "idle" /\ id # stored
    /\ stored' = id
    /\ web' = IF id = identity THEN "idle" ELSE "park"
    /\ owed' = [address |-> IF id = identity /\ Parked THEN keepia ELSE Unknown,
                table |-> Unknown]
    /\ UNCHANGED <<stack, buffer, wipe, flash, keepia, identity, watch, flags, main, why,
                   upset>>

PreserveAddress ==
    /\ web = "park" /\ web' = "idle"
    /\ \/ keepia' = address /\ owed' = [owed EXCEPT !.address = address]
       \/ UNCHANGED <<keepia, owed>>
    /\ UNCHANGED <<stack, buffer, wipe, flash, names, watch, flags, main, why, upset>>

----------------------------------------------------------------------------
(* A start: the image counts if the header is ours and the identity is the  *)
(* one it was written under; then the parked address.                       *)
Valid(id) == header /\ image.identity = id
AddressInImage(id) == IF Valid(id) THEN image.address ELSE Default
TableInImage(id) ==
    IF ~Valid(id) THEN None ELSE IF image.table = Blank THEN Rubbish ELSE image.table

KeptForgotten(kept, restored) == restored   \* mutant of AddressAfter
AddressAfter(kept, restored) == IF kept = None THEN restored ELSE kept

SavedWithIt(kept, restored) == AddressAfter(kept, restored)  \* mutant of SavedAfter
SavedAfter(kept, restored) == restored

Begin(kept, id) ==
    /\ identity' = id /\ stored' = id
    /\ address' = AddressAfter(kept, AddressInImage(id))
    /\ table' = TableInImage(id)
    /\ keepia' = None
    /\ saved' = SavedAfter(kept, AddressInImage(id))
    /\ pending' = Default /\ settled' = FALSE
    /\ buffer' = IF header THEN image ELSE Empty
    /\ wipe' = FALSE /\ progMode' = FALSE
    /\ restarting' = FALSE /\ rebooting' = FALSE
    /\ main' = "idle" /\ web' = "idle" /\ why' = None
    /\ owed' = [address |-> IF kept = None THEN address' ELSE Unknown, table |-> table']
    /\ upset' = FALSE
    /\ UNCHANGED flash

(* The restart that was scheduled, a crash anywhere, and the factory reset, *)
(* which erases NVS.                                                        *)
Reboot == rebooting /\ main = "idle" /\ Begin(keepia, stored)
Crash == Begin(keepia, stored)
FactoryReset == main = "idle" /\ Begin(None, Factory)

Ets ==
    \/ \E a \in Addresses : WriteAddress(a)
    \/ Download \/ RestartByEts
    \/ \E keepAddress \in BOOLEAN : MasterReset(keepAddress)
    \/ ToggleProgMode
User ==
    \/ ResetConfiguration
    \/ \E id \in Identities : StoreIdentity(id)
    \/ FactoryReset
Saving == Notice \/ Settle \/ Persist
MainStep == Commit("main") \/ Written \/ HangUp \/ Reboot
WebStep == Commit("web") \/ ScheduleReboot \/ PreserveAddress

Next ==
    \/ events < MaxEvents /\ events' = events + 1 /\ (Ets \/ User \/ Crash)
    \/ UNCHANGED events /\ (Saving \/ MainStep \/ WebStep)

(* loop() calls persistAddress() once a second, time passes, and both tasks *)
(* go on with what they are at.                                             *)
Fairness ==
    /\ WF_vars(UNCHANGED events /\ MainStep) /\ WF_vars(UNCHANGED events /\ WebStep)
    /\ WF_vars(UNCHANGED events /\ Notice) /\ WF_vars(UNCHANGED events /\ Settle)
    /\ WF_vars(UNCHANGED events /\ Persist)

Spec == Init /\ [][Next]_vars
FairSpec == Spec /\ Fairness

----------------------------------------------------------------------------
ImagesOK == buffer \in Images /\ image \in Images

ValuesOK ==
    /\ address \in Addresses \cup {Default, Rubbish}
    /\ table \in Identities \cup {None, Loading, Rubbish}
    /\ keepia \in Addresses \cup {None, Default, Rubbish}
    /\ identity \in Identities /\ stored \in Identities
    /\ saved \in Addresses \cup {Default, Rubbish}
    /\ pending \in Addresses \cup {Default, Rubbish}
    /\ owed \in [address : Addresses \cup {Default, Rubbish, Unknown},
                 table : Identities \cup {None, Loading, Rubbish, Unknown}]

StepsOK ==
    /\ main \in Writing \cup {"idle", "done"}
    /\ web \in Writing \cup {"idle", "done", "park"}
    /\ why \in {None, "restart", "save"}

FlagsOK ==
    /\ wipe \in BOOLEAN /\ header \in BOOLEAN /\ settled \in BOOLEAN
    /\ progMode \in BOOLEAN /\ restarting \in BOOLEAN /\ rebooting \in BOOLEAN
    /\ upset \in BOOLEAN

TypeOK == ImagesOK /\ ValuesOK /\ StepsOK /\ FlagsOK /\ events \in 0 .. MaxEvents

(* A restart comes up with what it owes: the address and the tables that    *)
(* were written last, nothing after a reset, and the address alone after a  *)
(* master reset that keeps it or a change of identity, however often and in *)
(* whatever order these follow one another.                                 *)
StartsAsOwed ==
    [][Crash => /\ owed.address # Unknown => address' = owed.address
                /\ owed.table # Unknown => table' = owed.table]_vars

(* After a master reset the flash stays empty until the restart, whatever   *)
(* writes the memory before then ("Sticky until the restart").              *)
WipeSticks == wipe /\ main \in {"done", "idle"} /\ ~upset => image = Empty

(* A device that changes its identity does not go on with the tables of the *)
(* one it was.                                                              *)
OwnTables == table \in {identity, None, Loading, Rubbish}

(* An address that ETS writes without a restart after it is saved, once ETS *)
(* is done with the device and the device is left alone.                    *)
LeftAlone(a) == address = a /\ ~progMode /\ table # Loading /\ ~upset
AddressSaved ==
    \A a \in Addresses :
        <>[]LeftAlone(a) => []<>(image.address = a)

=============================================================================
