--------------------------- MODULE HwConfigProofs ---------------------------
(***************************************************************************)
(* Proofs about HwConfig, for any profiles, documents and number of events: *)
(* types, the wiring, the two copies of the profile, what a restart would   *)
(* give, and when a profile is dropped.                                     *)
(***************************************************************************)
EXTENDS HwConfig, TLAPS

Writing == {"keys", "btns", "bact", "btnc", "bacc", "iover", "set", "boots", "ram"}
Handing == {"pend", "pendrest", "flag"}

(* When which task does what.                                               *)
Tasks ==
    /\ ~Up => web = "idle" /\ ~applyPending
    /\ main = "drop" => ~nvs.set
    /\ web \in {"idle", "read"} => ~live
    /\ web \in Handing => live /\ rebootPending

(* The wiring of whatever is on its way to loop() is that of the active one. *)
SameWires(a, b) == \A f \in Wiring : a[f] = b[f]
Wires ==
    /\ web = "read" \/ live => SameWires(p, active)
    /\ web \in {"pendrest", "flag"} => SameWires(pending, active)
    /\ applyPending \/ main \in {"copy", "rest"} => SameWires(pending, active)

(* The blobs not yet put are in NVS what they are in RAM, the parts put are *)
(* those of the new profile.                                                *)
InStep ==
    blind = {} /\ main # "boot" /\ nvs.iover =>
        /\ web \notin Writing \ {"keys", "btns"} => nvs.kept["btns"] = stored["btns"]
        /\ web \notin Writing \ {"keys", "btns", "bact"} => nvs.kept["bact"] = stored["bact"]
Written ==
    blind = {} =>
        /\ web \in Writing \ {"keys"} => nvs.kept["keys"] = p["keys"]
        /\ web \in Writing \ {"keys", "btns"} => nvs.kept["btns"] = p["btns"]
        /\ web \in Writing \ {"keys", "btns", "bact"} => nvs.kept["bact"] = p["bact"]
        /\ web \in Writing \ {"keys", "btns", "bact", "btnc"} =>
               nvs.kept["btnc"] = p["btnc"]
        /\ web \in {"iover", "set", "boots", "ram"} => nvs.kept["bacc"] = p["bacc"]
        /\ web \in {"set", "boots", "ram"} => nvs.iover
        /\ web \in {"boots", "ram"} => nvs.set

(* Between two calls of store() the copy in RAM is what a start would load. *)
Agreed ==
    blind = {} /\ Up /\ web \notin Writing =>
        IF hasStored THEN nvs.set /\ Loaded = stored ELSE ~nvs.set

(* What the request holds, and what loop() will make of the active profile. *)
Handed ==
    /\ web \in Writing \cup {"open"} \cup Handing => p \in Valid
    /\ web \in Handing => p = stored /\ hasStored
    /\ web = "pendrest" => \A f \in Front : pending[f] = p[f]
    /\ web = "flag" => pending = p
ToBe ==
    IF applyPending \/ main = "copy" THEN pending
    ELSE IF main = "rest" THEN Copied(active, pending, Fields \ Front) ELSE active
Target ==
    blind = {} /\ Up /\ web \notin Writing /\ ~rebootPending => ToBe = NextStart

(* The counter of boots of a profile written completely.                    *)
Tried ==
    /\ web \in {"btns", "bact", "btnc", "bacc", "iover", "set", "boots"} => ~whole
    /\ whole /\ nvs.set => nvs.boots <= tries

(* Types.                                                                   *)
LEMMA CopiedTyped ==
    ASSUME NEW to \in Profiles, NEW from \in Profiles, NEW parts
    PROVE  Copied(to, from, parts) \in Profiles
BY DEF Copied, Profiles

LEMMA LoadedTyped == nvs \in Nvs => Loaded \in Profiles
BY ProfileAssumption DEF Nvs, Loaded, Profiles

LEMMA PatchedTyped ==
    ASSUME NEW patch \in Patches, p \in Profiles, active \in Profiles
    PROVE  Patched(patch) \in Profiles
BY PatchAssumption DEF Patched, Profiles

LEMMA TypeStays ==
    TypeOK /\ Next => TypeOK'
<1> SUFFICES ASSUME TypeOK, Next PROVE TypeOK'
  OBVIOUS
<1> USE DEF TypeOK, profiles, flags, request, history
<1>1. CASE BeginUnconfigured
  BY <1>1, ProfileAssumption DEF BeginUnconfigured, Started, Fallbacks
<1>2. CASE BeginStored
  <2>1. Attempt \in 0..MAX_BOOT_ATTEMPTS
    BY <1>2 DEF BeginStored, AttemptsLeft, Attempt, Nvs, MAX_BOOT_ATTEMPTS
  <2>2. nvs' \in Nvs
    BY <1>2, <2>1 DEF BeginStored, Nvs
  <2>3. active' \in Profiles /\ fallback' \in Fallbacks
    BY <1>2, LoadedTyped, ProfileAssumption DEF BeginStored, Started, Fallbacks
  <2>4. stored' \in Profiles
    BY <1>2, LoadedTyped DEF BeginStored
  <2>5. tries' \in 0..MAX_BOOT_ATTEMPTS
    BY <1>2 DEF BeginStored, MAX_BOOT_ATTEMPTS
  <2>6. main' = "run" /\ UNCHANGED <<pending, applyPending, rebootPending,
                                     counterCleared, request, whole, events>>
    BY <1>2 DEF BeginStored, Started
  <2>7. QED
    BY <1>2, <2>2, <2>3, <2>4, <2>5, <2>6 DEF BeginStored
<1>3. CASE BeginDrop
  BY <1>3, LoadedTyped DEF BeginDrop, AttemptsLeft, Nvs
<1>4. CASE Dropped
  <2>1. nvs' \in Nvs
    BY <1>4 DEF Dropped, Nvs, MAX_BOOT_ATTEMPTS
  <2>2. active' \in Profiles /\ fallback' \in Fallbacks /\ main' = "run"
    BY <1>4, ProfileAssumption DEF Dropped, Started, Fallbacks
  <2>3. QED
    BY <1>4, <2>1, <2>2 DEF Dropped, Started
<1>5. CASE TakeChange
  BY <1>5 DEF TakeChange
<1>6. CASE CopyFront
  BY <1>6, CopiedTyped DEF CopyFront
<1>7. CASE CopyRest
  BY <1>7, CopiedTyped DEF CopyRest, FlagAfterCopy
<1>8. CASE Prove
  BY <1>8 DEF Prove, Nvs, MAX_BOOT_ATTEMPTS
<1>9. CASE Request
  BY <1>9, CopiedTyped, BoundAssumption DEF Request, WebStep, RamKept,
     Happens, Steps
<1>10. CASE Reject
  BY <1>10, ProfileAssumption DEF Reject, WebStep, RamKept, Steps
<1>11. CASE Open
  BY <1>11 DEF Open, WebStep, RamKept, Steps, Fields
<1>12. CASE OpenRefused
  BY <1>12 DEF OpenRefused, WebStep, RamKept, Steps
<1>13. CASE PutVersion
  BY <1>13 DEF PutVersion, WebStep, RamKept, After, Steps, Nvs
<1>14. CASE PutSet
  BY <1>14 DEF PutSet, WebStep, RamKept, After, Steps, Nvs
<1>15. CASE PutBoots
  BY <1>15 DEF PutBoots, WebStep, RamKept, After, BootsStored, Steps, Nvs,
     MAX_BOOT_ATTEMPTS
<1>16. CASE Remember
  BY <1>16, ProfileAssumption DEF Remember, WebStep, Steps
<1>17. CASE PendFront
  BY <1>17, CopiedTyped DEF PendFront, WebStep, Steps
<1>18. CASE PendRest
  BY <1>18, CopiedTyped DEF PendRest, WebStep, Steps
<1>19. CASE Flag
  BY <1>19, ProfileAssumption DEF Flag, WebStep, Steps
<1>20. CASE ResetToDefaults
  <2>1. nvs' \in Nvs
    BY <1>20, ProfileAssumption DEF ResetToDefaults, Erased, Nvs, MAX_BOOT_ATTEMPTS
  <2>2. events' \in 0..MaxEvents
    BY <1>20, BoundAssumption DEF ResetToDefaults, Happens
  <2>3. tries' \in 0..MAX_BOOT_ATTEMPTS
    BY <1>20 DEF ResetToDefaults, MAX_BOOT_ATTEMPTS
  <2>4. stored' \in Profiles /\ web' \in Steps
    BY <1>20, ProfileAssumption DEF ResetToDefaults, WebStep, Steps
  <2>5. QED
    BY <1>20, <2>1, <2>2, <2>3, <2>4 DEF ResetToDefaults, WebStep
<1>21. CASE Restart
  <2>1. events' \in 0..MaxEvents
    BY <1>21, BoundAssumption DEF Restart, Happens
  <2>2. web' \in Steps /\ fallback' \in Fallbacks /\ main' = "boot"
    BY <1>21 DEF Restart, Gone, Steps, Fallbacks
  <2>3. {active, stored, pending, p}' \subseteq Profiles
    BY <1>21, ProfileAssumption DEF Restart, Gone
  <2>4. QED
    BY <1>21, <2>1, <2>2, <2>3 DEF Restart, Gone
<1>22. CASE Crash
  BY <1>22, ProfileAssumption DEF Crash, Gone, Steps, Fallbacks
<1>23. CASE \E patch \in Patches : Accept(patch)
  <2>1. PICK patch \in Patches : Accept(patch)
    BY <1>23
  <2>2. p' \in Profiles
    BY <2>1, PatchedTyped DEF Accept
  <2>3. live' \in BOOLEAN
    BY <2>1 DEF Accept, SameWiring
  <2>4. QED
    BY <2>1, <2>2, <2>3 DEF Accept, WebStep, RamKept, Steps
<1>24. CASE \E f \in Fields : PutPart(f)
  <2>1. PICK f \in Fields : PutPart(f)
    BY <1>24
  <2>2. nvs' \in Nvs
    BY <2>1 DEF PutPart, Nvs, Profiles
  <2>3. web' \in Steps
    BY <2>1 DEF PutPart, WebStep, After, Fields, Steps
  <2>4. QED
    BY <2>1, <2>2, <2>3 DEF PutPart, WebStep, RamKept
<1>25. QED
  BY <1>1, <1>2, <1>3, <1>4, <1>5, <1>6, <1>7, <1>8, <1>9, <1>10, <1>11,
     <1>12, <1>13, <1>14, <1>15, <1>16, <1>17, <1>18, <1>19, <1>20, <1>21,
     <1>22, <1>23, <1>24 DEF Next, Begin, Loop, ApplyJson, Store

(* The tasks.                                                               *)
LEMMA TasksStay ==
    TypeOK /\ Tasks /\ Next => Tasks'
<1> SUFFICES ASSUME TypeOK, Tasks, Next PROVE Tasks'
  OBVIOUS
<1> USE DEF Tasks, Up, Handing, profiles, flags, request, history
<1>1. CASE BeginUnconfigured
  BY <1>1 DEF BeginUnconfigured, Started
<1>2. CASE BeginStored
  BY <1>2 DEF BeginStored, Started, Attempt, AttemptsLeft, TypeOK, Nvs
<1>3. CASE BeginDrop
  BY <1>3 DEF BeginDrop, AttemptsLeft, TypeOK, Nvs
<1>4. CASE Dropped
  BY <1>4 DEF Dropped, Started, Nvs
<1>5. CASE TakeChange
  BY <1>5 DEF TakeChange
<1>6. CASE CopyFront
  BY <1>6 DEF CopyFront
<1>7. CASE CopyRest
  BY <1>7 DEF CopyRest, FlagAfterCopy
<1>8. CASE Prove
  BY <1>8 DEF Prove, TypeOK, Nvs
<1>9. CASE Request
  BY <1>9 DEF Request, WebStep, RamKept, Happens
<1>10. CASE Reject
  BY <1>10 DEF Reject, WebStep, RamKept
<1>11. CASE Open
  BY <1>11 DEF Open, WebStep, RamKept
<1>12. CASE OpenRefused
  BY <1>12 DEF OpenRefused, WebStep, RamKept
<1>13. CASE PutVersion
  BY <1>13 DEF PutVersion, WebStep, RamKept, After
<1>14. CASE PutSet
  BY <1>14 DEF PutSet, WebStep, RamKept, After
<1>15. CASE PutBoots
  BY <1>15 DEF PutBoots, WebStep, RamKept, After, BootsStored
<1>16. CASE Remember
  BY <1>16 DEF Remember, WebStep
<1>17. CASE PendFront
  BY <1>17 DEF PendFront, WebStep
<1>18. CASE PendRest
  BY <1>18 DEF PendRest, WebStep
<1>19. CASE Flag
  BY <1>19 DEF Flag, WebStep
<1>20. CASE ResetToDefaults
  BY <1>20 DEF ResetToDefaults, WebStep, Happens
<1>21. CASE Restart
  BY <1>21 DEF Restart, Happens, Gone
<1>22. CASE Crash
  BY <1>22 DEF Crash, Gone
<1>23. CASE \E patch \in Patches : Accept(patch)
  BY <1>23 DEF Accept, WebStep, RamKept
<1>24. CASE \E f \in Fields : PutPart(f)
  BY <1>24 DEF PutPart, WebStep, RamKept, After, Fields
<1>25. QED
  BY <1>1, <1>2, <1>3, <1>4, <1>5, <1>6, <1>7, <1>8, <1>9, <1>10, <1>11,
     <1>12, <1>13, <1>14, <1>15, <1>16, <1>17, <1>18, <1>19, <1>20, <1>21,
     <1>22, <1>23, <1>24 DEF Next, Begin, Loop, ApplyJson, Store

(* The wiring.                                                              *)
LEMMA WiresStay ==
    TypeOK /\ Tasks /\ Wires /\ Next => Wires'
<1> SUFFICES ASSUME TypeOK, Tasks, Wires, Next PROVE Wires'
  OBVIOUS
<1> USE DEF Wires, Tasks, Up, SameWires, profiles, flags, request, history
<1>1. CASE BeginUnconfigured
  BY <1>1 DEF BeginUnconfigured, Started
<1>2. CASE BeginStored
  BY <1>2 DEF BeginStored, Started, Attempt, AttemptsLeft
<1>3. CASE BeginDrop
  BY <1>3 DEF BeginDrop, AttemptsLeft
<1>4. CASE Dropped
  BY <1>4 DEF Dropped, Started
<1>5. CASE TakeChange
  BY <1>5 DEF TakeChange
<1>6. CASE CopyFront
  BY <1>6 DEF CopyFront, Copied, Front, Wiring, Fields
<1>7. CASE CopyRest
  BY <1>7 DEF CopyRest, FlagAfterCopy, Copied, Front, Wiring, Fields
<1>8. CASE Prove
  BY <1>8 DEF Prove
<1>9. CASE Request
  BY <1>9 DEF Request, WebStep, RamKept, Happens, Copied, Front, Wiring,
     Fields
<1>10. CASE Reject
  BY <1>10 DEF Reject, WebStep, RamKept
<1>11. CASE Open
  BY <1>11 DEF Open, WebStep, RamKept
<1>12. CASE OpenRefused
  BY <1>12 DEF OpenRefused, WebStep, RamKept
<1>13. CASE PutVersion
  BY <1>13 DEF PutVersion, WebStep, RamKept, After
<1>14. CASE PutSet
  BY <1>14 DEF PutSet, WebStep, RamKept, After
<1>15. CASE PutBoots
  BY <1>15 DEF PutBoots, WebStep, RamKept, After, BootsStored
<1>16. CASE Remember
  BY <1>16 DEF Remember, WebStep
<1>17. CASE PendFront
  BY <1>17 DEF PendFront, WebStep, Copied, Front, Wiring, Fields, Handing
<1>18. CASE PendRest
  BY <1>18 DEF PendRest, WebStep, Copied, Front, Wiring, Fields, Handing
<1>19. CASE Flag
  BY <1>19 DEF Flag, WebStep, Handing
<1>20. CASE ResetToDefaults
  BY <1>20 DEF ResetToDefaults, WebStep, Happens
<1>21. CASE Restart
  BY <1>21 DEF Restart, Happens, Gone
<1>22. CASE Crash
  BY <1>22 DEF Crash, Gone
<1>23. CASE \E patch \in Patches : Accept(patch)
  BY <1>23 DEF Accept, WebStep, RamKept, SameWiring
<1>24. CASE \E f \in Fields : PutPart(f)
  BY <1>24 DEF PutPart, WebStep, RamKept, After, Fields
<1>25. QED
  BY <1>1, <1>2, <1>3, <1>4, <1>5, <1>6, <1>7, <1>8, <1>9, <1>10, <1>11,
     <1>12, <1>13, <1>14, <1>15, <1>16, <1>17, <1>18, <1>19, <1>20, <1>21,
     <1>22, <1>23, <1>24 DEF Next, Begin, Loop, ApplyJson, Store

(* The counter of boots.                                                    *)
LEMMA TriedStays ==
    TypeOK /\ Tasks /\ Tried /\ Next => Tried'
<1> SUFFICES ASSUME TypeOK, Tasks, Tried, Next PROVE Tried'
  OBVIOUS
<1> USE DEF Tried, Tasks, Up, TypeOK, Nvs, MAX_BOOT_ATTEMPTS, profiles,
        flags, request, history
<1>1. CASE BeginUnconfigured
  BY <1>1 DEF BeginUnconfigured, Started
<1>2. CASE BeginStored
  BY <1>2 DEF BeginStored, Started, Attempt, AttemptsLeft
<1>3. CASE BeginDrop
  BY <1>3 DEF BeginDrop, AttemptsLeft
<1>4. CASE Dropped
  BY <1>4 DEF Dropped, Started
<1>5. CASE TakeChange
  BY <1>5 DEF TakeChange
<1>6. CASE CopyFront
  BY <1>6 DEF CopyFront
<1>7. CASE CopyRest
  BY <1>7 DEF CopyRest, FlagAfterCopy
<1>8. CASE Prove
  BY <1>8 DEF Prove
<1>9. CASE Request
  BY <1>9 DEF Request, WebStep, RamKept, Happens
<1>10. CASE Reject
  BY <1>10 DEF Reject, WebStep, RamKept
<1>11. CASE Open
  BY <1>11 DEF Open, WebStep, RamKept
<1>12. CASE OpenRefused
  BY <1>12 DEF OpenRefused, WebStep, RamKept
<1>13. CASE PutVersion
  BY <1>13 DEF PutVersion, WebStep, RamKept, After
<1>14. CASE PutSet
  BY <1>14 DEF PutSet, WebStep, RamKept, After
<1>15. CASE PutBoots
  BY <1>15 DEF PutBoots, WebStep, RamKept, After, BootsStored
<1>16. CASE Remember
  BY <1>16 DEF Remember, WebStep
<1>17. CASE PendFront
  BY <1>17 DEF PendFront, WebStep
<1>18. CASE PendRest
  BY <1>18 DEF PendRest, WebStep
<1>19. CASE Flag
  BY <1>19 DEF Flag, WebStep
<1>20. CASE ResetToDefaults
  BY <1>20 DEF ResetToDefaults, WebStep, Happens, Erased
<1>21. CASE Restart
  BY <1>21 DEF Restart, Happens, Gone
<1>22. CASE Crash
  BY <1>22 DEF Crash, Gone
<1>23. CASE \E patch \in Patches : Accept(patch)
  BY <1>23 DEF Accept, WebStep, RamKept
<1>24. CASE \E f \in Fields : PutPart(f)
  BY <1>24 DEF PutPart, WebStep, RamKept, After, Fields
<1>25. QED
  BY <1>1, <1>2, <1>3, <1>4, <1>5, <1>6, <1>7, <1>8, <1>9, <1>10, <1>11,
     <1>12, <1>13, <1>14, <1>15, <1>16, <1>17, <1>18, <1>19, <1>20, <1>21,
     <1>22, <1>23, <1>24 DEF Next, Begin, Loop, ApplyJson, Store

(* The two copies.                                                          *)
LEMMA PutEffect ==
    ASSUME TypeOK, NEW f \in Fields, PutPart(f)
    PROVE  /\ web = f /\ web' = After[f]
           /\ nvs'.iover = nvs.iover /\ nvs'.set = nvs.set /\ nvs'.boots = nvs.boots
           /\ \A g \in Fields \ {f} : nvs'.kept[g] = nvs.kept[g]
           /\ nvs'.kept[f] = IF Skipped(f) THEN nvs.kept[f] ELSE p[f]
           /\ UNCHANGED <<p, stored, active, pending, hasStored, applyPending,
                          rebootPending, live, blind, main>>
<1>1. nvs \in Nvs
  BY DEF TypeOK
<1>2. CASE Skipped(f)
  BY <1>1, <1>2 DEF PutPart, WebStep, RamKept, profiles
<1>3. CASE ~Skipped(f)
  <2>1. nvs' = [nvs EXCEPT !.kept = [nvs.kept EXCEPT ![f] = p[f]]]
    BY <1>3 DEF PutPart
  <2>2. nvs'.kept = [nvs.kept EXCEPT ![f] = p[f]] /\ nvs'.iover = nvs.iover
        /\ nvs'.set = nvs.set /\ nvs'.boots = nvs.boots
    BY <1>1, <2>1 DEF Nvs
  <2>3. nvs.kept \in Profiles
    BY <1>1 DEF Nvs
  <2>4. QED
    BY <1>3, <2>2, <2>3 DEF PutPart, WebStep, RamKept, profiles, Profiles
<1>4. QED
  BY <1>2, <1>3

LEMMA LoadedSame ==
    ASSUME nvs'.kept = nvs.kept, nvs'.iover = nvs.iover
    PROVE  Loaded' = Loaded
BY DEF Loaded


LEMMA InStepStays ==
    TypeOK /\ Tasks /\ Written /\ InStep /\ Next => InStep'
<1> SUFFICES ASSUME TypeOK, Tasks, Written, InStep, Next PROVE InStep'
  OBVIOUS
<1> USE DEF InStep, Tasks, Up, Writing, profiles, flags, request, history
<1>1. CASE BeginUnconfigured
  BY <1>1 DEF BeginUnconfigured, Started
<1>2. CASE BeginStored
  BY <1>2 DEF BeginStored, Started, Attempt, AttemptsLeft, TypeOK, Nvs,
     Loaded, Fields, Lists
<1>3. CASE BeginDrop
  BY <1>3 DEF BeginDrop, AttemptsLeft, TypeOK, Nvs, Loaded, Fields, Lists
<1>4. CASE Dropped
  BY <1>4 DEF Dropped, Started, TypeOK, Nvs
<1>5. CASE TakeChange
  BY <1>5 DEF TakeChange
<1>6. CASE CopyFront
  BY <1>6 DEF CopyFront
<1>7. CASE CopyRest
  BY <1>7 DEF CopyRest, FlagAfterCopy
<1>8. CASE Prove
  BY <1>8 DEF Prove, TypeOK, Nvs
<1>9. CASE Request
  BY <1>9 DEF Request, WebStep, RamKept, Happens
<1>10. CASE Reject
  BY <1>10 DEF Reject, WebStep, RamKept
<1>11. CASE Open
  BY <1>11 DEF Open, WebStep, RamKept
<1>12. CASE OpenRefused
  BY <1>12 DEF OpenRefused, WebStep, RamKept
<1>13. CASE PutVersion
  BY <1>13 DEF PutVersion, WebStep, RamKept, After, TypeOK, Nvs
<1>14. CASE PutSet
  BY <1>14 DEF PutSet, WebStep, RamKept, After, TypeOK, Nvs
<1>15. CASE PutBoots
  BY <1>15 DEF PutBoots, WebStep, RamKept, After, BootsStored, TypeOK, Nvs
<1>16. CASE Remember
  BY <1>16 DEF Remember, WebStep, Written
<1>17. CASE PendFront
  BY <1>17 DEF PendFront, WebStep
<1>18. CASE PendRest
  BY <1>18 DEF PendRest, WebStep
<1>19. CASE Flag
  BY <1>19 DEF Flag, WebStep
<1>20. CASE ResetToDefaults
  BY <1>20 DEF ResetToDefaults, WebStep, Happens, Erased
<1>21. CASE Restart
  BY <1>21 DEF Restart, Happens, Gone
<1>22. CASE Crash
  BY <1>22 DEF Crash, Gone
<1>23. CASE \E patch \in Patches : Accept(patch)
  BY <1>23 DEF Accept, WebStep, RamKept
<1>24. CASE \E f \in Fields : PutPart(f)
  <2>1. PICK f \in Fields : PutPart(f)
    BY <1>24
  <2>2. CASE f = "keys"
    BY <2>1, <2>2, PutEffect DEF After, Fields, Blobs, Skipped
  <2>3. CASE f = "btns"
    BY <2>1, <2>3, PutEffect DEF After, Fields, Blobs, Skipped
  <2>4. CASE f = "bact"
    BY <2>1, <2>4, PutEffect DEF After, Fields, Blobs, Skipped
  <2>5. CASE f = "btnc"
    BY <2>1, <2>5, PutEffect DEF After, Fields, Blobs, Skipped
  <2>6. CASE f = "bacc"
    BY <2>1, <2>6, PutEffect DEF After, Fields, Blobs, Skipped
  <2>7. QED
    BY <2>1, <2>2, <2>3, <2>4, <2>5, <2>6 DEF Fields
<1>25. QED
  BY <1>1, <1>2, <1>3, <1>4, <1>5, <1>6, <1>7, <1>8, <1>9, <1>10, <1>11,
     <1>12, <1>13, <1>14, <1>15, <1>16, <1>17, <1>18, <1>19, <1>20, <1>21,
     <1>22, <1>23, <1>24 DEF Next, Begin, Loop, ApplyJson, Store

LEMMA WrittenStays ==
    TypeOK /\ Tasks /\ InStep /\ Written /\ Next => Written'
<1> SUFFICES ASSUME TypeOK, Tasks, InStep, Written, Next PROVE Written'
  OBVIOUS
<1> USE DEF InStep, Written, Tasks, Up, Writing, profiles, flags, request,
        history
<1>1. CASE BeginUnconfigured
  BY <1>1 DEF BeginUnconfigured, Started
<1>2. CASE BeginStored
  BY <1>2 DEF BeginStored, Started, Attempt, AttemptsLeft, TypeOK, Nvs
<1>3. CASE BeginDrop
  BY <1>3 DEF BeginDrop, AttemptsLeft, TypeOK, Nvs
<1>4. CASE Dropped
  BY <1>4 DEF Dropped, Started, TypeOK, Nvs
<1>5. CASE TakeChange
  BY <1>5 DEF TakeChange
<1>6. CASE CopyFront
  BY <1>6 DEF CopyFront
<1>7. CASE CopyRest
  BY <1>7 DEF CopyRest, FlagAfterCopy
<1>8. CASE Prove
  BY <1>8 DEF Prove, TypeOK, Nvs
<1>9. CASE Request
  BY <1>9 DEF Request, WebStep, RamKept, Happens
<1>10. CASE Reject
  BY <1>10 DEF Reject, WebStep, RamKept
<1>11. CASE Open
  BY <1>11 DEF Open, WebStep, RamKept
<1>12. CASE OpenRefused
  BY <1>12 DEF OpenRefused, WebStep, RamKept
<1>13. CASE PutVersion
  BY <1>13 DEF PutVersion, WebStep, RamKept, After, TypeOK, Nvs
<1>14. CASE PutSet
  BY <1>14 DEF PutSet, WebStep, RamKept, After, TypeOK, Nvs
<1>15. CASE PutBoots
  BY <1>15 DEF PutBoots, WebStep, RamKept, After, BootsStored, TypeOK, Nvs
<1>16. CASE Remember
  BY <1>16 DEF Remember, WebStep
<1>17. CASE PendFront
  BY <1>17 DEF PendFront, WebStep
<1>18. CASE PendRest
  BY <1>18 DEF PendRest, WebStep
<1>19. CASE Flag
  BY <1>19 DEF Flag, WebStep
<1>20. CASE ResetToDefaults
  BY <1>20 DEF ResetToDefaults, WebStep, Happens, Erased
<1>21. CASE Restart
  BY <1>21 DEF Restart, Happens, Gone
<1>22. CASE Crash
  BY <1>22 DEF Crash, Gone
<1>23. CASE \E patch \in Patches : Accept(patch)
  BY <1>23 DEF Accept, WebStep, RamKept
<1>24. CASE \E f \in Fields : PutPart(f)
  <2>1. PICK f \in Fields : PutPart(f)
    BY <1>24
  <2>2. CASE f = "keys"
    BY <2>1, <2>2, PutEffect DEF After, Fields, Blobs, Skipped
  <2>3. CASE f = "btns"
    BY <2>1, <2>3, PutEffect DEF After, Fields, Blobs, Skipped
  <2>4. CASE f = "bact"
    BY <2>1, <2>4, PutEffect DEF After, Fields, Blobs, Skipped
  <2>5. CASE f = "btnc"
    BY <2>1, <2>5, PutEffect DEF After, Fields, Blobs, Skipped
  <2>6. CASE f = "bacc"
    BY <2>1, <2>6, PutEffect DEF After, Fields, Blobs, Skipped
  <2>7. QED
    BY <2>1, <2>2, <2>3, <2>4, <2>5, <2>6 DEF Fields
<1>25. QED
  BY <1>1, <1>2, <1>3, <1>4, <1>5, <1>6, <1>7, <1>8, <1>9, <1>10, <1>11,
     <1>12, <1>13, <1>14, <1>15, <1>16, <1>17, <1>18, <1>19, <1>20, <1>21,
     <1>22, <1>23, <1>24 DEF Next, Begin, Loop, ApplyJson, Store

LEMMA AgreedStays ==
    TypeOK /\ Tasks /\ Written /\ Agreed /\ Next => Agreed'
<1> SUFFICES ASSUME TypeOK, Tasks, Written, Agreed, Next PROVE Agreed'
  OBVIOUS
<1> USE DEF Agreed, Tasks, Up, Writing, profiles, flags, request, history
<1>1. CASE BeginUnconfigured
  BY <1>1, LoadedSame DEF BeginUnconfigured, Started
<1>2. CASE BeginStored
  BY <1>2, LoadedSame DEF BeginStored, Started, Attempt, AttemptsLeft,
     TypeOK, Nvs
<1>3. CASE BeginDrop
  BY <1>3, LoadedSame DEF BeginDrop, AttemptsLeft, TypeOK, Nvs
<1>4. CASE Dropped
  BY <1>4, LoadedSame DEF Dropped, Started, TypeOK, Nvs
<1>5. CASE TakeChange
  BY <1>5, LoadedSame DEF TakeChange
<1>6. CASE CopyFront
  BY <1>6, LoadedSame DEF CopyFront
<1>7. CASE CopyRest
  BY <1>7, LoadedSame DEF CopyRest, FlagAfterCopy
<1>8. CASE Prove
  BY <1>8, LoadedSame DEF Prove, TypeOK, Nvs
<1>9. CASE Request
  BY <1>9, LoadedSame DEF Request, WebStep, RamKept, Happens
<1>10. CASE Reject
  BY <1>10, LoadedSame DEF Reject, WebStep, RamKept
<1>11. CASE Open
  BY <1>11, LoadedSame DEF Open, WebStep, RamKept, Writing
<1>12. CASE OpenRefused
  BY <1>12, LoadedSame DEF OpenRefused, WebStep, RamKept
<1>13. CASE PutVersion
  BY <1>13, LoadedSame DEF PutVersion, WebStep, RamKept, After, TypeOK, Nvs
<1>14. CASE PutSet
  BY <1>14, LoadedSame DEF PutSet, WebStep, RamKept, After, TypeOK, Nvs
<1>15. CASE PutBoots
  BY <1>15, LoadedSame DEF PutBoots, WebStep, RamKept, After, BootsStored,
     TypeOK, Nvs
<1>16. CASE Remember
  <2>1. CASE blind # {}
    BY <1>16, <2>1 DEF Remember, WebStep
  <2>2. CASE blind = {}
    <3>1. web = "ram" /\ nvs.iover /\ nvs.set
      BY <1>16, <2>2 DEF Remember, WebStep, Written
    <3>2. \A f \in Fields : nvs.kept[f] = p[f]
      BY <2>2, <3>1 DEF Written, Writing, Fields
    <3>3. p \in Profiles
      BY DEF TypeOK
    <3>4. p = [f \in Fields |-> p[f]]
      BY <3>3 DEF Profiles
    <3>5. Loaded = p
      BY <3>1, <3>2, <3>4 DEF Loaded
    <3>6. Loaded' = Loaded
      BY <1>16, LoadedSame DEF Remember
    <3>7. QED
      BY <1>16, <3>1, <3>5, <3>6 DEF Remember
  <2>3. QED
    BY <2>1, <2>2
<1>17. CASE PendFront
  BY <1>17, LoadedSame DEF PendFront, WebStep
<1>18. CASE PendRest
  BY <1>18, LoadedSame DEF PendRest, WebStep
<1>19. CASE Flag
  BY <1>19, LoadedSame DEF Flag, WebStep
<1>20. CASE ResetToDefaults
  BY <1>20, LoadedSame DEF ResetToDefaults, WebStep, Happens, Erased
<1>21. CASE Restart
  BY <1>21, LoadedSame DEF Restart, Happens, Gone
<1>22. CASE Crash
  BY <1>22, LoadedSame DEF Crash, Gone
<1>23. CASE \E patch \in Patches : Accept(patch)
  BY <1>23, LoadedSame DEF Accept, WebStep, RamKept
<1>24. CASE \E f \in Fields : PutPart(f)
  <2>1. PICK f \in Fields : PutPart(f)
    BY <1>24
  <2>2. web' \in Writing
    BY <2>1 DEF PutPart, WebStep, After, Fields, Writing
  <2>3. QED
    BY <2>2
<1>25. QED
  BY <1>1, <1>2, <1>3, <1>4, <1>5, <1>6, <1>7, <1>8, <1>9, <1>10, <1>11,
     <1>12, <1>13, <1>14, <1>15, <1>16, <1>17, <1>18, <1>19, <1>20, <1>21,
     <1>22, <1>23, <1>24 DEF Next, Begin, Loop, ApplyJson, Store

(* The request.                                                             *)
LEMMA HandedStays ==
    TypeOK /\ Tasks /\ Handed /\ Next => Handed'
<1> SUFFICES ASSUME TypeOK, Tasks, Handed, Next PROVE Handed'
  OBVIOUS
<1> USE DEF Handed, Tasks, Up, Writing, Handing, profiles, flags, request,
        history
<1>1. CASE BeginUnconfigured
  BY <1>1 DEF BeginUnconfigured, Started
<1>2. CASE BeginStored
  BY <1>2 DEF BeginStored, Started, Attempt, AttemptsLeft
<1>3. CASE BeginDrop
  BY <1>3 DEF BeginDrop, AttemptsLeft
<1>4. CASE Dropped
  BY <1>4 DEF Dropped, Started
<1>5. CASE TakeChange
  BY <1>5 DEF TakeChange
<1>6. CASE CopyFront
  BY <1>6 DEF CopyFront
<1>7. CASE CopyRest
  BY <1>7 DEF CopyRest, FlagAfterCopy
<1>8. CASE Prove
  BY <1>8 DEF Prove
<1>9. CASE Request
  BY <1>9 DEF Request, WebStep, RamKept, Happens
<1>10. CASE Reject
  BY <1>10 DEF Reject, WebStep, RamKept
<1>11. CASE Open
  BY <1>11 DEF Open, WebStep, RamKept
<1>12. CASE OpenRefused
  BY <1>12 DEF OpenRefused, WebStep, RamKept
<1>13. CASE PutVersion
  BY <1>13 DEF PutVersion, WebStep, RamKept, After
<1>14. CASE PutSet
  BY <1>14 DEF PutSet, WebStep, RamKept, After
<1>15. CASE PutBoots
  BY <1>15 DEF PutBoots, WebStep, RamKept, After, BootsStored
<1>16. CASE Remember
  BY <1>16 DEF Remember, WebStep
<1>17. CASE PendFront
  BY <1>17 DEF PendFront, WebStep, Copied, Front
<1>18. CASE PendRest
  BY <1>18 DEF PendRest, WebStep, Copied, Front, TypeOK, Profiles
<1>19. CASE Flag
  BY <1>19 DEF Flag, WebStep
<1>20. CASE ResetToDefaults
  BY <1>20 DEF ResetToDefaults, WebStep, Happens
<1>21. CASE Restart
  BY <1>21 DEF Restart, Happens, Gone
<1>22. CASE Crash
  BY <1>22 DEF Crash, Gone
<1>23. CASE \E patch \in Patches : Accept(patch)
  BY <1>23 DEF Accept, WebStep, RamKept
<1>24. CASE \E f \in Fields : PutPart(f)
  BY <1>24 DEF PutPart, WebStep, RamKept, After, Fields
<1>25. QED
  BY <1>1, <1>2, <1>3, <1>4, <1>5, <1>6, <1>7, <1>8, <1>9, <1>10, <1>11,
     <1>12, <1>13, <1>14, <1>15, <1>16, <1>17, <1>18, <1>19, <1>20, <1>21,
     <1>22, <1>23, <1>24 DEF Next, Begin, Loop, ApplyJson, Store

(* What a restart would give.                                               *)
LEMMA NextStartSame ==
    ASSUME nvs'.kept = nvs.kept, nvs'.iover = nvs.iover, nvs'.set = nvs.set
    PROVE  NextStart' = NextStart
BY LoadedSame DEF NextStart

LEMMA CopiedWhole ==
    ASSUME NEW to \in Profiles, NEW from \in Profiles
    PROVE  Copied(Copied(to, from, Front), from, Fields \ Front) = from
BY DEF Copied, Profiles, Front, Fields


LEMMA TargetStays ==
    TypeOK /\ Tasks /\ Agreed /\ Handed /\ Target /\ Next => Target'
<1> SUFFICES ASSUME TypeOK, Tasks, Agreed, Handed, Target, Next PROVE Target'
  OBVIOUS
<1> USE DEF Target, Tasks, Up, Writing, Handing, profiles, flags, request,
        history
<1>1. CASE BeginUnconfigured
  <2>1. NextStart' = Defaults
    BY <1>1 DEF BeginUnconfigured, NextStart
  <2>2. ToBe' = Defaults
    BY <1>1 DEF BeginUnconfigured, Started, ToBe
  <2>3. QED
    BY <2>1, <2>2
<1>2. CASE BeginStored
  <2>1. Loaded' = Loaded /\ nvs'.set
    BY <1>2, LoadedSame DEF BeginStored, TypeOK, Nvs
  <2>2. NextStart' = IF Loaded \in Valid THEN Loaded ELSE Defaults
    BY <2>1 DEF NextStart
  <2>3. ToBe' = IF Loaded \in Valid THEN Loaded ELSE Defaults
    BY <1>2 DEF BeginStored, Started, ToBe
  <2>4. QED
    BY <2>2, <2>3
<1>3. CASE BeginDrop
  BY <1>3 DEF BeginDrop, AttemptsLeft
<1>4. CASE Dropped
  <2>1. NextStart' = Defaults
    BY <1>4 DEF Dropped, NextStart, TypeOK, Nvs
  <2>2. ToBe' = Defaults
    BY <1>4 DEF Dropped, Started, ToBe
  <2>3. QED
    BY <2>1, <2>2
<1>5. CASE TakeChange
  <2>1. ToBe' = ToBe
    BY <1>5 DEF TakeChange, ToBe
  <2>2. QED
    BY <1>5, <2>1, NextStartSame DEF TakeChange
<1>6. CASE CopyFront
  <2>1. ToBe' = ToBe
    BY <1>6, CopiedWhole DEF CopyFront, ToBe, TypeOK
  <2>2. QED
    BY <1>6, <2>1, NextStartSame DEF CopyFront
<1>7. CASE CopyRest
  <2>1. ToBe' = ToBe
    BY <1>7 DEF CopyRest, FlagAfterCopy, ToBe
  <2>2. QED
    BY <1>7, <2>1, NextStartSame DEF CopyRest
<1>8. CASE Prove
  <2>1. NextStart' = NextStart
    BY <1>8, NextStartSame DEF Prove, TypeOK, Nvs
  <2>2. ToBe' = ToBe
    BY <1>8 DEF Prove, ToBe
  <2>3. QED
    BY <1>8, <2>1, <2>2 DEF Prove
<1>9. CASE Request
  <2>1. ToBe' = ToBe
    BY <1>9 DEF Request, WebStep, RamKept, ToBe
  <2>2. QED
    BY <1>9, <2>1, NextStartSame DEF Request, WebStep, RamKept
<1>10. CASE Reject
  <2>1. ToBe' = ToBe
    BY <1>10 DEF Reject, WebStep, RamKept, ToBe
  <2>2. QED
    BY <1>10, <2>1, NextStartSame DEF Reject, WebStep, RamKept
<1>11. CASE Open
  BY <1>11 DEF Open, WebStep, RamKept
<1>12. CASE OpenRefused
  BY <1>12 DEF OpenRefused, WebStep, RamKept
<1>13. CASE PutVersion
  BY <1>13 DEF PutVersion, WebStep, RamKept, After
<1>14. CASE PutSet
  BY <1>14 DEF PutSet, WebStep, RamKept, After
<1>15. CASE PutBoots
  BY <1>15 DEF PutBoots, WebStep, RamKept, After, BootsStored
<1>16. CASE Remember
  BY <1>16 DEF Remember, WebStep
<1>17. CASE PendFront
  BY <1>17 DEF PendFront, WebStep
<1>18. CASE PendRest
  BY <1>18 DEF PendRest, WebStep
<1>19. CASE Flag
  <2>1. CASE blind # {}
    BY <1>19, <2>1 DEF Flag
  <2>2. CASE blind = {}
    <3>1. Up /\ hasStored /\ p = stored /\ pending = p /\ p \in Valid
      BY <1>19 DEF Flag, WebStep, Handed
    <3>2. NextStart = p
      BY <1>19, <2>2, <3>1 DEF Flag, WebStep, Agreed, NextStart
    <3>3. ToBe' = p
      BY <1>19, <3>1 DEF Flag, WebStep, ToBe
    <3>4. QED
      BY <1>19, <3>2, <3>3, NextStartSame DEF Flag
  <2>3. QED
    BY <2>1, <2>2
<1>20. CASE ResetToDefaults
  BY <1>20 DEF ResetToDefaults, WebStep, Happens
<1>21. CASE Restart
  BY <1>21 DEF Restart, Happens, Gone
<1>22. CASE Crash
  BY <1>22 DEF Crash, Gone
<1>23. CASE \E patch \in Patches : Accept(patch)
  <2>1. PICK patch \in Patches : Accept(patch)
    BY <1>23
  <2>2. ToBe' = ToBe
    BY <2>1 DEF Accept, WebStep, RamKept, ToBe
  <2>3. QED
    BY <2>1, <2>2, NextStartSame DEF Accept, WebStep, RamKept
<1>24. CASE \E f \in Fields : PutPart(f)
  BY <1>24 DEF PutPart, WebStep, RamKept, After, Fields
<1>25. QED
  BY <1>1, <1>2, <1>3, <1>4, <1>5, <1>6, <1>7, <1>8, <1>9, <1>10, <1>11,
     <1>12, <1>13, <1>14, <1>15, <1>16, <1>17, <1>18, <1>19, <1>20, <1>21,
     <1>22, <1>23, <1>24 DEF Next, Begin, Loop, ApplyJson, Store

(* The inductive invariant.                                                 *)
IInv ==
    /\ TypeOK /\ Tasks /\ Wires /\ InStep /\ Written /\ Agreed /\ Handed /\ Target
    /\ Tried

LEMMA InitInv == Init => IInv
<1> SUFFICES ASSUME Init PROVE IInv
  OBVIOUS
<1>1. nvs \in Nvs /\ tries = 0 /\ nvs.boots = 0
  <2>1. Erased \in Nvs /\ Updated \in Nvs
    BY ProfileAssumption DEF Nvs, Erased, Updated, MAX_BOOT_ATTEMPTS
  <2>2. Erased.boots = 0 /\ Updated.boots = 0
    BY DEF Erased, Updated
  <2>3. QED
    BY <2>1, <2>2 DEF Init
<1>2. TypeOK
  <2>1. {active, stored, pending, p} \subseteq Profiles
    BY ProfileAssumption DEF Init
  <2>2. events \in 0..MaxEvents /\ tries \in 0..MAX_BOOT_ATTEMPTS
    BY <1>1, BoundAssumption DEF Init, MAX_BOOT_ATTEMPTS
  <2>3. QED
    BY <1>1, <2>1, <2>2 DEF Init, TypeOK, Fallbacks, Steps
<1>3. Tasks /\ Wires /\ Handed
  BY DEF Init, Tasks, Wires, Handed, Up, Writing, Handing
<1>4. InStep /\ Written /\ Agreed /\ Target
  BY DEF Init, InStep, Written, Agreed, Target, Up, Writing
<1>5. Tried
  BY <1>1 DEF Init, Tried
<1>6. QED
  BY <1>2, <1>3, <1>4, <1>5 DEF IInv

LEMMA NextInv == IInv /\ [Next]_vars => IInv'
<1> SUFFICES ASSUME IInv, [Next]_vars PROVE IInv'
  OBVIOUS
<1>1. CASE Next
  BY <1>1, TypeStays, TasksStay, WiresStay, InStepStays, WrittenStays, AgreedStays,
     HandedStays, TargetStays, TriedStays DEF IInv
<1>2. CASE UNCHANGED vars
  <2> USE <1>2 DEF vars, profiles, flags, request, history
  <2>1. (TypeOK /\ Tasks /\ Wires /\ Tried)' = (TypeOK /\ Tasks /\ Wires /\ Tried)
    BY DEF TypeOK, Tasks, Wires, Tried, Up, SameWires
  <2>2. Loaded' = Loaded /\ NextStart' = NextStart /\ ToBe' = ToBe
    BY LoadedSame, NextStartSame DEF ToBe
  <2>3. (InStep /\ Written /\ Handed)' = (InStep /\ Written /\ Handed)
    BY DEF InStep, Written, Handed
  <2>4. (Agreed /\ Target)' = (Agreed /\ Target)
    BY <2>2 DEF Agreed, Target, Up
  <2>5. QED
    BY <2>1, <2>3, <2>4 DEF IInv
<1>3. QED
  BY <1>1, <1>2

THEOREM Invariant == Spec => []IInv
<1>1. QED
  BY InitInv, NextInv, PTL DEF Spec

(* Types, and the range of the counter of boots.                            *)
THEOREM TypeCorrect == Spec => []TypeOK
<1>1. IInv => TypeOK
  BY DEF IInv
<1>2. QED
  BY <1>1, Invariant, PTL

(* Although store() writes only the blobs that differ from its copy in RAM, *)
(* that copy stays what a start would load.                                 *)
THEOREM CopyIsKept == Spec => []ReadsBack
<1>1. IInv => ReadsBack
  BY DEF IInv, Agreed, ReadsBack, Writing
<1>2. QED
  BY <1>1, Invariant, PTL

(* A device that asks for no reboot runs on what one would give it.         *)
THEOREM NothingOwed == Spec => []NoRebootOwed
<1>1. IInv => NoRebootOwed
  BY DEF IInv, Target, NoRebootOwed, Writing, Up, ToBe
<1>2. QED
  BY <1>1, Invariant, PTL

(* A live change never moves a pin.                                         *)
THEOREM PinsStay == Spec => WiringFixed
<1> DEFINE Fixed == Up /\ Up' => \A f \in Wiring : active'[f] = active[f]
<1>1. IInv /\ [Next]_vars => [Fixed]_vars
  <2> SUFFICES ASSUME IInv, Next PROVE Fixed
    OBVIOUS
  <2>1. CASE CopyFront
    BY <2>1 DEF CopyFront, Copied, IInv, Wires, SameWires, Wiring, Fields
  <2>2. CASE CopyRest
    BY <2>2 DEF CopyRest, Copied, Front, Wiring, Fields
  <2>3. CASE Begin \/ Restart \/ Crash
    BY <2>3 DEF Begin, BeginUnconfigured, BeginStored, BeginDrop, Dropped, Restart,
                Crash, Gone, Up
  <2>4. CASE TakeChange \/ Prove \/ Request \/ ResetToDefaults
    BY <2>4 DEF TakeChange, Prove, Request, ResetToDefaults, RamKept, profiles
  <2>5. CASE ApplyJson
    BY <2>5 DEF ApplyJson, Store, Reject, Open, OpenRefused, PutVersion, PutSet,
                PutBoots, Remember, PutPart, PendFront, PendRest, Flag, Accept,
                RamKept, profiles
  <2>6. QED
    BY <2>1, <2>2, <2>3, <2>4, <2>5 DEF Next, Loop
<1>2. QED
  BY <1>1, Invariant, PTL DEF Spec, WiringFixed

(* The mark is the last of a first profile to be written.                   *)
THEOREM MarkIsLast == Spec => SetMarksWhole
<1> DEFINE Last == ~nvs.set /\ nvs'.set => Loaded' = p \/ blind # {}
<1>1. IInv /\ [Next]_vars => [Last]_vars
  <2> SUFFICES ASSUME IInv, Next, ~nvs.set, nvs'.set, blind = {} PROVE Loaded' = p
    OBVIOUS
  <2>1. CASE PutSet
    <3>1. nvs'.kept = nvs.kept /\ nvs'.iover = nvs.iover
      BY <2>1 DEF PutSet, IInv, TypeOK, Nvs
    <3>2. nvs.iover /\ \A f \in Fields : nvs.kept[f] = p[f]
      BY <2>1 DEF PutSet, WebStep, IInv, Written, Writing, Fields
    <3>3. p = [f \in Fields |-> p[f]]
      BY DEF IInv, TypeOK, Profiles
    <3>4. Loaded = p
      BY <3>2, <3>3 DEF Loaded
    <3>5. QED
      BY <3>1, <3>4, LoadedSame
  <2>2. CASE \E f \in Fields : PutPart(f)
    BY <2>2, PutEffect DEF IInv
  <2>3. CASE Begin \/ Loop \/ Request \/ Reject \/ ResetToDefaults \/ Restart \/ Crash
    BY <2>3 DEF Begin, BeginUnconfigured, BeginStored, BeginDrop, Dropped, Restart,
                Crash, Gone, Loop, TakeChange, CopyFront, CopyRest, Prove, Request,
                Reject, ResetToDefaults, Erased, IInv, TypeOK, Nvs
  <2>4. CASE \/ Open \/ OpenRefused \/ PutVersion \/ PutBoots \/ Remember
             \/ PendFront \/ PendRest \/ Flag \/ \E patch \in Patches : Accept(patch)
    BY <2>4 DEF Open, OpenRefused, PutVersion, PutBoots, Remember, PendFront, PendRest,
                Flag, Accept, IInv, TypeOK, Nvs
  <2>5. QED
    BY <2>1, <2>2, <2>3, <2>4 DEF Next, ApplyJson, Store
<1>2. QED
  BY <1>1, Invariant, PTL DEF Spec, SetMarksWhole

(* No profile is dropped for the boots of another one.                      *)
THEOREM DropIsEarned == Spec => DropEarned
<1> DEFINE Earned ==
        main = "boot" /\ nvs.set /\ ~nvs'.set /\ whole => tries >= MAX_BOOT_ATTEMPTS
<1>1. IInv /\ [Next]_vars => [Earned]_vars
  <2> SUFFICES ASSUME IInv, Next, main = "boot", nvs.set, ~nvs'.set, whole
               PROVE  tries >= MAX_BOOT_ATTEMPTS
    OBVIOUS
  <2>1. web = "idle"
    BY DEF IInv, Tasks, Up
  <2>2. BeginDrop
    <3>1. ~Loop /\ ~Request /\ ~ResetToDefaults /\ ~Crash
      BY DEF Loop, TakeChange, CopyFront, CopyRest, Prove, Request, ResetToDefaults,
             Crash, Up
    <3>2. ~ApplyJson
      BY <2>1 DEF ApplyJson, Store, Reject, Open, OpenRefused, PutVersion, PutSet,
                  PutBoots, Remember, PutPart, PendFront, PendRest, Flag, Accept,
                  WebStep, Fields
    <3>3. ~BeginUnconfigured /\ ~Dropped /\ ~Restart
      BY DEF BeginUnconfigured, Dropped, Restart, Gone
    <3>4. ~BeginStored
      BY DEF BeginStored, IInv, TypeOK, Nvs
    <3>5. QED
      BY <3>1, <3>2, <3>3, <3>4 DEF Next, Begin
  <2>3. nvs.boots >= MAX_BOOT_ATTEMPTS /\ nvs.boots <= tries
    BY <2>2 DEF BeginDrop, AttemptsLeft, IInv, Tried, TypeOK, Nvs, MAX_BOOT_ATTEMPTS
  <2>4. QED
    BY <2>3 DEF IInv, TypeOK, Nvs, MAX_BOOT_ATTEMPTS
<1>2. QED
  BY <1>1, Invariant, PTL DEF Spec, DropEarned

----------------------------------------------------------------------------
(* The guard HwConfig is to a start, and to the network around it.          *)
(* What the guard sees of a change of NVS.                                  *)
LEMMA NvsSeen ==
    ASSUME nvs \in Nvs
    PROVE  /\ \A value \in BOOLEAN : nvs' = [nvs EXCEPT !.set = value] =>
                  nvs'.set = value /\ nvs'.boots = nvs.boots
           /\ \A n : nvs' = [nvs EXCEPT !.boots = n] =>
                  nvs'.boots = n /\ nvs'.set = nvs.set
           /\ \A parts : nvs' = [nvs EXCEPT !.kept = parts] =>
                  nvs'.boots = nvs.boots /\ nvs'.set = nvs.set
           /\ \A value : nvs' = [nvs EXCEPT !.iover = value] =>
                  nvs'.boots = nvs.boots /\ nvs'.set = nvs.set
BY DEF Nvs

(* A start is a start of the guard.                                         *)
LEMMA BeginGuarded ==
    ASSUME IInv, Begin
    PROVE  Guard!Start
<1> USE DEF Guard!Start, Stage, Up
<1>1. nvs \in Nvs /\ nvs.boots \in 0..MAX_BOOT_ATTEMPTS
  BY DEF IInv, TypeOK, Nvs
<1>2. CASE BeginUnconfigured
  BY <1>2 DEF BeginUnconfigured, Started, Guard!StartPlain
<1>3. CASE BeginStored
  <2>1. nvs'.boots = nvs.boots + 1 /\ nvs'.set = nvs.set
    BY <1>1, <1>3, NvsSeen DEF BeginStored, Attempt
  <2>2. main' = "run" /\ counterCleared' = counterCleared
    BY <1>3 DEF BeginStored, Started
  <2>3. Guard!StartStored
    BY <1>3, <2>1, <2>2 DEF BeginStored, AttemptsLeft, MAX_BOOT_ATTEMPTS,
       Guard!StartStored, Guard!MAX_BOOT_ATTEMPTS
  <2>4. QED
    BY <2>3
<1>4. CASE BeginDrop
  <2>1. nvs'.boots = nvs.boots /\ nvs'.set = FALSE
    BY <1>1, <1>4, NvsSeen DEF BeginDrop
  <2>2. nvs.boots >= Guard!MAX_BOOT_ATTEMPTS
    BY <1>1, <1>4 DEF BeginDrop, AttemptsLeft, MAX_BOOT_ATTEMPTS, Guard!MAX_BOOT_ATTEMPTS
  <2>3. Guard!Drop
    BY <1>4, <2>1, <2>2 DEF BeginDrop, Guard!Drop
  <2>4. QED
    BY <2>3
<1>5. CASE Dropped
  <2>1. nvs'.boots = 0 /\ nvs'.set = nvs.set
    BY <1>1, <1>5, NvsSeen DEF Dropped
  <2>2. Guard!Dropped
    BY <1>5, <2>1 DEF Dropped, Started, Guard!Dropped
  <2>3. QED
    BY <2>2
<1>6. QED
  BY <1>2, <1>3, <1>4, <1>5 DEF Begin

(* What leaves the guard alone.                                             *)
LEMMA LeavesGuard ==
    ASSUME Up, Up', nvs'.set = nvs.set, nvs'.boots = nvs.boots,
           hasStored' = hasStored, counterCleared' = counterCleared
    PROVE  UNCHANGED Guard!guardVars
BY DEF Guard!guardVars, Stage

(* store(), and a reset.                                                    *)
LEMMA StoreGuarded ==
    ASSUME IInv, ApplyJson \/ Request \/ ResetToDefaults
    PROVE  [Guard!Store]_(Guard!guardVars)
<1> USE DEF Guard!Store
<1>1. nvs \in Nvs
  BY DEF IInv, TypeOK
<1>2. Up /\ main' = main /\ counterCleared' = counterCleared
  <2>1. ApplyJson => web # "idle"
    BY DEF ApplyJson, Store, Reject, Open, OpenRefused, PutVersion, PutSet, PutBoots,
           Remember, PutPart, PendFront, PendRest, Flag, Accept, WebStep, Fields
  <2>2. QED
    BY <2>1 DEF IInv, Tasks, ApplyJson, Store, Reject, Open, OpenRefused, PutVersion,
                PutSet, PutBoots, Remember, PutPart, PendFront, PendRest, Flag, Accept,
                WebStep, Request, ResetToDefaults
<1>3. Up' /\ Stage = "up" /\ Stage' = "up"
  BY <1>2 DEF Up, Stage
<1>4. CASE PutSet
  <2>1. nvs'.set = TRUE /\ nvs'.boots = nvs.boots /\ hasStored' = hasStored
    BY <1>1, <1>4, NvsSeen DEF PutSet, RamKept
  <2>2. Guard!Mark
    BY <1>2, <1>3, <2>1 DEF Guard!Mark
  <2>3. QED
    BY <2>2
<1>5. CASE PutBoots
  <2>1. nvs'.boots = 0 /\ nvs'.set = nvs.set /\ hasStored' = hasStored
    BY <1>1, <1>5, NvsSeen DEF PutBoots, BootsStored, RamKept
  <2>2. Guard!Settle
    BY <1>2, <1>3, <2>1 DEF Guard!Settle
  <2>3. QED
    BY <2>2
<1>6. CASE Remember
  <2>1. Guard!Hold
    BY <1>2, <1>3, <1>6 DEF Remember, Guard!Hold
  <2>2. QED
    BY <2>1
<1>7. CASE ResetToDefaults
  <2>1. nvs'.set = FALSE /\ nvs'.boots = 0 /\ hasStored' = FALSE
    BY <1>7 DEF ResetToDefaults, Erased
  <2>2. Guard!Forget
    BY <1>2, <1>3, <2>1 DEF Guard!Forget
  <2>3. QED
    BY <2>2
<1>8. CASE \E f \in Fields : PutPart(f)
  <2>1. nvs'.boots = nvs.boots /\ nvs'.set = nvs.set /\ hasStored' = hasStored
    BY <1>1, <1>8, NvsSeen DEF PutPart, RamKept
  <2>2. QED
    BY <1>2, <1>3, <2>1, LeavesGuard
<1>9. CASE PutVersion
  <2>1. nvs'.boots = nvs.boots /\ nvs'.set = nvs.set /\ hasStored' = hasStored
    BY <1>1, <1>9, NvsSeen DEF PutVersion, RamKept
  <2>2. QED
    BY <1>2, <1>3, <2>1, LeavesGuard
<1>10. CASE \/ Request \/ Reject \/ Open \/ OpenRefused \/ PendFront \/ PendRest \/ Flag
            \/ \E patch \in Patches : Accept(patch)
  <2>1. nvs' = nvs /\ hasStored' = hasStored
    BY <1>10 DEF Request, Reject, Open, OpenRefused, PendFront, PendRest, Flag, Accept,
                 RamKept
  <2>2. QED
    BY <1>2, <1>3, <2>1, LeavesGuard
<1>11. QED
  BY <1>4, <1>5, <1>6, <1>7, <1>8, <1>9, <1>10 DEF ApplyJson, Store

(* loop(): the handover is nothing to the guard.                            *)
LEMMA LoopGuarded ==
    ASSUME IInv, Loop
    PROVE  [Guard!Noted \/ Guard!Unnoted]_(Guard!guardVars)
<1>1. nvs \in Nvs
  BY DEF IInv, TypeOK
<1>2. CASE TakeChange \/ CopyFront \/ CopyRest
  <2>1. Up /\ Up' /\ nvs' = nvs /\ hasStored' = hasStored /\ counterCleared' = counterCleared
    BY <1>2 DEF TakeChange, CopyFront, CopyRest, Up, flags
  <2>2. QED
    BY <2>1, LeavesGuard
<1>3. CASE Prove
  <2>1. /\ Stage = "up" /\ Stage' = "up" /\ ~counterCleared /\ counterCleared'
        /\ hasStored' = hasStored
    BY <1>3 DEF Prove, Stage, Up
  <2>2. CASE hasStored /\ nvs' = [nvs EXCEPT !.boots = 0]
    <3>1. nvs'.boots = 0 /\ nvs'.set = nvs.set
      BY <1>1, <2>2, NvsSeen
    <3>2. counterCleared' = TRUE
      BY <1>3 DEF Prove
    <3>3. Guard!Noted
      BY <2>1, <2>2, <3>1, <3>2 DEF Guard!Noted
    <3>4. QED
      BY <3>3
  <2>3. CASE nvs' = nvs
    <3>1. counterCleared' = TRUE
      BY <1>3 DEF Prove
    <3>2. Guard!Unnoted
      BY <2>1, <2>3, <3>1 DEF Guard!Unnoted
    <3>3. QED
      BY <3>2
  <2>4. QED
    BY <1>3, <2>2, <2>3 DEF Prove
<1>4. QED
  BY <1>2, <1>3 DEF Loop

(* To whatever starts the device again, the profile is a crash-loop guard:  *)
(* begin(), loop(), store() and the resets, step by step, are steps of      *)
(* CrashGuard, whatever the profiles and documents (hw_config.cpp:939-976,  *)
(* 1010-1030).                                                              *)
THEOREM GuardIsKept == Spec => GuardKept
<1>1. Init => Guard!GuardInit
  <2>1. Erased.set \in BOOLEAN /\ Updated.set \in BOOLEAN /\ Erased.boots = 0 /\ Updated.boots = 0
    BY DEF Erased, Updated
  <2>2. QED
    BY <2>1 DEF Init, Guard!GuardInit, Stage, Up
<1>2. IInv /\ [Next]_vars => [Guard!GuardNext]_(Guard!guardVars)
  <2> SUFFICES ASSUME IInv, [Next]_vars
               PROVE  [Guard!GuardNext]_(Guard!guardVars)
    OBVIOUS
  <2>1. CASE Begin
    BY <2>1, BeginGuarded DEF Guard!GuardNext
  <2>2. CASE Loop
    BY <2>2, LoopGuarded DEF Guard!GuardNext
  <2>3. CASE Request \/ ApplyJson \/ ResetToDefaults
    BY <2>3, StoreGuarded DEF Guard!GuardNext
  <2>4. CASE Restart \/ Crash
    <3>1. Guard!End
      BY <2>4 DEF Restart, Crash, Gone, Guard!End, Guard!Over, Stage, Up
    <3>2. QED
      BY <3>1 DEF Guard!GuardNext
  <2>5. CASE UNCHANGED vars
    BY <2>5 DEF vars, flags, Guard!guardVars, Stage, Up
  <2>6. QED
    BY <2>1, <2>2, <2>3, <2>4, <2>5 DEF Next
<1>3. QED
  BY <1>1, <1>2, Invariant, PTL DEF Spec, GuardKept, Guard!GuardSpec
=============================================================================
