-------------------------------- MODULE Auth --------------------------------
(* The password (auth.cpp) and the way back from one that is forgotten: a   *)
(* button with the factory reset in the hardware profile (hw_config.cpp).   *)
(*                                                                          *)
(* Of a profile only that button is modelled. The profile a device runs on, *)
(* the one it starts with next and the one loop() takes over are three; the *)
(* puts of store() and the copy of loop() are HwConfig's, here each is begun *)
(* and ended. The requests are those of the web task, one at a time.        *)
EXTENDS Naturals

CONSTANT MaxAuthEvents  \* bound on requests and restarts

VARIABLES
  password,    \* a user and a hash are stored in sbip-auth
  known,       \* storedUser and storedHash are not empty
  guard,       \* the middleware asks for them since the start
  activeKey,   \* _active has a button for the factory reset
  storedProfile,
               \* in NVS: "none", "left" when its lists are there but it is
               \* not marked as set, "key", or "plain" when it starts without
               \* the button (validate() may refuse it)
  blind,       \* _stored differs from what is in NVS
  pendingKey,  \* "none", or the profile waiting for loop(): "key", "plain"
  taking,      \* the one loop() is copying, or "none"
  storing,     \* the profile in store(), and how far it is
  excused,     \* history: a step the rule does not look at took the button
  authEvents

authVars == <<password, known, guard, activeKey, storedProfile, blind, pendingKey, taking,
              storing, excused, authEvents>>

Marked == {"plain", "key"}
Kept(key) == IF key THEN "key" ELSE "plain"
NoStore == [at |-> "idle", key |-> FALSE, live |-> FALSE]

AuthInit ==
  /\ password = FALSE /\ known = FALSE /\ guard = FALSE
  /\ activeKey = FALSE /\ storedProfile = "none" /\ blind = FALSE
  /\ pendingKey = "none" /\ taking = "none" /\ storing = NoStore
  /\ excused = FALSE /\ authEvents = 0

AuthEvent == authEvents < MaxAuthEvents /\ authEvents' = authEvents + 1
AuthRequest == AuthEvent /\ storing = NoStore

(* Auth::set(): an empty user clears the password; else the running profile *)
(* must have the button. A namespace that cannot be opened is not noticed.  *)
(* Of the two puts the second makes it a password.                          *)
ClearPassword(refused) ==
  /\ AuthRequest
  /\ known' = FALSE /\ password' = (password /\ refused) /\ excused' = (excused /\ refused)
  /\ UNCHANGED <<guard, activeKey, storedProfile, blind, pendingKey, taking, storing>>

AlwaysPossible == TRUE  \* mutant of recoveryPossible
recoveryPossible == activeKey

SetPassword(refused) ==
  /\ AuthRequest /\ recoveryPossible
  /\ known' = TRUE /\ password' = (password \/ ~refused)
  /\ excused' = (excused \/ (activeKey /\ storedProfile # "key"))
  /\ UNCHANGED <<guard, activeKey, storedProfile, blind, pendingKey, taking, storing>>

(* Auth::enabled() reads NVS as long as it knows of no user; unread is a    *)
(* namespace that could not be opened for it.                               *)
Enabled(unread) == known \/ (password /\ ~unread)

(* HwConfig::applyJson() at its end.                                        *)
KeepsTheWayBack(key, unread) == key \/ ~Enabled(unread)
AcceptProfile(key, live, unread) ==
  /\ AuthRequest /\ KeepsTheWayBack(key, unread)
  /\ storing' = [at |-> "open", key |-> key, live |-> live]
  /\ known' = Enabled(unread)
  /\ excused' = (excused \/ (password /\ unread /\ ~key))
  /\ UNCHANGED <<password, guard, activeKey, storedProfile, blind, pendingKey, taking>>

(* store(): begin(), which may be refused and is not checked, the puts, and *)
(* the copy in RAM; a blob is skipped when it equals that copy, so one that *)
(* is wrong leaves a mix. A profile with the same wiring is then for loop() *)
(* to take over.                                                            *)
StoreOpens ==
  /\ storing.at = "open" /\ storing' = [storing EXCEPT !.at = "puts"]
  /\ UNCHANGED <<password, known, guard, activeKey, storedProfile, blind, pendingKey, taking,
                 excused, authEvents>>

Results == IF blind THEN Marked ELSE {Kept(storing.key)}
HandsOver ==
  /\ storing' = NoStore
  /\ pendingKey' = IF storing.live THEN Kept(storing.key) ELSE pendingKey
  /\ UNCHANGED <<password, known, guard, activeKey, taking, authEvents>>

StoreEnds ==
  /\ storing.at = "puts" /\ HandsOver
  /\ storedProfile' \in Results
  /\ excused' = ((excused \/ (password /\ blind)) /\ storedProfile' # "key")
  /\ UNCHANGED blind

StoreRefused ==
  /\ storing.at = "open" /\ HandsOver
  /\ blind' = TRUE
  /\ UNCHANGED <<storedProfile, excused>>

(* HwConfig::loop() copies the pending profile; what the web task reads of  *)
(* it meanwhile is neither, and so is the copy of one that was replaced.    *)
LoopTakes ==
  /\ pendingKey # "none" /\ taking = "none"
  /\ taking' = pendingKey /\ pendingKey' = "none"
  /\ activeKey' \in BOOLEAN
  /\ UNCHANGED <<password, known, guard, storedProfile, blind, storing, excused, authEvents>>

LoopTaken ==
  /\ taking # "none" /\ taking' = "none"
  /\ activeKey' \in IF pendingKey = "none" THEN {taking = "key"} ELSE BOOLEAN
  /\ UNCHANGED <<password, known, guard, storedProfile, blind, pendingKey, storing, excused,
                 authEvents>>

(* resetToDefaults() does not ask about the password; the defaults have no  *)
(* such button. One that is refused changes nothing.                        *)
ResetProfile ==
  /\ AuthRequest /\ storedProfile' = "none" /\ blind' = FALSE
  /\ excused' = (excused \/ password)
  /\ UNCHANGED <<password, known, guard, activeKey, pendingKey, taking, storing>>

(* What a start finds: the profile in NVS, cut off between two puts a mix   *)
(* of two that are marked or lists without a mark; and a marked one may be  *)
(* dropped by the guard against a crash loop or have lists of another       *)
(* layout after an update.                                                  *)
CutLeaves == Results \cup (IF storedProfile \in Marked THEN Marked ELSE {storedProfile, "left"})
Found ==
  (IF storing.at = "puts" THEN CutLeaves ELSE {storedProfile})
    \cup (IF storedProfile \in Marked THEN {"left", "plain"} ELSE {})

(* begin(), and attach(), which leaves the dashboard open while the access  *)
(* point is up.                                                             *)
StartsUp(found, unread, ap) ==
  /\ storedProfile' = found /\ activeKey' = (found = "key")
  /\ blind' = (found = "left" /\ storedProfile \notin Marked)
  /\ known' = (password /\ ~unread) /\ guard' = (known' /\ ~ap)
  /\ pendingKey' = "none" /\ taking' = "none" /\ storing' = NoStore
  /\ excused' = ((excused \/ (password /\ found # storedProfile)) /\ found # "key")

AuthRestart ==
  /\ AuthEvent /\ UNCHANGED password
  /\ \E found \in Found, unread, ap \in BOOLEAN : StartsUp(found, unread, ap)

(* NetManager::loop() erases NVS, which no handle survives, and restarts.   *)
FactoryReset ==
  /\ AuthEvent
  /\ password' = FALSE /\ known' = FALSE /\ guard' = FALSE
  /\ activeKey' = FALSE /\ storedProfile' = "none" /\ blind' = FALSE
  /\ pendingKey' = "none" /\ taking' = "none" /\ storing' = NoStore /\ excused' = FALSE

AuthNext ==
  \/ StoreOpens \/ StoreEnds \/ StoreRefused \/ LoopTakes \/ LoopTaken
  \/ ResetProfile \/ AuthRestart \/ FactoryReset
  \/ \E refused \in BOOLEAN : ClearPassword(refused) \/ SetPassword(refused)
  \/ \E key, live, unread \in BOOLEAN : AcceptProfile(key, live, unread)

AuthSpec == AuthInit /\ [][AuthNext]_authVars
---------------------------------------------------------------------------
(* "A password only with a way back" (README.md:1383-1393): as long as one  *)
(* is set, the profile of the next start has a button for the factory       *)
(* reset. Excused is a password set while the profile of the next start has *)
(* none though the running one has; a profile that was reset, dropped, cut  *)
(* off or of another layout; a mix stored after a store() that was refused  *)
(* or a drop; and a password that could not be read when it was asked for.  *)
Recoverable == password /\ ~excused => storedProfile = "key"
=============================================================================
