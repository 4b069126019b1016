---------------------------- MODULE MCEtsAccess ----------------------------
(* Two studies of EtsWindow in one run: the settings, with the clock at     *)
(* rest and no unlock under way, and the unlock, against the clock and with *)
(* the button for everything as the only setting. A behaviour belongs to    *)
(* one of them; the product of both says nothing more about either.         *)
EXTENDS EtsWindow

VARIABLE study

SomeMasks == {{"tp", "tunnel"}, {"routing"}, {}}

SettingsStep ==
  \/ \E mask \in Masks : SetAllowed(mask)
  \/ ToggleStep
  \/ \E t \in Tasks : StoreStep(t)
  \/ Restart

UnlockStep ==
  \/ ToggleAll \/ ToggleNotes \/ ToggleOpens \/ StoreStep("main")
  \/ \E t \in Tasks : UnlockOn(t) \/ UnlockOff(t)
  \/ \E path \in Paths : PermitUnlocked(path)
  \/ LoopKeeps \/ LoopExpired \/ LoopClears \/ ExtendCompare \/ ExtendWrite
  \/ Tick \/ Restart

StudyInit == WindowInit /\ study \in {"settings", "unlock"}
StudyNext ==
  /\ UNCHANGED study
  /\ \/ study = "settings" /\ SettingsStep
     \/ study = "unlock" /\ UnlockStep
  /\ quiet' = Quieter

StudySpec == StudyInit /\ [][StudyNext]_<<vars, quiet, study>>
=============================================================================
