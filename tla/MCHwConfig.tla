----------------------------- MODULE MCHwConfig -----------------------------
(***************************************************************************)
(* The hardware profile with two values of every part: 1 is the built-in   *)
(* one, 2 another, 0 what an empty structure holds.  The device crashes    *)
(* with the second arrays of buttons and LEDs.                             *)
(***************************************************************************)
EXTENDS HwConfig

AllParts(value) == [f \in {"keys", "btns", "btnc", "bact", "bacc"} |-> value]
MCDefaults == AllParts(1)
MCBlank == AllParts(0)
MCOld == [AllParts(2) EXCEPT !["btns"] = 0]

(* A row the count includes must be one the array holds.                    *)
MCValid ==
    {profile \in Profiles :
        /\ profile["btnc"] = 2 => profile["btns"] = 2
        /\ profile["bacc"] = 2 => profile["bact"] = 2}
MCCrashing == {profile \in Profiles : profile["btns"] = 2}

Rewired == [keys |-> 2]
MoreButtons == [btns |-> 2, btnc |-> 2]
MoreAssignments == [bact |-> 2, bacc |-> 2]
FewerAssignments == [bact |-> 1, bacc |-> 1]
MCPatches == {Rewired, MoreButtons, MoreAssignments, FewerAssignments}
=============================================================================
