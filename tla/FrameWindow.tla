---------------------------- MODULE FrameWindow ----------------------------
(***************************************************************************)
(* What the bus monitor promises to whoever reads it by sequence number    *)
(* (bus_monitor.h: written(), oldest(), at()): the frames held are those   *)
(* with the numbers oldest .. next - 1; a number keeps its frame until the *)
(* frame falls off the old end, at most one per frame recorded, and never  *)
(* comes back.  Only emptying the window or a restart reuses numbers.      *)
(***************************************************************************)
EXTENDS Naturals

CONSTANTS Frame, Limit

VARIABLES next, oldest, held

vars == <<next, oldest, held>>

Window(lo, hi) == [lo .. hi - 1 -> Frame]

Refilled ==
    /\ oldest' = 0 /\ next' \in 0 .. Limit
    /\ held' \in Window(0, next')

Init == oldest = 0 /\ next = 0 /\ held \in Window(0, 0)

(* One more frame, under the next number; the oldest one may make room.     *)
Record ==
    /\ next' = next + 1
    /\ oldest' \in {oldest, oldest + 1}
    /\ next' - oldest' <= Limit
    /\ held' \in Window(oldest', next')
    /\ \A s \in oldest' .. next - 1 : held'[s] = held[s]

Empty == oldest' = 0 /\ next' = 0 /\ held' \in Window(0, 0)

Next == Record \/ Empty \/ Refilled

Spec == Init /\ [][Next]_vars

=============================================================================
