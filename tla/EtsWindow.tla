------------------------------ MODULE EtsWindow ------------------------------
(* How long an unlock of EtsAccess that nobody renews stays open: the lock  *)
(* with a clock that starts again at every grant, by an unlock or by        *)
(* permits() for a tool at work. The wrapping deadline of the code is read  *)
(* with a sign, so a pass of loop() that comes late must still see it as    *)
(* passed.                                                                  *)
EXTENDS EtsAccess

VARIABLE quiet  \* history: ticks since the last grant, while an unlock runs

Longest == UnlockMs + 1 + Stall

(* A grant is a new deadline, from an unlock or from a tool at work.        *)
Granted == unlockUntil' # unlockUntil /\ unlockUntil' # 0

WindowInit == Init /\ quiet = 0

Quieter ==
    IF unlockUntil' = 0 \/ Granted THEN 0
    ELSE IF now' # now /\ quiet <= Longest THEN quiet + 1 ELSE quiet

WindowNext == Next /\ quiet' = Quieter

WindowSpec == WindowInit /\ [][WindowNext]_<<vars, quiet>>

(* An unlock nobody renews is over a stall of the main loop after its       *)
(* period at the latest (ets_access.cpp:70-79, 150, 222-234), wherever the   *)
(* counter of milliseconds wraps and however the web task and permits()     *)
(* come in between: no path stays open for the half of the counter's range  *)
(* in which a passed deadline reads as one to come.                         *)
WindowBounded == unlockUntil # 0 => quiet <= Longest
=============================================================================
