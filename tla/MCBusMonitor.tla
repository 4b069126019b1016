---------------------------- MODULE MCBusMonitor ----------------------------
(* Settings for the run of BusMonitor: a trigger with frames from before and *)
(* after it in a ring that wraps, a trigger without a lead in a ring that    *)
(* stops when full, and a recording that starts at once.                     *)
EXTENDS BusMonitor

Request(sides, trigger, pre, post, full) ==
    [sides |-> sides, trigger |-> trigger, pre |-> pre, post |-> post,
     full |-> full]
Mixed == {Request({"tp"}, "event", 2, 2, FALSE),
          Request({"tp"}, "event", 0, 1, TRUE),
          Request({"tp"}, "now", 0, 0, TRUE)}

=============================================================================
