------------------------------ MODULE MCLpcIsp ------------------------------
(* Clients for the runs of LpcIsp.                                          *)
EXTENDS LpcIsp

CONSTANTS a, b

One == {a}
Two == {a, b}

=============================================================================
