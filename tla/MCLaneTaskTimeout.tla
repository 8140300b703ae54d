-------------------------- MODULE MCLaneTaskTimeout --------------------------
(* Small instances of LaneTaskTimeout for TLC: the constants are given in the *)
(* configuration files.                                                    *)
EXTENDS LaneTaskTimeout
=============================================================================
