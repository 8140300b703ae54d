----------------------------- MODULE MCNestedLanes -----------------------------
(***************************************************************************)
(* Instances of NestedLanes for TLC: turns of two sessions, two manual     *)
(* cron runs, a timer's run and two sent turns, one to each session.       *)
(***************************************************************************)
EXTENDS NestedLanes

CONSTANTS a, b, t1, t2, j1, j2, k1, x1, x2

AllKinds == (t1 :> "channel") @@ (t2 :> "channel") @@ (j1 :> "cron")
            @@ (j2 :> "cron") @@ (k1 :> "timer") @@ (x1 :> "sent") @@ (x2 :> "sent")
Sessions == (t1 :> a) @@ (t2 :> b) @@ (j1 :> a) @@ (j2 :> b) @@ (k1 :> b)
            @@ (x1 :> a) @@ (x2 :> b)
KindOf == [r \in Run |-> AllKinds[r]]
InSession == [r \in Run |-> Sessions[r]]
=============================================================================
