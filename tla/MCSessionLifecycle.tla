--------------------------- MODULE MCSessionLifecycle ---------------------------
(***************************************************************************)
(* Instances of SessionLifecycle for TLC.  Identity 1 is a session's key,  *)
(* 2 its id, 3 another session.                                            *)
(***************************************************************************)
EXTENDS SessionLifecycle

CONSTANTS w1, w2, m1, m2

(* A turn of a session, a reset that names both its identities, a rollover *)
(* that the turn starts itself, and a turn of another session that begins  *)
(* inside a callback of the store writer.                                  *)
MixIds == (w1 :> {1, 2}) @@ (w2 :> {3}) @@ (m1 :> {1, 2}) @@ (m2 :> {1})
Rollover == (m1 :> {}) @@ (m2 :> {w1})

(* For the disagreement README.md describes: the writer's callback begins  *)
(* a turn of the session others work on.                                   *)
SharedIds == (w1 :> {1}) @@ (w2 :> {1}) @@ (m1 :> {1})
Outside == [m \in Mutation |-> {}]
=============================================================================
