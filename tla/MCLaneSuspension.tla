--------------------------- MODULE MCLaneSuspension ---------------------------
(***************************************************************************)
(* Instances of LaneSuspension for TLC.                                    *)
(***************************************************************************)
EXTENDS LaneSuspension

CONSTANTS main, nested, custom, r1, r2, r3, r4

(* A lane of each kind, the first of them suspended twice. *)
EachKind == (r1 :> main) @@ (r2 :> main) @@ (r3 :> nested) @@ (r4 :> custom)

OnlyMain == (r1 :> main)
=============================================================================
