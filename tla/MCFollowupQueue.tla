---------------------------- MODULE MCFollowupQueue ----------------------------
(***************************************************************************)
(* Instances of FollowupQueue for TLC.                                     *)
(***************************************************************************)
EXTENDS FollowupQueue

CONSTANTS a, b, c, e, f, z

Set(mode, policy) == [mode |-> mode, policy |-> policy]

(* Collected turns with summaries, and single ones with a policy that      *)
(* drops for good: each message brings its own settings.                   *)
TwoWays == {Set("collect", "summarize"), Set("followup", "old")}

(* For the disagreements with the documentation that README.md describes.  *)
Collect == {Set("collect", "summarize")}
OneByOne == {Set("followup", "summarize")}
Switched == {Set("followup", "summarize"), Set("followup", "old")}
=============================================================================
