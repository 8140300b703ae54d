---------------------------- MODULE DeliveryIntent ----------------------------
(***************************************************************************)
(* What the outbound queue promises for one delivery intent: the platform  *)
(* accepts no payload twice, the intent leaves the queue as settled only   *)
(* once every payload is accepted or given up on purpose, and after that   *)
(* only payloads given up while an unrecorded send was under way may still *)
(* reach the platform.  Nothing is sent after the dead letter.             *)
(***************************************************************************)
EXTENDS Naturals

CONSTANT Payload

VARIABLES
    fate,       \* "open", "settled" or "dead"
    copies,     \* copies[p]: how often the platform accepted payload p
    excused     \* payloads the queue no longer answers for

intentVars == <<fate, copies, excused>>

Init ==
    /\ fate = "open"
    /\ copies = [p \in Payload |-> 0]
    /\ excused \in SUBSET Payload   \* payload numbers the intent leaves out

Accept(p) ==
    /\ fate # "dead"
    /\ fate = "settled" => p \in excused
    /\ copies[p] = 0
    /\ copies' = [copies EXCEPT ![p] = 1]
    /\ UNCHANGED <<fate, excused>>

Excuse(S) ==
    /\ fate = "open"
    /\ excused' = excused \cup S
    /\ UNCHANGED <<fate, copies>>

(* The step that settles may excuse what it gives up. *)
Settle ==
    /\ fate = "open"
    /\ fate' = "settled"
    /\ excused \subseteq excused'
    /\ excused' \subseteq Payload
    /\ \A p \in Payload : copies[p] = 1 \/ p \in excused'
    /\ UNCHANGED copies

DeadLetter == fate = "open" /\ fate' = "dead" /\ UNCHANGED <<copies, excused>>

Next ==
    \/ \E p \in Payload : Accept(p)
    \/ \E S \in SUBSET Payload : Excuse(S)
    \/ Settle
    \/ DeadLetter

Spec == Init /\ [][Next]_intentVars
=============================================================================
