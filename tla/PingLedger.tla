----------------------------- MODULE PingLedger -----------------------------
(***************************************************************************)
(* What the monitoring pipeline promises to the rest of the system, with   *)
(* no processes, probes or statements in sight: a ledger of recorded pings *)
(* in which a schedule slot appears at most once, and announcements        *)
(* ('ping.created' events) of recorded pings, each made at most once.      *)
(***************************************************************************)
EXTENDS Naturals

CONSTANTS
    Slot,       \* the schedule slots
    NoSlot      \* slot_start of a manual ping: NULL in the database

VARIABLES
    recorded,   \* the recorded pings: records with an id and a slot
    announced   \* the ids that were announced

vars == <<recorded, announced>>

Ping == [id : Nat, slot : Slot \cup {NoSlot}]

Init == recorded = {} /\ announced = {}

(* A ping gets an id nobody has; a slot is recorded only if it was free. *)
Record(ping) ==
    /\ \A other \in recorded : other.id # ping.id
    /\ ping.slot # NoSlot => \A other \in recorded : other.slot # ping.slot
    /\ recorded' = recorded \cup {ping}
    /\ UNCHANGED announced

(* Subscribers hear of a ping once, and only after it was recorded. *)
Announce(ping) ==
    /\ ping.id \notin announced
    /\ announced' = announced \cup {ping.id}
    /\ UNCHANGED recorded

Next ==
    \/ \E ping \in recorded' \ recorded : ping \in Ping /\ Record(ping)
    \/ \E ping \in recorded : Announce(ping)

Spec == Init /\ [][Next]_vars
=============================================================================
