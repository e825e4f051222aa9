------------------------------ MODULE Schedule ------------------------------
(***************************************************************************)
(* What monitoring promises to those who look at its history, with no      *)
(* scheduler, cron, process or statement in sight: time is divided into    *)
(* slots, a slot is recorded once and not before it begins, and the slots  *)
(* that are owed are recorded in the end.                                  *)
(***************************************************************************)
EXTENDS Naturals

CONSTANTS
    Interval,   \* the length of a slot
    Early       \* how early the first ping of a slot may be recorded

VARIABLES
    clock,
    recorded,   \* the slots with a ping, as records with an id and a slot
    owed        \* the slots somebody has undertaken to record

vars == <<clock, recorded, owed>>

Slot == {s \in Nat : s % Interval = 0}

Init == clock \in Nat /\ recorded = {} /\ owed = {}

(* A slot becomes owed when it begins. *)
Advance ==
    /\ clock' = clock + 1
    /\ owed' \in {owed, owed \cup {clock'}}
    /\ owed' # owed => clock' \in Slot
    /\ UNCHANGED recorded

(* A slot becomes owed because somebody is asked for it, in its time. *)
Undertake(s) ==
    /\ s \in Slot /\ s <= clock + Early
    /\ owed' = owed \cup {s}
    /\ UNCHANGED <<clock, recorded>>

(* What is owed is given up: a fault. *)
GiveUp ==
    /\ owed' \subseteq owed
    /\ UNCHANGED <<clock, recorded>>

Record(ping) ==
    /\ ping.slot \in Slot /\ ping.slot <= clock + Early
    /\ \A other \in recorded : other.slot # ping.slot /\ other.id # ping.id
    /\ recorded' = recorded \cup {ping}
    /\ UNCHANGED <<clock, owed>>

Next ==
    \/ Advance \/ GiveUp
    \/ \E s \in owed' \ owed : Undertake(s)
    \/ \E ping \in recorded' \ recorded : Record(ping)

Spec == Init /\ [][Next]_vars

Recorded(s) == \E ping \in recorded : ping.slot = s

(* A slot that is owed is recorded, unless it is given up. *)
Kept(s) == s \in owed ~> (Recorded(s) \/ s \notin owed)
=============================================================================
