---------------------------- MODULE RequestQueue ----------------------------
(***************************************************************************)
(* What include/haidi_bms.hpp promises an application, without ring,       *)
(* handlers, frames or time: accepted requests are served in the order     *)
(* they came, one at a time, and each gets one outcome, or is dropped by   *)
(* reset().  Module HaidiBMS is shown to implement it.                     *)
(***************************************************************************)
EXTENDS Naturals, Sequences

VARIABLES
    outcome,  \* of every accepted request, by serial number
    bus       \* the request being served, 0 when there is none

vars == <<outcome, bus>>

Waiting(o) == {s \in DOMAIN o : o[s] = "pending"}

(* The request whose turn it is under the outcomes o.                      *)
Oldest(o) ==
    IF Waiting(o) = {} THEN 0
    ELSE CHOOSE s \in Waiting(o) : \A t \in Waiting(o) : s <= t

Init == outcome = <<>> /\ bus = 0

(* A request is accepted; with nothing else to do it is served at once.    *)
Accept ==
    /\ outcome' = Append(outcome, "pending")
    /\ bus' = bus \/ (bus = 0 /\ bus' = Oldest(outcome'))

(* "sent in order as earlier ones complete"                                *)
Serve ==
    /\ bus = 0 /\ Waiting(outcome) # {}
    /\ bus' = Oldest(outcome)
    /\ UNCHANGED outcome

(* The request being served has its outcome; the next one may follow.      *)
Report ==
    /\ bus # 0
    /\ outcome' = [outcome EXCEPT ![bus] = "reported"]
    /\ bus' \in {0, Oldest(outcome')}

(* reset(): everything without an outcome is abandoned.                    *)
Drop ==
    /\ outcome' = [s \in DOMAIN outcome |->
                      IF outcome[s] = "pending" THEN "dropped" ELSE outcome[s]]
    /\ bus' = 0

Next == Accept \/ Serve \/ Report \/ Drop

Spec == Init /\ [][Next]_vars
=============================================================================
