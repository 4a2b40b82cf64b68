--------------------------- MODULE QueueContract ---------------------------
(***************************************************************************)
(* What io::Queue promises its client (openvdb/openvdb/io/Queue.h), free   *)
(* of counters, maps, locks and threads: every grid asked to be written is *)
(* refused or accepted, every accepted one gets one outcome, the client    *)
(* can learn each outcome, and the queue closes only when none is pending. *)
(***************************************************************************)
CONSTANT Tickets

VARIABLES
    ticket,   \* [Tickets -> States]
    open      \* FALSE once the destructor has returned

Outcomes == {"SUCCEEDED", "FAILED"}
States == {"new", "asked", "refused", "accepted", "told"} \cup Outcomes

Init == ticket = [t \in Tickets |-> "new"] /\ open = TRUE

Step(t, from, to) ==
    /\ open = TRUE /\ ticket[t] \in from
    /\ ticket' = [ticket EXCEPT ![t] = to]
    /\ open' = open

Ask(t) == Step(t, {"new"}, "asked")
Refuse(t) == Step(t, {"asked"}, "refused")
Accept(t) == Step(t, {"asked"}, "accepted")
Complete(t) == \E s \in Outcomes : Step(t, {"accepted"}, s)
Tell(t) == Step(t, Outcomes, "told")

Close ==
    /\ open = TRUE /\ \A t \in Tickets : ticket[t] \notin {"asked", "accepted"}
    /\ open' = FALSE /\ ticket' = ticket

Next ==
    \/ Close
    \/ \E t \in Tickets : Ask(t) \/ Refuse(t) \/ Accept(t) \/ Complete(t) \/ Tell(t)

(* A request is always answered and an accepted grid always completed.      *)
Fairness ==
    \A t \in Tickets :
        WF_<<ticket, open>>(Refuse(t) \/ Accept(t)) /\ WF_<<ticket, open>>(Complete(t))

(* The steps alone, without the promise that any is ever taken.             *)
Safety == Init /\ [][Next]_<<ticket, open>>

Spec == Safety /\ Fairness
=============================================================================
