----------------------------- MODULE AtomicRegister -----------------------------
(***************************************************************************)
(* What a file that is written atomically promises: it changes from one    *)
(* whole content to another, in one step, by a writer that has not been    *)
(* told of its success yet; a power failure may bring back an older        *)
(* content, but none older than what was confirmed last.                   *)
(***************************************************************************)
CONSTANTS Writers, Initials

VARIABLES
    value,     \* what readers find
    durable,   \* what a power failure leaves
    confirmed  \* the writers that were told of their success

Init == value \in Initials /\ durable = value /\ confirmed = {}

Install(w) == w \notin confirmed /\ value' = w /\ UNCHANGED <<durable, confirmed>>
Harden     == durable' = value /\ UNCHANGED <<value, confirmed>>
Confirm(w) == durable' = value /\ confirmed' = confirmed \cup {w} /\ UNCHANGED value
Revert     == value' = durable /\ UNCHANGED <<durable, confirmed>>

Next == (\E w \in Writers : Install(w) \/ Confirm(w)) \/ Harden \/ Revert

Step == Next \/ UNCHANGED <<value, durable, confirmed>>

Spec == Init /\ [][Next]_<<value, durable, confirmed>>
================================================================================
