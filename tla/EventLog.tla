------------------------------ MODULE EventLog ------------------------------
(* What the stream of a job's output promises to the page that shows it:   *)
(* batches of events arrive in the order of their counters, no event comes *)
(* twice, and the page is told that the output is complete only when the   *)
(* log has got as far as the last event.                                   *)
EXTENDS Integers

VARIABLES
    final,            \* the counter of the event that ends the output
    delivered,        \* the counters handed to the page so far
    upTo,             \* nothing at or below this counter is still to come
    closed            \* whether the page was told that the output ended

logVars == <<final, delivered, upTo, closed>>

LogInit == final \in Nat /\ delivered = {} /\ upTo = 0 /\ closed = FALSE

(* The log advances to a later counter and hands over a batch of events    *)
(* from there; what the batch leaves out is given up.                      *)
Deliver ==
    /\ upTo' > upTo
    /\ delivered \subseteq delivered'
    /\ delivered' \ delivered \subseteq upTo + 1 .. upTo'
    /\ UNCHANGED <<final, closed>>

Close ==
    /\ ~closed
    /\ upTo >= final
    /\ closed' = TRUE
    /\ UNCHANGED <<final, delivered, upTo>>

LogNext == Deliver \/ Close

LogSpec == LogInit /\ [][LogNext]_logVars
=============================================================================
