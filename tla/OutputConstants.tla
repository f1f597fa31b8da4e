--------------------------- MODULE OutputConstants --------------------------
(* The sizes that the services of the output page share                    *)
(* (features/output/constants.js), scaled down by the instances.           *)
EXTENDS Integers

CONSTANTS
    LastEvent,      \* the events of a running job are 1 .. LastEvent
    MaxBuffer,      \* OUTPUT_MAX_BUFFER_LENGTH
    MaxLag,         \* OUTPUT_MAX_LAG
    PageSize,       \* OUTPUT_PAGE_SIZE
    PageLimit,      \* OUTPUT_PAGE_LIMIT
    EventLimit      \* OUTPUT_EVENT_LIMIT

Events == 1 .. LastEvent

ASSUME SizeAssumption ==
    /\ LastEvent \in Nat \ {0} /\ MaxBuffer \in Nat /\ MaxLag \in Nat \ {0}
    /\ PageSize \in Nat \ {0} /\ PageLimit \in Nat
    /\ EventLimit \in Nat \ {0, 1} /\ PageSize <= EventLimit
=============================================================================
