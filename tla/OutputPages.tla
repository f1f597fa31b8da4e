---------------------------- MODULE OutputPages -----------------------------
(***************************************************************************)
(* The output of a job whose events are all processed: the page mode of    *)
(* the output controller (features/output/index.controller.js), with the   *)
(* pages of page.service.js and the requests of api.events.service.js.     *)
(* The scroll service is paused during an operation and nothing else       *)
(* touches the window, so an operation is one step here; answered says how *)
(* many of its requests the API answers before one fails.                  *)
(***************************************************************************)
EXTENDS OutputWindow

CONSTANT Stored     \* counters of the events in the database

ASSUME StoredAssumption ==
    Stored \subseteq Nat \ {0} /\ Stored # {} /\ IsFiniteSet(Stored)

VARIABLES
    shown,          \* the window of the render service
    pages           \* this.state of the page service: its head and its tail

PagesVars == <<shown, pages>>

(* The page opens with lastPage.  Before, it is as if its request failed.  *)
PagesInit == shown = NoRows /\ pages = [head |-> 0, tail |-> 0]

----------------------------------------------------------------------------
(* The API: the events in their order, cut into pages.  getLast asks for   *)
(* the newest first and rotates them into the last page.                   *)
PageOf(e) ==
    (Cardinality({f \in Stored : f <= e}) + PageSize - 1) \div PageSize
getPage(number) == {e \in Stored : PageOf(e) = number}
getLastPageNumber == PageOf(Max(Stored))

(* The page service.                                                       *)
getNext(p) == [p EXCEPT !.tail = Min({p.tail + 1, getLastPageNumber})]
getPrevious(p) == [p EXCEPT !.head = Max({p.head - 1, 1})]

isOverCapacity(p) == p.tail - p.head > PageLimit

trimHead(p) == IF isOverCapacity(p) THEN [p EXCEPT !.head = p.tail - PageLimit] ELSE p
trimTail(p) == IF isOverCapacity(p) THEN [p EXCEPT !.tail = p.head + PageLimit] ELSE p

popCount(before, after) ==
    Cardinality({e \in Stored :
        /\ PageOf(e) \in before.head .. before.tail
        /\ PageOf(e) \notin after.head .. after.tail})

----------------------------------------------------------------------------
(* getNext and trimHead make room at the front; getPrevious and trimTail   *)
(* at the back.                                                            *)
ShowNext(w, p) ==
    LET grown == getNext(p)
        kept == trimHead(grown)
    IN  /\ pages' = kept
        /\ shown' = pushFront(popBack(w, popCount(grown, kept)),
                              getPage(grown.tail))

ShowPrevious(w, p) ==
    LET grown == getPrevious(p)
        kept == trimTail(grown)
    IN  /\ pages' = kept
        /\ shown' = pushBack(popFront(w, popCount(grown, kept)),
                             getPage(grown.head))

nextPage == ShowNext(shown, pages)
previousPage == ShowPrevious(shown, pages)

OnePage(number) == [head |-> number, tail |-> number]

firstPage(answered) ==
    LET w == pushFront(cleared(shown), getPage(1))
    IN  CASE answered = 0 -> shown' = cleared(shown) /\ pages' = pages
          [] answered = 1 -> shown' = w /\ pages' = OnePage(1)
          [] answered = 2 -> ShowNext(w, OnePage(1))

lastPage(answered) ==
    LET number == getLastPageNumber
        w == pushBack(cleared(shown), getPage(number))
    IN  CASE answered = 0 -> shown' = cleared(shown) /\ pages' = pages
          [] answered = 1 -> shown' = w /\ pages' = OnePage(number)
          [] answered = 2 -> ShowPrevious(w, OnePage(number))

PagesNext ==
    \/ nextPage
    \/ previousPage
    \/ \E answered \in 0 .. 2 : firstPage(answered) \/ lastPage(answered)

PagesSpec == PagesInit /\ [][PagesNext]_PagesVars

----------------------------------------------------------------------------
(* However the user moves through the pages of a finished job, and         *)
(* whichever requests fail on the way, the table keeps the order of the    *)
(* output and repeats nothing, and no row is left without its record,      *)
(* which toggleCollapse and showMissingEvents dereference.  That is so up  *)
(* to a number of pages: popFront takes one counter more than it is asked  *)
(* for, so on the way up the tail of the window falls behind its page, one *)
(* event per page, until a whole page is above it and goes to the far end. *)
PagesInOrder == InOrder(shown)

(* After "Go to first page" and "Go to last page" every event of the pages *)
(* that the page service counts as loaded is in the table, whatever the    *)
(* window had lost before: clear must forget every record, for the render  *)
(* service skips the events that it has a record of.                       *)
JumpsReload ==
    [][firstPage(2) \/ lastPage(2) =>
          \A e \in Stored \ {StartEvent} :
              PageOf(e) \in pages'.head .. pages'.tail =>
                  EventRecord(e) \in Range(shown'.rows)]_PagesVars
=============================================================================
