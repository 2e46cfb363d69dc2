------------------------------ MODULE Listing -------------------------------
(***************************************************************************)
(* Paging through a list while it changes: GET /servers and /operations    *)
(* read the whole list the actor may see and cut a page after the item the *)
(* cursor names (internal/httpapi: paginateServers, paginateOperations;    *)
(* internal/store: VisibleServers, VisibleOperations); GET /audit-events   *)
(* asks the database for what lies below the cursor (AuditEventsPage).     *)
(* Servers are listed oldest first, the others newest first.  Creation     *)
(* times are distinct: only operations and audit events break ties.        *)
(***************************************************************************)
EXTENDS Naturals, FiniteSets

CONSTANTS
    Times,     \* creation times; an item is named by its own
    PageSize   \* limit

ASSUME ListingAssumption == Times \subseteq Nat \ {0} /\ PageSize \in Nat \ {0}

VARIABLES
    listing,   \* "servers", "operations" or "audit"
    visible,   \* items the actor may see
    stayed,    \* ghost: the ones that were visible when the client began and are still
    cursor,    \* where the client goes on; 0 at the start
    given,     \* how many times each item was on a page of the client's
    paging     \* "more", "all", or "refused" when the cursor is not found

listingVars == <<listing, visible, stayed, cursor, given, paging>>

ListingInit ==
    /\ listing \in {"servers", "operations", "audit"}
    /\ visible \in SUBSET Times
    /\ stayed = visible
    /\ cursor = 0 /\ given = [x \in Times |-> 0] /\ paging = "more"

\* VisibleServers: ORDER BY created_at ASC.  The others: DESC.
Before(x, y) == IF listing = "servers" THEN x < y ELSE x > y

\* Variant: the page begins with the item of the cursor.
FromCursor(c) == {x \in visible : c = 0 \/ x = c \/ Before(c, x)}

\* The items after the cursor, which are all of them at the start.
AfterCursor(c) == {x \in visible : c = 0 \/ Before(c, x)}

\* The first PageSize of the items that are left, and a cursor that names the
\* last of them; or all of them, and no cursor.
Given(rest) ==
    \E page \in SUBSET rest :
        /\ \A x \in page, y \in rest \ page : Before(x, y)
        /\ IF Cardinality(rest) > PageSize
           THEN /\ Cardinality(page) = PageSize /\ paging' = "more"
                /\ \E last \in page : (\A x \in page : ~Before(last, x)) /\ cursor' = last
           ELSE page = rest /\ paging' = "all" /\ UNCHANGED cursor
        /\ given' = [x \in Times |-> IF x \in page THEN given[x] + 1 ELSE given[x]]

\* paginateServers and paginateOperations: a cursor whose item is gone is refused.
paginate ==
    /\ listing # "audit" /\ paging = "more"
    /\ IF cursor = 0 \/ cursor \in visible
       THEN Given(AfterCursor(cursor))
       ELSE paging' = "refused" /\ UNCHANGED <<cursor, given>>
    /\ UNCHANGED <<listing, visible, stayed>>

\* WHERE (created_at, id) < (the cursor's): whether or not its item is listed.
AuditEventsPage ==
    /\ listing = "audit" /\ paging = "more"
    /\ Given(AfterCursor(cursor))
    /\ UNCHANGED <<listing, visible, stayed>>

\* An item is created, or becomes visible; audit events stay.
Appears(x) ==
    /\ x \in Times \ visible /\ visible' = visible \cup {x}
    /\ UNCHANGED <<listing, stayed, cursor, given, paging>>
Disappears(x) ==
    /\ listing # "audit" /\ x \in visible
    /\ visible' = visible \ {x} /\ stayed' = stayed \ {x}
    /\ UNCHANGED <<listing, cursor, given, paging>>

ListingNext == paginate \/ AuditEventsPage \/ \E x \in Times : Appears(x) \/ Disappears(x)

ListingSpec == ListingInit /\ [][ListingNext]_listingVars
-----------------------------------------------------------------------------
\* A client that pages to the end was given every item that was visible all the
\* while, and none twice, however the list changed between two pages.
PagingIsComplete ==
    /\ paging = "all" => \A x \in stayed : given[x] > 0
    /\ \A x \in Times : given[x] <= 1
=============================================================================
