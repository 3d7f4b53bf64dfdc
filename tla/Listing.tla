------------------------------ MODULE Listing ------------------------------
(***************************************************************************)
(* The paginated lists of projects, applications and databases, plain and  *)
(* searched.  The three pairs of handlers and repositories are one code    *)
(* written three times; this is one such list.  A page is two statements,  *)
(* a count and a window over the rows, newest first, and readers turn the  *)
(* pages while rows come and go.                                           *)
(***************************************************************************)
EXTENDS Naturals, FiniteSets

CONSTANTS
    Readers,     \* readers that walk through the list
    Limit,       \* rows of a page: 10
    Hits,        \* the rows whose name or slug matches the search
    MaxRows,     \* bound: rows, and rows entered in all
    MaxDeletes,  \* bound: rows deleted
    MaxWalks     \* bound: walks of each reader

ListingAssumption ==
    /\ Limit \in Nat \ {0}
    /\ Hits \subseteq 1..MaxRows
    /\ MaxRows \in Nat /\ MaxDeletes \in Nat /\ MaxWalks \in Nat

VARIABLES
    rows,      \* the identifiers, which follow created_at
    inserted,  \* rows that have entered the list so far
    deleted,   \* rows that have left it so far
    walk       \* walk[r]: where the reader is

vars == <<rows, inserted, deleted, walk>>

(* page, searched: the query string; total, seen: what the reader was      *)
(* shown; there, gone, late: history, the rows listed when the walk began, *)
(* how many of the list were deleted since, and how many were inserted     *)
(* since the last count.                                                   *)
Walk == [pc : {"away", "count", "page", "over"}, searched : BOOLEAN, page : Nat \ {0},
         total : Nat, seen : SUBSET (1..MaxRows), there : SUBSET (1..MaxRows), gone : Nat,
         late : Nat, walks : Nat]

Away == [pc |-> "away", searched |-> FALSE, page |-> 1, total |-> 0, seen |-> {},
         there |-> {}, gone |-> 0, late |-> 0, walks |-> 0]

Init ==
    /\ rows = {} /\ inserted = 0 /\ deleted = 0
    /\ walk = [r \in Readers |-> Away]

----------------------------------------------------------------------------
Searched(list, searched) == IF searched THEN list \cap Hits ELSE list

Listed(id, r) == walk[r].searched => id \in Hits

(* ORDER BY created_at DESC: how many rows of the list come before one.    *)
Newer(list, id) == Cardinality({other \in list : other > id})
Offset(page) == (page - 1) * Limit

(* Mutant: the offset is one too large.                                    *)
WindowAhead(list, page) ==
    {id \in list : Newer(list, id) \in (Offset(page) + 1)..(Offset(page) + Limit)}

(* LIMIT ? OFFSET ?, with the handler's offset.                            *)
Window(list, page) ==
    {id \in list : Newer(list, id) \in Offset(page)..(Offset(page) + Limit - 1)}

TotalPages(total) ==
    LET pages == (total + Limit - 1) \div Limit IN IF pages = 0 THEN 1 ELSE pages

Reading(r) == walk[r].pc \in {"count", "page"}

(* Somebody creates a row, which is the newest; or an application of some  *)
(* age is moved into the environment, or a rename makes a row match the    *)
(* search, and it enters the list where its created_at puts it.  The       *)
(* readers' histories take note.                                           *)
Insert(id) ==
    /\ id \in (1..MaxRows) \ rows
    /\ inserted < MaxRows /\ inserted' = inserted + 1
    /\ rows' = rows \union {id}
    /\ walk' = [r \in Readers |->
          IF walk[r].pc = "page" /\ Listed(id, r)
            THEN [walk[r] EXCEPT !.late = @ + 1] ELSE walk[r]]
    /\ UNCHANGED deleted

(* A row is deleted, moved away or renamed out of the search.              *)
Delete(id) ==
    /\ id \in rows /\ deleted < MaxDeletes /\ deleted' = deleted + 1
    /\ rows' = rows \ {id}
    /\ walk' = [r \in Readers |->
          IF Reading(r) /\ Listed(id, r)
            THEN [walk[r] EXCEPT !.gone = @ + 1, !.there = @ \ {id}] ELSE walk[r]]
    /\ UNCHANGED inserted

(* The reader opens the list, or a search in it, at its first page.        *)
Open(r, searched) ==
    /\ ~ Reading(r) /\ walk[r].walks < MaxWalks
    /\ walk' = [walk EXCEPT ![r] =
          [Away EXCEPT !.pc = "count", !.searched = searched,
                       !.there = Searched(rows, searched), !.walks = walk[r].walks + 1]]
    /\ UNCHANGED <<rows, inserted, deleted>>

Counted(w, total) == [w EXCEPT !.pc = "page", !.late = 0, !.total = total]

Count(r) ==
    /\ walk[r].pc = "count"
    /\ LET list == Searched(rows, walk[r].searched) IN
          walk' = [walk EXCEPT ![r] = Counted(@, Cardinality(list))]
    /\ UNCHANGED <<rows, inserted, deleted>>

(* The page is shown with a link to the next one while the count says that *)
(* there is one; the reader follows it.                                    *)
Turned(w, page) ==
    IF w.page < TotalPages(w.total)
      THEN [w EXCEPT !.seen = @ \union page, !.pc = "count", !.page = @ + 1]
      ELSE [w EXCEPT !.seen = @ \union page, !.pc = "over"]

Fetch(r) ==
    /\ walk[r].pc = "page"
    /\ LET list == Searched(rows, walk[r].searched) IN
          walk' = [walk EXCEPT ![r] = Turned(@, Window(list, @.page))]
    /\ UNCHANGED <<rows, inserted, deleted>>

Next ==
    \/ \E id \in 1..MaxRows : Insert(id) \/ Delete(id)
    \/ \E r \in Readers : Count(r) \/ Fetch(r)
    \/ \E r \in Readers, searched \in BOOLEAN : Open(r, searched)

Spec == Init /\ [][Next]_vars

----------------------------------------------------------------------------
(* The types of the variables.                                             *)
TypeOK ==
    /\ inserted \in 0..MaxRows /\ rows \subseteq 1..MaxRows /\ deleted \in 0..MaxDeletes
    /\ walk \in [Readers -> Walk]

(* A walk over the pages passes over at most one row for each row that left*)
(* the list during it, and for each that entered it between the last count *)
(* and its page, at whatever place; those before only show a row twice     *)
(* (the List handlers and the repositories' paginated queries).            *)
FewSkipped ==
    \A r \in Readers : walk[r].pc = "over" =>
        Cardinality(walk[r].there \ walk[r].seen) <= walk[r].gone + walk[r].late
=============================================================================
