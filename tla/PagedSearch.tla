---------------------------- MODULE PagedSearch -----------------------------
(***************************************************************************)
(* The paged listings: what each selects and in which order, the envelope  *)
(* of a page, and a client that walks the pages while rows come and go.    *)
(*                                                                         *)
(* A page is two statements: the COUNT and the page query with OFFSET and  *)
(* LIMIT.  Other requests commit between them and between pages.  Keyword, *)
(* company and dates only narrow the rows, and are left out.               *)
(***************************************************************************)
EXTENDS Naturals, FiniteSets

CONSTANTS
    Ids,         \* row ids: a set of naturals
    Days,        \* values of start_date, created_at and start_at
    Sizes,       \* page sizes asked for
    MaxChanges   \* bound on the changes to the rows

ASSUME IdAssumption == Ids \subseteq Nat /\ IsFiniteSet(Ids) /\ Days \subseteq Nat
ASSUME SizeAssumption == Sizes \subseteq 1 .. 100   \* get_page_params
ASSUME ChangeAssumption == MaxChanges \in Nat

VARIABLES
    rows,     \* the committed rows
    used,     \* ids ever given
    walk,     \* the client's walk through a listing
    changes   \* how many changes were made

vars == <<rows, used, walk, changes>>

\* on: enabled, in use, published, active or pending, as the table has it.
Row == [on : BOOLEAN, day : Days]
NoRow == [absent |-> TRUE]
Exists(i) == rows[i] # NoRow

-----------------------------------------------------------------------------
(* The listings: the rows they select, and the column they order by.       *)

SearchUsers == [selects |-> BOOLEAN, by |-> "id"]
SearchChargers == [selects |-> BOOLEAN, by |-> "id"]
\* By status, if one is asked for.
SearchKiosks == {[selects |-> S, by |-> "id"] : S \in {BOOLEAN, {TRUE}, {FALSE}}}
\* By employment status, if one is asked for: is retired_at NULL?
SearchWorkers == {[selects |-> S, by |-> "id desc"] : S \in {BOOLEAN, {TRUE}, {FALSE}}}
ListByCompany == [selects |-> BOOLEAN, by |-> "id desc"]
SearchStandards == [selects |-> BOOLEAN, by |-> "id desc"]
\* The companies in use only.
SearchCompanies == [selects |-> {TRUE}, by |-> "id desc"]
\* By start_date, and by nothing else among leaves that start on one day.
SearchLeaves == {[selects |-> S, by |-> "day desc"] : S \in {BOOLEAN, {TRUE}, {FALSE}}}
\* The published posts, by created_at.
ListBoards == [selects |-> {TRUE}, by |-> "day desc"]
\* By start_at; batch_make gives the schedules of a day the same start_at.
ListSchedules == [selects |-> BOOLEAN, by |-> "day desc"]
\* Those of one standard, within a month.
ListForStandard == [selects |-> {TRUE}, by |-> "day"]

Listings == {SearchUsers, SearchChargers, ListByCompany, SearchStandards, SearchCompanies, ListBoards,
             ListSchedules, ListForStandard}
            \cup SearchKiosks \cup SearchWorkers \cup SearchLeaves

Selected(listing) == {i \in Ids : Exists(i) /\ rows[i].on \in listing.selects}

Precedes(listing, i, j) ==
    \/ listing.by = "id" /\ i < j
    \/ listing.by = "id desc" /\ i > j
    \/ listing.by = "day" /\ rows[i].day < rows[j].day
    \/ listing.by = "day desc" /\ rows[i].day > rows[j].day

\* The order leaves no choice between two selected rows.
Ordered(listing) ==
    \A i, j \in Selected(listing) : i # j => Precedes(listing, i, j) \/ Precedes(listing, j, i)

-----------------------------------------------------------------------------
(* A page.                                                                 *)

Least(a, b) == IF a < b THEN a ELSE b

\* Mutant: the page is taken as a row number.
offset_Page(page, size) == page

offset(page, size) == page * size

\* R comes before the rest in some arrangement of the selected rows.
Leading(listing, R) == \A i \in R, j \in Selected(listing) \ R : ~Precedes(listing, j, i)

\* The rows that OFFSET and LIMIT can give: the database arranges the rows
\* that the order leaves open as it likes, anew in every query.
Pages(listing, page, size) ==
    LET n == Cardinality(Selected(listing))
        lo == Least(offset(page, size), n)
        hi == Least(lo + size, n)
        leading(k) == {R \in SUBSET Selected(listing) : Cardinality(R) = k /\ Leading(listing, R)}
    IN {content \in SUBSET Selected(listing) :
          \E A \in leading(lo), B \in leading(hi) : A \subseteq B /\ content = B \ A}

\* Mutant: no page when nothing is found.
total_pages_Zero(total, size) == (total + size - 1) \div size

\* At least one page, the last one perhaps not full.
total_pages(total, size) == IF total = 0 THEN 1 ELSE (total + size - 1) \div size

\* Mutant: the last page is not announced.
has_next_Early(page, total, size) == page + 2 < total_pages(total, size)

has_next(page, total, size) == page + 1 < total_pages(total, size)

-----------------------------------------------------------------------------
(* The rows.                                                               *)

InitialRows == {r \in [Ids -> Row \cup {NoRow}] :
                  \A i, j \in Ids : i < j /\ r[j] # NoRow => r[i] # NoRow}

NoWalk == [at |-> "none"]

Init ==
    /\ rows \in InitialRows
    /\ used = {i \in Ids : Exists(i)}
    /\ walk = NoWalk /\ changes = 0

\* What a change that takes i out of the selection, or into it, does to the
\* history of the walk.
Seen(i, after) ==
    IF walk = NoWalk THEN NoWalk
    ELSE LET was == i \in Selected(walk.listing)
             is == after # NoRow /\ after.on \in walk.listing.selects
         IN [walk EXCEPT !.present = IF is THEN @ ELSE @ \ {i},
                         !.left = @ \/ (was /\ ~is),
                         !.entered = @ \/ (is /\ ~was),
                         !.slipped = @ \/ (is /\ ~was /\ walk.at = "counted")]

Change(i, after) ==
    /\ changes < MaxChanges
    /\ rows' = [rows EXCEPT ![i] = after]
    /\ used' = used \cup {i}
    /\ walk' = Seen(i, after)
    /\ changes' = changes + 1

\* Ids are given in order, and their rows may appear in any.
Insert(i, row) == i \notin used /\ Change(i, row)

\* Deactivate, publish, retire, decide: the row changes sides.
Turn(i) == Exists(i) /\ Change(i, [rows[i] EXCEPT !.on = ~@])

Delete(i) == Exists(i) /\ Change(i, NoRow)

-----------------------------------------------------------------------------
(* The walk: a client that follows has_next.                               *)

Begin(listing, size) ==
    /\ walk = NoWalk
    /\ walk' = [at |-> "asking", listing |-> listing, size |-> size, page |-> 0, total |-> 0,
                shown |-> {}, twice |-> {}, present |-> Selected(listing),
                left |-> FALSE, entered |-> FALSE, slipped |-> FALSE,
                ordered |-> TRUE]
    /\ UNCHANGED <<rows, used, changes>>

Count ==
    /\ walk # NoWalk /\ walk.at = "asking"
    /\ walk' = [walk EXCEPT !.at = "counted", !.total = Cardinality(Selected(walk.listing)),
                            !.ordered = @ /\ Ordered(walk.listing)]
    /\ UNCHANGED <<rows, used, changes>>

Query ==
    /\ walk # NoWalk /\ walk.at = "counted"
    /\ \E content \in Pages(walk.listing, walk.page, walk.size) :
         walk' = [walk EXCEPT !.at = "answered", !.shown = @ \cup content,
                              !.twice = @ \cup (content \cap walk.shown),
                              !.ordered = @ /\ Ordered(walk.listing)]
    /\ UNCHANGED <<rows, used, changes>>

More == has_next(walk.page, walk.total, walk.size)

NextPage ==
    /\ walk # NoWalk /\ walk.at = "answered" /\ More
    /\ walk' = [walk EXCEPT !.at = "asking", !.page = @ + 1]
    /\ UNCHANGED <<rows, used, changes>>

Finish ==
    /\ walk # NoWalk /\ walk.at = "answered" /\ ~More
    /\ walk' = NoWalk
    /\ UNCHANGED <<rows, used, changes>>

Next ==
    \/ \E i \in Ids : (\E row \in Row : Insert(i, row)) \/ Turn(i) \/ Delete(i)
    \/ \E listing \in Listings, size \in Sizes : Begin(listing, size)
    \/ Count
    \/ Query
    \/ NextPage
    \/ Finish

Spec == Init /\ [][Next]_vars

-----------------------------------------------------------------------------
(* Properties.                                                             *)

\* The rows are rows; a client asks for the first page or one below the
\* total_pages of the answer before; and every answer announces a page at
\* least, of no rows too.  (It may announce fewer than the page it answers,
\* when rows left meanwhile.)
TypeOK ==
    /\ \A i \in Ids : rows[i] \in Row \cup {NoRow}
    /\ used \subseteq Ids /\ changes \in 0 .. MaxChanges
    /\ walk # NoWalk =>
         /\ walk.at \in {"asking", "counted", "answered"} /\ walk.listing \in Listings
         /\ walk.size \in Sizes /\ walk.page \in Nat
         /\ walk.twice \subseteq walk.shown /\ walk.shown \subseteq Ids
         /\ walk.at = "asking" /\ walk.page # 0 => walk.page < total_pages(walk.total, walk.size)
         /\ walk.at = "answered" => total_pages(walk.total, walk.size) \in Nat \ {0}

Over == walk # NoWalk /\ walk.at = "answered" /\ ~More

\* A client that follows has_next is shown every row that was selected all
\* along, unless a row left the selection (and the others moved up a page),
\* one entered it between a COUNT and its page query, or the order left two
\* rows open.
MissedOnlyByChange ==
    Over /\ ~walk.left /\ ~walk.slipped /\ walk.ordered => walk.present \subseteq walk.shown

\* It is shown no row twice, unless a row entered the selection (and the
\* others moved down a page) or the order left two rows open.
RepeatedOnlyByEntry ==
    walk # NoWalk /\ ~walk.entered /\ walk.ordered => walk.twice = {}

=============================================================================
