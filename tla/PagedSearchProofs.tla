--------------------------- MODULE PagedSearchProofs ---------------------------
(***************************************************************************)
(* Proofs about PagedSearch, for every listing, every size of a page, any  *)
(* number of rows and any changes to them while the client walks.          *)
(***************************************************************************)
EXTENDS PagedSearch, FiniteSetTheorems, TLAPS

-----------------------------------------------------------------------------
(* The envelope.                                                           *)

\* total_pages rounds up: it is a page at least, and a page whose rows the
\* total exceeds is announced.
LEMMA Rounding ==
    ASSUME NEW total \in Nat, NEW size \in Nat \ {0}
    PROVE  /\ total_pages(total, size) \in Nat \ {0}
           /\ \A page \in Nat :
                  (page + 1) * size < total => page + 1 < total_pages(total, size)
<1>1. CASE total = 0
  <2>1. total_pages(total, size) = 1
    BY <1>1 DEF total_pages
  <2>2. \A page \in Nat : (page + 1) * size \in Nat
    OBVIOUS
  <2> QED BY <1>1, <2>1, <2>2
<1>2. CASE total # 0
  <2> DEFINE a == total + size - 1
             d == a \div size
  <2>1. a \in Nat /\ total_pages(total, size) = d
    BY <1>2 DEF total_pages
  <2> HIDE DEF a
  <2>2. d \in Nat /\ size * d <= a /\ a < size * d + size
    BY <2>1
  <2> HIDE DEF d
  <2>3. a = total + size - 1
    BY DEF a
  <2>4. d # 0
    <3>1. d = 0 => size * d = 0
      OBVIOUS
    <3> QED BY <1>2, <2>2, <2>3, <3>1
  <2>5. ASSUME NEW page \in Nat, (page + 1) * size < total PROVE page + 1 < d
    <3>1. d <= page + 1 => size * d <= (page + 1) * size
      BY <2>2
    <3>2. size * d \in Nat /\ (page + 1) * size \in Nat
      BY <2>2
    <3> QED BY <2>2, <2>3, <2>5, <3>1, <3>2
  <2> QED BY <2>1, <2>2, <2>4, <2>5
<1> QED BY <1>1, <1>2

-----------------------------------------------------------------------------
(***************************************************************************)
(* The invariant.  Under an order without ties the rows before a row are   *)
(* its position, and the client has been through the first Passed(w)       *)
(* positions: what it has not seen lies behind them, if no row left the    *)
(* selection; what it has seen lies before them, if none entered it.       *)
(***************************************************************************)

Before(listing, x) == {j \in Selected(listing) : Precedes(listing, j, x)}

Walk == [at : {"asking", "counted", "answered"}, listing : Listings, size : Sizes,
         page : Nat, total : Nat, shown : SUBSET Ids, twice : SUBSET Ids, present : SUBSET Ids,
         left : BOOLEAN, entered : BOOLEAN, slipped : BOOLEAN, ordered : BOOLEAN]

Passed(w) == IF w.at = "answered" THEN (w.page + 1) * w.size ELSE w.page * w.size

\* The client asks for the first page or for one that the last answer announced.
Announced(w) == w.at = "asking" /\ w.page # 0 => w.page < total_pages(w.total, w.size)

Typed ==
    /\ rows \in [Ids -> Row \cup {NoRow}]
    /\ used \subseteq Ids /\ changes \in 0 .. MaxChanges
    /\ \A i \in Ids : Exists(i) => i \in used
    /\ walk # NoWalk => walk \in Walk /\ walk.twice \subseteq walk.shown /\ Announced(walk)

\* What the client has not been shown lies behind what it has been through.
UnseenBehind(w) ==
    /\ w.present \subseteq Selected(w.listing)
    /\ ~w.left /\ w.ordered =>
           \A x \in w.present \ w.shown : Cardinality(Before(w.listing, x)) >= Passed(w)

\* The envelope that the client was answered with announces it.
UnseenAnnounced(w) ==
    /\ w.at = "counted" /\ ~w.left /\ ~w.slipped =>
           w.total = Cardinality(Selected(w.listing))
    /\ w.at = "answered" /\ ~w.left /\ ~w.slipped /\ w.ordered /\ w.present \ w.shown # {} =>
           Passed(w) < w.total

\* What the client has been shown lies before it.
SeenBefore(w) ==
    ~w.entered /\ w.ordered =>
        /\ w.twice = {}
        /\ \A x \in w.shown \cap Selected(w.listing) :
               Cardinality(Before(w.listing, x)) < Passed(w)

PagesInv ==
    /\ Typed
    /\ walk # NoWalk => UnseenBehind(walk) /\ UnseenAnnounced(walk) /\ SeenBefore(walk)

-----------------------------------------------------------------------------
(* Rows and positions.                                                     *)

\* Selections are finite, and so is what comes before a row.
LEMMA FiniteSelected ==
    ASSUME NEW listing
    PROVE  /\ IsFiniteSet(Selected(listing)) /\ Cardinality(Selected(listing)) \in Nat
           /\ \A x : IsFiniteSet(Before(listing, x)) /\ Cardinality(Before(listing, x)) \in Nat
<1>1. Selected(listing) \in SUBSET Ids /\ \A x : Before(listing, x) \in SUBSET Ids
  BY DEF Selected, Before
<1> QED BY <1>1, IdAssumption, FS_Subset, FS_CardinalityType

\* The same after a step.
LEMMA FiniteAfter ==
    ASSUME NEW listing, NEW x
    PROVE  /\ IsFiniteSet(Before(listing, x)') /\ Cardinality(Before(listing, x)') \in Nat
           /\ IsFiniteSet(Selected(listing)') /\ Cardinality(Selected(listing)') \in Nat
<1>1. Selected(listing)' \in SUBSET Ids /\ Before(listing, x)' \in SUBSET Ids
  BY DEF Selected, Before
<1> QED BY <1>1, IdAssumption, FS_Subset, FS_CardinalityType

\* What a client has been through is a number of rows, more at every page.
LEMMA PassedType ==
    ASSUME NEW w \in Walk
    PROVE  /\ w.page \in Nat /\ w.size \in Nat \ {0} /\ w.total \in Nat
           /\ w.page * w.size \in Nat /\ (w.page + 1) * w.size \in Nat
           /\ w.page * w.size <= (w.page + 1) * w.size /\ Passed(w) \in Nat
<1>1. w.page \in Nat /\ w.size \in Nat \ {0} /\ w.total \in Nat
  <2>1. w.page \in Nat /\ w.size \in Sizes /\ w.total \in Nat
    BY DEF Walk
  <2>2. \A n \in Sizes : n \in Nat \ {0}
    BY SizeAssumption
  <2> QED BY <2>1, <2>2
<1>2. \A page \in Nat, size \in Nat :
        page * size \in Nat /\ (page + 1) * size \in Nat /\ page * size <= (page + 1) * size
  OBVIOUS
<1> QED BY <1>1, <1>2 DEF Passed

\* No row precedes itself.
LEMMA Irreflexive ==
    ASSUME Typed, NEW listing, NEW x \in Selected(listing)
    PROVE  ~Precedes(listing, x, x)
<1>1. x \in Nat /\ rows[x].day \in Nat
  BY IdAssumption DEF Typed, Selected, Exists, Row
<1>2. ~(x < x) /\ ~(x > x) /\ ~(rows[x].day < rows[x].day) /\ ~(rows[x].day > rows[x].day)
  BY <1>1
<1> QED BY <1>2, Zenon DEF Precedes

\* The content is cut out of the selection at two positions, or at its end.
CutAt(listing, content, from, to) ==
    \E A, B \in SUBSET Selected(listing) :
       /\ A \subseteq B /\ content = B \ A /\ Leading(listing, A) /\ Leading(listing, B)
       /\ Cardinality(A) <= from
       /\ Cardinality(A) < from => A = Selected(listing)
       /\ Cardinality(B) <= to
       /\ Cardinality(B) < to => B = Selected(listing)

\* Every page that the database may give is such a cut, from one offset to the next.
LEMMA PageCut ==
    ASSUME NEW listing, NEW page \in Nat, NEW size \in Nat \ {0},
           NEW content \in Pages(listing, page, size)
    PROVE  CutAt(listing, content, page * size, (page + 1) * size)
<1> DEFINE S == Selected(listing)
           n == Cardinality(S)
           lo == Least(offset(page, size), n)
           hi == Least(lo + size, n)
<1>1. PICK A \in SUBSET S, B \in SUBSET S :
        /\ A \subseteq B /\ content = B \ A /\ Leading(listing, A) /\ Leading(listing, B)
        /\ Cardinality(A) = lo /\ Cardinality(B) = hi
  BY DEF Pages
<1>2. IsFiniteSet(S) /\ n \in Nat
  BY FiniteSelected
<1>3. (Cardinality(A) = n => A = S) /\ (Cardinality(B) = n => B = S)
  BY <1>2, FS_Subset
<1>4. page * size \in Nat /\ (page + 1) * size = page * size + size
  OBVIOUS
<1> DEFINE passed == page * size
<1>5. passed \in Nat /\ lo = Least(passed, n) /\ (page + 1) * size = passed + size
  BY <1>4 DEF offset
<1> HIDE DEF S, n, lo, passed
<1>6. /\ lo \in Nat /\ lo <= passed /\ (lo < passed => lo = n)
      /\ hi \in Nat /\ hi <= passed + size /\ (hi < passed + size => hi = n)
  BY <1>2, <1>5 DEF Least
<1>7. CutAt(listing, content, passed, passed + size)
  BY <1>1, <1>3, <1>6 DEF S, CutAt
<1> QED BY <1>5, <1>7 DEF passed

\* Under an order without ties, a row of a leading set has all before it in
\* the set, and one outside has all of the set before it.
LEMMA Position ==
    ASSUME Typed, NEW listing, Ordered(listing), NEW R \in SUBSET Selected(listing),
           Leading(listing, R), NEW x \in Selected(listing)
    PROVE  IF x \in R THEN Cardinality(Before(listing, x)) < Cardinality(R)
           ELSE Cardinality(Before(listing, x)) >= Cardinality(R)
<1>1. IsFiniteSet(R) /\ IsFiniteSet(Before(listing, x))
  BY FiniteSelected, FS_Subset
<1>2. CASE x \in R
  <2>1. Before(listing, x) \in SUBSET (R \ {x})
    BY <1>2, Irreflexive DEF Before, Leading
  <2>2. IsFiniteSet(R \ {x}) /\ Cardinality(R \ {x}) = Cardinality(R) - 1 /\ Cardinality(R) \in Nat
    BY <1>1, <1>2, FS_RemoveElement, FS_CardinalityType
  <2>3. Cardinality(Before(listing, x)) <= Cardinality(R \ {x})
    BY <2>1, <2>2, FS_Subset
  <2>4. Cardinality(Before(listing, x)) \in Nat
    BY FiniteSelected
  <2> QED BY <1>2, <2>2, <2>3, <2>4
<1>3. CASE x \notin R
  <2>1. R \in SUBSET Before(listing, x)
    BY <1>3 DEF Before, Leading, Ordered
  <2>2. Cardinality(R) <= Cardinality(Before(listing, x))
    BY <1>1, <2>1, FS_Subset
  <2>3. Cardinality(R) \in Nat /\ Cardinality(Before(listing, x)) \in Nat
    BY <1>1, FS_CardinalityType
  <2> QED BY <1>3, <2>2, <2>3
<1> QED BY <1>2, <1>3

-----------------------------------------------------------------------------
(* The steps.                                                              *)

\* What a change does to the history of the walk.
LEMMA ChangedWalk ==
    ASSUME Typed, NEW i \in Ids, NEW after, Change(i, after), walk # NoWalk,
           NEW w, w = walk,
           NEW was \in BOOLEAN, was <=> i \in Selected(w.listing),
           NEW is \in BOOLEAN, is <=> after # NoRow /\ after.on \in w.listing.selects
    PROVE  \E v \in Walk :
             /\ walk' = v /\ v.at = w.at /\ v.listing = w.listing /\ v.size = w.size
             /\ v.page = w.page /\ v.total = w.total /\ v.shown = w.shown /\ v.twice = w.twice
             /\ v.ordered = w.ordered
             /\ v.present = IF is THEN w.present ELSE w.present \ {i}
             /\ v.left <=> w.left \/ (was /\ ~is)
             /\ v.entered <=> w.entered \/ (is /\ ~was)
             /\ v.slipped <=> w.slipped \/ (is /\ ~was /\ w.at = "counted")
<1> DEFINE v == [w EXCEPT !.present = IF is THEN @ ELSE @ \ {i},
                          !.left = @ \/ (was /\ ~is),
                          !.entered = @ \/ (is /\ ~was),
                          !.slipped = @ \/ (is /\ ~was /\ w.at = "counted")]
<1>1. w \in Walk
  BY DEF Typed
<1>2. walk' = Seen(i, after)
  BY DEF Change
<1>3. walk' = v
  BY <1>1, <1>2 DEF Seen, Walk
<1>4. /\ v.at = w.at /\ v.listing = w.listing /\ v.size = w.size
      /\ v.page = w.page /\ v.total = w.total /\ v.shown = w.shown /\ v.twice = w.twice
      /\ v.ordered = w.ordered
      /\ v.present = IF is THEN w.present ELSE w.present \ {i}
  BY <1>1 DEF Walk
<1>5. /\ v.left = (w.left \/ (was /\ ~is)) /\ v.entered = (w.entered \/ (is /\ ~was))
      /\ v.slipped = (w.slipped \/ (is /\ ~was /\ w.at = "counted"))
  BY <1>1 DEF Walk
<1>6. v \in Walk
  <2> DEFINE present == IF is THEN w.present ELSE w.present \ {i}
             left == w.left \/ (was /\ ~is)
             entered == w.entered \/ (is /\ ~was)
             slipped == w.slipped \/ (is /\ ~was /\ w.at = "counted")
  <2>1. v = [w EXCEPT !.present = present, !.left = left, !.entered = entered, !.slipped = slipped]
    OBVIOUS
  <2>2. /\ present \in SUBSET Ids
        /\ left \in BOOLEAN /\ entered \in BOOLEAN /\ slipped \in BOOLEAN
    BY <1>1 DEF Walk
  <2> HIDE DEF present, left, entered, slipped, v
  <2> QED BY <1>1, <2>1, <2>2 DEF Walk
<1> HIDE DEF v
<1> QED BY <1>3, <1>4, <1>5, <1>6

\* A change of a row: the others keep their places, and so does this one while
\* it stays selected.
LEMMA ChangeStep ==
    ASSUME PagesInv, NEW i \in Ids, NEW after \in Row \cup {NoRow}, Change(i, after),
           Exists(i) /\ after # NoRow => after.day = rows[i].day
    PROVE  PagesInv'
<1>1. /\ rows' \in [Ids -> Row \cup {NoRow}] /\ rows'[i] = after
      /\ \A j \in Ids \ {i} : rows'[j] = rows[j]
      /\ used' \subseteq Ids /\ changes' \in 0 .. MaxChanges
      /\ \A j \in Ids : Exists(j)' => j \in used'
  BY ChangeAssumption DEF PagesInv, Typed, Change, Exists
<1>2. CASE walk = NoWalk
  <2>1. walk' = NoWalk
    BY <1>2 DEF Change, Seen
  <2> QED BY <1>1, <2>1 DEF PagesInv, Typed
<1>3. CASE walk # NoWalk
  <2>1. PICK w, L : w = walk /\ L = w.listing
    OBVIOUS
  <2>2. PICK was \in BOOLEAN : was <=> i \in Selected(L)
    OBVIOUS
  <2>3. PICK is \in BOOLEAN : is <=> after # NoRow /\ after.on \in L.selects
    OBVIOUS
  <2>4. PICK v \in Walk :
          /\ walk' = v /\ v.at = w.at /\ v.listing = L /\ v.size = w.size
          /\ v.page = w.page /\ v.total = w.total /\ v.shown = w.shown /\ v.twice = w.twice
          /\ v.ordered = w.ordered
          /\ v.present = IF is THEN w.present ELSE w.present \ {i}
          /\ v.left <=> w.left \/ (was /\ ~is)
          /\ v.entered <=> w.entered \/ (is /\ ~was)
          /\ v.slipped <=> w.slipped \/ (is /\ ~was /\ w.at = "counted")
    <3>1. /\ Typed
          /\ was <=> i \in Selected(w.listing)
          /\ is <=> after # NoRow /\ after.on \in w.listing.selects
      BY <2>1, <2>2, <2>3 DEF PagesInv
    <3> QED BY <1>3, <2>1, <3>1, ChangedWalk
  <2>5. /\ w \in Walk /\ w.twice \subseteq w.shown /\ Announced(w)
        /\ UnseenBehind(w) /\ UnseenAnnounced(w) /\ SeenBefore(w)
    BY <1>3, <2>1 DEF PagesInv, Typed
  <2>6. Passed(v) = Passed(w)
    BY <2>4 DEF Passed
  <2>7. /\ i \in Selected(L)' <=> is
        /\ \A j \in Ids \ {i} : j \in Selected(L)' <=> j \in Selected(L)
        /\ Selected(L) \subseteq Ids /\ Selected(L)' \subseteq Ids
    BY <1>1, <2>3 DEF Selected, Exists
  <2>8. \A j \in Selected(L), x \in Selected(L) :
          j \in Selected(L)' /\ x \in Selected(L)' => (Precedes(L, j, x)' <=> Precedes(L, j, x))
    <3>1. \A j \in Selected(L) : j \in Selected(L)' => rows'[j].day = rows[j].day
      BY <1>1, <2>7 DEF Selected, Exists
    <3> QED BY <3>1 DEF Precedes
  <2>9. Typed'
    <3>1. v.twice \subseteq v.shown /\ v \in Walk /\ Announced(v)
      BY <2>4, <2>5 DEF Announced
    <3> QED BY <1>1, <2>4, <3>1 DEF Typed, Announced
  <2>10. UnseenBehind(v)'
    <3>1. v.present \subseteq Selected(L)'
      BY <2>1, <2>4, <2>5, <2>7 DEF UnseenBehind
    <3>2. ASSUME ~v.left, v.ordered, NEW x \in v.present \ v.shown
          PROVE  Cardinality(Before(L, x)') >= Passed(v)
      <4>1. /\ ~w.left /\ w.ordered /\ x \in w.present \ w.shown /\ x \in Selected(L)
            /\ x \in Selected(L)' /\ (was => is)
        BY <2>1, <2>4, <2>5, <3>1, <3>2 DEF UnseenBehind
      <4>2. Cardinality(Before(L, x)) >= Passed(w)
        BY <2>1, <2>5, <4>1 DEF UnseenBehind
      <4>3. Selected(L) \subseteq Selected(L)'
        BY <2>2, <2>7, <4>1
      <4>4. Before(L, x) \in SUBSET (Before(L, x)')
        BY <2>8, <4>1, <4>3 DEF Before
      <4>5. IsFiniteSet(Before(L, x)') /\ Cardinality(Before(L, x)') \in Nat
            /\ Cardinality(Before(L, x)) \in Nat
        BY FiniteSelected, FiniteAfter
      <4>6. Cardinality(Before(L, x)) <= Cardinality(Before(L, x)')
        BY <4>4, <4>5, FS_Subset
      <4>7. Passed(w) \in Nat
        BY <2>5, PassedType
      <4> QED BY <2>6, <4>2, <4>5, <4>6, <4>7
    <3> QED BY <2>4, <3>1, <3>2 DEF UnseenBehind
  <2>11. UnseenAnnounced(v)'
    <3>1. ASSUME v.at = "counted", ~v.left, ~v.slipped
          PROVE  v.total = Cardinality(Selected(L)')
      <4>1. w.at = "counted" /\ ~w.left /\ ~w.slipped /\ (was <=> is)
        BY <2>4, <3>1
      <4>2. Selected(L)' = Selected(L)
        BY <2>2, <2>7, <4>1
      <4> QED BY <2>1, <2>4, <2>5, <4>1, <4>2 DEF UnseenAnnounced
    <3>2. ASSUME v.at = "answered", ~v.left, ~v.slipped, v.ordered, v.present \ v.shown # {}
          PROVE  Passed(v) < v.total
      <4>1. w.at = "answered" /\ ~w.left /\ ~w.slipped /\ w.ordered /\ w.present \ w.shown # {}
        BY <2>4, <3>2
      <4> QED BY <2>4, <2>5, <2>6, <4>1 DEF UnseenAnnounced
    <3> QED BY <2>4, <3>1, <3>2 DEF UnseenAnnounced
  <2>12. SeenBefore(v)'
    <3> SUFFICES ASSUME ~v.entered, v.ordered
                 PROVE  /\ v.twice = {}
                        /\ \A x \in v.shown \cap Selected(L)' :
                               Cardinality(Before(L, x)') < Passed(v)
      BY <2>4 DEF SeenBefore
    <3>1. ~w.entered /\ w.ordered /\ (is => was)
      BY <2>4
    <3>2. Selected(L)' \subseteq Selected(L)
      BY <2>2, <2>7, <3>1
    <3>3. w.twice = {} /\ \A x \in w.shown \cap Selected(L) : Cardinality(Before(L, x)) < Passed(w)
      BY <2>1, <2>5, <3>1 DEF SeenBefore
    <3>4. ASSUME NEW x \in v.shown \cap Selected(L)'
          PROVE  Cardinality(Before(L, x)') < Passed(v)
      <4>1. Cardinality(Before(L, x)) < Passed(w)
        BY <2>4, <3>2, <3>3
      <4>2. Before(L, x)' \in SUBSET Before(L, x)
        BY <2>8, <3>2 DEF Before
      <4>3. IsFiniteSet(Before(L, x)) /\ Cardinality(Before(L, x)) \in Nat
            /\ Cardinality(Before(L, x)') \in Nat
        BY FiniteSelected, FiniteAfter
      <4>4. Cardinality(Before(L, x)') <= Cardinality(Before(L, x))
        BY <4>2, <4>3, FS_Subset
      <4>5. Passed(w) \in Nat
        BY <2>5, PassedType
      <4> QED BY <2>6, <4>1, <4>3, <4>4, <4>5
    <3> QED BY <2>4, <3>3, <3>4
  <2> QED BY <2>4, <2>9, <2>10, <2>11, <2>12 DEF PagesInv
<1> QED BY <1>2, <1>3

\* Nothing is known of a row's position at the start of a walk, and nothing
\* needs to be: no row was passed and none was shown.
LEMMA BeginStep ==
    ASSUME PagesInv, NEW listing \in Listings, NEW size \in Sizes, Begin(listing, size)
    PROVE  PagesInv'
<1>0. PICK v : v = [at |-> "asking", listing |-> listing, size |-> size, page |-> 0, total |-> 0,
                    shown |-> {}, twice |-> {}, present |-> Selected(listing),
                    left |-> FALSE, entered |-> FALSE, slipped |-> FALSE, ordered |-> TRUE]
  OBVIOUS
<1>1. walk' = v /\ UNCHANGED <<rows, used, changes>>
  BY <1>0 DEF Begin
<1>2. /\ v \in Walk /\ v.at = "asking" /\ v.listing = listing /\ v.page = 0
      /\ v.shown = {} /\ v.twice = {} /\ v.present = Selected(listing)
  BY <1>0 DEF Walk, Selected
<1>3. Passed(v) = 0
  <2>1. v.size \in Nat
    BY <1>2, PassedType
  <2> QED BY <1>2, <2>1 DEF Passed
<1>4. Typed'
  BY <1>1, <1>2 DEF PagesInv, Typed, Exists, Announced
<1>5. UnseenBehind(v) /\ UnseenAnnounced(v) /\ SeenBefore(v)
  BY <1>2, <1>3, FiniteSelected DEF UnseenBehind, UnseenAnnounced, SeenBefore
<1>6. (UnseenBehind(v) /\ UnseenAnnounced(v) /\ SeenBefore(v))'
  BY <1>1, <1>5 DEF UnseenBehind, UnseenAnnounced, SeenBefore, Before, Selected, Precedes, Exists
<1> QED BY <1>1, <1>4, <1>6 DEF PagesInv

\* The COUNT.
LEMMA CountStep ==
    ASSUME PagesInv, Count
    PROVE  PagesInv'
<1>1. PICK w, L : w = walk /\ L = w.listing
  OBVIOUS
<1>2. /\ w \in Walk /\ w.twice \subseteq w.shown /\ w.at = "asking"
      /\ UnseenBehind(w) /\ UnseenAnnounced(w) /\ SeenBefore(w)
  BY <1>1 DEF PagesInv, Typed, Count
<1>3. PICK n \in Nat, o \in BOOLEAN :
        n = Cardinality(Selected(L)) /\ (o <=> w.ordered /\ Ordered(L))
  BY FiniteSelected
<1> DEFINE v == [w EXCEPT !.at = "counted", !.total = n, !.ordered = o]
<1>4. walk' = v /\ UNCHANGED <<rows, used, changes>>
  BY <1>1, <1>2, <1>3 DEF Count, Walk
<1>5. /\ v \in Walk /\ v.at = "counted" /\ v.listing = L /\ v.size = w.size /\ v.page = w.page
      /\ v.total = n /\ v.shown = w.shown /\ v.twice = w.twice /\ v.present = w.present
      /\ v.left = w.left /\ v.entered = w.entered /\ v.slipped = w.slipped /\ v.ordered = o
  BY <1>1, <1>2 DEF Walk
<1> HIDE DEF v
<1>6. Passed(v) = Passed(w)
  BY <1>2, <1>5 DEF Passed
<1>7. Typed'
  BY <1>2, <1>4, <1>5 DEF PagesInv, Typed, Exists, Announced
<1>8. UnseenBehind(v) /\ UnseenAnnounced(v) /\ SeenBefore(v)
  BY <1>1, <1>2, <1>3, <1>5, <1>6 DEF UnseenBehind, UnseenAnnounced, SeenBefore
<1>9. (UnseenBehind(v) /\ UnseenAnnounced(v) /\ SeenBefore(v))'
  BY <1>4, <1>8 DEF UnseenBehind, UnseenAnnounced, SeenBefore, Before, Selected, Precedes, Exists
<1> QED BY <1>4, <1>7, <1>9 DEF PagesInv

\* The page query: under an order without ties the page is cut at the
\* positions that the client has been through, and ends at the next ones.
LEMMA QueryStep ==
    ASSUME PagesInv, Query
    PROVE  PagesInv'
<1>1. PICK w, L : w = walk /\ L = w.listing
  OBVIOUS
<1>2. /\ w \in Walk /\ w.twice \subseteq w.shown /\ w.at = "counted" /\ Typed
      /\ UnseenBehind(w) /\ UnseenAnnounced(w) /\ SeenBefore(w)
  BY <1>1 DEF PagesInv, Typed, Query
<1>3. PICK content \in Pages(L, w.page, w.size) :
        /\ walk' = [w EXCEPT !.at = "answered", !.shown = @ \cup content,
                             !.twice = @ \cup (content \cap w.shown),
                             !.ordered = @ /\ Ordered(L)]
        /\ UNCHANGED <<rows, used, changes>>
  BY <1>1 DEF Query
<1>4. PICK o \in BOOLEAN : o <=> w.ordered /\ Ordered(L)
  OBVIOUS
<1> DEFINE v == [w EXCEPT !.at = "answered", !.shown = w.shown \cup content,
                          !.twice = w.twice \cup (content \cap w.shown), !.ordered = o]
<1>5. walk' = v
  BY <1>2, <1>3, <1>4 DEF Walk
<1>6. content \subseteq Ids
  BY DEF Pages, Selected
<1>7. /\ v \in Walk /\ v.at = "answered" /\ v.listing = L /\ v.size = w.size /\ v.page = w.page
      /\ v.total = w.total /\ v.shown = w.shown \cup content
      /\ v.twice = w.twice \cup (content \cap w.shown) /\ v.present = w.present
      /\ v.left = w.left /\ v.entered = w.entered /\ v.slipped = w.slipped /\ v.ordered = o
  BY <1>1, <1>2, <1>6 DEF Walk
<1> HIDE DEF v
<1> DEFINE from == w.page * w.size
           to == (w.page + 1) * w.size
<1>8. /\ from \in Nat /\ to \in Nat /\ from <= to /\ Passed(w) = from /\ Passed(v) = to
      /\ w.page \in Nat /\ w.size \in Nat \ {0}
  BY <1>2, <1>7, PassedType DEF Passed
<1>9. PICK A, B \in SUBSET Selected(L) :
        /\ A \subseteq B /\ content = B \ A /\ Leading(L, A) /\ Leading(L, B)
        /\ Cardinality(A) <= from /\ (Cardinality(A) < from => A = Selected(L))
        /\ Cardinality(B) <= to /\ (Cardinality(B) < to => B = Selected(L))
  <2>1. CutAt(L, content, from, to)
    BY <1>8, PageCut
  <2> HIDE DEF from, to
  <2> QED BY <2>1 DEF CutAt
<1> HIDE DEF from, to
<1>10. /\ Cardinality(A) \in Nat /\ Cardinality(B) \in Nat /\ Cardinality(Selected(L)) \in Nat
       /\ \A x : Cardinality(Before(L, x)) \in Nat
  BY <1>9, FiniteSelected, FS_Subset, FS_CardinalityType
<1>11. ASSUME Ordered(L), NEW x \in Selected(L)
       PROVE  /\ x \in content => /\ from <= Cardinality(Before(L, x))
                                  /\ Cardinality(Before(L, x)) < to
              /\ x \notin content /\ from <= Cardinality(Before(L, x)) =>
                     /\ to <= Cardinality(Before(L, x))
                     /\ Cardinality(Before(L, x)) < Cardinality(Selected(L))
  <2>1. /\ IF x \in A THEN Cardinality(Before(L, x)) < Cardinality(A)
           ELSE Cardinality(Before(L, x)) >= Cardinality(A)
        /\ IF x \in B THEN Cardinality(Before(L, x)) < Cardinality(B)
           ELSE Cardinality(Before(L, x)) >= Cardinality(B)
    BY <1>2, <1>9, <1>11, Position
  <2>2. Cardinality(Before(L, x)) < Cardinality(Selected(L))
    <3>1. Leading(L, Selected(L)) /\ Selected(L) \in SUBSET Selected(L)
      BY DEF Leading
    <3> QED BY <1>2, <1>11, <3>1, Position
  <2> QED BY <1>8, <1>9, <1>10, <2>1, <2>2
<1>12. Typed'
  <2>1. v.twice \subseteq v.shown
    BY <1>2, <1>7
  <2> QED BY <1>3, <1>5, <1>7, <2>1 DEF PagesInv, Typed, Exists, Announced
<1>13. UnseenBehind(v)
  BY <1>1, <1>2, <1>4, <1>7, <1>8, <1>11 DEF UnseenBehind
<1>14. UnseenAnnounced(v)
  <2> SUFFICES ASSUME ~v.left, ~v.slipped, v.ordered, NEW x \in v.present \ v.shown
               PROVE  to < v.total
    BY <1>7, <1>8 DEF UnseenAnnounced
  <2>1. Ordered(L) /\ w.ordered /\ x \in Selected(L) /\ x \notin content /\ x \notin w.shown
    BY <1>1, <1>2, <1>4, <1>7 DEF UnseenBehind
  <2>2. from <= Cardinality(Before(L, x))
    BY <1>1, <1>2, <1>7, <1>8, <1>10, <2>1 DEF UnseenBehind
  <2>3. v.total = Cardinality(Selected(L))
    BY <1>1, <1>2, <1>7 DEF UnseenAnnounced
  <2>4. to <= Cardinality(Before(L, x)) /\ Cardinality(Before(L, x)) < Cardinality(Selected(L))
    BY <1>11, <2>1, <2>2
  <2> QED BY <1>8, <1>10, <2>3, <2>4
<1>15. SeenBefore(v)
  <2> SUFFICES ASSUME ~v.entered, v.ordered
               PROVE  /\ v.twice = {}
                      /\ \A x \in v.shown \cap Selected(L) : Cardinality(Before(L, x)) < to
    BY <1>7, <1>8 DEF SeenBefore
  <2>1. Ordered(L) /\ w.ordered /\ ~w.entered
    BY <1>4, <1>7
  <2>2. w.twice = {} /\ \A x \in w.shown \cap Selected(L) : Cardinality(Before(L, x)) < from
    BY <1>1, <1>2, <1>8, <2>1 DEF SeenBefore
  <2>3. content \subseteq Selected(L)
    BY <1>9
  <2>4. content \cap w.shown = {}
    <3> SUFFICES ASSUME NEW x \in content \cap w.shown PROVE FALSE
      OBVIOUS
    <3>1. Cardinality(Before(L, x)) < from /\ from <= Cardinality(Before(L, x))
      BY <1>11, <2>1, <2>2, <2>3
    <3> QED BY <1>8, <1>10, <3>1
  <2>5. ASSUME NEW x \in v.shown \cap Selected(L) PROVE Cardinality(Before(L, x)) < to
    <3>1. CASE x \in content
      BY <1>11, <2>1, <2>5, <3>1
    <3>2. CASE x \in w.shown
      <4>1. Cardinality(Before(L, x)) < from
        BY <2>2, <2>5, <3>2
      <4> QED BY <1>8, <1>10, <4>1
    <3> QED BY <1>7, <2>5, <3>1, <3>2
  <2> QED BY <1>7, <2>2, <2>4, <2>5
<1>16. (UnseenBehind(v) /\ UnseenAnnounced(v) /\ SeenBefore(v))'
  BY <1>3, <1>13, <1>14, <1>15
     DEF UnseenBehind, UnseenAnnounced, SeenBefore, Before, Selected, Precedes, Exists
<1> QED BY <1>5, <1>12, <1>16 DEF PagesInv

\* The next page begins where the last one ended.
LEMMA NextPageStep ==
    ASSUME PagesInv, NextPage
    PROVE  PagesInv'
<1>1. PICK w : w = walk
  OBVIOUS
<1>2. /\ w \in Walk /\ w.twice \subseteq w.shown /\ w.at = "answered"
      /\ UnseenBehind(w) /\ UnseenAnnounced(w) /\ SeenBefore(w)
  BY <1>1 DEF PagesInv, Typed, NextPage
<1>3. PICK p \in Nat : p = w.page + 1
  BY <1>2, PassedType
<1> DEFINE v == [w EXCEPT !.at = "asking", !.page = p]
<1>4. walk' = v /\ UNCHANGED <<rows, used, changes>>
  BY <1>1, <1>2, <1>3 DEF NextPage, Walk
<1>5. /\ v \in Walk /\ v.at = "asking" /\ v.listing = w.listing /\ v.size = w.size
      /\ v.page = w.page + 1
      /\ v.total = w.total /\ v.shown = w.shown /\ v.twice = w.twice /\ v.present = w.present
      /\ v.left = w.left /\ v.entered = w.entered /\ v.slipped = w.slipped
      /\ v.ordered = w.ordered
  BY <1>2, <1>3 DEF Walk
<1> HIDE DEF v
<1>6. Passed(v) = Passed(w)
  BY <1>2, <1>5 DEF Passed
<1>7. Typed'
  <2>1. w.page + 1 < total_pages(w.total, w.size)
    BY <1>1 DEF NextPage, More, has_next
  <2>2. Announced(v)
    BY <1>5, <2>1 DEF Announced
  <2> QED BY <1>2, <1>4, <1>5, <2>2 DEF PagesInv, Typed, Exists, Announced
<1>8. UnseenBehind(v) /\ UnseenAnnounced(v) /\ SeenBefore(v)
  BY <1>2, <1>5, <1>6 DEF UnseenBehind, UnseenAnnounced, SeenBefore
<1>9. (UnseenBehind(v) /\ UnseenAnnounced(v) /\ SeenBefore(v))'
  BY <1>4, <1>8 DEF UnseenBehind, UnseenAnnounced, SeenBefore, Before, Selected, Precedes, Exists
<1> QED BY <1>4, <1>7, <1>9 DEF PagesInv

\* Every state satisfies the invariant.
LEMMA Invariance == Spec => []PagesInv
<1>1. Init => PagesInv
  <2> SUFFICES ASSUME Init PROVE PagesInv
    OBVIOUS
  <2>1. /\ rows \in [Ids -> Row \cup {NoRow}] /\ used \subseteq Ids /\ walk = NoWalk
        /\ changes = 0 /\ \A i \in Ids : Exists(i) => i \in used
    BY DEF Init, InitialRows
  <2> QED BY <2>1, ChangeAssumption DEF PagesInv, Typed
<1>2. PagesInv /\ [Next]_vars => PagesInv'
  <2> SUFFICES ASSUME PagesInv, [Next]_vars PROVE PagesInv'
    OBVIOUS
  <2>1. ASSUME NEW i \in Ids, NEW row \in Row, Insert(i, row) PROVE PagesInv'
    <3>1. ~Exists(i) /\ Change(i, row)
      BY <2>1 DEF Insert, PagesInv, Typed
    <3> QED BY <3>1, ChangeStep
  <2>2. ASSUME NEW i \in Ids, Turn(i) PROVE PagesInv'
    <3>1. rows[i] \in Row
      BY <2>2 DEF Turn, Exists, PagesInv, Typed
    <3> DEFINE after == [rows[i] EXCEPT !.on = ~@]
    <3>2. after \in Row /\ after.day = rows[i].day /\ Change(i, after)
      BY <2>2, <3>1 DEF Turn, Row
    <3> HIDE DEF after
    <3> QED BY <3>2, ChangeStep
  <2>3. ASSUME NEW i \in Ids, Delete(i) PROVE PagesInv'
    BY <2>3, ChangeStep DEF Delete
  <2>4. CASE Finish
    BY <2>4 DEF Finish, PagesInv, Typed, Exists
  <2>5. CASE UNCHANGED vars
    BY <2>5 DEF vars, PagesInv, Typed, Announced, UnseenBehind, UnseenAnnounced, SeenBefore, Before,
       Selected, Precedes, Exists
  <2> QED BY <2>1, <2>2, <2>3, <2>4, <2>5, BeginStep, CountStep, QueryStep, NextPageStep DEF Next
<1> QED BY <1>1, <1>2, PTL DEF Spec

-----------------------------------------------------------------------------
(* The properties.                                                         *)

\* Rows are rows, a client asks for the first page or one that the answer before
\* announced, and every answer announces a page at least, however many rows there are.
THEOREM TypeCorrect == Spec => []TypeOK
<1>1. PagesInv => TypeOK
  <2> SUFFICES ASSUME PagesInv PROVE TypeOK
    OBVIOUS
  <2>1. /\ \A i \in Ids : rows[i] \in Row \cup {NoRow}
        /\ used \subseteq Ids /\ changes \in 0 .. MaxChanges
    BY DEF PagesInv, Typed
  <2>2. ASSUME walk # NoWalk
        PROVE  /\ walk.at \in {"asking", "counted", "answered"} /\ walk.listing \in Listings
               /\ walk.size \in Sizes /\ walk.page \in Nat
               /\ walk.twice \subseteq walk.shown /\ walk.shown \subseteq Ids
               /\ walk.at = "asking" /\ walk.page # 0 =>
                      walk.page < total_pages(walk.total, walk.size)
               /\ total_pages(walk.total, walk.size) \in Nat \ {0}
    <3>1. PICK w : w = walk
      OBVIOUS
    <3>2. w \in Walk /\ w.twice \subseteq w.shown /\ Announced(w)
      BY <2>2, <3>1 DEF PagesInv, Typed
    <3>3. total_pages(w.total, w.size) \in Nat \ {0}
      BY <3>2, PassedType, Rounding
    <3> QED BY <3>1, <3>2, <3>3 DEF Walk, Announced
  <2> QED BY <2>1, <2>2 DEF TypeOK
<1> QED BY <1>1, Invariance, PTL

\* A client that follows has_next to its end has seen every row that was there
\* all along, unless a row left, one slipped in between the COUNT and the
\* query, or the order had ties.
THEOREM NothingMissed == Spec => []MissedOnlyByChange
<1>1. PagesInv => MissedOnlyByChange
  <2> SUFFICES ASSUME PagesInv, Over, ~walk.left, ~walk.slipped, walk.ordered,
                      ~(walk.present \subseteq walk.shown)
               PROVE  FALSE
    BY DEF MissedOnlyByChange
  <2>1. PICK w : w = walk
    OBVIOUS
  <2>2. w \in Walk /\ UnseenAnnounced(w) /\ w.at = "answered" /\ w.present \ w.shown # {}
        /\ ~has_next(w.page, w.total, w.size)
    BY <2>1 DEF PagesInv, Typed, Over, More
  <2>3. (w.page + 1) * w.size < w.total
    BY <2>1, <2>2 DEF UnseenAnnounced, Passed
  <2>4. w.page \in Nat /\ w.size \in Nat \ {0} /\ w.total \in Nat
    BY <2>2, PassedType
  <2> QED BY <2>2, <2>3, <2>4, Rounding DEF has_next
<1> QED BY <1>1, Invariance, PTL

\* It has seen no row twice, unless a row entered or the order had ties.
THEOREM NothingRepeated == Spec => []RepeatedOnlyByEntry
<1>1. PagesInv => RepeatedOnlyByEntry
  BY DEF PagesInv, SeenBefore, RepeatedOnlyByEntry
<1> QED BY <1>1, Invariance, PTL

=============================================================================
