------------------------------ MODULE Listing ------------------------------
(***************************************************************************)
(* The read side: versions filtered, ordered, cut into pages and counted,  *)
(* for the API in several statements and for the downloads page in one, and *)
(* the bar of page links under it.                                         *)
(***************************************************************************)
EXTENDS Integers, Sequences, FiniteSets, FiniteSetsExt, SequencesExt

CONSTANTS MaxLimit,       \* MaxVersionsPageLimit
          BuildsPerPage,  \* of the downloads page
          Window          \* paginationWindow, greater than the ellipsis threshold

ASSUME ListingAssumption == /\ MaxLimit \in Nat \ {0}
                            /\ BuildsPerPage \in Nat \ {0}
                            /\ Window \in Nat /\ Window > 3

\* "No such parameter", and an answer 400.
None       == -1
BadRequest == [entries |-> <<>>, total |-> None]

-----------------------------------------------------------------------------
(* Filters.  A row has an id, an order, a flag and tags; a tag's value is   *)
(* the sequence of what its dots separate.                                  *)

\* Equal, or a prefix that ends at a dot.
TagMatches(value, filter) == IsPrefix(filter, value)

\* API: the rows whose matching tags are as many as the filter's.
MatchesByCount(row, tags) ==
    Cardinality({k \in DOMAIN row.tags \cap DOMAIN tags : TagMatches(row.tags[k], tags[k])})
      = Cardinality(DOMAIN tags)

\* Downloads page: a subquery for each tag.
MatchesByExists(row, tags) ==
    \A k \in DOMAIN tags : k \in DOMAIN row.tags /\ TagMatches(row.tags[k], tags[k])

\* The optional filter on the flag: rows of one value, or of both.
Wanted(row, query) == row.recommended \in query.recommended

Filtered(rows, query) ==
    {row \in rows : Wanted(row, query) /\ MatchesByCount(row, query.tags)}

FilteredBuilds(rows, query) ==
    {row \in rows : Wanted(row, query) /\ MatchesByExists(row, query.tags)}

\* ORDER BY sort_order DESC: rows of one order come in any.
Orderings(rows) ==
    {s \in SetToSeqs(rows) : \A i \in 1..(Len(s) - 1) : s[i].order >= s[i + 1].order}

\* Mutant: the page that follows starts with the row the last one ended with.
Page_Overlaps(s, limit, offset) ==
    SubSeq(s, Max({offset, 1}), Min({offset + limit, Len(s)}))

\* LIMIT, OFFSET.
Page(s, limit, offset) == SubSeq(s, offset + 1, Min({offset + limit, Len(s)}))

-----------------------------------------------------------------------------
(* Requests. *)

\* ListVersionsFiltered: every page the rows may give.
ListVersionsFiltered(rows, query, limit, offset) ==
    {Page(s, limit, offset) : s \in Orderings(Filtered(rows, query))}

CountVersionsFiltered(rows, query) ==
    Cardinality(Filtered(rows, query))

\* Mutant: the count is read before the page.
GetVersionsOf_CountFirst(first, second, query, limit, offset) ==
    {[entries |-> page, total |-> CountVersionsFiltered(first, query)] :
        page \in ListVersionsFiltered(second, query, limit, offset)}

\* Service.GetVersions: the page from the rows at first, the total from those at
\* second; a page that is empty is not counted.
GetVersionsOf(first, second, query, limit, offset) ==
    {[entries |-> page,
      total   |-> IF page = <<>> THEN 0 ELSE CountVersionsFiltered(second, query)] :
        page \in ListVersionsFiltered(first, query, limit, offset)}

\* Handler.GetVersions: a limit is cut to the greatest, which is also the
\* default.
GetVersions(first, second, query, limit, offset) ==
    IF limit \notin {None} \cup 1..limit \/ offset \notin {None} \cup 0..offset THEN {BadRequest}
    ELSE GetVersionsOf(first, second, query,
                       IF limit = None THEN MaxLimit ELSE Min({limit, MaxLimit}),
                       IF offset = None THEN 0 ELSE offset)

\* Handler.GetLatestVersion: the first of a page of one, or nothing.
GetLatestVersion(rows, query) ==
    {result.entries : result \in GetVersionsOf(rows, rows, query, 1, 0)}

\* ListVersionsWithAssets: one statement; the total comes with the rows, so a
\* page that is empty has none.
ListVersionsWithAssets(rows, query, limit, offset) ==
    {[entries |-> Page(s, limit, offset),
      total   |-> IF Page(s, limit, offset) = <<>> THEN 0 ELSE Len(s)] :
        s \in Orderings(FilteredBuilds(rows, query))}

\* fetchRecommendedBuild and fetchPaginatedBuilds.
FetchRecommendedBuild(rows, tags) ==
    {result.entries : result \in
        ListVersionsWithAssets(rows, [recommended |-> {TRUE}, tags |-> tags], 1, 0)}

FetchPaginatedBuilds(rows, tags, offset) ==
    ListVersionsWithAssets(rows, [recommended |-> BOOLEAN, tags |-> tags],
                           BuildsPerPage, offset)

-----------------------------------------------------------------------------
(* Page links. *)

CurrentPage(offset) == offset \div BuildsPerPage + 1
TotalPages(total)   == (total + BuildsPerPage - 1) \div BuildsPerPage

\* The window before its ends are mended: where it starts, how many links it
\* has, and where dots are put.
PageWindow(current, pages) ==
    CASE pages <= Window ->
           [start |-> 1, links |-> pages, first |-> FALSE, last |-> FALSE]
      [] pages > Window /\ current < Window - 1 ->
           [start |-> 1, links |-> Window, first |-> FALSE, last |-> TRUE]
      [] pages > Window /\ current >= Window - 1 /\ pages - current + 2 < Window ->
           [start |-> pages - Window + 1, links |-> Window, first |-> TRUE, last |-> FALSE]
      [] OTHER ->
           [start |-> current - (Window - 2) \div 2, links |-> Window - 2,
            first |-> TRUE, last |-> TRUE]

Clamp(w, pages) ==
    CASE w.start < 1 -> [w EXCEPT !.start = 1, !.first = FALSE]
      [] w.start >= 1 /\ w.start > pages - w.links ->
           [w EXCEPT !.start = pages - w.links + 1, !.last = FALSE]
      [] OTHER -> w

\* Mutant: only dots that hide nothing are replaced.
CollapseFirst_Late(w) == IF w.first /\ w.start < 3
                         THEN [w EXCEPT !.links = @ + 2, !.start = 1, !.first = FALSE]
                         ELSE w

\* Dots next to page 1 are replaced by the pages they hide.
CollapseFirst(w) == IF w.first /\ w.start < 4
                    THEN [w EXCEPT !.links = @ + 2, !.start = 1, !.first = FALSE]
                    ELSE w

End(w) == w.start + w.links - 1

\* The same at the other end.
CollapseLast(w, pages) ==
    IF w.last /\ End(w) > pages - 3
    THEN [w EXCEPT !.links = @ + (IF End(w) = pages - 2 THEN 2 ELSE 3), !.last = FALSE]
    ELSE w

Dots == 0

BuildPageList(current, pages) ==
    LET mended == CollapseLast(CollapseFirst(Clamp(PageWindow(current, pages), pages)), pages)
        w      == [mended EXCEPT !.links = Min({@, pages - mended.start + 1})]
        Only(test, link) == IF test THEN <<link>> ELSE <<>>
    IN  Only(w.start # 1, 1) \o Only(w.first, Dots)
          \o [i \in 1..w.links |-> w.start + i - 1]
          \o Only(w.last, Dots) \o Only(End(w) # pages, pages)

ComputePagination(offset, total) ==
    LET current == CurrentPage(offset)
        pages   == TotalPages(total)
    IN  [links |-> BuildPageList(current, pages),
         previous |-> IF current > 1 THEN (current - 2) * BuildsPerPage ELSE None,
         next |-> IF current < pages THEN current * BuildsPerPage ELSE None]

-----------------------------------------------------------------------------
(* Properties. *)

\* Followed page by page, rows of different orders appear once each and newest
\* first, whatever the limit; so they do on the downloads page, which filters
\* with another statement; and both agree on the latest.
PagesCover(rows, query, limit) ==
    LET all == Filtered(rows, query)
        Pages(n) == [i \in 1..n |-> CHOOSE r \in GetVersions(rows, rows, query, limit,
                                                   (i - 1) * limit) : TRUE]
        listed  == FlattenSeq([i \in 1..(Cardinality(all) + 1) |->
                                  Pages(Cardinality(all) + 1)[i].entries])
        builds  == FlattenSeq([i \in 1..(Cardinality(all) + 1) |->
                      (CHOOSE r \in FetchPaginatedBuilds(rows, query.tags,
                                      (i - 1) * BuildsPerPage) : TRUE).entries])
    IN  (\A r, s \in rows : r.order = s.order => r = s) =>
          /\ {listed} = Orderings(all)
          /\ query.recommended = BOOLEAN => builds = listed
          /\ query.recommended = {TRUE} =>
               FetchRecommendedBuild(rows, query.tags) = GetLatestVersion(rows, query)

Ids(rows) == {row.id : row \in rows}

\* The rows a query wanted when the page was read and no longer does when the total
\* is: their flag or tags have been changed in between.
Lost(first, second, query) ==
    Ids(Filtered(first, query)) \ Ids(Filtered(second, query))

\* A page goes past its total by no more rows than the query lost meanwhile, and so
\* never without a filter: what is added, or ordered anew, makes no difference.
TotalCoversPage(first, second, query, limit, offset) ==
    \A result \in GetVersions(first, second, query, limit, offset) :
        result.entries # <<>> =>
          /\ offset + Len(result.entries)
               <= result.total + Cardinality(Lost(first, second, query))
          /\ query.recommended = BOOLEAN /\ DOMAIN query.tags = {} =>
               offset + Len(result.entries) <= result.total

\* The bar has the first, the last and the current page and is increasing; dots
\* stand for two pages or more and nothing else is left out; the offsets of
\* "previous" and "next" are those of pages that have builds.
PageBarSound(offset, total) ==
    LET bar == ComputePagination(offset, total)
        n   == Len(bar.links)
    IN  /\ bar.links[1] = 1 /\ bar.links[n] = TotalPages(total)
        /\ CurrentPage(offset) \in Range(bar.links)
        /\ \A i \in 1..(n - 1) :
             \/ bar.links[i] # Dots /\ bar.links[i + 1] = bar.links[i] + 1
             \/ Dots \in {bar.links[i], bar.links[i + 1]}
        /\ \A i \in 2..(n - 1) : bar.links[i] = Dots =>
             bar.links[i + 1] - bar.links[i - 1] > 2
        /\ bar.previous = None \/ bar.previous \in 0..offset
        /\ bar.next = None \/ bar.next \in (offset + 1)..(total - 1)
=============================================================================
