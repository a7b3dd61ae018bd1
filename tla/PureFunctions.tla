--------------------------- MODULE PureFunctions ---------------------------
(***************************************************************************)
(* The functions of VersionCompare, Changelogs and Listing on every one of *)
(* a bounded set of inputs: a state is one input, and each property says   *)
(* what a function makes of it.                                            *)
(***************************************************************************)
EXTENDS VersionCompare, Changelogs, Listing

CONSTANTS Text,          \* texts of versions of an artifact with a schema
          SimpleText,    \* texts of versions of an artifact without a schema
          VersionSchema, \* its variants
          Commits,       \* commits of a history
          Times,         \* committer times
          Pointer,       \* submodule pointers of a version
          Versions,      \* consecutive versions
          Row,           \* what a row of an artifact may hold
          Changing,      \* those of Row that rows hold which change under a request
          Tags,          \* tag filters
          MaxRows,       \* rows of an artifact
          MaxChanging,   \* rows of an artifact that change under a request
          MaxTotal       \* builds of the downloads page

\* What the patterns of simple parsing take a text apart into.
IsText(t) == /\ t.ints \in Seq(Int) /\ t.num \in Int
             /\ t.tail \in {"w", "", "pre", "rc", "snapshot", "-"}

Rules(i) == VersionSchema[i].segments

\* Any schema, and any text: one variant matches it, or several or none, with all
\* of its groups or without the optional ones.
ASSUME TextAssumption ==
    /\ \A t \in SimpleText : IsText(t)
    /\ Len(VersionSchema) \in Nat /\ DOMAIN VersionSchema = 1..Len(VersionSchema)
    /\ \A i \in DOMAIN VersionSchema :
         Len(Rules(i)) \in Nat /\ DOMAIN Rules(i) = 1..Len(Rules(i))
    /\ \A t \in Text :
         /\ IsText(t.simple) /\ t.build \in Int /\ t.manifest \in Nat
         /\ \A name \in DOMAIN t.match : \A group \in DOMAIN t.match[name] :
              IsText(t.match[name][group])

\* A history has no more commits than a walk visits.
ASSUME InputsAssumption ==
    /\ Commits \in Nat /\ Commits <= WalkLimit /\ Times \subseteq Int
    /\ Versions \in Nat
    /\ MaxRows \in Nat /\ MaxChanging \in Nat /\ MaxTotal \in Nat
    /\ Changing \subseteq Row
    /\ \A r \in Row : r.order \in Nat /\ r.recommended \in BOOLEAN
    /\ \A tags \in Tags : IsFiniteSet(DOMAIN tags)

VARIABLE input

Init == input = [kind |-> "none"]

Parsed == {ParseVersionWithSchema(t, VersionSchema, t.manifest) : t \in Text}

ParsedSimple == {[ParseSimpleVersion(t) EXCEPT !.manifest = m] :
                    t \in SimpleText, m \in {0, 1}}

\* Two versions of an artifact, with and without a schema.
Compare == /\ input.kind = "none"
           /\ \E S \in {Parsed, ParsedSimple} : \E a, b \in S :
                input' = [kind |-> "compare", a |-> a, b |-> b, all |-> S]

\* A history, commit by commit, and two of its commits.
Ancestry == [c \in 1..Commits |-> SUBSET (1..(c - 1))]

Log == /\ input.kind = "none"
       /\ \E time \in [1..Commits -> Times], from, to \in 1..Commits,
             parents \in {p \in [1..Commits -> SUBSET (1..Commits)] :
                             \A c \in 1..Commits : p[c] \in Ancestry[c]} :
            input' = [kind |-> "log", from |-> from, to |-> to,
                      history |-> [parents |-> parents, time |-> time]]

\* Versions with their pointers, some enriched early, some repositories broken.
Submodules == /\ input.kind = "none"
              /\ \E pointers \in [1..Versions -> Pointer], early \in SUBSET (2..Versions),
                    broken \in SUBSET UNION {DOMAIN p : p \in Pointer} :
                   input' = [kind |-> "submodules", pointers |-> pointers,
                             early |-> early, broken |-> broken]

\* The rows of an artifact: ids grow, and no row is deleted.
Table(held) == {[id |-> i, order |-> held[i].order, recommended |-> held[i].recommended,
                 tags |-> held[i].tags] : i \in DOMAIN held}

Flags == {BOOLEAN, {TRUE}, {FALSE}}

\* Pages of rows at rest.
List == /\ input.kind = "none"
        /\ \E n \in 0..MaxRows : \E held \in [1..n -> Row],
              tags \in Tags, flags \in Flags, limit \in 1..MaxLimit :
              input' = [kind |-> "list", rows |-> Table(held), limit |-> limit,
                        query |-> [recommended |-> flags, tags |-> tags]]

\* A page and then a total: a sync run adds rows in between and writes order, flag
\* and tags of those that are there.
Overtake ==
    /\ input.kind = "none"
    /\ \E n \in 0..MaxChanging : \E m \in 0..n :
         \E before \in [1..m -> Changing], after \in [1..n -> Changing],
            tags \in Tags, flags \in Flags,
            limit \in {None} \cup 0..(MaxLimit + 1), offset \in (None - 1)..MaxChanging :
            input' = [kind |-> "overtake", first |-> Table(before), second |-> Table(after),
                      query |-> [recommended |-> flags, tags |-> tags],
                      limit |-> limit, offset |-> offset]

Bar == /\ input.kind = "none"
       /\ \E total \in 1..MaxTotal : \E offset \in 0..(total - 1) :
            input' = [kind |-> "bar", total |-> total, offset |-> offset]

Next == Compare \/ Log \/ Submodules \/ List \/ Overtake \/ Bar

Spec == Init /\ [][Next]_input

-----------------------------------------------------------------------------
(* Properties. *)

\* The comparison of versions is one a sort can rely on, with the manifest and
\* without, for weekly and other versions, matched by one variant, by another or by
\* none: but for the versions it compares by different rules (Entangled), which no
\* validation of a schema rules out.
OrderIsWeak == input.kind = "compare" =>
    \A c \in input.all : WeaklyOrdered(input.a, input.b, c)

\* git log A..B, for any shape of the history and any committer times; and a
\* submodule's changelog starts at what the previous version had.
ChangelogExact ==
    /\ input.kind = "log" => IsDifference(input.history, input.from, input.to)
    /\ input.kind = "submodules" =>
         StartsAtPredecessor(input.pointers, input.early, input.broken)

\* A reader who follows the pages sees every version once, newest first.
PagesComplete == input.kind = "list" =>
    PagesCover(input.rows, input.query, input.limit)

\* No page shows versions past the total it states, but for those that a sync run has
\* taken out of the filter between the two statements.
TotalNeverShort == input.kind = "overtake" /\ input.offset >= 0 =>
    TotalCoversPage(input.first, input.second, input.query, input.limit, input.offset)

\* The bar of page links, for any number of builds and any offset that has some.
PageBar == input.kind = "bar" => PageBarSound(input.offset, input.total)

\* docs/WORKFLOWS.md: the changelog has a log "for the main repo and each
\* submodule where the pointer changed".
SubmoduleChangesReported == input.kind = "submodules" =>
    MovedHasChangelog(input.pointers, input.early, input.broken)
=============================================================================
