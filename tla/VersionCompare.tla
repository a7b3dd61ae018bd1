--------------------------- MODULE VersionCompare ---------------------------
(***************************************************************************)
(* How versions are parsed and compared.  A text is what the regular       *)
(* expressions take it apart into: dotted or weekly numbers with a tail    *)
(* for a simple version, captured groups for a composite one.              *)
(***************************************************************************)
EXTENDS Integers, Sequences, FiniteSets, FiniteSetsExt, SequencesExt

\* cmp.Compare.
Cmp(a, b) == IF a < b THEN -1 ELSE IF a > b THEN 1 ELSE 0

\* A chain of "if c := ...; c != 0 { return c }".
FirstNonzero(cs) ==
    LET nonzero == {i \in DOMAIN cs : cs[i] # 0}
    IN  IF nonzero = {} THEN 0 ELSE cs[Min(nonzero)]

\* Components that are missing count as zero.
CompareIntSlices(a, b) ==
    LET At(s, i) == IF i <= Len(s) THEN s[i] ELSE 0
    IN  FirstNonzero([i \in 1..Max({Len(a), Len(b)}) |-> Cmp(At(a, i), At(b, i))])

-----------------------------------------------------------------------------
(* Parsing. *)

Snapshot == 0
Pre      == 1
RC       == 2
Release  == 3

\* A simple version: "25w45a" has tail "w" and the numbers <<25, 45, 1>>;
\* "26.1-snapshot-6", "1.17-rc1" and "1.17" the tails "snapshot", "rc" and "";
\* anything else up to its first "-" the tail "-".
ParseSimpleVersion(text) ==
    [segments |-> <<>>, variant |-> 0, manifest |-> 0,
     weekly |-> text.tail = "w", primary |-> text.ints,
     qualifier |-> CASE text.tail \in {"w", ""}        -> Release
                     [] text.tail = "pre"              -> Pre
                     [] text.tail = "rc"               -> RC
                     [] text.tail \in {"snapshot", "-"} -> Snapshot,
     number |-> IF text.tail \in {"pre", "rc", "snapshot"} THEN text.num ELSE 0]

\* The qualifier group of a composite version; a word that is not known, or no
\* group, is a release.
QualifierOf(word) == CASE word \in {"RC", "BETA"}      -> RC
                       [] word = "PRE"                 -> Pre
                       [] word \in {"DEV", "SNAPSHOT"} -> Snapshot
                       [] OTHER                        -> Release

\* A captured group that is empty leaves its segment out.
ParseSegments(groups, rules) ==
    LET captured == {i \in DOMAIN rules : rules[i].name \in DOMAIN groups}
        Nth(n)   == CHOOSE i \in captured : Cardinality({j \in captured : j <= i}) = n
        Value(rule) == LET text == groups[rule.name] IN
            CASE rule.parseAs = "minecraft" -> ParseSimpleVersion(text)
              [] rule.parseAs = "dotted"    -> text.ints
              [] rule.parseAs = "integer"   ->
                    IF Len(text.ints) = 1 /\ text.tail = "" THEN text.ints[1] ELSE 0
              [] OTHER                      -> <<>>
    IN  [n \in 1..Cardinality(captured) |->
            [parseAs |-> rules[Nth(n)].parseAs, value |-> Value(rules[Nth(n)])]]

\* The first variant that matches; without one, simple parsing.  A text carries
\* what each pattern captures of it, and what simple parsing sees.
ParseVersionWithSchema(text, schema, manifestOrder) ==
    LET matching == {i \in DOMAIN schema : schema[i].name \in DOMAIN text.match}
        first    == Min(matching)
        groups   == text.match[schema[first].name]
    IN  IF matching = {}
        THEN [ParseSimpleVersion(text.simple) EXCEPT !.manifest = manifestOrder]
        ELSE [segments |-> ParseSegments(groups, schema[first].segments),
              variant |-> first, manifest |-> manifestOrder,
              weekly |-> FALSE, primary |-> <<>>,
              qualifier |-> QualifierOf(text.word), number |-> text.build]

-----------------------------------------------------------------------------
(* Comparison: -1 is older, 1 newer. *)

Qualifiers(a, b) == <<Cmp(a.qualifier, b.qualifier), Cmp(a.number, b.number)>>

\* Without the manifest a weekly snapshot is older than any version.
CompareSimple(a, b) ==
    CASE a.weekly /\ b.weekly -> CompareIntSlices(a.primary, b.primary)
      [] a.weekly /\ ~b.weekly -> -1
      [] ~a.weekly /\ b.weekly -> 1
      [] OTHER -> FirstNonzero(<<CompareIntSlices(a.primary, b.primary)>>
                                 \o Qualifiers(a, b))

CompareSegments(a, b) == CASE a.parseAs = "minecraft" -> CompareSimple(a.value, b.value)
                           [] a.parseAs = "dotted"    -> CompareIntSlices(a.value, b.value)
                           [] a.parseAs = "integer"   -> Cmp(a.value, b.value)
                           [] OTHER                   -> 0

\* The leading segments that are parsed alike in both.
Comparable(a, b) ==
    LET n == Min({Len(a.segments), Len(b.segments)})
        differ == {i \in 1..n : a.segments[i].parseAs # b.segments[i].parseAs}
    IN  IF differ = {} THEN n ELSE Min(differ) - 1

\* Mutant: no difference between variants.
CompareComposite_NoVariant(a, b) ==
    FirstNonzero([i \in 1..Comparable(a, b) |->
                        CompareSegments(a.segments[i], b.segments[i])]
                   \o Qualifiers(a, b))

\* Segments, then the variant - the lower is newer -, then the qualifier.
CompareComposite(a, b) ==
    FirstNonzero([i \in 1..Comparable(a, b) |->
                        CompareSegments(a.segments[i], b.segments[i])]
                   \o <<-Cmp(a.variant, b.variant)>> \o Qualifiers(a, b))

\* Without a manifest order (0) a version is older than with one.
CompareVersions(a, b) ==
    FirstNonzero(<<Cmp(a.manifest, b.manifest),
                   IF a.segments # <<>> /\ b.segments # <<>>
                   THEN CompareComposite(a, b) ELSE CompareSimple(a, b)>>)

-----------------------------------------------------------------------------
(* Properties. *)

\* The segments that can be compared do not tell a from b.
Tied(a, b) == \A i \in 1..Comparable(a, b) :
                CompareSegments(a.segments[i], b.segments[i]) = 0

\* Where c stands to two versions with segments tells nothing against how these two
\* compare: without segments of its own it is older or newer than any version that
\* has some; and where those two are comparable further than with c, and c is tied
\* with them, its variant makes it newer than both or older.
Beside(a, b, c) ==
    a.segments # <<>> /\ b.segments # <<>> =>
      IF c.segments = <<>>
      THEN c.weekly \/ CompareIntSlices(c.primary, <<>>) # 0
      ELSE Comparable(a, b) > Comparable(a, c) /\ Tied(a, c) =>
             \/ c.variant < a.variant /\ c.variant < b.variant
             \/ c.variant > a.variant /\ c.variant > b.variant

\* Three versions of one place in the manifest (0, none, included) that the code
\* compares by different rules: two have segments and the third neither segments nor
\* a number but zero; or an optional group that one of them leaves out, or a variant
\* in between, parts two from the third with which they are tied.
Entangled(a, b, c) ==
    /\ a.manifest = b.manifest /\ b.manifest = c.manifest
    /\ ~(Beside(a, b, c) /\ Beside(b, c, a) /\ Beside(a, c, b))

\* What a sort takes for granted of its comparison: it is antisymmetric, and both
\* "older" and "as old as" are transitive, for all but entangled versions.
WeaklyOrdered(a, b, c) ==
    /\ CompareVersions(a, b) = -CompareVersions(b, a)
    /\ ~Entangled(a, b, c) =>
         /\ CompareVersions(a, b) <= 0 /\ CompareVersions(b, c) <= 0
              => CompareVersions(a, c) <= 0
         /\ CompareVersions(a, b) < 0 /\ CompareVersions(b, c) <= 0
              => CompareVersions(a, c) < 0
=============================================================================
