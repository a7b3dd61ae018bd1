-------------------------- MODULE MCPureFunctions --------------------------
(* Inputs of PureFunctions for TLC. *)
EXTENDS PureFunctions

Simple(ints, tail, num) == [ints |-> ints, tail |-> tail, num |-> num]

\* 24w14a, 25w02a, 25w02b, 1, 1.0, 1.0.1, 1.1 with and without a qualifier, and
\* what is none of these.
MCSimpleText ==
    {Simple(i, "w", 0) : i \in {<<24, 14, 1>>, <<25, 2, 1>>, <<25, 2, 2>>}}
      \cup {Simple(i, t, n) : i \in {<<1>>, <<1, 0>>, <<1, 0, 1>>, <<1, 1>>},
                              t \in {"", "snapshot", "pre", "rc"}, n \in {0, 1}}
      \cup {Simple(<<>>, "", 0), Simple(<<1>>, "-", 0)}

\* Minecraft and API versions; a build number follows in the current format, the
\* beta one has three groups, the last an integer, and the old one is like the
\* current but for its place.
MCVersionSchema ==
    LET mc  == [name |-> "minecraft", parseAs |-> "minecraft"]
        api == [name |-> "api", parseAs |-> "dotted"]
        rev == [name |-> "rev", parseAs |-> "integer"]
        any == [name |-> "any", parseAs |-> "ignore"]
    IN  << [name |-> "current", segments |-> <<mc, api>>],
           [name |-> "beta", segments |-> <<mc, any, rev>>],
           [name |-> "old", segments |-> <<mc, api>>] >>

Minecraft == {<<Simple(<<25, 2, 1>>, "w", 0), 0>>, <<Simple(<<1>>, "", 0), 0>>,
              <<Simple(<<1>>, "rc", 1), 1>>, <<Simple(<<1>>, "", 0), 2>>}

Nothing == Simple(<<>>, "", 0)

Composite(match, mc, word, build) ==
    [match |-> match, simple |-> Nothing, word |-> word, build |-> build, manifest |-> mc[2]]

MCText ==
    {Composite([current |-> [minecraft |-> mc[1], api |-> Simple(api, "", 0)]],
               mc, word, build) :
        mc \in Minecraft, api \in {<<1>>, <<1, 0>>, <<2>>}, word \in {"", "RC"}, build \in {0, 1}}
      \cup
    {Composite([beta |-> [minecraft |-> mc[1], rev |-> Simple(rev, "", 0), any |-> Nothing]],
               mc, "BETA", build) :
        mc \in Minecraft, rev \in {<<1>>, <<2>>}, build \in {0, 1}}
      \cup
    \* Another format's place taken, the API group left out, nothing captured, and
    \* versions no variant matches.
    {Composite([old |-> [minecraft |-> mc[1], api |-> Simple(<<2>>, "", 0)]], mc, "", 0) :
        mc \in Minecraft}
      \cup
    {Composite([current |-> [minecraft |-> mc[1]]], mc, word, 1) :
        mc \in Minecraft, word \in {"", "RC"}}
      \cup
    {Composite([old |-> <<>>], <<Nothing, 0>>, word, 0) : word \in {"", "PRE"}}
      \cup
    {[match |-> <<>>, simple |-> mc[1], word |-> "", build |-> 0, manifest |-> mc[2]] :
        mc \in Minecraft}

\* Repository a has b in each of its commits, b has c.
MCInner == [a |-> [c \in 1..2 |-> [b |-> c]],
            b |-> [c \in 1..2 |-> [c |-> c]],
            c |-> <<>>]

\* Any pointers to a and b, or none.
MCPointer == UNION {[R -> 1..2] : R \in SUBSET {"a", "b"}}

\* Versions of one or two components, of different or the same order.
MCRow == {[order |-> o, recommended |-> r, tags |-> t] :
            o \in 1..3, r \in BOOLEAN,
            t \in {[minecraft |-> <<1, 12>>], [minecraft |-> <<1, 12, 2>>, api |-> <<7>>],
                   <<>>}}

MCChanging == {r \in MCRow : r.order \in 1..2 /\ DOMAIN r.tags # {"minecraft"}}

MCTags == {<<>>, [minecraft |-> <<1, 12>>], [minecraft |-> <<1, 12, 2>>],
           [minecraft |-> <<1, 12>>, api |-> <<7>>]}
=============================================================================
