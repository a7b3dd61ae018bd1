------------------------ MODULE PureFunctionsProofs ------------------------
(***************************************************************************)
(* Theorems about the functions of PureFunctions: the page bar, totals and *)
(* pages of Listing, for any size of a page and of the window, any number  *)
(* of builds and any rows; and the comparison of versions that parsing     *)
(* gives, for any schema and any texts.                                    *)
(***************************************************************************)
EXTENDS PureFunctions, VersionCompareProofs, FiniteSetTheorems, FunctionTheorems,
        SequenceTheorems, TLAPS

-----------------------------------------------------------------------------
(* The window of the page bar. *)

Windows == [start: Int, links: Int, first: BOOLEAN, last: BOOLEAN]

\* A window on the current page that has dots exactly where it does not reach the
\* end of the bar.
Fits(w, current, pages) ==
    /\ w \in Windows
    /\ 1 <= w.start /\ w.start <= current /\ current <= End(w)
    /\ w.first => w.start > 1
    /\ ~w.first => w.start = 1
    /\ w.last => End(w) < pages
    /\ ~w.last => End(w) = pages

LEMMA PageWindowFits ==
  ASSUME NEW pages \in Nat \ {0}, NEW current \in 1..pages
  PROVE  Fits(PageWindow(current, pages), current, pages)
  <1> DEFINE half == (Window - 2) \div 2
  <1> USE ListingAssumption
  <1>0. half \in Nat /\ 2 * half <= Window - 2 /\ Window - 2 <= 2 * half + 1
    OBVIOUS
  <1> HIDE DEF half
  <1>1. CASE pages <= Window
    <2>1. PageWindow(current, pages) =
            [start |-> 1, links |-> pages, first |-> FALSE, last |-> FALSE]
      BY <1>1 DEF PageWindow
    <2> QED BY <1>1, <2>1 DEF Fits, Windows, End
  <1>2. CASE pages > Window /\ current < Window - 1
    <2>1. PageWindow(current, pages) =
            [start |-> 1, links |-> Window, first |-> FALSE, last |-> TRUE]
      BY <1>2 DEF PageWindow
    <2> QED BY <1>2, <2>1 DEF Fits, Windows, End
  <1>3. CASE pages > Window /\ current >= Window - 1 /\ pages - current + 2 < Window
    <2>1. PageWindow(current, pages) =
            [start |-> pages - Window + 1, links |-> Window, first |-> TRUE, last |-> FALSE]
      BY <1>3 DEF PageWindow
    <2> QED BY <1>3, <2>1 DEF Fits, Windows, End
  <1>4. CASE pages > Window /\ current >= Window - 1 /\ ~(pages - current + 2 < Window)
    <2>1. PageWindow(current, pages) =
            [start |-> current - half, links |-> Window - 2, first |-> TRUE, last |-> TRUE]
      BY <1>4 DEF PageWindow, half
    <2> QED BY <1>0, <1>4, <2>1 DEF Fits, Windows, End
  <1> QED BY <1>1, <1>2, <1>3, <1>4

\* The clamp never moves a window that PageWindow makes.
LEMMA ClampFits ==
  ASSUME NEW pages \in Nat \ {0}, NEW current \in 1..pages, NEW w,
         Fits(w, current, pages)
  PROVE  Fits(Clamp(w, pages), current, pages)
  <1>1. w \in Windows /\ w.start \in Int /\ w.links \in Int
    BY DEF Fits, Windows
  <1>2. CASE w.start > pages - w.links
    <2> DEFINE s == pages - w.links + 1
               c == [w EXCEPT !.start = s, !.last = FALSE]
    <2>1. Clamp(w, pages) = c
      BY <1>1, <1>2 DEF Clamp, Fits
    <2>2. c.start = s /\ c.links = w.links /\ s \in Int
      BY <1>1 DEF Windows
    <2>5. c \in Windows
      <3> HIDE DEF s
      <3> QED BY <1>1, <2>2 DEF Windows
    <2>3. ~c.last /\ (c.first <=> w.first)
      BY <1>1 DEF Windows
    <2> HIDE DEF c
    <2>4. s = w.start /\ ~w.last
      BY <1>1, <1>2 DEF Fits, End
    <2> QED BY <1>1, <2>1, <2>2, <2>3, <2>4, <2>5 DEF Fits, End
  <1>3. CASE ~(w.start > pages - w.links)
    <2>1. Clamp(w, pages) = w
      BY <1>1, <1>3 DEF Clamp, Fits
    <2> QED BY <2>1
  <1> QED BY <1>2, <1>3

LEMMA NewWindow ==
  ASSUME NEW w \in Windows, NEW s \in Int, NEW k \in Int, NEW f \in BOOLEAN
  PROVE  [w EXCEPT !.links = k, !.start = s, !.first = f] \in Windows
  BY DEF Windows

\* Dots on the left that would hide fewer than two pages are gone.
LEMMA CollapseFirstFits ==
  ASSUME NEW pages \in Nat \ {0}, NEW current \in 1..pages, NEW w,
         Fits(w, current, pages)
  PROVE  LET c == CollapseFirst(w) IN
           /\ c \in Windows
           /\ 1 <= c.start /\ c.start <= current /\ current <= End(c)
           /\ c.first => c.start > 3
           /\ ~c.first => c.start = 1
           /\ c.last <=> w.last
           /\ ~w.last => End(c) >= pages
  <1>1. w \in Windows /\ w.start \in Int /\ w.links \in Int
    BY DEF Fits, Windows
  <1>2. CASE w.first /\ w.start < 4
    <2> DEFINE k == w.links + 2
               c == [w EXCEPT !.links = k, !.start = 1, !.first = FALSE]
    <2>1. CollapseFirst(w) = c
      BY <1>2 DEF CollapseFirst
    <2>2. c.start = 1 /\ c.links = k
      BY <1>1 DEF Windows
    <2>4. c \in Windows /\ k \in Int
      <3>1. k \in Int
        BY <1>1
      <3>2. FALSE \in BOOLEAN /\ 1 \in Int
        OBVIOUS
      <3> HIDE DEF k
      <3> QED BY <1>1, <3>1, <3>2, NewWindow
    <2>3. ~c.first /\ (c.last <=> w.last)
      BY <1>1 DEF Windows
    <2> HIDE DEF c
    <2> QED BY <1>1, <1>2, <2>1, <2>2, <2>3, <2>4 DEF Fits, End
  <1>3. CASE ~(w.first /\ w.start < 4)
    <2>1. CollapseFirst(w) = w
      BY <1>3 DEF CollapseFirst
    <2> QED BY <1>1, <1>3, <2>1 DEF Fits
  <1> QED BY <1>2, <1>3

\* The window that is drawn.
Mended(w, pages) ==
    LET m == CollapseLast(CollapseFirst(w), pages)
    IN  [m EXCEPT !.links = Min({@, pages - m.start + 1})]

\* It holds the current page; without dots it reaches the end of the bar, and
\* dots hide two pages or more.
Drawn(w, current, pages) ==
    /\ w \in Windows
    /\ 1 <= w.start /\ w.start <= current /\ current <= End(w) /\ End(w) <= pages
    /\ w.first => w.start > 3
    /\ ~w.first => w.start = 1
    /\ w.last => End(w) < pages - 2
    /\ ~w.last => End(w) = pages

LEMMA MendedDrawn ==
  ASSUME NEW pages \in Nat \ {0}, NEW current \in 1..pages, NEW w,
         Fits(w, current, pages)
  PROVE  Drawn(Mended(w, pages), current, pages)
  <1> DEFINE c == CollapseFirst(w)
             m == CollapseLast(c, pages)
             cut == Min({m.links, pages - m.start + 1})
             d == [m EXCEPT !.links = cut]
  <1>1. /\ c \in Windows
        /\ 1 <= c.start /\ c.start <= current /\ current <= End(c)
        /\ c.first => c.start > 3
        /\ ~c.first => c.start = 1
        /\ ~c.last => End(c) >= pages
    BY CollapseFirstFits
  <1> HIDE DEF c
  <1>2. c.start \in Int /\ c.links \in Int
    BY <1>1 DEF Windows
  <1>3. /\ m \in Windows /\ m.start = c.start /\ (m.first <=> c.first)
        /\ current <= End(m)
        /\ m.last => End(m) < pages - 2
        /\ ~m.last => End(m) >= pages
    <2>1. CASE c.last /\ End(c) > pages - 3
      <3> DEFINE more == IF End(c) = pages - 2 THEN 2 ELSE 3
                 k == c.links + more
                 e == [c EXCEPT !.links = k, !.last = FALSE]
      <3>1. m = e
        BY <2>1 DEF CollapseLast
      <3>2. e.links = k /\ e.start = c.start
        BY <1>1, <1>2 DEF Windows
      <3>4. e \in Windows /\ k \in Int
        <4>1. k \in Int
          BY <1>2
        <4> HIDE DEF k
        <4> QED BY <1>1, <4>1 DEF Windows
      <3>3. ~e.last /\ (e.first <=> c.first)
        BY <1>1, <1>2 DEF Windows
      <3> HIDE DEF e, m
      <3> QED BY <1>1, <1>2, <2>1, <3>1, <3>2, <3>3, <3>4 DEF End
    <2>2. CASE ~(c.last /\ End(c) > pages - 3)
      <3>1. m = c
        BY <2>2 DEF CollapseLast
      <3> QED BY <1>1, <1>2, <2>2, <3>1 DEF End
    <2> QED BY <2>1, <2>2
  <1> HIDE DEF m
  <1>4. m.start \in Int /\ m.links \in Int
    BY <1>3 DEF Windows
  <1>5. cut = IF m.links <= pages - m.start + 1 THEN m.links ELSE pages - m.start + 1
    BY <1>4, MinOfTwo
  <1> HIDE DEF cut
  <1>6. cut \in Int
    BY <1>4, <1>5
  <1>7. d \in Windows /\ d.links = cut /\ d.start = m.start /\ d.first = m.first
        /\ d.last = m.last
    BY <1>3, <1>6 DEF Windows
  <1> HIDE DEF d
  <1>8. Drawn(d, current, pages)
    BY <1>1, <1>2, <1>3, <1>4, <1>5, <1>6, <1>7 DEF Drawn, End
  <1> QED BY <1>8 DEF Mended, d, cut, m, c

LEMMA BarWindow ==
  ASSUME NEW pages \in Nat \ {0}, NEW current \in 1..pages
  PROVE  Drawn(Mended(Clamp(PageWindow(current, pages), pages), pages), current, pages)
  <1>1. Fits(Clamp(PageWindow(current, pages), pages), current, pages)
    BY PageWindowFits, ClampFits
  <1> QED BY <1>1, MendedDrawn

-----------------------------------------------------------------------------
(* The links. *)

\* A bar with the window from a to e: left of it nothing (p is 0) or page 1 and
\* dots (p is 1), right of it nothing or dots and the last page (q).
BarOf(links, a, e, p, q, pages) ==
    LET h == p + p
        m == e - a + 1
    IN  /\ links \in Seq(Int) /\ Len(links) = h + m + q + q
        /\ p = 1 => links[1] = 1 /\ links[2] = Dots
        /\ \A i \in 1..m : links[h + i] = a + i - 1
        /\ q = 1 => links[h + m + 1] = Dots /\ links[h + m + 2] = pages

\* u is s, of length j, and t, of length k, after it.
Joined(u, s, j, t, k) ==
    /\ u \in Seq(Int) /\ Len(u) = j + k
    /\ \A i \in 1..(j + k) : u[i] = IF i <= j THEN s[i] ELSE t[i - j]

LEMMA ConcatJoins ==
  ASSUME NEW j \in Nat, NEW k \in Nat, NEW s \in Seq(Int), NEW t \in Seq(Int),
         Len(s) = j, Len(t) = k
  PROVE  Joined(s \o t, s, j, t, k)
  BY ConcatProperties DEF Joined

LEMMA Laid ==
  ASSUME NEW pages \in Nat \ {0}, NEW a \in Int, NEW e \in Int, a <= e,
         NEW p \in 0..1, NEW one \in Seq(Int), NEW dots1 \in Seq(Int),
         Len(one) = p, Len(dots1) = p, p = 1 => one[1] = 1 /\ dots1[1] = Dots,
         NEW q \in 0..1, NEW dots2 \in Seq(Int), NEW end \in Seq(Int),
         Len(dots2) = q, Len(end) = q, q = 1 => dots2[1] = Dots /\ end[1] = pages
  PROVE  BarOf(one \o dots1 \o [i \in 1..(e - a + 1) |-> a + i - 1] \o dots2 \o end,
               a, e, p, q, pages)
  <1> DEFINE m == e - a + 1
             h == p + p
             n == h + m
             k == n + q
             middle == [i \in 1..m |-> a + i - 1]
             s1 == one \o dots1
             s2 == s1 \o middle
             s3 == s2 \o dots2
             s4 == s3 \o end
  <1>1. /\ middle \in Seq(Int) /\ Len(middle) = m
        /\ \A i \in 1..m : middle[i] = a + i - 1
    OBVIOUS
  <1>0. /\ p \in Nat /\ q \in Nat /\ m \in Nat /\ h \in Nat /\ n \in Nat /\ k \in Nat
        /\ h = p + p /\ n = h + m /\ k = n + q /\ (p = 1 => h = 2)
    OBVIOUS
  <1> HIDE DEF middle, m, h, n, k
  <1>2. /\ s1 \in Seq(Int) /\ Len(s1) = h
        /\ p = 1 => s1[1] = 1 /\ s1[2] = Dots
    <2>1. Joined(s1, one, p, dots1, p)
      BY <1>0, ConcatJoins
    <2> HIDE DEF s1
    <2> QED BY <1>0, <2>1 DEF Joined
  <1> HIDE DEF s1
  <1>3. /\ s2 \in Seq(Int) /\ Len(s2) = n
        /\ p = 1 => s2[1] = 1 /\ s2[2] = Dots
        /\ \A i \in 1..m : s2[h + i] = a + i - 1
    <2>1. Joined(s2, s1, h, middle, m)
      BY <1>0, <1>1, <1>2, ConcatJoins
    <2> HIDE DEF s2
    <2> QED BY <1>0, <1>1, <1>2, <2>1 DEF Joined
  <1> HIDE DEF s2
  <1>4. /\ s3 \in Seq(Int) /\ Len(s3) = k
        /\ p = 1 => s3[1] = 1 /\ s3[2] = Dots
        /\ \A i \in 1..m : s3[h + i] = a + i - 1
        /\ q = 1 => s3[n + 1] = Dots
    <2>1. Joined(s3, s2, n, dots2, q)
      BY <1>0, <1>3, ConcatJoins
    <2> HIDE DEF s3
    <2>2. p = 1 => s3[1] = 1 /\ s3[2] = Dots
      BY <1>0, <1>3, <2>1 DEF Joined
    <2>3. ASSUME NEW i \in 1..m PROVE s3[h + i] = a + i - 1
      <3>1. h + i \in 1..(n + q) /\ h + i <= n
        BY <1>0
      <3> QED BY <1>3, <2>1, <3>1 DEF Joined
    <2>4. q = 1 => s3[n + 1] = Dots
      BY <1>0, <1>3, <2>1 DEF Joined
    <2> QED BY <1>0, <2>1, <2>2, <2>3, <2>4 DEF Joined
  <1> HIDE DEF s3
  <1>5. /\ s4 \in Seq(Int) /\ Len(s4) = k + q
        /\ p = 1 => s4[1] = 1 /\ s4[2] = Dots
        /\ \A i \in 1..m : s4[h + i] = a + i - 1
        /\ q = 1 => s4[n + 1] = Dots /\ s4[n + 2] = pages
    <2>1. Joined(s4, s3, k, end, q)
      BY <1>0, <1>4, ConcatJoins
    <2> HIDE DEF s4
    <2>2. p = 1 => s4[1] = 1 /\ s4[2] = Dots
      BY <1>0, <1>4, <2>1 DEF Joined
    <2>3. ASSUME NEW i \in 1..m PROVE s4[h + i] = a + i - 1
      <3>1. h + i \in 1..(k + q) /\ h + i <= k
        BY <1>0
      <3> QED BY <1>4, <2>1, <3>1 DEF Joined
    <2>4. q = 1 => s4[n + 1] = Dots /\ s4[n + 2] = pages
      BY <1>0, <1>4, <2>1 DEF Joined
    <2> QED BY <1>0, <2>1, <2>2, <2>3, <2>4 DEF Joined
  <1> HIDE DEF s4
  <1>6. BarOf(s4, a, e, p, q, pages)
    BY <1>0, <1>5 DEF BarOf, m, h, n, k
  <1> QED BY <1>6 DEF s4, s3, s2, s1, middle, m

LEMMA Singleton ==
  ASSUME NEW test \in BOOLEAN, NEW link \in Int
  PROVE  LET s == IF test THEN <<link>> ELSE <<>> IN
           /\ s \in Seq(Int) /\ Len(s) = IF test THEN 1 ELSE 0
           /\ test => s[1] = link
  OBVIOUS

\* The bar that is built: the window that is drawn, and the ends where dots are.
LEMMA BarBuilt ==
  ASSUME NEW pages \in Nat \ {0}, NEW current \in 1..pages
  PROVE  \E a, e \in Int, p, q \in 0..1 :
           /\ BarOf(BuildPageList(current, pages), a, e, p, q, pages)
           /\ 1 <= a /\ a <= current /\ current <= e /\ e <= pages
           /\ IF p = 1 THEN a > 3 ELSE a = 1
           /\ IF q = 1 THEN e < pages - 2 ELSE e = pages
  <1> DEFINE w == Mended(Clamp(PageWindow(current, pages), pages), pages)
             a == w.start
             e == End(w)
             p == IF w.first THEN 1 ELSE 0
             q == IF w.last THEN 1 ELSE 0
             one   == IF w.start # 1 THEN <<1>> ELSE <<>>
             dots1 == IF w.first THEN <<Dots>> ELSE <<>>
             dots2 == IF w.last THEN <<Dots>> ELSE <<>>
             end   == IF End(w) # pages THEN <<pages>> ELSE <<>>
             middle == [i \in 1..w.links |-> w.start + i - 1]
  <1>1. Drawn(w, current, pages)
    BY BarWindow
  <1>2. BuildPageList(current, pages) = one \o dots1 \o middle \o dots2 \o end
    BY Zenon DEF BuildPageList, Mended
  <1> HIDE DEF w
  <1>3. /\ w.start \in Int /\ w.links \in Int /\ w.first \in BOOLEAN /\ w.last \in BOOLEAN
        /\ e \in Int /\ w.links = e - a + 1
    BY <1>1 DEF Drawn, Windows, End
  <1>4. /\ 1 <= a /\ a <= current /\ current <= e /\ e <= pages
        /\ w.first <=> a # 1
        /\ w.last <=> e # pages
        /\ w.first => a > 3
        /\ w.last => e < pages - 2
    BY <1>1, <1>3 DEF Drawn
  <1>5. p \in 0..1 /\ q \in 0..1 /\ (p = 1 <=> w.first) /\ (q = 1 <=> w.last)
    OBVIOUS
  <1>6. /\ one \in Seq(Int) /\ Len(one) = p /\ (p = 1 => one[1] = 1)
        /\ dots1 \in Seq(Int) /\ Len(dots1) = p /\ (p = 1 => dots1[1] = Dots)
    BY <1>3, <1>4, Singleton DEF Dots
  <1>7. /\ end \in Seq(Int) /\ Len(end) = q /\ (q = 1 => end[1] = pages)
        /\ dots2 \in Seq(Int) /\ Len(dots2) = q /\ (q = 1 => dots2[1] = Dots)
    BY <1>3, <1>4, Singleton DEF Dots
  <1>8. middle = [i \in 1..(e - a + 1) |-> a + i - 1]
    BY <1>3
  <1> HIDE DEF one, dots1, dots2, end, p, q, a, e
  <1>9. BarOf(one \o dots1 \o [i \in 1..(e - a + 1) |-> a + i - 1] \o dots2 \o end,
              a, e, p, q, pages)
    <2>1. a \in Int /\ e \in Int /\ a <= e
      BY <1>3, <1>4 DEF a, e
    <2> QED BY <1>5, <1>6, <1>7, <2>1, Laid
  <1>10. BarOf(BuildPageList(current, pages), a, e, p, q, pages)
    BY <1>2, <1>8, <1>9
  <1>11. a \in Int /\ e \in Int
    BY <1>3 DEF a
  <1>12. IF p = 1 THEN a > 3 ELSE a = 1
    BY <1>4, <1>5
  <1>13. IF q = 1 THEN e < pages - 2 ELSE e = pages
    BY <1>4, <1>5
  <1> QED BY <1>4, <1>5, <1>10, <1>11, <1>12, <1>13

\* The link at j: page 1 or dots on the left, a page of the window, or dots or the
\* last page on the right.
Link(links, j, a, e, p, q, pages) ==
    LET h == p + p
        m == e - a + 1
    IN  \/ p = 1 /\ j = 1 /\ links[j] = 1
        \/ p = 1 /\ j = 2 /\ links[j] = Dots
        \/ j \in (h + 1)..(h + m) /\ links[j] = a + j - h - 1
        \/ q = 1 /\ j = h + m + 1 /\ links[j] = Dots
        \/ q = 1 /\ j = h + m + 2 /\ links[j] = pages

LEMMA LinkIs ==
  ASSUME NEW pages \in Nat \ {0}, NEW links, NEW a \in Int, NEW e \in Int,
         NEW p \in 0..1, NEW q \in 0..1, 1 <= a, a <= e, e <= pages,
         BarOf(links, a, e, p, q, pages), NEW j \in 1..Len(links)
  PROVE  Link(links, j, a, e, p, q, pages)
  <1> DEFINE h == p + p
             m == e - a + 1
  <1>1. /\ Len(links) = h + m + q + q
        /\ p = 1 => links[1] = 1 /\ links[2] = Dots
        /\ \A i \in 1..m : links[h + i] = a + i - 1
        /\ q = 1 => links[h + m + 1] = Dots /\ links[h + m + 2] = pages
    BY DEF BarOf
  <1>2. h \in Nat /\ m \in Nat /\ j \in Nat /\ (p = 1 => h = 2) /\ (p = 0 => h = 0)
    BY <1>1
  <1> HIDE DEF h, m
  <1>3. CASE j <= h
    BY <1>1, <1>2, <1>3 DEF Link
  <1>4. CASE h < j /\ j <= h + m
    <2>1. j - h \in 1..m /\ h + (j - h) = j
      BY <1>2, <1>4
    <2>2. links[j] = a + (j - h) - 1
      BY <1>1, <2>1
    <2> QED BY <1>2, <1>4, <2>2 DEF Link, h, m
  <1>5. CASE h + m < j
    <2>1. q = 1 /\ (j = h + m + 1 \/ j = h + m + 2)
      BY <1>1, <1>2, <1>5
    <2> QED BY <1>1, <2>1 DEF Link, h, m
  <1> QED BY <1>2, <1>3, <1>4, <1>5

\* What PageBarSound says of the links.
SoundLinks(links, current, pages) ==
    LET n == Len(links)
    IN  /\ links[1] = 1 /\ links[n] = pages
        /\ \E j \in 1..n : links[j] = current
        /\ \A i \in 1..(n - 1) :
             \/ links[i] # Dots /\ links[i + 1] = links[i] + 1
             \/ Dots \in {links[i], links[i + 1]}
        /\ \A i \in 2..(n - 1) : links[i] = Dots =>
             links[i + 1] - links[i - 1] > 2

LEMMA LinksSound ==
  ASSUME NEW pages \in Nat \ {0}, NEW current \in 1..pages, NEW links,
         NEW a \in Int, NEW e \in Int, NEW p \in 0..1, NEW q \in 0..1,
         BarOf(links, a, e, p, q, pages),
         1 <= a, a <= current, current <= e, e <= pages,
         IF p = 1 THEN a > 3 ELSE a = 1,
         IF q = 1 THEN e < pages - 2 ELSE e = pages
  PROVE  SoundLinks(links, current, pages)
  <1> DEFINE h == p + p
             m == e - a + 1
             n == Len(links)
             Is(j) == Link(links, j, a, e, p, q, pages)
  <1>1. ASSUME NEW j \in 1..n PROVE Is(j)
    <2>1. a <= e
      OBVIOUS
    <2> QED BY <2>1, LinkIs
  <1>2. n = h + m + q + q /\ \A i \in 1..m : links[h + i] = a + i - 1
    BY DEF BarOf
  <1>3. /\ h \in Nat /\ m \in Nat /\ m >= 1 /\ (p = 1 => h = 2) /\ (p = 0 => h = 0)
        /\ p \in {0, 1} /\ q \in {0, 1} /\ n \in Nat /\ n >= 1 /\ m = e - a + 1
    BY <1>2
  <1> HIDE DEF h, m, n
  <1>4. links[1] = 1
    <2>1. Is(1)
      BY <1>1, <1>3
    <2> QED BY <1>3, <2>1 DEF Link, h, m
  <1>5. links[n] = pages
    <2>1. Is(n)
      BY <1>1, <1>3
    <2> QED BY <1>2, <1>3, <2>1 DEF Link, h, m
  <1>6. \E j \in 1..n : links[j] = current
    <2> DEFINE i == current - a + 1
    <2>1. i \in 1..m /\ h + i \in 1..n /\ a + i - 1 = current
      BY <1>2, <1>3
    <2> QED BY <1>2, <2>1
  <1>7. ASSUME NEW i \in 1..(n - 1)
        PROVE  \/ links[i] # Dots /\ links[i + 1] = links[i] + 1
               \/ Dots \in {links[i], links[i + 1]}
    <2>1. i \in 1..n /\ i + 1 \in 1..n
      BY <1>3
    <2>2. Is(i) /\ Is(i + 1)
      BY <1>1, <2>1
    <2> QED BY <1>2, <1>3, <2>1, <2>2 DEF Link, Dots, h, m
  <1>8. ASSUME NEW i \in 2..(n - 1), links[i] = Dots
        PROVE  links[i + 1] - links[i - 1] > 2
    <2>1. i \in 1..n /\ i + 1 \in 1..n /\ i - 1 \in 1..n
      BY <1>3
    <2>2. Is(i) /\ Is(i + 1) /\ Is(i - 1)
      BY <1>1, <2>1
    <2> QED BY <1>2, <1>3, <1>8, <2>1, <2>2 DEF Link, Dots, h, m
  <1> QED BY <1>4, <1>5, <1>6, <1>7, <1>8 DEF n, SoundLinks

-----------------------------------------------------------------------------
(* Pages and offsets. *)

LEMMA Quotient ==
  ASSUME NEW b \in Nat \ {0}, NEW a \in Nat
  PROVE  a \div b \in Nat /\ b * (a \div b) <= a /\ a < b * (a \div b) + b
  OBVIOUS

LEMMA Grows ==
  ASSUME NEW b \in Nat \ {0}, NEW x \in Int, NEW y \in Int
  PROVE  (x < y <=> b * x < b * y) /\ b * x \in Int /\ b * (x + 1) = b * x + b
         /\ b * (x - 1) = b * x - b
  OBVIOUS

LEMMA Offsets ==
  ASSUME NEW total \in Nat \ {0}, NEW offset \in 0..(total - 1)
  PROVE  LET current == CurrentPage(offset)
             pages   == TotalPages(total)
         IN  /\ pages \in Nat \ {0} /\ current \in 1..pages
             /\ current > 1 => (current - 2) * BuildsPerPage \in 0..offset
             /\ current < pages =>
                  current * BuildsPerPage \in (offset + 1)..(total - 1)
  <1> DEFINE b == BuildsPerPage
             x == offset \div b
             y == (total + b - 1) \div b
  <1>1. b \in Nat \ {0}
    BY ListingAssumption
  <1>2. CurrentPage(offset) = x + 1 /\ TotalPages(total) = y
    BY DEF CurrentPage, TotalPages
  <1>3. x \in Nat /\ b * x <= offset /\ offset < b * x + b
    BY <1>1, Quotient
  <1>4. y \in Nat /\ b * y <= total + b - 1 /\ total + b - 1 < b * y + b
    <2>1. total + b - 1 \in Nat
      BY <1>1
    <2> HIDE DEF b
    <2> QED BY <1>1, <2>1, Quotient
  <1> HIDE DEF b, x, y
  <1>5. b * x \in Int /\ b * y \in Int /\ b * (x + 1) = b * x + b
        /\ b * (x - 1) = b * x - b /\ b * (y - 1) = b * y - b
    BY <1>1, <1>3, <1>4, Grows
  <1>6. x < y
    <2>1. b * x < b * y
      BY <1>1, <1>3, <1>4, <1>5
    <2> QED BY <1>1, <1>3, <1>4, <2>1, Grows
  <1>7. x + 1 > 1 => (x - 1) * b \in 0..offset
    <2> SUFFICES ASSUME x >= 1 PROVE (x - 1) * b \in 0..offset
      BY <1>3
    <2>1. (x - 1) * b = b * x - b
      BY <1>1, <1>3, <1>5
    <2>2. b * 0 = 0 /\ (0 < x <=> b * 0 < b * x) /\ b * 1 = b
      BY <1>1, <1>3, Grows
    <2>3. b * x >= b
      BY <1>1, <1>3
    <2> QED BY <1>1, <1>3, <1>5, <2>1, <2>3
  <1>8. x + 1 < y => (x + 1) * b \in (offset + 1)..(total - 1)
    <2> SUFFICES ASSUME x + 1 < y PROVE (x + 1) * b \in (offset + 1)..(total - 1)
      OBVIOUS
    <2>1. (x + 1) * b = b * x + b
      BY <1>1, <1>3, <1>5
    <2>2. b * (x + 1) <= b * (y - 1)
      <3>1. x + 1 = y - 1 \/ x + 1 < y - 1
        BY <1>3, <1>4
      <3>2. x + 1 < y - 1 => b * (x + 1) < b * (y - 1)
        BY <1>1, <1>3, <1>4, Grows
      <3> QED BY <1>1, <1>3, <1>4, <1>5, <3>1, <3>2
    <2> QED BY <1>1, <1>3, <1>4, <1>5, <2>1, <2>2
  <1>9. (x + 1) - 2 = x - 1
    BY <1>3
  <1> QED BY <1>2, <1>3, <1>4, <1>6, <1>7, <1>8, <1>9 DEF b

\* For any number of builds and any offset that has some, and any size of a page
\* and of the window.
LEMMA BarSound ==
  ASSUME NEW total \in Nat \ {0}, NEW offset \in 0..(total - 1)
  PROVE  PageBarSound(offset, total)
  <1> DEFINE current == CurrentPage(offset)
             pages   == TotalPages(total)
             links   == BuildPageList(current, pages)
  <1>1. /\ pages \in Nat \ {0} /\ current \in 1..pages
        /\ current > 1 => (current - 2) * BuildsPerPage \in 0..offset
        /\ current < pages =>
             current * BuildsPerPage \in (offset + 1)..(total - 1)
    BY Offsets
  <1>2. SoundLinks(links, current, pages) /\ links \in Seq(Int)
    <2> HIDE DEF current, pages
    <2>1. PICK a, e \in Int, p, q \in 0..1 :
             /\ BarOf(links, a, e, p, q, pages)
             /\ 1 <= a /\ a <= current /\ current <= e /\ e <= pages
             /\ IF p = 1 THEN a > 3 ELSE a = 1
             /\ IF q = 1 THEN e < pages - 2 ELSE e = pages
      BY <1>1, BarBuilt
    <2>2. links \in Seq(Int)
      BY <2>1 DEF BarOf
    <2> HIDE DEF links
    <2> QED BY <1>1, <2>1, <2>2, LinksSound
  <1>3. current \in Range(links)
    <2> HIDE DEF links
    <2> QED BY <1>2 DEF Range, SoundLinks
  <1>4. ComputePagination(offset, total) =
          [links |-> links,
           previous |-> IF current > 1 THEN (current - 2) * BuildsPerPage ELSE None,
           next |-> IF current < pages THEN current * BuildsPerPage ELSE None]
    BY DEF ComputePagination
  <1> HIDE DEF current, pages, links
  <1>5. /\ ComputePagination(offset, total).links = links
        /\ ComputePagination(offset, total).previous =
             IF current > 1 THEN (current - 2) * BuildsPerPage ELSE None
        /\ ComputePagination(offset, total).next =
             IF current < pages THEN current * BuildsPerPage ELSE None
    BY <1>4
  <1> QED BY <1>1, <1>2, <1>3, <1>5
          DEF PageBarSound, SoundLinks, current, pages

-----------------------------------------------------------------------------
(* Pages and totals. *)

\* An ordering of finitely many rows is a sequence of as many.
LEMMA OrderingsAreSequences ==
  ASSUME NEW rows, IsFiniteSet(rows), NEW s \in Orderings(rows)
  PROVE  s \in Seq(rows) /\ Len(s) = Cardinality(rows) /\ Cardinality(rows) \in Nat
  <1>1. Cardinality(rows) \in Nat
    BY FS_CardinalityType
  <1>2. s \in [1..Cardinality(rows) -> rows]
    BY DEF Orderings, SetToSeqs
  <1> QED BY <1>1, <1>2

\* A page that is not empty lies between its offset and the end of the rows, and
\* has no more rows than the limit.
LEMMA PageLength ==
  ASSUME NEW S, NEW s \in Seq(S), NEW limit \in Nat, NEW offset \in Nat,
         Page(s, limit, offset) # <<>>
  PROVE  LET page == Page(s, limit, offset) IN
           /\ Len(page) \in 1..limit
           /\ offset + Len(page) <= Len(s)
           /\ offset + Len(page) = Len(s) \/ Len(page) = limit
           /\ \A i \in 1..Len(page) : page[i] = s[offset + i]
  <1> DEFINE end == Min({offset + limit, Len(s)})
  <1>1. end = IF offset + limit <= Len(s) THEN offset + limit ELSE Len(s)
    BY MinOfTwo
  <1>2. end \in Nat
    BY <1>1
  <1>3. Page(s, limit, offset) = SubSeq(s, offset + 1, end)
    BY DEF Page
  <1> HIDE DEF end
  <1>4. CASE offset + 1 <= end
    <2> DEFINE cut == SubSeq(s, offset + 1, end)
    <2>1. \A i \in (offset + 1)..end : s[i] \in S
      BY <1>1, <1>2
    <2>2. /\ Len(cut) = IF offset + 1 <= end THEN end - (offset + 1) + 1 ELSE 0
          /\ \A i \in 1..(end - (offset + 1) + 1) : cut[i] = s[(offset + 1) + i - 1]
      BY <1>2, <2>1, SubSeqProperties
    <2> HIDE DEF cut
    <2>3. Len(cut) = end - offset
      BY <1>2, <1>4, <2>2
    <2>4. ASSUME NEW i \in 1..Len(cut) PROVE cut[i] = s[offset + i]
      <3>1. i \in 1..(end - (offset + 1) + 1) /\ (offset + 1) + i - 1 = offset + i
        BY <1>2, <1>4, <2>3
      <3> QED BY <2>2, <3>1
    <2>5. Page(s, limit, offset) = cut
      BY <1>3 DEF cut
    <2>6. /\ Len(cut) \in 1..limit /\ offset + Len(cut) <= Len(s)
          /\ offset + Len(cut) = Len(s) \/ Len(cut) = limit
      BY <1>1, <1>2, <1>4, <2>3
    <2> QED BY <2>4, <2>5, <2>6
  <1>5. CASE ~(offset + 1 <= end)
    <2>1. SubSeq(s, offset + 1, end) = <<>>
      BY <1>2, <1>5, SubSeqEmpty
    <2> QED BY <1>3, <2>1
  <1> QED BY <1>4, <1>5

\* Rows of one table: each has an id of its own.
Keyed(rows) == /\ IsFiniteSet(rows)
               /\ \A r, s \in rows : r.id = s.id => r = s

\* As many ids as rows.
LEMMA IdsCount ==
  ASSUME NEW rows, Keyed(rows)
  PROVE  /\ IsFiniteSet(Ids(rows)) /\ Cardinality(Ids(rows)) = Cardinality(rows)
         /\ Cardinality(rows) \in Nat
  <1> DEFINE f == [r \in rows |-> r.id]
  <1>1. f \in Bijection(rows, Ids(rows))
    <2>1. f \in [rows -> Ids(rows)]
      BY DEF Ids
    <2>2. \A x, y \in rows : f[x] = f[y] => x = y
      BY DEF Keyed
    <2>3. \A d \in Ids(rows) : \E r \in rows : f[r] = d
      BY DEF Ids
    <2> HIDE DEF f
    <2> QED BY <2>1, <2>2, <2>3, Fun_IsBij
  <1>2. ExistsBijection(rows, Ids(rows))
    BY <1>1, Zenon DEF ExistsBijection
  <1>3. IsFiniteSet(rows)
    BY DEF Keyed
  <1> QED BY <1>2, <1>3, FS_Bijection, FS_CardinalityType

LEMMA FilteredKeyed ==
  ASSUME NEW rows, Keyed(rows), NEW query
  PROVE  Keyed(Filtered(rows, query))
  <1>1. Filtered(rows, query) \in SUBSET rows
    BY DEF Filtered
  <1> QED BY <1>1, FS_Subset DEF Keyed

\* The query wants no fewer rows than it did, but for those it lost; and all without
\* a filter.
LEMMA FilteredLost ==
  ASSUME NEW first, NEW second, Keyed(first), Keyed(second), NEW query
  PROVE  /\ Cardinality(Lost(first, second, query)) \in Nat
         /\ Cardinality(Filtered(first, query)) <=
              Cardinality(Filtered(second, query)) + Cardinality(Lost(first, second, query))
         /\ Cardinality(Filtered(first, query)) \in Nat
         /\ Cardinality(Filtered(second, query)) \in Nat
  <1> DEFINE F == Ids(Filtered(first, query))
             S == Ids(Filtered(second, query))
             L == Lost(first, second, query)
  <1>1. /\ IsFiniteSet(F) /\ Cardinality(F) = Cardinality(Filtered(first, query))
        /\ IsFiniteSet(S) /\ Cardinality(S) = Cardinality(Filtered(second, query))
        /\ Cardinality(F) \in Nat /\ Cardinality(S) \in Nat
    BY FilteredKeyed, IdsCount
  <1>2. L = F \ S
    BY DEF Lost
  <1> HIDE DEF F, S, L
  <1>3. IsFiniteSet(L) /\ Cardinality(L) \in Nat
    BY <1>1, <1>2, FS_Difference, FS_CardinalityType
  <1>4. F \in SUBSET (S \cup L)
    BY <1>2
  <1>5. /\ IsFiniteSet(S \cup L)
        /\ Cardinality(S \cup L) = Cardinality(S) + Cardinality(L) - Cardinality(S \cap L)
    BY <1>1, <1>3, FS_Union
  <1>6. Cardinality(S \cap L) \in Nat
    BY <1>1, FS_Intersection, FS_CardinalityType
  <1>7. Cardinality(F) <= Cardinality(S \cup L) /\ Cardinality(S \cup L) \in Nat
    BY <1>4, <1>5, FS_Subset, FS_CardinalityType
  <1> QED BY <1>1, <1>3, <1>5, <1>6, <1>7 DEF L

LEMMA NothingLost ==
  ASSUME NEW first, NEW second, Keyed(second), Ids(first) \subseteq Ids(second),
         \A r \in second : r.recommended \in BOOLEAN,
         NEW query, query.recommended = BOOLEAN, DOMAIN query.tags = {}
  PROVE  Cardinality(Lost(first, second, query)) = 0
  <1>1. ASSUME NEW r \in second PROVE Wanted(r, query) /\ MatchesByCount(r, query.tags)
    <2>1. {k \in DOMAIN r.tags \cap DOMAIN query.tags :
             TagMatches(r.tags[k], query.tags[k])} = DOMAIN query.tags
      OBVIOUS
    <2>2. MatchesByCount(r, query.tags)
      BY <2>1, Zenon DEF MatchesByCount
    <2> QED BY <2>2 DEF Wanted
  <1>2. Filtered(second, query) = second /\ Filtered(first, query) \subseteq first
    BY <1>1 DEF Filtered
  <1>3. Lost(first, second, query) = {}
    BY <1>2 DEF Lost, Ids
  <1> QED BY <1>3, FS_EmptySet

\* Any rows, added to and rewritten before the total is read, and any filter.
LEMMA TotalCovers ==
  ASSUME NEW first, NEW second, Keyed(first), Keyed(second), Ids(first) \subseteq Ids(second),
         \A r \in second : r.recommended \in BOOLEAN,
         NEW query, NEW limit \in Int, NEW offset \in Nat
  PROVE  TotalCoversPage(first, second, query, limit, offset)
  <1> DEFINE lost == Cardinality(Lost(first, second, query))
  <1> SUFFICES ASSUME NEW result \in GetVersions(first, second, query, limit, offset),
                      result.entries # <<>>
               PROVE  /\ offset + Len(result.entries) <= result.total + lost
                      /\ query.recommended = BOOLEAN /\ DOMAIN query.tags = {} =>
                           offset + Len(result.entries) <= result.total
    BY DEF TotalCoversPage
  <1>1. CASE limit \notin {None} \cup 1..limit \/ offset \notin {None} \cup 0..offset
    <2>1. result = BadRequest
      BY <1>1 DEF GetVersions
    <2> QED BY <2>1 DEF BadRequest
  <1>2. CASE ~(limit \notin {None} \cup 1..limit \/ offset \notin {None} \cup 0..offset)
    <2> DEFINE most == IF limit = None THEN MaxLimit ELSE Min({limit, MaxLimit})
    <2>1. most \in Nat
      BY <1>2, MinOfTwo, ListingAssumption DEF None
    <2>2. result \in GetVersionsOf(first, second, query, most, offset)
      <3>1. offset # None
        BY DEF None
      <3> QED BY <1>2, <3>1, Zenon DEF GetVersions
    <2> HIDE DEF most
    <2>3. PICK page \in ListVersionsFiltered(first, query, most, offset) :
            result = [entries |-> page,
                      total   |-> IF page = <<>> THEN 0
                                  ELSE CountVersionsFiltered(second, query)]
      BY <2>2 DEF GetVersionsOf
    <2>4. PICK s \in Orderings(Filtered(first, query)) : page = Page(s, most, offset)
      BY DEF ListVersionsFiltered
    <2>5. /\ s \in Seq(Filtered(first, query))
          /\ Len(s) = Cardinality(Filtered(first, query))
      BY FilteredKeyed, OrderingsAreSequences DEF Keyed
    <2>6. page # <<>> /\ result.entries = page
          /\ result.total = Cardinality(Filtered(second, query))
      BY <2>3 DEF CountVersionsFiltered
    <2>7. offset + Len(page) <= Len(s) /\ Len(page) \in Nat /\ Len(s) \in Nat
      BY <2>1, <2>4, <2>5, <2>6, PageLength
    <2>8. /\ Cardinality(Filtered(first, query)) <= Cardinality(Filtered(second, query)) + lost
          /\ Cardinality(Filtered(second, query)) \in Nat /\ lost \in Nat
      BY FilteredLost
    <2>9. query.recommended = BOOLEAN /\ DOMAIN query.tags = {} => lost = 0
      BY NothingLost
    <2> HIDE DEF lost
    <2> QED BY <2>5, <2>6, <2>7, <2>8, <2>9
  <1> QED BY <1>1, <1>2

-----------------------------------------------------------------------------
(* Orderings. *)

\* Rows of different orders, each a number.
Distinct(rows) ==
    /\ IsFiniteSet(rows)
    /\ \A r \in rows : r.order \in Nat
    /\ \A r, s \in rows : r.order = s.order => r = s

LEMMA DistinctSubset ==
  ASSUME NEW rows, Distinct(rows), NEW some \in SUBSET rows
  PROVE  Distinct(some) /\ Cardinality(some) \in Nat
  BY FS_Subset, FS_CardinalityType DEF Distinct

\* An ordering has each row once and is decreasing.
Decreasing(s, n) ==
    \A i, j \in 1..n : i < j => s[i].order > s[j].order

LEMMA OrderingIs ==
  ASSUME NEW rows, Distinct(rows), NEW n, n = Cardinality(rows), NEW s
  PROVE  s \in Orderings(rows) <=> /\ s \in [1..n -> rows] /\ Decreasing(s, n)
                                   /\ \A r \in rows : \E i \in 1..n : s[i] = r
  <1>1. n \in Nat /\ IsFiniteSet(rows)
    BY FS_CardinalityType DEF Distinct
  <1>2. s \in Orderings(rows) <=>
          /\ s \in [1..n -> rows] /\ \A i, j \in 1..n : i # j => s[i] # s[j]
          /\ \A i \in 1..(Len(s) - 1) : s[i].order >= s[i + 1].order
    BY DEF Orderings, SetToSeqs
  <1>3. ASSUME s \in [1..n -> rows] PROVE Len(s) = n
    BY <1>1, <1>3
  <1>4. ASSUME s \in [1..n -> rows], Decreasing(s, n) PROVE s \in Orderings(rows)
    <2>1. \A i \in 1..n : s[i].order \in Nat
      BY <1>4 DEF Distinct
    <2>2. \A i, j \in 1..n : i # j => s[i] # s[j]
      <3> SUFFICES ASSUME NEW i \in 1..n, NEW j \in 1..n, i # j PROVE s[i] # s[j]
        OBVIOUS
      <3>1. i < j \/ j < i
        BY <1>1
      <3> QED BY <1>4, <2>1, <3>1 DEF Decreasing
    <2>3. \A i \in 1..(n - 1) : s[i].order >= s[i + 1].order
      <3> SUFFICES ASSUME NEW i \in 1..(n - 1) PROVE s[i].order >= s[i + 1].order
        OBVIOUS
      <3>1. i \in 1..n /\ i + 1 \in 1..n /\ i < i + 1
        BY <1>1
      <3> QED BY <1>4, <2>1, <3>1 DEF Decreasing
    <2> QED BY <1>2, <1>3, <1>4, <2>2, <2>3
  <1>5. ASSUME s \in Orderings(rows)
        PROVE  /\ s \in [1..n -> rows] /\ Decreasing(s, n)
               /\ \A r \in rows : \E i \in 1..n : s[i] = r
    <2>1. /\ s \in [1..n -> rows] /\ \A i, j \in 1..n : i # j => s[i] # s[j]
          /\ \A i \in 1..(n - 1) : s[i].order >= s[i + 1].order
      BY <1>2, <1>3, <1>5
    <2>2. \A i \in 1..n : s[i].order \in Nat
      BY <2>1 DEF Distinct
    <2>3. \A i \in 1..(n - 1) : s[i].order > s[i + 1].order
      <3> SUFFICES ASSUME NEW i \in 1..(n - 1) PROVE s[i].order > s[i + 1].order
        OBVIOUS
      <3>1. i \in 1..n /\ i + 1 \in 1..n /\ i # i + 1
        BY <1>1
      <3>2. s[i].order # s[i + 1].order
        BY <2>1, <3>1 DEF Distinct
      <3> QED BY <2>1, <2>2, <3>1, <3>2
    <2>4. Decreasing(s, n)
      <3> SUFFICES ASSUME NEW i \in 1..n, NEW j \in 1..n, i < j,
                          ~(s[i].order > s[j].order)
                   PROVE  FALSE
        BY DEF Decreasing
      <3> DEFINE B == {k \in 1..n : i < k /\ ~(s[i].order > s[k].order)}
                 k == Min(B)
      <3>1. B \in SUBSET Nat /\ B # {}
        OBVIOUS
      <3>2. k \in B /\ \A l \in B : k <= l
        <4> HIDE DEF B
        <4> QED BY <3>1, LeastIs
      <3> HIDE DEF k
      <3>3. k \in 2..n /\ k - 1 \in 1..(n - 1) /\ (k - 1) + 1 = k /\ k - 1 >= i
        BY <1>1, <3>2
      <3>4. s[k - 1].order > s[k].order /\ k - 1 \in 1..n /\ k \in 1..n
        <4>1. k - 1 \in 1..n /\ k \in 1..n
          BY <1>1, <3>3
        <4>2. s[k - 1].order > s[(k - 1) + 1].order
          BY <2>3, <3>3
        <4> QED BY <3>3, <4>1, <4>2
      <3>5. ~(s[i].order > s[k].order)
        BY <3>2
      <3>6. CASE k - 1 = i
        BY <3>4, <3>5, <3>6
      <3>7. CASE k - 1 > i
        <4>1. k - 1 \notin B
          BY <3>2, <3>3
        <4>2. s[i].order > s[k - 1].order
          BY <3>4, <3>7, <4>1
        <4> QED BY <2>2, <3>4, <3>5, <4>2
      <3> QED BY <3>3, <3>6, <3>7
    <2>5. ASSUME NEW r \in rows PROVE \E i \in 1..n : s[i] = r
      <3>1. s \in Injection(1..n, rows)
        BY <2>1, Zenon DEF Injection, IsInjective
      <3>2. Cardinality(1..n) = n
        BY <1>1, FS_Interval
      <3>3. s \in Surjection(1..n, rows)
        BY <1>1, <3>1, <3>2, FS_Injection
      <3> QED BY <3>3 DEF Surjection
    <2> QED BY <2>1, <2>4, <2>5
  <1> QED BY <1>4, <1>5

\* There is one.
LEMMA OrderingExists ==
  ASSUME NEW rows, Distinct(rows)
  PROVE  Orderings(rows) # {}
  <1> DEFINE T == {n \in Nat : \E some \in SUBSET rows :
                     Cardinality(some) = n /\ Orderings(some) = {}}
             n == Min(T)
  <1> SUFFICES ASSUME Orderings(rows) = {} PROVE FALSE
    OBVIOUS
  <1>1. Cardinality(rows) \in Nat
    BY FS_CardinalityType DEF Distinct
  <1>2. T \in SUBSET Nat /\ T # {}
    BY <1>1
  <1>3. n \in T /\ \A m \in T : n <= m
    <2> HIDE DEF T
    <2> QED BY <1>2, LeastIs
  <1> HIDE DEF n
  <1>4. PICK some \in SUBSET rows : Cardinality(some) = n /\ Orderings(some) = {}
    BY <1>3
  <1>5. Distinct(some) /\ n \in Nat
    BY <1>3, DistinctSubset
  <1>6. CASE some = {}
    <2>1. n = 0
      BY <1>4, <1>6, FS_EmptySet
    <2>2. << >> \in [1..0 -> some] /\ Decreasing(<< >>, 0)
      BY DEF Decreasing
    <2>3. << >> \in Orderings(some)
      BY <1>4, <1>5, <1>6, <2>1, <2>2, OrderingIs
    <2> QED BY <1>4, <2>3
  <1>7. CASE some # {}
    <2> DEFINE orders == {r.order : r \in some}
               least  == Min(orders)
    <2>1. orders \in SUBSET Nat /\ orders # {}
      BY <1>5, <1>7 DEF Distinct
    <2>2. least \in orders /\ \A o \in orders : least <= o
      <3> HIDE DEF orders
      <3> QED BY <2>1, LeastIs
    <2> HIDE DEF least
    <2>3. PICK r \in some : r.order = least
      BY <2>2
    <2>4. \A q \in some \ {r} : q.order > r.order
      <3> SUFFICES ASSUME NEW q \in some \ {r} PROVE q.order > r.order
        OBVIOUS
      <3>1. q.order >= r.order
        BY <2>2, <2>3
      <3>2. q.order # r.order /\ q.order \in Nat /\ r.order \in Nat
        BY <1>5, <2>3 DEF Distinct
      <3> QED BY <3>1, <3>2
    <2> DEFINE others == some \ {r}
    <2>5. others \in SUBSET rows /\ Distinct(others)
      BY <1>4, DistinctSubset
    <2>6. n >= 1 /\ Cardinality(others) = n - 1
      <3>1. IsFiniteSet(some) /\ Cardinality(others) = n - 1 /\ Cardinality(others) \in Nat
        BY <1>4, <1>5, <2>3, <2>5, FS_RemoveElement, FS_CardinalityType DEF Distinct
      <3> QED BY <1>5, <3>1
    <2>7. Orderings(others) # {}
      <3> SUFFICES ASSUME Orderings(others) = {} PROVE FALSE
        OBVIOUS
      <3>1. n - 1 \in T
        BY <1>5, <2>5, <2>6
      <3> QED BY <1>3, <1>5, <3>1
    <2>8. PICK s \in Orderings(others) : TRUE
      BY <2>7
    <2> HIDE DEF T, others
    <2>9. /\ s \in [1..(n - 1) -> others] /\ Decreasing(s, n - 1)
          /\ \A q \in others : \E i \in 1..(n - 1) : s[i] = q
      BY <2>5, <2>6, OrderingIs
    <2> DEFINE t == [i \in 1..n |-> IF i < n THEN s[i] ELSE r]
    <2>10. \A i \in 1..n : /\ i < n => t[i] = s[i] /\ i \in 1..(n - 1)
                          /\ i = n => t[i] = r
      BY <1>5, <2>6
    <2>11. t \in [1..n -> some]
      BY <1>5, <2>3, <2>9, <2>10 DEF others
    <2>12. Decreasing(t, n)
      <3> SUFFICES ASSUME NEW i \in 1..n, NEW j \in 1..n, i < j
                   PROVE  t[i].order > t[j].order
        BY DEF Decreasing
      <3>1. i < n /\ i \in 1..(n - 1)
        BY <1>5
      <3>2. CASE j < n
        BY <1>5, <2>9, <2>10, <3>1, <3>2 DEF Decreasing
      <3>3. CASE j = n
        BY <2>4, <2>9, <2>10, <3>1, <3>3 DEF others
      <3> QED BY <1>5, <3>2, <3>3
    <2>13. \A q \in some : \E i \in 1..n : t[i] = q
      <3> SUFFICES ASSUME NEW q \in some PROVE \E i \in 1..n : t[i] = q
        OBVIOUS
      <3>1. CASE q = r
        <4>1. n \in 1..n
          BY <1>5, <2>6
        <4> QED BY <2>10, <3>1, <4>1
      <3>2. CASE q # r
        <4>1. PICK i \in 1..(n - 1) : s[i] = q
          BY <2>9, <3>2 DEF others
        <4>2. i \in 1..n /\ i < n
          BY <1>5
        <4> QED BY <2>10, <4>1, <4>2
      <3> QED BY <3>1, <3>2
    <2>14. t \in Orderings(some)
      BY <1>4, <1>5, <2>11, <2>12, <2>13, OrderingIs
    <2> QED BY <1>4, <2>14
  <1> QED BY <1>6, <1>7

\* There is no other.
LEMMA OrderingUnique ==
  ASSUME NEW rows, Distinct(rows), NEW s \in Orderings(rows), NEW t \in Orderings(rows)
  PROVE  s = t
  <1> DEFINE n == Cardinality(rows)
             T == {i \in 1..n : s[i] # t[i]}
             i == Min(T)
  <1>1. n \in Nat
    BY FS_CardinalityType DEF Distinct
  <1>2. /\ s \in [1..n -> rows] /\ Decreasing(s, n)
        /\ \A r \in rows : \E k \in 1..n : s[k] = r
    BY OrderingIs
  <1>3. /\ t \in [1..n -> rows] /\ Decreasing(t, n)
        /\ \A r \in rows : \E k \in 1..n : t[k] = r
    BY OrderingIs
  <1> HIDE DEF n
  <1>4. \A k \in 1..n : s[k].order \in Nat /\ t[k].order \in Nat
    BY <1>2, <1>3 DEF Distinct
  <1> SUFFICES ASSUME s # t PROVE FALSE
    OBVIOUS
  <1>5. T \in SUBSET Nat /\ T # {}
    <2>1. \E k \in 1..n : s[k] # t[k]
      <3>1. s = [k \in 1..n |-> s[k]] /\ t = [k \in 1..n |-> t[k]]
        BY <1>2, <1>3
      <3>2. (\A k \in 1..n : s[k] = t[k]) =>
              [k \in 1..n |-> s[k]] = [k \in 1..n |-> t[k]]
        OBVIOUS
      <3> QED BY <3>1, <3>2
    <2> QED BY <2>1
  <1>6. i \in T /\ \A k \in T : i <= k
    <2> HIDE DEF T
    <2> QED BY <1>5, LeastIs
  <1> HIDE DEF i
  <1>7. i \in 1..n /\ s[i] # t[i] /\ \A k \in 1..n : k < i => s[k] = t[k]
    BY <1>1, <1>6
  <1>8. PICK j \in 1..n : t[j] = s[i]
    BY <1>2, <1>3, <1>7
  <1>9. PICK k \in 1..n : s[k] = t[i]
    BY <1>2, <1>3, <1>7
  <1>10. i < j
    <2>1. ~(j < i)
      <3> SUFFICES ASSUME j < i PROVE FALSE
        OBVIOUS
      <3>1. s[j] = s[i]
        BY <1>7, <1>8
      <3>2. s[j].order > s[i].order
        BY <1>2, <1>7 DEF Decreasing
      <3> QED BY <1>4, <1>7, <3>1, <3>2
    <2> QED BY <1>1, <1>7, <1>8, <2>1
  <1>11. i < k
    <2>1. ~(k < i)
      <3> SUFFICES ASSUME k < i PROVE FALSE
        OBVIOUS
      <3>1. t[k] = t[i]
        BY <1>7, <1>9
      <3>2. t[k].order > t[i].order
        BY <1>3, <1>7 DEF Decreasing
      <3> QED BY <1>4, <1>7, <3>1, <3>2
    <2> QED BY <1>1, <1>7, <1>9, <2>1
  <1>12. t[i].order > s[i].order /\ s[i].order > t[i].order
    <2>1. t[i].order > t[j].order /\ s[i].order > s[k].order
      BY <1>2, <1>3, <1>7, <1>10, <1>11 DEF Decreasing
    <2> QED BY <1>8, <1>9, <2>1
  <1> QED BY <1>4, <1>7, <1>12

-----------------------------------------------------------------------------
(* Pages. *)

\* A page starts where those before it end.
LEMMA PageJoins ==
  ASSUME NEW S, NEW s \in Seq(S), NEW o \in Nat, NEW l \in Nat
  PROVE  SubSeq(s, 1, Min({o, Len(s)})) \o Page(s, l, o) = SubSeq(s, 1, Min({o + l, Len(s)}))
  <1> DEFINE a == Min({o, Len(s)})
             b == Min({o + l, Len(s)})
             before == SubSeq(s, 1, a)
             page   == SubSeq(s, o + 1, b)
             after  == SubSeq(s, 1, b)
  <1>1. Len(s) \in Nat /\ \A i \in 1..Len(s) : s[i] \in S
    OBVIOUS
  <1>2. a = (IF o <= Len(s) THEN o ELSE Len(s)) /\ b = (IF o + l <= Len(s) THEN o + l ELSE Len(s))
    BY <1>1, MinOfTwo
  <1> HIDE DEF a, b
  <1>3. a \in Nat /\ b \in Nat /\ a <= b /\ b <= Len(s) /\ (a = o \/ a = b) /\ a <= o
    BY <1>1, <1>2
  <1>4. /\ before \in Seq(S) /\ Len(before) = a
        /\ \A i \in 1..a : before[i] = s[i]
    <2>1. \A i \in 1..a : s[i] \in S
      BY <1>1, <1>3
    <2>2. /\ before \in Seq(S) /\ Len(before) = IF 1 <= a THEN a - 1 + 1 ELSE 0
          /\ \A i \in 1..(a - 1 + 1) : before[i] = s[1 + i - 1]
      BY <1>3, <2>1, SubSeqProperties
    <2> HIDE DEF before
    <2> QED BY <1>3, <2>2
  <1>5. /\ after \in Seq(S) /\ Len(after) = b
        /\ \A i \in 1..b : after[i] = s[i]
    <2>1. \A i \in 1..b : s[i] \in S
      BY <1>1, <1>3
    <2>2. /\ after \in Seq(S) /\ Len(after) = IF 1 <= b THEN b - 1 + 1 ELSE 0
          /\ \A i \in 1..(b - 1 + 1) : after[i] = s[1 + i - 1]
      BY <1>3, <2>1, SubSeqProperties
    <2> HIDE DEF after
    <2> QED BY <1>3, <2>2
  <1>6. /\ page \in Seq(S) /\ Len(page) = b - a
        /\ \A i \in 1..(b - a) : page[i] = s[a + i]
    <2>1. \A i \in (o + 1)..b : s[i] \in S
      BY <1>1, <1>3
    <2>2. /\ page \in Seq(S) /\ Len(page) = IF o + 1 <= b THEN b - (o + 1) + 1 ELSE 0
          /\ \A i \in 1..(b - (o + 1) + 1) : page[i] = s[(o + 1) + i - 1]
      BY <1>3, <2>1, SubSeqProperties
    <2> HIDE DEF page
    <2> QED BY <1>3, <2>2
  <1> HIDE DEF before, after, page
  <1>7. /\ before \o page \in Seq(S) /\ Len(before \o page) = b
        /\ \A i \in 1..b : (before \o page)[i] = IF i <= a THEN before[i] ELSE page[i - a]
    <2>1. /\ before \o page \in Seq(S) /\ Len(before \o page) = Len(before) + Len(page)
          /\ \A i \in 1..(Len(before) + Len(page)) :
               (before \o page)[i] = IF i <= Len(before) THEN before[i] ELSE page[i - Len(before)]
      BY <1>4, <1>6, ConcatProperties
    <2>2. Len(before) + Len(page) = b
      BY <1>3, <1>4, <1>6
    <2> QED BY <1>4, <2>1, <2>2
  <1> DEFINE joined == before \o page
  <1>8. ASSUME NEW i \in 1..b PROVE joined[i] = after[i]
    <2>0. joined[i] = IF i <= a THEN before[i] ELSE page[i - a]
      BY <1>7
    <2> HIDE DEF joined
    <2>1. CASE i <= a
      BY <1>3, <1>4, <1>5, <2>0, <2>1
    <2>2. CASE i > a
      <3>1. i - a \in 1..(b - a) /\ a + (i - a) = i
        BY <1>3, <2>2
      <3>2. page[i - a] = s[i]
        BY <1>6, <3>1
      <3> QED BY <1>3, <1>5, <2>0, <2>2, <3>2
    <2> QED BY <1>3, <2>1, <2>2
  <1>9. before \o page = after
    BY <1>5, <1>7, <1>8, SeqEqual
  <1> QED BY <1>9 DEF before, page, after, a, b, Page

LEMMA NonNegative ==
  ASSUME NEW i \in Nat, NEW j \in Nat
  PROVE  i * j \in Nat
  OBVIOUS

\* All pages, one more than are needed, are the rows.
LEMMA PagesFlatten ==
  ASSUME NEW S, NEW s \in Seq(S), NEW l \in Nat \ {0}, NEW n, n = Len(s) + 1, NEW pages,
         pages = [i \in 1..n |-> Page(s, l, (i - 1) * l)]
  PROVE  FlattenSeq(pages) = s
  <1> DEFINE To(i) == SubSeq(s, 1, Min({i * l, Len(s)}))
             f == [i \in 1..n |-> To(i)]
             Is(g) == g = [i \in 1..n |-> IF i = 1 THEN pages[i] ELSE g[i - 1] \o pages[i]]
  <1>1. n \in Nat \ {0} /\ Len(s) \in Nat /\ Len(pages) = n
    OBVIOUS
  <1>2. ASSUME NEW i \in Nat PROVE i * l \in Nat /\ (i - 1) * l + l = i * l
    OBVIOUS
  <1>3. ASSUME NEW i \in 1..n, i # 1 PROVE To(i - 1) \o pages[i] = To(i)
    <2>1. (i - 1) * l \in Nat /\ (i - 1) * l + l = i * l
      <3>1. i - 1 \in Nat /\ i \in Nat
        BY <1>1, <1>3
      <3> QED BY <1>2, <3>1
    <2>2. pages[i] = Page(s, l, (i - 1) * l)
      OBVIOUS
    <2> DEFINE o == (i - 1) * l
    <2> HIDE DEF o
    <2>3. SubSeq(s, 1, Min({o, Len(s)})) \o Page(s, l, o) = SubSeq(s, 1, Min({o + l, Len(s)}))
      BY <2>1, PageJoins DEF o
    <2> QED BY <2>1, <2>2, <2>3 DEF o
  <1>4. pages[1] = To(1)
    <2>1. 1 \in 1..n /\ (1 - 1) * l = 0 /\ 1 * l = l /\ 0 + l = l /\ 0 + 1 = 1
      BY <1>1
    <2>2. pages[1] = Page(s, l, 0)
      BY <2>1
    <2>3. Page(s, l, 0) = SubSeq(s, 0 + 1, Min({0 + l, Len(s)}))
      BY DEF Page
    <2> QED BY <2>1, <2>2, <2>3, Zenon
  <1>5. Is(f)
    <2>1. \A i \in 1..n : f[i] = IF i = 1 THEN pages[i] ELSE f[i - 1] \o pages[i]
      <3> SUFFICES ASSUME NEW i \in 1..n
                   PROVE  f[i] = IF i = 1 THEN pages[i] ELSE f[i - 1] \o pages[i]
        OBVIOUS
      <3>1. f[i] = To(i)
        OBVIOUS
      <3>2. CASE i = 1
        <4> HIDE DEF f, To
        <4> QED BY <1>4, <3>1, <3>2
      <3>3. CASE i # 1
        <4>1. i - 1 \in 1..n
          BY <1>1, <3>3
        <4>2. f[i - 1] = To(i - 1)
          BY <4>1
        <4>3. To(i - 1) \o pages[i] = To(i)
          BY <1>3, <3>3
        <4> HIDE DEF f, To
        <4> QED BY <3>1, <3>3, <4>2, <4>3
      <3> QED BY <3>2, <3>3
    <2>2. f = [i \in 1..n |-> f[i]]
      OBVIOUS
    <2> HIDE DEF f
    <2> QED BY <2>1, <2>2
  <1>6. FlattenSeq(pages) = (CHOOSE g : Is(g))[n]
    BY <1>1 DEF FlattenSeq
  <1> DEFINE g == CHOOSE h : Is(h)
  <1>7. Is(g)
    <2> HIDE DEF f, Is
    <2> QED BY <1>5
  <1> HIDE DEF g
  <1>8. ASSUME NEW i \in 1..n PROVE g[i] = To(i)
    <2> DEFINE T == {k \in 1..n : g[k] # To(k)}
               k == Min(T)
    <2> SUFFICES ASSUME T # {} PROVE FALSE
      OBVIOUS
    <2>1. T \in SUBSET Nat
      OBVIOUS
    <2>2. k \in T /\ \A m \in T : k <= m
      <3> HIDE DEF T
      <3> QED BY <2>1, LeastIs
    <2> HIDE DEF k
    <2>3. k \in 1..n /\ g[k] # To(k) /\ \A m \in 1..n : m < k => g[m] = To(m)
      <3>1. ASSUME NEW m \in 1..n, m < k, m \in T PROVE FALSE
        <4> HIDE DEF T
        <4> QED BY <1>1, <2>1, <2>2, <3>1
      <3> HIDE DEF To
      <3> QED BY <2>2, <3>1
    <2>4. g[k] = IF k = 1 THEN pages[k] ELSE g[k - 1] \o pages[k]
      <3>1. g = [m \in 1..n |-> IF m = 1 THEN pages[m] ELSE g[m - 1] \o pages[m]]
        BY <1>7
      <3>2. [m \in 1..n |-> IF m = 1 THEN pages[m] ELSE g[m - 1] \o pages[m]][k]
              = IF k = 1 THEN pages[k] ELSE g[k - 1] \o pages[k]
        BY <2>3
      <3> QED BY <3>1, <3>2, Zenon
    <2>5. CASE k = 1
      <3> HIDE DEF To
      <3> QED BY <1>4, <2>3, <2>4, <2>5
    <2>6. CASE k # 1
      <3>1. k - 1 \in 1..n /\ k - 1 < k
        BY <1>1, <2>3, <2>6
      <3>2. g[k - 1] = To(k - 1)
        BY <2>3, <3>1
      <3>3. To(k - 1) \o pages[k] = To(k)
        BY <1>3, <2>3, <2>6
      <3> HIDE DEF To
      <3> QED BY <2>3, <2>4, <2>6, <3>2, <3>3
    <2> QED BY <2>5, <2>6
  <1>9. To(n) = s
    <2>1. n * l \in Nat /\ n * l >= n
      <3>1. l - 1 \in Nat
        OBVIOUS
      <3> DEFINE m == l - 1
      <3> HIDE DEF m
      <3>2. n * m \in Nat
        BY <1>1, <3>1, NonNegative DEF m
      <3>3. n * l = n * m + n
        BY <1>1 DEF m
      <3> QED BY <1>1, <3>2, <3>3
    <2>2. Min({n * l, Len(s)}) = Len(s)
      <3> DEFINE o == n * l
      <3> HIDE DEF o
      <3>1. o \in Nat /\ o >= n
        BY <2>1 DEF o
      <3>2. Min({o, Len(s)}) = IF o <= Len(s) THEN o ELSE Len(s)
        BY <1>1, <3>1, MinOfTwo
      <3>3. ~(o <= Len(s))
        BY <1>1, <3>1
      <3>4. Min({o, Len(s)}) = Len(s)
        BY <3>2, <3>3
      <3> QED BY <3>4 DEF o
    <2>3. SubSeq(s, 1, Len(s)) = s
      BY SubSeqFull
    <2> QED BY <2>2, <2>3
  <1> HIDE DEF To, Is
  <1> QED BY <1>1, <1>6, <1>8, <1>9 DEF g

\* Both statements choose the same rows.
LEMMA FiltersAgree ==
  ASSUME NEW rows, NEW query, NEW other, IsFiniteSet(DOMAIN query.tags),
         other.tags = query.tags,
         \A row \in rows : Wanted(row, other) <=> Wanted(row, query)
  PROVE  FilteredBuilds(rows, other) = Filtered(rows, query)
  <1>1. ASSUME NEW row \in rows
        PROVE  MatchesByCount(row, query.tags) <=> MatchesByExists(row, query.tags)
    <2> DEFINE tags == query.tags
               matching == {k \in DOMAIN row.tags \cap DOMAIN tags :
                              TagMatches(row.tags[k], tags[k])}
    <2>1. matching \in SUBSET DOMAIN tags
      OBVIOUS
    <2>2. Cardinality(matching) = Cardinality(DOMAIN tags) <=> matching = DOMAIN tags
      <3> HIDE DEF matching
      <3> QED BY <2>1, FS_Subset
    <2>3. matching = DOMAIN tags <=>
            \A k \in DOMAIN tags : k \in DOMAIN row.tags /\ TagMatches(row.tags[k], tags[k])
      OBVIOUS
    <2> QED BY <2>2, <2>3 DEF MatchesByCount, MatchesByExists
  <1> QED BY <1>1 DEF FilteredBuilds, Filtered

\* The rows of the API and of the downloads page.
LEMMA PagesCovered ==
  ASSUME NEW rows, IsFiniteSet(rows), \A r \in rows : r.order \in Nat,
         NEW query, IsFiniteSet(DOMAIN query.tags), NEW limit \in 1..MaxLimit
  PROVE  PagesCover(rows, query, limit)
  <1> DEFINE all == Filtered(rows, query)
             n   == Cardinality(all) + 1
             Pages(m) == [i \in 1..m |-> CHOOSE r \in GetVersions(rows, rows, query, limit,
                                                    (i - 1) * limit) : TRUE]
             listed == FlattenSeq([i \in 1..n |-> Pages(n)[i].entries])
             builds == FlattenSeq([i \in 1..n |->
                         (CHOOSE r \in FetchPaginatedBuilds(rows, query.tags,
                                         (i - 1) * BuildsPerPage) : TRUE).entries])
  <1> SUFFICES ASSUME \A r, s \in rows : r.order = s.order => r = s
               PROVE  /\ {listed} = Orderings(all)
                      /\ query.recommended = BOOLEAN => builds = listed
                      /\ query.recommended = {TRUE} =>
                           FetchRecommendedBuild(rows, query.tags) = GetLatestVersion(rows, query)
    BY Zenon DEF PagesCover
  <1>1. Distinct(rows) /\ all \in SUBSET rows
    BY DEF Distinct, Filtered
  <1>2. Distinct(all)
    <2> HIDE DEF all
    <2> QED BY <1>1, DistinctSubset
  <1>3. PICK s : s \in Orderings(all)
    <2> HIDE DEF all
    <2> QED BY <1>2, OrderingExists
  <1>4. Orderings(all) = {s}
    <2>1. \A t \in Orderings(all) : t = s
      <3> HIDE DEF all
      <3> QED BY <1>2, <1>3, OrderingUnique
    <2> HIDE DEF all
    <2> QED BY <1>3, <2>1
  <1>5. s \in Seq(all) /\ n = Len(s) + 1 /\ Len(s) \in Nat
    <2>1. IsFiniteSet(all)
      BY <1>2 DEF Distinct
    <2> HIDE DEF all
    <2>2. s \in Seq(all) /\ Len(s) = Cardinality(all)
      BY <1>3, <2>1, OrderingsAreSequences
    <2> QED BY <2>2
  <1> HIDE DEF n
  <1>6. ASSUME NEW l, NEW o
        PROVE  GetVersionsOf(rows, rows, query, l, o) =
                 {[entries |-> Page(s, l, o),
                   total |-> IF Page(s, l, o) = <<>> THEN 0
                             ELSE CountVersionsFiltered(rows, query)]}
    <2>1. ListVersionsFiltered(rows, query, l, o) = {Page(s, l, o)}
      BY <1>4 DEF ListVersionsFiltered
    <2> QED BY <2>1 DEF GetVersionsOf
  <1>7. listed = s
    <2>1. ASSUME NEW i \in 1..n PROVE Pages(n)[i].entries = Page(s, limit, (i - 1) * limit)
      <3> DEFINE o == (i - 1) * limit
                 r == [entries |-> Page(s, limit, o),
                       total |-> IF Page(s, limit, o) = <<>> THEN 0
                                 ELSE CountVersionsFiltered(rows, query)]
      <3>1. o \in Nat
        <4>1. i - 1 \in Nat /\ limit \in Nat
          BY <1>5
        <4> DEFINE j == i - 1
        <4> HIDE DEF j
        <4>2. j * limit \in Nat
          BY <4>1, NonNegative DEF j
        <4> QED BY <4>2 DEF j
      <3>2. Pages(n)[i] = CHOOSE q \in GetVersions(rows, rows, query, limit, o) : TRUE
        OBVIOUS
      <3> HIDE DEF o
      <3>3. GetVersions(rows, rows, query, limit, o) = GetVersionsOf(rows, rows, query, limit, o)
        <4>1. limit \in 1..limit /\ o \in 0..o /\ limit # None /\ o # None
          BY <3>1, ListingAssumption DEF None
        <4>2. Min({limit, MaxLimit}) = limit
          BY MinOfTwo, ListingAssumption
        <4> QED BY <4>1, <4>2, Zenon DEF GetVersions
      <3>4. GetVersions(rows, rows, query, limit, o) = {r}
        BY <1>6, <3>3
      <3> HIDE DEF r
      <3>5. (CHOOSE q \in {r} : TRUE) = r
        OBVIOUS
      <3>6. Pages(n)[i] = r
        BY <3>2, <3>4, <3>5
      <3>7. r.entries = Page(s, limit, o)
        BY DEF r
      <3> QED BY <3>6, <3>7 DEF o
    <2>2. [i \in 1..n |-> Pages(n)[i].entries] = [i \in 1..n |-> Page(s, limit, (i - 1) * limit)]
      <3> HIDE DEF Pages
      <3> QED BY <2>1
    <2> DEFINE pages == [i \in 1..n |-> Pages(n)[i].entries]
    <2>3. limit \in Nat \ {0}
      BY ListingAssumption
    <2>4. pages = [i \in 1..n |-> Page(s, limit, (i - 1) * limit)]
      BY <2>2
    <2>5. FlattenSeq(pages) = s
      <3> HIDE DEF pages, all
      <3> QED BY <1>5, <2>3, <2>4, PagesFlatten
    <2> QED BY <2>5, Zenon
  <1>8. ASSUME NEW other, other.tags = query.tags, NEW l, NEW o,
               \A row \in rows : Wanted(row, other) <=> Wanted(row, query)
        PROVE  ListVersionsWithAssets(rows, other, l, o) =
                 {[entries |-> Page(s, l, o),
                   total |-> IF Page(s, l, o) = <<>> THEN 0 ELSE Len(s)]}
    <2>1. FilteredBuilds(rows, other) = all
      BY <1>8, FiltersAgree
    <2> QED BY <1>4, <2>1 DEF ListVersionsWithAssets
  <1>9. ASSUME query.recommended = BOOLEAN PROVE builds = s
    <2> DEFINE other == [recommended |-> BOOLEAN, tags |-> query.tags]
    <2>1. other.tags = query.tags /\ \A row \in rows : Wanted(row, other) <=> Wanted(row, query)
      BY <1>9 DEF Wanted
    <2>2. ASSUME NEW i \in 1..n
          PROVE  (CHOOSE r \in FetchPaginatedBuilds(rows, query.tags,
                                 (i - 1) * BuildsPerPage) : TRUE).entries
                   = Page(s, BuildsPerPage, (i - 1) * BuildsPerPage)
      <3> DEFINE o == (i - 1) * BuildsPerPage
                 r == [entries |-> Page(s, BuildsPerPage, o),
                       total |-> IF Page(s, BuildsPerPage, o) = <<>> THEN 0 ELSE Len(s)]
      <3> HIDE DEF o
      <3>1. FetchPaginatedBuilds(rows, query.tags, o)
              = ListVersionsWithAssets(rows, other, BuildsPerPage, o)
        BY DEF FetchPaginatedBuilds
      <3>2. FetchPaginatedBuilds(rows, query.tags, o) = {r}
        <4> HIDE DEF other
        <4> QED BY <1>8, <2>1, <3>1
      <3>3. r.entries = Page(s, BuildsPerPage, o)
        OBVIOUS
      <3> HIDE DEF r
      <3>4. (CHOOSE q \in {r} : TRUE) = r
        OBVIOUS
      <3> QED BY <3>2, <3>3, <3>4 DEF o
    <2>3. [i \in 1..n |-> (CHOOSE r \in FetchPaginatedBuilds(rows, query.tags,
                                          (i - 1) * BuildsPerPage) : TRUE).entries]
            = [i \in 1..n |-> Page(s, BuildsPerPage, (i - 1) * BuildsPerPage)]
      BY <2>2
    <2> DEFINE pages == [i \in 1..n |->
                           (CHOOSE r \in FetchPaginatedBuilds(rows, query.tags,
                                           (i - 1) * BuildsPerPage) : TRUE).entries]
    <2>4. FlattenSeq(pages) = s
      <3>1. pages = [i \in 1..n |-> Page(s, BuildsPerPage, (i - 1) * BuildsPerPage)]
        BY <2>3
      <3>2. BuildsPerPage \in Nat \ {0}
        BY ListingAssumption
      <3> HIDE DEF pages, all
      <3> QED BY <1>5, <3>1, <3>2, PagesFlatten
    <2> QED BY <2>4, Zenon
  <1>10. ASSUME query.recommended = {TRUE}
         PROVE  FetchRecommendedBuild(rows, query.tags) = GetLatestVersion(rows, query)
    <2> DEFINE other == [recommended |-> {TRUE}, tags |-> query.tags]
    <2>1. other.tags = query.tags /\ \A row \in rows : Wanted(row, other) <=> Wanted(row, query)
      BY <1>10 DEF Wanted
    <2>2. FetchRecommendedBuild(rows, query.tags) = {Page(s, 1, 0)}
      <3> DEFINE r == [entries |-> Page(s, 1, 0),
                       total |-> IF Page(s, 1, 0) = <<>> THEN 0 ELSE Len(s)]
      <3>1. ListVersionsWithAssets(rows, other, 1, 0) = {r}
        <4> HIDE DEF other
        <4> QED BY <1>8, <2>1
      <3>2. r.entries = Page(s, 1, 0)
        OBVIOUS
      <3> HIDE DEF r
      <3>3. {result.entries : result \in {r}} = {Page(s, 1, 0)}
        BY <3>2
      <3> QED BY <3>1, <3>3, Zenon DEF FetchRecommendedBuild
    <2>3. GetLatestVersion(rows, query) = {Page(s, 1, 0)}
      <3> DEFINE r == [entries |-> Page(s, 1, 0),
                       total |-> IF Page(s, 1, 0) = <<>> THEN 0
                                 ELSE CountVersionsFiltered(rows, query)]
      <3>1. GetVersionsOf(rows, rows, query, 1, 0) = {r}
        BY <1>6
      <3>2. r.entries = Page(s, 1, 0)
        OBVIOUS
      <3> HIDE DEF r
      <3>3. {result.entries : result \in {r}} = {Page(s, 1, 0)}
        BY <3>2
      <3> QED BY <3>1, <3>3, Zenon DEF GetLatestVersion
    <2> QED BY <2>2, <2>3
  <1> HIDE DEF all, listed, builds
  <1> QED BY <1>4, <1>7, <1>9, <1>10

-----------------------------------------------------------------------------
(* Walks. *)

\* A function over 0..N may be defined by what it is at 0 and a step.
Stepwise(N, St, a, step) ==
    N \in Nat /\ a \in St /\ step \in [1..N -> [St -> St]]

Defined(N, St, a, step) ==
    \E f \in [0..N -> St] : f[0] = a /\ \A n \in 1..N : f[n] = step[n][f[n - 1]]

LEMMA StepsDefine ==
  ASSUME NEW N, NEW St, NEW a, NEW step, Stepwise(N, St, a, step)
  PROVE  Defined(N, St, a, step)
  <1> DEFINE Is(f, m) == f[0] = a /\ \A n \in 1..m : f[n] = step[n][f[n - 1]]
             T == {m \in 0..N : ~\E f \in [0..m -> St] : Is(f, m)}
             k == Min(T)
  <1>0. N \in Nat /\ a \in St /\ step \in [1..N -> [St -> St]]
    BY DEF Stepwise
  <1> SUFFICES ASSUME T # {} PROVE FALSE
    <2>1. N \in 0..N
      BY <1>0
    <2> QED BY <2>1 DEF Defined
  <1>1. T \in SUBSET Nat
    OBVIOUS
  <1>2. k \in T /\ \A m \in T : k <= m
    <2> HIDE DEF T
    <2> QED BY <1>1, LeastIs
  <1> HIDE DEF k
  <1> USE <1>0
  <1>3. k \in 0..N /\ ~\E f \in [0..k -> St] : Is(f, k)
    BY <1>2
  <1>4. CASE k = 0
    <2> DEFINE f == [i \in 0..0 |-> a]
    <2>1. f \in [0..0 -> St] /\ f[0] = a /\ \A n \in 1..0 : f[n] = step[n][f[n - 1]]
      OBVIOUS
    <2> HIDE DEF f
    <2> QED BY <1>3, <1>4, <2>1
  <1>5. CASE k # 0
    <2>1. k - 1 \in 0..N /\ k - 1 < k /\ k \in 1..N
      BY <1>3, <1>5
    <2>2. k - 1 \notin T
      <3> HIDE DEF T
      <3> QED BY <1>1, <1>2, <2>1
    <2>3. PICK f \in [0..(k - 1) -> St] : Is(f, k - 1)
      BY <2>1, <2>2
    <2> DEFINE g == [i \in 0..k |-> IF i < k THEN f[i] ELSE step[k][f[k - 1]]]
    <2>4. step[k][f[k - 1]] \in St
      BY <1>3, <2>1
    <2>5. \A i \in 0..k : /\ i < k => g[i] = f[i] /\ i \in 0..(k - 1)
                         /\ i = k => g[i] = step[k][f[k - 1]]
      BY <1>3
    <2>6. g \in [0..k -> St]
      BY <1>3, <2>4, <2>5
    <2>7. g[0] = a
      BY <2>1, <2>3, <2>5
    <2>8. ASSUME NEW n \in 1..k PROVE g[n] = step[n][g[n - 1]]
      <3>1. n - 1 \in 0..k /\ n - 1 < k /\ n \in 0..k
        BY <1>3
      <3>2. g[n - 1] = f[n - 1]
        BY <2>5, <3>1
      <3>3. CASE n = k
        <4> HIDE DEF g
        <4> QED BY <2>5, <3>1, <3>2, <3>3
      <3>4. CASE n < k
        <4>1. n \in 1..(k - 1)
          BY <1>3, <3>4
        <4>2. f[n] = step[n][f[n - 1]]
          BY <2>3, <4>1
        <4>3. g[n] = f[n]
          BY <2>5, <3>1, <3>4
        <4> HIDE DEF g
        <4> QED BY <3>2, <4>2, <4>3
      <3> QED BY <1>3, <3>3, <3>4
    <2> HIDE DEF g
    <2> QED BY <1>3, <2>6, <2>7, <2>8
  <1> QED BY <1>4, <1>5

\* A history of n commits.
History(h, n) ==
    /\ n \in Nat /\ DOMAIN h.parents = 1..n
    /\ \A c \in 1..n : h.parents[c] \in SUBSET (1..(c - 1)) /\ h.time[c] \in Int

\* No commit of a heap is newer than c.
Newer(h, heap, c) == \A d \in heap : \/ h.time[c] > h.time[d]
                                     \/ h.time[c] = h.time[d] /\ c >= d

LEMMA NewestIs ==
  ASSUME NEW h, NEW n, History(h, n), NEW heap \in SUBSET (1..n), heap # {}
  PROVE  \E c \in heap : Newer(h, heap, c)
  <1> DEFINE T == {m \in 0..n : \E H \in SUBSET (1..m) : H # {} /\ ~\E c \in H : Newer(h, H, c)}
             k == Min(T)
  <1> SUFFICES ASSUME T # {} PROVE FALSE
    <2>1. n \in 0..n
      BY DEF History
    <2> QED BY <2>1
  <1>0. n \in Nat
    BY DEF History
  <1>1. T \in SUBSET Nat
    OBVIOUS
  <1>2. k \in T /\ \A m \in T : k <= m
    <2> HIDE DEF T
    <2> QED BY <1>1, LeastIs
  <1> HIDE DEF k
  <1>3. k \in 0..n
    BY <1>2
  <1>4. PICK H \in SUBSET (1..k) : H # {} /\ ~\E c \in H : Newer(h, H, c)
    BY <1>2
  <1>5. k \in 1..n /\ k - 1 \in 0..n /\ \A d \in 1..(k - 1) : d \in 1..n /\ d < k
    <2>1. k # 0
      <3> SUFFICES ASSUME k = 0 PROVE FALSE
        OBVIOUS
      <3>1. 1..k = {}
        OBVIOUS
      <3> QED BY <1>4, <3>1
    <2> QED BY <1>0, <1>3, <2>1
  <1>6. \A some \in SUBSET (1..(k - 1)) : some # {} => \E c \in some : Newer(h, some, c)
    <2>1. k - 1 \notin T
      <3>1. k - 1 < k
        BY <1>5
      <3> HIDE DEF T
      <3> QED BY <1>1, <1>2, <1>5, <3>1
    <2> QED BY <1>5, <2>1
  <1> DEFINE some == H \ {k}
  <1>7. some \in SUBSET (1..(k - 1))
    BY <1>5
  <1>8. H = some \cup {k}
    <2>1. k \in H
      <3> SUFFICES ASSUME k \notin H PROVE FALSE
        OBVIOUS
      <3>1. H \in SUBSET (1..(k - 1))
        BY <1>7
      <3> QED BY <1>4, <1>6, <3>1
    <2> QED BY <2>1
  <1> HIDE DEF T, some
  <1>9. \A c \in 1..n : h.time[c] \in Int
    BY DEF History
  <1>10. h.time[k] \in Int /\ \A d \in some : d \in 1..n /\ d < k /\ h.time[d] \in Int
    BY <1>5, <1>7, <1>9
  <1>11. (\A d \in some : h.time[k] >= h.time[d]) => Newer(h, H, k)
    <2> SUFFICES ASSUME \A d \in some : h.time[k] >= h.time[d], NEW d \in H
                 PROVE  \/ h.time[k] > h.time[d]
                        \/ h.time[k] = h.time[d] /\ k >= d
      BY DEF Newer
    <2>1. CASE d = k
      BY <1>5, <2>1
    <2>2. CASE d \in some
      BY <1>5, <1>10, <2>2
    <2> QED BY <1>8, <2>1, <2>2
  <1>12. CASE some = {}
    BY <1>4, <1>8, <1>11, <1>12
  <1>13. CASE some # {}
    <2>1. PICK c \in some : Newer(h, some, c)
      BY <1>6, <1>7, <1>13
    <2>2. h.time[c] > h.time[k] => Newer(h, H, c)
      BY <1>8, <2>1 DEF Newer
    <2>3. h.time[k] >= h.time[c] => Newer(h, H, k)
      <3> SUFFICES ASSUME h.time[k] >= h.time[c], NEW d \in some PROVE h.time[k] >= h.time[d]
        BY <1>11
      <3>1. h.time[c] > h.time[d] \/ h.time[c] = h.time[d]
        BY <2>1 DEF Newer
      <3>2. h.time[k] \in Int /\ h.time[c] \in Int /\ h.time[d] \in Int
        BY <1>10
      <3> QED BY <3>1, <3>2
    <2>4. h.time[c] \in Int /\ h.time[k] \in Int /\ c \in H /\ k \in H
      BY <1>8, <1>10
    <2>5. h.time[c] > h.time[k] \/ h.time[k] >= h.time[c]
      BY <2>4
    <2>6. ~Newer(h, H, c) /\ ~Newer(h, H, k)
      BY <1>4, <2>4
    <2> QED BY <2>2, <2>3, <2>5, <2>6
  <1> QED BY <1>12, <1>13

\* The walk as the sequence of its states.
WalkStates(n) == [heap: SUBSET (1..n), visited: Seq(1..n)]

Newest(h, heap) == CHOOSE c \in heap : Newer(h, heap, c)

Visit(h, w) ==
    IF w.heap = {} THEN w
    ELSE [heap |-> (w.heap \ {Newest(h, w.heap)})
                     \cup (h.parents[Newest(h, w.heap)] \ Range(w.visited)),
          visited |-> Append(w.visited, Newest(h, w.heap))]

LEMMA VisitIs ==
  ASSUME NEW h, NEW n, History(h, n), NEW w \in WalkStates(n)
  PROVE  /\ Visit(h, w) \in WalkStates(n)
         /\ w.heap # {} => Newest(h, w.heap) \in w.heap
  <1>1. w.heap \in SUBSET (1..n) /\ w.visited \in Seq(1..n)
    BY DEF WalkStates
  <1>2. CASE w.heap = {}
    BY <1>2 DEF Visit
  <1>3. CASE w.heap # {}
    <2>1. Newest(h, w.heap) \in w.heap
      BY <1>1, <1>3, NewestIs DEF Newest
    <2> DEFINE c == Newest(h, w.heap)
               heap == (w.heap \ {c}) \cup (h.parents[c] \ Range(w.visited))
               visited == Append(w.visited, c)
    <2> HIDE DEF c
    <2>2. c \in w.heap /\ c \in 1..n
      BY <1>1, <2>1 DEF c
    <2>3. h.parents[c] \in SUBSET (1..n)
      <3>1. h.parents[c] \in SUBSET (1..(c - 1)) /\ n \in Nat
        BY <2>2 DEF History
      <3>2. 1..(c - 1) \in SUBSET (1..n)
        BY <2>2, <3>1
      <3> QED BY <3>1, <3>2
    <2>4. heap \in SUBSET (1..n) /\ visited \in Seq(1..n)
      BY <1>1, <2>2, <2>3
    <2>5. Visit(h, w) = [heap |-> heap, visited |-> visited]
      BY <1>3 DEF Visit, c
    <2> HIDE DEF heap, visited
    <2> QED BY <2>1, <2>4, <2>5 DEF WalkStates
  <1> QED BY <1>2, <1>3

LEMMA WalkIs ==
  ASSUME NEW h, NEW n, History(h, n), NEW start \in 1..n
  PROVE  \E walk \in [0..WalkLimit -> WalkStates(n)] :
           /\ walk[0] = [heap |-> {start}, visited |-> <<>>]
           /\ \A k \in 1..WalkLimit : walk[k] = Visit(h, walk[k - 1])
           /\ Walk(h, start) = walk[WalkLimit].visited
  <1> DEFINE a == [heap |-> {start}, visited |-> <<>>]
             St == WalkStates(n)
             step == [k \in 1..WalkLimit |-> [w \in St |-> Visit(h, w)]]
             Is(walk) == walk = [k \in 0..WalkLimit |->
                                   IF k = 0 THEN a ELSE Visit(h, walk[k - 1])]
  <1>1. WalkLimit \in Nat
    BY ChangelogsAssumption
  <1>2. a \in St
    BY DEF WalkStates
  <1>3. step \in [1..WalkLimit -> [St -> St]]
    <2> HIDE DEF St
    <2>1. \A w \in St : Visit(h, w) \in St
      BY VisitIs DEF St
    <2> QED BY <2>1
  <1>4. \E walk : Is(walk)
    <2>1. PICK f \in [0..WalkLimit -> St] :
            f[0] = a /\ \A k \in 1..WalkLimit : f[k] = step[k][f[k - 1]]
      <3> HIDE DEF a, St, step
      <3>1. Stepwise(WalkLimit, St, a, step)
        BY <1>1, <1>2, <1>3 DEF Stepwise
      <3>2. Defined(WalkLimit, St, a, step)
        BY <3>1, StepsDefine
      <3> QED BY <3>2 DEF Defined
    <2>2. \A k \in 0..WalkLimit : f[k] = IF k = 0 THEN a ELSE Visit(h, f[k - 1])
      <3> SUFFICES ASSUME NEW k \in 0..WalkLimit, k # 0
                   PROVE  f[k] = Visit(h, f[k - 1])
        BY <2>1
      <3>1. k \in 1..WalkLimit /\ k - 1 \in 0..WalkLimit
        BY <1>1
      <3>2. f[k - 1] \in St
        BY <2>1, <3>1
      <3>3. step[k][f[k - 1]] = Visit(h, f[k - 1])
        <4> HIDE DEF St
        <4> QED BY <3>1, <3>2
      <3> QED BY <2>1, <3>1, <3>3
    <2>3. f = [k \in 0..WalkLimit |-> f[k]]
      BY <2>1
    <2> HIDE DEF a
    <2>4. Is(f)
      BY <2>2, <2>3
    <2> QED BY <2>4
  <1> DEFINE walk == CHOOSE g : Is(g)
  <1>5. Is(walk)
    <2> HIDE DEF Is
    <2> QED BY <1>4
  <1>6. Walk(h, start) = walk[WalkLimit].visited
    BY DEF Walk, Visit, Newest, Newer
  <1> HIDE DEF walk
  <1>7. walk[0] = a /\ \A k \in 1..WalkLimit : walk[k] = Visit(h, walk[k - 1])
    <2> HIDE DEF a
    <2>1. \A k \in 0..WalkLimit : walk[k] = IF k = 0 THEN a ELSE Visit(h, walk[k - 1])
      BY <1>5
    <2> QED BY <1>1, <2>1
  <1>8. walk \in [0..WalkLimit -> St]
    <2> DEFINE T == {k \in 0..WalkLimit : walk[k] \notin St}
               k == Min(T)
    <2>1. T = {}
      <3> SUFFICES ASSUME T # {} PROVE FALSE
        OBVIOUS
      <3>1. T \in SUBSET Nat
        OBVIOUS
      <3>2. k \in T /\ \A m \in T : k <= m
        <4> HIDE DEF T
        <4> QED BY <3>1, LeastIs
      <3> HIDE DEF k
      <3>3. k \in 0..WalkLimit /\ walk[k] \notin St
        <4> HIDE DEF St
        <4> QED BY <3>2
      <3>4. k # 0
        <4> HIDE DEF St, a
        <4> QED BY <1>2, <1>7, <3>3
      <3>5. k \in 1..WalkLimit /\ k - 1 \in 0..WalkLimit /\ k - 1 < k
        BY <1>1, <3>3, <3>4
      <3>6. k - 1 \notin T
        <4> HIDE DEF T
        <4> QED BY <1>1, <3>1, <3>2, <3>5
      <3>7. walk[k - 1] \in St
        <4> HIDE DEF St
        <4> QED BY <3>5, <3>6
      <3>8. Visit(h, walk[k - 1]) \in St
        BY <3>7, VisitIs
      <3> HIDE DEF St
      <3> QED BY <1>7, <3>3, <3>5, <3>8
    <2>2. walk = [i \in 0..WalkLimit |-> walk[i]]
      <3>1. \A g : g = walk => DOMAIN g = 0..WalkLimit
        BY <1>5
      <3> QED BY <1>5, <3>1
    <2> HIDE DEF St
    <2> QED BY <2>1, <2>2
  <1> HIDE DEF a, St
  <1> QED BY <1>6, <1>7, <1>8 DEF a, St

-----------------------------------------------------------------------------
(* What is reached. *)

Closed(h, S) == \A x \in S : h.parents[x] \subseteq S

\* What is in every set that has c and with a commit its parents.
Reached(h, n, c) ==
    {d \in 1..n : \A S \in SUBSET (1..n) : c \in S /\ Closed(h, S) => d \in S}

LEMMA ReachedIs ==
  ASSUME NEW h, NEW n, History(h, n), NEW c \in 1..n
  PROVE  /\ c \in Reached(h, n, c) /\ Reached(h, n, c) \in SUBSET (1..n)
         /\ Closed(h, Reached(h, n, c))
         /\ \A S \in SUBSET (1..n) : c \in S /\ Closed(h, S) => Reached(h, n, c) \subseteq S
  <1>1. c \in Reached(h, n, c) /\ Reached(h, n, c) \in SUBSET (1..n)
    BY DEF Reached
  <1>2. \A S \in SUBSET (1..n) : c \in S /\ Closed(h, S) => Reached(h, n, c) \subseteq S
    BY DEF Reached
  <1>3. ASSUME NEW x \in Reached(h, n, c), NEW p \in h.parents[x] PROVE p \in Reached(h, n, c)
    <2>1. p \in 1..n
      <3>1. x \in 1..n /\ h.parents[x] \in SUBSET (1..(x - 1)) /\ n \in Nat
        BY <1>1, <1>3 DEF History
      <3>2. p \in 1..(x - 1)
        BY <1>3, <3>1
      <3> QED BY <3>1, <3>2
    <2>2. ASSUME NEW S \in SUBSET (1..n), c \in S, Closed(h, S) PROVE p \in S
      BY <1>2, <1>3, <2>2 DEF Closed
    <2> QED BY <2>1, <2>2 DEF Reached
  <1> QED BY <1>1, <1>2, <1>3 DEF Closed

\* Each commit reaches itself and what its parents reach, and that says it all.
LEMMA ReachIs ==
  ASSUME NEW h, NEW n, History(h, n), NEW start \in 1..n
  PROVE  Reach(h)[start] = Reached(h, n, start)
  <1> DEFINE R(c) == Reached(h, n, c)
             f == [c \in 1..n |-> R(c)]
             Is(g) == g = [c \in 1..n |-> {c} \cup UNION {g[p] : p \in h.parents[c]}]
  <1>1. n \in Nat /\ DOMAIN h.parents = 1..n
    BY DEF History
  <1>2. ASSUME NEW c \in 1..n, NEW p \in h.parents[c] PROVE p \in 1..n /\ p < c
    <2>1. h.parents[c] \in SUBSET (1..(c - 1))
      BY DEF History
    <2>2. p \in 1..(c - 1)
      BY <1>2, <2>1
    <2> QED BY <1>1, <2>2
  <1>3. ASSUME NEW c \in 1..n PROVE R(c) = {c} \cup UNION {R(p) : p \in h.parents[c]}
    <2> DEFINE U == {c} \cup UNION {R(p) : p \in h.parents[c]}
    <2>1. U \subseteq R(c)
      <3> SUFFICES ASSUME NEW p \in h.parents[c] PROVE R(p) \subseteq R(c)
        BY ReachedIs
      <3>1. p \in R(c)
        BY ReachedIs DEF Closed
      <3> HIDE DEF R
      <3> QED BY <1>2, <3>1, ReachedIs DEF R
    <2>2. R(c) \subseteq U
      <3>1. U \in SUBSET (1..n) /\ c \in U
        BY <1>2, ReachedIs
      <3>2. ASSUME NEW x \in U, NEW y \in h.parents[x] PROVE y \in U
        <4>1. CASE x = c
          <5>1. y \in R(y) /\ y \in h.parents[c]
            BY <1>2, <3>2, <4>1, ReachedIs
          <5> HIDE DEF R
          <5> QED BY <5>1
        <4>2. CASE x # c
          <5>1. PICK p \in h.parents[c] : x \in R(p)
            BY <3>2, <4>2
          <5>2. y \in R(p)
            BY <1>2, <3>2, <5>1, ReachedIs DEF Closed
          <5> HIDE DEF R
          <5> QED BY <5>2
        <4> QED BY <4>1, <4>2
      <3>3. Closed(h, U)
        <4> HIDE DEF U
        <4> QED BY <3>2 DEF Closed
      <3> HIDE DEF U
      <3> QED BY <3>1, <3>3, ReachedIs
    <2> HIDE DEF R
    <2> QED BY <2>1, <2>2
  <1> HIDE DEF R
  <1>4. Is(f)
    <2>1. ASSUME NEW c \in 1..n PROVE f[c] = {c} \cup UNION {f[p] : p \in h.parents[c]}
      <3>1. \A p \in h.parents[c] : f[p] = R(p)
        BY <1>2
      <3>2. {f[p] : p \in h.parents[c]} = {R(p) : p \in h.parents[c]}
        BY <3>1
      <3>3. f[c] = R(c)
        OBVIOUS
      <3> HIDE DEF f
      <3> QED BY <1>3, <3>2, <3>3
    <2>2. f = [c \in 1..n |-> f[c]]
      OBVIOUS
    <2> HIDE DEF f
    <2> QED BY <2>1, <2>2
  <1> DEFINE g == CHOOSE u : Is(u)
  <1>5. Is(g)
    <2> HIDE DEF f, Is
    <2> QED BY <1>4
  <1>6. Reach(h) = g
    BY <1>1 DEF Reach
  <1> HIDE DEF g
  <1> DEFINE T == {c \in 1..n : g[c] # R(c)}
             k == Min(T)
  <1>7. T = {}
    <2> SUFFICES ASSUME T # {} PROVE FALSE
      OBVIOUS
    <2>1. T \in SUBSET Nat
      BY <1>1
    <2>2. k \in T /\ \A m \in T : k <= m
      <3> HIDE DEF T
      <3> QED BY <2>1, LeastIs
    <2> HIDE DEF k
    <2>3. k \in 1..n /\ g[k] # R(k)
      BY <2>2
    <2>4. ASSUME NEW p \in h.parents[k] PROVE g[p] = R(p)
      <3>1. p \in 1..n /\ p < k
        BY <1>2, <2>3
      <3>2. ~(k <= p)
        BY <1>1, <2>3, <3>1
      <3>3. p \notin T
        <4> HIDE DEF T
        <4> QED BY <2>2, <3>2
      <3> QED BY <3>1, <3>3
    <2>5. g[k] = {k} \cup UNION {g[p] : p \in h.parents[k]}
      <3>1. g = [c \in 1..n |-> {c} \cup UNION {g[p] : p \in h.parents[c]}]
        BY <1>5
      <3>2. [c \in 1..n |-> {c} \cup UNION {g[p] : p \in h.parents[c]}][k]
              = {k} \cup UNION {g[p] : p \in h.parents[k]}
        BY <2>3
      <3> QED BY <3>1, <3>2, Zenon
    <2>6. {g[p] : p \in h.parents[k]} = {R(p) : p \in h.parents[k]}
      BY <2>4
    <2> QED BY <1>3, <2>3, <2>5, <2>6
  <1> QED BY <1>6, <1>7 DEF R

-----------------------------------------------------------------------------
(* What is visited. *)

LEMMA SeqRange ==
  ASSUME NEW S, NEW s \in Seq(S)
  PROVE  Range(s) \subseteq S
  BY DEF Range

\* One more.
LEMMA AppendedIs ==
  ASSUME NEW S, NEW s \in Seq(S), NEW c \in S
  PROVE  /\ Append(s, c) \in Seq(S) /\ Len(Append(s, c)) = Len(s) + 1
         /\ Range(Append(s, c)) = Range(s) \cup {c}
         /\ IsInjective(s) /\ c \notin Range(s) => IsInjective(Append(s, c))
  <1> DEFINE t == Append(s, c)
             l == Len(s)
  <1>1. l \in Nat /\ DOMAIN s = 1..l
    OBVIOUS
  <1>2. /\ t \in Seq(S) /\ Len(t) = l + 1
        /\ \A i \in 1..l : t[i] = s[i]
        /\ t[l + 1] = c
    BY AppendProperties
  <1> HIDE DEF t
  <1>3. DOMAIN t = 1..(l + 1)
    BY <1>2
  <1> HIDE DEF l
  <1>4. \A i \in 1..(l + 1) : i \in 1..l \/ i = l + 1
    BY <1>1
  <1>5. 1..l \subseteq 1..(l + 1) /\ l + 1 \in 1..(l + 1)
    BY <1>1
  <1>6. Range(t) = Range(s) \cup {c}
    <2>1. Range(t) = {t[i] : i \in 1..(l + 1)} /\ Range(s) = {s[i] : i \in 1..l}
      BY <1>1, <1>3 DEF Range
    <2>2. \A i \in 1..(l + 1) : t[i] \in {s[j] : j \in 1..l} \cup {c}
      BY <1>2, <1>4
    <2>3. \A i \in 1..l : s[i] \in {t[j] : j \in 1..(l + 1)}
      BY <1>2, <1>5
    <2>4. c \in {t[j] : j \in 1..(l + 1)}
      BY <1>2, <1>5
    <2> QED BY <2>1, <2>2, <2>3, <2>4
  <1>7. ASSUME IsInjective(s), c \notin Range(s) PROVE IsInjective(t)
    <2>1. \A i \in 1..l : s[i] # c
      BY <1>1, <1>7 DEF Range
    <2>2. \A i, j \in 1..l : s[i] = s[j] => i = j
      BY <1>1, <1>7 DEF IsInjective
    <2>3. \A i, j \in 1..(l + 1) : t[i] = t[j] => i = j
      BY <1>2, <1>4, <2>1, <2>2
    <2> QED BY <1>3, <2>3 DEF IsInjective
  <1> QED BY <1>2, <1>6, <1>7 DEF t, l

\* No commit twice: as many as there are.
LEMMA InjectiveLength ==
  ASSUME NEW S, NEW s \in Seq(S), IsInjective(s), NEW T, IsFiniteSet(T), Range(s) \subseteq T
  PROVE  /\ Len(s) <= Cardinality(T)
         /\ Range(s) = T => Len(s) = Cardinality(T)
  <1> DEFINE l == Len(s)
  <1>1. l \in Nat /\ DOMAIN s = 1..l /\ s = [i \in 1..l |-> s[i]]
    OBVIOUS
  <1>2. \A i \in 1..l : s[i] \in T
    BY <1>1 DEF Range
  <1>3. s \in Injection(1..l, T)
    <2>1. s \in [1..l -> T]
      BY <1>1, <1>2
    <2>2. \A i, j \in 1..l : s[i] = s[j] => i = j
      BY <1>1 DEF IsInjective
    <2> QED BY <2>1, <2>2 DEF Injection, IsInjective
  <1>4. IsFiniteSet(1..l) /\ Cardinality(1..l) = l
    BY <1>1, FS_Interval
  <1>5. /\ Cardinality(1..l) <= Cardinality(T)
        /\ Cardinality(1..l) = Cardinality(T) <=> s \in Surjection(1..l, T)
    <2> HIDE DEF l
    <2> QED BY <1>3, FS_Injection
  <1>6. Range(s) = T => s \in Surjection(1..l, T)
    <2>1. Range(s) = T => \A d \in T : \E i \in 1..l : s[i] = d
      BY <1>1 DEF Range
    <2>2. s \in [1..l -> T]
      BY <1>1, <1>2
    <2> HIDE DEF l
    <2> QED BY <2>1, <2>2 DEF Surjection
  <1> QED BY <1>4, <1>5, <1>6

\* A walk: what it visited and what it is about to visit are reached; nothing is
\* visited twice; what was visited has its parents there.
Walking(h, n, start, w, k) ==
    /\ w \in WalkStates(n)
    /\ w.heap \cap Range(w.visited) = {} /\ IsInjective(w.visited)
    /\ start \in w.heap \cup Range(w.visited)
    /\ w.heap \cup Range(w.visited) \subseteq Reached(h, n, start)
    /\ \A c \in Range(w.visited) : h.parents[c] \subseteq w.heap \cup Range(w.visited)
    /\ w.heap = {} \/ Len(w.visited) = k

LEMMA VisitKeeps ==
  ASSUME NEW h, NEW n, History(h, n), NEW start \in 1..n, NEW w, NEW k \in Nat,
         Walking(h, n, start, w, k)
  PROVE  Walking(h, n, start, Visit(h, w), k + 1)
  <1>1. w \in WalkStates(n) /\ w.heap \in SUBSET (1..n) /\ w.visited \in Seq(1..n)
    BY DEF Walking, WalkStates
  <1>2. CASE w.heap = {}
    BY <1>2 DEF Walking, Visit
  <1>3. CASE w.heap # {}
    <2> DEFINE c == Newest(h, w.heap)
               v == Visit(h, w)
               seen == Range(w.visited)
    <2>1. c \in w.heap /\ c \in 1..n /\ v \in WalkStates(n)
      BY <1>1, <1>3, VisitIs
    <2>2. /\ v.heap = (w.heap \ {c}) \cup (h.parents[c] \ seen)
          /\ v.visited = Append(w.visited, c)
      BY <1>3 DEF Visit
    <2> HIDE DEF c, v, seen
    <2>3. /\ w.heap \cap seen = {} /\ IsInjective(w.visited)
          /\ start \in w.heap \cup seen
          /\ w.heap \cup seen \subseteq Reached(h, n, start)
          /\ \A x \in seen : h.parents[x] \subseteq w.heap \cup seen
          /\ Len(w.visited) = k
      BY <1>3 DEF Walking, seen
    <2>4. /\ Len(v.visited) = k + 1 /\ Range(v.visited) = seen \cup {c}
          /\ IsInjective(v.visited)
      <3> DEFINE s == w.visited
                 S == 1..n
      <3>1. s \in Seq(S) /\ c \in S
        BY <1>1, <2>1
      <3> HIDE DEF s, S
      <3>2. /\ Len(Append(s, c)) = Len(s) + 1 /\ Range(Append(s, c)) = Range(s) \cup {c}
            /\ IsInjective(s) /\ c \notin Range(s) => IsInjective(Append(s, c))
        BY <3>1, AppendedIs
      <3>3. Len(s) = k /\ Range(s) = seen /\ IsInjective(s) /\ c \notin seen
        BY <2>1, <2>3 DEF s, seen
      <3>4. v.visited = Append(s, c)
        BY <2>2 DEF s
      <3> QED BY <3>2, <3>3, <3>4
    <2>5. c \notin h.parents[c]
      <3>1. h.parents[c] \in SUBSET (1..(c - 1)) /\ c \in Int
        BY <2>1 DEF History
      <3>2. c \notin 1..(c - 1)
        BY <3>1
      <3> QED BY <3>1, <3>2
    <2>6. h.parents[c] \subseteq Reached(h, n, start)
      BY <2>1, <2>3, ReachedIs DEF Closed
    <2>7. v.heap \cap (seen \cup {c}) = {}
      BY <2>2, <2>3, <2>5
    <2>8. v.heap \cup seen \cup {c} = w.heap \cup seen \cup h.parents[c]
      BY <2>1, <2>2
    <2>9. \A x \in seen \cup {c} : h.parents[x] \subseteq v.heap \cup (seen \cup {c})
      BY <2>3, <2>8
    <2>10. v.heap \cup (seen \cup {c}) \subseteq Reached(h, n, start)
      BY <2>3, <2>6, <2>8
    <2>11. start \in v.heap \cup (seen \cup {c})
      BY <2>3, <2>8
    <2> HIDE DEF Reached
    <2>12. Walking(h, n, start, v, k + 1)
      BY <2>1, <2>4, <2>7, <2>9, <2>10, <2>11 DEF Walking
    <2> QED BY <2>12 DEF v
  <1> QED BY <1>2, <1>3

\* A walk that may be as long as the history visits what is reached, once each.
LEMMA WalkVisits ==
  ASSUME NEW h, NEW n, History(h, n), n <= WalkLimit, NEW start \in 1..n
  PROVE  /\ Walk(h, start) \in Seq(1..n) /\ IsInjective(Walk(h, start))
         /\ Range(Walk(h, start)) = Reached(h, n, start)
  <1>1. WalkLimit \in Nat /\ n \in Nat
    BY ChangelogsAssumption DEF History
  <1>2. PICK walk \in [0..WalkLimit -> WalkStates(n)] :
           /\ walk[0] = [heap |-> {start}, visited |-> <<>>]
           /\ \A k \in 1..WalkLimit : walk[k] = Visit(h, walk[k - 1])
           /\ Walk(h, start) = walk[WalkLimit].visited
    BY WalkIs
  <1>3. Walking(h, n, start, walk[0], 0)
    <2>1. 0 \in 0..WalkLimit
      BY <1>1
    <2>2. walk[0] \in WalkStates(n)
      BY <1>2, <2>1
    <2> DEFINE w == walk[0]
    <2>3. w.heap = {start} /\ w.visited = <<>>
      BY <1>2
    <2>4. Range(<<>>) = {} /\ IsInjective(<<>>) /\ Len(<<>>) = 0
      BY DEF Range, IsInjective
    <2>5. start \in Reached(h, n, start)
      BY ReachedIs
    <2> HIDE DEF w
    <2>6. w \in WalkStates(n)
      BY <2>2 DEF w
    <2>7. Walking(h, n, start, w, 0)
      BY <2>3, <2>4, <2>5, <2>6 DEF Walking
    <2> QED BY <2>7 DEF w
  <1> DEFINE T == {k \in 0..WalkLimit : ~Walking(h, n, start, walk[k], k)}
             k == Min(T)
  <1>4. T = {}
    <2> SUFFICES ASSUME T # {} PROVE FALSE
      OBVIOUS
    <2>1. T \in SUBSET Nat
      BY <1>1
    <2>2. k \in T /\ \A m \in T : k <= m
      <3> HIDE DEF T
      <3> QED BY <2>1, LeastIs
    <2> HIDE DEF k
    <2>3. k \in 0..WalkLimit /\ ~Walking(h, n, start, walk[k], k)
      BY <2>2
    <2>4. k \in 1..WalkLimit /\ k - 1 \in 0..WalkLimit /\ k - 1 \in Nat /\ ~(k <= k - 1)
          /\ (k - 1) + 1 = k
      BY <1>1, <1>3, <2>3
    <2>5. k - 1 \notin T
      <3> HIDE DEF T
      <3> QED BY <2>2, <2>4
    <2>6. Walking(h, n, start, walk[k - 1], k - 1)
      BY <2>4, <2>5
    <2>7. Walking(h, n, start, Visit(h, walk[k - 1]), (k - 1) + 1)
      BY <2>4, <2>6, VisitKeeps
    <2> QED BY <1>2, <2>3, <2>4, <2>7
  <1> DEFINE w == walk[WalkLimit]
             seen == Range(w.visited)
  <1>5. Walking(h, n, start, w, WalkLimit)
    <2>1. WalkLimit \in 0..WalkLimit
      BY <1>1
    <2> QED BY <1>4, <2>1
  <1> HIDE DEF w, seen
  <1>6. w.heap \in SUBSET (1..n) /\ w.visited \in Seq(1..n)
    BY <1>5 DEF Walking, WalkStates
  <1>7. w.heap = {}
    <2> SUFFICES ASSUME w.heap # {} PROVE FALSE
      OBVIOUS
    <2>1. PICK c : c \in w.heap
      OBVIOUS
    <2>2. Range(w.visited) \subseteq (1..n) \ {c} /\ c \in 1..n /\ Len(w.visited) = WalkLimit
          /\ IsInjective(w.visited)
      <3>1. Range(w.visited) \subseteq 1..n
        BY <1>6, SeqRange
      <3> QED BY <1>5, <1>6, <2>1, <3>1 DEF Walking
    <2>3. IsFiniteSet((1..n) \ {c}) /\ Cardinality((1..n) \ {c}) = n - 1
      <3>1. IsFiniteSet(1..n) /\ Cardinality(1..n) = n
        BY <1>1, FS_Interval
      <3> QED BY <2>2, <3>1, FS_RemoveElement
    <2>4. Len(w.visited) <= n - 1
      BY <1>6, <2>2, <2>3, InjectiveLength
    <2> QED BY <1>1, <2>2, <2>4
  <1>8. Reached(h, n, start) \subseteq seen
    <2>1. seen \in SUBSET (1..n) /\ start \in seen /\ Closed(h, seen)
      <3>1. seen \in SUBSET (1..n)
        BY <1>6, SeqRange DEF seen
      <3> QED BY <1>5, <1>7, <3>1 DEF Walking, Closed, seen
    <2> QED BY <2>1, ReachedIs
  <1>9. Walk(h, start) = w.visited
    BY <1>2 DEF w
  <1> QED BY <1>5, <1>6, <1>8, <1>9 DEF Walking, seen

\* The first k commits of s without those in X.
KeptOf(S, s, X, r, k) ==
    /\ r \in Seq(S) /\ IsInjective(r)
    /\ Range(r) = {s[i] : i \in 1..k} \ X

Keep(s, X, r, k) == IF s[k] \in X THEN r ELSE Append(r, s[k])

LEMMA KeepKeeps ==
  ASSUME NEW S, NEW s \in Seq(S), IsInjective(s), NEW X, NEW r, NEW k \in 1..Len(s),
         KeptOf(S, s, X, r, k - 1)
  PROVE  KeptOf(S, s, X, Keep(s, X, r, k), k)
  <1> DEFINE c == s[k]
             before == {s[i] : i \in 1..(k - 1)}
  <1>1. c \in S /\ k \in Nat
    OBVIOUS
  <1>2. {s[i] : i \in 1..k} = before \cup {c}
    <2>1. \A i \in 1..k : i \in 1..(k - 1) \/ i = k
      BY <1>1
    <2>2. k \in 1..k /\ 1..(k - 1) \subseteq 1..k
      BY <1>1
    <2> QED BY <2>1, <2>2
  <1>3. c \notin before
    <2> SUFFICES ASSUME NEW i \in 1..(k - 1), s[i] = c PROVE FALSE
      OBVIOUS
    <2>1. i \in DOMAIN s /\ k \in DOMAIN s /\ i # k
      BY <1>1
    <2> QED BY <2>1 DEF IsInjective
  <1>4. r \in Seq(S) /\ IsInjective(r) /\ Range(r) = before \ X
    BY DEF KeptOf
  <1> HIDE DEF before, c
  <1>5. /\ Append(r, c) \in Seq(S)
        /\ Range(Append(r, c)) = Range(r) \cup {c}
        /\ IsInjective(r) /\ c \notin Range(r) => IsInjective(Append(r, c))
    BY <1>1, <1>4, AppendedIs
  <1>6. CASE c \in X
    <2>1. Keep(s, X, r, k) = r
      BY <1>6 DEF Keep, c
    <2>2. Range(r) = (before \cup {c}) \ X
      BY <1>4, <1>6
    <2> QED BY <1>2, <1>4, <2>1, <2>2 DEF KeptOf
  <1>7. CASE c \notin X
    <2>1. Keep(s, X, r, k) = Append(r, c)
      BY <1>7 DEF Keep, c
    <2>2. Range(Append(r, c)) = (before \cup {c}) \ X /\ IsInjective(Append(r, c))
      BY <1>3, <1>4, <1>5, <1>7
    <2> QED BY <1>2, <1>5, <2>1, <2>2 DEF KeptOf
  <1> QED BY <1>6, <1>7

LEMMA NotExcludedIs ==
  ASSUME NEW S, NEW s \in Seq(S), IsInjective(s), NEW X
  PROVE  /\ NotExcluded(s, X) \in Seq(S) /\ IsInjective(NotExcluded(s, X))
         /\ Range(NotExcluded(s, X)) = Range(s) \ X
  <1> DEFINE l == Len(s)
             step == [k \in 1..l |-> [r \in Seq(S) |-> Keep(s, X, r, k)]]
             Is(f) == f = [k \in 0..l |-> IF k = 0 THEN <<>>
                                         ELSE IF s[k] \in X THEN f[k - 1]
                                         ELSE Append(f[k - 1], s[k])]
  <1>1. l \in Nat /\ <<>> \in Seq(S) /\ DOMAIN s = 1..l
    OBVIOUS
  <1>2. step \in [1..l -> [Seq(S) -> Seq(S)]]
    <2>1. ASSUME NEW k \in 1..l, NEW r \in Seq(S) PROVE Keep(s, X, r, k) \in Seq(S)
      <3>1. s[k] \in S
        OBVIOUS
      <3> QED BY <3>1, AppendProperties DEF Keep
    <2> QED BY <2>1
  <1>3. \E f : Is(f)
    <2>1. PICK f \in [0..l -> Seq(S)] :
            f[0] = <<>> /\ \A k \in 1..l : f[k] = step[k][f[k - 1]]
      <3> DEFINE St == Seq(S)
      <3>1. Stepwise(l, St, <<>>, step)
        BY <1>1, <1>2 DEF Stepwise
      <3> HIDE DEF step, l, St
      <3>2. Defined(l, St, <<>>, step)
        BY <3>1, StepsDefine
      <3> QED BY <3>2 DEF Defined, St
    <2>2. \A k \in 0..l : f[k] = IF k = 0 THEN <<>>
                                 ELSE IF s[k] \in X THEN f[k - 1]
                                 ELSE Append(f[k - 1], s[k])
      <3> SUFFICES ASSUME NEW k \in 0..l, k # 0
                   PROVE  f[k] = IF s[k] \in X THEN f[k - 1] ELSE Append(f[k - 1], s[k])
        BY <2>1
      <3>1. k \in 1..l /\ k - 1 \in 0..l
        BY <1>1
      <3>2. f[k - 1] \in Seq(S)
        BY <2>1, <3>1
      <3>3. step[k][f[k - 1]] = Keep(s, X, f[k - 1], k)
        BY <3>1, <3>2
      <3>4. f[k] = Keep(s, X, f[k - 1], k)
        BY <2>1, <3>1, <3>3
      <3> QED BY <3>4, Zenon DEF Keep
    <2>3. f = [k \in 0..l |-> f[k]]
      BY <2>1
    <2> HIDE DEF step, l
    <2>4. Is(f)
      BY <2>2, <2>3
    <2> QED BY <2>4
  <1> DEFINE f == CHOOSE g : Is(g)
  <1>4. Is(f)
    <2> HIDE DEF Is
    <2> QED BY <1>3
  <1>5. NotExcluded(s, X) = f[l]
    BY DEF NotExcluded
  <1> HIDE DEF f
  <1>6. f[0] = <<>> /\ \A k \in 1..l : f[k] = Keep(s, X, f[k - 1], k)
    <2>1. \A k \in 0..l : f[k] = IF k = 0 THEN <<>>
                                 ELSE IF s[k] \in X THEN f[k - 1]
                                 ELSE Append(f[k - 1], s[k])
      <3> HIDE DEF l
      <3> QED BY <1>4
    <2>2. 0 \in 0..l /\ \A k \in 1..l : k \in 0..l /\ k # 0
      BY <1>1
    <2> HIDE DEF l
    <2> QED BY <2>1, <2>2, Zenon DEF Keep
  <1>7. KeptOf(S, s, X, f[0], 0)
    <2>1. Range(<<>>) = {} /\ IsInjective(<<>>)
      BY DEF Range, IsInjective
    <2>2. {s[i] : i \in 1..0} = {}
      OBVIOUS
    <2> QED BY <1>1, <1>6, <2>1, <2>2 DEF KeptOf
  <1> DEFINE T == {k \in 0..l : ~KeptOf(S, s, X, f[k], k)}
             k == Min(T)
  <1>8. T = {}
    <2> SUFFICES ASSUME T # {} PROVE FALSE
      OBVIOUS
    <2>1. T \in SUBSET Nat
      BY <1>1
    <2>2. k \in T /\ \A m \in T : k <= m
      <3> HIDE DEF T
      <3> QED BY <2>1, LeastIs
    <2> HIDE DEF k
    <2>3. k \in 0..l /\ ~KeptOf(S, s, X, f[k], k)
      BY <2>2
    <2>4. k \in 1..l /\ k - 1 \in 0..l /\ ~(k <= k - 1)
      BY <1>1, <1>7, <2>3
    <2>5. k - 1 \notin T
      <3> HIDE DEF T
      <3> QED BY <2>2, <2>4
    <2>6. KeptOf(S, s, X, f[k - 1], k - 1)
      BY <2>4, <2>5
    <2> QED BY <1>6, <2>3, <2>4, <2>6, KeepKeeps
  <1>9. KeptOf(S, s, X, f[l], l)
    <2>1. l \in 0..l
      BY <1>1
    <2> QED BY <1>8, <2>1
  <1>10. Range(s) = {s[i] : i \in 1..l}
    BY <1>1 DEF Range
  <1> HIDE DEF l
  <1> QED BY <1>5, <1>9, <1>10 DEF KeptOf

\* A changelog is the difference of what is reached, for a history of any shape.
LEMMA DifferenceIs ==
  ASSUME NEW h, NEW n, History(h, n), n <= WalkLimit, NEW from \in 1..n, NEW to \in 1..n
  PROVE  IsDifference(h, from, to)
  <1> DEFINE S == 1..n
             difference == Reach(h)[to] \ Reach(h)[from]
             commits == NotExcluded(Walk(h, to), Range(Walk(h, from)))
             cut == Min({Len(commits), MaxChangelogCommits})
             changelog == ComputeChangelog(h, from, to)
  <1>1. n \in Nat /\ MaxChangelogCommits \in Nat
    BY ChangelogsAssumption DEF History
  <1>2. Reach(h)[to] = Reached(h, n, to) /\ Reach(h)[from] = Reached(h, n, from)
    BY ReachIs
  <1>3. /\ Walk(h, to) \in Seq(S) /\ IsInjective(Walk(h, to))
        /\ Range(Walk(h, to)) = Reach(h)[to] /\ Range(Walk(h, from)) = Reach(h)[from]
    BY <1>2, WalkVisits
  <1>4. IsFiniteSet(difference)
    <2>1. difference \in SUBSET S
      BY <1>2, ReachedIs
    <2>2. IsFiniteSet(S)
      BY <1>1, FS_Interval
    <2> HIDE DEF S, difference
    <2> QED BY <2>1, <2>2, FS_Subset
  <1>5. commits \in Seq(S) /\ IsInjective(commits) /\ Range(commits) = difference
    <2> DEFINE s == Walk(h, to)
               X == Range(Walk(h, from))
    <2>1. s \in Seq(S) /\ IsInjective(s)
      BY <1>3
    <2> HIDE DEF s, X, S
    <2>2. /\ NotExcluded(s, X) \in Seq(S) /\ IsInjective(NotExcluded(s, X))
          /\ Range(NotExcluded(s, X)) = Range(s) \ X
      BY <2>1, NotExcludedIs
    <2> QED BY <1>3, <2>2 DEF s, X
  <1>6. changelog = [commits |-> SubSeq(commits, 1, cut),
                     truncated |-> Len(commits) > MaxChangelogCommits]
    BY DEF ComputeChangelog
  <1> HIDE DEF S, commits
  <1>7. Len(commits) = Cardinality(difference) /\ Len(commits) \in Nat
    <2>1. Len(commits) \in Nat
      BY <1>5
    <2> HIDE DEF difference
    <2> QED BY <1>4, <1>5, <2>1, InjectiveLength
  <1>8. cut = IF Len(commits) <= MaxChangelogCommits THEN Len(commits) ELSE MaxChangelogCommits
    <2> DEFINE l == Len(commits)
    <2> HIDE DEF l
    <2>1. l \in Nat
      BY <1>7 DEF l
    <2>2. Min({l, MaxChangelogCommits}) = IF l <= MaxChangelogCommits THEN l ELSE MaxChangelogCommits
      BY <1>1, <2>1, MinOfTwo
    <2> QED BY <2>2 DEF l
  <1> HIDE DEF cut, difference
  <1>9. cut \in 0..Len(commits) /\ (~(Len(commits) > MaxChangelogCommits) => cut = Len(commits))
    BY <1>1, <1>7, <1>8
  <1> DEFINE shown == SubSeq(commits, 1, cut)
  <1>10. /\ DOMAIN shown = 1..cut
         /\ \A i \in 1..cut : shown[i] = commits[i] /\ i \in DOMAIN commits
    <2>1. \A i \in 1..cut : i \in 1..Len(commits) /\ commits[i] \in S
      BY <1>5, <1>7, <1>9
    <2>2. /\ shown \in Seq(S) /\ Len(shown) = IF 1 <= cut THEN cut - 1 + 1 ELSE 0
          /\ \A i \in 1..(cut - 1 + 1) : shown[i] = commits[1 + i - 1]
      <3>1. 1 \in Int /\ cut \in Int
        BY <1>9
      <3>2. \A i \in 1..cut : commits[i] \in S
        BY <2>1
      <3> QED BY <3>1, <3>2, SubSeqProperties
    <2>3. DOMAIN commits = 1..Len(commits)
      BY <1>5
    <2> HIDE DEF shown
    <2>4. Len(shown) = cut
      BY <1>7, <1>9, <2>2
    <2>5. DOMAIN shown = 1..cut
      BY <2>2, <2>4
    <2>6. \A i \in 1..cut : i \in 1..(cut - 1 + 1) /\ 1 + i - 1 = i
      BY <1>7, <1>9
    <2> QED BY <2>1, <2>2, <2>3, <2>5, <2>6
  <1>11. IsInjective(shown)
    <2> HIDE DEF shown
    <2> QED BY <1>5, <1>10 DEF IsInjective
  <1>12. Range(shown) \subseteq difference
    <2> HIDE DEF shown
    <2> QED BY <1>5, <1>10 DEF Range
  <1>13. ~(Len(commits) > MaxChangelogCommits) => Range(shown) = difference
    <2> SUFFICES ASSUME ~(Len(commits) > MaxChangelogCommits) PROVE shown = commits
      BY <1>5
    <2>1. cut = Len(commits)
      BY <1>9
    <2> QED BY <1>5, <2>1, SubSeqFull
  <1> HIDE DEF shown
  <1>14. changelog.commits = shown /\ changelog.truncated = (Len(commits) > MaxChangelogCommits)
    <2> HIDE DEF changelog
    <2> QED BY <1>6 DEF shown
  <1> HIDE DEF changelog
  <1>15. /\ IsInjective(changelog.commits)
         /\ Range(changelog.commits) \subseteq difference
         /\ changelog.truncated = (Cardinality(difference) > MaxChangelogCommits)
         /\ ~changelog.truncated => Range(changelog.commits) = difference
    BY <1>7, <1>11, <1>12, <1>13, <1>14
  <1> QED BY <1>15, Zenon DEF IsDifference, difference, changelog

-----------------------------------------------------------------------------
(* Submodules. *)

\* A changelog starts at the pointer it was given.
LEMMA LogsStart ==
  ASSUME NEW b, NEW n, NEW broken,
         NEW r \in DOMAIN SubmoduleChangelogs(b, n, broken)
  PROVE  r \in DOMAIN b /\ SubmoduleChangelogs(b, n, broken)[r].previous = b[r]
  <1>1. DOMAIN NoPointers = {}
    BY DEF NoPointers
  <1> QED BY <1>1 DEF SubmoduleChangelogs

\* What is stored of pointers are pointers.
Among(stored, now) ==
    \A r \in DOMAIN stored : r \in DOMAIN now /\ stored[r] = now[r]

LEMMA StoredAmong ==
  ASSUME NEW before, NEW now, NEW broken
  PROVE  Among(StoredSubmodules(before, now, broken), now)
  <1>1. DOMAIN NoPointers = {}
    BY DEF NoPointers
  <1>2. DOMAIN Changed(before, now) \subseteq DOMAIN now
    BY DEF Changed, Restrict
  <1>3. \A r \in DOMAIN Changed(before, now) : Changed(before, now)[r] = now[r]
    BY DEF Changed, Restrict
  <1> QED BY <1>1, <1>2, <1>3 DEF StoredSubmodules, Among

\* What is stored of pointers is all of them that are in a set.
LEMMA StoredIn ==
  ASSUME NEW before, NEW now, NEW broken
  PROVE  StoredSubmodules(before, now, broken)
           \in {NoPointers} \cup {Restrict(now, D) : D \in SUBSET DOMAIN now}
  <1> DEFINE D == {r \in DOMAIN now : r \notin DOMAIN before \/ before[r] # now[r]}
  <1>1. Changed(before, now) = Restrict(now, D) /\ D \in SUBSET DOMAIN now
    BY DEF Changed
  <1> HIDE DEF D
  <1> QED BY <1>1 DEF StoredSubmodules

LEMMA StartsIs ==
  ASSUME NEW pointers, NEW V \in Nat, Len(pointers) = V, NEW early, NEW broken
  PROVE  StartsAtPredecessor(pointers, early, broken)
  <1> DEFINE After(v, s) == StoredSubmodules(IF v \in early THEN NoPointers ELSE s,
                                              pointers[v], broken)
             St == {NoPointers} \cup
                     UNION {{NoPointers} \cup {Restrict(pointers[v], D) :
                               D \in SUBSET DOMAIN pointers[v]} : v \in 1..V}
             step == [v \in 1..V |-> [s \in St |-> After(v, s)]]
             Is(f) == f = [v \in 0..V |->
                             IF v = 0 THEN NoPointers
                             ELSE StoredSubmodules(IF v \in early THEN NoPointers ELSE f[v - 1],
                                                   pointers[v], broken)]
  <1>1. \E f : Is(f)
    <2>1. step \in [1..V -> [St -> St]]
      <3>1. ASSUME NEW v \in 1..V, NEW s \in St PROVE After(v, s) \in St
        <4>1. After(v, s) \in {NoPointers} \cup {Restrict(pointers[v], D) :
                                                   D \in SUBSET DOMAIN pointers[v]}
          BY StoredIn
        <4> HIDE DEF After
        <4> QED BY <4>1
      <3> HIDE DEF St, After
      <3> QED BY <3>1
    <2>2. NoPointers \in St
      OBVIOUS
    <2>3. PICK f \in [0..V -> St] :
            f[0] = NoPointers /\ \A v \in 1..V : f[v] = step[v][f[v - 1]]
      <3>1. Stepwise(V, St, NoPointers, step)
        BY <2>1, <2>2 DEF Stepwise
      <3> HIDE DEF step, St
      <3>2. Defined(V, St, NoPointers, step)
        BY <3>1, StepsDefine
      <3> QED BY <3>2 DEF Defined
    <2>4. ASSUME NEW v \in 1..V PROVE f[v] = After(v, f[v - 1])
      <3>1. v - 1 \in 0..V
        OBVIOUS
      <3>2. f[v - 1] \in St
        BY <2>3, <3>1
      <3> HIDE DEF St, After
      <3>3. step[v][f[v - 1]] = After(v, f[v - 1])
        BY <3>2
      <3> QED BY <2>3, <3>3
    <2>5. \A v \in 0..V :
            f[v] = IF v = 0 THEN NoPointers
                   ELSE StoredSubmodules(IF v \in early THEN NoPointers ELSE f[v - 1],
                                         pointers[v], broken)
      <3>1. \A v \in 0..V : v # 0 => v \in 1..V
        OBVIOUS
      <3> QED BY <2>3, <2>4, <3>1
    <2>6. f = [v \in 0..V |-> f[v]]
      BY <2>3
    <2>7. Is(f)
      <3> HIDE DEF St, step
      <3> QED BY <2>5, <2>6
    <2> QED BY <2>7
  <1> DEFINE stored == CHOOSE f : Is(f)
  <1>2. Is(stored)
    <2> HIDE DEF Is
    <2> QED BY <1>1
  <1>3. StoredOf(pointers, early, broken) = stored
    BY DEF StoredOf
  <1> HIDE DEF stored
  <1>4. ASSUME NEW v \in 1..V PROVE Among(stored[v], pointers[v])
    <2>1. v \in 0..V /\ v # 0
      OBVIOUS
    <2>2. stored[v] = StoredSubmodules(IF v \in early THEN NoPointers ELSE stored[v - 1],
                                       pointers[v], broken)
      BY <1>2, <2>1
    <2> QED BY <2>2, StoredAmong
  <1>5. ASSUME NEW v \in 2..V, NEW r \in DOMAIN
                 SubmoduleChangelogs(stored[v - 1], pointers[v], broken)
        PROVE  /\ r \in DOMAIN pointers[v - 1]
               /\ SubmoduleChangelogs(stored[v - 1], pointers[v], broken)[r].previous
                    = pointers[v - 1][r]
    <2>1. v - 1 \in 1..V
      OBVIOUS
    <2>2. /\ r \in DOMAIN stored[v - 1]
          /\ SubmoduleChangelogs(stored[v - 1], pointers[v], broken)[r].previous
               = stored[v - 1][r]
      BY <1>5, LogsStart
    <2> QED BY <1>4, <2>1, <2>2 DEF Among
  <1> HIDE DEF St, step, Is
  <1> QED BY <1>3, <1>5 DEF StartsAtPredecessor

-----------------------------------------------------------------------------
(* Parsed versions. *)

\* Simple parsing.
LEMMA SimpleParsed ==
  ASSUME NEW t, IsText(t), NEW m \in Int
  PROVE  /\ Numbered(ParseSimpleVersion(t))
         /\ LET v == [ParseSimpleVersion(t) EXCEPT !.manifest = m] IN
              Numbered(v) /\ v.segments = <<>> /\ v.manifest = m
  <1> DEFINE q == CASE t.tail \in {"w", ""}         -> Release
                    [] t.tail = "pre"              -> Pre
                    [] t.tail = "rc"               -> RC
                    [] t.tail \in {"snapshot", "-"} -> Snapshot
             n == IF t.tail \in {"pre", "rc", "snapshot"} THEN t.num ELSE 0
             w == t.tail = "w"
             p == [segments |-> <<>>, variant |-> 0, manifest |-> 0, weekly |-> w,
                   primary |-> t.ints, qualifier |-> q, number |-> n]
  <1>1. ParseSimpleVersion(t) = p
    BY DEF ParseSimpleVersion
  <1>2. q \in Int
    <2>1. t.tail \in {"w", ""} => q = Release
      OBVIOUS
    <2>2. t.tail = "pre" => q = Pre
      OBVIOUS
    <2>3. t.tail = "rc" => q = RC
      OBVIOUS
    <2>4. t.tail \in {"snapshot", "-"} => q = Snapshot
      OBVIOUS
    <2>5. Release \in Int /\ Pre \in Int /\ RC \in Int /\ Snapshot \in Int
      BY DEF Release, Pre, RC, Snapshot
    <2> HIDE DEF q
    <2> QED BY <2>1, <2>2, <2>3, <2>4, <2>5, Zenon DEF IsText
  <1>3. n \in Int /\ t.ints \in Seq(Int)
    <2>1. t.num \in Int /\ t.ints \in Seq(Int)
      BY Zenon DEF IsText
    <2>2. 0 \in Int
      OBVIOUS
    <2> QED BY <2>1, <2>2, Zenon
  <1>4. w \in BOOLEAN
    OBVIOUS
  <1> HIDE DEF q, n, w
  <1>5. Numbered(p)
    BY <1>2, <1>3, <1>4 DEF Numbered
  <1>6. LET v == [p EXCEPT !.manifest = m] IN
          Numbered(v) /\ v.segments = <<>> /\ v.manifest = m
    BY <1>2, <1>3, <1>4 DEF Numbered
  <1> HIDE DEF p
  <1> QED BY <1>1, <1>5, <1>6

\* One more number adds one at most to how many of a set are no greater.
LEMMA OneMore ==
  ASSUME NEW l \in Nat, NEW S \in SUBSET (1..l), NEW i \in 1..l
  PROVE  LET f(k) == Cardinality({j \in S : j <= k}) IN
           /\ f(i - 1) \in Nat
           /\ i \in S => f(i) = f(i - 1) + 1
           /\ i \notin S => f(i) = f(i - 1)
  <1> DEFINE T == {j \in S : j <= i - 1}
             U == {j \in S : j <= i}
  <1>0. /\ \A j \in S : /\ j \in 1..l
                        /\ j <= i <=> (j = i \/ j <= i - 1)
        /\ ~(i <= i - 1) /\ i <= i
    OBVIOUS
  <1>1. T \in SUBSET (1..l) /\ i \notin T
    BY <1>0, Zenon
  <1>2. IsFiniteSet(1..l)
    BY FS_Interval
  <1>3. IsFiniteSet(T) /\ Cardinality(T) \in Nat
    <2> HIDE DEF T
    <2> QED BY <1>1, <1>2, FS_Subset, FS_CardinalityType
  <1>4. i \in S => U = T \cup {i}
    BY <1>0, Zenon
  <1>5. i \notin S => U = T
    BY <1>0, Zenon
  <1> HIDE DEF T, U
  <1>6. Cardinality(T \cup {i}) = Cardinality(T) + 1
    BY <1>1, <1>3, FS_AddElement
  <1> QED BY <1>3, <1>4, <1>5, <1>6 DEF T, U

\* Of a set of numbers there is an nth, for every n up to its size.
LEMMA NthIs ==
  ASSUME NEW l \in Nat, NEW S \in SUBSET (1..l), NEW n \in 1..Cardinality(S)
  PROVE  \E i \in S : Cardinality({j \in S : j <= i}) = n
  <1> DEFINE f(k) == Cardinality({j \in S : j <= k})
             T == {i \in 1..l : f(i) >= n}
             i == Min(T)
  <1>0. Cardinality(S) \in Nat /\ \A j \in S : j \in 1..l
    <2>1. IsFiniteSet(1..l) /\ \A j \in S : j \in 1..l
      BY FS_Interval
    <2>2. IsFiniteSet(S)
      BY <2>1, FS_Subset
    <2> QED BY <2>1, <2>2, FS_CardinalityType
  <1>1. n \in Nat \ {0}
    BY <1>0
  <1>2. f(l) = Cardinality(S) /\ f(0) = 0
    <2>0. \A j \in S : j <= l /\ ~(j <= 0)
      BY <1>0
    <2>1. {j \in S : j <= l} = S /\ {j \in S : j <= 0} = {}
      BY <2>0, Zenon
    <2> QED BY <2>1, FS_EmptySet, Zenon
  <1>3. l \in T
    <2>1. l # 0
      BY <1>1, <1>2
    <2>2. f(l) >= n
      BY <1>0, <1>2
    <2> HIDE DEF f
    <2> QED BY <2>1, <2>2
  <1>4. ASSUME NEW k \in 1..l
        PROVE  /\ f(k - 1) \in Nat
               /\ k \in S => f(k) = f(k - 1) + 1
               /\ k \notin S => f(k) = f(k - 1)
    BY OneMore
  <1> HIDE DEF f
  <1>5. i \in T /\ \A k \in T : i <= k
    <2> T \in SUBSET Nat
      OBVIOUS
    <2> HIDE DEF T
    <2> QED BY <1>3, LeastIs
  <1> HIDE DEF i
  <1>6. f(i - 1) < n
    <2>1. CASE i = 1
      BY <1>1, <1>2, <2>1
    <2>2. CASE i # 1
      <3>1. i - 1 \in 1..l /\ i - 1 \notin T
        BY <1>5, <2>2
      <3>2. f(i - 1) \in Nat
        BY <1>4, <1>5
      <3> QED BY <1>1, <3>1, <3>2
    <2> QED BY <2>1, <2>2
  <1>7. i \in S /\ f(i) = n
    <2>1. i \in 1..l /\ f(i) >= n
      BY <1>5
    <2> QED BY <1>1, <1>4, <1>6, <2>1
  <1> QED BY <1>7 DEF f

\* There is a segment for each captured group.
LEMMA SegmentsParsed ==
  ASSUME NEW rules, NEW groups, Len(rules) \in Nat, DOMAIN rules = 1..Len(rules),
         \A group \in DOMAIN groups : IsText(groups[group])
  PROVE  LET s == ParseSegments(groups, rules) IN
           /\ Len(s) \in Nat
           /\ \A k \in 1..Len(s) : Captured(s[k])
  <1> DEFINE l == Len(rules)
             captured == {i \in DOMAIN rules : rules[i].name \in DOMAIN groups}
             Nth(n) == CHOOSE i \in captured : Cardinality({j \in captured : j <= i}) = n
             Value(rule) == LET text == groups[rule.name] IN
               CASE rule.parseAs = "minecraft" -> ParseSimpleVersion(text)
                 [] rule.parseAs = "dotted"    -> text.ints
                 [] rule.parseAs = "integer"   ->
                       IF Len(text.ints) = 1 /\ text.tail = "" THEN text.ints[1] ELSE 0
                 [] OTHER                      -> <<>>
             N == Cardinality(captured)
             s == [n \in 1..N |-> [parseAs |-> rules[Nth(n)].parseAs,
                                   value |-> Value(rules[Nth(n)])]]
  <1>1. captured \in SUBSET (1..l) /\ N \in Nat
    <2>1. captured \in SUBSET (1..l)
      OBVIOUS
    <2> HIDE DEF captured
    <2>2. IsFiniteSet(1..l)
      BY FS_Interval
    <2> QED BY <2>1, <2>2, FS_Subset, FS_CardinalityType
  <1>2. ASSUME NEW n \in 1..N PROVE Nth(n) \in captured
    <2> HIDE DEF captured
    <2>1. \E i \in captured : Cardinality({j \in captured : j <= i}) = n
      BY <1>1, NthIs
    <2> QED BY <2>1
  <1>3. ParseSegments(groups, rules) = s
    BY DEF ParseSegments
  <1>4. ASSUME NEW rule, rule.name \in DOMAIN groups
        PROVE  Captured([parseAs |-> rule.parseAs, value |-> Value(rule)])
    <2> DEFINE text == groups[rule.name]
    <2>1. IsText(text)
      BY <1>4
    <2>2. rule.parseAs = "minecraft" => Numbered(Value(rule))
      <3>1. rule.parseAs = "minecraft" => Value(rule) = ParseSimpleVersion(text)
        OBVIOUS
      <3>2. 0 \in Int
        OBVIOUS
      <3>3. Numbered(ParseSimpleVersion(text))
        BY <2>1, <3>2, SimpleParsed
      <3> QED BY <3>1, <3>3
    <2>3. rule.parseAs = "dotted" => Value(rule) \in Seq(Int)
      BY <2>1 DEF IsText
    <2>4. rule.parseAs = "integer" => Value(rule) \in Int
      <3>1. rule.parseAs = "integer" =>
              Value(rule) = IF Len(text.ints) = 1 /\ text.tail = "" THEN text.ints[1] ELSE 0
        OBVIOUS
      <3>2. text.ints \in Seq(Int)
        BY <2>1 DEF IsText
      <3>3. Len(text.ints) = 1 => text.ints[1] \in Int
        BY <3>2
      <3>4. 0 \in Int
        OBVIOUS
      <3> HIDE DEF Value
      <3> QED BY <3>1, <3>3, <3>4, Zenon
    <2> HIDE DEF Value
    <2> QED BY <2>2, <2>3, <2>4 DEF Captured
  <1> HIDE DEF Value
  <1>5. ASSUME NEW k \in 1..N PROVE Captured(s[k])
    <2> DEFINE i == Nth(k)
    <2>1. rules[i].name \in DOMAIN groups
      BY <1>2
    <2>2. s[k] = [parseAs |-> rules[i].parseAs, value |-> Value(rules[i])]
      OBVIOUS
    <2> HIDE DEF i
    <2> QED BY <1>4, <2>1, <2>2
  <1>6. Len(s) = N
    <2> HIDE DEF N, Nth
    <2> QED BY <1>1
  <1> HIDE DEF s, N
  <1> QED BY <1>1, <1>3, <1>5, <1>6

\* A version of an artifact with a schema, whatever matches it.
LEMMA VersionParsed ==
  ASSUME NEW t \in Text
  PROVE  Parsing(ParseVersionWithSchema(t, VersionSchema, t.manifest))
  <1> DEFINE matching == {i \in DOMAIN VersionSchema : VersionSchema[i].name \in DOMAIN t.match}
             first    == Min(matching)
             groups   == t.match[VersionSchema[first].name]
             segments == ParseSegments(groups, Rules(first))
             v == ParseVersionWithSchema(t, VersionSchema, t.manifest)
  <1>1. /\ matching \in SUBSET Nat /\ IsText(t.simple) /\ t.build \in Int
        /\ t.manifest \in Int
    BY TextAssumption
  <1>2. CASE matching = {}
    <2>1. v = [ParseSimpleVersion(t.simple) EXCEPT !.manifest = t.manifest]
      BY <1>2 DEF ParseVersionWithSchema
    <2> HIDE DEF v
    <2>2. Numbered(v) /\ v.segments = <<>> /\ v.manifest = t.manifest
      BY <1>1, <2>1, SimpleParsed
    <2> QED BY <1>1, <2>2 DEF Parsing, v
  <1>3. CASE matching # {}
    <2>1. first \in matching
      <3> HIDE DEF matching
      <3> QED BY <1>1, <1>3, LeastIs
    <2>2. v = [segments |-> segments, variant |-> first, manifest |-> t.manifest,
               weekly |-> FALSE, primary |-> <<>>,
               qualifier |-> QualifierOf(t.word), number |-> t.build]
      <3> HIDE DEF first
      <3> QED BY <1>3 DEF ParseVersionWithSchema, first, Rules
    <2> HIDE DEF first
    <2>3. /\ first \in Int
          /\ Len(Rules(first)) \in Nat /\ DOMAIN Rules(first) = 1..Len(Rules(first))
          /\ \A group \in DOMAIN groups : IsText(groups[group])
      BY <2>1, TextAssumption
    <2> HIDE DEF matching, groups
    <2>4. Len(segments) \in Nat /\ \A k \in 1..Len(segments) : Captured(segments[k])
      BY <2>3, SegmentsParsed
    <2>5. QualifierOf(t.word) \in Int
      BY DEF QualifierOf, Release, Pre, RC, Snapshot
    <2> HIDE DEF segments, v
    <2>6. /\ v.segments = segments /\ v.variant = first /\ v.manifest = t.manifest
          /\ v.qualifier = QualifierOf(t.word) /\ v.number = t.build
          /\ v.weekly = FALSE /\ v.primary = <<>>
      BY <2>2
    <2>7. Segmented(v)
      BY <1>1, <2>3, <2>4, <2>5, <2>6 DEF Segmented
    <2>8. Numbered(v)
      <3>1. <<>> \in Seq(Int)
        OBVIOUS
      <3> QED BY <1>1, <2>5, <2>6, <3>1 DEF Numbered
    <2> QED BY <1>1, <2>6, <2>7, <2>8 DEF Parsing, v
  <1> QED BY <1>2, <1>3

\* Versions that parsing gives, three of one artifact.
LEMMA ParsedOrdered ==
  ASSUME NEW S \in {Parsed, ParsedSimple}, NEW a \in S, NEW b \in S, NEW c \in S
  PROVE  WeaklyOrdered(a, b, c)
  <1>1. \A v \in Parsed : Parsing(v)
    BY VersionParsed DEF Parsed
  <1>2. \A v \in ParsedSimple : Parsing(v)
    <2> SUFFICES ASSUME NEW v \in ParsedSimple PROVE Parsing(v)
      OBVIOUS
    <2>1. PICK t \in SimpleText, m \in {0, 1} :
            v = [ParseSimpleVersion(t) EXCEPT !.manifest = m]
      BY DEF ParsedSimple
    <2>2. IsText(t) /\ m \in Int
      BY TextAssumption
    <2>3. Numbered(v) /\ v.segments = <<>> /\ v.manifest = m
      BY <2>1, <2>2, SimpleParsed
    <2> QED BY <2>2, <2>3 DEF Parsing
  <1>3. Parsing(a) /\ Parsing(b) /\ Parsing(c)
    BY <1>1, <1>2
  <1> QED BY <1>3, VersionsOrdered

-----------------------------------------------------------------------------
(* Every input. *)

\* The rows of an artifact.
Rowed(rows) == /\ Keyed(rows)
               /\ \A r \in rows : r.order \in Nat /\ r.recommended \in BOOLEAN

LEMMA TableRowed ==
  ASSUME NEW n \in Nat, NEW held \in [1..n -> Row]
  PROVE  Rowed(Table(held)) /\ Ids(Table(held)) = 1..n
  <1> DEFINE At(i) == [id |-> i, order |-> held[i].order,
                       recommended |-> held[i].recommended, tags |-> held[i].tags]
             S == 1..n
  <1>1. \A i \in S : At(i).id = i /\ At(i).order \in Nat /\ At(i).recommended \in BOOLEAN
    BY InputsAssumption
  <1>2. Table(held) = {At(i) : i \in S}
    BY DEF Table
  <1>3. IsFiniteSet(S)
    BY FS_Interval
  <1> HIDE DEF At, S
  <1>4. IsFiniteSet(Table(held))
    <2> DEFINE f == [i \in S |-> At(i)]
    <2>1. f \in Surjection(S, Table(held))
      BY <1>2 DEF Surjection
    <2> QED BY <1>3, <2>1, FS_Surjection
  <1>5. \A r, s \in Table(held) : r.id = s.id => r = s
    BY <1>1, <1>2
  <1>6. Ids(Table(held)) = S
    BY <1>1, <1>2 DEF Ids
  <1> QED BY <1>1, <1>2, <1>4, <1>5, <1>6 DEF Rowed, Keyed, S

\* Versions are of one artifact; a commit has older parents; a bar has builds at its
\* offset; rows are finitely many, each with an id, and none is deleted.
Given ==
    /\ input.kind = "compare" => /\ input.all \in {Parsed, ParsedSimple}
                                 /\ input.a \in input.all /\ input.b \in input.all
    /\ input.kind = "log" => /\ History(input.history, Commits)
                             /\ input.from \in 1..Commits /\ input.to \in 1..Commits
    /\ input.kind = "submodules" => Len(input.pointers) = Versions
    /\ input.kind = "bar" => /\ input.total \in Nat \ {0}
                             /\ input.offset \in 0..(input.total - 1)
    /\ input.kind = "list" => /\ Rowed(input.rows)
                              /\ IsFiniteSet(DOMAIN input.query.tags)
                              /\ input.limit \in 1..MaxLimit
    /\ input.kind = "overtake" => /\ Rowed(input.first) /\ Rowed(input.second)
                                  /\ Ids(input.first) \subseteq Ids(input.second)
                                  /\ input.limit \in Int /\ input.offset \in Int

LEMMA Inputs == Spec => []Given
  <1>1. Init => Given
    BY DEF Init, Given
  <1>2. Given /\ [Next]_input => Given'
    <2> SUFFICES ASSUME Given, [Next]_input PROVE Given'
      OBVIOUS
    <2>1. CASE Compare
      BY <2>1 DEF Compare, Given
    <2>2. CASE Log
      <3>1. PICK time \in [1..Commits -> Times], from \in 1..Commits, to \in 1..Commits,
                 parents \in {p \in [1..Commits -> SUBSET (1..Commits)] :
                                \A c \in 1..Commits : p[c] \in Ancestry[c]} :
              input' = [kind |-> "log", from |-> from, to |-> to,
                        history |-> [parents |-> parents, time |-> time]]
        BY <2>2, Zenon DEF Log
      <3> DEFINE h == [parents |-> parents, time |-> time]
      <3>2. h.parents = parents /\ h.time = time
        OBVIOUS
      <3>3. \A c \in 1..Commits : parents[c] \in SUBSET (1..(c - 1)) /\ time[c] \in Int
        BY InputsAssumption DEF Ancestry
      <3>4. Commits \in Nat /\ DOMAIN parents = 1..Commits
        BY InputsAssumption
      <3> HIDE DEF h
      <3>5. History(h, Commits)
        BY <3>2, <3>3, <3>4 DEF History
      <3>6. input'.kind = "log" /\ input'.history = h /\ input'.from = from /\ input'.to = to
        BY <3>1 DEF h
      <3> QED BY <3>5, <3>6 DEF Given
    <2>3. CASE Submodules
      <3>1. \A pointers \in [1..Versions -> Pointer] : Len(pointers) = Versions
        BY InputsAssumption
      <3> QED BY <2>3, <3>1 DEF Submodules, Given
    <2>4. CASE List
      <3>1. PICK n \in 0..MaxRows : \E held \in [1..n -> Row],
              tags \in Tags, flags \in Flags, limit \in 1..MaxLimit :
              input' = [kind |-> "list", rows |-> Table(held), limit |-> limit,
                        query |-> [recommended |-> flags, tags |-> tags]]
        BY <2>4, Zenon DEF List
      <3>2. PICK held \in [1..n -> Row], tags \in Tags, flags \in Flags, limit \in 1..MaxLimit :
              input' = [kind |-> "list", rows |-> Table(held), limit |-> limit,
                        query |-> [recommended |-> flags, tags |-> tags]]
        BY <3>1
      <3>3. Rowed(Table(held)) /\ IsFiniteSet(DOMAIN tags)
        BY TableRowed, InputsAssumption
      <3> QED BY <3>2, <3>3 DEF Given
    <2>5. CASE Overtake
      <3> DEFINE Overtaken(m, n) ==
              \E before \in [1..m -> Changing], after \in [1..n -> Changing],
                 tags \in Tags, flags \in Flags,
                 limit \in {None} \cup 0..(MaxLimit + 1), offset \in (None - 1)..MaxChanging :
                 input' = [kind |-> "overtake", first |-> Table(before),
                           second |-> Table(after),
                           query |-> [recommended |-> flags, tags |-> tags],
                           limit |-> limit, offset |-> offset]
      <3>0. \E n \in 0..MaxChanging : \E m \in 0..n : Overtaken(m, n)
        BY <2>5, Zenon DEF Overtake
      <3> HIDE DEF Overtaken
      <3>9. PICK n \in 0..MaxChanging : \E m \in 0..n : Overtaken(m, n)
        BY <3>0
      <3>1. PICK m \in 0..n : Overtaken(m, n)
        BY <3>9
      <3>2. PICK before \in [1..m -> Changing], after \in [1..n -> Changing],
                 tags \in Tags, flags \in Flags,
                 limit \in {None} \cup 0..(MaxLimit + 1), offset \in (None - 1)..MaxChanging :
              input' = [kind |-> "overtake", first |-> Table(before),
                        second |-> Table(after),
                        query |-> [recommended |-> flags, tags |-> tags],
                        limit |-> limit, offset |-> offset]
        BY <3>1, Zenon DEF Overtaken
      <3>3. m \in Nat /\ n \in Nat /\ 1..m \subseteq 1..n
        BY InputsAssumption
      <3>4. before \in [1..m -> Row] /\ after \in [1..n -> Row]
        BY InputsAssumption
      <3>5. /\ Rowed(Table(before)) /\ Rowed(Table(after))
            /\ Ids(Table(before)) \subseteq Ids(Table(after))
        BY <3>3, <3>4, TableRowed
      <3>6. limit \in Int /\ offset \in Int
        BY InputsAssumption, ListingAssumption DEF None
      <3> QED BY <3>2, <3>5, <3>6 DEF Given
    <2>6. CASE Bar
      BY <2>6, InputsAssumption DEF Bar, Given
    <2>7. CASE UNCHANGED input
      BY <2>7 DEF Given
    <2> QED BY <2>1, <2>2, <2>3, <2>4, <2>5, <2>6, <2>7 DEF Next
  <1> QED BY <1>1, <1>2, PTL DEF Spec

\* The bar of page links is sound for every number of builds and every offset that
\* has some (buildPageList and computePagination of internal/frontend).
THEOREM PageBarHolds == Spec => []PageBar
  <1>1. Given => PageBar
    BY BarSound DEF Given, PageBar
  <1> QED BY <1>1, Inputs, PTL

\* A changelog is exactly what one commit reaches and the other does not, each commit
\* once, for a history of any shape with any committer times that a walk can visit
\* (GoGitReader.ComputeChangelog); a submodule's changelog starts where the submodule
\* was at the previous version, in whatever order versions are enriched.
THEOREM ChangelogsAreExact == Spec => []ChangelogExact
  <1>1. Given => ChangelogExact
    <2> SUFFICES ASSUME Given PROVE ChangelogExact
      OBVIOUS
    <2>1. input.kind = "log" => IsDifference(input.history, input.from, input.to)
      <3>1. Commits <= WalkLimit
        BY InputsAssumption
      <3> QED BY <3>1, DifferenceIs DEF Given
    <2>2. input.kind = "submodules" =>
            StartsAtPredecessor(input.pointers, input.early, input.broken)
      <3>1. Versions \in Nat
        BY InputsAssumption
      <3> QED BY <3>1, StartsIs DEF Given
    <2> QED BY <2>1, <2>2 DEF ChangelogExact
  <1> QED BY <1>1, Inputs, PTL

\* Whoever follows the pages of the API or of the downloads page sees every version
\* the filter wants once, newest first, for any rows of different orders and any limit
\* (ListVersionsFiltered, ListVersionsWithAssets and their callers).
THEOREM PagesAreComplete == Spec => []PagesComplete
  <1>1. Given => PagesComplete
    <2> SUFFICES ASSUME Given, input.kind = "list"
                 PROVE  PagesCover(input.rows, input.query, input.limit)
      BY DEF PagesComplete
    <2>1. /\ IsFiniteSet(input.rows) /\ \A r \in input.rows : r.order \in Nat
          /\ IsFiniteSet(DOMAIN input.query.tags) /\ input.limit \in 1..MaxLimit
      BY DEF Given, Rowed, Keyed
    <2> QED BY <2>1, PagesCovered
  <1> QED BY <1>1, Inputs, PTL

\* A page goes past the total it states by no more versions than were taken out of
\* the filter between the two statements, and never without a filter, whatever rows
\* are added and whatever a sync run writes to the others (Service.GetVersions,
\* Handler.GetVersions; ApplyVersionOrdering, StoreVersionTags).
THEOREM TotalsHold == Spec => []TotalNeverShort
  <1>1. Given => TotalNeverShort
    <2> SUFFICES ASSUME Given, input.kind = "overtake", input.offset >= 0
                 PROVE  TotalCoversPage(input.first, input.second, input.query,
                                        input.limit, input.offset)
      BY DEF TotalNeverShort
    <2>1. /\ Keyed(input.first) /\ Keyed(input.second)
          /\ Ids(input.first) \subseteq Ids(input.second)
          /\ \A r \in input.second : r.recommended \in BOOLEAN
          /\ input.limit \in Int /\ input.offset \in Nat
      BY DEF Given, Rowed
    <2> QED BY <2>1, TotalCovers
  <1> QED BY <1>1, Inputs, PTL

\* CompareVersions (internal/domain) is a comparison a sort can rely on, for simple
\* versions of any length and for any versions of any schema - matched by one
\* variant, by several or by none, with all of their groups or without some -, three
\* entangled ones excepted; and it is antisymmetric for those too.
THEOREM ComparisonIsWeakOrder == Spec => []OrderIsWeak
  <1>1. Given => OrderIsWeak
    BY ParsedOrdered DEF Given, OrderIsWeak
  <1> QED BY <1>1, Inputs, PTL
=============================================================================
