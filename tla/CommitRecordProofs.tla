------------------------- MODULE CommitRecordProofs -------------------------
(***************************************************************************)
(* Theorems about CommitRecord, for any number of versions, overlapping    *)
(* runs, forced runs, polls and faults.                                    *)
(***************************************************************************)
EXTENDS CommitRecord, WellFoundedInduction, TLAPS

-----------------------------------------------------------------------------
(* The inductive invariant. *)

\* What a changelog child of v relies on: its version has a sha, which nobody
\* takes away, and so has the predecessor it found; it polls a bounded number
\* of times; and what it will write back has the sha it read.
ClogInv(c, v) ==
    /\ c.step = "read" => c.polls = 0
    /\ c.step = "poll" => c.polls < MaxPolls
    /\ c.state # "none" => body[v].sha
    /\ c.state # "none" /\ c.step \in {"poll", "reread"} => c.prev \in Predecessors(v)
    /\ c.state # "none" /\ c.step = "write" => c.seen.sha

\* The list of an enrichment batch, which is also its changelog batch's.
ListInv == \A r \in Run : run[r].stage = "enrich" => \A v \in run[r].list : body[v].sha

IInv == /\ TypeOK
        /\ ListInv
        /\ \A r \in Run, v \in Version : ClogInv(clog[r][v], v)

-----------------------------------------------------------------------------
(* The previous version. *)

\* A set of numbers up to n that is not empty has a largest one.
LEMMA MaxOfBounded ==
  ASSUME NEW n \in Nat, NEW S \in SUBSET (0..n), S # {}
  PROVE  Max(S) \in S
  <1> DEFINE T == {n - x : x \in S}
             R == OpToRel(<, Nat)
  <1>1. T \subseteq Nat /\ T # {}
    <2>1. \A x \in S : n - x \in Nat
      OBVIOUS
    <2>2. T \subseteq Nat
      BY <2>1
    <2>3. PICK x \in S : TRUE
      OBVIOUS
    <2>4. n - x \in T
      BY <2>3
    <2> QED BY <2>2, <2>4
  <1>2. IsWellFoundedOn(R, Nat)
    BY NatLessThanWellFounded
  <1>3. \A x, y \in Nat : x < y => <<x, y>> \in R
    BY DEF OpToRel
  <1> HIDE DEF R
  <1>4. PICK t \in T : \A u \in T : ~ (<<u, t>> \in R)
    <2> HIDE DEF T
    <2> QED BY <1>1, <1>2, WFMin
  <1>5. PICK x \in S : t = n - x
    OBVIOUS
  <1>6. \A y \in S : x >= y
    <2> SUFFICES ASSUME NEW y \in S, ~(x >= y) PROVE FALSE
      OBVIOUS
    <2>1. n - y \in T /\ n - y \in Nat /\ n - x \in Nat /\ n - y < n - x
      OBVIOUS
    <2> QED BY <2>1, <1>3, <1>4, <1>5
  <1> QED BY <1>6 DEF Max

LEMMA PreviousIsOne ==
  ASSUME NEW v \in Version, Predecessors(v) # {}
  PROVE  Previous(v) \in Predecessors(v) /\ Previous(v) \in 1..N
  <1>1. v \in Nat /\ N \in Nat /\ v <= N
    BY RecordAssumption DEF Version
  <1>2. Predecessors(v) \in SUBSET (0..N) /\ Predecessors(v) \subseteq 1..N
    BY <1>1 DEF Predecessors
  <1> QED BY <1>1, <1>2, MaxOfBounded DEF Previous

-----------------------------------------------------------------------------
(* The initial state, and what an action must leave in order. *)

LEMMA RecordTypes ==
  /\ NoBody \in Body /\ IndexedBody \in Body /\ PendingBody \in Body
  /\ \A v \in Version : EnrichedBody(v) \in Body /\ EnrichedBody(v).sha
  /\ IndexedBody.sha /\ PendingBody.sha
  /\ NoClog \in Clog
  /\ \A s \in ChildState : [NoClog EXCEPT !.state = s] \in Clog
  <1>1. 0 \in 0..N /\ 0 \in 0..MaxPolls
    BY RecordAssumption
  <1>2. NoBody \in Body /\ IndexedBody \in Body /\ PendingBody \in Body
    BY <1>1 DEF NoBody, Body, IndexedBody, PendingBody
  <1>3. \A v \in Version : EnrichedBody(v) \in Body /\ EnrichedBody(v).sha
    BY <1>1 DEF EnrichedBody, Body
  <1>4. IndexedBody.sha /\ PendingBody.sha
    BY DEF NoBody, IndexedBody, PendingBody
  <1>5. NoClog \in Clog
    <2> HIDE DEF NoBody
    <2> QED BY <1>1, <1>2 DEF NoClog, Clog, ClogStep, ChildState
  <1>6. \A s \in ChildState : [NoClog EXCEPT !.state = s] \in Clog
    BY <1>5 DEF Clog
  <1> QED BY <1>2, <1>3, <1>4, <1>5, <1>6

LEMMA InitInv == Init => IInv
  <1> SUFFICES ASSUME Init PROVE IInv
    OBVIOUS
  <1> USE RecordAssumption DEF Init
  <1>1. TypeOK
    BY RecordTypes DEF TypeOK, Stage, ChildState
  <1>2. ListInv /\ \A r \in Run, v \in Version : ClogInv(clog[r][v], v)
    BY DEF ListInv, ClogInv, NoClog
  <1> QED BY <1>1, <1>2 DEF IInv

\* Records that keep their sha keep what children rely on.
LEMMA ShaGrows ==
  ASSUME \A v \in Version : body[v].sha => body'[v].sha,
         NEW c, NEW v \in Version, ClogInv(c, v)
  PROVE  ClogInv(c, v)'
  <1>1. Predecessors(v) \subseteq Predecessors(v)'
    <2>1. 1..(v - 1) \subseteq Version
      BY RecordAssumption DEF Version
    <2> QED BY <2>1 DEF Predecessors
  <1> QED BY <1>1 DEF ClogInv

LEMMA Keeps ==
  ASSUME IInv, TypeOK',
         \A v \in Version : body[v].sha => body'[v].sha,
         \A r \in Run : run'[r].stage = "enrich" =>
             run'[r] = run[r] \/ \A v \in run'[r].list : body[v].sha,
         \A r \in Run, v \in Version :
             clog'[r][v] = clog[r][v] \/ ClogInv(clog'[r][v], v)
  PROVE  IInv'
  <1>1. ListInv'
    BY DEF IInv, ListInv, TypeOK
  <1>2. ASSUME NEW r \in Run, NEW v \in Version PROVE ClogInv(clog[r][v], v)'
    <2> DEFINE d == clog'[r][v]
    <2>1. ClogInv(d, v)
      BY DEF IInv
    <2> QED BY <2>1, ShaGrows DEF ClogInv
  <1> QED BY <1>1, <1>2 DEF IInv

\* A child's move keeps the invariant when its new state does.
LEMMA MoveKeeps ==
  ASSUME IInv, NEW r \in Run, NEW v \in Version, NEW c \in Clog, ClogInv(c, v),
         ClogMove(r, v, c),
         UNCHANGED <<known, run, index, enrich>>,
         body' \in [Version -> Body],
         \A w \in Version : body[w].sha => body'[w].sha,
         alone' \in SUBSET Version,
         faults' \in 0..MaxFaults
  PROVE  IInv'
  <1>1. /\ clog' \in [Run -> [Version -> Clog]]
        /\ \A q \in Run, w \in Version :
             clog'[q][w] = IF q = r /\ w = v THEN c ELSE clog[q][w]
    BY DEF ClogMove, IInv, TypeOK
  <1>2. TypeOK'
    BY <1>1 DEF IInv, TypeOK
  <1> QED BY <1>1, <1>2, Keeps

-----------------------------------------------------------------------------
(* The run. *)

LEMMA StartInv == ASSUME IInv, NEW r \in Run, Start(r) PROVE IInv'
  <1> USE DEF IInv
  <1>1. MaybeNew(r) \subseteq Version
    BY DEF MaybeNew, TypeOK
  <1>2. PICK new \in SUBSET MaybeNew(r) :
          /\ known' = known \cup new
          /\ LET list == IF r \in Forced THEN known' ELSE new IN
               /\ Enter(r, "index", list)
               /\ index' = [index EXCEPT ![r] =
                             [v \in Version |-> IF v \in list THEN "working" ELSE "none"]]
    BY DEF Start
  <1> DEFINE list == IF r \in Forced THEN known' ELSE new
             started == [v \in Version |-> IF v \in list THEN "working" ELSE "none"]
  <1>3. known' \in SUBSET Version /\ list \in SUBSET Version
    BY <1>1, <1>2 DEF TypeOK
  <1>4. started \in [Version -> ChildState]
    BY DEF ChildState
  <1>5. /\ run' = [run EXCEPT ![r] = [stage |-> "index", list |-> list]]
        /\ index' = [index EXCEPT ![r] = started]
        /\ UNCHANGED <<body, alone, enrich, clog, faults>>
    BY <1>2 DEF Start, Enter
  <1> HIDE DEF list, started
  <1>6. run' \in [Run -> [stage: Stage, list: SUBSET Version]]
    BY <1>3, <1>5 DEF TypeOK, Stage
  <1>7. index' \in [Run -> [Version -> ChildState]]
    BY <1>4, <1>5 DEF TypeOK
  <1>8. TypeOK'
    BY <1>3, <1>5, <1>6, <1>7 DEF TypeOK
  <1>9. \A q \in Run : run'[q].stage = "enrich" => run'[q] = run[q]
    BY <1>5 DEF TypeOK
  <1> QED BY <1>5, <1>8, <1>9, Keeps

LEMMA EnterType ==
  ASSUME TypeOK, NEW r \in Run, NEW stage \in Stage, NEW list \in SUBSET Version,
         Enter(r, stage, list)
  PROVE  /\ run' \in [Run -> [stage: Stage, list: SUBSET Version]]
         /\ run'[r].stage = stage /\ run'[r].list = list
         /\ \A q \in Run : q # r => run'[q] = run[q]
  BY DEF TypeOK, Enter

LEMMA StartEnrichmentInv == ASSUME IInv, NEW r \in Run, StartEnrichment(r) PROVE IInv'
  <1> USE DEF IInv
  <1>0. UNCHANGED <<known, body, alone, index, clog, faults>>
    BY DEF StartEnrichment, recordVars
  <1>1. CASE EndRun(r) /\ UNCHANGED enrich
    <2>1. Enter(r, "idle", {})
      BY <1>1 DEF EndRun
    <2>2. /\ run' \in [Run -> [stage: Stage, list: SUBSET Version]]
          /\ run'[r].stage = "idle"
          /\ \A q \in Run : q # r => run'[q] = run[q]
      BY <2>1, EnterType DEF Stage
    <2>3. TypeOK'
      BY <1>0, <1>1, <2>2 DEF TypeOK
    <2> QED BY <1>0, <2>2, <2>3, Keeps
  <1>2. CASE /\ Enter(r, "enrich", Needing)
             /\ enrich' = [enrich EXCEPT ![r] =
                   [v \in Version |-> IF v \in Needing THEN "working" ELSE "none"]]
    <2>1. Needing \in SUBSET Version /\ \A v \in Needing : body[v].sha
      BY DEF Needing, TypeOK
    <2>2. /\ run' \in [Run -> [stage: Stage, list: SUBSET Version]]
          /\ run'[r].list = Needing
          /\ \A q \in Run : q # r => run'[q] = run[q]
      BY <1>2, <2>1, EnterType DEF Stage
    <2>3. enrich' \in [Run -> [Version -> ChildState]]
      BY <1>2 DEF TypeOK, ChildState
    <2>4. TypeOK'
      BY <1>0, <2>2, <2>3 DEF TypeOK
    <2> QED BY <1>0, <2>1, <2>2, <2>4, Keeps
  <1> QED BY <1>1, <1>2 DEF StartEnrichment

\* A changelog batch over versions that have a sha.
LEMMA ChangelogBatchInv ==
  ASSUME IInv, NEW r \in Run, NEW list \in SUBSET Version, ChangelogBatch(r, list),
         \A v \in list : body[v].sha,
         UNCHANGED <<known, body, alone, index, enrich, faults>>
  PROVE  IInv'
  <1> USE DEF IInv
  <1> DEFINE first == [NoClog EXCEPT !.state = "working"]
             started == [v \in Version |-> IF v \in list THEN first ELSE NoClog]
  <1>1. NoClog \in Clog /\ first \in Clog
    BY RecordTypes DEF ChildState
  <1>2. /\ first.step = "read" /\ first.polls = 0
        /\ NoClog.step = "read" /\ NoClog.polls = 0 /\ NoClog.state = "none"
    BY DEF NoClog
  <1> HIDE DEF first
  <1>3. clog' = [clog EXCEPT ![r] = started] /\ Enter(r, "changelog", list)
    BY DEF ChangelogBatch, first
  <1>4. started \in [Version -> Clog]
    BY <1>1
  <1>5. \A v \in Version : started[v] = IF v \in list THEN first ELSE NoClog
    OBVIOUS
  <1> HIDE DEF started
  <1>6. /\ clog' \in [Run -> [Version -> Clog]]
        /\ \A q \in Run : clog'[q] = IF q = r THEN started ELSE clog[q]
    BY <1>3, <1>4 DEF TypeOK
  <1>7. \A v \in Version : ClogInv(started[v], v)
    BY <1>2, <1>5 DEF ClogInv
  <1>8. /\ run' \in [Run -> [stage: Stage, list: SUBSET Version]]
        /\ run'[r].stage = "changelog"
        /\ \A q \in Run : q # r => run'[q] = run[q]
    BY <1>3, EnterType DEF Stage
  <1>9. TypeOK'
    BY <1>6, <1>8 DEF TypeOK
  <1> QED BY <1>6, <1>7, <1>8, <1>9, Keeps

LEMMA StartChangelogsInv == ASSUME IInv, NEW r \in Run, StartChangelogs(r) PROVE IInv'
  <1>1. run[r].list \in SUBSET Version /\ \A v \in run[r].list : body[v].sha
    BY DEF IInv, TypeOK, ListInv, StartChangelogs
  <1> QED BY <1>1, ChangelogBatchInv DEF StartChangelogs, recordVars

LEMMA ForceChangelogInv == ASSUME IInv, NEW r \in Run, ForceChangelog(r) PROVE IInv'
  <1>1. Enriched \in SUBSET Version /\ \A v \in Enriched : body[v].sha
    BY DEF IInv, TypeOK, Enriched
  <1> QED BY <1>1, ChangelogBatchInv DEF ForceChangelog, recordVars

LEMMA FinishInv == ASSUME IInv, NEW r \in Run, Finish(r) PROVE IInv'
  <1> USE DEF IInv
  <1>0. UNCHANGED <<known, body, alone, index, enrich, clog, faults>>
    BY DEF Finish, recordVars, childVars
  <1>1. /\ run' \in [Run -> [stage: Stage, list: SUBSET Version]]
        /\ run'[r].stage = "idle"
        /\ \A q \in Run : q # r => run'[q] = run[q]
    BY EnterType DEF Stage, Finish, EndRun
  <1>2. TypeOK'
    BY <1>0, <1>1 DEF TypeOK
  <1> QED BY <1>0, <1>1, <1>2, Keeps

LEMMA FaultType == ASSUME TypeOK, Fault PROVE faults' \in 0..MaxFaults
  BY RecordAssumption DEF TypeOK, Fault

LEMMA NewState ==
  ASSUME NEW c \in Clog, NEW s \in ChildState
  PROVE  LET d == [c EXCEPT !.state = s] IN
           /\ d \in Clog /\ d.state = s
           /\ d.step = c.step /\ d.prev = c.prev /\ d.polls = c.polls /\ d.seen = c.seen
  BY DEF Clog

LEMMA TimeOutInv == ASSUME IInv, NEW r \in Run, TimeOut(r) PROVE IInv'
  <1> USE DEF IInv
  <1> DEFINE lated == [v \in Version |-> [clog[r][v] EXCEPT !.state = Lated(@)]]
  <1>0. UNCHANGED <<known, body, alone>>
    BY DEF TimeOut, recordVars
  <1>1. /\ run' \in [Run -> [stage: Stage, list: SUBSET Version]]
        /\ run'[r].stage = "idle"
        /\ \A q \in Run : q # r => run'[q] = run[q]
    BY EnterType DEF Stage, TimeOut, EndRun
  <1>2. faults' \in 0..MaxFaults
    BY FaultType DEF TimeOut, TypeOK
  <1>3. \A s \in ChildState : Lated(s) \in ChildState /\ (Lated(s) = "none" <=> s = "none")
    BY DEF Lated, ChildState
  <1>4. /\ index' \in [Run -> [Version -> ChildState]]
        /\ enrich' \in [Run -> [Version -> ChildState]]
    BY <1>3 DEF TimeOut, TypeOK
  <1>5. \A v \in Version : /\ lated[v] \in Clog
                           /\ lated[v].state = "none" <=> clog[r][v].state = "none"
                           /\ lated[v].step = clog[r][v].step
                           /\ lated[v].prev = clog[r][v].prev
                           /\ lated[v].polls = clog[r][v].polls
                           /\ lated[v].seen = clog[r][v].seen
    <2> SUFFICES ASSUME NEW v \in Version PROVE
                   LET d == [clog[r][v] EXCEPT !.state = Lated(@)] IN
                     /\ d \in Clog /\ (d.state = "none" <=> clog[r][v].state = "none")
                     /\ d.step = clog[r][v].step /\ d.prev = clog[r][v].prev
                     /\ d.polls = clog[r][v].polls /\ d.seen = clog[r][v].seen
      OBVIOUS
    <2>1. clog[r][v] \in Clog /\ clog[r][v].state \in ChildState
      BY DEF TypeOK, Clog
    <2>2. Lated(clog[r][v].state) \in ChildState
      BY <1>3, <2>1
    <2> QED BY <1>3, <2>1, <2>2, NewState
  <1>6. clog' = [clog EXCEPT ![r] = lated]
    BY DEF TimeOut
  <1>7. lated \in [Version -> Clog]
    BY <1>5
  <1> HIDE DEF lated
  <1>8. /\ clog' \in [Run -> [Version -> Clog]]
        /\ \A q \in Run : clog'[q] = IF q = r THEN lated ELSE clog[q]
    BY <1>6, <1>7 DEF TypeOK
  <1>9. \A v \in Version : ClogInv(lated[v], v)
    BY <1>5 DEF ClogInv
  <1>10. TypeOK'
    BY <1>0, <1>1, <1>2, <1>4, <1>8 DEF TypeOK
  <1> QED BY <1>0, <1>1, <1>8, <1>9, <1>10, Keeps

-----------------------------------------------------------------------------
(* Index and enrichment children. *)

\* A child whose write gives a record with a sha, or that writes nothing.
LEMMA WriterInv ==
  ASSUME IInv, NEW v \in Version, NEW b \in Body, b.sha,
         body' = body \/ body' = [body EXCEPT ![v] = b],
         UNCHANGED <<known, alone, run, clog>>,
         index' \in [Run -> [Version -> ChildState]],
         enrich' \in [Run -> [Version -> ChildState]],
         faults' \in 0..MaxFaults
  PROVE  IInv'
  <1>1. /\ body' \in [Version -> Body]
        /\ \A w \in Version : body[w].sha => body'[w].sha
    BY DEF IInv, TypeOK
  <1>2. TypeOK'
    BY <1>1 DEF IInv, TypeOK
  <1> QED BY <1>1, <1>2, Keeps

LEMMA NewChild ==
  ASSUME NEW f \in [Run -> [Version -> ChildState]], NEW r \in Run, NEW v \in Version,
         NEW s \in ChildState
  PROVE  [f EXCEPT ![r][v] = s] \in [Run -> [Version -> ChildState]]
  OBVIOUS

LEMMA IndexInv ==
  ASSUME IInv, NEW r \in Run, NEW v \in Version,
         IndexVersion(r, v) \/ IndexFails(r, v)
  PROVE  IInv'
  <1>1. faults' \in 0..MaxFaults
    BY FaultType DEF IInv, TypeOK, IndexVersion, IndexFails
  <1>2. body' = body \/ body' = [body EXCEPT ![v] = IndexedBody]
    BY DEF IndexVersion, IndexFails, Write
  <1>3. index' \in [Run -> [Version -> ChildState]]
    <2>1. PICK s \in {"none", "late"} : index' = [index EXCEPT ![r][v] = s]
      BY DEF IndexVersion, IndexFails
    <2>2. s \in ChildState /\ index \in [Run -> [Version -> ChildState]]
      BY <2>1 DEF ChildState, IInv, TypeOK
    <2> QED BY <2>1, <2>2, NewChild
  <1>4. /\ UNCHANGED <<known, alone, run, clog>>
        /\ enrich' \in [Run -> [Version -> ChildState]]
    BY DEF IInv, TypeOK, IndexVersion, IndexFails
  <1> QED BY <1>1, <1>2, <1>3, <1>4, RecordTypes, WriterInv

LEMMA EnrichInv ==
  ASSUME IInv, NEW r \in Run, NEW v \in Version,
         EnrichVersion(r, v) \/ EnrichFails(r, v)
  PROVE  IInv'
  <1>1. faults' \in 0..MaxFaults
    BY FaultType DEF IInv, TypeOK, EnrichVersion, EnrichFails
  <1>2. body' = body \/ body' = [body EXCEPT ![v] = EnrichedBody(v)]
    BY DEF EnrichVersion, EnrichFails, Write
  <1>3. enrich' \in [Run -> [Version -> ChildState]]
    <2>1. PICK s \in {"none", "late"} : enrich' = [enrich EXCEPT ![r][v] = s]
      BY DEF EnrichVersion, EnrichFails
    <2>2. s \in ChildState /\ enrich \in [Run -> [Version -> ChildState]]
      BY <2>1 DEF ChildState, IInv, TypeOK
    <2> QED BY <2>1, <2>2, NewChild
  <1>4. /\ UNCHANGED <<known, alone, run, clog>>
        /\ index' \in [Run -> [Version -> ChildState]]
    BY DEF IInv, TypeOK, EnrichVersion, EnrichFails
  <1> QED BY <1>1, <1>2, <1>3, <1>4, RecordTypes, WriterInv

-----------------------------------------------------------------------------
(* Changelog children. *)

LEMMA Child ==
  ASSUME IInv, NEW r \in Run, NEW v \in Version
  PROVE  clog[r][v] \in Clog /\ ClogInv(clog[r][v], v)
  BY DEF IInv, TypeOK

\* A child that ends, or starts again, has nothing to rely on but the sha.
LEMMA FreshClog ==
  ASSUME NEW v \in Version
  PROVE  /\ ClogInv(NoClog, v)
         /\ body[v].sha => /\ [NoClog EXCEPT !.state = "late"] \in Clog
                           /\ ClogInv([NoClog EXCEPT !.state = "late"], v)
  <1>1. ClogInv(NoClog, v)
    BY DEF ClogInv, NoClog
  <1>2. [NoClog EXCEPT !.state = "late"] \in Clog
    BY RecordTypes DEF ChildState
  <1>3. body[v].sha => ClogInv([NoClog EXCEPT !.state = "late"], v)
    BY DEF ClogInv, NoClog
  <1> QED BY <1>1, <1>2, <1>3

LEMMA DoneInv ==
  ASSUME IInv, NEW r \in Run, NEW v \in Version, ClogDone(r, v),
         UNCHANGED <<known, run, index, enrich>>,
         body' \in [Version -> Body],
         \A w \in Version : body[w].sha => body'[w].sha,
         alone' \in SUBSET Version,
         faults' \in 0..MaxFaults
  PROVE  IInv'
  BY FreshClog, RecordTypes, MoveKeeps DEF ClogDone

LEMMA ReadPreviousInv ==
  ASSUME IInv, NEW r \in Run, NEW v \in Version, ReadPrevious(r, v)
  PROVE  IInv'
  <1>0. /\ UNCHANGED <<known, body, run, index, enrich, faults>>
        /\ body' \in [Version -> Body] /\ faults' \in 0..MaxFaults
        /\ alone \in SUBSET Version
    BY DEF ReadPrevious, IInv, TypeOK
  <1>1. CASE ClogDone(r, v) /\ alone' = alone \cup {v}
    BY <1>0, <1>1, DoneInv
  <1>2. CASE /\ Predecessors(v) # {}
             /\ ClogMove(r, v, [clog[r][v] EXCEPT
                    !.step = IF body[Previous(v)].enriched THEN "merge" ELSE "poll",
                    !.prev = Previous(v)])
             /\ UNCHANGED alone
    <2> DEFINE old == clog[r][v]
               c == [old EXCEPT
                       !.step = IF body[Previous(v)].enriched THEN "merge" ELSE "poll",
                       !.prev = Previous(v)]
    <2>1. Previous(v) \in Predecessors(v) /\ Previous(v) \in 0..N
      BY <1>2, PreviousIsOne, RecordAssumption
    <2>2. old \in Clog /\ ClogInv(old, v)
      BY Child
    <2>3. old.state # "none" /\ old.step = "read" /\ 0 < MaxPolls
      BY RecordAssumption DEF ReadPrevious, ClogAt
    <2> HIDE DEF old
    <2>4. c \in Clog /\ c.state = old.state /\ c.polls = old.polls /\ c.prev = Previous(v)
          /\ c.step \in {"merge", "poll"}
      BY <2>1, <2>2 DEF Clog, ClogStep
    <2> HIDE DEF c
    <2>5. ClogInv(c, v)
      BY <2>1, <2>2, <2>3, <2>4 DEF ClogInv
    <2>6. ClogMove(r, v, c)
      BY <1>2 DEF c, old
    <2> QED BY <1>0, <1>2, <2>4, <2>5, <2>6, MoveKeeps
  <1> QED BY <1>1, <1>2 DEF ReadPrevious

\* What a child's move leaves alone when it writes nothing.
Silent == UNCHANGED <<recordVars, run, index, enrich>>

LEMMA SilentMove ==
  ASSUME IInv, NEW r \in Run, NEW v \in Version, NEW c \in Clog, ClogInv(c, v),
         ClogMove(r, v, c), Silent, faults' \in 0..MaxFaults
  PROVE  IInv'
  <1>1. /\ body' \in [Version -> Body] /\ alone' \in SUBSET Version
        /\ UNCHANGED <<known, run, index, enrich, body>>
    BY DEF IInv, TypeOK, Silent, recordVars
  <1> QED BY <1>1, MoveKeeps

LEMMA PollInv ==
  ASSUME IInv, NEW r \in Run, NEW v \in Version, Poll(r, v)
  PROVE  IInv'
  <1> DEFINE old == clog[r][v]
  <1>1. /\ old \in Clog /\ ClogInv(old, v)
        /\ old.state # "none" /\ old.step = "poll"
    BY Child DEF Poll, ClogAt
  <1>2. Silent /\ faults' \in 0..MaxFaults
    BY DEF Poll, Silent, recordVars, IInv, TypeOK
  <1>3. CASE ClogMove(r, v, [old EXCEPT !.step = "reread"])
    <2> HIDE DEF old
    <2> DEFINE c == [state |-> old.state, step |-> "reread", prev |-> old.prev,
                     polls |-> old.polls, seen |-> old.seen]
    <2>1. c \in Clog /\ c = [old EXCEPT !.step = "reread"]
      <3>1. c \in Clog
        BY <1>1 DEF Clog, ClogStep
      <3>2. c = [old EXCEPT !.step = "reread"]
        BY <1>1 DEF Clog
      <3> QED BY <3>1, <3>2
    <2>2. ClogInv(c, v)
      BY <1>1 DEF ClogInv
    <2> HIDE DEF c
    <2> QED BY <1>2, <1>3, <2>1, <2>2, SilentMove
  <1>4. CASE ClogMove(r, v, [old EXCEPT !.polls = @ + 1,
                               !.step = IF old.polls + 1 = MaxPolls THEN "mark" ELSE "poll"])
    <2> HIDE DEF old
    <2> DEFINE k == old.polls + 1
               step == IF k = MaxPolls THEN "mark" ELSE "poll"
               c == [old EXCEPT !.polls = k, !.step = step]
    <2>1. /\ k \in 0..MaxPolls /\ step \in ClogStep /\ (step = "poll" => k < MaxPolls)
          /\ step \notin {"read", "reread", "write"}
      BY <1>1, RecordAssumption DEF Clog, ClogStep, ClogInv
    <2>2. ClogMove(r, v, c)
      BY <1>4
    <2> HIDE DEF k, step
    <2>3. c \in Clog /\ c.state = old.state /\ c.prev = old.prev /\ c.polls = k /\ c.step = step
      BY <1>1, <2>1 DEF Clog
    <2> HIDE DEF c
    <2>4. ClogInv(c, v)
      BY <1>1, <2>1, <2>3 DEF ClogInv
    <2> QED BY <1>2, <2>2, <2>3, <2>4, SilentMove
  <1> QED BY <1>3, <1>4 DEF Poll

LEMMA RereadInv ==
  ASSUME IInv, NEW r \in Run, NEW v \in Version, Reread(r, v)
  PROVE  IInv'
  <1> DEFINE old == clog[r][v]
             c == [old EXCEPT !.step = "merge", !.prev = Previous(v)]
  <1>1. /\ old \in Clog /\ ClogInv(old, v)
        /\ old.state # "none" /\ old.step = "reread"
    BY Child DEF Reread, ClogAt
  <1>2. Silent /\ faults' \in 0..MaxFaults
    BY DEF Reread, Silent, recordVars, IInv, TypeOK
  <1>3. Predecessors(v) # {}
    BY <1>1 DEF ClogInv
  <1>4. Previous(v) \in 0..N
    BY <1>3, PreviousIsOne, RecordAssumption
  <1>5. ClogMove(r, v, c)
    BY DEF Reread
  <1> HIDE DEF old
  <1>6. c \in Clog /\ c.state = old.state /\ c.step = "merge"
    BY <1>1, <1>4 DEF Clog, ClogStep
  <1> HIDE DEF c
  <1>7. ClogInv(c, v)
    BY <1>1, <1>6 DEF ClogInv
  <1> QED BY <1>2, <1>5, <1>6, <1>7, SilentMove

LEMMA MergeInv ==
  ASSUME IInv, NEW r \in Run, NEW v \in Version, Merge(r, v)
  PROVE  IInv'
  <1> DEFINE old == clog[r][v]
             c == [old EXCEPT !.step = "write", !.seen = body[v]]
  <1>1. /\ old \in Clog /\ ClogInv(old, v)
        /\ old.state # "none" /\ old.step = "merge"
    BY Child DEF Merge, ClogAt
  <1>2. Silent /\ faults' \in 0..MaxFaults /\ body[v] \in Body
    BY DEF Merge, Silent, recordVars, IInv, TypeOK
  <1>3. ClogMove(r, v, c)
    BY DEF Merge
  <1> HIDE DEF old
  <1>4. c \in Clog /\ c.state = old.state /\ c.step = "write" /\ c.seen = body[v]
    BY <1>1, <1>2 DEF Clog, ClogStep
  <1> HIDE DEF c
  <1>5. ClogInv(c, v)
    BY <1>1, <1>4 DEF ClogInv
  <1> QED BY <1>2, <1>3, <1>4, <1>5, SilentMove

\* What is written back has the sha that was read.
LEMMA StoreChangelogInv ==
  ASSUME IInv, NEW r \in Run, NEW v \in Version, StoreChangelog(r, v)
  PROVE  IInv'
  <1> DEFINE old == clog[r][v]
             b == [old.seen EXCEPT !.changelog = old.prev,
                                   !.status = IF @ = "pending" THEN "" ELSE @]
  <1>1. /\ old \in Clog /\ old.seen.sha
    BY Child DEF StoreChangelog, ClogAt, ClogInv
  <1>2. /\ UNCHANGED <<known, alone, run, index, enrich, faults>>
        /\ body' = [body EXCEPT ![v] = b] /\ ClogDone(r, v)
    BY DEF StoreChangelog, Write
  <1> HIDE DEF old
  <1>3. old.seen \in Body /\ old.prev \in 0..N
    BY <1>1 DEF Clog
  <1>4. b \in Body /\ b.sha
    BY <1>1, <1>3 DEF Body
  <1> HIDE DEF b
  <1>5. /\ body' \in [Version -> Body]
        /\ \A w \in Version : body[w].sha => body'[w].sha
        /\ alone' \in SUBSET Version /\ faults' \in 0..MaxFaults
    BY <1>2, <1>4 DEF IInv, TypeOK
  <1> QED BY <1>2, <1>5, DoneInv

LEMMA MarkPendingInv ==
  ASSUME IInv, NEW r \in Run, NEW v \in Version, MarkPending(r, v)
  PROVE  IInv'
  <1>1. /\ UNCHANGED <<known, alone, run, index, enrich, faults>>
        /\ body' = [body EXCEPT ![v] = PendingBody] /\ ClogDone(r, v)
    BY DEF MarkPending, Write
  <1>2. /\ body' \in [Version -> Body]
        /\ \A w \in Version : body[w].sha => body'[w].sha
        /\ alone' \in SUBSET Version /\ faults' \in 0..MaxFaults
    BY <1>1, RecordTypes DEF IInv, TypeOK
  <1> QED BY <1>1, <1>2, DoneInv

LEMMA ReadFailsInv ==
  ASSUME IInv, NEW r \in Run, NEW v \in Version, ReadFails(r, v)
  PROVE  IInv'
  <1>0. faults' \in 0..MaxFaults
    BY FaultType DEF ReadFails, IInv
  <1>1. CASE ClogDone(r, v) /\ alone' = alone \cup {v}
    <2>1. /\ UNCHANGED <<known, body, run, index, enrich>>
          /\ body' \in [Version -> Body] /\ alone' \in SUBSET Version
      BY <1>1 DEF ReadFails, IInv, TypeOK
    <2> QED BY <1>0, <1>1, <2>1, DoneInv
  <1>2. CASE /\ ClogAt(r, v, "reread") /\ UNCHANGED alone
             /\ ClogMove(r, v, [clog[r][v] EXCEPT !.step = "stuck"])
    <2> DEFINE old == clog[r][v]
               c == [state |-> old.state, step |-> "stuck", prev |-> old.prev,
                     polls |-> old.polls, seen |-> old.seen]
    <2>1. old \in Clog /\ ClogInv(old, v)
      BY Child
    <2>2. ClogMove(r, v, [old EXCEPT !.step = "stuck"])
      BY <1>2
    <2> HIDE DEF old
    <2>3. c \in Clog /\ c = [old EXCEPT !.step = "stuck"]
      <3>1. c \in Clog
        BY <2>1 DEF Clog, ClogStep
      <3>2. c = [old EXCEPT !.step = "stuck"]
        BY <2>1 DEF Clog
      <3> QED BY <3>1, <3>2
    <2>4. ClogInv(c, v)
      BY <2>1 DEF ClogInv
    <2>5. Silent
      BY <1>2 DEF ReadFails, Silent, recordVars
    <2> HIDE DEF c
    <2> QED BY <1>0, <2>2, <2>3, <2>4, <2>5, SilentMove
  <1> QED BY <1>1, <1>2 DEF ReadFails

LEMMA ClogFailsInv ==
  ASSUME IInv, NEW r \in Run, NEW v \in Version, ClogFails(r, v)
  PROVE  IInv'
  <1>1. faults' \in 0..MaxFaults /\ Silent
    BY FaultType DEF ClogFails, IInv, Silent
  <1>2. body[v].sha
    BY Child DEF ClogFails, Alive, ClogInv
  <1>3. CASE ClogMove(r, v, [NoClog EXCEPT !.state = "late"])
    BY <1>1, <1>2, <1>3, FreshClog, SilentMove
  <1>4. CASE ClogDone(r, v)
    BY <1>1, <1>4, FreshClog, RecordTypes, SilentMove DEF ClogDone
  <1> QED BY <1>3, <1>4 DEF ClogFails

-----------------------------------------------------------------------------
(* The theorems. *)

LEMMA NextInv == IInv /\ [Next]_vars => IInv'
  <1> SUFFICES ASSUME IInv, [Next]_vars PROVE IInv'
    OBVIOUS
  <1>1. ASSUME NEW r \in Run,
               Start(r) \/ ForceChangelog(r) \/ RunStep(r) \/ TimeOut(r)
        PROVE  IInv'
    BY <1>1, StartInv, ForceChangelogInv, StartEnrichmentInv, StartChangelogsInv,
       FinishInv, TimeOutInv DEF RunStep
  <1>2. ASSUME NEW r \in Run, NEW v \in Version, ChildStep(r, v) PROVE IInv'
    BY <1>2, IndexInv, EnrichInv, ReadPreviousInv, PollInv, RereadInv, MergeInv,
       StoreChangelogInv, MarkPendingInv DEF ChildStep, ClogChild
  <1>3. ASSUME NEW r \in Run, NEW v \in Version, Failure(r, v) PROVE IInv'
    BY <1>3, IndexInv, EnrichInv, ReadFailsInv, ClogFailsInv DEF Failure
  <1>4. CASE UNCHANGED vars
    <2>1. TypeOK'
      BY <1>4 DEF vars, childVars, IInv, TypeOK
    <2> QED BY <1>4, <2>1, Keeps DEF vars, childVars
  <1> QED BY <1>1, <1>2, <1>3, <1>4 DEF Next

LEMMA Invariance == Spec => []IInv
  <1> QED BY InitInv, NextInv, PTL DEF Spec

\* Every state of the records, the runs and their children is of its type: a
\* changelog child that was given a predecessor finds one on its second read,
\* and no child polls more often than it may.
THEOREM TypeCorrect == Spec => []TypeOK
  <1>1. IInv => TypeOK
    BY DEF IInv
  <1> QED BY <1>1, Invariance, PTL

\* No write takes a commit away: what writes back a record it read earlier had
\* read the commit, because only a version that has one is handed to it.
THEOREM CommitIsKept == Spec => CommitKept
  <1>1. ASSUME IInv, [Next]_vars, NEW w \in Version, body[w].sha
        PROVE  body'[w].sha
    <2>1. ASSUME NEW r \in Run, NEW v \in Version, NEW b \in Body, b.sha,
                 body' = body \/ body' = [body EXCEPT ![v] = b]
          PROVE  body'[w].sha
      BY <1>1, <2>1 DEF IInv, TypeOK
    <2>2. ASSUME NEW r \in Run, NEW v \in Version,
                 IndexVersion(r, v) \/ IndexFails(r, v) \/ MarkPending(r, v)
          PROVE  body'[w].sha
      <3>1. \/ body' = body \/ body' = [body EXCEPT ![v] = IndexedBody]
            \/ body' = [body EXCEPT ![v] = PendingBody]
        BY <2>2 DEF IndexVersion, IndexFails, MarkPending, Write
      <3> QED BY <2>1, <3>1, RecordTypes
    <2>3. ASSUME NEW r \in Run, NEW v \in Version,
                 EnrichVersion(r, v) \/ EnrichFails(r, v)
          PROVE  body'[w].sha
      <3>1. body' = body \/ body' = [body EXCEPT ![v] = EnrichedBody(v)]
        BY <2>3 DEF EnrichVersion, EnrichFails, Write
      <3> QED BY <2>1, <3>1, RecordTypes
    <2>4. ASSUME NEW r \in Run, NEW v \in Version, StoreChangelog(r, v)
          PROVE  body'[w].sha
      <3> DEFINE old == clog[r][v]
                 b == [old.seen EXCEPT !.changelog = old.prev,
                                       !.status = IF @ = "pending" THEN "" ELSE @]
      <3>1. old \in Clog /\ old.seen.sha
        BY <1>1, <2>4, Child DEF StoreChangelog, ClogAt, ClogInv
      <3>2. body' = [body EXCEPT ![v] = b]
        BY <2>4 DEF StoreChangelog, Write
      <3> HIDE DEF old
      <3>3. old.seen \in Body /\ old.prev \in 0..N
        BY <3>1 DEF Clog
      <3>4. b \in Body /\ b.sha
        BY <3>1, <3>3 DEF Body
      <3> HIDE DEF b
      <3> QED BY <2>1, <3>2, <3>4
    <2>5. CASE UNCHANGED body
      BY <1>1, <2>5
    <2>6. ASSUME NEW r \in Run,
                 Start(r) \/ ForceChangelog(r) \/ RunStep(r) \/ TimeOut(r)
          PROVE  UNCHANGED body
      BY <2>6 DEF Start, ForceChangelog, RunStep, StartEnrichment, StartChangelogs,
                  Finish, TimeOut, recordVars
    <2>7. ASSUME NEW r \in Run, NEW v \in Version,
                 \/ ReadPrevious(r, v) \/ Poll(r, v) \/ Reread(r, v) \/ Merge(r, v)
                 \/ ReadFails(r, v) \/ ClogFails(r, v)
          PROVE  UNCHANGED body
      BY <2>7 DEF ReadPrevious, Poll, Reread, Merge, ReadFails, ClogFails, recordVars
    <2>8. CASE UNCHANGED vars
      BY <2>5, <2>8 DEF vars, recordVars
    <2> QED BY <1>1, <2>2, <2>3, <2>4, <2>5, <2>6, <2>7, <2>8
            DEF Next, ChildStep, ClogChild, Failure
  <1>2. IInv /\ [Next]_vars => [\A v \in Version : body[v].sha => body'[v].sha]_vars
    BY <1>1
  <1> QED BY <1>2, Invariance, PTL DEF Spec, CommitKept

-----------------------------------------------------------------------------
(* Without faults nobody is forgotten.                                      *)

\* While nothing has failed, every child belongs to the stage its run is in: an
\* enrichment child to a version of the batch's list, a changelog child to the
\* changelog batch; the batch waits for each, and each has the predecessor it
\* found.
Orderly(r) ==
    /\ run[r].stage # "changelog" => \A v \in Version : clog[r][v].state = "none"
    /\ \A v \in Version :
         /\ enrich[r][v] \in {"none", "working"}
         /\ enrich[r][v] # "none" => run[r].stage = "enrich" /\ v \in run[r].list
         /\ clog[r][v].state \in {"none", "working"}
         /\ clog[r][v].step # "stuck"
         /\ clog[r][v].step # "read" => clog[r][v].prev # 0

\* What an enriched version lacks until it has a changelog or a mark.
Owed(v) == /\ body[v].enriched /\ body[v].changelog = 0
           /\ body[v].status # "pending" /\ v \notin alone

\* Some run will still compute a changelog of v: v is in the list of an
\* enrichment batch, or has a changelog child.
InHand(v) == \E r \in Run : \/ run[r].stage = "enrich" /\ v \in run[r].list
                            \/ clog[r][v].state # "none"

Smooth == faults = 0 => /\ \A r \in Run : Orderly(r)
                        /\ \A v \in Version : Owed(v) => InHand(v)

LEMMA InitSmooth == Init => Smooth
  <1> SUFFICES ASSUME Init PROVE Smooth
    OBVIOUS
  <1>1. ~NoBody.enriched /\ NoClog.state = "none" /\ NoClog.step = "read"
    BY DEF NoBody, NoClog
  <1>2. \A v \in Version : ~Owed(v)
    BY <1>1 DEF Init, Owed
  <1>3. \A r \in Run : Orderly(r)
    BY <1>1 DEF Init, Orderly
  <1> QED BY <1>2, <1>3 DEF Smooth

LEMMA FaultIsNotSmooth == ASSUME TypeOK, Fault PROVE Smooth'
  BY DEF TypeOK, Fault, Smooth

\* A step that leaves the records alone and takes no version out of hand.
LEMMA HandsOn ==
  ASSUME Smooth, UNCHANGED <<body, alone, faults>>,
         faults = 0 => \A q \in Run : Orderly(q)',
         faults = 0 => \A v \in Version : InHand(v) => InHand(v)'
  PROVE  Smooth'
  BY DEF Smooth, Owed

\* What the stage of r becomes when it enters another.
LEMMA EnterEffect ==
  ASSUME TypeOK, NEW r \in Run, NEW stage, NEW list, Enter(r, stage, list)
  PROVE  /\ run'[r].stage = stage /\ run'[r].list = list
         /\ \A q \in Run : q # r => run'[q] = run[q]
  BY DEF TypeOK, Enter

\* A run that is idle or indexes has nothing in hand.
LEMMA StartSmooth == ASSUME IInv, Smooth, NEW r \in Run, Start(r) PROVE Smooth'
  <1>1. TypeOK /\ run[r].stage = "idle" /\ UNCHANGED <<body, alone, enrich, clog, faults>>
    BY DEF Start, IInv
  <1>2. /\ run'[r].stage = "index"
        /\ \A q \in Run : q # r => run'[q] = run[q]
    <2>1. PICK list : Enter(r, "index", list)
      BY DEF Start
    <2> QED BY <1>1, <2>1, EnterEffect
  <1>3. faults = 0 => \A q \in Run : Orderly(q)'
    BY <1>1, <1>2 DEF Smooth, Orderly
  <1>4. \A v \in Version : InHand(v) => InHand(v)'
    BY <1>1, <1>2 DEF InHand
  <1> QED BY <1>1, <1>3, <1>4, HandsOn

LEMMA StartEnrichmentSmooth ==
  ASSUME IInv, Smooth, NEW r \in Run, StartEnrichment(r) PROVE Smooth'
  <1>1. TypeOK /\ run[r].stage = "index" /\ UNCHANGED <<body, alone, clog, faults>>
    BY DEF StartEnrichment, IInv, recordVars
  <1>2. /\ run'[r].stage # "changelog"
        /\ \A q \in Run : q # r => run'[q] = run[q] /\ enrich'[q] = enrich[q]
        /\ \/ enrich'[r] = enrich[r]
           \/ /\ run'[r].stage = "enrich"
              /\ \A v \in Version :
                   enrich'[r][v] = IF v \in run'[r].list THEN "working" ELSE "none"
    <2>1. CASE EndRun(r) /\ UNCHANGED enrich
      BY <1>1, <2>1, EnterEffect DEF EndRun
    <2>2. CASE /\ Enter(r, "enrich", Needing)
               /\ enrich' = [enrich EXCEPT ![r] =
                     [v \in Version |-> IF v \in Needing THEN "working" ELSE "none"]]
      <3>1. /\ run'[r].stage = "enrich" /\ run'[r].list = Needing
            /\ \A q \in Run : q # r => run'[q] = run[q]
        BY <1>1, <2>2, EnterEffect
      <3>2. /\ \A q \in Run : q # r => enrich'[q] = enrich[q]
            /\ \A v \in Version :
                 enrich'[r][v] = IF v \in Needing THEN "working" ELSE "none"
        BY <1>1, <2>2 DEF TypeOK
      <3> QED BY <3>1, <3>2
    <2> QED BY <2>1, <2>2 DEF StartEnrichment
  <1>3. faults = 0 => \A q \in Run : Orderly(q)'
    BY <1>1, <1>2 DEF Smooth, Orderly
  <1>4. \A v \in Version : InHand(v) => InHand(v)'
    BY <1>1, <1>2 DEF InHand
  <1> QED BY <1>1, <1>3, <1>4, HandsOn

\* A changelog batch has a child for each version of its list; those the run had
\* in hand are in the list.
LEMMA ChangelogBatchSmooth ==
  ASSUME IInv, Smooth, NEW r \in Run, NEW list \in SUBSET Version,
         ChangelogBatch(r, list),
         run[r].stage \in {"idle", "enrich"},
         run[r].stage = "enrich" =>
             list = run[r].list /\ \A v \in Version : enrich[r][v] # "working",
         UNCHANGED <<body, alone, enrich, faults>>
  PROVE  Smooth'
  <1> USE DEF IInv
  <1> DEFINE first == [NoClog EXCEPT !.state = "working"]
             started == [v \in Version |-> IF v \in list THEN first ELSE NoClog]
  <1>1. /\ first.step = "read" /\ first.state = "working"
        /\ NoClog.step = "read" /\ NoClog.state = "none"
    BY DEF NoClog
  <1> HIDE DEF first
  <1>2. clog' = [clog EXCEPT ![r] = started] /\ Enter(r, "changelog", list)
    BY DEF ChangelogBatch, first
  <1>3. \A v \in Version : started[v] = IF v \in list THEN first ELSE NoClog
    OBVIOUS
  <1> HIDE DEF started
  <1>4. \A q \in Run : clog'[q] = IF q = r THEN started ELSE clog[q]
    BY <1>2 DEF TypeOK
  <1>5. /\ run'[r].stage = "changelog"
        /\ \A q \in Run : q # r => run'[q] = run[q]
    BY <1>2, EnterEffect
  <1>6. faults = 0 => \A q \in Run : Orderly(q)'
    <2> SUFFICES ASSUME faults = 0, NEW q \in Run PROVE Orderly(q)'
      OBVIOUS
    <2>1. CASE q = r
      <3>1. \A v \in Version : enrich'[r][v] = "none"
        BY DEF Smooth, Orderly
      <3>2. \A v \in Version : clog'[r][v] = started[v]
        BY <1>4
      <3> QED BY <1>1, <1>3, <1>5, <2>1, <3>1, <3>2 DEF Orderly
    <2>2. CASE q # r
      BY <1>4, <1>5, <2>2 DEF Smooth, Orderly
    <2> QED BY <2>1, <2>2
  <1>7. faults = 0 => \A v \in Version : InHand(v) => InHand(v)'
    <2> SUFFICES ASSUME faults = 0, NEW v \in Version, InHand(v) PROVE InHand(v)'
      OBVIOUS
    <2>1. PICK q \in Run : \/ run[q].stage = "enrich" /\ v \in run[q].list
                           \/ clog[q][v].state # "none"
      BY DEF InHand
    <2>2. CASE q = r
      <3>1. v \in list
        BY <2>1, <2>2 DEF Smooth, Orderly
      <3>2. clog'[r][v].state # "none"
        BY <1>1, <1>3, <1>4, <3>1
      <3> QED BY <3>2 DEF InHand
    <2>3. CASE q # r
      <3>1. run'[q] = run[q] /\ clog'[q] = clog[q]
        BY <1>4, <1>5, <2>3
      <3> QED BY <2>1, <3>1 DEF InHand
    <2> QED BY <2>2, <2>3
  <1> QED BY <1>6, <1>7, HandsOn

LEMMA RunSmooth ==
  ASSUME IInv, Smooth, NEW r \in Run,
         Start(r) \/ ForceChangelog(r) \/ RunStep(r) \/ TimeOut(r)
  PROVE  Smooth'
  <1> USE DEF IInv
  <1>1. CASE StartChangelogs(r)
    <2>1. run[r].list \in SUBSET Version
      BY DEF TypeOK
    <2> QED BY <1>1, <2>1, ChangelogBatchSmooth DEF StartChangelogs, recordVars
  <1>2. CASE ForceChangelog(r)
    <2>1. Enriched \in SUBSET Version
      BY DEF TypeOK, Enriched
    <2> QED BY <1>2, <2>1, ChangelogBatchSmooth DEF ForceChangelog, recordVars
  <1>3. CASE Finish(r)
    <2>1. /\ run[r].stage = "changelog" /\ \A v \in Version : clog[r][v].state # "working"
          /\ UNCHANGED <<body, alone, enrich, clog, faults>>
      BY <1>3 DEF Finish, recordVars, childVars
    <2>2. /\ run'[r].stage = "idle"
          /\ \A q \in Run : q # r => run'[q] = run[q]
      BY <1>3, EnterEffect DEF Finish, EndRun
    <2>3. faults = 0 => \A q \in Run : Orderly(q)'
      BY <2>1, <2>2 DEF Smooth, Orderly
    <2>4. \A v \in Version : InHand(v) => InHand(v)'
      BY <2>1, <2>2 DEF InHand
    <2> QED BY <2>1, <2>3, <2>4, HandsOn
  <1>4. CASE TimeOut(r)
    <2>1. CASE Fault
      BY <2>1, FaultIsNotSmooth
    <2>2. CASE Wedged(r) /\ UNCHANGED faults
      BY <2>2 DEF Wedged, Smooth, Orderly
    <2> QED BY <1>4, <2>1, <2>2 DEF TimeOut
  <1> QED BY <1>1, <1>2, <1>3, <1>4, StartSmooth, StartEnrichmentSmooth DEF RunStep

\* Index and enrichment: what they write is owed a changelog only after an
\* enrichment, whose run then goes on to the changelogs of its list.
LEMMA WritersSmooth ==
  ASSUME IInv, Smooth, NEW r \in Run, NEW v \in Version,
         IndexVersion(r, v) \/ EnrichVersion(r, v)
  PROVE  Smooth'
  <1> USE DEF IInv
  <1>1. CASE IndexVersion(r, v)
    <2>1. /\ UNCHANGED <<alone, run, enrich, clog, faults>>
          /\ body' = [body EXCEPT ![v] = IndexedBody]
      BY <1>1 DEF IndexVersion, Write
    <2>2. ~IndexedBody.enriched
      BY DEF IndexedBody, NoBody
    <2>3. \A w \in Version : body'[w] = IF w = v THEN IndexedBody ELSE body[w]
      BY <2>1 DEF TypeOK
    <2>4. \A w \in Version : Owed(w)' => Owed(w)
      BY <2>1, <2>2, <2>3 DEF Owed
    <2> QED BY <2>1, <2>4 DEF Smooth, Orderly, InHand
  <1>2. CASE EnrichVersion(r, v)
    <2>1. /\ UNCHANGED <<alone, run, clog, faults>>
          /\ body' = [body EXCEPT ![v] = EnrichedBody(v)]
          /\ enrich[r][v] # "none" /\ enrich' = [enrich EXCEPT ![r][v] = "none"]
      BY <1>2 DEF EnrichVersion, Write
    <2>2. \A q \in Run, w \in Version :
            enrich'[q][w] = IF q = r /\ w = v THEN "none" ELSE enrich[q][w]
      BY <2>1 DEF TypeOK
    <2>3. faults = 0 => \A q \in Run : Orderly(q)'
      BY <2>1, <2>2 DEF Smooth, Orderly
    <2>4. \A w \in Version : w # v => body'[w] = body[w]
      BY <2>1 DEF TypeOK
    <2>5. \A w \in Version : w # v /\ Owed(w)' => Owed(w)
      BY <2>1, <2>4 DEF Owed
    <2>6. faults = 0 => InHand(v)
      BY <2>1 DEF Smooth, Orderly, InHand
    <2> QED BY <2>1, <2>3, <2>5, <2>6 DEF Smooth, InHand
  <1> QED BY <1>1, <1>2

\* A changelog child goes on, or ends and leaves nothing owed.
LEMMA ChildSmooth ==
  ASSUME IInv, Smooth, NEW r \in Run, NEW v \in Version, NEW c,
         ClogMove(r, v, c), clog[r][v].state # "none",
         UNCHANGED <<run, enrich, faults>>,
         \A w \in Version : w # v => body'[w] = body[w],
         alone \subseteq alone',
         \/ /\ c.state = clog[r][v].state /\ c.step # "stuck" /\ c.prev # 0
            /\ UNCHANGED <<body, alone>>
         \/ c = NoClog /\ ~Owed(v)'
  PROVE  Smooth'
  <1>1. \A q \in Run, w \in Version :
          clog'[q][w] = IF q = r /\ w = v THEN c ELSE clog[q][w]
    BY DEF ClogMove, IInv, TypeOK
  <1>2. NoClog.state = "none" /\ NoClog.step = "read"
    BY DEF NoClog
  <1>3. faults = 0 => \A q \in Run : Orderly(q)'
    BY <1>1, <1>2 DEF Smooth, Orderly
  <1>4. ASSUME faults = 0, NEW w \in Version, Owed(w)' PROVE InHand(w)'
    <2>1. Owed(w)
      BY <1>4 DEF Owed
    <2>2. PICK q \in Run : \/ run[q].stage = "enrich" /\ w \in run[q].list
                           \/ clog[q][w].state # "none"
      BY <1>4, <2>1 DEF Smooth, InHand
    <2>3. \/ run'[q].stage = "enrich" /\ w \in run'[q].list
          \/ clog'[q][w].state # "none"
      BY <1>1, <1>4, <2>2
    <2> QED BY <2>3 DEF InHand
  <1> QED BY <1>3, <1>4 DEF Smooth

LEMMA ClogSmooth ==
  ASSUME IInv, Smooth, NEW r \in Run, NEW v \in Version, ClogChild(r, v)
  PROVE  Smooth'
  <1> USE DEF IInv
  <1> DEFINE old == clog[r][v]
  <1>1. /\ old \in Clog /\ ClogInv(old, v) /\ old.state # "none"
        /\ faults = 0 /\ old.step # "read" => old.prev # 0
        /\ UNCHANGED <<known, run, index, enrich, faults>>
    BY Child DEF Smooth, Orderly, ClogChild, ClogAt, ReadPrevious, Poll, Reread, Merge,
                 StoreChangelog, MarkPending, recordVars
  <1>2. Predecessors(v) # {} => Previous(v) # 0
    BY PreviousIsOne, RecordAssumption
  <1> SUFFICES ASSUME faults = 0 PROVE Smooth'
    BY <1>1 DEF Smooth
  <1> HIDE DEF old
  <1>3. CASE ReadPrevious(r, v)
    <2>1. CASE ClogDone(r, v) /\ alone' = alone \cup {v}
      <3>1. ~Owed(v)' /\ UNCHANGED body
        BY <1>3, <2>1 DEF Owed, ReadPrevious
      <3> QED BY <1>1, <2>1, <3>1, ChildSmooth DEF ClogDone, old
    <2>2. CASE /\ Predecessors(v) # {} /\ UNCHANGED alone
               /\ ClogMove(r, v, [old EXCEPT
                    !.step = IF body[Previous(v)].enriched THEN "merge" ELSE "poll",
                    !.prev = Previous(v)])
      <3> DEFINE step == IF body[Previous(v)].enriched THEN "merge" ELSE "poll"
                 c == [old EXCEPT !.step = step, !.prev = Previous(v)]
      <3>1. c.state = old.state /\ c.step # "stuck" /\ c.prev # 0
        BY <1>1, <1>2, <2>2 DEF Clog
      <3>2. ClogMove(r, v, c) /\ UNCHANGED <<body, alone>>
        BY <1>3, <2>2 DEF ReadPrevious
      <3> HIDE DEF c
      <3> QED BY <1>1, <3>1, <3>2, ChildSmooth DEF old
    <2> QED BY <1>3, <2>1, <2>2 DEF ReadPrevious, old
  <1>4. CASE Poll(r, v)
    <2> DEFINE step == IF old.polls + 1 = MaxPolls THEN "mark" ELSE "poll"
    <2>1. PICK c \in {[old EXCEPT !.step = "reread"],
                      [old EXCEPT !.polls = old.polls + 1, !.step = step]} :
            ClogMove(r, v, c)
      BY <1>4 DEF Poll, old
    <2>2. c.state = old.state /\ c.step # "stuck" /\ c.prev = old.prev
      BY <1>1 DEF Clog
    <2>3. old.step = "poll" /\ UNCHANGED <<body, alone>>
      BY <1>4 DEF Poll, ClogAt, recordVars, old
    <2> QED BY <1>1, <2>1, <2>2, <2>3, ChildSmooth DEF old
  <1>5. CASE Reread(r, v)
    <2> DEFINE c == [old EXCEPT !.step = "merge", !.prev = Previous(v)]
    <2>1. old.step = "reread" /\ ClogMove(r, v, c) /\ UNCHANGED <<body, alone>>
      BY <1>5 DEF Reread, ClogAt, recordVars, old
    <2>2. Predecessors(v) # {}
      BY <1>1, <2>1 DEF ClogInv
    <2>3. c.state = old.state /\ c.step # "stuck" /\ c.prev # 0
      BY <1>1, <1>2, <2>2 DEF Clog
    <2> HIDE DEF c
    <2> QED BY <1>1, <2>1, <2>3, ChildSmooth DEF old
  <1>6. CASE Merge(r, v)
    <2> DEFINE c == [old EXCEPT !.step = "write", !.seen = body[v]]
    <2>1. old.step = "merge" /\ ClogMove(r, v, c) /\ UNCHANGED <<body, alone>>
      BY <1>6 DEF Merge, ClogAt, recordVars, old
    <2>2. c.state = old.state /\ c.step # "stuck" /\ c.prev = old.prev
      BY <1>1 DEF Clog
    <2> HIDE DEF c
    <2> QED BY <1>1, <2>1, <2>2, ChildSmooth DEF old
  <1>7. CASE StoreChangelog(r, v)
    <2> DEFINE b == [old.seen EXCEPT !.changelog = old.prev,
                                     !.status = IF @ = "pending" THEN "" ELSE @]
    <2>1. /\ old.step = "write" /\ UNCHANGED alone
          /\ body' = [body EXCEPT ![v] = b] /\ ClogDone(r, v)
      BY <1>7 DEF StoreChangelog, Write, ClogAt, old
    <2>2. old.seen \in Body
      BY <1>1 DEF Clog
    <2>3. b.changelog = old.prev
      BY <2>2 DEF Body
    <2> HIDE DEF b
    <2>4. \A w \in Version : body'[w] = IF w = v THEN b ELSE body[w]
      BY <2>1 DEF TypeOK
    <2>5. ~Owed(v)'
      BY <1>1, <2>1, <2>3, <2>4 DEF Owed
    <2> QED BY <1>1, <2>1, <2>4, <2>5, ChildSmooth DEF ClogDone, old
  <1>8. CASE MarkPending(r, v)
    <2>1. /\ UNCHANGED alone
          /\ body' = [body EXCEPT ![v] = PendingBody] /\ ClogDone(r, v)
      BY <1>8 DEF MarkPending, Write
    <2>2. \A w \in Version : body'[w] = IF w = v THEN PendingBody ELSE body[w]
      BY <2>1 DEF TypeOK
    <2>3. PendingBody.status = "pending"
      BY DEF PendingBody, IndexedBody, NoBody
    <2>4. ~Owed(v)'
      BY <2>2, <2>3 DEF Owed
    <2> QED BY <1>1, <2>1, <2>2, <2>4, ChildSmooth DEF ClogDone, old
  <1> QED BY <1>3, <1>4, <1>5, <1>6, <1>7, <1>8 DEF ClogChild

LEMMA NextSmooth == IInv /\ Smooth /\ [Next]_vars => Smooth'
  <1> SUFFICES ASSUME IInv, Smooth, [Next]_vars PROVE Smooth'
    OBVIOUS
  <1>1. ASSUME NEW r \in Run, NEW v \in Version, Failure(r, v) PROVE Smooth'
    <2>1. Fault /\ TypeOK
      BY <1>1 DEF Failure, IndexFails, EnrichFails, ReadFails, ClogFails, IInv
    <2> QED BY <2>1, FaultIsNotSmooth
  <1>2. ASSUME NEW r \in Run, NEW v \in Version, ChildStep(r, v) PROVE Smooth'
    BY <1>2, WritersSmooth, ClogSmooth DEF ChildStep
  <1>3. CASE UNCHANGED vars
    BY <1>3 DEF vars, childVars, Smooth, Orderly, Owed, InHand
  <1> QED BY <1>1, <1>2, <1>3, RunSmooth DEF Next

\* As long as nothing has failed, every enriched version has its changelog or its
\* mark when nothing runs, whichever of the overlapping runs wrote its record
\* last: the run that enriches a version computes its changelog afterwards, from
\* the list it had before, and every changelog child that ends has written one.
THEOREM NobodyIsForgotten == Spec => [](faults = 0 => Settled)
  <1>1. IInv /\ Smooth => (faults = 0 => Settled)
    <2> SUFFICES ASSUME Smooth, faults = 0, Quiescent, NEW v \in Version \ alone,
                        body[v].enriched
                 PROVE  body[v].changelog # 0 \/ body[v].status = "pending"
      BY DEF Settled
    <2>1. ~InHand(v)
      BY DEF InHand, Quiescent, NoLateChild, Alive, Smooth, Orderly
    <2> QED BY <2>1 DEF Smooth, Owed
  <1> QED BY <1>1, InitSmooth, NextSmooth, Invariance, PTL DEF Spec
=============================================================================
