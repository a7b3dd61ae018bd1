------------------------- MODULE SlidingWindowProofs -------------------------
(***************************************************************************)
(* Theorems about SlidingWindow, for every list, page size, window and     *)
(* retry limit.                                                            *)
(***************************************************************************)
EXTENDS SlidingWindow, FiniteSetTheorems, SequenceTheorems, TLAPS

-----------------------------------------------------------------------------
(* The list and the page of the current run. *)

\* The run's list is a suffix of the caller's list, so the element the page
\* loop looks at next is the one after the HandedOut first elements of the
\* caller's list, and the page lies within the list.
LEMMA SuffixOfVersions ==
  ASSUME TypeOK
  PROVE  /\ versions \in Seq(Version)
         /\ Len(Versions) \in Nat
         /\ Len(versions) \in 0..Len(Versions)
         /\ offset \in Nat
         /\ PageEnd \in offset..Len(versions)
         /\ position \in 0..Len(versions)
         /\ HandedOut \in 0..Len(Versions)
         /\ \A i \in 1..Len(versions) :
              versions[i] = Versions[Len(Versions) - Len(versions) + i]
  <1>1. PICK k \in 0..Len(Versions) :
                 versions = SubSeq(Versions, k + 1, Len(Versions))
    BY DEF TypeOK, IsRestOfList
  <1>2. /\ Len(Versions) \in Nat
        /\ \A i \in 1..Len(Versions) : Versions[i] \in Version
    BY BatchAssumption, LenProperties, ElementOfSeq
  <1>3. /\ versions \in Seq(Version)
        /\ Len(versions) = Len(Versions) - k
        /\ \A i \in 1..Len(Versions) - k : versions[i] = Versions[k + i]
    BY <1>1, <1>2, SubSeqProperties
  <1>4. Len(versions) \in Nat /\ offset \in Nat /\ offset <= Len(versions)
    BY <1>2, <1>3 DEF TypeOK
  <1>5. PageEnd \in offset..Len(versions)
    BY <1>4, BatchAssumption DEF PageEnd
  <1>6. position \in 0..Len(versions)
    BY <1>4, <1>5 DEF TypeOK
  <1>7. HandedOut \in 0..Len(Versions)
    BY <1>2, <1>3, <1>6 DEF HandedOut
  <1> QED BY <1>2, <1>3, <1>4, <1>5, <1>6, <1>7

\* The version the page loop looks at next.
LEMMA NextVersion ==
  ASSUME TypeOK, position < PageEnd
  PROVE  /\ HandedOut + 1 \in 1..Len(Versions)
         /\ versions[position + 1] = Versions[HandedOut + 1]
         /\ Versions[HandedOut + 1] \in Version
  <1>1. /\ position + 1 \in 1..Len(versions)
        /\ HandedOut = Len(Versions) - Len(versions) + position
    BY SuffixOfVersions DEF HandedOut
  <1>2. versions[position + 1]
          = Versions[Len(Versions) - Len(versions) + (position + 1)]
    BY <1>1, SuffixOfVersions
  <1>3. /\ Len(Versions) - Len(versions) + (position + 1) = HandedOut + 1
        /\ HandedOut + 1 \in 1..Len(Versions)
    BY <1>1, SuffixOfVersions
  <1>4. Versions[HandedOut + 1] \in Version
    BY <1>3, BatchAssumption, ElementOfSeq
  <1> QED BY <1>2, <1>3, <1>4

\* Recording completions moves versions from the record to the progress.
LEMMA RecordingPreservesCount ==
  ASSUME TypeOK, IsFiniteSet(currentRecords), NEW S, RecordCompletions(S)
  PROVE  /\ currentRecords' \in SUBSET currentRecords
         /\ IsFiniteSet(currentRecords')
         /\ progress' \in Nat
         /\ Cardinality(currentRecords') <= Cardinality(currentRecords)
         /\ progress' + Cardinality(currentRecords')
              = progress + Cardinality(currentRecords)
  <1>1. currentRecords' = currentRecords \ S
    BY DEF RecordCompletions
  <1>2. /\ IsFiniteSet(currentRecords')
        /\ Cardinality(currentRecords')
             = Cardinality(currentRecords) - Cardinality(currentRecords \cap S)
    BY <1>1, FS_Difference
  <1>3. IsFiniteSet(currentRecords \cap S)
    BY FS_Subset
  <1>4. /\ Cardinality(currentRecords) \in Nat
        /\ Cardinality(currentRecords') \in Nat
        /\ Cardinality(currentRecords \cap S) \in Nat
    BY <1>2, <1>3, FS_CardinalityType
  <1>5. progress' = progress + Cardinality(currentRecords \cap S)
    BY DEF RecordCompletions
  <1> QED BY <1>1, <1>2, <1>4, <1>5 DEF TypeOK

-----------------------------------------------------------------------------
(* The inductive invariant. *)

LEMMA InitIInv == Init => IInv
  <1> SUFFICES ASSUME Init PROVE IInv
    OBVIOUS
  <1>1. Len(Versions) \in Nat /\ Versions = SubSeq(Versions, 1, Len(Versions))
    BY BatchAssumption, LenProperties, SubSeqFull
  <1>2. TypeOK
    <2>1. IsRestOfList(versions)
      <3>1. versions = SubSeq(Versions, 0 + 1, Len(Versions))
        BY <1>1 DEF Init
      <3>2. 0 \in 0..Len(Versions)
        BY <1>1
      <3> QED BY <3>1, <3>2 DEF IsRestOfList
    <2>2. offset \in 0..Len(versions) /\ position \in offset..PageEnd
      BY <1>1, BatchAssumption DEF Init, PageEnd
    <2> QED BY <2>1, <2>2, BatchAssumption DEF Init, TypeOK, ChildState
  <1>3. HandedOut = 0
    BY <1>1 DEF Init, HandedOut
  <1>4. IsFiniteSet(currentRecords) /\ Cardinality(currentRecords) = 0
    BY FS_EmptySet DEF Init
  <1>5. WindowRespected /\ ProgressExact
    BY <1>3, <1>4, BatchAssumption DEF Init, WindowRespected, ProgressExact
  <1>6. StartedIsHandedOut
    <2>1. \A i \in 1..Len(Versions) : Versions[i] \in Version
      BY BatchAssumption, ElementOfSeq
    <2> QED BY <1>3, <2>1 DEF Init, StartedIsHandedOut
  <1>7. RecordsMatchChildren /\ NoLostCompletion
    BY <1>4 DEF Init, RecordsMatchChildren, NoLostCompletion, Range
  <1>8. AttemptsCounted /\ CompletedIsEmpty
    BY DEF Init, AttemptsCounted, CompletedIsEmpty
  <1> QED BY <1>2, <1>5, <1>6, <1>7, <1>8 DEF IInv

LEMMA StartChildIInv == IInv /\ StartChild => IInv'
  <1> SUFFICES ASSUME IInv, StartChild PROVE IInv'
    OBVIOUS
  <1> USE DEF IInv
  <1> DEFINE v == versions[position + 1]
  <1>1. /\ status = "running" /\ position < PageEnd /\ WindowHasRoom
        /\ currentRecords' = currentRecords \cup {v}
        /\ childrenStarted' = childrenStarted \cup {v}
        /\ child' = [child EXCEPT ![v] = "initiated"]
        /\ position' = position + 1
        /\ UNCHANGED <<versions, offset, progress, channel, status, attempt>>
    BY DEF StartChild
  <1> HIDE DEF v
  <1>2. /\ HandedOut + 1 \in 1..Len(Versions)
        /\ v = Versions[HandedOut + 1]
        /\ v \in Version
        /\ HandedOut' = HandedOut + 1
        /\ HandedOut \in Nat
        /\ PageEnd' = PageEnd
        /\ Len(Versions) \in Nat
        /\ DOMAIN Versions = 1..Len(Versions)
    <2>1. PageEnd' = PageEnd
      BY <1>1 DEF PageEnd
    <2>2. /\ HandedOut + 1 \in 1..Len(Versions)
          /\ v = Versions[HandedOut + 1]
          /\ v \in Version
      BY <1>1, NextVersion DEF v
    <2>3. HandedOut' = HandedOut + 1
      <3>1. /\ HandedOut = Len(Versions) - Len(versions) + position
            /\ HandedOut' = Len(Versions) - Len(versions) + (position + 1)
        BY <1>1 DEF HandedOut
      <3> QED BY <3>1, SuffixOfVersions
    <2> QED BY <2>1, <2>2, <2>3, SuffixOfVersions, BatchAssumption, LenProperties
  <1>3. child[v] = "none"
    BY <1>2 DEF StartedIsHandedOut
  <1>4. v \notin currentRecords
    BY <1>3 DEF RecordsMatchChildren
  <1>5. /\ IsFiniteSet(currentRecords')
        /\ Cardinality(currentRecords') = Cardinality(currentRecords) + 1
        /\ Cardinality(currentRecords) \in Nat
    BY <1>1, <1>4, FS_AddElement, FS_CardinalityType DEF RecordsMatchChildren
  <1>6. /\ child' \in [Version -> ChildState]
        /\ child'[v] = "initiated"
        /\ \A w \in Version : w # v => child'[w] = child[w]
    BY <1>1, <1>2 DEF TypeOK, ChildState
  <1>7. TypeOK'
    <2>1. position' \in offset'..PageEnd'
      BY <1>1, <1>2, SuffixOfVersions DEF TypeOK
    <2> QED BY <1>1, <1>2, <1>6, <2>1 DEF TypeOK
  <1>8. WindowRespected' /\ ProgressExact'
    <2>1. WindowRespected'
      BY <1>1, <1>5, BatchAssumption DEF WindowRespected, WindowHasRoom
    <2>2. ProgressExact'
      <3>1. progress \in Nat /\ progress' = progress
        BY <1>1 DEF TypeOK
      <3>2. progress + Cardinality(currentRecords) = HandedOut
        BY DEF ProgressExact
      <3>3. progress' + Cardinality(currentRecords') = HandedOut'
        BY <1>2, <1>5, <3>1, <3>2
      <3> QED BY <3>3 DEF ProgressExact
    <2> QED BY <2>1, <2>2
  <1>9. NoLostCompletion'
    BY <1>1, <1>2, <1>4, <1>6 DEF NoLostCompletion, FirstSignalPending, TypeOK
  <1>10. StartedIsHandedOut'
    <2> SUFFICES ASSUME NEW i \in 1..Len(Versions)
                 PROVE  child'[Versions[i]] = "none" <=> i > HandedOut'
      BY DEF StartedIsHandedOut
    <2>1. Versions[i] \in Version
      BY BatchAssumption, ElementOfSeq
    <2>2. CASE i = HandedOut + 1
      BY <1>2, <1>6, <2>2
    <2>3. CASE i # HandedOut + 1
      <3>1. Versions[i] # v
        BY <1>2, <2>3, BatchAssumption
      <3> QED BY <1>2, <1>6, <2>1, <2>3, <3>1 DEF StartedIsHandedOut
    <2> QED BY <2>2, <2>3
  <1>11. RecordsMatchChildren'
    <2>1. \A w \in Range(channel) : w # v
      BY <1>3 DEF RecordsMatchChildren, HasSignalled
    <2>2. Range(channel) \subseteq Version
      BY LenProperties, ElementOfSeq DEF TypeOK, Range
    <2> QED BY <1>1, <1>2, <1>5, <1>6, <2>1, <2>2
            DEF RecordsMatchChildren, HasSignalled, TypeOK
  <1>12. AttemptsCounted' /\ CompletedIsEmpty'
    BY <1>1, <1>2, <1>6 DEF AttemptsCounted, CompletedIsEmpty
  <1> QED BY <1>7, <1>8, <1>9, <1>10, <1>11, <1>12

\* What receiving signals leaves true, for the pump and for the drain: S is
\* what is received, the rest stays in the channel, children do not move and
\* no start request is forgotten.
LEMMA ReceivingPreserves ==
  ASSUME IInv, NEW S \in SUBSET Range(channel),
         RecordCompletions(S),
         UNCHANGED childVars,
         HandedOut' = HandedOut,
         Range(channel') \subseteq Range(channel),
         Range(channel) \subseteq Range(channel') \cup S,
         status' = "running" => status = "running",
         status' = "completed" => HandedOut = Len(Versions) /\ currentRecords = {},
         \A v \in childrenStarted : child[v] = "initiated" => v \in childrenStarted'
  PROVE  /\ currentRecords' \in SUBSET Version
         /\ progress' \in Nat
         /\ WindowRespected'
         /\ ProgressExact'
         /\ NoLostCompletion'
         /\ StartedIsHandedOut'
         /\ RecordsMatchChildren'
         /\ AttemptsCounted'
         /\ CompletedIsEmpty'
  <1>1. UNCHANGED <<child, attempt>>
    BY DEF childVars
  <1>2. /\ currentRecords' \in SUBSET currentRecords
        /\ IsFiniteSet(currentRecords')
        /\ progress' \in Nat
        /\ Cardinality(currentRecords') <= Cardinality(currentRecords)
        /\ progress' + Cardinality(currentRecords')
             = progress + Cardinality(currentRecords)
    BY RecordingPreservesCount DEF IInv, RecordsMatchChildren
  <1>3. currentRecords' = currentRecords \ S
    BY DEF RecordCompletions
  <1>4. currentRecords \in SUBSET Version
    BY DEF IInv, TypeOK
  <1>5. WindowRespected'
    <2>1. /\ Cardinality(currentRecords) \in Nat
          /\ Cardinality(currentRecords') \in Nat
      BY <1>2, FS_CardinalityType DEF IInv, RecordsMatchChildren
    <2> QED BY <1>2, <2>1, BatchAssumption DEF IInv, WindowRespected
  <1>6. ProgressExact'
    BY <1>2 DEF IInv, ProgressExact
  <1>7. NoLostCompletion'
    <2> SUFFICES ASSUME status' = "running", NEW v \in currentRecords'
                 PROVE  FirstSignalPending(v)' \/ v \in Range(channel')
      BY DEF NoLostCompletion
    <2>1. v \in currentRecords /\ v \notin S
      BY <1>3
    <2>2. FirstSignalPending(v) \/ v \in Range(channel)
      BY <2>1 DEF IInv, NoLostCompletion
    <2>3. CASE v \in Range(channel)
      BY <2>1, <2>3
    <2>4. CASE FirstSignalPending(v)
      BY <1>1, <2>4 DEF FirstSignalPending
    <2> QED BY <2>2, <2>3, <2>4
  <1>8. StartedIsHandedOut'
    BY <1>1 DEF IInv, StartedIsHandedOut
  <1>9. RecordsMatchChildren'
    <2>1. \A v : HasSignalled(v)' <=> HasSignalled(v)
      BY <1>1 DEF HasSignalled
    <2>2. \A v \in currentRecords' : child'[v] # "none"
      BY <1>1, <1>2 DEF IInv, RecordsMatchChildren
    <2>3. \A v \in Range(channel') : HasSignalled(v)'
      BY <2>1 DEF IInv, RecordsMatchChildren
    <2>4. ASSUME NEW v \in Version \ currentRecords'
          PROVE  child'[v] = "none" \/ HasSignalled(v)'
      BY <1>1, <1>3, <2>1 DEF IInv, RecordsMatchChildren
    <2> QED BY <1>2, <2>2, <2>3, <2>4 DEF RecordsMatchChildren
  <1>10. AttemptsCounted'
    BY <1>1 DEF IInv, AttemptsCounted
  <1>11. CompletedIsEmpty'
    BY <1>2 DEF CompletedIsEmpty
  <1> QED BY <1>2, <1>4, <1>5, <1>6, <1>7, <1>8, <1>9, <1>10, <1>11

LEMMA PumpReceiveIInv == IInv /\ PumpReceive => IInv'
  <1> SUFFICES ASSUME IInv, PumpReceive PROVE IInv'
    OBVIOUS
  <1>1. /\ channel # <<>>
        /\ RecordCompletions({Head(channel)})
        /\ channel' = Tail(channel)
        /\ UNCHANGED <<versions, offset, position, childrenStarted, status,
                       child, attempt>>
    BY DEF PumpReceive, childVars
  <1>2. channel \in Seq(Version)
    BY DEF IInv, TypeOK
  <1>3. /\ Head(channel) \in Range(channel)
        /\ Range(channel') \subseteq Range(channel)
        /\ Range(channel) \subseteq Range(channel') \cup {Head(channel)}
        /\ channel' \in Seq(Version)
    <2>1. /\ Len(channel) \in Nat \ {0}
          /\ DOMAIN channel = 1..Len(channel)
          /\ Head(channel) = channel[1]
          /\ Tail(channel) \in Seq(Version)
          /\ DOMAIN Tail(channel) = 1..Len(channel) - 1
          /\ \A i \in 1..Len(channel) - 1 : Tail(channel)[i] = channel[i + 1]
      BY <1>1, <1>2, EmptySeq, LenProperties, HeadTailProperties
    <2>2. Head(channel) \in Range(channel)
      BY <2>1 DEF Range
    <2>3. Range(Tail(channel)) \subseteq Range(channel)
      BY <2>1 DEF Range
    <2>4. ASSUME NEW i \in 1..Len(channel)
          PROVE  channel[i] \in Range(Tail(channel)) \cup {Head(channel)}
      <3>1. CASE i = 1
        BY <2>1, <3>1
      <3>2. CASE i # 1
        <4>1. i - 1 \in 1..Len(channel) - 1 /\ (i - 1) + 1 = i
          BY <2>1, <3>2
        <4>2. Tail(channel)[i - 1] = channel[i]
          BY <2>1, <4>1
        <4> QED BY <2>1, <4>1, <4>2 DEF Range
      <3> QED BY <3>1, <3>2
    <2>5. Range(channel) \subseteq Range(Tail(channel)) \cup {Head(channel)}
      BY <2>1, <2>4 DEF Range
    <2> QED BY <1>1, <2>1, <2>2, <2>3, <2>5
  <1>4. HandedOut' = HandedOut /\ PageEnd' = PageEnd
    BY <1>1 DEF HandedOut, PageEnd
  <1>5. status' = "completed" => HandedOut = Len(Versions) /\ currentRecords = {}
    BY <1>1 DEF IInv, CompletedIsEmpty
  <1>6. /\ currentRecords' \in SUBSET Version
        /\ progress' \in Nat
        /\ WindowRespected'
        /\ ProgressExact'
        /\ NoLostCompletion'
        /\ StartedIsHandedOut'
        /\ RecordsMatchChildren'
        /\ AttemptsCounted'
        /\ CompletedIsEmpty'
    BY <1>1, <1>3, <1>4, <1>5, ReceivingPreserves DEF childVars
  <1>7. TypeOK'
    BY <1>1, <1>3, <1>4, <1>6 DEF IInv, TypeOK
  <1> QED BY <1>6, <1>7 DEF IInv

\* An empty channel holds no signal and is a channel.
LEMMA EmptyChannel == Range(<<>>) = {} /\ <<>> \in Seq(Version)
  BY EmptySeq DEF Range

\* The next run goes on where this one stopped: its list and offset stand for
\* the same place in the caller's list.
LEMMA NextRunContinues ==
  ASSUME TypeOK, position = PageEnd, PageEnd < Len(versions), NextRunInput
  PROVE  /\ IsRestOfList(versions')
         /\ Len(versions') \in Nat
         /\ offset' \in 0..Len(versions')
         /\ position' = offset'
         /\ position' \in 0..Len(versions')
         /\ HandedOut' = HandedOut
  <1>1. /\ versions \in Seq(Version)
        /\ Versions \in Seq(Version)
        /\ Len(Versions) \in Nat
        /\ Len(versions) \in 0..Len(Versions)
        /\ PageEnd \in 0..Len(versions)
    BY SuffixOfVersions, BatchAssumption
  <1>2. CASE /\ versions' = SubSeq(versions, PageEnd + 1, Len(versions))
             /\ offset' = 0 /\ position' = 0
    <2>1. /\ versions' = SubSeq(versions, PageEnd + 1, Len(versions))
          /\ offset' = 0 /\ position' = 0
      BY <1>2
    <2>2. PICK k \in 0..Len(Versions) :
                 versions = SubSeq(Versions, k + 1, Len(Versions))
      BY DEF TypeOK, IsRestOfList
    <2>3. Len(versions) = Len(Versions) - k
      <3>1. \A i \in 1..Len(Versions) : Versions[i] \in Version
        BY <1>1, ElementOfSeq
      <3> QED BY <1>1, <2>2, <3>1, SubSeqProperties
    <2>4. versions' = SubSeq(Versions, (k + PageEnd) + 1, Len(Versions))
      <3> DEFINE n == Len(Versions)
      <3>1. /\ k + 1 \in 1..n /\ n \in 1..n
            /\ PageEnd + 1 \in 1..n - (k + 1) + 1
            /\ n - k \in 1..n - (k + 1) + 1
            /\ (k + 1) + (PageEnd + 1) - 1 = (k + PageEnd) + 1
            /\ (k + 1) + (n - k) - 1 = n
        BY <1>1, <2>3
      <3>2. SubSeq(SubSeq(Versions, k + 1, n), PageEnd + 1, n - k)
              = SubSeq(Versions, (k + 1) + (PageEnd + 1) - 1, (k + 1) + (n - k) - 1)
        BY <1>1, <3>1, SubSeqOfSubSeq
      <3> QED BY <2>1, <2>2, <2>3, <3>1, <3>2
    <2>5. Len(versions') = Len(versions) - PageEnd
      <3>1. \A i \in PageEnd + 1..Len(versions) : versions[i] \in Version
        BY <1>1, ElementOfSeq
      <3> QED BY <1>1, <2>1, <3>1, SubSeqProperties
    <2>6. IsRestOfList(versions')
      <3>1. k + PageEnd \in 0..Len(Versions)
        BY <1>1, <2>3
      <3> QED BY <2>4, <3>1 DEF IsRestOfList
    <2>7. HandedOut' = HandedOut
      <3>1. /\ HandedOut = Len(Versions) - Len(versions) + PageEnd
            /\ HandedOut' = Len(Versions) - Len(versions') + 0
        BY <2>1 DEF HandedOut
      <3> QED BY <1>1, <2>5, <3>1
    <2> QED BY <1>1, <2>1, <2>5, <2>6, <2>7
  <1>3. CASE offset' = PageEnd /\ UNCHANGED <<versions, position>>
    <2>1. offset' = PageEnd /\ UNCHANGED <<versions, position>>
      BY <1>3
    <2> QED BY <1>1, <2>1 DEF HandedOut, TypeOK
  <1> QED BY <1>2, <1>3 DEF NextRunInput

LEMMA ContinueAsNewIInv == IInv /\ ContinueAsNew => IInv'
  <1> SUFFICES ASSUME IInv, ContinueAsNew PROVE IInv'
    OBVIOUS
  <1>1. /\ status = "running"
        /\ position = PageEnd
        /\ PageEnd < Len(versions)
        /\ AllStarted
        /\ RecordCompletions(Range(channel))
        /\ channel' = <<>>
        /\ NextRunInput
        /\ childrenStarted' = {}
        /\ UNCHANGED <<status, childVars>>
    BY DEF ContinueAsNew, DrainCompletionSignals
  <1>2. TypeOK
    BY DEF IInv
  <1>3. /\ IsRestOfList(versions')
        /\ Len(versions') \in Nat
        /\ offset' \in 0..Len(versions')
        /\ position' = offset'
        /\ position' \in 0..Len(versions')
        /\ HandedOut' = HandedOut
    BY <1>1, <1>2, NextRunContinues
  <1>4. \A v \in childrenStarted :
          child[v] = "initiated" => v \in childrenStarted'
    BY <1>1 DEF AllStarted
  <1>5. status' = "completed" => HandedOut = Len(Versions) /\ currentRecords = {}
    BY <1>1
  <1>6. /\ currentRecords' \in SUBSET Version
        /\ progress' \in Nat
        /\ WindowRespected'
        /\ ProgressExact'
        /\ NoLostCompletion'
        /\ StartedIsHandedOut'
        /\ RecordsMatchChildren'
        /\ AttemptsCounted'
        /\ CompletedIsEmpty'
    BY <1>1, <1>3, <1>4, <1>5, ReceivingPreserves, EmptyChannel
  <1>7. TypeOK'
    <2>1. position' \in offset'..PageEnd'
      <3>1. PageEnd' = IF offset' + PageSize > Len(versions')
                         THEN Len(versions') ELSE offset' + PageSize
        BY DEF PageEnd
      <3>2. ASSUME NEW o \in Nat, NEW n \in Nat, NEW p \in Nat, o <= n,
                   NEW e, e = IF o + p > n THEN n ELSE o + p
            PROVE  o \in o..e
        BY <3>2
      <3>3. /\ offset' \in Nat /\ offset' <= Len(versions')
            /\ Len(versions') \in Nat /\ position' = offset'
        BY <1>3
      <3>4. PageSize \in Nat
        BY BatchAssumption
      <3>5. offset' \in offset'..PageEnd'
        BY <3>1, <3>2, <3>3, <3>4
      <3> QED BY <3>3, <3>5
    <2> QED BY <1>1, <1>2, <1>3, <1>6, <2>1, EmptyChannel DEF TypeOK, childVars
  <1> QED BY <1>6, <1>7 DEF IInv

LEMMA CompleteIInv == IInv /\ Complete => IInv'
  <1> SUFFICES ASSUME IInv, Complete PROVE IInv'
    OBVIOUS
  <1>1. /\ position = PageEnd
        /\ PageEnd = Len(versions)
        /\ currentRecords = {}
        /\ status = "running"
        /\ RecordCompletions(Range(channel))
        /\ channel' = <<>>
        /\ status' = "completed"
        /\ UNCHANGED <<versions, offset, position, childrenStarted, childVars>>
    BY DEF Complete, DrainCompletionSignals
  <1>2. HandedOut' = HandedOut /\ PageEnd' = PageEnd /\ HandedOut = Len(Versions)
    BY <1>1, SuffixOfVersions DEF IInv, HandedOut, PageEnd
  <1>3. /\ currentRecords' \in SUBSET Version
        /\ progress' \in Nat
        /\ WindowRespected'
        /\ ProgressExact'
        /\ NoLostCompletion'
        /\ StartedIsHandedOut'
        /\ RecordsMatchChildren'
        /\ AttemptsCounted'
        /\ CompletedIsEmpty'
    BY <1>1, <1>2, ReceivingPreserves, EmptyChannel
  <1>4. TypeOK'
    BY <1>1, <1>2, <1>3, EmptyChannel DEF IInv, TypeOK, childVars
  <1> QED BY <1>3, <1>4 DEF IInv

LEMMA TerminateIInv == IInv /\ Terminate => IInv'
  <1> SUFFICES ASSUME IInv, Terminate PROVE IInv'
    OBVIOUS
  <1>1. /\ status' = "terminated"
        /\ UNCHANGED <<versions, offset, position, currentRecords,
                       childrenStarted, progress, channel, child, attempt>>
    BY DEF Terminate, childVars
  <1>2. HandedOut' = HandedOut /\ PageEnd' = PageEnd
    BY <1>1 DEF HandedOut, PageEnd
  <1>3. TypeOK'
    BY <1>1, <1>2 DEF IInv, TypeOK
  <1>4. WindowRespected' /\ ProgressExact' /\ NoLostCompletion'
    BY <1>1, <1>2 DEF IInv, WindowRespected, ProgressExact, NoLostCompletion
  <1>5. StartedIsHandedOut' /\ AttemptsCounted' /\ CompletedIsEmpty'
    BY <1>1, <1>2 DEF IInv, StartedIsHandedOut, AttemptsCounted, CompletedIsEmpty
  <1>6. RecordsMatchChildren'
    BY <1>1 DEF IInv, RecordsMatchChildren, HasSignalled
  <1> QED BY <1>3, <1>4, <1>5, <1>6 DEF IInv

\* What a step of v's child leaves true: the child exists before and after, a
\* child that has signalled remains one, the first signal of a recorded child
\* is either still to come or in the channel, and only v's signal is added.
LEMMA ChildMovePreserves ==
  ASSUME IInv, NEW v \in Version,
         UNCHANGED batchVars,
         child' \in [Version -> ChildState],
         attempt' \in [Version -> 0..MaxAttempts],
         channel' \in Seq(Version),
         \A w \in Version \ {v} : child'[w] = child[w] /\ attempt'[w] = attempt[w],
         child[v] # "none", child'[v] # "none",
         child'[v] \in {"working", "backoff", "done", "failed"} => attempt'[v] >= 1,
         child'[v] = "backoff" => attempt'[v] < MaxAttempts,
         HasSignalled(v) => HasSignalled(v)',
         Range(channel) \subseteq Range(channel'),
         Range(channel') \subseteq Range(channel) \cup {v},
         v \in Range(channel') => HasSignalled(v)',
         status = "running" /\ FirstSignalPending(v) =>
             FirstSignalPending(v)' \/ v \in Range(channel')
  PROVE  IInv'
  <1>1. UNCHANGED <<versions, offset, position, currentRecords,
                    childrenStarted, progress, status>>
    BY DEF batchVars
  <1>2. HandedOut' = HandedOut /\ PageEnd' = PageEnd
    BY <1>1 DEF HandedOut, PageEnd
  <1>3. TypeOK'
    BY <1>1, <1>2 DEF IInv, TypeOK
  <1>4. WindowRespected' /\ ProgressExact' /\ CompletedIsEmpty'
    BY <1>1, <1>2 DEF IInv, WindowRespected, ProgressExact, CompletedIsEmpty
  <1>5. \A w \in Version \ {v} :
          /\ HasSignalled(w)' <=> HasSignalled(w)
          /\ FirstSignalPending(w)' <=> FirstSignalPending(w)
    BY <1>1 DEF HasSignalled, FirstSignalPending
  <1>6. currentRecords \subseteq Version /\ Range(channel) \subseteq Version
    BY LenProperties, ElementOfSeq DEF IInv, TypeOK, Range
  <1>7. NoLostCompletion'
    <2> SUFFICES ASSUME status' = "running", NEW w \in currentRecords'
                 PROVE  FirstSignalPending(w)' \/ w \in Range(channel')
      BY DEF NoLostCompletion
    <2>1. /\ w \in currentRecords /\ w \in Version /\ status = "running"
          /\ FirstSignalPending(w) \/ w \in Range(channel)
      BY <1>1, <1>6 DEF IInv, NoLostCompletion
    <2>2. CASE w = v
      BY <2>1, <2>2
    <2>3. CASE w # v
      BY <1>5, <2>1, <2>3
    <2> QED BY <2>2, <2>3
  <1>8. StartedIsHandedOut'
    <2>1. \A i \in 1..Len(Versions) : Versions[i] \in Version
      BY BatchAssumption, ElementOfSeq
    <2>2. \A w \in Version : child'[w] = "none" <=> child[w] = "none"
      OBVIOUS
    <2> QED BY <1>2, <2>1, <2>2 DEF IInv, StartedIsHandedOut
  <1>9. RecordsMatchChildren'
    <2>1. IsFiniteSet(currentRecords')
      BY <1>1 DEF IInv, RecordsMatchChildren
    <2>2. \A w \in currentRecords' : child'[w] # "none"
      BY <1>1, <1>6 DEF IInv, RecordsMatchChildren
    <2>3. ASSUME NEW w \in Version \ currentRecords'
          PROVE  child'[w] = "none" \/ HasSignalled(w)'
      <3>1. child[w] = "none" \/ HasSignalled(w)
        BY <1>1 DEF IInv, RecordsMatchChildren
      <3> QED BY <1>5, <3>1
    <2>4. ASSUME NEW w \in Range(channel')
          PROVE  HasSignalled(w)'
      <3>1. CASE w = v
        BY <3>1
      <3>2. CASE w # v
        <4>1. w \in Range(channel) /\ w \in Version /\ HasSignalled(w)
          BY <1>6, <3>2 DEF IInv, RecordsMatchChildren
        <4> QED BY <1>5, <3>2, <4>1
      <3> QED BY <3>1, <3>2
    <2> QED BY <2>1, <2>2, <2>3, <2>4 DEF RecordsMatchChildren
  <1>10. AttemptsCounted'
    BY DEF IInv, AttemptsCounted
  <1> QED BY <1>3, <1>4, <1>7, <1>8, <1>9, <1>10 DEF IInv

LEMMA ServerStartIInv ==
  ASSUME NEW v \in Version PROVE IInv /\ ServerStart(v) => IInv'
  <1> SUFFICES ASSUME IInv, ServerStart(v) PROVE IInv'
    OBVIOUS
  <1>1. /\ child[v] = "initiated"
        /\ child' = [child EXCEPT ![v] = "working"]
        /\ attempt' = [attempt EXCEPT ![v] = 1]
        /\ UNCHANGED batchVars
        /\ channel' = channel
    BY DEF ServerStart
  <1>2. /\ child \in [Version -> ChildState]
        /\ attempt \in [Version -> 0..MaxAttempts]
        /\ channel \in Seq(Version)
    BY DEF IInv, TypeOK
  <1>3. /\ child' \in [Version -> ChildState]
        /\ attempt' \in [Version -> 0..MaxAttempts]
        /\ child'[v] = "working" /\ attempt'[v] = 1
        /\ \A w \in Version \ {v} : child'[w] = child[w] /\ attempt'[w] = attempt[w]
    BY <1>1, <1>2, BatchAssumption DEF ChildState
  <1>4. ~HasSignalled(v) /\ FirstSignalPending(v)'
    BY <1>1, <1>3 DEF HasSignalled, FirstSignalPending
  <1>5. v \notin Range(channel)
    BY <1>4 DEF IInv, RecordsMatchChildren
  <1> QED BY <1>1, <1>2, <1>3, <1>4, <1>5, ChildMovePreserves

\* The signal of v is appended for an open batch and dropped for a closed one.
LEMMA SignalAdds ==
  ASSUME NEW v \in Version, channel \in Seq(Version), SignalParent(v)
  PROVE  /\ channel' \in Seq(Version)
         /\ Range(channel) \subseteq Range(channel')
         /\ Range(channel') \subseteq Range(channel) \cup {v}
         /\ status = "running" => v \in Range(channel')
  <1>1. CASE status = "running"
    <2>1. channel' = Append(channel, v)
      BY <1>1 DEF SignalParent
    <2>2. /\ Append(channel, v) \in Seq(Version)
          /\ Len(channel) \in Nat
          /\ DOMAIN channel = 1..Len(channel)
          /\ DOMAIN Append(channel, v) = 1..Len(channel) + 1
          /\ \A i \in 1..Len(channel) : Append(channel, v)[i] = channel[i]
          /\ Append(channel, v)[Len(channel) + 1] = v
      BY AppendProperties, LenProperties
    <2>3. Range(channel) \subseteq Range(Append(channel, v))
      BY <2>2 DEF Range
    <2>4. Range(Append(channel, v)) \subseteq Range(channel) \cup {v}
      BY <2>2 DEF Range
    <2>5. v \in Range(Append(channel, v))
      <3>1. Len(channel) + 1 \in 1..Len(channel) + 1
        BY <2>2
      <3> QED BY <2>2, <3>1 DEF Range
    <2> QED BY <2>1, <2>2, <2>3, <2>4, <2>5
  <1>2. CASE status # "running"
    BY <1>2 DEF SignalParent
  <1> QED BY <1>1, <1>2

LEMMA ChildReturnsIInv ==
  ASSUME NEW v \in Version, IInv, child[v] = "working", SignalParent(v),
         NEW c \in {"backoff", "done", "failed"},
         c = "backoff" => attempt[v] < MaxAttempts,
         child' = [child EXCEPT ![v] = c],
         UNCHANGED <<batchVars, attempt>>
  PROVE  IInv'
  <1>1. /\ child \in [Version -> ChildState]
        /\ attempt \in [Version -> 0..MaxAttempts]
        /\ channel \in Seq(Version)
        /\ attempt[v] >= 1
    BY DEF IInv, TypeOK, AttemptsCounted
  <1>2. /\ child' \in [Version -> ChildState]
        /\ attempt' = attempt
        /\ child'[v] = c
        /\ \A w \in Version \ {v} : child'[w] = child[w] /\ attempt'[w] = attempt[w]
    BY <1>1 DEF ChildState
  <1>3. HasSignalled(v)'
    BY <1>2 DEF HasSignalled
  <1>4. /\ channel' \in Seq(Version)
        /\ Range(channel) \subseteq Range(channel')
        /\ Range(channel') \subseteq Range(channel) \cup {v}
        /\ status = "running" => v \in Range(channel')
    BY <1>1, SignalAdds
  <1>5. UNCHANGED batchVars
    OBVIOUS
  <1> QED BY <1>1, <1>2, <1>3, <1>4, <1>5, ChildMovePreserves

LEMMA ChildSucceedsIInv ==
  ASSUME NEW v \in Version PROVE IInv /\ ChildSucceeds(v) => IInv'
  BY ChildReturnsIInv DEF ChildSucceeds

LEMMA ChildFailsIInv ==
  ASSUME NEW v \in Version PROVE IInv /\ ChildFails(v) => IInv'
  <1> SUFFICES ASSUME IInv, ChildFails(v) PROVE IInv'
    OBVIOUS
  <1>1. /\ child[v] = "working"
        /\ SignalParent(v)
        /\ UNCHANGED <<batchVars, attempt>>
        /\ child' = [child EXCEPT ![v] = IF attempt[v] < MaxAttempts
                                           THEN "backoff" ELSE "failed"]
    BY DEF ChildFails
  <1>2. CASE attempt[v] < MaxAttempts
    <2>1. child' = [child EXCEPT ![v] = "backoff"]
      BY <1>1, <1>2
    <2> QED BY <1>1, <1>2, <2>1, ChildReturnsIInv
  <1>3. CASE ~(attempt[v] < MaxAttempts)
    <2>1. child' = [child EXCEPT ![v] = "failed"]
      BY <1>1, <1>3
    <2> QED BY <1>1, <2>1, ChildReturnsIInv
  <1> QED BY <1>2, <1>3

LEMMA RetryChildIInv ==
  ASSUME NEW v \in Version PROVE IInv /\ RetryChild(v) => IInv'
  <1> SUFFICES ASSUME IInv, RetryChild(v) PROVE IInv'
    OBVIOUS
  <1>1. /\ child[v] = "backoff"
        /\ child' = [child EXCEPT ![v] = "working"]
        /\ attempt' = [attempt EXCEPT ![v] = @ + 1]
        /\ UNCHANGED batchVars
        /\ channel' = channel
    BY DEF RetryChild
  <1>2. /\ child \in [Version -> ChildState]
        /\ attempt \in [Version -> 0..MaxAttempts]
        /\ channel \in Seq(Version)
        /\ attempt[v] >= 1 /\ attempt[v] < MaxAttempts
    BY <1>1 DEF IInv, TypeOK, AttemptsCounted
  <1>3. /\ child' \in [Version -> ChildState]
        /\ attempt' \in [Version -> 0..MaxAttempts]
        /\ child'[v] = "working" /\ attempt'[v] = attempt[v] + 1
        /\ attempt'[v] > 1
        /\ \A w \in Version \ {v} : child'[w] = child[w] /\ attempt'[w] = attempt[w]
    BY <1>1, <1>2, BatchAssumption DEF ChildState
  <1>4. HasSignalled(v)' /\ ~FirstSignalPending(v)
    BY <1>1, <1>3 DEF HasSignalled, FirstSignalPending
  <1>5. attempt'[v] >= 1
    BY <1>2, <1>3
  <1> QED BY <1>1, <1>2, <1>3, <1>4, <1>5, ChildMovePreserves

LEMMA StutterIInv == IInv /\ UNCHANGED vars => IInv'
  BY DEF vars, batchVars, childVars, IInv, TypeOK, PageEnd, WindowRespected,
         ProgressExact, HandedOut, NoLostCompletion, FirstSignalPending,
         StartedIsHandedOut, RecordsMatchChildren, HasSignalled,
         AttemptsCounted, CompletedIsEmpty

LEMMA NextIInv == IInv /\ [Next]_vars => IInv'
  <1> SUFFICES ASSUME IInv, [Next]_vars PROVE IInv'
    OBVIOUS
  <1>1. CASE StartChild
    BY <1>1, StartChildIInv
  <1>2. CASE PumpReceive
    BY <1>2, PumpReceiveIInv
  <1>3. CASE ContinueAsNew
    BY <1>3, ContinueAsNewIInv
  <1>4. CASE Complete
    BY <1>4, CompleteIInv
  <1>5. CASE Terminate
    BY <1>5, TerminateIInv
  <1>6. ASSUME NEW v \in Version, ServerStart(v) PROVE IInv'
    BY <1>6, ServerStartIInv
  <1>7. ASSUME NEW v \in Version, ChildSucceeds(v) PROVE IInv'
    BY <1>7, ChildSucceedsIInv
  <1>8. ASSUME NEW v \in Version, ChildFails(v) PROVE IInv'
    BY <1>8, ChildFailsIInv
  <1>9. ASSUME NEW v \in Version, RetryChild(v) PROVE IInv'
    BY <1>9, RetryChildIInv
  <1>10. CASE Quiet \/ UNCHANGED vars
    BY <1>10, StutterIInv DEF Quiet
  <1> QED BY <1>1, <1>2, <1>3, <1>4, <1>5, <1>6, <1>7, <1>8, <1>9, <1>10
          DEF Next, BatchStep, ChildStep

-----------------------------------------------------------------------------
(* The theorems. *)

\* The inductive invariant holds in every reachable state.
THEOREM Invariance == Spec => []IInv
  <1>1. Init => IInv
    BY InitIInv
  <1>2. IInv /\ [Next]_vars => IInv'
    BY NextIInv
  <1> QED BY <1>1, <1>2, PTL DEF Spec

\* Types: the lists, pages, counters and child states of every run stay in
\* their ranges, for both ways of passing the list on.
THEOREM TypeCorrect == Spec => []TypeOK
  <1>1. IInv => TypeOK
    BY DEF IInv
  <1> QED BY <1>1, Invariance, PTL

\* The window is respected across pages and runs.
THEOREM WindowSafe == Spec => []WindowRespected
  <1>1. IInv => WindowRespected
    BY DEF IInv
  <1> QED BY <1>1, Invariance, PTL

\* The reported progress is exact, whatever the number of signals per child.
THEOREM ProgressSafe == Spec => []ProgressExact
  <1>1. IInv => ProgressExact
    BY DEF IInv
  <1> QED BY <1>1, Invariance, PTL

\* No completion signal is lost, across continue-as-new included.
THEOREM NoCompletionLost == Spec => []NoLostCompletion
  <1>1. IInv => NoLostCompletion
    BY DEF IInv
  <1> QED BY <1>1, Invariance, PTL

\* A batch that returns has accounted for every version.
THEOREM CompletionAccounted == Spec => []CompletedAccountsForAll
  <1>1. IInv => CompletedAccountsForAll
    <2> SUFFICES ASSUME IInv, status = "completed"
                 PROVE  /\ progress = Len(Versions)
                        /\ \A v \in Version : HasSignalled(v)
      BY DEF CompletedAccountsForAll
    <2>1. HandedOut = Len(Versions) /\ currentRecords = {}
      BY DEF IInv, CompletedIsEmpty
    <2>2. progress = Len(Versions)
      <3>1. progress \in Nat /\ Cardinality(currentRecords) = 0
        BY <2>1, FS_EmptySet DEF IInv, TypeOK
      <3>2. progress + Cardinality(currentRecords) = HandedOut
        BY DEF IInv, ProgressExact
      <3> QED BY <2>1, <3>1, <3>2
    <2>3. ASSUME NEW v \in Version PROVE HasSignalled(v)
      <3>1. PICK i \in 1..Len(Versions) : Versions[i] = v
        BY BatchAssumption, LenProperties DEF Version, Range
      <3>2. Len(Versions) \in Nat
        BY BatchAssumption, LenProperties
      <3>3. child[v] # "none"
        BY <2>1, <3>1, <3>2 DEF IInv, StartedIsHandedOut
      <3> QED BY <2>1, <3>3 DEF IInv, RecordsMatchChildren
    <2> QED BY <2>2, <2>3
  <1> QED BY <1>1, Invariance, PTL

\* No version is handed to a second child: the only step that asks for a child
\* is the page loop's, for the first version of the list that has none.
THEOREM HandedOutOnceHolds == Spec => HandedOutOnce
  <1> DEFINE A == \A v \in Version :
                    child'[v] = "initiated" /\ child[v] # "initiated"
                        => child[v] = "none"
  <1>1. IInv /\ [Next]_vars => [A]_vars
    <2> SUFFICES ASSUME IInv, Next PROVE A
      OBVIOUS
    <2>1. child \in [Version -> ChildState]
      BY DEF IInv, TypeOK
    <2>2. CASE StartChild
      <3> DEFINE w == versions[position + 1]
      <3>1. child' = [child EXCEPT ![w] = "initiated"]
        BY <2>2 DEF StartChild
      <3>2. child[w] = "none"
        <4>1. w = Versions[HandedOut + 1] /\ HandedOut + 1 \in 1..Len(Versions)
          BY <2>2, NextVersion DEF StartChild, IInv
        <4>2. HandedOut + 1 > HandedOut
          BY SuffixOfVersions DEF IInv
        <4> QED BY <4>1, <4>2 DEF IInv, StartedIsHandedOut
      <3> HIDE DEF w
      <3> QED BY <2>1, <3>1, <3>2
    <2>3. CASE PumpReceive \/ ContinueAsNew \/ Complete \/ Terminate \/ Quiet
      BY <2>3 DEF PumpReceive, ContinueAsNew, Complete, Terminate, Quiet,
                  vars, childVars
    <2>4. ASSUME NEW v \in Version, ChildStep(v) PROVE A
      <3>1. CASE ServerStart(v)
        BY <2>1, <3>1 DEF ServerStart
      <3>2. CASE ChildSucceeds(v)
        BY <2>1, <3>2 DEF ChildSucceeds
      <3>3. CASE ChildFails(v)
        BY <2>1, <3>3 DEF ChildFails
      <3>4. CASE RetryChild(v)
        BY <2>1, <3>4 DEF RetryChild
      <3> QED BY <2>4, <3>1, <3>2, <3>3, <3>4 DEF ChildStep
    <2> QED BY <2>2, <2>3, <2>4 DEF Next, BatchStep
  <1> QED BY <1>1, Invariance, PTL DEF Spec, HandedOutOnce

-----------------------------------------------------------------------------
(* The batch implements the safety half of its promise. *)

\* The instance counts sets as this module does.
LEMMA SameCardinality == \A S : Promise!Cardinality(S) = Cardinality(S)
  BY DEF Cardinality, Promise!Cardinality

LEMMA ReceivingReports ==
  ASSUME IInv, status = "running", NEW S, RecordCompletions(S),
         HandedOut' = HandedOut, status' = status
  PROVE  [Promise!Next]_(Promise!vars)
  <1> DEFINE T == currentRecords \cap S
  <1>1. /\ currentRecords' = currentRecords \ T
        /\ progress' = progress + Cardinality(T)
        /\ T \in SUBSET currentRecords
    BY DEF RecordCompletions
  <1>2. CASE T = {}
    <2>1. Cardinality(T) = 0 /\ progress \in Nat
      BY <1>2, FS_EmptySet DEF IInv, TypeOK
    <2>2. currentRecords' = currentRecords /\ progress' = progress
      BY <1>1, <1>2, <2>1
    <2> QED BY <2>2 DEF Promise!vars
  <1>3. CASE T # {}
    <2>1. Promise!Report(T)
      <3> HIDE DEF T
      <3> QED BY <1>1, SameCardinality DEF Promise!Report
    <2>2. \E R \in SUBSET currentRecords : R # {} /\ Promise!Report(R)
      <3> HIDE DEF T
      <3> QED BY <1>1, <1>3, <2>1
    <2> QED BY <2>2 DEF Promise!Next, Promise!ReportSome
  <1> QED BY <1>2, <1>3

LEMMA StepImplementsPromise == IInv /\ [Next]_vars => [Promise!Next]_(Promise!vars)
  <1> SUFFICES ASSUME IInv, [Next]_vars PROVE [Promise!Next]_(Promise!vars)
    OBVIOUS
  <1>1. CASE StartChild
    <2>1. /\ status = "running" /\ position < PageEnd
          /\ Cardinality(currentRecords) < WindowSize
          /\ currentRecords' = currentRecords \cup {versions[position + 1]}
          /\ position' = position + 1
          /\ UNCHANGED <<versions, progress, status>>
      BY <1>1 DEF StartChild, WindowHasRoom
    <2>2. /\ HandedOut < Len(Versions)
          /\ HandedOut' = HandedOut + 1
          /\ versions[position + 1] = Versions[HandedOut + 1]
      <3>1. /\ HandedOut = Len(Versions) - Len(versions) + position
            /\ HandedOut' = Len(Versions) - Len(versions) + (position + 1)
        BY <2>1 DEF HandedOut
      <3>2. /\ HandedOut + 1 \in 1..Len(Versions)
            /\ versions[position + 1] = Versions[HandedOut + 1]
        BY <2>1, NextVersion DEF IInv
      <3>3. /\ Len(Versions) \in Nat /\ Len(versions) \in Nat
            /\ position \in Nat /\ HandedOut \in Nat
        BY SuffixOfVersions DEF IInv
      <3>4. HandedOut < Len(Versions)
        BY <3>2, <3>3
      <3>5. HandedOut' = HandedOut + 1
        BY <3>1, <3>3
      <3> QED BY <3>2, <3>4, <3>5
    <2> QED BY <2>1, <2>2, SameCardinality DEF Promise!Next, Promise!HandOut
  <1>2. CASE PumpReceive
    <2>1. HandedOut' = HandedOut
      BY <1>2 DEF PumpReceive, HandedOut
    <2> QED BY <1>2, <2>1, ReceivingReports DEF PumpReceive
  <1>3. CASE ContinueAsNew
    <2>1. HandedOut' = HandedOut
      BY <1>3, NextRunContinues DEF IInv, ContinueAsNew
    <2> QED BY <1>3, <2>1, ReceivingReports
            DEF ContinueAsNew, DrainCompletionSignals
  <1>4. CASE Complete
    <2>1. /\ status = "running" /\ status' = "completed"
          /\ position = PageEnd /\ PageEnd = Len(versions)
          /\ currentRecords = {}
          /\ RecordCompletions(Range(channel))
          /\ UNCHANGED <<versions, offset, position>>
      BY <1>4 DEF Complete, DrainCompletionSignals
    <2>2. HandedOut = Len(Versions) /\ HandedOut' = HandedOut
      BY <2>1, SuffixOfVersions DEF IInv, HandedOut
    <2>3. /\ progress \in Nat
          /\ Cardinality(currentRecords) = 0
          /\ progress + Cardinality(currentRecords) = HandedOut
      BY <2>1, FS_EmptySet DEF IInv, TypeOK, ProgressExact
    <2>4. currentRecords' = currentRecords /\ progress' = progress
      <3>1. currentRecords \cap Range(channel) = {}
        BY <2>1
      <3> QED BY <2>1, <2>3, <3>1, FS_EmptySet DEF RecordCompletions
    <2> QED BY <2>1, <2>2, <2>3, <2>4 DEF Promise!Next, Promise!Return
  <1>5. CASE Terminate
    BY <1>5 DEF Terminate, HandedOut, Promise!Next, Promise!Abort
  <1>6. ASSUME NEW v \in Version, ChildStep(v)
        PROVE  [Promise!Next]_(Promise!vars)
    <2>1. UNCHANGED batchVars
      BY <1>6 DEF ChildStep, ServerStart, ChildSucceeds, ChildFails, RetryChild
    <2> QED BY <2>1 DEF batchVars, HandedOut, Promise!vars
  <1>7. CASE Quiet \/ UNCHANGED vars
    BY <1>7 DEF Quiet, vars, batchVars, HandedOut, Promise!vars
  <1> QED BY <1>1, <1>2, <1>3, <1>4, <1>5, <1>6, <1>7 DEF Next, BatchStep

\* Every run of the batch is one of the abstract pool: each version of the
\* list handed out once, in order, within the window, and the batch returns
\* when all have reported and with their number.
THEOREM ImplementsPromiseSafely == Spec => SafePromise
  <1>1. Init => Promise!Init
    <2>1. Init => HandedOut = 0
      <3>1. Len(Versions) \in Nat
        BY BatchAssumption, LenProperties
      <3> QED BY <3>1 DEF Init, HandedOut
    <2> QED BY <2>1 DEF Init, Promise!Init
  <1>2. IInv /\ [Next]_vars => [Promise!Next]_(Promise!vars)
    BY StepImplementsPromise
  <1> QED BY <1>1, <1>2, Invariance, PTL DEF Spec, SafePromise, Promise!SafeSpec

=============================================================================
