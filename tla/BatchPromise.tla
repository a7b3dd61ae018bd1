---------------------------- MODULE BatchPromise ----------------------------
(***************************************************************************)
(* What a batch workflow promises its caller: every version of the list is *)
(* handed to a child exactly once and in list order, at most WindowSize    *)
(* versions are outstanding, and the batch returns the length of the list  *)
(* once each version has reported.  Pages, continue-as-new, signals and    *)
(* retries do not appear here.                                             *)
(***************************************************************************)
EXTENDS Naturals, Sequences, FiniteSets

CONSTANTS Versions,    \* the list the caller passes
          WindowSize   \* versions that may be outstanding at once

VARIABLES next,      \* how many versions of the list have been handed out
          active,    \* the versions handed out and not yet reported
          reported,  \* how many versions have reported
          outcome    \* "running", "completed" or "terminated"

vars == <<next, active, reported, outcome>>

Init == /\ next = 0
        /\ active = {}
        /\ reported = 0
        /\ outcome = "running"

\* The next version of the list goes to a child when the window has room.
HandOut == /\ outcome = "running"
           /\ next < Len(Versions)
           /\ Cardinality(active) < WindowSize
           /\ active' = active \cup {Versions[next + 1]}
           /\ next' = next + 1
           /\ UNCHANGED <<reported, outcome>>

\* Outstanding versions report, several at once when a page is drained.
Report(S) == /\ outcome = "running"
             /\ active' = active \ S
             /\ reported' = reported + Cardinality(S)
             /\ UNCHANGED <<next, outcome>>

Return == /\ outcome = "running"
          /\ next = Len(Versions)
          /\ active = {}
          /\ reported = Len(Versions)
          /\ outcome' = "completed"
          /\ UNCHANGED <<next, active, reported>>

\* The calling sync run times out and takes the batch with it.
Abort == /\ outcome = "running"
         /\ outcome' = "terminated"
         /\ UNCHANGED <<next, active, reported>>

ReportSome == \E S \in SUBSET active : S # {} /\ Report(S)

Next == HandOut \/ ReportSome \/ Return \/ Abort

SafeSpec == Init /\ [][Next]_vars

Spec == SafeSpec /\ WF_vars(HandOut) /\ WF_vars(ReportSome) /\ WF_vars(Return)
=============================================================================
