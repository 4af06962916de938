---------------------------- MODULE DegradedSummary ----------------------------
(***************************************************************************)
(* What the status manager promises about the Degraded condition, without  *)
(* its API calls, caches, retries and locks: the parts of the operator     *)
(* raise and clear faults at status levels, and whatever Degraded value    *)
(* is published at some moment is the summary of the faults of that        *)
(* moment: the fault of the lowest level that has one, or "False" if no    *)
(* level has one.  StatusManager implements this specification.            *)
(***************************************************************************)
EXTENDS Integers

CONSTANTS Levels,    \* status levels, the lower the more important
          Reasons,   \* reasons (and messages) of a fault
          NoReason   \* no fault at a level

VARIABLES failing,   \* [Levels -> Reasons \cup {NoReason}]
          published  \* the Degraded condition a reader of the status sees

vars == <<failing, published>>

Faultless == [l \in Levels |-> NoReason]

\* d is the summary of the faults f.
Summarises(d, f) ==
    \/ f = Faultless /\ d = "False"
    \/ \E l \in Levels : /\ f[l] \in Reasons
                         /\ d = f[l]
                         /\ \A k \in Levels : k < l => f[k] = NoReason

Init == failing = Faultless /\ published = "Absent"

\* A fault is raised or cleared at one level.
Report == /\ \E l \in Levels, r \in Reasons \cup {NoReason} :
                failing' = [failing EXCEPT ![l] = r]
          /\ UNCHANGED published

\* The operator process restarts: its memory of the faults is gone.
Forget == failing' = Faultless /\ UNCHANGED published

\* The condition is written: it summarises the faults of this moment.
Publish == Summarises(published', failing) /\ UNCHANGED failing

\* The object that carries the condition is deleted.
Lose == published' = "Absent" /\ UNCHANGED failing

Next == Report \/ Forget \/ Publish \/ Lose

Spec == Init /\ [][Next]_vars
================================================================================
