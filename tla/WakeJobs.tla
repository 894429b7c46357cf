------------------------------- MODULE WakeJobs -------------------------------
(***************************************************************************)
(* What the dispatch of debate triggers promises, whoever dispatches.  A   *)
(* trigger waits, is worked on by one owner's worker at a time and returns *)
(* to waiting when that worker is lost.  Its worker may decline it, which  *)
(* closes it for that owner; a later owner may still take it up.  Once     *)
(* answered it is never worked on again.  Only so many workers are ever    *)
(* allocated to it.                                                        *)
(***************************************************************************)
EXTENDS Naturals

CONSTANTS Jobs, MaxTries

VARIABLES phase, tries

Init ==
  /\ phase = [j \in Jobs |-> "unposted"]
  /\ tries = [j \in Jobs |-> 0]

Move(j, from, to) == phase[j] \in from /\ phase' = [phase EXCEPT ![j] = to]

Arrive(j)  == Move(j, {"unposted"}, "waiting") /\ UNCHANGED tries

Take(j) ==
  /\ Move(j, {"waiting", "declined"}, "working")
  /\ tries[j] < MaxTries
  /\ tries' = [tries EXCEPT ![j] = @ + 1]

Decline(j) == Move(j, {"working"}, "declined") /\ UNCHANGED tries

Answer(j)  == Move(j, {"waiting", "working", "declined"}, "answered") /\ UNCHANGED tries

\* Workers died or their parent lost the seat: a sweep may find several.  Of their
\* triggers D were declined by an earlier owner's worker, and are so again.
Lose(J, D) ==
  /\ \A j \in J : phase[j] = "working"
  /\ phase' = [j \in Jobs |-> IF j \notin J THEN phase[j]
                             ELSE IF j \in D THEN "declined" ELSE "waiting"]
  /\ UNCHANGED tries

Next ==
  \/ \E j \in Jobs : Arrive(j) \/ Take(j) \/ Decline(j) \/ Answer(j)
  \/ \E J \in SUBSET Jobs : \E D \in SUBSET J : Lose(J, D)

vars == <<phase, tries>>

Spec == Init /\ [][Next]_vars

================================================================================
