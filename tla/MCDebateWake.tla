----------------------------- MODULE MCDebateWake -----------------------------
(* Small instances of DebateWake for TLC: two sessions that may own the role. *)
EXTENDS DebateWake

CONSTANTS s1, s2

\* The role changes hands once, or never.
OneWay     == {<<s1, s2>>}
NoHandover == {}

\* One crash, one lost receipt, one handover, or the sole trigger read; without
\* the hook, a handover and a reading.  With the hook, the role that changed hands
\* has at most one worker left, or started, at a time.
OneDisturbance ==
  \/ ~hooked /\ faults = 0
  \/ /\ faults + generation + vouched \leq 2
     /\ hooked /\ generation = 2 => Cardinality(procs) \leq 1
================================================================================
