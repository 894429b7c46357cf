---------------------------- MODULE MCDebateChannel ----------------------------
(* Small inboxes for TLC. *)
EXTENDS DebateChannel, TLC

CONSTANTS s1, s2, d

F(to, sort, blind) == [to |-> to, sort |-> sort, blind |-> blind]

Owned == {s1, s2}

\* A legacy topic: messages to a diagnostic session, and one-shots to it and
\* to the role.
LegacyForms == {F({d}, "plain", FALSE), F({Role, d}, "oneshot", FALSE)}

\* Messages that may be in the way of a blind commit.
BlindForms == {F({Role}, "plain", FALSE), F({Role}, "plain", TRUE)}

\* What the recovery of a role meets: its messages and those of a diagnostic.
RecoveryForms == {F({Role}, "plain", FALSE), F({d}, "plain", FALSE)}

\* The sessions the operators may seat are alike.
Symmetry == Permutations(Owned)

\* One delivery is completed, one message answered and one taken back.
LegacyBound ==
  \A S \in {completed, answered, reclaimed} : Cardinality(S) \leq 1

\* Where an owner was seated matters to debate/v1 only.
WithoutSeat == <<msgs, binding, cursor, watermark, claim, answered, completed, shown,
                 ledger, signed, reclaimed>>

\* What a debate/v1 cursor may pass does not depend on replies or on the
\* queue, nothing is promised to a session that walks or has no seat, and a
\* WATERMARK that moves back is met by the legacy instance.
ProtocolBound ==
  /\ completed = {} /\ answered = {} /\ walked = {} /\ watermark = ledger
  /\ Bound = {} => delivered = [s \in Sessions |-> 0]

\* The diagnostic session is shown its own messages only: it never stands in
\* for the role, not even before the role has a binding.
RecoveryBound  == \A i \in shown[d] : d \in msgs[i].to

\* A legacy topic hides no message and is not swept: Release and Sweep wait
\* for V1, and are met in the inbox of the protocol run.
LegacyNext ==
  \/ Inboxes
  \/ \E f \in Forms : Post(f)
  \/ \E i \in Msgs : WatermarkPost(i) \/ Answer(i)
  \/ \E K \in SUBSET Lent : Reclaim(K)
  \/ \E s \in Sessions : BindActive(s) \/ BindDiagnostic(s) \/ BindRetired(s)
  \/ \E old, new \in Sessions, mode \in Modes : Rotate(old, new, mode)
  \/ Queue

LegacySpec == Init /\ [][LegacyNext]_vars

JustOne == {s1}
JustD   == {d}
NoOne   == {}
================================================================================
