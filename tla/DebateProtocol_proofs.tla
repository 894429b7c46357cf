------------------------- MODULE DebateProtocol_proofs -------------------------
(***************************************************************************)
(* Proofs about DebateProtocol, for any roster, acts and bounds.           *)
(*                                                                         *)
(* A step changes the ledger by one message at most, and moves the phase   *)
(* through MoveTo only: the lemmas about these two carry the invariants.   *)
(* What the run checks of the inbox follows from DebateChannel_proofs.     *)
(***************************************************************************)
EXTENDS MCDebateProtocol, FiniteSetTheorems, TLAPS

\* What a step that stores message m does to the ledger.
Stores(m) == m \in Message /\ Len(msgs) < MaxMsgs /\ msgs' = Append(msgs, m)

LEMMA LedgerGrows ==
  ASSUME TypeOK, NEW m, Stores(m)
  PROVE  /\ msgs' \in Seq(Message) /\ Len(msgs') = Len(msgs) + 1
         /\ Len(msgs') \leq MaxMsgs
         /\ \A i \in 1 .. Len(msgs) : msgs'[i] = msgs[i]
         /\ msgs'[Len(msgs) + 1] = m
         /\ 1 .. Len(msgs') = (1 .. Len(msgs)) \cup {Len(msgs) + 1}
BY BoundsAssumption DEF TypeOK, Stores

LEMMA OfKindGrows ==
  ASSUME TypeOK, NEW m, Stores(m), NEW K
  PROVE  OfKind(K)' = IF m.act.kind \in K THEN OfKind(K) \cup {Len(msgs) + 1}
                      ELSE OfKind(K)
<1>1. \A i \in 1 .. Len(msgs) : msgs'[i] = msgs[i] /\ i # Len(msgs) + 1
      BY LedgerGrows DEF TypeOK
<1> QED BY <1>1, LedgerGrows DEF OfKind, ActOf

\* The row of an act.
RowOf(f, t, n) == [act |-> f, reply |-> t, round |-> n]

LEMMA RowType ==
  ASSUME NEW f \in Acts, NEW t \in 0 .. MaxMsgs, NEW n \in 0 .. MaxRounds
  PROVE  RowOf(f, t, n) \in Message /\ RowOf(f, t, n).act = f
         /\ RowOf(f, t, n).reply = t /\ RowOf(f, t, n).round = n
BY DEF RowOf, Message

LEMMA PostStores ==
  ASSUME TypeOK, NEW f \in Acts, NEW t \in Targets(f), PostAct(f, t)
  PROVE  Stores(RowOf(f, t, round))
<1> USE BoundsAssumption
<1>1. t \in 0 .. MaxMsgs BY DEF Targets, TypeOK
<1>2. round \in 0 .. MaxRounds BY DEF TypeOK
<1> QED BY <1>1, <1>2, RowType DEF PostAct, Stores, RowOf

LEMMA ControlStores ==
  ASSUME TypeOK, NEW f \in Acts, PostControl(f)
  PROVE  Stores(RowOf(f, 0, 0))
<1> USE BoundsAssumption
<1>1. 0 \in 0 .. MaxMsgs /\ 0 \in 0 .. MaxRounds OBVIOUS
<1> QED BY <1>1, RowType DEF PostControl, Stores, RowOf

--------------------------------------------------------------------------------
(* The phases                                                              *)

\* What each way of posting an act requires and does.
LEMMA PostCases ==
  ASSUME TypeOK, NEW f \in Acts, NEW t \in Targets(f), PostAct(f, t)
  PROVE  /\ \/ f.kind = "CLAIM" /\ phase = "BLIND_CLAIM" /\ RecordBlindClaim(f)
            \/ f.kind = "VERIFY" /\ phase = "DEBATE" /\ RecordVerify(f)
            \/ /\ f.kind = "ESCALATE" /\ phase \in {"DEBATE", "ADJUDICATE", "STALEMATE"}
               /\ Human \in f.to /\ RecordEscalate(f)
            \/ /\ f.kind \notin {"VERIFY", "ESCALATE"}
               /\ phase \in {"DEBATE", "STALEMATE"}
               /\ UNCHANGED <<machine, commits, released, packets>>
         /\ phase = "BLIND_CLAIM" => f.role \in Blind
         /\ UNCHANGED <<topic, judging, seats, peeked>>
<1>1. PhaseAccepts(f) /\ EscalationValid(f) BY DEF PostAct, SemanticValid
<1>2. /\ phase = "BLIND_CLAIM" => f.kind = "CLAIM" /\ f.role \in Blind
      /\ phase = "ADJUDICATE" => f.kind = "ESCALATE"
      /\ phase = "STALEMATE" => f.kind \in {"ESCALATE", "DISSENT"}
      /\ phase \in {"BLIND_CLAIM", "DEBATE", "ADJUDICATE", "STALEMATE"}
      BY <1>1 DEF PhaseAccepts
<1>3. f.kind = "ESCALATE" => Human \in f.to BY <1>1 DEF EscalationValid
<1> QED BY <1>2, <1>3 DEF PostAct

\* PhasesMoveForward as a fact about one step.
Forward ==
  phase' # phase =>
     \/ phase \in Timed /\ phase' \in {"STALEMATE", "ESCALATED"}
     \/ phase = "STALEMATE" /\ phase' = "ESCALATED"
     \/ phase = "BLIND_CLAIM" /\ phase' = "DEBATE"
     \/ phase = "DEBATE" /\ phase' = "ADJUDICATE"
     \/ phase = "ADJUDICATE" /\ phase' = "STOPPED"

LEMMA StepForward == TypeOK /\ [Next]_vars => Forward
<1> SUFFICES ASSUME TypeOK, [Next]_vars PROVE Forward OBVIOUS
<1> USE DEF Forward, machine, Timed
<1>1. ASSUME NEW f \in Acts, NEW t \in Targets(f), PostAct(f, t) PROVE Forward
      BY <1>1, PostCases
         DEF RecordBlindClaim, RecordVerify, RecordEscalate, MoveTo
<1>2. ASSUME NEW f \in Acts, PostControl(f) PROVE Forward BY <1>2 DEF PostControl
<1>3. ASSUME NEW o \in Orders, NEW v \in Verdict, RecordVerdict(o, v) PROVE Forward
      BY <1>3 DEF RecordVerdict, MoveTo
<1>4. ASSUME NEW l, NEW r, PrepareOrderSwap(l, r) PROVE Forward
      BY <1>4 DEF PrepareOrderSwap
<1>5. ASSUME NEW r, NEW i, Advance(r, i) PROVE Forward BY <1>5 DEF Advance
<1>6. ASSUME NEW r, Read(r) \/ Unseat(r) \/ Seat(r) PROVE Forward
      BY <1>6 DEF Read, Unseat, Seat
<1>7. ASSUME Resolve \/ PassDeadline PROVE Forward BY <1>7 DEF Resolve, PassDeadline
<1>8. ASSUME Maintain PROVE Forward BY <1>8 DEF Maintain, MoveTo, Expired
<1>9. CASE UNCHANGED vars BY <1>9 DEF vars
<1> QED BY <1>1, <1>2, <1>3, <1>4, <1>5, <1>6, <1>7, <1>8, <1>9 DEF Next

--------------------------------------------------------------------------------
(* Type correctness                                                        *)

\* TypeOK by groups of variables that change together.
MachineOK ==
  /\ phase \in Phases /\ round \in 1 .. MaxRounds /\ version \in Nat \ {0}
  /\ deadline \in {"none", "running", "passed"}
  /\ (deadline = "none") <=> (phase \notin Timed)

LedgerOK  == msgs \in Seq(Message) /\ Len(msgs) \leq MaxMsgs
BarrierOK == commits \in [Blind -> 0 .. MaxMsgs] /\ released \subseteq Blind
PacketsOK == packets \subseteq [generation : Nat, msg : Msgs]

JudgingOK ==
  /\ pair \in {<<>>} \cup (Msgs \X Msgs)
  /\ verdicts \in [Orders -> Verdict \cup {NoVerdict}]

SeatsOK ==
  /\ topic \in {"ACTIVE", "RESOLVED"}
  /\ bound \subseteq Roles /\ cursor \in [Roles -> 0 .. MaxMsgs]
  /\ peeked \subseteq Blind

TypeParts == MachineOK /\ LedgerOK /\ BarrierOK /\ PacketsOK /\ JudgingOK /\ SeatsOK

LEMMA TypeIsItsParts == TypeOK <=> TypeParts
BY DEF TypeOK, TypeParts, MachineOK, LedgerOK, BarrierOK, PacketsOK, JudgingOK, SeatsOK

LEMMA NextTypeParts == TypeOK' <=> TypeParts'
BY DEF TypeOK, TypeParts, MachineOK, LedgerOK, BarrierOK, PacketsOK, JudgingOK, SeatsOK

LEMMA InitType == Init => TypeOK
<1> SUFFICES ASSUME Init PROVE TypeParts BY TypeIsItsParts
<1> USE RolesAssumption, BoundsAssumption
<1>1. MachineOK BY DEF Init, MachineOK, Phases, Timed
<1>2. LedgerOK BY DEF Init, LedgerOK
<1>3. BarrierOK /\ PacketsOK BY DEF Init, BarrierOK, PacketsOK
<1>4. JudgingOK BY DEF Init, JudgingOK
<1>5. SeatsOK BY DEF Init, SeatsOK
<1> QED BY <1>1, <1>2, <1>3, <1>4, <1>5 DEF TypeParts

\* A transition re-arms the deadline exactly when the new phase is timed.
LEMMA MoveToType ==
  ASSUME TypeOK, NEW new \in Phases, MoveTo(new), round' \in 1 .. MaxRounds
  PROVE  MachineOK'
BY DEF TypeOK, MoveTo, MachineOK, Timed

LEMMA PostType ==
  ASSUME TypeOK, NEW f \in Acts, NEW t \in Targets(f), PostAct(f, t)
  PROVE  TypeOK'
<1> USE BoundsAssumption
<1>1. LedgerOK' BY PostStores, LedgerGrows DEF LedgerOK
<1>2. Len(msgs) + 1 \in Msgs BY DEF PostAct, TypeOK, Msgs
<1>3. JudgingOK' /\ SeatsOK'
      BY TypeIsItsParts, PostCases DEF judging, seats, TypeParts, JudgingOK, SeatsOK
<1>4. MachineOK' /\ BarrierOK' /\ PacketsOK'
  <2>1. CASE f.kind = "CLAIM" /\ phase = "BLIND_CLAIM" /\ RecordBlindClaim(f)
    <3>1. f.role \in Blind BY <2>1, PostCases
    <3>2. BarrierOK' /\ PacketsOK'
          BY <2>1, <3>1, <1>2, TypeIsItsParts
             DEF RecordBlindClaim, TypeParts, BarrierOK, PacketsOK, Msgs
    <3>3. MachineOK'
          BY <2>1, MoveToType, TypeIsItsParts
             DEF RecordBlindClaim, machine, TypeParts, MachineOK, Phases
    <3> QED BY <3>2, <3>3
  <2>2. CASE f.kind = "VERIFY" /\ phase = "DEBATE" /\ RecordVerify(f)
    <3>1. BarrierOK' /\ PacketsOK'
          BY <2>2, TypeIsItsParts DEF RecordVerify, TypeParts, BarrierOK, PacketsOK
    <3>2. round' \in 1 .. MaxRounds BY <2>2 DEF RecordVerify, LastRound, TypeOK
    <3>3. MachineOK' BY <2>2, <3>2, MoveToType DEF RecordVerify, Phases
    <3> QED BY <3>1, <3>3
  <2>3. CASE f.kind = "ESCALATE" /\ RecordEscalate(f)
    <3>1. BarrierOK' BY <2>3, TypeIsItsParts DEF RecordEscalate, TypeParts, BarrierOK
    <3>2. [generation |-> version, msg |-> Len(msgs) + 1] \in [generation : Nat, msg : Msgs]
          BY <1>2 DEF TypeOK
    <3>3. PacketsOK' BY <2>3, <3>2, TypeIsItsParts DEF RecordEscalate, TypeParts, PacketsOK
    <3>4. MachineOK' BY <2>3, MoveToType DEF RecordEscalate, Phases, TypeOK
    <3> QED BY <3>1, <3>3, <3>4
  <2>4. CASE UNCHANGED <<machine, commits, released, packets>>
        BY <2>4, TypeIsItsParts
           DEF machine, TypeParts, MachineOK, BarrierOK, PacketsOK
  <2> QED BY <2>1, <2>2, <2>3, <2>4, PostCases
<1> QED BY <1>1, <1>3, <1>4, NextTypeParts DEF TypeParts

LEMMA VerdictType ==
  ASSUME TypeOK, NEW o \in Orders, NEW v \in Verdict, RecordVerdict(o, v)
  PROVE  TypeOK'
<1>1. LedgerOK' /\ BarrierOK' /\ PacketsOK' /\ SeatsOK'
      BY TypeIsItsParts
         DEF RecordVerdict, seats, TypeParts, LedgerOK, BarrierOK, PacketsOK, SeatsOK
<1>2. JudgingOK' BY TypeIsItsParts DEF RecordVerdict, TypeParts, JudgingOK
<1>3. MachineOK'
      BY TypeIsItsParts, MoveToType
         DEF RecordVerdict, machine, TypeParts, MachineOK, Phases
<1> QED BY <1>1, <1>2, <1>3, NextTypeParts DEF TypeParts

LEMMA MaintainType == TypeOK /\ Maintain => TypeOK'
<1> SUFFICES ASSUME TypeOK, Maintain PROVE TypeOK' OBVIOUS
<1>1. LedgerOK' /\ BarrierOK' /\ PacketsOK' /\ JudgingOK'
      BY TypeIsItsParts
         DEF Maintain, judging, TypeParts, LedgerOK, BarrierOK, PacketsOK, JudgingOK
<1>2. SeatsOK'
      BY TypeIsItsParts, RolesAssumption DEF Maintain, MissingRoles, TypeParts, SeatsOK
<1>3. MachineOK'
      BY TypeIsItsParts, MoveToType DEF Maintain, machine, TypeParts, MachineOK, Phases
<1> QED BY <1>1, <1>2, <1>3, NextTypeParts DEF TypeParts

LEMMA StepType == TypeOK /\ [Next]_vars => TypeOK'
<1> SUFFICES ASSUME TypeOK, [Next]_vars PROVE TypeOK' OBVIOUS
<1> USE RolesAssumption, BoundsAssumption
<1>1. ASSUME NEW f \in Acts, NEW t \in Targets(f), PostAct(f, t) PROVE TypeOK'
      BY <1>1, PostType
<1>2. ASSUME NEW f \in Acts, PostControl(f) PROVE TypeOK'
  <2>1. LedgerOK' BY <1>2, ControlStores, LedgerGrows DEF LedgerOK
  <2>2. UNCHANGED <<topic, machine, commits, released, packets, judging, seats, peeked>>
        BY <1>2 DEF PostControl
  <2> QED BY <2>1, <2>2, TypeIsItsParts, NextTypeParts
          DEF machine, judging, seats, TypeParts, MachineOK, BarrierOK, PacketsOK,
              JudgingOK, SeatsOK
<1>3. ASSUME NEW o \in Orders, NEW v \in Verdict, RecordVerdict(o, v) PROVE TypeOK'
      BY <1>3, VerdictType
<1>4. ASSUME NEW l \in 1 .. Len(msgs), NEW r \in 1 .. Len(msgs), PrepareOrderSwap(l, r)
      PROVE  TypeOK'
  <2>1. l \in Msgs /\ r \in Msgs BY DEF TypeOK, Msgs
  <2> QED BY <1>4, <2>1 DEF PrepareOrderSwap, machine, seats, TypeOK
<1>5. ASSUME NEW r \in Roles, NEW i \in 1 .. Len(msgs), Advance(r, i) PROVE TypeOK'
      BY <1>5 DEF Advance, machine, judging, TypeOK
<1>6. ASSUME NEW r \in Roles, Read(r) PROVE TypeOK'
      BY <1>6 DEF Read, machine, judging, seats, TypeOK
<1>7. ASSUME NEW r \in Movable, Unseat(r) \/ Seat(r) PROVE TypeOK'
  <2>1. UNCHANGED <<topic, machine, msgs, commits, released, packets, judging, peeked>>
        BY <1>7 DEF Unseat, Seat
  <2>2. bound \subseteq Roles /\ cursor \in [Roles -> 0 .. MaxMsgs] BY DEF TypeOK
  <2>3. bound' \subseteq Roles /\ cursor' \in [Roles -> 0 .. MaxMsgs]
    <3>1. CASE Unseat(r) BY <2>2, <3>1 DEF Unseat
    <3>2. CASE Seat(r) BY <2>2, <3>2 DEF Seat
    <3> QED BY <1>7, <3>1, <3>2
  <2> QED BY <2>1, <2>3, TypeIsItsParts, NextTypeParts
          DEF machine, judging, TypeParts, MachineOK, LedgerOK, BarrierOK, PacketsOK,
              JudgingOK, SeatsOK
<1>8. CASE Resolve BY <1>8 DEF Resolve, machine, judging, TypeOK
<1>9. CASE PassDeadline
      BY <1>9 DEF PassDeadline, judging, seats, TypeOK
<1>10. CASE Maintain BY <1>10, MaintainType
<1>11. CASE UNCHANGED vars BY <1>11 DEF vars, machine, judging, seats, TypeOK
<1> QED BY <1>1, <1>2, <1>3, <1>4, <1>5, <1>6, <1>7, <1>8, <1>9, <1>10, <1>11 DEF Next

\* Every reachable state is well-typed: whatever the posts, verdicts, sweeps and
\* rebindings, rounds stay within the cap and a deadline runs in timed phases only.
THEOREM TypeCorrect == Spec => []TypeOK
<1>1. Init => TypeOK BY InitType
<1>2. TypeOK /\ [Next]_vars => TypeOK' BY StepType
<1> QED BY <1>1, <1>2, PTL DEF Spec

\* No handler, late or repeated, moves the phase backwards (see PhasesMoveForward).
THEOREM ForwardOnly == Spec => PhasesMoveForward
<1>1. TypeOK /\ [Next]_vars => [phase' # phase =>
       \/ phase \in Timed /\ phase' \in {"STALEMATE", "ESCALATED"}
       \/ phase = "STALEMATE" /\ phase' = "ESCALATED"
       \/ phase = "BLIND_CLAIM" /\ phase' = "DEBATE"
       \/ phase = "DEBATE" /\ phase' = "ADJUDICATE"
       \/ phase = "ADJUDICATE" /\ phase' = "STOPPED"]_vars
      BY StepForward DEF Forward
<1>2. Spec => []TypeOK BY TypeCorrect
<1> QED BY <1>1, <1>2, PTL DEF Spec, PhasesMoveForward

--------------------------------------------------------------------------------
(* What the steps that post nothing and judge nothing may do               *)

\* Owners come and go, cursors advance, time passes and the pump runs: of the
\* machine only the phase may change, from a timed one to STALEMATE.
Drift ==
  /\ UNCHANGED <<round, msgs, commits, released, packets, pair, verdicts, peeked>>
  /\ phase' = phase \/ (phase \in Timed /\ phase' = "STALEMATE")

LEMMA StepShape ==
  ASSUME TypeOK, [Next]_vars
  PROVE  \/ \E f \in Acts : \E t \in Targets(f) : PostAct(f, t)
         \/ \E f \in Acts : PostControl(f)
         \/ \E o \in Orders, v \in Verdict : RecordVerdict(o, v)
         \/ \E l, r \in 1 .. Len(msgs) : PrepareOrderSwap(l, r)
         \/ \E r \in Roles : Read(r)
         \/ Drift
<1> USE DEF Drift, machine, judging
<1>1. ASSUME NEW r, NEW i, Advance(r, i) PROVE Drift BY <1>1 DEF Advance
<1>2. ASSUME NEW r, Unseat(r) \/ Seat(r) PROVE Drift BY <1>2 DEF Unseat, Seat
<1>3. ASSUME Resolve \/ PassDeadline PROVE Drift BY <1>3 DEF Resolve, PassDeadline
<1>4. ASSUME Maintain PROVE Drift BY <1>4 DEF Maintain, MoveTo, Expired
<1>5. CASE UNCHANGED vars BY <1>5 DEF vars
<1> HIDE DEF Drift
<1> QED BY <1>1, <1>2, <1>3, <1>4, <1>5 DEF Next

--------------------------------------------------------------------------------
(* The barrier                                                             *)

\* Nothing is released before the barrier falls, then everything at once; who
\* was shown the other claim has committed.
Barrier ==
  /\ phase = "BLIND_CLAIM" => released = {}
  /\ released = {} \/ (released = Blind /\ \A b \in Blind : commits[b] # 0)
  /\ phase \in {"DEBATE", "ADJUDICATE", "STOPPED"} => released = Blind
  /\ \A r \in peeked : commits[r] # 0

LEMMA BarrierHolds ==
  ASSUME TypeOK, Barrier, [Next]_vars
  PROVE  Barrier'
<1> USE DEF Barrier, machine, judging, MoveTo, Timed
<1>1. ASSUME NEW f \in Acts, NEW t \in Targets(f), PostAct(f, t) PROVE Barrier'
  <2>1. CASE f.kind = "CLAIM" /\ phase = "BLIND_CLAIM" /\ RecordBlindClaim(f)
    <3>1. f.role \in Blind /\ peeked' = peeked BY <2>1, <1>1, PostCases
    <3>2. /\ commits' = [commits EXCEPT ![f.role] = Len(msgs) + 1]
          /\ released' = released \/ released' = Blind
          /\ released' = released => phase' = phase \/ BothCommitted(commits')
          /\ released' # released => BothCommitted(commits')
          /\ phase' = phase \/ (phase' = "DEBATE" /\ released' = Blind)
          BY <2>1 DEF RecordBlindClaim
    <3>3. \A b \in Blind : /\ commits'[b] \in {commits[b], Len(msgs) + 1}
                           /\ commits[b] # 0 => commits'[b] # 0
          BY <3>1, <3>2 DEF TypeOK
    <3>4. peeked \subseteq Blind BY DEF TypeOK
    <3>5. \A r \in peeked' : commits'[r] # 0 BY <3>1, <3>3, <3>4
    <3>6. phase' = phase => released' = {}
          BY <2>1 DEF RecordBlindClaim
    <3> QED BY <2>1, <3>2, <3>5, <3>6 DEF BothCommitted
  <2>2. CASE f.kind = "VERIFY" /\ phase = "DEBATE" /\ RecordVerify(f)
        BY <2>2, <1>1, PostCases DEF RecordVerify
  <2>3. CASE /\ f.kind = "ESCALATE" /\ phase \in {"DEBATE", "ADJUDICATE", "STALEMATE"}
             /\ RecordEscalate(f)
        BY <2>3, <1>1, PostCases DEF RecordEscalate
  <2>4. CASE UNCHANGED <<machine, commits, released, packets>>
        BY <2>4, <1>1, PostCases
  <2> QED BY <2>1, <2>2, <2>3, <2>4, <1>1, PostCases
<1>2. ASSUME NEW f \in Acts, PostControl(f) PROVE Barrier' BY <1>2 DEF PostControl
<1>3. ASSUME NEW o \in Orders, NEW v \in Verdict, RecordVerdict(o, v) PROVE Barrier'
      BY <1>3 DEF RecordVerdict
<1>4. ASSUME NEW l, NEW r, PrepareOrderSwap(l, r) PROVE Barrier'
      BY <1>4 DEF PrepareOrderSwap
<1>5. ASSUME NEW r \in Roles, Read(r) PROVE Barrier'
  <2>1. PICK b \in Blind \ {r} : Visible(r, commits[b]) BY <1>5 DEF Read
  <2>2. b \in released BY <2>1 DEF Visible
  <2>3. commits[r] # 0 BY <2>2, <1>5 DEF Read
  <2> QED BY <2>3, <1>5 DEF Read
<1>6. CASE Drift BY <1>6 DEF Drift
<1> QED BY <1>1, <1>2, <1>3, <1>4, <1>5, <1>6, StepShape

\* The two initial claims are written independently, in every behaviour.
THEOREM IndependentClaims == Spec => []ClaimsIndependent
<1>1. Init => Barrier BY DEF Init, Barrier
<1>2. TypeOK /\ Barrier /\ [Next]_vars => Barrier' BY BarrierHolds
<1>3. Barrier => ClaimsIndependent BY DEF Barrier, ClaimsIndependent
<1> QED BY <1>1, <1>2, <1>3, TypeCorrect, PTL DEF Spec

--------------------------------------------------------------------------------
(* One packet for the human                                                *)

\* The packet, once made, is the one that ended the protocol.
OnePacket ==
  /\ (phase = "ESCALATED") <=> (packets # {})
  /\ packets = {} \/ \E p \in packets : packets = {p}
  /\ \A p \in packets : /\ p.msg \in 1 .. Len(msgs)
                        /\ ActOf(p.msg).kind = "ESCALATE"
                        /\ Human \in ActOf(p.msg).to

\* Packets name stored messages, which the ledger keeps.
LEMMA PacketsKept ==
  ASSUME TypeOK, OnePacket, NEW m, Stores(m), packets' = packets,
         (phase' = "ESCALATED") <=> (phase = "ESCALATED")
  PROVE  OnePacket'
<1>1. \A i \in 1 .. Len(msgs) : msgs'[i] = msgs[i] /\ i \in 1 .. Len(msgs')
      BY LedgerGrows
<1>2. \A p \in packets : ActOf(p.msg)' = ActOf(p.msg) /\ p.msg \in 1 .. Len(msgs')
      BY <1>1 DEF OnePacket, ActOf
<1> QED BY <1>2 DEF OnePacket

LEMMA OnePacketHolds ==
  ASSUME TypeOK, OnePacket, [Next]_vars
  PROVE  OnePacket'
<1> USE DEF machine, judging, MoveTo, Timed
<1>1. ASSUME NEW f \in Acts, NEW t \in Targets(f), PostAct(f, t) PROVE OnePacket'
  <2>1. Stores(RowOf(f, t, round)) BY <1>1, PostStores
  <2>2. CASE f.kind = "CLAIM" /\ phase = "BLIND_CLAIM" /\ RecordBlindClaim(f)
        BY <2>1, <2>2, PacketsKept DEF RecordBlindClaim
  <2>3. CASE f.kind = "VERIFY" /\ phase = "DEBATE" /\ RecordVerify(f)
        BY <2>1, <2>3, PacketsKept DEF RecordVerify
  <2>4. CASE /\ f.kind = "ESCALATE" /\ phase \in {"DEBATE", "ADJUDICATE", "STALEMATE"}
             /\ Human \in f.to /\ RecordEscalate(f)
    <3>1. packets = {} BY <2>4 DEF OnePacket
    <3>2. packets' = {[generation |-> version, msg |-> Len(msgs) + 1]}
          /\ phase' = "ESCALATED"
          BY <2>4, <3>1 DEF RecordEscalate
    <3>3. msgs'[Len(msgs) + 1] = RowOf(f, t, round) /\ Len(msgs') = Len(msgs) + 1
          BY <2>1, LedgerGrows
    <3>4. msgs'[Len(msgs) + 1].act = f BY <3>3 DEF RowOf
    <3>5. Len(msgs) + 1 \in 1 .. Len(msgs') BY <3>3 DEF TypeOK
    <3> QED BY <2>4, <3>2, <3>4, <3>5 DEF OnePacket, ActOf
  <2>5. CASE UNCHANGED <<machine, commits, released, packets>>
        BY <2>1, <2>5, PacketsKept
  <2> QED BY <2>2, <2>3, <2>4, <2>5, <1>1, PostCases
<1>2. ASSUME NEW f \in Acts, PostControl(f) PROVE OnePacket'
      BY <1>2, ControlStores, PacketsKept DEF PostControl
<1>3. ASSUME NEW o \in Orders, NEW v \in Verdict, RecordVerdict(o, v) PROVE OnePacket'
      BY <1>3 DEF RecordVerdict, OnePacket, ActOf
<1>4. ASSUME NEW l, NEW r, PrepareOrderSwap(l, r) PROVE OnePacket'
      BY <1>4 DEF PrepareOrderSwap, OnePacket, ActOf
<1>5. ASSUME NEW r, Read(r) PROVE OnePacket' BY <1>5 DEF Read, OnePacket, ActOf
<1>6. CASE Drift BY <1>6 DEF Drift, OnePacket, ActOf
<1> QED BY <1>1, <1>2, <1>3, <1>4, <1>5, <1>6, StepShape

\* A human is asked once, by an ESCALATE addressed to them, and that is the end.
THEOREM HumanAskedOnce == Spec => []OneHumanPacket
<1>1. Init => OnePacket BY DEF Init, OnePacket
<1>2. TypeOK /\ OnePacket /\ [Next]_vars => OnePacket' BY OnePacketHolds
<1>3. OnePacket => OneHumanPacket
  <2> SUFFICES ASSUME OnePacket PROVE OneHumanPacket OBVIOUS
  <2>1. Cardinality(packets) \leq 1
    <3>1. CASE packets = {} BY <3>1, FS_EmptySet
    <3>2. ASSUME NEW p \in packets, packets = {p} PROVE Cardinality(packets) \leq 1
      <4>1. Cardinality({p}) = 1 BY FS_Singleton
      <4> QED BY <3>2, <4>1
    <3> QED BY <3>1, <3>2 DEF OnePacket
  <2> QED BY <2>1 DEF OnePacket, OneHumanPacket
<1> QED BY <1>1, <1>2, <1>3, TypeCorrect, PTL DEF Spec

--------------------------------------------------------------------------------
(* Settled debates                                                         *)

\* Messages of kinds that neither challenge nor answer leave the open challenges.
LEMMA UnresolvedKept ==
  ASSUME TypeOK, NEW m, Stores(m), m.act.kind \notin {"CHALLENGE", "REBUT", "CONCEDE"}
  PROVE  Unresolved' = Unresolved
<1>1. \A i \in 1 .. Len(msgs) : msgs'[i] = msgs[i] BY LedgerGrows
<1>2. OfKind({"CHALLENGE"})' = OfKind({"CHALLENGE"}) BY OfKindGrows
<1>3. OfKind({"REBUT", "CONCEDE"})' = OfKind({"REBUT", "CONCEDE"}) BY OfKindGrows
<1>4. \A d \in OfKind({"REBUT", "CONCEDE"}) : msgs'[d] = msgs[d] BY <1>1 DEF OfKind
<1> QED BY <1>2, <1>3, <1>4 DEF Unresolved

\* What an adjudicated debate rests on is never touched again.
LEMMA SettledKept ==
  ASSUME TypeOK, AdjudicatedIsSettled, NEW m, Stores(m),
         m.act.kind \notin {"CHALLENGE", "REBUT", "CONCEDE"}, round' = round,
         phase' \in {"ADJUDICATE", "STOPPED"} => phase \in {"ADJUDICATE", "STOPPED"}
  PROVE  AdjudicatedIsSettled'
<1> SUFFICES ASSUME phase' \in {"ADJUDICATE", "STOPPED"}
             PROVE  /\ Unresolved' = {}
                    /\ \E i \in Verifications' :
                         ActOf(i)'.result = "verified" /\ msgs'[i].round = round'
    BY DEF AdjudicatedIsSettled
<1>1. PICK i \in Verifications : ActOf(i).result = "verified" /\ msgs[i].round = round
      BY DEF AdjudicatedIsSettled
<1>2. i \in 1 .. Len(msgs) BY DEF Verifications, OfKind
<1>3. msgs'[i] = msgs[i] BY <1>2, LedgerGrows
<1>4. i \in Verifications' BY OfKindGrows DEF Verifications
<1>5. Unresolved' = {} BY UnresolvedKept DEF AdjudicatedIsSettled
<1> QED BY <1>1, <1>3, <1>4, <1>5 DEF ActOf

LEMMA SettledHolds ==
  ASSUME TypeOK, AdjudicatedIsSettled, [Next]_vars
  PROVE  AdjudicatedIsSettled'
<1> USE DEF machine, judging, MoveTo, Timed
<1>1. ASSUME NEW f \in Acts, NEW t \in Targets(f), PostAct(f, t)
      PROVE  AdjudicatedIsSettled'
  <2>1. Stores(RowOf(f, t, round)) BY <1>1, PostStores
  <2>2. RowOf(f, t, round).act = f BY DEF RowOf
  <2>3. CASE phase' \notin {"ADJUDICATE", "STOPPED"} BY <2>3 DEF AdjudicatedIsSettled
  <2>4. CASE f.kind = "VERIFY" /\ RecordVerify(f) /\ phase' \in {"ADJUDICATE", "STOPPED"}
    <3>1. Settles(f) /\ round' = round BY <2>4 DEF RecordVerify
    <3>2. Unresolved' = {} BY <2>1, <2>2, <2>4, <3>1, UnresolvedKept DEF Settles
    <3>3. Len(msgs) + 1 \in Verifications'
          BY <2>1, <2>2, <2>4, OfKindGrows DEF Verifications
    <3>4. msgs'[Len(msgs) + 1] = RowOf(f, t, round) BY <2>1, LedgerGrows
    <3>5. msgs'[Len(msgs) + 1].act.result = "verified" /\ msgs'[Len(msgs) + 1].round = round
          BY <3>1, <3>4 DEF RowOf, Settles
    <3> QED BY <3>1, <3>2, <3>3, <3>5 DEF AdjudicatedIsSettled, ActOf
  <2>5. CASE phase' \in {"ADJUDICATE", "STOPPED"} /\ ~RecordVerify(f)
    <3>1. FALSE BY <1>1, <2>5, PostCases DEF RecordBlindClaim, RecordEscalate
    <3> QED BY <3>1
  <2>6. RecordVerify(f) /\ phase' \in {"ADJUDICATE", "STOPPED"} => f.kind = "VERIFY"
        BY <1>1, PostCases DEF RecordBlindClaim, RecordEscalate
  <2> QED BY <2>3, <2>4, <2>5, <2>6
<1>2. ASSUME NEW f \in Acts, PostControl(f) PROVE AdjudicatedIsSettled'
  <2>1. Stores(RowOf(f, 0, 0)) /\ RowOf(f, 0, 0).act = f
        BY <1>2, ControlStores DEF RowOf
  <2> QED BY <2>1, <1>2, SettledKept DEF PostControl
<1>3. ASSUME NEW o \in Orders, NEW v \in Verdict, RecordVerdict(o, v)
      PROVE  AdjudicatedIsSettled'
      BY <1>3 DEF RecordVerdict, AdjudicatedIsSettled, Unresolved, Verifications, OfKind, ActOf
<1>4. ASSUME NEW l, NEW r, PrepareOrderSwap(l, r) PROVE AdjudicatedIsSettled'
      BY <1>4 DEF PrepareOrderSwap, AdjudicatedIsSettled, Unresolved, Verifications,
                  OfKind, ActOf
<1>5. ASSUME NEW r, Read(r) PROVE AdjudicatedIsSettled'
      BY <1>5 DEF Read, AdjudicatedIsSettled, Unresolved, Verifications, OfKind, ActOf
<1>6. CASE Drift
      BY <1>6 DEF Drift, AdjudicatedIsSettled, Unresolved, Verifications, OfKind, ActOf
<1> QED BY <1>1, <1>2, <1>3, <1>4, <1>5, <1>6, StepShape

\* Nothing reaches the judge with a challenge still open, in any behaviour.
THEOREM SettledBeforeJudged == Spec => []AdjudicatedIsSettled
<1>1. Init => AdjudicatedIsSettled BY DEF Init, AdjudicatedIsSettled
<1>2. TypeOK /\ AdjudicatedIsSettled /\ [Next]_vars => AdjudicatedIsSettled'
      BY SettledHolds
<1> QED BY <1>1, <1>2, TypeCorrect, PTL DEF Spec

--------------------------------------------------------------------------------
(* Verdicts                                                                *)

\* Verdicts exist for a stored pair of opposing positions only, never come from an
\* opposing role, and the stopping pair agrees.
PairJudged ==
  /\ pair = <<>> => \A o \in Orders : verdicts[o] = NoVerdict
  /\ pair # <<>> => /\ pair[1] \in 1 .. Len(msgs) /\ pair[2] \in 1 .. Len(msgs)
                    /\ {ActOf(pair[1]).role, ActOf(pair[2]).role} = Blind
  /\ \A o \in Orders : verdicts[o] # NoVerdict => verdicts[o].judge \notin Blind
  /\ phase = "STOPPED" => /\ \A o \in Orders : verdicts[o] # NoVerdict
                          /\ verdicts["AB"] = verdicts["BA"]

LEMMA JudgedKept ==
  ASSUME TypeOK, PairJudged, NEW m, Stores(m), UNCHANGED <<pair, verdicts>>,
         phase' = "STOPPED" => phase = "STOPPED"
  PROVE  PairJudged'
<1>1. \A i \in 1 .. Len(msgs) : msgs'[i] = msgs[i] /\ i \in 1 .. Len(msgs')
      BY LedgerGrows
<1>2. CASE pair = <<>> BY <1>2 DEF PairJudged
<1>3. CASE pair # <<>> BY <1>1, <1>3 DEF PairJudged, ActOf
<1> QED BY <1>2, <1>3

LEMMA JudgedHolds ==
  ASSUME TypeOK, PairJudged, [Next]_vars
  PROVE  PairJudged'
<1> USE DEF machine, judging, MoveTo, Timed
<1>1. ASSUME NEW f \in Acts, NEW t \in Targets(f), PostAct(f, t) PROVE PairJudged'
  <2>1. Stores(RowOf(f, t, round)) BY <1>1, PostStores
  <2>2. UNCHANGED <<pair, verdicts>> BY <1>1, PostCases
  <2>3. phase' = "STOPPED" => phase = "STOPPED"
        BY <1>1, PostCases DEF RecordBlindClaim, RecordVerify, RecordEscalate
  <2> QED BY <2>1, <2>2, <2>3, JudgedKept
<1>2. ASSUME NEW f \in Acts, PostControl(f) PROVE PairJudged'
      BY <1>2, ControlStores, JudgedKept DEF PostControl
<1>3. ASSUME NEW o \in Orders, NEW v \in Verdict, RecordVerdict(o, v) PROVE PairJudged'
  <2>1. v.judge \notin Blind BY <1>3 DEF RecordVerdict, JudgeValid
  <2>2. \A p \in Orders : verdicts'[p] = IF p = o THEN v ELSE verdicts[p]
        BY <1>3 DEF RecordVerdict, TypeOK
  <2>3. pair' = pair /\ msgs' = msgs /\ pair # <<>> BY <1>3 DEF RecordVerdict
  <2>4. phase' = "STOPPED" => /\ \A p \in Orders : verdicts'[p] # NoVerdict
                             /\ verdicts'["AB"] = verdicts'["BA"]
        BY <1>3 DEF RecordVerdict, Agree
  <2> QED BY <2>1, <2>2, <2>3, <2>4 DEF PairJudged, ActOf
<1>4. ASSUME NEW l \in 1 .. Len(msgs), NEW r \in 1 .. Len(msgs), PrepareOrderSwap(l, r)
      PROVE  PairJudged'
  <2>1. pair' = <<l, r>> /\ pair' # <<>> BY <1>4 DEF PrepareOrderSwap
  <2>2. UNCHANGED <<phase, verdicts, msgs>> /\ pair = <<>> BY <1>4 DEF PrepareOrderSwap
  <2>3. {ActOf(l).role, ActOf(r).role} = Blind BY <1>4 DEF PrepareOrderSwap
  <2> QED BY <2>1, <2>2, <2>3 DEF PairJudged, ActOf
<1>5. ASSUME NEW r, Read(r) PROVE PairJudged' BY <1>5 DEF Read, PairJudged, ActOf
<1>6. CASE Drift BY <1>6 DEF Drift, PairJudged, ActOf
<1> QED BY <1>1, <1>2, <1>3, <1>4, <1>5, <1>6, StepShape

\* The protocol stops on an agreement between the two orders and on nothing else.
THEOREM StopsByAgreement == Spec => []StoppedByAgreement
<1>1. Init => PairJudged BY DEF Init, PairJudged
<1>2. TypeOK /\ PairJudged /\ [Next]_vars => PairJudged' BY JudgedHolds
<1>3. PairJudged => StoppedByAgreement
  <2> SUFFICES ASSUME PairJudged, phase = "STOPPED" PROVE StoppedByAgreement
      BY DEF StoppedByAgreement
  <2>1. "AB" \in Orders BY DEF Orders
  <2> QED BY <2>1 DEF PairJudged, StoppedByAgreement
<1> QED BY <1>1, <1>2, <1>3, TypeCorrect, PTL DEF Spec

--------------------------------------------------------------------------------
(* Rounds                                                                  *)

\* The round counts the verifications, all of earlier rounds while it is open.
VerifiesCounted ==
  /\ phase \in {"BLIND_CLAIM", "DEBATE"} =>
       /\ Cardinality(Verifications) = round - 1
       /\ \A i \in Verifications : msgs[i].round < round
  /\ \A i, j \in Verifications : msgs[i].round = msgs[j].round => i = j

LEMMA RoundsKept ==
  ASSUME TypeOK, VerifiesCounted, NEW m, Stores(m), m.act.kind # "VERIFY", round' = round,
         phase' \in {"BLIND_CLAIM", "DEBATE"} => phase \in {"BLIND_CLAIM", "DEBATE"}
  PROVE  VerifiesCounted'
<1>1. Verifications' = Verifications BY OfKindGrows DEF Verifications
<1>2. \A i \in Verifications : msgs'[i] = msgs[i]
      BY LedgerGrows DEF Verifications, OfKind
<1> QED BY <1>1, <1>2 DEF VerifiesCounted

LEMMA VerifyKeepsRounds ==
  ASSUME TypeOK, VerifiesCounted, NEW f \in Acts, NEW t \in Targets(f), PostAct(f, t),
         f.kind = "VERIFY", phase = "DEBATE", RecordVerify(f)
  PROVE  VerifiesCounted'
<1> DEFINE n == Len(msgs) + 1
<1>1. Stores(RowOf(f, t, round)) BY PostStores
<1>2. Verifications' = Verifications \cup {n}
      BY <1>1, OfKindGrows DEF Verifications, RowOf
<1>3. n \notin Verifications /\ IsFiniteSet(Verifications)
  <2>1. Len(msgs) \in Nat BY DEF TypeOK
  <2>2. Verifications \subseteq 1 .. Len(msgs) BY DEF Verifications, OfKind
  <2>3. IsFiniteSet(1 .. Len(msgs)) BY <2>1, FS_Interval
  <2>4. n \notin Verifications BY <2>1, <2>2
  <2>5. IsFiniteSet(Verifications) BY <2>2, <2>3, FS_Subset
  <2> QED BY <2>4, <2>5
<1>4. Cardinality(Verifications') = Cardinality(Verifications) + 1
      BY <1>2, <1>3, FS_AddElement
<1>5. \A i \in Verifications : msgs'[i] = msgs[i]
      BY <1>1, LedgerGrows DEF Verifications, OfKind
<1>6. msgs'[n].round = round BY <1>1, LedgerGrows DEF RowOf
<1>7. \A i, j \in Verifications' : msgs'[i].round = msgs'[j].round => i = j
  <2>1. \A i \in Verifications : msgs'[i].round < round /\ msgs'[i].round \in Nat
    <3>1. \A i \in Verifications : msgs[i] \in Message
          BY DEF TypeOK, Verifications, OfKind
    <3>2. \A i \in Verifications : msgs[i].round < round BY DEF VerifiesCounted
    <3>3. \A m \in Message : m.round \in Nat BY BoundsAssumption DEF Message
    <3> QED BY <1>5, <3>1, <3>2, <3>3
  <2>2. round \in Nat BY DEF TypeOK
  <2> QED BY <1>2, <1>5, <1>6, <2>1, <2>2 DEF VerifiesCounted
<1>8. phase' = "DEBATE" \/ phase' \in {"ADJUDICATE", "STALEMATE"} BY DEF RecordVerify, MoveTo
<1>9. ASSUME phase' = "DEBATE"
      PROVE  /\ Cardinality(Verifications') = round' - 1
             /\ \A i \in Verifications' : msgs'[i].round < round'
  <2>1. round' = round + 1 BY <1>9 DEF RecordVerify, MoveTo
  <2>2. round \in Nat /\ Cardinality(Verifications) = round - 1 BY DEF TypeOK, VerifiesCounted
  <2>3. \A i \in Verifications : msgs[i].round < round /\ msgs[i].round \in Nat
    <3>1. \A i \in Verifications : msgs[i] \in Message
          BY DEF TypeOK, Verifications, OfKind
    <3> QED BY <3>1, BoundsAssumption DEF VerifiesCounted, Message
  <2> QED BY <2>1, <2>2, <2>3, <1>2, <1>4, <1>5, <1>6
<1> QED BY <1>7, <1>8, <1>9 DEF VerifiesCounted

LEMMA RoundsHolds ==
  ASSUME TypeOK, VerifiesCounted, [Next]_vars
  PROVE  VerifiesCounted'
<1> USE DEF machine, judging, MoveTo, Timed
<1>1. ASSUME NEW f \in Acts, NEW t \in Targets(f), PostAct(f, t) PROVE VerifiesCounted'
  <2>1. Stores(RowOf(f, t, round)) /\ RowOf(f, t, round).act = f
        BY <1>1, PostStores DEF RowOf
  <2>2. CASE f.kind = "VERIFY" BY <1>1, <2>2, PostCases, VerifyKeepsRounds
  <2>3. CASE f.kind # "VERIFY"
    <3>1. round' = round /\ (phase' \in {"BLIND_CLAIM", "DEBATE"} =>
                             phase \in {"BLIND_CLAIM", "DEBATE"})
          BY <1>1, <2>3, PostCases DEF RecordBlindClaim, RecordEscalate
    <3> QED BY <2>1, <2>3, <3>1, RoundsKept
  <2> QED BY <2>2, <2>3
<1>2. ASSUME NEW f \in Acts, PostControl(f) PROVE VerifiesCounted'
  <2>1. Stores(RowOf(f, 0, 0)) /\ RowOf(f, 0, 0).act = f
        BY <1>2, ControlStores DEF RowOf
  <2> QED BY <2>1, <1>2, RoundsKept DEF PostControl
<1>3. ASSUME NEW o \in Orders, NEW v \in Verdict, RecordVerdict(o, v) PROVE VerifiesCounted'
      BY <1>3 DEF RecordVerdict, VerifiesCounted, Verifications, OfKind, ActOf
<1>4. ASSUME NEW l, NEW r, PrepareOrderSwap(l, r) PROVE VerifiesCounted'
      BY <1>4 DEF PrepareOrderSwap, VerifiesCounted, Verifications, OfKind, ActOf
<1>5. ASSUME NEW r, Read(r) PROVE VerifiesCounted'
      BY <1>5 DEF Read, VerifiesCounted, Verifications, OfKind, ActOf
<1>6. CASE Drift BY <1>6 DEF Drift, VerifiesCounted, Verifications, OfKind, ActOf
<1> QED BY <1>1, <1>2, <1>3, <1>4, <1>5, <1>6, StepShape

\* Each round is closed by one verification, and no order of acts passes the cap.
THEOREM RoundsAreCounted == Spec => []RoundCountsVerifies
<1>1. Init => VerifiesCounted
  <2> SUFFICES ASSUME Init PROVE VerifiesCounted OBVIOUS
  <2>1. Verifications = {} BY DEF Init, Verifications, OfKind
  <2> QED BY <2>1, FS_EmptySet DEF Init, VerifiesCounted
<1>2. TypeOK /\ VerifiesCounted /\ [Next]_vars => VerifiesCounted' BY RoundsHolds
<1>3. TypeOK /\ VerifiesCounted => RoundCountsVerifies
      BY BoundsAssumption DEF TypeOK, VerifiesCounted, RoundCountsVerifies
<1> QED BY <1>1, <1>2, <1>3, TypeCorrect, PTL DEF Spec

--------------------------------------------------------------------------------
(* The inbox of the protocol                                               *)

\* DebateChannel_proofs about the inbox of the role with two sessions.
InboxProofs == INSTANCE DebateChannel_proofs WITH
  Sessions <- {s1, s2}, Owning <- {s1}, Diagnosing <- {}, V1 <- TRUE, Overridden <- FALSE,
  Forms <- {F("plain", FALSE), F("standing", FALSE), F("plain", TRUE)},
  Limit <- 1, MaxMsgs <- 3,
  msgs <- cMsgs, released <- cReleased, cursor <- cCursor

\* The inbox and the one the proofs are about are the same, part by part.
LEMMA SameCardinality ==
  ASSUME NEW S
  PROVE  Inbox!Cardinality(S) = InboxProofs!Cardinality(S)
  BY DEF Inbox!Cardinality, InboxProofs!Cardinality

LEMMA SamePage ==
  ASSUME NEW S
  PROVE  Inbox!Page(S) = InboxProofs!Page(S)
  BY SameCardinality
  DEF Inbox!Page, InboxProofs!Page

LEMMA SameLast ==
  ASSUME NEW S
  PROVE  Inbox!Last(S) = InboxProofs!Last(S)
  BY DEF Inbox!Last, InboxProofs!Last

LEMMA SameLater ==
  ASSUME NEW i, NEW j
  PROVE  Inbox!Later(i, j) = InboxProofs!Later(i, j)
  BY DEF Inbox!Later, InboxProofs!Later

LEMMA SamePosted ==
  Inbox!Posted = InboxProofs!Posted
  BY DEF Inbox!Posted, InboxProofs!Posted

LEMMA SameVisible ==
  ASSUME NEW i
  PROVE  Inbox!Visible(i) <=> InboxProofs!Visible(i)
  BY DEF Inbox!Visible, InboxProofs!Visible

LEMMA SameOneShot ==
  ASSUME NEW i
  PROVE  Inbox!OneShot(i) <=> InboxProofs!OneShot(i)
  BY DEF Inbox!OneShot, InboxProofs!OneShot

LEMMA SameRecipients ==
  ASSUME NEW s
  PROVE  Inbox!RecipientsOf(s) = InboxProofs!RecipientsOf(s)
  BY DEF Inbox!RecipientsOf, InboxProofs!RecipientsOf, Inbox!Bound,
      InboxProofs!Bound, Inbox!Owners, InboxProofs!Owners

LEMMA SameReconciled ==
  ASSUME NEW s, NEW wm
  PROVE  Inbox!Reconciled(s, wm) = InboxProofs!Reconciled(s, wm)
  BY DEF Inbox!Reconciled, InboxProofs!Reconciled, Inbox!Projected,
      InboxProofs!Projected, Inbox!AddressedTo, InboxProofs!AddressedTo,
      Inbox!Posted, InboxProofs!Posted, Inbox!Visible, InboxProofs!Visible,
      Inbox!Owners, InboxProofs!Owners, Inbox!Last, InboxProofs!Last

LEMMA SameRows ==
  ASSUME NEW s, NEW c, NEW from
  PROVE  Inbox!Inbox(s, c, from) = InboxProofs!Inbox(s, c, from)
  BY DEF Inbox!Inbox, InboxProofs!Inbox, Inbox!AddressedTo,
      InboxProofs!AddressedTo, Inbox!Posted, InboxProofs!Posted, Inbox!Visible,
      InboxProofs!Visible, Inbox!RecipientsOf, InboxProofs!RecipientsOf,
      Inbox!Bound, InboxProofs!Bound, Inbox!Owners, InboxProofs!Owners,
      Inbox!Taken, InboxProofs!Taken, Inbox!OneShot, InboxProofs!OneShot,
      Inbox!PastCursor, InboxProofs!PastCursor

LEMMA SameAnswered ==
  ASSUME NEW P
  PROVE  Inbox!Answered(P) = InboxProofs!Answered(P)
  BY DEF Inbox!Answered, InboxProofs!Answered, Inbox!OneShot, InboxProofs!OneShot

LEMMA SameClaims ==
  ASSUME NEW s, NEW P
  PROVE  Inbox!ClaimsAfter(s, P) = InboxProofs!ClaimsAfter(s, P)
  BY DEF Inbox!ClaimsAfter, InboxProofs!ClaimsAfter, Inbox!Answered,
      InboxProofs!Answered, Inbox!OneShot, InboxProofs!OneShot, Inbox!Msgs,
      InboxProofs!Msgs

LEMMA SameCheck ==
  ASSUME NEW s, NEW from
  PROVE  Inbox!Check(s, from) <=> InboxProofs!Check(s, from)
  BY SamePage, SameLast, SameLater, SamePosted, SameVisible, SameOneShot,
     SameRecipients, SameReconciled, SameRows, SameAnswered, SameClaims
  DEF Inbox!Check, InboxProofs!Check

LEMMA SameAdvance ==
  ASSUME NEW s, NEW i
  PROVE  Inbox!Advance(s, i) <=> InboxProofs!Advance(s, i)
  BY DEF Inbox!Advance, InboxProofs!Advance, Inbox!RecipientsOf,
      InboxProofs!RecipientsOf, Inbox!Bound, InboxProofs!Bound, Inbox!Owners,
      InboxProofs!Owners, Inbox!AddressedTo, InboxProofs!AddressedTo,
      Inbox!Posted, InboxProofs!Posted, Inbox!Visible, InboxProofs!Visible,
      Inbox!WasDelivered, InboxProofs!WasDelivered, Inbox!Later,
      InboxProofs!Later

LEMMA SamePost ==
  ASSUME NEW f
  PROVE  Inbox!Post(f) <=> InboxProofs!Post(f)
  BY DEF Inbox!Post, InboxProofs!Post, Inbox!MayAddress, InboxProofs!MayAddress,
      Inbox!history, InboxProofs!history

LEMMA SameRelease ==
  Inbox!Release <=> InboxProofs!Release
  BY DEF Inbox!Release, InboxProofs!Release, Inbox!history, InboxProofs!history

LEMMA SameWatermark ==
  ASSUME NEW i
  PROVE  Inbox!WatermarkPost(i) <=> InboxProofs!WatermarkPost(i)
  BY DEF Inbox!WatermarkPost, InboxProofs!WatermarkPost, Inbox!Reconciled,
      InboxProofs!Reconciled, Inbox!Projected, InboxProofs!Projected,
      Inbox!AddressedTo, InboxProofs!AddressedTo, Inbox!Posted,
      InboxProofs!Posted, Inbox!Visible, InboxProofs!Visible, Inbox!Owners,
      InboxProofs!Owners, Inbox!Last, InboxProofs!Last, Inbox!Later,
      InboxProofs!Later

LEMMA SameAnswer ==
  ASSUME NEW i
  PROVE  Inbox!Answer(i) <=> InboxProofs!Answer(i)
  BY DEF Inbox!Answer, InboxProofs!Answer, Inbox!Posted, InboxProofs!Posted,
      Inbox!Visible, InboxProofs!Visible, Inbox!OneShot, InboxProofs!OneShot,
      Inbox!history, InboxProofs!history

LEMMA SameReclaim ==
  ASSUME NEW K
  PROVE  Inbox!Reclaim(K) <=> InboxProofs!Reclaim(K)
  BY DEF Inbox!Reclaim, InboxProofs!Reclaim, Inbox!Lent, InboxProofs!Lent,
      Inbox!Msgs, InboxProofs!Msgs

LEMMA SameLent ==
  Inbox!Lent = InboxProofs!Lent
  BY DEF Inbox!Lent, InboxProofs!Lent, Inbox!Msgs, InboxProofs!Msgs

LEMMA SameBindActive ==
  ASSUME NEW s
  PROVE  Inbox!BindActive(s) <=> InboxProofs!BindActive(s)
  BY DEF Inbox!BindActive, InboxProofs!BindActive, Inbox!Rebind,
      InboxProofs!Rebind, Inbox!Replaced, InboxProofs!Replaced, Inbox!Owners,
      InboxProofs!Owners

LEMMA SameStartsAt ==
  ASSUME NEW old, NEW mode
  PROVE  Inbox!StartsAt(old, mode) = InboxProofs!StartsAt(old, mode)
  BY DEF Inbox!StartsAt, InboxProofs!StartsAt, Inbox!Posted, InboxProofs!Posted

LEMMA SameRotate ==
  ASSUME NEW old, NEW new, NEW mode
  PROVE  Inbox!Rotate(old, new, mode) <=> InboxProofs!Rotate(old, new, mode)
  BY SameStartsAt, SameLater
  DEF Inbox!Rotate, InboxProofs!Rotate, Inbox!Replaced, InboxProofs!Replaced,
      Inbox!Owners, InboxProofs!Owners

LEMMA SameBindDiagnostic ==
  ASSUME NEW s
  PROVE  Inbox!BindDiagnostic(s) <=> InboxProofs!BindDiagnostic(s)
  BY DEF Inbox!BindDiagnostic, InboxProofs!BindDiagnostic, Inbox!Rebind,
      InboxProofs!Rebind, Inbox!Owners, InboxProofs!Owners

LEMMA SameBindRetired ==
  ASSUME NEW s
  PROVE  Inbox!BindRetired(s) <=> InboxProofs!BindRetired(s)
  BY DEF Inbox!BindRetired, InboxProofs!BindRetired, Inbox!Rebind,
      InboxProofs!Rebind, Inbox!Owners, InboxProofs!Owners, Inbox!Bound,
      InboxProofs!Bound

LEMMA SameSweep ==
  ASSUME NEW s
  PROVE  Inbox!Sweep(s) <=> InboxProofs!Sweep(s)
  BY DEF Inbox!Sweep, InboxProofs!Sweep, Inbox!Rebind, InboxProofs!Rebind,
      Inbox!Owners, InboxProofs!Owners, Inbox!Bound, InboxProofs!Bound,
      Inbox!Fresh, InboxProofs!Fresh, Inbox!Inherited, InboxProofs!Inherited,
      Inbox!Last, InboxProofs!Last

LEMMA SameComplete ==
  ASSUME NEW i
  PROVE  Inbox!Complete(i) <=> InboxProofs!Complete(i)
  BY DEF Inbox!Complete, InboxProofs!Complete, Inbox!Posted, InboxProofs!Posted,
      Inbox!Visible, InboxProofs!Visible, Inbox!RecipientAcknowledged,
      InboxProofs!RecipientAcknowledged, Inbox!RoleReaders,
      InboxProofs!RoleReaders, Inbox!Owners, InboxProofs!Owners, Inbox!history,
      InboxProofs!history

LEMMA SameNext ==
  Inbox!Next <=> InboxProofs!Next
  BY SameCheck, SameAdvance, SamePost, SameRelease, SameWatermark, SameAnswer,
     SameReclaim, SameLent, SameBindActive, SameBindDiagnostic, SameBindRetired,
     SameSweep, SameRotate, SameComplete
  DEF Inbox!Next, InboxProofs!Next, Inbox!Inboxes, InboxProofs!Inboxes,
      Inbox!Ledger, InboxProofs!Ledger, Inbox!Bindings, InboxProofs!Bindings,
      Inbox!Modes, InboxProofs!Modes, Inbox!Queue, InboxProofs!Queue, Inbox!Msgs,
      InboxProofs!Msgs

LEMMA SameInit ==
  Inbox!Init <=> InboxProofs!Init
  BY DEF Inbox!Init, InboxProofs!Init, Inbox!Msgs, InboxProofs!Msgs

LEMMA SameVars ==
  Inbox!vars = InboxProofs!vars
  BY DEF Inbox!vars, InboxProofs!vars, Inbox!history, InboxProofs!history

LEMMA SameMissesNothing ==
  Inbox!OwnerMissesNothing <=> InboxProofs!OwnerMissesNothing
  BY DEF Inbox!OwnerMissesNothing, InboxProofs!OwnerMissesNothing, Inbox!Owners,
      InboxProofs!Owners, Inbox!RoleMessages, InboxProofs!RoleMessages,
      Inbox!Posted, InboxProofs!Posted

\* The role, the sessions and the values of a claim are different.
InboxConstants ==
  /\ Role \notin {s1, s2} /\ Nobody \notin {s1, s2} /\ Done \notin {s1, s2}
  /\ Nobody # Done

\* debate/v1, whichever part of the topic is at work: the owner of the role
\* leaves no message behind its cursor that it was neither shown nor covered by
\* a WATERMARK (signal_check hands out pages, signal_advance moves the cursor,
\* WATERMARK drags it along).
THEOREM InboxMissesNothing ==
  ASSUME InboxConstants
  PROVE  PartsSpec => []OwnerMissesNothing
<1>1. InboxProofs!ConstantsAssumption
  <2>1. IsFiniteSet({s1}) BY FS_Singleton
  <2>2. IsFiniteSet({s1} \cup {s2}) BY <2>1, FS_AddElement
  <2>3. {s1} \cup {s2} = {s1, s2} OBVIOUS
  <2>4. IsFiniteSet({s1, s2}) BY <2>2, <2>3
  <2>5. InboxProofs!IsFiniteSet({s1, s2})
    BY <2>4 DEF IsFiniteSet, InboxProofs!IsFiniteSet
  <2> QED BY <2>5 DEF InboxConstants, InboxProofs!ConstantsAssumption
<1>2. InboxProofs!FormsAssumption
  BY DEF InboxProofs!FormsAssumption, InboxProofs!Form, InboxProofs!Sorts, F
<1>3. InboxProofs!Spec => []InboxProofs!OwnerMissesNothing
  BY <1>1, <1>2, InboxProofs!NothingMissed
<1>4. PartsInit => InboxProofs!Init BY SameInit DEF PartsInit
<1>5. [RoundsStep \/ JudgeStep \/ InboxStep]_<<vars, part, inbox>>
        => [InboxProofs!Next]_InboxProofs!vars
  <2>1. CASE InboxStep BY <2>1, SameNext DEF InboxStep
  <2>2. CASE UNCHANGED inbox BY <2>2 DEF inbox, InboxProofs!vars, InboxProofs!history
  <2> QED BY <2>1, <2>2 DEF RoundsStep, JudgeStep
<1>6. PartsSpec => InboxProofs!Spec BY <1>4, <1>5, PTL DEF PartsSpec, InboxProofs!Spec
<1>7. InboxProofs!OwnerMissesNothing => OwnerMissesNothing
  BY SameMissesNothing DEF OwnerMissesNothing
<1> QED BY <1>3, <1>6, <1>7, PTL
================================================================================
