----------------------------- MODULE DebateProtocol -----------------------------
(***************************************************************************)
(* The debate/v1 micro-state of one topic (debate_protocol_v1.py).         *)
(*                                                                         *)
(* Two opposing roles commit a CLAIM each behind a barrier, then debate in *)
(* numbered rounds closed by VERIFY; a settled debate is adjudicated by a  *)
(* judge who sees the positions in both orders, everything else ends in    *)
(* STALEMATE and at most one ESCALATE packet for a human.  The pump ends   *)
(* overdue phases and rebinds roles nobody owns.                           *)
(*                                                                         *)
(* Every handler runs under BEGIN IMMEDIATE: preflight_post, the INSERT    *)
(* and record_post are one action.  Time is the deadline's three values;   *)
(* payloads are the two things the server compares, a VERIFY's result and  *)
(* whether two payloads are the same text.  The author of a semantic act   *)
(* is the role's bound session; bindings and workers in full are           *)
(* DebateOwnership.                                                        *)
(***************************************************************************)
EXTENDS Naturals, FiniteSets, Sequences

CONSTANTS
  Roles,        \* declared roles of the topic, without humans
  Blind,        \* the two opposing roles
  Recoverable,  \* roles the sweep may rebind: all but EXECUTOR_N
  Seated,       \* roles bound when the topic was created
  Movable,      \* roles whose owner the operators change
  Human,        \* a human recipient
  Acts,         \* shapes of the messages posted in this instance
  Decisions,    \* the decisions a verdict may state
  MaxRounds,
  MaxMsgs       \* bound on the ledger

TurnKinds     == {"CLAIM", "CHALLENGE", "EVIDENCE", "REBUT", "CONCEDE", "VERIFY"}
SemanticKinds == TurnKinds \cup {"DISSENT", "ESCALATE"}
Kinds         == SemanticKinds \cup {"PING"}   \* PING stands for control kinds
Results       == {"verified", "contested"}
Phases        == {"BLIND_CLAIM", "DEBATE", "ADJUDICATE", "STALEMATE",
                  "ESCALATED", "STOPPED"}
Timed         == {"BLIND_CLAIM", "DEBATE", "ADJUDICATE"}
Orders        == {"AB", "BA"}
Msgs          == 1 .. MaxMsgs

\* An act: kind, VERIFY result, which payload text, H priority, addressees.
ActSet  == [role : Roles, kind : Kinds, result : Results, text : Nat,
            urgent : BOOLEAN, to : SUBSET (Roles \cup {Human})]
Message == [act : Acts, reply : 0 .. MaxMsgs, round : 0 .. MaxRounds]
NoVerdict == [winner |-> 0]
Verdict   == [winner : Msgs, decision : Decisions, judge : Roles]

ASSUME RolesAssumption ==
  /\ Blind \subseteq Roles /\ Cardinality(Blind) = 2
  /\ Recoverable \subseteq Roles /\ Seated \subseteq Roles
  /\ Movable \subseteq Roles
  /\ Human \notin Roles

ASSUME BoundsAssumption ==
  MaxRounds \in Nat \ {0} /\ MaxMsgs \in Nat

ASSUME ActsAssumption == Acts \subseteq ActSet

VARIABLES
  topic,      \* debates.state
  phase, round, version, deadline,   \* debate_protocol_state
  msgs,       \* debate_messages
  commits,    \* debate_blind_commits.msg_id, 0 when absent
  released,   \* the roles whose commit has a released_at
  packets,    \* debate_human_packets
  pair,       \* the positions of the AB projection, <<>> when absent
  verdicts,   \* debate_judge_projections.verdict_json, judge_role
  bound,      \* roles with an active binding
  cursor,     \* debate_signal_state of the role's owner
  peeked      \* history: opposing roles that were shown the other claim

machine == <<phase, round, version, deadline>>
judging == <<pair, verdicts>>
seats   == <<bound, cursor>>
vars == <<topic, machine, msgs, commits, released, packets, judging, seats, peeked>>

--------------------------------------------------------------------------------
(* Reading the tables                                                      *)

ActOf(i) == msgs[i].act

OfKind(K) == {i \in 1 .. Len(msgs) : ActOf(i).kind \in K}

\* visibility_sql: an unreleased commit is shown to its own role only.
Visible(r, i) == \A b \in Blind \ {r} : commits[b] = i => b \in released

\* assert_fresh_read, for the session that owns the role.
FreshRead(r) ==
  /\ r \in bound
  /\ \A i \in 1 .. Len(msgs) :
       (ActOf(i).urgent /\ r \in ActOf(i).to /\ Visible(r, i)) => i \leq cursor[r]

Unresolved ==
  {c \in OfKind({"CHALLENGE"}) :
     ~\E d \in OfKind({"REBUT", "CONCEDE"}) : msgs[d].reply = c}

TargetKinds ==
  [CHALLENGE |-> {"CLAIM", "EVIDENCE", "REBUT"},
   EVIDENCE  |-> {"CLAIM", "CHALLENGE", "REBUT"},
   REBUT     |-> {"CHALLENGE"},
   CONCEDE   |-> {"CHALLENGE", "CLAIM"},
   VERIFY    |-> {"CLAIM", "EVIDENCE", "REBUT", "CONCEDE"},
   DISSENT   |-> {"VERIFY", "DECISION", "ESCALATE"}]

--------------------------------------------------------------------------------
(* preflight_post                                                          *)

\* Mutants: a late turn is accepted in STALEMATE; ESCALATED takes further
\* escalations.
PhaseAcceptsLateTurn(f) ==
  CASE phase = "BLIND_CLAIM" -> f.kind = "CLAIM" /\ f.role \in Blind
                                /\ commits[f.role] = 0
    [] phase = "ADJUDICATE"  -> f.kind = "ESCALATE"
    [] phase \in {"DEBATE", "STALEMATE"} -> TRUE
    [] OTHER                 -> FALSE
PhaseAcceptsEscalations(f) ==
  CASE phase = "BLIND_CLAIM" -> f.kind = "CLAIM" /\ f.role \in Blind
                                /\ commits[f.role] = 0
    [] phase = "DEBATE"      -> f.kind \in TurnKinds \cup {"ESCALATE"}
    [] OTHER                 -> f.kind = "ESCALATE"

\* _validate_phase_kind, _reject_duplicate_dissent
PhaseAccepts(f) ==
  CASE phase = "BLIND_CLAIM" -> /\ f.kind = "CLAIM" /\ f.role \in Blind
                                /\ commits[f.role] = 0
    [] phase = "DEBATE"      -> f.kind \in TurnKinds \cup {"ESCALATE"}
    [] phase = "ADJUDICATE"  -> f.kind = "ESCALATE"
    [] phase = "STALEMATE"   -> \/ f.kind = "ESCALATE"
                                \/ /\ f.kind = "DISSENT"
                                   /\ \A i \in OfKind({"DISSENT"}) :
                                        ActOf(i).role # f.role
    [] OTHER                 -> FALSE

TargetValid(f, t) ==
  f.kind \in DOMAIN TargetKinds =>
    t # 0 /\ ActOf(t).kind \in TargetKinds[f.kind]

\* _validate_escalation
EscalationValid(f) ==
  f.kind = "ESCALATE" =>
    Human \in f.to /\ \A p \in packets : p.generation # version

SemanticValid(f, t) ==
  /\ f.kind = "VERIFY" => f.role \notin Blind
  /\ f.kind \in TurnKinds => FreshRead(f.role)
  /\ PhaseAccepts(f)
  /\ round \leq MaxRounds \/ f.kind \in {"DISSENT", "ESCALATE"}
  /\ ~\E i \in OfKind({f.kind}) :            \* DUPLICATE_ACT
       /\ ActOf(i).role = f.role /\ msgs[i].reply = t
       /\ ActOf(i).result = f.result /\ ActOf(i).text = f.text
  /\ TargetValid(f, t)
  /\ EscalationValid(f)

--------------------------------------------------------------------------------
(* record_post                                                             *)

\* Mutant: the deadline survives the end of the timed phases.
MoveToAlwaysTimed(new) ==
  /\ phase' = new
  /\ version' = version + 1
  /\ deadline' = "running"

MoveTo(new) ==
  /\ phase' = new
  /\ version' = version + 1
  /\ deadline' = IF new \in Timed THEN "running" ELSE "none"

\* Mutant: release with the first commit.
BothCommittedEarly(after) == \E b \in Blind : after[b] # 0

BothCommitted(after) == \A b \in Blind : after[b] # 0

RecordBlindClaim(f) ==
  /\ commits' = [commits EXCEPT ![f.role] = Len(msgs) + 1]
  /\ IF BothCommitted([commits EXCEPT ![f.role] = Len(msgs) + 1])
     THEN released' = Blind /\ MoveTo("DEBATE") /\ UNCHANGED round
     ELSE UNCHANGED <<released, machine>>
  /\ UNCHANGED packets

\* Mutant: one round too many.
LastRoundOffByOne == round > MaxRounds

LastRound == round \geq MaxRounds

\* Mutant: only this round's challenges block adjudication.
SettlesThisRound(f) ==
  f.result = "verified" /\ \A c \in Unresolved : msgs[c].round # round

Settles(f) == f.result = "verified" /\ Unresolved = {}

\* The count runs after the INSERT, which adds no CHALLENGE, REBUT or CONCEDE.
RecordVerify(f) ==
  /\ IF Settles(f)
     THEN MoveTo("ADJUDICATE") /\ UNCHANGED round
     ELSE IF LastRound
     THEN MoveTo("STALEMATE") /\ UNCHANGED round
     ELSE MoveTo("DEBATE") /\ round' = round + 1
  /\ UNCHANGED <<commits, released, packets>>

RecordEscalate(f) ==
  /\ packets' = packets \cup {[generation |-> version, msg |-> Len(msgs) + 1]}
  /\ MoveTo("ESCALATED")
  /\ UNCHANGED <<round, commits, released>>

\* A semantic message through post_message.
PostAct(f, t) ==
  /\ topic = "ACTIVE"
  /\ Len(msgs) < MaxMsgs
  /\ f.kind \in SemanticKinds
  /\ SemanticValid(f, t)
  /\ msgs' = Append(msgs, [act |-> f, reply |-> t, round |-> round])
  /\ \/ f.kind = "CLAIM" /\ phase = "BLIND_CLAIM" /\ RecordBlindClaim(f)
     \/ f.kind = "VERIFY" /\ RecordVerify(f)
     \/ f.kind = "ESCALATE" /\ RecordEscalate(f)
     \/ /\ f.kind \notin {"VERIFY", "ESCALATE"}
        /\ f.kind = "CLAIM" => phase # "BLIND_CLAIM"
        /\ UNCHANGED <<machine, commits, released, packets>>
  /\ UNCHANGED <<topic, judging, seats, peeked>>

\* A control message: it can only make somebody's view stale.
PostControl(f) ==
  /\ topic = "ACTIVE"
  /\ Len(msgs) < MaxMsgs
  /\ f.kind = "PING"
  /\ msgs' = Append(msgs, [act |-> f, reply |-> 0, round |-> 0])
  /\ UNCHANGED <<topic, machine, commits, released, packets, judging, seats, peeked>>

--------------------------------------------------------------------------------
(* Adjudication                                                            *)

\* prepare_order_swap: immutable once made; a call with the same pair is a no-op.
PrepareOrderSwap(l, r) ==
  /\ phase = "ADJUDICATE"
  /\ l \in OfKind({"CLAIM", "REBUT"}) /\ r \in OfKind({"CLAIM", "REBUT"})
  /\ {ActOf(l).role, ActOf(r).role} = Blind
  /\ pair = <<>>
  /\ pair' = <<l, r>>
  /\ UNCHANGED <<topic, machine, msgs, commits, released, packets, verdicts, seats,
                 peeked>>

\* _validate_judge_role
JudgeValid(j) == j \in Roles \ Blind /\ j \in bound

\* Mutant: the winner alone is compared.
AgreeOnWinner(v) == v["AB"].winner = v["BA"].winner

Agree(v) == v["AB"] = v["BA"]

\* record_order_swap_verdict of a projection without a verdict; a replay of a
\* stored one changes nothing.
RecordVerdict(o, v) ==
  LET after == [verdicts EXCEPT ![o] = v]
  IN  /\ pair # <<>> /\ v.winner \in {pair[1], pair[2]}
      /\ verdicts[o] = NoVerdict
      /\ phase = "ADJUDICATE"
      /\ \A p \in Orders : verdicts[p] # NoVerdict => verdicts[p].judge = v.judge
      /\ JudgeValid(v.judge)
      /\ verdicts' = after
      /\ IF \A p \in Orders : after[p] # NoVerdict
         THEN MoveTo(IF Agree(after) THEN "STOPPED" ELSE "STALEMATE") /\ UNCHANGED round
         ELSE UNCHANGED machine
      /\ UNCHANGED <<topic, msgs, commits, released, packets, pair, seats, peeked>>

--------------------------------------------------------------------------------
(* Readers, owners and the pump                                            *)

\* debate_signal_advance of the role's owner (signal_check delivered it).
Advance(r, i) ==
  /\ r \in bound /\ r \in ActOf(i).to /\ Visible(r, i) /\ i > cursor[r]
  /\ cursor' = [cursor EXCEPT ![r] = i]
  /\ UNCHANGED <<topic, machine, msgs, commits, released, packets, judging, bound,
                 peeked>>

\* read_messages, search or signal_check by an opposing role.
Read(r) ==
  /\ r \in Blind
  /\ \E b \in Blind \ {r} : commits[b] # 0 /\ Visible(r, commits[b])
  /\ peeked' = peeked \cup {r}
  /\ UNCHANGED <<topic, machine, msgs, commits, released, packets, judging, seats>>

\* bind_role_session: an operator takes the owner away (by an override posted
\* before debate/v1 was enabled), or seats a session that has no cursor yet.
Unseat(r) ==
  /\ topic = "ACTIVE" /\ r \in bound
  /\ bound' = bound \ {r}
  /\ UNCHANGED <<topic, machine, msgs, commits, released, packets, judging, cursor,
                 peeked>>

Seat(r) ==
  /\ bound' = bound \cup {r}
  /\ cursor' = [cursor EXCEPT ![r] = 0]
  /\ UNCHANGED <<topic, machine, msgs, commits, released, packets, judging, peeked>>

\* transition_state to RESOLVED: read-only, and every owner is retired.
Resolve ==
  /\ topic = "ACTIVE"
  /\ topic' = "RESOLVED"
  /\ bound' = {}
  /\ UNCHANGED <<machine, msgs, commits, released, packets, judging, cursor, peeked>>

PassDeadline ==
  /\ deadline = "running"
  /\ deadline' = "passed"
  /\ UNCHANGED <<topic, phase, round, version, msgs, commits, released, packets,
                 judging, seats, peeked>>

\* Mutant: only the barrier times out.
ExpiredBarrier == phase = "BLIND_CLAIM" /\ deadline = "passed"

Expired == phase \in Timed /\ deadline = "passed"

\* Mutant: a stalemated topic is not swept for missing owners.
MissingRolesUntilStalemate(p) ==
  IF topic = "ACTIVE" /\ p \in Timed THEN Recoverable \ bound ELSE {}

MissingRoles(p) ==
  IF topic = "ACTIVE" /\ p \notin {"STOPPED", "ESCALATED"}
  THEN Recoverable \ bound ELSE {}

\* _protocol_maintenance / debate_protocol_maintain: transition_expired_protocols,
\* then sweep_missing_roles, in one transaction.  The recovered session starts at
\* the role's cursor.
Maintain ==
  LET next == IF Expired THEN "STALEMATE" ELSE phase
  IN  /\ Expired \/ MissingRoles(next) # {}
      /\ IF Expired THEN MoveTo("STALEMATE") /\ UNCHANGED round ELSE UNCHANGED machine
      /\ bound' = bound \cup MissingRoles(next)
      /\ UNCHANGED <<topic, msgs, commits, released, packets, judging, cursor, peeked>>

--------------------------------------------------------------------------------
\* configure_topic, once the topic is ACTIVE
Init ==
  /\ topic = "ACTIVE"
  /\ phase = "BLIND_CLAIM" /\ round = 1 /\ version = 1 /\ deadline = "running"
  /\ msgs = <<>>
  /\ commits = [b \in Blind |-> 0] /\ released = {}
  /\ packets = {}
  /\ pair = <<>> /\ verdicts = [o \in Orders |-> NoVerdict]
  /\ bound = Seated /\ cursor = [r \in Roles |-> 0]
  /\ peeked = {}

\* A CLAIM or an ESCALATE is posted without reply_to.
Targets(f) == IF f.kind \in DOMAIN TargetKinds THEN 1 .. Len(msgs) ELSE {0}

Next ==
  \/ \E f \in Acts : PostControl(f) \/ \E t \in Targets(f) : PostAct(f, t)
  \/ \E l, r \in 1 .. Len(msgs) : PrepareOrderSwap(l, r)
  \/ \E o \in Orders, v \in Verdict : RecordVerdict(o, v)
  \/ \E r \in Roles, i \in 1 .. Len(msgs) : Advance(r, i)
  \/ \E r \in Roles : Read(r)
  \/ \E r \in Movable : Unseat(r) \/ Seat(r)
  \/ Resolve
  \/ PassDeadline
  \/ Maintain

Spec == Init /\ [][Next]_vars

\* The pump runs its maintenance every cycle; wall time passes.
FairSpec == Spec /\ WF_vars(PassDeadline) /\ WF_vars(Maintain)

--------------------------------------------------------------------------------
(* Properties                                                              *)

TypeOK ==
  /\ topic \in {"ACTIVE", "RESOLVED"}
  /\ phase \in Phases /\ round \in 1 .. MaxRounds /\ version \in Nat \ {0}
  /\ deadline \in {"none", "running", "passed"}
  /\ (deadline = "none") <=> (phase \notin Timed)
  /\ msgs \in Seq(Message) /\ Len(msgs) \leq MaxMsgs
  /\ commits \in [Blind -> 0 .. MaxMsgs] /\ released \subseteq Blind
  /\ packets \subseteq [generation : Nat, msg : Msgs]
  /\ pair \in {<<>>} \cup (Msgs \X Msgs)
  /\ verdicts \in [Orders -> Verdict \cup {NoVerdict}]
  /\ bound \subseteq Roles /\ cursor \in [Roles -> 0 .. MaxMsgs]
  /\ peeked \subseteq Blind

\* The initial claims are independent: a role is shown the other side's claim only
\* after it has committed its own, and a debate that times out half-committed
\* never shows the lone claim (visibility_sql, record_post).
ClaimsIndependent ==
  /\ \A r \in peeked : commits[r] # 0
  /\ released # {} => \A b \in Blind : b \in released /\ commits[b] # 0
  /\ phase \in {"DEBATE", "ADJUDICATE", "STOPPED"} => released = Blind

Verifications == OfKind({"VERIFY"})

\* The server's round number counts the verifications: while the debate runs it
\* is one more than the VERIFYs stored, each of them carries its own round, and
\* no sequence of acts passes the cap.
RoundCountsVerifies ==
  /\ round \leq MaxRounds
  /\ phase \in {"BLIND_CLAIM", "DEBATE"} => Cardinality(Verifications) = round - 1
  /\ \A i, j \in Verifications : msgs[i].round = msgs[j].round => i = j

\* A debate is adjudicated, and stopped, only when its last VERIFY says
\* "verified" and every CHALLENGE of every round was met by a REBUT or CONCEDE.
AdjudicatedIsSettled ==
  phase \in {"ADJUDICATE", "STOPPED"} =>
    /\ Unresolved = {}
    /\ \E i \in Verifications : ActOf(i).result = "verified" /\ msgs[i].round = round

\* STOPPED means one judge from outside the opposing roles gave the same winner
\* and decision for both orders of the two opposing positions.
StoppedByAgreement ==
  phase = "STOPPED" =>
    /\ \A o \in Orders : verdicts[o] # NoVerdict
    /\ verdicts["AB"] = verdicts["BA"]
    /\ verdicts["AB"].judge \notin Blind
    /\ {ActOf(pair[1]).role, ActOf(pair[2]).role} = Blind

\* A human is asked at most once per topic, and exactly when the protocol is
\* ESCALATED; the packet names an ESCALATE addressed to the human.
OneHumanPacket ==
  /\ Cardinality(packets) \leq 1
  /\ (phase = "ESCALATED") <=> (packets # {})
  /\ \A p \in packets : ActOf(p.msg).kind = "ESCALATE" /\ Human \in ActOf(p.msg).to

\* A protocol never comes back: STOPPED and ESCALATED are final, a stalemate ends
\* only in an escalation, and no late turn or verdict reopens an earlier phase.
PhasesMoveForward ==
  [][phase' # phase =>
       \/ phase \in Timed /\ phase' \in {"STALEMATE", "ESCALATED"}
       \/ phase = "STALEMATE" /\ phase' = "ESCALATED"
       \/ phase = "BLIND_CLAIM" /\ phase' = "DEBATE"
       \/ phase = "DEBATE" /\ phase' = "ADJUDICATE"
       \/ phase = "ADJUDICATE" /\ phase' = "STOPPED"]_vars

\* Whatever the roles do or fail to do, the timed phases end.
TimedPhasesEnd == <>(phase \notin Timed)

\* A recoverable role without an owner gets one, unless the protocol or the topic
\* ends first; a stalemate is no excuse, since it still wants its escalation.
RolesRecovered ==
  \A r \in Recoverable :
    r \notin bound ~>
      (r \in bound \/ phase \in {"STOPPED", "ESCALATED"} \/ topic = "RESOLVED")

================================================================================
