----------------------------- MODULE DebateChannel -----------------------------
(***************************************************************************)
(* The inbox of one role in one debate topic (debate.py, the sweep of      *)
(* debate_protocol_v1.py, the delivery queue of hooks/debate_pump.py).     *)
(*                                                                         *)
(* A session reads what is addressed to the role it owns, or to itself, by *)
(* signal_check and moves its cursor by signal_advance.  The role as a     *)
(* whole acknowledges the ledger by WATERMARK, which drags the owner's     *)
(* cursor along.  A one-shot DECISION is lent to one session at a time.    *)
(* The pump completes a delivery once every recipient gave evidence.       *)
(*                                                                         *)
(* Every handler runs under BEGIN IMMEDIATE and is one action.  A message  *)
(* id is its position: timestamps are taken inside the write transaction,  *)
(* from a clock that is assumed not to step back.  Messages are of the     *)
(* vehicle 'implementation', which no worker may take: their only way to   *)
(* the role is this inbox.                                                 *)
(***************************************************************************)
EXTENDS Naturals, FiniteSets, Sequences

CONSTANTS
  Role,          \* the role whose inbox this is
  Sessions,
  Nobody, Done,  \* values of a one-shot claim beside its owner
  V1,            \* whether debate/v1 is configured for the topic
  Overridden,    \* whether a conductor override exists
  Owning,        \* sessions the operators may seat
  Diagnosing,    \* sessions the operators may bind as diagnostic
  Forms,         \* shapes of the messages posted in this instance
  Limit,         \* page size of signal_check
  MaxMsgs        \* bound on the ledger

Msgs  == 1 .. MaxMsgs
Sorts == {"plain", "standing", "oneshot"}
Form  == [to : SUBSET ({Role} \cup Sessions), sort : Sorts, blind : BOOLEAN]
BindingStates == {"none", "active", "diagnostic", "retired"}

ASSUME ConstantsAssumption ==
  /\ Role \notin Sessions /\ Nobody \notin Sessions /\ Done \notin Sessions
  /\ Nobody # Done
  /\ V1 \in BOOLEAN /\ Overridden \in BOOLEAN
  /\ Owning \subseteq Sessions /\ Diagnosing \subseteq Sessions
  /\ IsFiniteSet(Sessions)
  /\ Limit \in Nat \ {0} /\ MaxMsgs \in Nat

ASSUME FormsAssumption == Forms \subseteq Form

VARIABLES
  msgs,       \* debate_messages and debate_message_recipients
  released,   \* whether the blind commits are
  binding,    \* debate_role_bindings of the role
  cursor,     \* debate_signal_state, 0 when NULL
  delivered,  \* debate_signal_deliveries, 0 when absent
  watermark,  \* debate_watermarks, 0 when absent
  claim,      \* debate_message_claims
  answered,   \* messages with a terminal reply of the role
  completed,  \* debate_delivery_queue rows with a completed_at
  \* history, kept as far as a property reads it
  shown,      \* what signal_check returned: in debate/v1 all, else one-shots
  pageEnd,    \* the next_cursor of each session's last check, 0 when none
  walked,     \* sessions that checked from a point of their own choice
  seated,     \* length of the ledger when the owner was seated
  ledger,     \* the furthest WATERMARK
  signed,     \* the furthest an owner advanced, or a rotation put it beyond the former
  reclaimed   \* one-shot messages a sweep took back

history == <<shown, pageEnd, walked, seated, ledger, signed, reclaimed>>
vars == <<msgs, released, binding, cursor, delivered, watermark, claim, answered,
          completed, history>>

--------------------------------------------------------------------------------
(* Reading the tables                                                      *)

\* The later of two positions.
Later(i, j) == IF i \geq j THEN i ELSE j

Last(S) == CHOOSE i \in S : \A j \in S : j \leq i

Posted == 1 .. Len(msgs)

Visible(i) == msgs[i].blind => released

Owners == {s \in Sessions : binding[s] = "active"}

Bound == {s \in Sessions : binding[s] # "none"}

\* _signal_recipients_for_binding
RecipientsOf(s) ==
  IF Bound = {} \/ s \in Owners THEN {Role, s}
  ELSE IF binding[s] = "diagnostic" THEN {s} ELSE {}

AddressedTo(R) == {i \in Posted : Visible(i) /\ msgs[i].to \cap R # {}}

OneShot(i) == msgs[i].sort = "oneshot"

\* Mutant: whoever holds it, everybody is shown it.
TakenWhenDone(s, i) == OneShot(i) /\ claim[i] = Done

\* A one-shot DECISION that is done, or lent to another session.
Taken(s, i) == OneShot(i) /\ claim[i] \notin {Nobody, s}

\* Past the persisted cursor, or sticky: standing rows and one-shots ignore it.
PastCursor(c, i) == i > c \/ msgs[i].sort # "plain"

\* The first page of S, in ledger order.
Page(S) == {i \in S : Cardinality({j \in S : j \leq i}) \leq Limit}

\* Mutant: the projection follows the watermark wherever it points.
ProjectedBack(s, wm) ==
  {i \in AddressedTo({Role, s}) : i \leq wm /\ Owners = {s}}

\* _reconcile_active_signal_cursor_from_role_watermark: the messages a watermark
\* wm may take the cursor of s to.  Only the unique active owner is moved, only to a
\* message it could have been sent, only forward.
Projected(s, wm) ==
  {i \in AddressedTo({Role, s}) : i \leq wm /\ Owners = {s} /\ i > cursor[s]}

Reconciled(s, wm) ==
  IF Projected(s, wm) = {} THEN cursor[s] ELSE Last(Projected(s, wm))

\* Rows signal_check selects: past the cursor c, or past an explicit from.
Inbox(s, c, from) ==
  {i \in AddressedTo(RecipientsOf(s)) :
     ~Taken(s, i) /\ (IF from = 0 THEN PastCursor(c, i) ELSE i > from)}

--------------------------------------------------------------------------------
(* signal_check and signal_advance                                         *)

\* _claim_or_filter_nonstanding_decision: an answered one-shot is closed and
\* dropped from the page, any other is lent to s.
Answered(P) == {i \in P : OneShot(i) /\ i \in answered}

\* Mutant: every row of the page is claimed.
ClaimsAfterAll(s, P) ==
  [i \in Msgs |-> IF i \in Answered(P) THEN Done
                  ELSE IF i \in P THEN s ELSE claim[i]]

ClaimsAfter(s, P) ==
  [i \in Msgs |-> IF i \in Answered(P) THEN Done
                  ELSE IF i \in P /\ OneShot(i) THEN s ELSE claim[i]]

Check(s, from) ==
  LET c    == IF from = 0 THEN Reconciled(s, watermark) ELSE cursor[s]
      rows == Inbox(s, c, from)
      page == Page(rows)
      pending == page \ Answered(page)
  IN /\ RecipientsOf(s) # {}
     /\ from # 0 => from \in Posted /\ Visible(from)
     /\ cursor' = [cursor EXCEPT ![s] = c]
     /\ claim' = ClaimsAfter(s, page)
     /\ delivered' = [delivered EXCEPT ![s] =
          IF V1 /\ pending # {} THEN Later(@, Last(pending)) ELSE @]
     /\ shown' = [shown EXCEPT ![s] = @ \cup {i \in pending : V1 \/ OneShot(i)}]
     /\ pageEnd' = [pageEnd EXCEPT ![s] =
          IF V1 /\ page # rows /\ pending # {} THEN Last(pending) ELSE 0]
     /\ walked' = IF V1 /\ from \notin {0, pageEnd[s]} THEN walked \cup {s} ELSE walked
     /\ UNCHANGED <<msgs, released, binding, watermark, answered, completed,
                    seated, ledger, signed, reclaimed>>

\* Mutant: the gate is missing.
WasDeliveredOrNot(s, i) == TRUE

\* debate/v1: a cursor may only reach what a check delivered.
WasDelivered(s, i) == V1 => i \leq delivered[s]

Advance(s, i) ==
  /\ i \in AddressedTo(RecipientsOf(s))
  /\ WasDelivered(s, i)
  /\ i \geq cursor[s]                                  \* watermark_regression
  /\ cursor' = [cursor EXCEPT ![s] = i]
  /\ signed' = IF Role \in RecipientsOf(s) THEN Later(signed, i) ELSE signed
  /\ UNCHANGED <<msgs, released, binding, delivered, watermark, claim, answered,
                 completed, shown, pageEnd, walked, seated, ledger, reclaimed>>

--------------------------------------------------------------------------------
(* Messages of the role and to the role                                    *)

\* A direct recipient needs a diagnostic binding, or the conductor's override.
MayAddress(R) == \A s \in R \ {Role} : binding[s] = "diagnostic" \/ Overridden

\* debate/v1 disables DECISION; only it has blind commits.
Post(f) ==
  /\ Len(msgs) < MaxMsgs
  /\ V1 => f.sort # "oneshot"
  /\ MayAddress(f.to)
  /\ f.blind => V1 /\ ~released
  /\ msgs' = Append(msgs, f)
  /\ UNCHANGED <<released, binding, cursor, delivered, watermark, claim, answered,
                 completed, history>>

\* The second blind CLAIM releases the first.
Release ==
  /\ V1 /\ ~released
  /\ released' = TRUE
  /\ UNCHANGED <<msgs, binding, cursor, delivered, watermark, claim, answered,
                 completed, history>>

\* WATERMARK overwrites the role's row, also with an older message, and drags
\* the owner's cursor along.
WatermarkPost(i) ==
  /\ i \in Posted
  /\ watermark' = i
  /\ cursor' = [s \in Sessions |-> Reconciled(s, i)]
  /\ ledger' = Later(ledger, i)
  /\ UNCHANGED <<msgs, released, binding, delivered, claim, answered, completed,
                 shown, pageEnd, walked, seated, signed, reclaimed>>

\* A terminal reply of the role.  A one-shot takes one, and its claim is done.
Answer(i) ==
  /\ i \in Posted /\ Role \in msgs[i].to /\ Visible(i)
  /\ i \notin answered
  /\ answered' = answered \cup {i}
  /\ claim' = IF OneShot(i) THEN [claim EXCEPT ![i] = Done] ELSE claim
  /\ UNCHANGED <<msgs, released, binding, cursor, delivered, watermark, completed,
                 history>>

\* Mutant: a claim outlives the seat of its owner.
LentToOwner == {i \in Msgs : claim[i] \in Owners}

Lent == {i \in Msgs : claim[i] \in Sessions}

\* reclaim_stale_message_claims: any of the active claims may be stale.
Reclaim(K) ==
  /\ K # {} /\ K \subseteq Lent
  /\ claim' = [i \in Msgs |-> IF i \notin K THEN claim[i]
                              ELSE IF i \in answered THEN Done ELSE Nobody]
  /\ reclaimed' = reclaimed \cup (K \ answered)
  /\ UNCHANGED <<msgs, released, binding, cursor, delivered, watermark, answered,
                 completed, shown, pageEnd, walked, seated, ledger, signed>>

--------------------------------------------------------------------------------
(* Bindings of the role                                                    *)

\* An owner answers for the inbox from its seat on.
Rebind(b) ==
  /\ binding' = b
  /\ seated' = IF \E s \in Sessions : b[s] = "active" /\ s \notin Owners
               THEN Len(msgs) ELSE IF \E s \in Owners : b[s] = "active" THEN seated ELSE 0
  /\ UNCHANGED <<msgs, released, delivered, watermark, claim, answered, completed,
                 shown, pageEnd, walked, ledger, reclaimed>>

Replaced(s) ==
  [t \in Sessions |-> IF t = s THEN "active"
                      ELSE IF t \in Owners THEN "retired" ELSE binding[t]]

\* bind_role_session(state = 'active', replace_active): the owner is retired.
BindActive(s) ==
  /\ s \in Owning
  /\ Rebind(Replaced(s))
  /\ UNCHANGED <<cursor, signed>>

\* Uncovering an owner needs the override.
BindDiagnostic(s) ==
  /\ s \in Diagnosing
  /\ s \in Owners => Overridden
  /\ Rebind([binding EXCEPT ![s] = "diagnostic"])
  /\ UNCHANGED <<cursor, signed>>

BindRetired(s) ==
  /\ s \in Bound
  /\ s \in Owners => Overridden
  /\ Rebind([binding EXCEPT ![s] = "retired"])
  /\ UNCHANGED <<cursor, signed>>

\* Where rotate_role_binding lets the successor of old begin: at the last message,
\* seen or not; where old is, or further, where a worker of old completed a message
\* of another vehicle; or anew.
Modes == {"head", "copy", "replay"}

StartsAt(old, mode) ==
  CASE mode = "head"   -> {Len(msgs)}
    [] mode = "copy"   -> {i \in {0} \cup Posted : i \geq cursor[old]}
    [] mode = "replay" -> {0}

\* old may be its own successor.
Rotate(old, new, mode) ==
  /\ old \in Owners /\ new \in Owning
  /\ binding' = Replaced(new)
  /\ seated' = Len(msgs)
  /\ \E i \in StartsAt(old, mode) :
       /\ cursor' = [cursor EXCEPT ![new] = i]
       /\ signed' = IF i > cursor[old] THEN Later(signed, i) ELSE signed
  /\ UNCHANGED <<msgs, released, delivered, watermark, claim, answered, completed,
                 shown, pageEnd, walked, ledger, reclaimed>>

\* The furthest cursor of any session bound to the role, now or ever.
Inherited == Last({cursor[s] : s \in Bound} \cup {0})

Fresh(s) == binding[s] = "none" /\ cursor[s] = 0 /\ delivered[s] = 0 /\ shown[s] = {}

\* sweep_missing_roles seats a session of its own making.
Sweep(s) ==
  /\ V1 /\ Owners = {} /\ Fresh(s)
  /\ Rebind([binding EXCEPT ![s] = "active"])
  /\ cursor' = [cursor EXCEPT ![s] = Inherited]
  /\ UNCHANGED signed

--------------------------------------------------------------------------------
(* The pump's delivery queue                                               *)

\* Mutant: the cursor of any session bound to the role counts.
AnyReaders == Bound

\* The cursor whose reach acknowledges a message to the role: its owner's.
RoleReaders == Owners

RecipientAcknowledged(r, i) ==
  IF r = Role
  THEN \/ i \in answered
       \/ i \leq watermark
       \/ \E s \in RoleReaders : i \leq cursor[s]
  ELSE binding[r] = "diagnostic" /\ i \leq cursor[r]

\* Rows of hidden commits are not fetched; every recipient must have proved.
Complete(i) ==
  /\ i \in Posted \ completed
  /\ Visible(i) /\ msgs[i].to # {}
  /\ \A r \in msgs[i].to : RecipientAcknowledged(r, i)
  /\ completed' = completed \cup {i}
  /\ UNCHANGED <<msgs, released, binding, cursor, delivered, watermark, claim,
                 answered, history>>

--------------------------------------------------------------------------------
Init ==
  /\ msgs = <<>> /\ released = FALSE
  /\ binding = [s \in Sessions |-> "none"]
  /\ cursor = [s \in Sessions |-> 0] /\ delivered = [s \in Sessions |-> 0]
  /\ watermark = 0
  /\ claim = [i \in Msgs |-> Nobody]
  /\ answered = {} /\ completed = {}
  /\ shown = [s \in Sessions |-> {}]
  /\ pageEnd = [s \in Sessions |-> 0]
  /\ walked = {}
  /\ seated = 0
  /\ ledger = 0 /\ signed = 0 /\ reclaimed = {}

Inboxes ==
  \E s \in Sessions :
    \/ \E from \in Msgs \cup {0} : Check(s, from)
    \/ \E i \in Msgs : Advance(s, i)

Ledger ==
  \/ \E f \in Forms : Post(f)
  \/ Release
  \/ \E i \in Msgs : WatermarkPost(i) \/ Answer(i)
  \/ \E K \in SUBSET Lent : Reclaim(K)

Bindings ==
  \/ \E s \in Sessions : BindActive(s) \/ BindDiagnostic(s) \/ BindRetired(s) \/ Sweep(s)
  \/ \E old, new \in Sessions, mode \in Modes : Rotate(old, new, mode)

Queue == \E i \in Msgs : Complete(i)

Next == Inboxes \/ Ledger \/ Bindings \/ Queue

Spec == Init /\ [][Next]_vars

\* Owners keep checking their inbox, and the pump reclaims at every scan.
FairSpec ==
  /\ Spec
  /\ \A s \in Sessions : WF_vars(Check(s, 0) /\ s \in Owners)
  /\ \A i \in Msgs : WF_vars(Reclaim({i}))

--------------------------------------------------------------------------------
(* Properties                                                              *)

\* Every table is well-typed: positions stay within the ledger, and only a
\* one-shot is ever claimed.
TypeOK ==
  /\ msgs \in Seq(Forms) /\ Len(msgs) \leq MaxMsgs
  /\ released \in BOOLEAN
  /\ binding \in [Sessions -> BindingStates]
  /\ cursor \in [Sessions -> {0} \cup Posted] /\ delivered \in [Sessions -> {0} \cup Posted]
  /\ watermark \in {0} \cup Posted
  /\ claim \in [Msgs -> Sessions \cup {Nobody, Done}]
  /\ \A i \in Msgs : claim[i] # Nobody => i \in Posted /\ OneShot(i)
  /\ answered \subseteq Posted /\ completed \subseteq Posted
  /\ shown \in [Sessions -> SUBSET Posted] /\ pageEnd \in [Sessions -> {0} \cup Posted]
  /\ walked \subseteq Sessions
  /\ seated \in {0} \cup Posted
  /\ ledger \in {0} \cup Posted /\ signed \in {0} \cup Posted
  /\ reclaimed \subseteq Posted

\* A read cursor moves back only where an operator says so: that of the session a
\* rotation seats, when it is to begin anew or to copy one.  No WATERMARK that names
\* an older message, no other binding and no recovery delivers again what was signed
\* for.
CursorsForward ==
  [][\A s \in Sessions :
       \/ cursor'[s] \geq cursor[s]
       \/ \E old \in Sessions, mode \in {"copy", "replay"} : Rotate(old, s, mode)]_vars

\* Messages to the role, but for the blind commits: those become visible behind
\* cursors that passed them, and only a replay of the pump finds them.
RoleMessages == {i \in Posted : Role \in msgs[i].to /\ ~msgs[i].blind}

\* debate/v1: the owner of the role never leaves behind its cursor a message to
\* the role that it was neither shown nor covered by a WATERMARK, unless it
\* walked the inbox from a point of its own choice (debate_signal_advance).
OwnerMissesNothing ==
  V1 => \A s \in Owners \ walked : \A i \in RoleMessages :
          seated < i /\ i \leq cursor[s] => i \in shown[s] \/ i \leq ledger

\* debate/v1: the message an advance acknowledges was returned to that session
\* by a check (the two-phase read receipt of debate_signal_deliveries).
AcknowledgedWasShown ==
  [][\A s \in Sessions, i \in Msgs : V1 /\ Advance(s, i) => i \in shown[s]]_vars

\* A one-shot DECISION is shown to two sessions only if a sweep took it back
\* from the first (debate_message_claims).
OneShotShownToOne ==
  \A s, t \in Sessions : \A i \in shown[s] \cap shown[t] :
    OneShot(i) => s = t \/ i \in reclaimed

\* A delivery to the role is completed only if somebody answered for the role:
\* a reply, a WATERMARK at or past it, an owner that advanced to or past it, or an
\* operator whose rotation put an owner past it (rotate_role_binding, head or copy).
\* A direct delivery is completed only if its own session got there
\* (_delivery_acknowledged_on_connection).
CompletedByOwner ==
  \A i \in completed :
    /\ Role \in msgs[i].to =>
         (i \in answered \/ i \leq ledger \/ i \leq signed)
    /\ \A s \in msgs[i].to \ {Role} : i \leq cursor[s]

\* A one-shot DECISION to the role is answered or shown to whoever comes to
\* stay its owner, also when a former owner held it and lost its seat.
OneShotReachesOwner ==
  \A s \in Sessions : \A i \in Msgs :
    <>[](s \in Owners) =>
      (i \in Posted /\ OneShot(i) /\ Role \in msgs[i].to) ~>
        (i \in answered \/ i \in shown[s])

================================================================================
