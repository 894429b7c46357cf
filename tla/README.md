# TLA+ verification of sqlite-memory-mcp

`sqlite-memory-mcp` is a family of Python MCP servers over one SQLite database
in WAL mode: a task ledger, an entity memory, and a *debate channel* through
which autonomous agent sessions talk to each other, plus hooks that wake those
sessions and a git repository used as a bridge between machines. This directory
holds the models of its core logic, the TLC runs that check them, and the proofs.

All writers of the database go through `db_utils.get_conn_immediate`
(`BEGIN IMMEDIATE`), so **one public handler is one transaction and one action**
of a model. What interleaves is the handlers of different sessions, workers,
pumps, sweeps and machines; what fails is whatever happens between two of them.

## Inventory

| component | state | operations | what is hard | what makes it correct |
|---|---|---|---|---|
| debate ownership (`debate.py`) | `debates`, `debate_messages`, `debate_role_bindings`, `debate_worker_claims`, `_counters`, `_reap_log` | post, bind/rotate/add role, claim, requeue, no-action, recover, reap, transition | several sessions and workers answer for one role, die, are swapped | one answer per class, parent-final, own acknowledgement, no worker without a seated parent |
| debate channel (`debate.py`) | `debate_watermarks`, `debate_signal_state`, `debate_delivery_queue`, `debate_message_claims` | signal check/advance, watermark, deliver, reclaim | cursors over a compound `(ts, msg_id)`, truncated pages, retries | cursors monotone, no addressed message lost, one-shot decisions handled once |
| debate/v1 (`debate_protocol_v1.py`) | `debate_protocol_state`, `debate_blind_commits`, `debate_human_packets`, judge and recovery logs | configure, preflight+record post, expire, sweep missing roles | phases and rounds driven by messages of many roles and by deadlines | blind until all committed, rounds bounded, escalated once |
| wake and pump (`hooks/debate_*.py`) | `debate_wake_log`, `debate_delivery_queue`, receipts, launcher processes, the pump's file cursor | resolve, claim, launch, record, mark, scan, recover | two launchers, crashes between any two steps | work that is open is never closed nor lost, retries bounded |
| bridge (`bridge_sync_worker.py`, `bridge_merge_driver.py`, `db_utils.py`) | clones, per-field versions, status events, push stamps, watermark | fetch, import, merge, export, push, record, purge | lost races and pushes, crashes, clock skew, deletions that meet edits | quiet machines agree, deletions are not undone, nothing counts as pushed that is not |
| auto sync (`hooks/bridge_*.py`, `tray_sync.py`) | dirty flag, last-sync stamp, lock file, repository lock | mark, launch, lock, sync, verify, note | hook, workers and tray in each other's way | one sync at a time, a noted sync happened |
| writers of tasks (`task_status_cas.py`, `reflection_*.py`, `apply_task_mutation`) | `tasks`, `task_field_versions`, tokens of windows, candidates and snapshots | render, transition, undo, propose, decide, apply, archive, bump, purge | decisions on rows that changed since they were read | compare-and-set against status and event, undo used once, applied as reviewed |
| backups (`create_backup`) | staging and generation directories | copy, reserve, publish, retain | overlapping runs, clocks that step back, death between steps | the newest generations stay, the retention holds |
| recurring tasks, digest, premium runtime, collaboration | rows, caches | scan, refresh | little shared control | not modelled |
| retrieval, packing, tray UI, importers, reports | none of their own | queries | ranking heuristics | not modelled |

The full list, with what is left out and why, is `components` in `PROJECT.json`;
the hard-to-test points are its `hazards`.

## Modules

| module | models | run | proofs |
|---|---|---|---|
| `DebateOwnership` | who may answer a trigger, worker claims | `ownership`, `ownership_gate` | `DebateOwnership_proofs` |
| `DebateProtocol` | phases, barrier, rounds, judge, escalation | `protocol`, `liveness` | `DebateProtocol_proofs` |
| `DebateChannel` | the inbox of a role | `channel_legacy`, `channel_recovery`, `channel_receipt`, `protocol`, `liveness` | `DebateChannel_proofs` |
| `DebateWake`, `WakeJobs` | dispatch of triggers to workers, and what it promises | `wake`, `wake_duplicate`, `wake_starvation`, `liveness` | `DebateWake_proofs` |
| `BridgeSync` | one task replicated through git | `task_store` | `BridgeSync_proofs`, `BridgeAgree_proofs` |
| `TaskWriters` | windows, reflections and others write one task table | `task_store` | `TaskStore_proofs` |
| `DatabaseBackup` | the rolling backups | `task_store` | `TaskStore_proofs` |
| `AutoSync` | who starts a sync, and notes it | `auto_sync` | `AutoSync_proofs` |

Each module gets its constants from an `MC<Module>` module and a
`<Module>_<run>.cfg`. Five runs put several small instances side by side: a
variable `part` (in `BridgeSync` the rigid variable `world`) says which of them
a behaviour looks at, and the variables of the others stay as they are. So the
state spaces add up instead of multiplying, and one run answers what is one
question of a reader. Instances do not interact; where components do interact in
the code, one module models both sides (the writers of a task, the two launchers
of the wake, the workers and the tray of a sync).

A reader who wants to extend the project: the constants of a part are changed in
one place, and the check of a passing run takes from seconds to four minutes.

## DebateOwnership

One topic of the debate channel. Every variable is a table:

| variable | code |
|---|---|
| `topic` | `debates.state` |
| `msgs` | `debate_messages`; a message id is its position |
| `binding`, `holders` | `debate_role_bindings.state`; the rows the RESOLVED transition retired |
| `claims` | `debate_worker_claims`, keyed by (role, parent, trigger) |
| `nextWorker` | `debate_worker_counters` |
| `reaped` | `debate_worker_reap_log` |

`Post`, `PostState`, `TransitionState`, `BindActive`, `BindDiagnostic`,
`BindRetired`, `ClaimWorker`, `RequeueWorker`, `WorkerNoAction`, `RecoverStale`
and `ReapClaims` are the public writers; each is one `BEGIN IMMEDIATE`
transaction. `Attributed` is `_resolve_author_provenance`, `SlotFree` the
duplicate check of `post_message`, `ClaimsAfterTerminal` what the INSERT of a
terminal reply does to claims, `Admitted` the checks of `claim_worker_session`.
Every message any caller could post under every identity it could assert is
tried; the guards of the code decide.

Abstracted: bodies and priorities; binding generations (they order rows that are
here already distinct); clocks - a sweep may consider any set of active claims
stale and dead, a reap any set of closed ones old; audit rows and `details_json`.
Messages written before provenance existed appear only as an initial ledger.
`rotate_role_binding` and `add_role_session` are a binding here; what a rotation
does to the successor's cursor, with WATERMARK posts, the delivery queue and the
one-shot message claims, is in `DebateChannel`; COMPACTION posts are not modelled.

Runs, with two sessions that may own the answering role:

- `ownership` has three parts. *given* (MaxMsgs 4, two worker ids per parent,
  two requeues): an old question is answered while the role is swapped and its
  workers claim, answer, die, are recovered, requeued and reaped. Three answers
  suffice to have a parent's, a worker's and one too many; two worker ids and a
  reap suffice to have an id reissued; two requeues reach the budget.
  *authority*: one session may also own the conductor role, an old override lets
  operators unseat owners, and STATE posts and transitions carry the topic to
  ARCHIVED; the constraint `TwoPosts` allows two posts, enough to archive beside
  running workers. *oneshot*: a non-standing DECISION, with another question
  beside it, to an executor role.
- `ownership_gate` expects a violation. docs/DEBATE_PROTOCOL.md says that
  RESOLVED asserts an answer for every open question; the gate is in
  `transition_state` alone, and a STATE message posted through `post_message`
  (`PostState`) reaches RESOLVED past it.

`ownership` uses no symmetry: its parts treat the two sessions differently.
`ownership_gate`, which has one part, takes the two sessions as alike. No run checks
deadlock: a topic with a full ledger, no requeue left and nothing to bind may
stop, as the real one may.

Proofs (`DebateOwnership_proofs`) hold for any roles, sessions, forms, legacy
ledger and bounds that satisfy the three named assumptions (an answer follows
what it answers in the legacy ledger; the forms are forms; the bounds are
naturals).

- `TypeCorrect`: `TypeOK` is not inductive, since the reaper would log a claim
  without a worker number; `ClaimsNumbered` says every stored claim has a number
  the counter passed.
- `SeatsSafe`: `SeatedAuthority` is the conjunction of `OneOwnerPerRole` and
  `ActiveClaimHasSeatedParent`; neither alone excludes two runners.
- `OneRunner`: two active claims on a trigger have both their parents seated,
  hence the same parent, hence the same key.

The remaining properties are proved from one invariant, `AnswersInv`, their
conjunction with `TypeInv`, `ReapedNumbered` (the counter has passed every logged
worker too) and `RepliesBack` (a reply follows what it answers). `StepShape` first
reduces every step to one of five shapes, as far as claims and answers go: claims
are only closed, a worker answers the trigger of its active claim, somebody else
answers, a claim is made active on a trigger nobody answered with an attribution,
claims are reaped. The properties need each other only there:

- a worker that may answer holds the one active claim under its id, because the
  id names no second claim and no reaped one (`WorkerHolds`);
- the sweep never takes its "acknowledge with the worker's own answer" branch: an
  active claim has no answer of its own (`AckIsOwnAnswer`), so it only retires.
  That branch of `recover_stale_worker_claims` guards against a state no handler
  leaves behind.

Over the shapes follow `WorkerIdsUnique`, `AcksAreOwn`, `OneAnswerPerClass`,
`OneShotOnce`, `ParentsAreFinal` and `CompletedClaimsStay`. A trigger becomes
worker-scoped only by a claim on a trigger without an answer, and the reap log
keeps it so; a worker's answer finds no parent answer because its claim is active
(`ParentFinal` before the step).

`ResolvedByTheGate` is the other side of `ownership_gate`: in every behaviour in
which `transition_state` alone takes the topic to RESOLVED (`ByTheGate`),
`ResolvedMeansAnswered` holds, for any roles, forms and bounds. So the STATE message
is the one way around the gate. Archiving needs no gate of its own, a resolved topic
takes no new question, and no reap or swap makes an answered question open again.

## DebateProtocol

The debate/v1 state of one topic.

| variable | code |
|---|---|
| `phase`, `round`, `version`, `deadline` | `debate_protocol_state`; the deadline is none, running or passed |
| `msgs` | semantic messages, and `PING` for any control kind |
| `commits`, `released` | `debate_blind_commits` |
| `packets` | `debate_human_packets` |
| `pair`, `verdicts` | `debate_judge_projections` |
| `bound`, `cursor` | the roles' owners and their inbox cursors, as far as `assert_fresh_read` and the sweep look at them |
| `peeked` | history: which opposing role has been shown the other's claim |

`PostAct` is `preflight_post`, the INSERT and `record_post` in one transaction;
`PrepareOrderSwap` and `RecordVerdict` are the judge's two calls, `Advance` and
`Read` a session's inbox and ledger reads, `Unseat`/`Seat` an operator's
bindings, `Resolve` the lifecycle transition, `PassDeadline` wall time, and
`Maintain` the pump's `_protocol_maintenance`: expiry first, then the sweep that
seats a session for every recoverable role without an owner, in one transaction.

Abstracted: a payload is a VERIFY's result and one of a few texts, since the
code compares only these; the author of an act is the role's own session
(workers are in `DebateOwnership`); a signal check and the delivery marker it
leaves are folded into `Advance`, which may move to any visible addressed
message; CLAIM and ESCALATE are posted without `reply_to`; a legacy DECISION as
a target of DISSENT does not occur, since debate/v1 rejects that kind.
`adaptive_wait_decision` and the scheduler log carry no state another handler
reads.

Runs:

- `protocol` has three parts. *rounds*: two rounds, six messages: both claims, a
  challenge of each round, a rebuttal and verifications of either result, in
  every order, with the deadline passing anywhere. Two rounds are needed for a
  challenge of an *earlier* round to be open when the last is verified. *judge*:
  one round, verdicts with two decisions on both orders, while two roles may
  escalate, one dissents, the judge loses its seat and the topic resolves.
  *inbox*: the inbox of a role in a debate/v1 topic (`DebateChannel`, below).
- `liveness` has the part *protocol*: opposing roles of which one has no owner at
  first, operators that unseat a role over and over. `ProtocolFair` assumes that
  a running deadline eventually passes and that the pump eventually runs its
  maintenance when it has something to do: `main` of hooks/debate_pump.py calls
  `_protocol_maintenance` at the head of every cycle, before the resource budget
  can pause dispatching (an operator who disables the pump stops this too).
  Nothing is assumed of the roles, who may all stay silent.

`MCDebateLiveness` restates the fairness of each module's `FairSpec` for the
instance that runs, since TLA+ asks for it in terms of the variables of the
composed behaviour; the conjuncts are the same.

The runs of this module use no symmetry: the roles differ. Deadlock is not checked, since STOPPED
and ESCALATED are meant to be final.

Every safety property is proved (`DebateProtocol_proofs`) for any roster with
two opposing roles, any acts and any bounds with `MaxRounds` positive. The
proofs rest on `StepShape`: a step either drifts (owners, cursors, clocks,
lifecycle, expiry), reads, posts an act in one of its ways, prepares or records a
verdict. Over it:

- `ForwardOnly` and `TypeCorrect` need no strengthening.
- `IndependentClaims` needs `Barrier`: nothing is released in BLIND_CLAIM, a
  release is of both commits at once, and whoever was shown the other's claim
  has committed.
- `RoundsAreCounted` needs `Rounds`: no two verifications carry the same round,
  and while the debate is open all of them are of earlier rounds.
- `SettledBeforeJudged`: the property is inductive, given what acts the phases
  accept.
- `StopsByAgreement` needs `Judged`: verdicts exist for a stored pair of opposing
  positions only and never come from an opposing role.
- `HumanAskedOnce` needs `OnePacket`: packets exist exactly in ESCALATED, which
  accepts no further act, and they name stored messages.

`InboxMissesNothing` states `OwnerMissesNothing` of the behaviours the run `protocol`
checks, without the constraint `InboxBound`: each of its steps is a step of the inbox
or leaves it alone, and an instance of `DebateChannel_proofs` supplies `NothingMissed`
for it. It assumes that the role, the sessions and the values of a claim differ
(`InboxConstants`), as model values do.

Liveness (`TimedPhasesEnd`, `RolesRecovered`) is model-checked only.

## DebateChannel

The inbox of one role in one topic: who reads it, how far, and what counts as
read.

| variable | code |
|---|---|
| `msgs` | `debate_messages` and `debate_message_recipients` |
| `released` | the `released_at` of `debate_blind_commits` |
| `binding` | the rows of `debate_role_bindings` for the role |
| `cursor`, `delivered` | `debate_signal_state`, `debate_signal_deliveries` |
| `watermark` | `debate_watermarks` |
| `claim` | `debate_message_claims` |
| `answered` | which messages have a terminal reply of the role |
| `completed` | `debate_delivery_queue` |
| `shown`, `pageEnd`, `walked`, `seated`, `ledger`, `signed`, `reclaimed` | history: what checks returned, whether a session walked the inbox from a point of its choice, when the owner was seated, the furthest WATERMARK, the furthest an owner advanced or a rotation put an owner beyond the one before, what sweeps took back |

`Check` is `debate_signal_check` with its writes in order: the owner's cursor is
reconciled with the watermark, the page is selected past it or past an explicit
`since_msg_id`, one-shots of the page are claimed or dropped, debate/v1 notes
how far it delivered. `Advance` is `debate_signal_advance`; `Post`,
`WatermarkPost`, `Answer` and `Release` are what the posts of any session do to
this inbox; `Reclaim` is the pump's sweep of stale claims; `BindActive`,
`BindDiagnostic`, `BindRetired` are `bind_role_session`, `Rotate` is
`rotate_role_binding` with each cursor mode, `Sweep` the recovery of
a role without an owner, and `Complete` one row of the pump's
`_complete_pending_deliveries`, with the evidence it asks of each recipient.

A rotation says where its successor begins: at the last message of the ledger whoever
read it (`head`), at the predecessor's cursor (`copy`) or anew (`replay`). `copy` takes
the furthest cursor of the predecessor and of its completed workers; workers are not
part of this model, so the model lets it be any position from the predecessor's on. A
predecessor may be its own successor. So cursors do move back, and an owner may stand
past messages nobody of the role read, because an operator said so: `CursorsForward`
and `CompletedByOwner` name that case, and no other.

Abstracted: a message id is its position, since timestamps are taken inside the
write transaction, and the clock is assumed not to step back (`hazards` names
what happens if it does). A page ends at a message, never inside equal
timestamps. `since_ts` is a `since_msg_id` in other words. Messages carry the
vehicle *implementation*, which workers may not take: the inbox is their only way
to the role, and `_trigger_is_terminal` never holds their completion back; a worker's own scoped inbox and its provenance are left out.
The WATERMARK message itself is not a row of `msgs`. A claim may be stale at any
time. The launch receipts of the pump, human and suppressed roles, rows of other
recipients and heartbeats (which do not move a cursor) are left out.

Runs:

- `channel_legacy`: a topic without debate/v1: one-shots addressed to the role
  and to a diagnostic session at once, messages to the diagnostic session alone,
  two sessions that may own the role, pages of one. Two messages suffice for a
  watermark that moves back and for a cursor between them. `LegacySpec` leaves
  out the two actions a legacy topic cannot take (`Release`, `Sweep`).
  `LegacyBound` lets one message be completed, one answered and one taken back:
  the properties speak of one message at a time, and of cursors, which none of
  the three move. The two owners are alike (`Symmetry`); `CursorsForward`
  compares each session with itself, so symmetry is sound for it. The view
  `WithoutSeat` drops `seated`, which matters to debate/v1 only, and what a legacy
  topic leaves constant.
- the part *inbox* of `protocol`: debate/v1 with three messages, pages of one,
  standing rows that come back on every page, blind commits, a session bound by
  operators and one that the sweep may seat. Three messages are needed for a page
  to end before a message an earlier marker covers. `InboxBound` leaves out what
  the property does not promise anything about: sessions that walk the inbox from
  elsewhere, completions and replies (neither moves a cursor in debate/v1), a
  WATERMARK that moves back (`channel_legacy` has it), what an unbound session
  read before the role had its first binding, and owners that are seated once the
  ledger of the instance is full, who have nothing ahead of them to miss. The view drops the variables these
  leave constant and `signed`, which nothing the property reads depends on.
- the part *channel* of `liveness`: a one-shot held by a session that lost its
  seat reaches whoever stays the owner. `ChannelFair` assumes that an owner keeps
  calling the default check, the first thing the prompt of hooks/debate_wake.py
  tells every woken session to do, and that the pump keeps reclaiming: the loop of
  `main` in hooks/debate_pump.py calls `reclaim_stale_message_claims` at a fixed
  interval. Neither holds while an operator has disabled the pump. The page holds
  the whole inbox (`Limit` is at least `MaxMsgs`): sticky one-shots fill smaller
  pages and no fairness of checks alone gets past them. Operators may unbind
  owners at will.
- `channel_recovery` expects a violation of `CompletedByOwner`: the sweep seats a
  session at the largest cursor of *any* session bound to the role. A
  diagnostic session reads only what is addressed to itself, so its cursor can be
  past messages to the role that nobody of the role was shown; the new owner
  never sees them, and the pump completes their delivery on its cursor.
  docs/DEBATE_PROTOCOL.md calls diagnostic bindings isolated. `RecoveryBound`
  makes the diagnostic session read nothing but its own messages, so that the
  counterexample has no other cause.
- `channel_receipt` expects a violation of `AcknowledgedWasShown`: src/schema.py
  says that an advance cannot acknowledge a message that was never returned to
  that session. The code keeps the greatest delivered position, and a blind
  commit that is released behind it can be acknowledged unseen.

Deadlock is not checked: a full ledger with everything read and completed may stop.

Every property of the passing safety runs is proved (`DebateChannel_proofs`), for
any sessions, forms, page size and ledger bound, with no constraint:

- `TypeCorrect` and `CursorsAreMonotone` rest on `LastIsMax` (a nonempty bounded
  set of positions has a last one) and `ReconciledForward` (a projected watermark
  only moves a cursor forward, and not past itself). A rotation to the head moves
  forward too (`RotateEffect`), so that `SetBack`, a rotation that copies or resets, is
  the one exception.
- `OneShotExclusive` needs `ShownIsHeld`: a one-shot that a session was shown is
  claimed by it, or done, unless a sweep took it back. The property alone would
  allow a free claim on a message somebody already holds.
- `CompletionsAreEarned` assumes a topic without debate/v1 whose operators never
  bind one session both as owner and as diagnostic (`Legacy`); without the first
  the statement is false (`channel_recovery`), and without the second a session
  promoted from diagnostic brings its cursor along. It needs `CursorsEarned`: the
  cursor of a session that may own the role rests on an owner's advance, on a
  rotation or on a WATERMARK. Its last part says that a direct delivery is completed
  for diagnostic sessions only, which no rotation seats: their cursors never go back.
- `NothingMissed` needs `Reached`: the property for the delivery marker as well
  as for the cursor, `next_cursor` behind the marker and the watermark behind the
  furthest one; `PageIsPrefix` says that a page has no holes. Blind commits are
  excluded by `RoleMessages`: they become visible behind cursors that passed
  them, and an owner that walks from a point of its choice is on its own.

- `ReceiptsVouch` says how far the read receipt of `channel_receipt` does hold. An
  advance that debate/v1 accepts is to a message that a check returned to that
  session, except in five cases (`Excused`): a session that is not the owner or
  walked from a point of its choice, a blind commit or a message that is not to the
  role, a message from before the owner was seated, and one that the role's WATERMARK
  covers. That follows from `Reached` at the step.

`OneShotReachesOwner` is model-checked only.

## DebateWake

How an addressed message (a *trigger*) reaches a worker process.

| variable | code |
|---|---|
| `posted`, `answered` | `debate_messages` to the role, and the classes of its terminal replies |
| `seat`, `generation` | the active row of `debate_role_bindings` |
| `cursor`, `watermark` | `debate_signal_state` of each session, the role's row of `debate_watermarks`: the newest trigger they cover, 0 when absent |
| `vouched` | history: the furthest trigger an owner read to, a WATERMARK named, or a binding put its new owner at |
| `claim`, `latest` | `debate_worker_claims`, and the youngest row of a trigger |
| `wake` | `debate_wake_log.result` of (session, trigger) |
| `receipt` | `external_agent_spawn` events: process and confirmed binding |
| `pending` | open rows of `debate_delivery_queue` |
| `procs` | worker processes of the machine |
| `job` | a launcher's place in the pipeline and what it read on the way |
| `scan`, `passed`, `children`, `census`, `launched` | the pump: rows left, file cursor, its own children, live workers counted, workers launched by this scan |
| `hooked`, `faults` | whether posting sessions have the hook; crashes and lost receipts so far (bound) |

The hook of the posting session and the resident pump run the same pipeline, one
transaction after the other, and nothing is held in between: `Resolve`
(`prepare_wake_dry_run`), `Snapshot` (`_routing_binding_snapshot`),
`ClaimTarget` (`claim_worker_session`), `Launch` (`Popen`), `Receipt`
(`_record_real_spawn`), `Mark` (`_mark_source_wake_result`); `Refuse` is a failed
preflight. `Crash` kills a launcher anywhere. Workers report or exit; the role is
answered by its parent or changes hands; claims age and `Recover` retires those
without a live process. The owner reads on (`Reads`, signal_check with
signal_advance), the role posts a WATERMARK, which overwrites the older one and drags
the owner's cursor along (`PostWatermark`), and a handover seats the next owner where
its own cursor was, at the start, or anywhere from the former owner's on (`StartsAt`:
bind_role_session and the modes of `rotate_role_binding`; after a vacancy, where
the sweep may inherit any cursor, anywhere). `BeginScan`, `NextRow` and their cases are the loop of
the pump with its queue, its file cursor, its reserved slot and its throttles.

Abstracted: one topic and one role; a pid is the smallest number nothing names any
more; the recovery interval and the 120 seconds of a claim are `Ages`; which
replies the ledger admits is in `DebateOwnership`, what a session may read before
it advances in `DebateChannel`. A rotation of a session onto itself is left out (it
changes no seat; its cursor is in `DebateChannel`). Suppressed roles, diagnostic and human
recipients, blind replay, the tiers of the resource budget (their limits are
constants) and the single-instance lock of the supervisor are left out.

- `wake`: one trigger, hook and pump, one retry, and one disturbance: a crash, a
  lost receipt, a handover, or an owner or WATERMARK that comes past the trigger;
  for the pump without the hook also a handover together with reading
  (`OneDisturbance`). With the hook, behaviours in which two workers run after the
  role changed hands are not followed further; the proofs cover them. `ClosedIsSettled`: no launcher marks open work as closed.
  `OpenIsQueued`: the file cursor may pass a trigger in flight, and its retries may
  be spent, but what nobody answered, no worker declined and nobody put behind the
  role (`vouched`) stays in the queue. The pump does complete a delivery with spent
  retries once the owner's cursor or a WATERMARK is past it (`Acknowledged`), though
  nobody ever answered it: that is the code's meaning of reading, and the property
  says no more than it. `TwinsAreExplained`: two processes of one worker come only
  from two launchers, a crash, a lost receipt, or a former owner that is back in its
  seat, whose claim is no longer the youngest one of the trigger. The last is an
  exception the property makes, not something the run shows: it has one handover.
  `ServesAsJobs`: the pipeline implements `WakeJobs`, in which a trigger waits,
  is worked on, returns when its worker is lost - to waiting, or to declined if an
  earlier owner's worker had declined it - and is answered once;
  at most `MaxRequeues + 1` workers of an owner are ever allocated. The
  refinement mapping reads the phase of a trigger from its replies and claims.
- `wake_duplicate` expects a violation: hook and pump each resolve a trigger
  before either claims it, and `claim_worker_session` hands the same active claim
  to both, so two processes serve it. A comment of hooks/debate_pump.py says the
  claim prevents this.
- `wake_starvation` expects a violation: rows whose retry budget is spent stay
  pending and fill the newest and the reserved oldest slot; a trigger between
  them, passed by the file cursor, is in no scan any more, although its worker
  died. A comment says the reserved slot prevents starvation. It takes an owner that
  neither reads nor posts a WATERMARK (`Reading` is FALSE here): once its cursor
  passes the spent rows they are completed and the slots are free again. The limit
  of the run is 2 rows; in production it is 3, 5 or 10, and it takes as many spent
  rows.
- the part *wake* of `liveness`: `EveryTriggerCloses`, with two triggers and a
  pump that may run one worker. `WakeFair` assumes a supervised pump that keeps
  scanning and finishes what it dispatches, a recovery interval that elapses
  again and again, a runtime that is not refused for ever (strong fairness of
  `ClaimTarget`), workers that end and time that passes. The owner reads nothing
  (`Reading` is FALSE): a cursor past a trigger lets the pump complete the delivery
  of a terminal trigger only, and no handover is allowed that could open it again,
  so the harder case is the owner that does not help. Two triggers are too few
  to starve a third.

Every property of the run `wake` is proved (`DebateWake_proofs`), for any finite
set of sessions, any handovers (in the run the role is handed over one way), any
number of triggers, limits and faults. `ClosedIsSettled`, `OpenIsQueued` and
`TwinsAreExplained` are not inductive; the invariant `SafetyInv` adds

- `TypeInv`: the rows of launchers and scan have their types, and there are
  finitely many processes. From this follows that the pid of a new process is not
  taken (`NewPidFresh`), hence `PidsUnique`;
- `ClaimsOfOwners`: an active claim is the owner's, and while the role was handed
  over at most once the owner's claim on a trigger is its youngest;
- `CursorsVouched`: no owner's cursor and no WATERMARK is beyond `vouched`, also
  where a rotation moved a cursor back. So a delivery completed on a cursor or a
  WATERMARK is of a trigger vouched for, and one completed on a receipt of a closed
  row is of a trigger its worker declined (`AcknowledgedIsOver`);
- `ClosingIsSettled`: a launcher on its way to close a trigger found it settled,
  and settled it stays, since no admission takes up an answered, completed or
  exhausted claim;
- `OneByOne`: while the pump is alone, nothing was lost and no former owner can be
  back, every live worker is named by the receipt of its claim or by the pump that
  is about to write it. So the sweep leaves its claim alone, the trigger is not
  demanded, and the pump is in no dispatch that could start a second worker.

`WakeServes` is the refinement. `ClaimSteps` says what a step may do to the claims
of a trigger; over that each step is a step of `WakeJobs` or a stutter. The bound on
workers needs a count: the allocations of a trigger grow by exactly one with each
admission, and never exceed the sum of the owners' budgets.

`CapAlone` is about `--max-concurrent-workers`. Where no session has the hook
installed and the pump itself does not die, no more workers run than the option
says (`CapRespected`), however many receipts are lost, workers die and owners
change: every live worker is a child of the pump, and once the throttle let a
row pass, a place stays free until its launch (`Capped`). Both conditions are needed.
The hook does not look at the cap. A restarted pump counts the workers that outlived
the old one when a scan begins, and takes the larger of that count and of its own
children (`Throttled`). TLC finds the cap exceeded in either case.

## BridgeSync

One task on several machines, each with a database and a clone.

| variable | code |
|---|---|
| `row` | `tasks` and `task_field_versions` of the task: status, its version and value, priority, the push stamp of a tombstone, and whether its retention is over |
| `ledger`, `last` | the status events of `memory_events`; `memory_cursors.last_clock` |
| `remote`, `tree` | origin/main and the work tree: task entry, ledger file, clock |
| `behind`, `ahead`, `staged` | the clone against the remote; an uncommitted export |
| `phase`, `dirty`, `fresh` | the cycle; what changed after `last_push_at`; what changed after this cycle's export snapshot |
| `wall`, `world` | true time in edits; the bounds and clock leads of a behaviour |
| `unseen`, `gone`, `united`, `overruled`, `faults` | history: a push not merged yet, the key of a purged tombstone, a clone was merged by hand, a tombstone expired although the ledger showed the task (`Expires`), crashes and lost pushes |

`Fetch`, `ImportLedger`, `MergeTasks`/`RefuseMerge`, `Export`/`EndCycle`,
`Push`/`RejectedPush`/`FailedPush` and `Record` are the phases of `_main_locked`,
each a transaction or a git command of its own; users write (`SetStatus`,
`SetPriority`, `Confirm`), tombstones age and are purged, and workers crash
between any two of them. `Resolve` is `_resolve_task_status_authority`,
`TombstoneRow` and `FieldMergeRow` the two branches of `merge_import_tasks`,
`Reconcile` the git merge driver.

Abstracted: of a task the status and the priority (every other field merges like
the priority); a version is clock and writer; a value is named by the edit that
wrote it. `MergeByHand` and `ResetByHand` are what an operator does with a clone
the worker refuses to touch: an export that was staged when its worker died is
not rebuilt by the preflight, and the next fast-forward refuses to overwrite it.
A merge by hand unites the one-line ledger files by lines and leaves one the
import cannot read, so that the entry travels without its events. `Age` lets a
retention window end only after every machine has imported. `mark_tombstones_pushed` reads the
status after the push, not the one that was pushed (`Stamps`).

The part *sync* of `task_store` has two machines in four worlds (`MCWorlds`): two
edits and a fault; two edits of any kind; three edits of the status; two edits
with one clock ahead. Two machines and two edits meet in every pairing of
deletion, reopening, confirmation and change; the third edit gives a reopening
of a reopening. A machine is numbered since ties of the clock are broken by name.

- `NoResurrection`: a purged task is visible again only by an edit that made it
  visible later than the deletion. `NoSilentReopen`: a merge, a repair or a
  confirmation opens a hidden row only by an edit that saw it hidden.
- `WatermarkSafe`: what a machine counts as pushed is on the remote, in all worlds
  and at any step of its cycle.
- `QuietAgree`: whenever all cycles are over and nothing is left to push, fetch,
  merge or confirm, the machines show the same. It takes the place of a
  convergence property under fairness. A clock that runs ahead breaks it, as the
  other machines clamp a version its own machine keeps; so it is stated for clocks
  in step. So does a retention window that ends on a status conflict nobody
  settled (`overruled`), with three edits and a crash: one machine deletes the task
  and pushes; another, with a newer visible status, imports the deletion and keeps
  its own, but crashes before its export; when that export arrives, the tombstone
  is past its window, so the first machine neither exports nor keeps it, and its
  next full export unlinks the file (`export_task_files`). The second machine shows
  the task for ever and the first one does not, with nothing left to do on either.

`NoSilentReopen` holds of all behaviours; the other three are stated for those in
which no clone was merged by hand (`united`), and each fails after such a merge:

- `WatermarkSafe` and `QuietAgree` with three edits and a lost push: the united
  ledger file is not imported, so the next export of that machine replaces a remote
  ledger that held events of the other one, which counts them as pushed; and a
  driver that has raised a tombstone above two clocks writes a version of the
  future, which the others clamp and it does not;
- `NoResurrection` with three edits, a lost push and a clock that runs ahead: the
  deletion gets a clock from the future, the ledger that carries it is lost in the
  merge, so the machine that reopens the task counts from its own clock and the
  reopening is older than the deletion. The other machine drops its tombstone after
  the window, and the task comes back on it by that older edit. The world with a
  clock ahead has no lost push, so `task_store` does not reach this; a longer run
  does. With clocks in step neither three edits with two lost pushes nor four with
  one reach it.

Proofs (`BridgeSync_proofs`, `BridgeAgree_proofs`) hold for any machines that can be numbered 1 to 7
(a key packs a clock and a writer), any statuses, clock leads, edits, crashes and
lost pushes. The invariant `IInv` has three parts:

- about events: an event is not newer than what its writer's clock gave last, its
  writer still has it, and no two have one key. So a new event, at a clock above
  the last one, is new everywhere, and an import brings a machine none of its own.
  `MovesEvents` is all a step may do: move events, or write one. Every set of events
  is bounded, which is what makes "the newest" a member of it;
- about rows: the version of a row is below the next clock of its machine, whether
  it was written there, or merged and clamped (`RowPast`);
- the books, without merges by hand (`Accounted`): a clone with nothing to push
  holds nothing the remote lacks; a clone that is up to date, and a ledger that
  imported it, lack nothing the remote holds; an export nothing was written after
  has all events of its machine, and so has the remote when the machine is clean.
  An entry is at least as new as every event of the ledger beside it (`Covers`).

`OpensByAnEdit` is `NoSilentReopen`: `Merges` says that of all the ways to merge a
row only one opens it, the repair by an authority that found a reopening, and
`HistoryExplains` finds the edit in that history; a status written here gets a
clock above the row's by `RowPast`. `PushedIsRemote` is `WatermarkSafe`: since a
push goes through only from a clone that is up to date, the ledger of the remote
never shrinks, and what was recorded stays recorded. `SyncTypeCorrect` is `TypeOK`.

`NothingResurrects` is `NoResurrection`. It needs a second invariant, `Histories`,
of what a row and an entry owe to the ledger beside them:

- while no clone is merged by hand the version of a row, and of an exported entry,
  is the newest event of its ledger, whose status it shows (`Sourced`, `Faithful`;
  `NewestDecides`: then the authority is that event, whatever the field values
  say); only a row whose own event has not reached its ledger may be older;
- a machine with nothing to push, no row, or an aged one (`Quiet`) has nothing in
  its ledger that the remote, or the clone it exported to, lacks (`Complete`).
  So the event that hid a purged task stays in the ledger the purge left behind,
  and in every one this machine imports from (`Deleted`): an entry arrives with
  the deletion beside it, and one that is visible was written later (`Restored`).

The proof uses nothing of `Age` but that the row was pushed: an aged tombstone
is not exported any more, and must already be everywhere it matters.

`QuietMachinesAgree` is `QuietAgree`, proved in `BridgeAgree_proofs` for any number
of machines on top of both invariants. `Agreement` is what machines keep while their
clocks are in step, nobody merges a clone by hand and no window ends on a conflict:

- `Dates`: no clock and no priority is from the future, so nobody clamps, and a
  priority with the key of another one is that one (`Named`);
- `Booked`, `Shows`: what a machine has of others came through its clone; a push it
  has not missed is imported; a row is as new as the events of its own machine, and
  an event as new as the row says what the row says. Hence every merge has one of
  four outcomes (`MergeCases`): take over the newest event, repair the row by it,
  keep the row, or keep a deletion in conflict with it;
- `Current`: after a merge, and until another push comes, a row is not visible if
  its ledger is newest with a deletion;
- `AgedSafe`, `DropReady`, `Filed`: a deletion whose tombstone has aged, that the
  next export leaves out, or whose file is gone from a clone, is in the ledger of
  every machine and every clone, and nobody shows the task but by a newer event
  (`Safe`). This is where a file that is unlinked under a visible task would show,
  and why `overruled` is excluded;
- `Linked`, `Merged`, `Told`: priorities have no ledger, so they need books of their
  own. Under one visible status a clone never has an older priority than what it
  replaces (`Leads`), a merged row none older than its clone, and a clean machine's
  remote none older than the row, unless a newer status is on its way (`Holds`).

`StepAgreed` shows that every step keeps every part. When all machines are settled,
`Booked` and `Complete` make all ledgers equal to the remote's (`SettledIsRemote`).
If the newest event is a deletion, `Current` says nobody shows the task; if not,
`Filed` says the remote has its entry, and no pending merge means that each row has
taken over its status and a priority that is neither older (`Raised`) nor newer
(`Told`) than the entry's (`ShowsTheRemote`).

## TaskWriters

One machine's task table and who writes it.

| variable | code |
|---|---|
| `task` | a row of `tasks` with its field versions: the status, the event that authored it (0: none), the last transaction that wrote any field |
| `now`, `writes` | transactions so far (bound), and every write (history) |
| `token`, `undo` | the `StatusToken` a window rendered, its `SingleUseUndo` |
| `candidate` | `reflection_candidates` with the run's state, review state, decision, refusal, snapshot |

`Transition` is `transition_status` through the compare-and-set branch of
`apply_task_mutation`, `Undo` the single-use undo, `StartReflection`, `Decide`
and `ApplyRun` the tools of intel_server.py, `SetTaskStatus` every other status
change or import (with or without an event), `ArchiveDone`, `EditField` and
`PurgeTask` the maintenance. `ApplyRun` is one transaction: of the accepted
candidates of a task the first that is not stale is applied and makes the others
stale; a refused one needs a new review. A token is kept after a click although
`StatusSingleFlight` drops it until the window is reloaded: more than the code
allows.

The part *writers* of `task_store` has one task, two windows, two candidates and
four writes; `ClickingOrReviewing` keeps windows and reviews apart, which share
nothing but the task, and whose writes `SetTaskStatus` and `EditField` are for
each other. Four writes allow a status to go back and forth between sight and
click, and an archive, an undo and two more.

- `ClickFollowsSight`: between what a window saw and its write nobody wrote the
  status, not even back to the same value.
- `UndoRestores`: an undo follows the window's own archive and restores what that
  replaced, once.
- `AppliedAsReviewed`: between review and application nobody wrote any field;
  hence a candidate is applied at most once.

All three are proved (`TaskStore_proofs`) for any tasks, windows, candidates and
number of writes, assuming that windows, candidates and other writers are told
apart. The lemma `CommitKeeps` is about one transaction of any writes, at most one
of a task, each of which is `Sound`: it saw what its writer has to have seen. The
actions then only have to show that their writes are:

- for `ClickFollowsSight`, `EventIsLast`: the event of a row, if it has one, is
  that of its last status write. So a token that still names the event of its row
  is younger than every status write. A row whose status came without an event
  has no such evidence, which is why it cannot be clicked;
- for `AppliedAsReviewed`, `LastIsLast` and `CandidatesOK`: a row that equals the
  reviewed one was not written since;
- for `UndoRestores`, `UndosOK`: an undo token names an archive of its window that
  is among the writes and that no write has taken back.

## DatabaseBackup

`create_backup`: `entry` is the root directory with what each generation holds,
`step`, `stamp`, `attempt` and `stale` are a run's place, its second, the names it
found taken and what it has yet to remove; `published` and `stuck` (generations
whose last removal left them whole) are history. A name is the
second with a variant; a run reserves it by `mkdir`, publishes by rename, or, on
Windows, by moving database and manifest one after the other, and then removes
what its own listing names, oldest first. `shutil.rmtree(stale, ignore_errors=True)`
does what it can: it removes the directory, some of its files or nothing, and the run
goes on as if it had (`pruned` of the manifest names it all the same). Runs overlap,
fail and die at any step; the clock may step back. Up to nine variants of a second sort by number; the code
allows a hundred, and with ten of one second the tenth sorts before the second.

The part *backups* has two runs, three seconds of which two are taken, two
variants and two generations to keep: enough for a collision, an exhausted name,
two runs that list before either removes, and a clock behind both generations.

- `NewestKept`: the `Keep - 1` newest generations ever published are there. The
  `Keep`-th need not be: two runs that list before either removes each make room
  for themselves. With `Keep = 1` they may remove each other's, and say so.
- `RetentionHolds`: when the runs are over and none died, at most `Keep` are left
  besides those that a removal was tried on and left whole (`stuck`; the next run
  lists them again and tries anew), and one more for each run torn between its two
  moves.

The second exception is real, though it takes four runs and a clock that steps back,
where a rename cannot publish. Two runs list the same old generation and one
removes it. A run whose clock reads that second again reserves the name and moves
its database in; the other lister removes the directory; a fourth run reserves it
once more. The second run's manifest then lands in the fourth run's directory.
When the fourth moves its database in and fails before its manifest, what is left
is a whole generation that no listing saw, of one run's database and the other's
manifest. The docstring of `_publish_generation` calls what an interrupted move
leaves "something inert". The proof of the earlier, stronger statement failed at
exactly this step, and an instance with four runs has the trace.

`NewestKept` is proved (`TaskStore_proofs`) for any number of runs, any clock,
any number of variants up to nine and any `Keep`. A generation is *dispensable*
once `Keep - 1` later ones were published, and stays so, since nothing is ever
unpublished (`StaysDispensable`). The invariant says that whatever is missing, and
whatever any run has listed for removal, is dispensable. Two of its parts are
about runs in each other's way: a directory with a manifest was published
(`ManifestLast`), and a run that has moved its database into the directory either
still finds it there when the manifest follows, or the directory's name was in
use before and is dispensable (`DatabaseThere`): the clock stepped back, the name
was free again, and a run that had listed the old generation removed the new one.

`RetentionHolds` is proved by counting (`WithinKeep`). A run that lists marks all but
`Keep` of the generations it sees (`ListSpares`, from `FewAtTop`: of a finite set of
names at most n have fewer than n above them). After that, a generation that no
list names and no run is still moving can only come from a run that publishes, or
is torn; a listed one that could not be removed is in `stuck`, which only names
generations that are there (`BackupTypeOK`); and a run that publishes lists before it
ends, which starts the count anew. In the end the lists are empty and nothing is in between.

`StoreTypeCorrect` is the type invariant of the whole run `task_store`
(`StoreTypeOK`): a behaviour of `PartsSpec` is one of each part (`PartsBehave`),
so the type theorems of `BridgeSync_proofs` and of the two other parts apply.

Left out: `_prune_stale_incoming` and the retry of a database that must be
recovered before it can be read.

## AutoSync

Who starts a sync and takes note of it: a tool writes, its hook marks the dirty
flag and, ten minutes after the last noted sync, launches a worker; workers
exclude each other by a lock file (created, stamped with a pid, judged stale,
removed: four steps), workers and tray by a lock on the repository. The database
is the number of its writes, and so are the local branch and the remote. A push
that fails sets the backoff of its process (`_push_backoff_until`), which `main` asks
before it takes any lock; a worker is a new process, the tray keeps its backoff until
it ends with time, and its pulls do not ask.

`auto_sync` expects a violation of `NotedMeansSent`. A result that is neither
pushed nor blocked goes to `fix_remote_ahead`. Three such results come without an
export that lasts: the repository was busy; the push lost a race and its commit was
dropped; or the cycle before saw its push fail, `fix_remote_ahead` made up for it,
a write that came meanwhile started another cycle, and that one is refused by the
backoff. Then the local branch equals the remote, the push has no effect and
succeeds, and the worker notes a sync and deletes the dirty flag. The shortest
trace meets the tray in its sync; each of the three is found when the two others are
taken away, and without the three the property holds of the same instance.
`_sync_block_message` tells of the same outcome as a defect that its rule ended.

Proofs (`AutoSync_proofs`) hold for any workers and any number of writes. That the
tray, the workers and nobody are different (`Distinct`) is a hypothesis of the
theorems.

- `RepositoryExclusive`: at most one of tray and workers is at work in the
  repository, however many lock files were judged stale and however many workers run
  side by side. The lock file excludes nobody for sure; the repository lock does. The
  remote is never ahead of the local branch, nor that of the database, although
  `fix_remote_ahead` pushes without the lock.
- `NotedIsSentOtherwise`: in behaviours in which no worker is told that a sync runs
  or that its process backs off, and no commit is dropped (`Honest`),
  `NotedMeansSent` holds. The remote may be
  unreachable, a repository blocked or diverged; hooks, workers and tray overlap as
  they like. So the three causes above are all there are. The invariant (`Brought`)
  says of each place of a worker how far the writes it found at its start have come.
  None of them can be dropped from the hypothesis: TLC finds `NotedMeansSent`
  violated with each of them alone.

## What is not modelled

The components with status `not_modelled` in `PROJECT.json` carry the reason. In
the modelled ones these are left out:

- liveness of the bridge: that machines which keep syncing converge is only
  checked as agreement in quiet states, and the debounce timers of the tray
  (`tray_sync.py`), which stop while a sync runs, have no model;
- other fields, attachments, shared notes and entities of the bridge, the safety
  valves that compare contents, peers, releases and deployment;
- the recurrence rules of tasks: calendar arithmetic on one row;
- the resource budget: it reads load and memory and sets the limits `DebateWake`
  has as constants;
- premium, collaboration, retrieval, reports and user interface.

Liveness is beyond the proofs here: `TimedPhasesEnd`, `RolesRecovered`,
`OneShotReachesOwner` and `EveryTriggerCloses` are checked on instances only. Every
other property of a passing run is also a theorem. Of the properties that the runs
expect to fail, `NotedMeansSent` and `ResolvedMeansAnswered` are theorems of the
behaviours without the causes the runs show, and `ReceiptsVouch` and
`CompletionsAreEarned` do the same for `AcknowledgedWasShown` and `CompletedByOwner`.
`OneRunner` needs no theorem of its own beside `TwinsAreExplained`; `NothingStarves`
has none: it fails as soon as spent rows fill the slots of a scan, and nothing in the
code limits their number. `hazards` names, with a note, what no
property covers.
