----------------------------- MODULE BridgeSync -----------------------------
(***************************************************************************)
(* One task replicated between machines through a git repository.  Every   *)
(* machine has a SQLite row with field versions, a ledger of status        *)
(* events and a clone of the repository; its sync worker fetches, imports  *)
(* the ledger, merges the task, exports, pushes, and only then records     *)
(* what the remote holds.  Users edit between any two of these steps.      *)
(*                                                                         *)
(* A version is the packed logical clock of a field and the machine that   *)
(* wrote it; ev is the clock of the ledger event that authored it (0 for   *)
(* none).  The value of priority is named by the edit that wrote it.       *)
(***************************************************************************)
EXTENDS Naturals, FiniteSets, FiniteSetsExt

CONSTANTS Machine,      \* machines, numbered: the writer breaks clock ties
          Status,       \* the statuses in use
          NoTask,       \* no row, or no task file
          Worlds        \* bounds: how many edits of users and to what, how
                        \* many crashes or failed pushes a behaviour has, and
                        \* how far each wall clock is ahead

ASSUME MachineAssumption == Machine \subseteq 1 .. 7 /\ Machine # {}
ASSUME StatusAssumption == {"todo", "archived"} \subseteq Status
ASSUME WorldAssumption ==
  Worlds \subseteq [edits : Nat, faults : Nat, uses : SUBSET (Status \cup {"priority"}),
                   lead : [Machine -> Nat]]

VARIABLES
  world,      \* the world of this behaviour
  wall,       \* true time, in edits
  last,       \* last[m]: memory_cursors.last_clock of m
  row,        \* row[m]: tasks and task_field_versions of the task
  ledger,     \* ledger[m]: the status events of memory_events
  remote,     \* what origin/main holds
  tree,       \* tree[m]: the working tree of m's clone
  behind,     \* behind[m]: origin/main moved since m fetched
  ahead,      \* ahead[m]: m has a commit origin/main lacks
  staged,     \* staged[m]: m's index holds an uncommitted export
  phase,      \* phase[m]: how far m's sync cycle is
  dirty,      \* dirty[m]: something changed after bridge_meta.last_push_at
  fresh,      \* fresh[m]: something changed after the cycle's export
  unseen,     \* unseen[m]: a push of another machine m has not merged yet
  gone,       \* gone[m]: the key of the tombstone m purged (history, 0: none)
  united,     \* an operator merged a clone by hand (history)
  overruled,  \* a tombstone expired over a visible authority (history)
  faults

vars == <<world, wall, last, row, ledger, remote, tree, behind, ahead, staged,
          phase, dirty, fresh, unseen, gone, united, overruled, faults>>

Hidden == Status \cap {"archived", "cancelled"}
Phases == {"idle", "fetched", "ledgered", "merged", "staged", "pushed"}

-----------------------------------------------------------------------------
(* Versions.  Two units of the clock are one instant of wall time.         *)

Key(v) == 8 * v.order + v.by
Clock(m) == 2 * (wall + world.lead[m])

\* A clock from the future of the machine that reads it is read as now.
Clamp(m, v) ==
  [v EXCEPT !.order = IF v.order > Clock(m) + 1 THEN Clock(m) ELSE @]

NextClock(m) == Max({2 * (wall + 1 + world.lead[m]), last[m] + 1})

Newest(S) == CHOOSE e \in S : \A f \in S : Key(e) >= Key(f)

EventOf(v, L) == {e \in L : e.order = v.ev /\ e.by = v.by}

-----------------------------------------------------------------------------
(* Status authority.  A state has the status of the row, the version of    *)
(* the field and the value stored with it ("none" if the version came      *)
(* without one).                                                           *)

\* Between a closure and a later event the status was opened again by an
\* edit that replaced the hidden status it found, and not hidden since.
HistoryReopens(closure, upto, L) ==
  LET Span == {e \in L : Key(closure) < Key(e) /\ Key(e) <= Key(upto)}
      Closures(e) == {closure} \cup
                     {f \in Span : f.new \in Hidden /\ Key(f) < Key(e)}
  IN \E e \in Span :
       /\ e.new \notin Hidden
       /\ e.old = Newest(Closures(e)).new
       /\ \A f \in Span : f.new \in Hidden => Key(f) < Key(e)

Cand(value, v) == [value |-> value, order |-> v.order, by |-> v.by, ev |-> v.ev]

\* Bug: a version that came without a value counts as one.
FieldCandAny(st) == {Cand(st.fval, st.sv)}

FieldCand(st) == IF st.fval = "none" THEN {} ELSE {Cand(st.fval, st.sv)}

Head(L) == IF L = {} THEN {} ELSE {Newest(L)}
EventCand(e) == Cand(e.new, [order |-> e.order, by |-> e.by, ev |-> e.order])

\* The value of the field, and the events of its author and of the newest key.
Cands(st, L) ==
  FieldCand(st) \cup {EventCand(e) : e \in EventOf(st.sv, L) \cup Head(L)}

\* The newest; the value of the field before an event of the same key.
Chosen(st, L) ==
  LET cands == Cands(st, L)
      Best == Newest(cands)
      Equal == {c \in FieldCand(st) : Key(c) = Key(Best)}
  IN IF cands = {} THEN Cand(st.status, st.sv)
     ELSE IF Equal = {} THEN Best ELSE Newest(Equal)

\* The history between the event that hid the state and the chosen one.
Reopens(st, L, chosen) ==
  /\ st.status \in Hidden
  /\ chosen.value \notin Hidden
  /\ st.fval \in {"none", st.status}
  /\ \E c \in EventOf(st.sv, L), r \in EventOf(chosen, L) :
       /\ c.new = st.status /\ c.order = st.sv.order
       /\ r.new = chosen.value /\ r.order = chosen.order
       /\ Key(chosen) > Key(st.sv)
       /\ HistoryReopens(c, r, L)

Resolve(st, L) ==
  LET chosen == Chosen(st, L)
  IN [value |-> chosen.value,
      sv |-> [order |-> chosen.order, by |-> chosen.by, ev |-> chosen.ev],
      reopens |-> Reopens(st, L, chosen)]

\* Bug: newer visible authority opens a hidden row by itself.
BlockedNever(status, state) == FALSE

\* A hidden row whose authority is visible needs a confirmation.
Blocked(status, state) ==
  status \in Hidden /\ state.value \notin Hidden /\ ~state.reopens

State(r) == [status |-> r.status, sv |-> r.sv, fval |-> r.fval]
Authority(m) == Resolve(State(row[m]), ledger[m])

-----------------------------------------------------------------------------
(* What a machine exports of its row.                                      *)

Retained(r) == ~r.stamp \/ ~r.aged

\* Bug: only visible rows are exported, a deletion just loses its file.
ExportsVisible(m) == row[m] # NoTask /\ row[m].status \notin Hidden

Exports(m) ==
  /\ row[m] # NoTask
  /\ \/ row[m].status \notin Hidden
     \/ Retained(row[m])
     \/ Authority(m).reopens

ExportConflict(m) == Exports(m) /\ Blocked(row[m].status, Authority(m))

EntryOf(m) ==
  LET a == Authority(m)
  IN [status |-> a.value, sv |-> a.sv, pv |-> row[m].pv,
      tomb |-> row[m].status \in Hidden /\ a.value \in Hidden]

Payload(m) ==
  [entry |-> IF Exports(m) THEN EntryOf(m) ELSE NoTask,
   ledger |-> ledger[m], clock |-> last[m]]

-----------------------------------------------------------------------------
(* What a machine makes of an imported entry.                              *)

SentEvents(t) == EventOf(t.entry.sv, t.ledger) \cup Head(t.ledger)

EntryState(t) ==
  Resolve([status |-> t.entry.status, sv |-> t.entry.sv,
           fval |-> t.entry.status], SentEvents(t))

\* The preflight that refuses a contradictory payload before any write.
Contradictory(t) ==
  /\ t.entry # NoTask
  /\ \/ Blocked(t.entry.status, EntryState(t))
     \/ t.entry.tomb /\ EntryState(t).value \notin Hidden

NewRow(m, t) ==
  LET R == EntryState(t)
  IN [status |-> R.value, sv |-> Clamp(m, R.sv), fval |-> "none",
      pv |-> Clamp(m, t.entry.pv), stamp |-> FALSE, aged |-> FALSE]

NewerPriority(m, t, r) ==
  IF Key(Clamp(m, t.entry.pv)) > Key(Clamp(m, r.pv))
  THEN Clamp(m, t.entry.pv) ELSE r.pv

TombstoneRow(m, t, r) ==
  LET R == EntryState(t)
      Sent == Clamp(m, R.sv)
      Had == Clamp(m, r.sv)
      Wins == \/ Key(Sent) > Key(Had)
              \/ Max({Key(t.entry.sv), Key(R.sv)}) > Key(r.sv)
              \/ Key(Sent) = Key(Had) /\ r.fval = "none"
      pv == NewerPriority(m, t, r)
  IN IF Wins
     THEN [status |-> R.value, sv |-> Sent, fval |-> R.value, pv |-> pv,
           stamp |-> FALSE, aged |-> FALSE]
     ELSE [r EXCEPT !.pv = pv]

FieldMergeRow(m, t, r) ==
  LET R == EntryState(t)
      a == Authority(m)
      Repaired == a.value # r.status /\ ~Blocked(r.status, a)
      Current == IF Repaired THEN a.value ELSE r.status
      Guarded == Current \in Hidden /\ R.value \notin Hidden
      Sent == Clamp(m, R.sv)
      Had == Clamp(m, r.sv)
      Wins == /\ ~Repaired /\ ~Guarded
              /\ \/ Key(Sent) > Key(Had)
                 \/ Key(Sent) = Key(Had) /\ R.value # r.status
      Restamp == Wins /\ R.value # r.status
  IN [status |-> IF Wins THEN R.value ELSE Current,
      sv |-> IF Wins THEN Sent ELSE r.sv,
      fval |-> IF Wins THEN R.value ELSE r.fval,
      pv |-> IF Guarded THEN r.pv ELSE NewerPriority(m, t, r),
      stamp |-> ~Restamp /\ r.stamp,
      aged |-> ~Restamp /\ r.aged]

MergedRow(m) ==
  LET t == tree[m]
  IN CASE t.entry = NoTask -> row[m]
       [] t.entry # NoTask /\ row[m] = NoTask -> NewRow(m, t)
       [] t.entry # NoTask /\ row[m] # NoTask /\ t.entry.tomb ->
            TombstoneRow(m, t, row[m])
       [] OTHER -> FieldMergeRow(m, t, row[m])

-----------------------------------------------------------------------------
(* The git merge driver, for a merge made by hand.                         *)

\* Higher than both status clocks and than now.
Dominating(m, a, b) ==
  [order |-> Max({a.sv.order, b.sv.order, Clock(m)}) + 1, by |-> m, ev |-> 0]

\* The clock of the newer priority; a tombstone keeps its own value with it.
UnionPriority(a, b, value) ==
  LET newer == IF Key(b.pv) > Key(a.pv) THEN b.pv ELSE a.pv
  IN [newer EXCEPT !.val = value]

Reconcile(m, ours, theirs) ==
  IF ours = NoTask THEN theirs
  ELSE IF theirs = NoTask THEN ours
  ELSE
    LET tomb(x) == x.tomb \/ x.status \in Hidden
        kept == IF tomb(ours) = tomb(theirs)
                THEN IF Key(theirs.sv) > Key(ours.sv) THEN theirs ELSE ours
                ELSE IF tomb(ours) THEN ours ELSE theirs
        fresher == IF Key(theirs.pv) > Key(ours.pv) THEN theirs ELSE ours
    IN IF tomb(ours) \/ tomb(theirs)
       THEN [status |-> IF kept.status \in Hidden THEN kept.status
                        ELSE "archived",
             sv |-> Dominating(m, ours, theirs),
             pv |-> UnionPriority(ours, theirs, kept.pv.val),
             tomb |-> TRUE]
       ELSE [status |-> kept.status, sv |-> kept.sv, pv |-> fresher.pv,
             tomb |-> FALSE]

-----------------------------------------------------------------------------
Created == [order |-> 0, by |-> Min(Machine), old |-> "none", new |-> "todo"]

FirstRow ==
  [status |-> "todo", sv |-> [order |-> 0, by |-> Min(Machine), ev |-> 0],
   fval |-> "todo", pv |-> [order |-> 0, by |-> Min(Machine), val |-> 0],
   stamp |-> FALSE, aged |-> FALSE]

FirstTree ==
  [entry |-> [status |-> "todo", sv |-> FirstRow.sv, pv |-> FirstRow.pv,
              tomb |-> FALSE],
   ledger |-> {Created}, clock |-> 0]

Init ==
  /\ world \in Worlds
  /\ wall = 0
  /\ last = [m \in Machine |-> 0]
  /\ row = [m \in Machine |-> FirstRow]
  /\ ledger = [m \in Machine |-> {Created}]
  /\ remote = FirstTree
  /\ tree = [m \in Machine |-> FirstTree]
  /\ behind = [m \in Machine |-> FALSE]
  /\ ahead = [m \in Machine |-> FALSE]
  /\ staged = [m \in Machine |-> FALSE]
  /\ phase = [m \in Machine |-> "idle"]
  /\ dirty = [m \in Machine |-> FALSE]
  /\ fresh = [m \in Machine |-> FALSE]
  /\ unseen = [m \in Machine |-> FALSE]
  /\ gone = [m \in Machine |-> 0]
  /\ united = FALSE
  /\ overruled = FALSE
  /\ faults = 0

repo == <<remote, tree, behind, ahead, staged>>
cycle == <<phase, unseen>>

-----------------------------------------------------------------------------
(* Local writes.                                                           *)

\* A user or a tool writes the status: an event, its version, and the push
\* stamp of an earlier tombstone is dropped.
WriteStatus(m, s) ==
  LET c == NextClock(m)
  IN /\ wall' = wall + 1
     /\ last' = [last EXCEPT ![m] = c]
     /\ row' = [row EXCEPT ![m] =
          [status |-> s, sv |-> [order |-> c, by |-> m, ev |-> c], fval |-> s,
           pv |-> @.pv, stamp |-> FALSE, aged |-> FALSE]]
     /\ ledger' = [ledger EXCEPT ![m] = @ \cup
          {[order |-> c, by |-> m, old |-> row[m].status, new |-> s]}]
     /\ dirty' = [dirty EXCEPT ![m] = TRUE]
     /\ fresh' = [fresh EXCEPT ![m] = phase[m] \in {"staged", "pushed"}]
     /\ UNCHANGED <<repo, cycle, gone, faults>>

SetStatus(m, s) ==
  /\ wall < world.edits
  /\ row[m] # NoTask
  /\ row[m].status # s
  /\ WriteStatus(m, s)

\* A hidden row whose ledger says visible: the user confirms or reopens it.
Confirm(m, s) ==
  /\ row[m] # NoTask
  /\ Blocked(row[m].status, Authority(m))
  /\ s \in {row[m].status, "todo"}
  /\ WriteStatus(m, s)

SetPriority(m) ==
  LET c == NextClock(m)
  IN /\ wall < world.edits /\ "priority" \in world.uses
     /\ row[m] # NoTask
     /\ wall' = wall + 1
     /\ last' = [last EXCEPT ![m] = c]
     /\ row' = [row EXCEPT ![m] =
          [@ EXCEPT !.pv = [order |-> c, by |-> m, val |-> 8 * c + m]]]
     /\ dirty' = [dirty EXCEPT ![m] = TRUE]
     /\ fresh' = [fresh EXCEPT ![m] = phase[m] \in {"staged", "pushed"}]
     /\ UNCHANGED <<ledger, repo, cycle, gone, faults>>

\* The retention window passes after a push that every machine then imports.
Age(m) ==
  /\ row[m] # NoTask
  /\ row[m].stamp /\ ~row[m].aged
  /\ ~dirty[m]
  /\ \A p \in Machine : phase[p] = "idle" /\ ~unseen[p]
  /\ row' = [row EXCEPT ![m] = [@ EXCEPT !.aged = TRUE]]
  /\ UNCHANGED <<wall, last, ledger, repo, cycle, dirty, fresh, gone, faults>>

\* Bug: archived rows are deleted whether their tombstone was pushed or not.
PurgeUnpushed(m) ==
  /\ row[m] # NoTask
  /\ row[m].status = "archived"
  /\ row' = [row EXCEPT ![m] = NoTask]
  /\ gone' = [gone EXCEPT ![m] = Key(row[m].sv)]
  /\ UNCHANGED <<wall, last, ledger, repo, cycle, dirty, fresh, faults>>

Purge(m) ==
  /\ row[m] # NoTask
  /\ row[m].status = "archived"
  /\ row[m].stamp /\ row[m].aged
  /\ row' = [row EXCEPT ![m] = NoTask]
  /\ gone' = [gone EXCEPT ![m] = Key(row[m].sv)]
  /\ UNCHANGED <<wall, last, ledger, repo, cycle, dirty, fresh, faults>>

-----------------------------------------------------------------------------
(* The sync cycle.                                                         *)

\* Fetch and fast-forward.  A clone that diverged, or whose index holds an
\* export the incoming commit would overwrite, stops the cycle here.
Fetch(m) ==
  /\ phase[m] = "idle"
  /\ behind[m] => ~ahead[m] /\ ~staged[m]
  /\ tree' = [tree EXCEPT ![m] = IF behind[m] THEN remote ELSE @]
  /\ behind' = [behind EXCEPT ![m] = FALSE]
  /\ phase' = [phase EXCEPT ![m] = "fetched"]
  /\ UNCHANGED <<wall, last, row, ledger, remote, ahead, staged, dirty, fresh,
                 unseen, gone, faults>>

\* The ledger is imported in a transaction of its own.
ImportLedger(m) ==
  /\ phase[m] = "fetched"
  /\ ledger' = [ledger EXCEPT ![m] = @ \cup tree[m].ledger]
  /\ last' = [last EXCEPT ![m] = Max({@, tree[m].clock})]
  /\ phase' = [phase EXCEPT ![m] = "ledgered"]
  /\ UNCHANGED <<wall, row, repo, dirty, fresh, unseen, gone, faults>>

MergeTasks(m) ==
  /\ phase[m] = "ledgered"
  /\ ~Contradictory(tree[m])
  /\ row' = [row EXCEPT ![m] = MergedRow(m)]
  /\ LET changed == row'[m] # row[m]
     IN dirty' = [dirty EXCEPT ![m] = @ \/ changed]
  /\ unseen' = [unseen EXCEPT ![m] = behind[m]]
  /\ phase' = [phase EXCEPT ![m] = "merged"]
  /\ UNCHANGED <<wall, last, ledger, repo, fresh, gone, faults>>

\* A payload the preflight refuses ends the cycle before any export.
RefuseMerge(m) ==
  /\ phase[m] = "ledgered"
  /\ Contradictory(tree[m])
  /\ phase' = [phase EXCEPT ![m] = "idle"]
  /\ UNCHANGED <<wall, last, row, ledger, repo, dirty, fresh, unseen, gone,
                 faults>>

\* Nothing to export, or a status conflict that blocks the export.
EndCycle(m) ==
  /\ phase[m] = "merged"
  /\ ~dirty[m] \/ ExportConflict(m)
  /\ phase' = [phase EXCEPT ![m] = "idle"]
  /\ UNCHANGED <<wall, last, row, ledger, repo, dirty, fresh, unseen, gone,
                 faults>>

\* The export reads one snapshot, writes and stages the files.  If that
\* changes nothing the remote lacks, there is nothing to push.
Export(m) ==
  /\ phase[m] = "merged"
  /\ dirty[m]
  /\ ~ExportConflict(m)
  /\ tree' = [tree EXCEPT ![m] = Payload(m)]
  /\ fresh' = [fresh EXCEPT ![m] = FALSE]
  /\ IF Payload(m) = tree[m] /\ ~staged[m] /\ ~ahead[m]
     THEN /\ phase' = [phase EXCEPT ![m] = "pushed"]
          /\ UNCHANGED staged
     ELSE /\ phase' = [phase EXCEPT ![m] = "staged"]
          /\ staged' = [staged EXCEPT ![m] = TRUE]
  /\ UNCHANGED <<wall, last, row, ledger, remote, behind, ahead, dirty, unseen,
                 gone, faults>>

Push(m) ==
  /\ phase[m] = "staged"
  /\ ~behind[m]
  /\ remote' = tree[m]
  /\ behind' = [p \in Machine |-> p # m \/ behind[p]]
  /\ unseen' = [p \in Machine |-> p # m \/ unseen[p]]
  /\ ahead' = [ahead EXCEPT ![m] = FALSE]
  /\ staged' = [staged EXCEPT ![m] = FALSE]
  /\ phase' = [phase EXCEPT ![m] = "pushed"]
  /\ UNCHANGED <<wall, last, row, ledger, tree, dirty, fresh, gone, faults>>

\* Another machine won the race: the commit is dropped, the export is redone
\* by the next cycle.
RejectedPush(m) ==
  /\ phase[m] = "staged"
  /\ behind[m]
  /\ tree' = [tree EXCEPT ![m] = remote]
  /\ behind' = [behind EXCEPT ![m] = FALSE]
  /\ ahead' = [ahead EXCEPT ![m] = FALSE]
  /\ staged' = [staged EXCEPT ![m] = FALSE]
  /\ phase' = [phase EXCEPT ![m] = "idle"]
  /\ fresh' = [fresh EXCEPT ![m] = FALSE]
  /\ UNCHANGED <<wall, last, row, ledger, remote, dirty, unseen, gone, faults>>

\* The network fails: the commit stays in the clone.
FailedPush(m) ==
  /\ faults < world.faults
  /\ phase[m] = "staged"
  /\ ahead' = [ahead EXCEPT ![m] = TRUE]
  /\ staged' = [staged EXCEPT ![m] = FALSE]
  /\ phase' = [phase EXCEPT ![m] = "idle"]
  /\ faults' = faults + 1
  /\ fresh' = [fresh EXCEPT ![m] = FALSE]
  /\ UNCHANGED <<wall, last, row, ledger, remote, tree, behind, dirty, unseen,
                 gone>>

\* The rows mark_tombstones_pushed stamps: in the files of this cycle, hidden
\* now, not stamped yet, with no reopening pending.
Stamps(m) ==
  /\ tree[m].entry # NoTask
  /\ row[m] # NoTask
  /\ row[m].status \in Hidden
  /\ ~row[m].stamp
  /\ ~Authority(m).reopens

Stamped(r) == [[r EXCEPT !.stamp = TRUE] EXCEPT !.aged = FALSE]

\* Bug: the watermark is the time of the push.
RecordAtPush(m) ==
  /\ phase[m] = "pushed"
  /\ dirty' = [dirty EXCEPT ![m] = FALSE]
  /\ row' = IF Stamps(m)
            THEN [row EXCEPT ![m] = Stamped(@)] ELSE row
  /\ phase' = [phase EXCEPT ![m] = "idle"]
  /\ fresh' = [fresh EXCEPT ![m] = FALSE]
  /\ UNCHANGED <<wall, last, ledger, repo, unseen, gone, faults>>

\* The watermark is the time of the export snapshot, not of the push.
Record(m) ==
  /\ phase[m] = "pushed"
  /\ dirty' = [dirty EXCEPT ![m] = fresh[m]]
  /\ row' = IF Stamps(m)
            THEN [row EXCEPT ![m] = Stamped(@)] ELSE row
  /\ phase' = [phase EXCEPT ![m] = "idle"]
  /\ fresh' = [fresh EXCEPT ![m] = FALSE]
  /\ UNCHANGED <<wall, last, ledger, repo, unseen, gone, faults>>

Crash(m) ==
  /\ faults < world.faults
  /\ phase[m] # "idle"
  /\ phase' = [phase EXCEPT ![m] = "idle"]
  /\ faults' = faults + 1
  /\ fresh' = [fresh EXCEPT ![m] = FALSE]
  /\ UNCHANGED <<wall, last, row, ledger, repo, dirty, unseen, gone>>

-----------------------------------------------------------------------------
(* What the operator does with a clone the worker leaves alone.            *)

\* git pull with the merge driver.  The one-line ledger files of both sides
\* are united by lines, which leaves a file the import cannot read.
MergeByHand(m) ==
  /\ phase[m] = "idle"
  /\ behind[m] /\ ahead[m] /\ ~staged[m]
  /\ tree' = [tree EXCEPT ![m] =
       [entry |-> Reconcile(m, @.entry, remote.entry), ledger |-> {},
        clock |-> 0]]
  /\ behind' = [behind EXCEPT ![m] = FALSE]
  /\ UNCHANGED <<wall, last, row, ledger, remote, ahead, staged, cycle, dirty,
                 fresh, gone, faults>>

\* git reset --hard origin/main.
ResetByHand(m) ==
  /\ phase[m] = "idle"
  /\ behind[m] /\ staged[m]
  /\ tree' = [tree EXCEPT ![m] = remote]
  /\ behind' = [behind EXCEPT ![m] = FALSE]
  /\ ahead' = [ahead EXCEPT ![m] = FALSE]
  /\ staged' = [staged EXCEPT ![m] = FALSE]
  /\ UNCHANGED <<wall, last, row, ledger, remote, cycle, dirty, fresh, gone,
                 faults>>

-----------------------------------------------------------------------------
LocalWrite(m) ==
  \/ \E s \in Status \cap world.uses : SetStatus(m, s) \/ Confirm(m, s)
  \/ SetPriority(m)
  \/ Age(m)
  \/ Purge(m)

SyncStep(m) ==
  \/ Fetch(m) \/ ImportLedger(m) \/ MergeTasks(m) \/ RefuseMerge(m)
  \/ EndCycle(m) \/ Export(m) \/ Push(m) \/ RejectedPush(m) \/ Record(m)

Unmerged(m) ==
  LocalWrite(m) \/ SyncStep(m) \/ FailedPush(m) \/ Crash(m) \/ ResetByHand(m)

\* The step purges the tombstone of m, or drops its file from an export, while
\* the authority of m is a visible status.
Expires(m) ==
  /\ row[m] # NoTask /\ row[m].status \in Hidden
  /\ Authority(m).value \notin Hidden
  /\ \/ row'[m] = NoTask
     \/ phase[m] = "merged" /\ phase'[m] # "idle" /\ tree'[m].entry = NoTask

Next ==
  /\ \E m \in Machine :
       /\ \/ Unmerged(m) /\ UNCHANGED united
          \/ MergeByHand(m) /\ united' = TRUE
       /\ overruled' = (overruled \/ Expires(m))
  /\ UNCHANGED world

Spec == Init /\ [][Next]_vars

-----------------------------------------------------------------------------
(* Properties.                                                             *)

Versions == [order : Nat, by : Machine, ev : Nat]
Priorities == [order : Nat, by : Machine, val : Nat]
Events == [order : Nat, by : Machine, old : Status \cup {"none"}, new : Status]
Ledgers == SUBSET Events
Rows == [status : Status, sv : Versions, fval : Status \cup {"none"},
         pv : Priorities, stamp : BOOLEAN, aged : BOOLEAN]
Entries == [status : Status, sv : Versions, pv : Priorities, tomb : BOOLEAN]

Trees == [entry : Entries \cup {NoTask}, ledger : Ledgers, clock : Nat]

ASSUME NoTaskAssumption == NoTask \notin Rows \cup Entries

Typed ==
  /\ wall \in Nat /\ world \in Worlds /\ faults \in 0 .. world.faults
  /\ last \in [Machine -> Nat]
  /\ row \in [Machine -> Rows \cup {NoTask}]
  /\ ledger \in [Machine -> Ledgers]
  /\ remote \in Trees /\ tree \in [Machine -> Trees]
  /\ phase \in [Machine -> Phases]
  /\ {behind, ahead, staged, dirty, fresh, unseen}
       \subseteq [Machine -> BOOLEAN]
  /\ united \in BOOLEAN
  /\ gone \in [Machine -> Nat]

\* Every variable has its type; no two events of a ledger share a key.
TypeOK ==
  /\ Typed /\ overruled \in BOOLEAN
  /\ \A m \in Machine : \A e, f \in ledger[m] : Key(e) = Key(f) => e = f

SameClocks == \A m, p \in Machine : world.lead[m] = world.lead[p]

Visible(m) == row[m] # NoTask /\ row[m].status \notin Hidden

(* A task whose tombstone a machine purged is visible on it again only by  *)
(* an edit that made it visible later than the deletion (export_task_files *)
(* and purge_done promise that an aged tombstone resurrects nowhere).  Not *)
(* so once a clone was merged by hand: that loses the clock of the ledger, *)
(* and an edit that opens the task may get one before the deletion's.      *)
NoResurrection ==
  ~united => \A m \in Machine : Visible(m) /\ gone[m] # 0 =>
    \E e \in ledger[m] : e.new \notin Hidden /\ Key(e) > gone[m]

\* The step turns a hidden row of m into a visible one.
Reopened(m) ==
  /\ row[m] # NoTask /\ row[m].status \in Hidden
  /\ row'[m] # NoTask /\ row'[m].status \notin Hidden

\* An edit that found the task hidden, later than the row's own status.
Explained(m) ==
  \E e \in ledger'[m] :
    e.new \notin Hidden /\ e.old \in Hidden /\ Key(e) > Key(row[m].sv)

(* A row merged, repaired or confirmed from hidden to visible has a ledger *)
(* event of an edit that saw it hidden and opened it later than the        *)
(* closure (_resolve_task_status_authority, _status_history_has_reopening).*)
NoSilentReopen == [][\A m \in Machine : Reopened(m) => Explained(m)]_vars

(* What a machine counts as pushed is on the remote, however its cycle     *)
(* crashed, lost a push or a race: a clean machine has written no event    *)
(* that the remote's ledger lacks or that is newer than the remote's entry *)
(* (last_push_at is the time of the export snapshot).  Not so once a clone *)
(* was merged by hand: its ledger file is lost, and the next export drops  *)
(* the events of the others.                                               *)
WatermarkSafe ==
  ~united => \A m \in Machine : ~dirty[m] =>
    \A e \in ledger[m] : e.by = m =>
      /\ e \in remote.ledger
      /\ remote.entry # NoTask => Key(remote.entry.sv) >= Key(e)

\* Nothing is left to push or to fetch.
Settled(m) ==
  phase[m] = "idle" /\ ~dirty[m] /\ ~unseen[m] /\ ~ahead[m] /\ ~staged[m]

\* Something is left to merge, or a conflict waits for its user.
Pending(m) ==
  \/ MergedRow(m) # row[m]
  \/ row[m] # NoTask /\ Blocked(row[m].status, Authority(m))

Shown(m) == IF Visible(m) THEN <<row[m].status, row[m].pv.val>> ELSE <<>>

(* When all cycles are done and nothing is pending, all machines show the  *)
(* same status and priority of the task.  A clock that runs ahead, or one  *)
(* the merge driver raised above two others, is clamped by the other       *)
(* machines and not by its own: then they may disagree on which status is  *)
(* the newer one.  Nor do they agree for ever once the retention window    *)
(* ended on a status conflict nobody settled (export_task_files,           *)
(* purge_done): then the task stays hidden on one machine, and its file is *)
(* removed under another that shows it.                                    *)
QuietAgree ==
  /\ SameClocks /\ ~united /\ ~overruled
  /\ \A m \in Machine : Settled(m)
  /\ \E m, p \in Machine : Shown(m) # Shown(p)
  => \E m \in Machine : Pending(m)
=============================================================================
