---------------------------- MODULE TaskWriters ----------------------------
(***************************************************************************)
(* Who writes one machine's task table: windows that change the status     *)
(* they rendered by compare-and-swap and may undo an archive               *)
(* (task_status_cas.py), reflection runs that change a task a human        *)
(* reviewed (reflection_apply.py), and everybody else, who just writes     *)
(* (apply_task_mutation).  A handler is one transaction; what is in the    *)
(* hands of a window or of a human ages between two.                       *)
(*                                                                         *)
(* A row is its status, the event that authored the status (0: a writer or *)
(* peer that records none) and the last transaction that wrote any field:  *)
(* the row and its field versions, as far as they are compared.  An event  *)
(* is named by its transaction.                                            *)
(***************************************************************************)
EXTENDS Naturals, FiniteSets

CONSTANTS Task, Window, Candidate,
          TaskStatus,     \* the statuses in use
          MaxWrites       \* bound: transactions that write

ASSUME WriterAssumption ==
  /\ Window \cap Candidate = {} /\ "other" \notin Window
  /\ {"not_started", "done", "archived"} \subseteq TaskStatus
  /\ MaxWrites \in Nat

VARIABLES
  task,       \* task[t]: the row
  now,        \* transactions so far
  writes,     \* every committed write (history)
  token,      \* token[w]: the status token w rendered last
  undo,       \* undo[w]: w's undo token
  candidate   \* candidate[c]: a proposal, its review, decision and outcome

taskVars == <<task, now, writes, token, undo, candidate>>

Active == {"not_started", "in_progress"}
Terminal == {"archived", "cancelled"}
Other == "other"          \* whoever writes without having looked
NoToken == [status |-> "none"]
NoCandidate == [run |-> 0]

Exists(t) == task[t].status # "purged"

\* The writes W, at most one of a task, are committed together.
Commit(W) ==
  /\ now < MaxWrites
  /\ now' = now + 1
  /\ writes' = writes \cup W
  /\ task' = [t \in Task |->
                IF \E w \in W : w.task = t
                THEN LET w == CHOOSE w \in W : w.task = t
                     IN [status |-> w.to, event |-> w.event, last |-> now + 1]
                ELSE task[t]]

\* `seen` is the last transaction the writer knew of.
AnyWrite(t, field, to, event, by, seen) ==
  [n |-> now + 1, task |-> t, field |-> field, from |-> task[t].status,
   to |-> to, event |-> event, by |-> by, seen |-> seen]

StatusWrite(t, to, by, seen) == AnyWrite(t, "status", to, now + 1, by, seen)
FieldWrite(t, by, seen) == AnyWrite(t, "field", task[t].status, task[t].event, by, seen)

TaskInit ==
  /\ task = [t \in Task |-> [status |-> "not_started", event |-> 0, last |-> 0]]
  /\ now = 0 /\ writes = {}
  /\ token = [w \in Window |-> NoToken]
  /\ undo = [w \in Window |-> NoToken]
  /\ candidate = [c \in Candidate |-> NoCandidate]

-----------------------------------------------------------------------------
(* Those who write without having looked.                                  *)

\* A status change, or its import from a peer, which may come without event.
\* A same-value write is none, unless it confirms or imports a newer event.
SetTaskStatus(t, s, event) ==
  /\ Exists(t)
  /\ s # task[t].status \/ event # 0
  /\ Commit({AnyWrite(t, "status", s, event, Other, now)})
  /\ UNCHANGED <<token, undo, candidate>>

\* Done tasks nobody touched for days are archived together.
ArchiveDone(old) ==
  /\ old # {} /\ \A t \in old : task[t].status = "done"
  /\ Commit({StatusWrite(t, "archived", Other, now) : t \in old})
  /\ UNCHANGED <<token, undo, candidate>>

\* Any field but the status: the status version stays.
EditField(t) ==
  /\ Exists(t)
  /\ Commit({FieldWrite(t, Other, now)})
  /\ UNCHANGED <<token, undo, candidate>>

\* The row and its versions are deleted.
PurgeTask(t) ==
  /\ task[t].status \in Terminal
  /\ Commit({AnyWrite(t, "status", "purged", 0, Other, now)})
  /\ UNCHANGED <<token, undo, candidate>>

-----------------------------------------------------------------------------
(* Windows.                                                                *)

\* A row without a status event is shown, but cannot be clicked.
Render(w, t) ==
  /\ Exists(t) /\ task[t].event # 0
  /\ token' = [token EXCEPT ![w] =
       [task |-> t, status |-> task[t].status, event |-> task[t].event, at |-> now]]
  /\ UNCHANGED <<task, now, writes, undo, candidate>>

Allowed(from, to, confirmed) ==
  \/ from \in Active /\ to = "done"
  \/ from = "done" /\ to = "archived"
  \/ from \in Active /\ to = "archived" /\ confirmed

\* Bug: the status alone is compared.
NamesStatus(k) == task[k.task].status = k.status

\* The row still is what the token names.
Names(k) ==
  /\ task[k.task].status = k.status
  /\ task[k.task].event = k.event

\* Bug: an undone archive is done again, whatever it was.
BackToDone(k) == "done"

\* The status an undo restores.
BackTo(k) == k.status

\* transition_status; a token that fails it changes nothing.
Transition(w, to, confirmed) ==
  LET k == token[w]
  IN /\ k # NoToken
     /\ Allowed(k.status, to, confirmed)
     /\ Names(k)
     /\ Commit({StatusWrite(k.task, to, w, k.at)})
     /\ undo' = IF to = "archived"
                THEN [undo EXCEPT ![w] =
                        [task |-> k.task, status |-> "archived",
                         event |-> now + 1, at |-> now + 1, back |-> BackTo(k)]]
                ELSE undo
     /\ UNCHANGED <<token, candidate>>

\* SingleUseUndo: the token is consumed, whether or not it still holds.
Undo(w) ==
  LET k == undo[w]
  IN /\ k # NoToken
     /\ undo' = [undo EXCEPT ![w] = NoToken]
     /\ IF Names(k) THEN Commit({StatusWrite(k.task, k.back, w, k.at)})
                    ELSE UNCHANGED <<task, now, writes>>
     /\ UNCHANGED <<token, candidate>>

-----------------------------------------------------------------------------
(* Reflection.                                                             *)

Runs == {candidate[c].run : c \in Candidate} \ {0}
Proposed(r) == {c \in Candidate : candidate[c].run = r}

\* One transaction creates a run with its candidates, each with the row it is
\* about; the run fails if there are too many.
StartReflection(about, kind, completed) ==
  /\ about # <<>> /\ \A c \in DOMAIN about :
       /\ candidate[c] = NoCandidate
       /\ task[about[c]].status \in Active \cup {"done"}
  /\ candidate' = [c \in Candidate |->
       IF c \in DOMAIN about
       THEN [run |-> 1 + Cardinality(Runs), completed |-> completed,
             task |-> about[c], kind |-> kind, reviewed |-> task[about[c]],
             at |-> now, decision |-> "none", refused |-> FALSE, applied |-> FALSE]
       ELSE candidate[c]]
  /\ UNCHANGED <<task, now, writes, token, undo>>

\* A refused candidate cannot be accepted again; a decision never looks at
\* the row.
Decide(c, decision) ==
  /\ candidate[c].run # 0
  /\ decision = "accept" => ~candidate[c].refused
  /\ candidate' = [candidate EXCEPT ![c].decision = decision]
  /\ UNCHANGED <<task, now, writes, token, undo>>

\* Bug: only the status version is compared.
StaleStatus(c) == task[candidate[c].task].event # candidate[c].reviewed.event

\* The row, or one of its field versions, is not as it was reviewed.
Stale(c) == task[candidate[c].task] # candidate[c].reviewed

\* Those of S that are accepted, not applied before, and not refused before.
Due(S) ==
  {c \in S : /\ candidate[c].decision = "accept"
             /\ ~candidate[c].applied /\ ~candidate[c].refused}

\* reflect_apply is one transaction: of the due candidates of one task the
\* first one not stale is applied, and makes the others stale.
ApplyRun(r, S, chosen) ==
  /\ S \subseteq Proposed(r) /\ \A c \in S : candidate[c].completed
  /\ Due(S) # {}
  /\ chosen \subseteq {c \in Due(S) : ~Stale(c)}
  /\ \A c \in Due(S) : ~Stale(c) =>
       \E d \in chosen : candidate[d].task = candidate[c].task
  /\ \A c, d \in chosen : candidate[c].task = candidate[d].task => c = d
  /\ IF chosen = {} THEN UNCHANGED <<task, now, writes>>
     ELSE Commit({IF candidate[c].kind = "archive"
                  THEN StatusWrite(candidate[c].task, "archived", c, candidate[c].at)
                  ELSE FieldWrite(candidate[c].task, c, candidate[c].at) : c \in chosen})
  /\ candidate' = [c \in Candidate |->
       CASE c \in chosen           -> [candidate[c] EXCEPT !.applied = TRUE]
         [] c \in Due(S) \ chosen  -> [candidate[c] EXCEPT !.refused = TRUE]
         [] OTHER                  -> candidate[c]]
  /\ UNCHANGED <<token, undo>>

TaskNext ==
  \/ \E t \in Task :
       \/ \E s \in TaskStatus, event \in {0, now + 1} : SetTaskStatus(t, s, event)
       \/ EditField(t) \/ PurgeTask(t)
  \/ \E old \in SUBSET Task : ArchiveDone(old)
  \/ \E w \in Window :
       \/ \E t \in Task : Render(w, t)
       \/ \E to \in TaskStatus, confirmed \in BOOLEAN : Transition(w, to, confirmed)
       \/ Undo(w)
  \/ \E C \in SUBSET Candidate, kind \in {"archive", "clear"}, completed \in BOOLEAN :
       \E about \in [C -> Task] : StartReflection(about, kind, completed)
  \/ \E c \in Candidate, d \in {"accept", "reject"} : Decide(c, d)
  \/ \E r \in Runs, S \in SUBSET Candidate :
       \E chosen \in SUBSET S : ApplyRun(r, S, chosen)

TaskSpec == TaskInit /\ [][TaskNext]_taskVars

-----------------------------------------------------------------------------
(* Properties.                                                             *)

Tokens == [task : Task, status : TaskStatus, event : Nat \ {0}, at : Nat]

(* Rows, tokens and proposals are what the code keeps of them, and no      *)
(* write is from the future.                                               *)
TaskTypeOK ==
  /\ task \in [Task -> [status : TaskStatus \cup {"purged"},
                        event : 0 .. now, last : 0 .. now]]
  /\ now \in 0 .. MaxWrites
  /\ \A w \in writes : w.task \in Task /\ w.n \in 1 .. now /\ w.seen \in 0 .. w.n - 1
  /\ \A w \in Window : token[w] = NoToken \/ token[w] \in Tokens

Between(low, w) == {v \in writes : v.task = w.task /\ low < v.n /\ v.n < w.n}

(* A window's write follows the status its user saw: nobody wrote the      *)
(* status of the task between, not even back and forth to the same value   *)
(* (the guarded UPDATE of apply_task_mutation compares the event).         *)
ClickFollowsSight ==
  \A w \in writes :
    w.by \in Window => \A v \in Between(w.seen, w) : v.field # "status"

(* An undo takes back the window's own archive, once, and restores the     *)
(* status that archive replaced.                                           *)
UndoRestores ==
  \A w \in writes :
    w.by \in Window /\ w.from = "archived" =>
      /\ \E a \in writes : /\ a.n = w.seen /\ a.by = w.by /\ a.task = w.task
                           /\ a.to = "archived" /\ a.from = w.to
      /\ \A v \in writes : v.by = w.by /\ v.from = "archived" /\ v.seen = w.seen => v = w

(* A reflection changes a task only as it was when the candidate was made  *)
(* and reviewed: no field was written since (task_review_state is compared *)
(* under the writer lock).  Hence a candidate is applied at most once,     *)
(* however often its run is.                                               *)
AppliedAsReviewed ==
  \A w \in writes : w.by \in Candidate => Between(w.seen, w) = {}
=============================================================================
