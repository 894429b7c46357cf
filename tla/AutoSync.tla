------------------------------ MODULE AutoSync ------------------------------
(***************************************************************************)
(* Who starts a sync and who takes note that it happened: the hook that    *)
(* runs after every tool call that writes (hooks/bridge_auto_sync.py), the *)
(* workers it launches (hooks/bridge_sync_worker.py), and the tray, which  *)
(* syncs on its own.  Workers exclude each other by a lock file, workers   *)
(* and tray by a lock on the repository.                                   *)
(*                                                                         *)
(* The database is the number of its writes; so is what the local branch   *)
(* and the remote hold of them.  What a sync does to the rows is in        *)
(* BridgeSync.                                                             *)
(***************************************************************************)
EXTENDS Naturals

CONSTANTS Worker,     \* worker processes
          Tray, Nobody, \* no workers
          MaxWrites,  \* bound: tool calls that write
          Cycles      \* MAX_DRAIN_CYCLES

VARIABLES
  written,    \* writes in the database
  hooked,     \* writes whose hook ran
  local,      \* writes in the local branch
  remote,     \* writes on the remote
  ahead,      \* whether a peer pushed what the local branch lacks
  dirty,      \* whether the dirty flag is there
  recent,     \* whether the last sync noted is within the debounce time
  lock,       \* the lock file: whose it is, and whether it names its pid
  repo,       \* who holds the repository
  step,       \* step[h]: where h is
  tries,      \* tries[w]: lock files w removed
  cycle,      \* cycle[w]: the cycle w is in
  began,      \* began[w]: writes in the database when that cycle began
  late,       \* late[w]: whether the flag was set since
  backoff     \* backoff[h]: whether its process is to push nothing for a while

vars == <<written, hooked, local, remote, ahead, dirty, recent, lock, repo,
          step, tries, cycle, began, late, backoff>>
git == <<local, remote, ahead>>
notes == <<dirty, recent>>
cycles == <<tries, cycle, began, late>>
counters == <<cycles, backoff>>

NoLock == [owner |-> Nobody, pid |-> FALSE]
Goes(h, s) == step' = [step EXCEPT ![h] = s]
Unpushed == local > remote

Init ==
  /\ written = 0 /\ hooked = 0 /\ local = 0 /\ remote = 0
  /\ ahead = FALSE /\ dirty = FALSE /\ recent \in BOOLEAN
  /\ lock = NoLock /\ repo = Nobody
  /\ step = [h \in Worker \cup {Tray} |-> "off"]
  /\ tries = [w \in Worker |-> 0]
  /\ cycle = [w \in Worker |-> 0]
  /\ began = [w \in Worker |-> 0]
  /\ late = [w \in Worker |-> FALSE]
  /\ backoff = [h \in Worker \cup {Tray} |-> FALSE]

\* A tool writes, and later its hook runs.
WriteTool ==
  /\ written < MaxWrites
  /\ written' = written + 1
  /\ UNCHANGED <<hooked, git, notes, lock, repo, step, counters>>

\* A worker is a new process, and knows of no failed push.
Hook ==
  /\ hooked < written
  /\ hooked' = hooked + 1
  /\ dirty' = TRUE
  /\ late' = [w \in Worker |-> TRUE]
  /\ IF recent THEN UNCHANGED <<step, tries, backoff>>
     ELSE \E w \in Worker : /\ step[w] = "off"
                            /\ Goes(w, "locking")
                            /\ tries' = [tries EXCEPT ![w] = 0]
                            /\ backoff' = [backoff EXCEPT ![w] = FALSE]
  /\ UNCHANGED <<written, git, recent, lock, repo, cycle, began>>

DebounceEnds ==
  /\ recent /\ recent' = FALSE
  /\ UNCHANGED <<written, hooked, git, dirty, lock, repo, step, counters>>

-----------------------------------------------------------------------------
(* acquire_lock and release_lock.                                          *)

CreateLock(w) ==
  /\ step[w] = "locking" /\ tries[w] < 2
  /\ lock.owner = Nobody
  /\ lock' = [owner |-> w, pid |-> FALSE]
  /\ Goes(w, "locked")
  /\ UNCHANGED <<written, hooked, git, notes, repo, counters>>

WritePid(w) ==
  /\ step[w] = "locked"
  /\ lock' = IF lock.owner = w THEN [lock EXCEPT !.pid = TRUE] ELSE lock
  /\ Goes(w, "starting")
  /\ cycle' = [cycle EXCEPT ![w] = 0]
  /\ UNCHANGED <<written, hooked, git, notes, repo, tries, began, late, backoff>>

\* Fresh lock of a live process, or the second in the way.
GiveUp(w) ==
  /\ step[w] = "locking"
  /\ tries[w] = 2 \/ (lock.owner # Nobody /\ lock.pid /\ step[lock.owner] # "off")
  /\ Goes(w, "off")
  /\ UNCHANGED <<written, hooked, git, notes, lock, repo, counters>>

\* Dead, too old, or not yet with a pid; by the time it is removed it may be
\* another one.
JudgeStale(w) ==
  /\ step[w] = "locking" /\ tries[w] < 2
  /\ lock.owner # Nobody
  /\ Goes(w, "clearing")
  /\ UNCHANGED <<written, hooked, git, notes, lock, repo, counters>>

ClearLock(w) ==
  /\ step[w] = "clearing"
  /\ lock' = NoLock
  /\ tries' = [tries EXCEPT ![w] = @ + 1]
  /\ Goes(w, "locking")
  /\ UNCHANGED <<written, hooked, git, notes, repo, cycle, began, late, backoff>>

\* Whoever's lock it is by now.
ReleaseLock(w) ==
  /\ step[w] = "leaving"
  /\ lock' = NoLock
  /\ Goes(w, "off")
  /\ UNCHANGED <<written, hooked, git, notes, repo, counters>>

\* The lock file stays, the lock on the repository does not.
Die(w) ==
  /\ step[w] # "off"
  /\ Goes(w, "off")
  /\ repo' = IF repo = w THEN Nobody ELSE repo
  /\ UNCHANGED <<written, hooked, git, notes, lock, counters>>

-----------------------------------------------------------------------------
(* The sync engine, run by workers and by the tray.                        *)

PeerPush ==
  /\ ~ahead /\ ahead' = TRUE
  /\ UNCHANGED <<written, hooked, local, remote, notes, lock, repo, step, counters>>

\* Where the result leads: the tray is done, a worker looks at it.
Result(h, s) == Goes(h, IF h = Tray THEN "off" ELSE s)

StartTray ==
  /\ step[Tray] = "off" /\ Goes(Tray, "starting")
  /\ UNCHANGED <<written, hooked, git, notes, lock, repo, counters>>

\* A cycle of a worker, up to the call of bridge_push.
StartCycle(w) ==
  /\ step[w] = "starting" /\ cycle[w] < Cycles
  /\ cycle' = [cycle EXCEPT ![w] = @ + 1]
  /\ began' = [began EXCEPT ![w] = written]
  /\ late' = [late EXCEPT ![w] = FALSE]
  /\ \E s \in {"pushing", "leaving"} : Goes(w, s)
  /\ UNCHANGED <<written, hooked, git, notes, lock, repo, tries, backoff>>

Called(h) == step[h] = IF h = Tray THEN "starting" ELSE "pushing"
Ready(h) == Called(h) /\ ~backoff[h]

\* Asked first, before any lock; only a pull of the tray goes on.
BackedOff(h) ==
  /\ Called(h) /\ backoff[h]
  /\ Result(h, "unpushed")
  /\ UNCHANGED <<written, hooked, git, notes, lock, repo, counters>>

BackoffEnds(h) ==
  /\ backoff[h]
  /\ backoff' = [backoff EXCEPT ![h] = FALSE]
  /\ UNCHANGED <<written, hooked, git, notes, lock, repo, step, cycles>>

AlreadyRunning(h) ==
  /\ Ready(h) /\ repo # Nobody
  /\ Result(h, "unpushed")
  /\ UNCHANGED <<written, hooked, git, notes, lock, repo, counters>>

Diverged(h) ==
  /\ Ready(h) /\ repo = Nobody
  /\ ahead /\ Unpushed
  /\ Result(h, "leaving")
  /\ UNCHANGED <<written, hooked, git, notes, lock, repo, counters>>

\* Fetch, fast-forward, merge.
TakeRepo(h) ==
  /\ Called(h) /\ (backoff[h] => h = Tray) /\ repo = Nobody
  /\ ~(ahead /\ Unpushed)
  /\ repo' = h
  /\ ahead' = FALSE
  /\ Goes(h, "merged")
  /\ UNCHANGED <<written, hooked, local, remote, notes, lock, counters>>

\* Blocked anywhere, or a pull only.
EndBlocked(h) ==
  /\ step[h] \in {"merged", "exported"}
  /\ repo' = Nobody
  /\ Result(h, "leaving")
  /\ UNCHANGED <<written, hooked, git, notes, lock, counters>>

SkipUnchanged(h) ==
  /\ step[h] = "merged" /\ ~backoff[h] /\ written = remote
  /\ repo' = Nobody
  /\ Result(h, "pushed")
  /\ UNCHANGED <<written, hooked, git, notes, lock, counters>>

ExportAndCommit(h) ==
  /\ step[h] = "merged" /\ ~backoff[h] /\ written # remote
  /\ local' = written
  /\ Goes(h, "exported")
  /\ UNCHANGED <<written, hooked, remote, ahead, notes, lock, repo, counters>>

PushExport(h) ==
  /\ step[h] = "exported" /\ ~ahead
  /\ remote' = local
  /\ repo' = Nobody
  /\ Result(h, "pushed")
  /\ backoff' = [backoff EXCEPT ![h] = FALSE]
  /\ UNCHANGED <<written, hooked, local, ahead, notes, lock, cycles>>

\* A peer was faster, and the local commit is dropped; or no remote answers.
PushFails(h) ==
  /\ step[h] = "exported"
  /\ \/ ahead /\ local' = remote /\ ahead' = FALSE
     \/ UNCHANGED <<local, ahead>>
  /\ repo' = Nobody
  /\ Result(h, "unpushed")
  /\ backoff' = [backoff EXCEPT ![h] = TRUE]
  /\ UNCHANGED <<written, hooked, remote, notes, lock, cycles>>

-----------------------------------------------------------------------------
(* The rest of a worker's cycle.                                           *)

\* Fetch, fast-forward, and push what there is, if it can be pushed.
FixRemoteAhead(w) ==
  /\ step[w] = "unpushed" /\ (ahead => ~Unpushed)
  /\ ahead' = FALSE /\ remote' = local
  /\ Goes(w, "pushed")
  /\ UNCHANGED <<written, hooked, local, notes, lock, repo, counters>>

\* It cannot: in sync all the same, if nothing is committed beyond the remote
\* and the tree is clean.
CannotFix(w) ==
  /\ step[w] = "unpushed"
  /\ Goes(w, "leaving") \/ (~Unpushed /\ Goes(w, "pushed"))
  /\ UNCHANGED <<written, hooked, git, notes, lock, repo, counters>>

CheckDirty(w) ==
  /\ step[w] = "pushed"
  /\ Goes(w, IF ~(dirty /\ late[w]) THEN "clean"
             ELSE IF cycle[w] < Cycles THEN "starting" ELSE "leaving")
  /\ UNCHANGED <<written, hooked, git, notes, lock, repo, counters>>

NoteSync(w) ==
  /\ step[w] = "clean"
  /\ recent' = TRUE
  /\ Goes(w, "noted")
  /\ UNCHANGED <<written, hooked, git, dirty, lock, repo, counters>>

DeleteFlag(w) ==
  /\ step[w] = "noted"
  /\ dirty' = FALSE
  /\ Goes(w, "leaving")
  /\ UNCHANGED <<written, hooked, git, recent, lock, repo, counters>>

Next ==
  \/ WriteTool \/ Hook \/ DebounceEnds \/ PeerPush \/ StartTray
  \/ \E w \in Worker :
       \/ CreateLock(w) \/ WritePid(w) \/ GiveUp(w) \/ JudgeStale(w)
       \/ ClearLock(w) \/ ReleaseLock(w) \/ Die(w)
       \/ StartCycle(w) \/ FixRemoteAhead(w) \/ CannotFix(w)
       \/ CheckDirty(w) \/ NoteSync(w) \/ DeleteFlag(w)
  \/ \E h \in Worker \cup {Tray} :
       \/ BackedOff(h) \/ BackoffEnds(h)
       \/ AlreadyRunning(h) \/ Diverged(h) \/ TakeRepo(h) \/ EndBlocked(h)
       \/ SkipUnchanged(h) \/ ExportAndCommit(h) \/ PushExport(h) \/ PushFails(h)

Spec == Init /\ [][Next]_vars

-----------------------------------------------------------------------------
(* Properties.                                                             *)

(* A worker notes a sync and deletes the dirty flag only when all that was *)
(* written before its cycle began is on the remote: no push without effect *)
(* is reported as a sync (_sync_block_message in                           *)
(* hooks/bridge_sync_worker.py tells of one that was).                     *)
NotedMeansSent ==
  \A w \in Worker : step[w] = "noted" => remote >= began[w]
=============================================================================
