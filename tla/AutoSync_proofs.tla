--------------------------- MODULE AutoSync_proofs ---------------------------
(***************************************************************************)
(* Proofs about AutoSync, for any number of workers, writes and cycles:    *)
(* the repository lock is exclusive, and a worker notes a sync that did    *)
(* not reach the remote for three reasons only.                            *)
(***************************************************************************)
EXTENDS AutoSync, TLAPS

Holder == Worker \cup {Tray}
Holding(h) == step[h] \in {"merged", "exported"}

\* Workers, the tray and nobody are different.
Distinct == Tray \notin Worker /\ Nobody \notin Holder

Places == {"off", "locking", "locked", "clearing", "starting", "pushing", "merged",
           "exported", "unpushed", "pushed", "clean", "noted", "leaving"}

TypeInv ==
  /\ written \in Nat /\ local \in Nat /\ remote \in Nat
  /\ step \in [Holder -> Places]
  /\ began \in [Worker -> Nat]

\* Who is at work in the repository holds its lock.
LockInv ==
  /\ repo \in Holder \cup {Nobody}
  /\ \A h \in Holder : Holding(h) <=> repo = h

\* The remote holds no more than the local branch, which holds no more than
\* the database; a cycle began with what was in the database.
OrderInv ==
  /\ remote <= local /\ local <= written
  /\ \A w \in Worker : began[w] <= written

Inv == TypeInv /\ LockInv /\ OrderInv

LEMMA InitInv == Distinct /\ Init => Inv
  BY DEF Distinct, Init, Inv, TypeInv, LockInv, OrderInv, Holder, Holding, Places

\* A step that starts and ends outside the repository, and leaves its lock and
\* the branches alone.
LEMMA OutsideInv ==
  ASSUME Inv, NEW h \in Holder, NEW s \in Places, Goes(h, s),
         ~Holding(h), s \notin {"merged", "exported"},
         UNCHANGED <<repo, local, remote, written>>,
         began' = began \/ \E w \in Worker : began' = [began EXCEPT ![w] = written]
  PROVE  Inv'
  <1>1. TypeInv'
    BY DEF Inv, TypeInv, Goes
  <1>2. LockInv'
    BY DEF Inv, TypeInv, LockInv, Goes, Holding
  <1>3. OrderInv'
    BY DEF Inv, TypeInv, OrderInv
  <1>4. QED
    BY <1>1, <1>2, <1>3 DEF Inv

\* A step that nobody takes who could be in the repository.
LEMMA ElsewhereInv ==
  ASSUME Inv, UNCHANGED <<step, repo, local, remote, began>>,
         written' \in Nat, written <= written'
  PROVE  Inv'
  <1>1. TypeInv' /\ LockInv'
    BY DEF Inv, TypeInv, LockInv, Holding
  <1>2. OrderInv'
    BY DEF Inv, TypeInv, OrderInv
  <1>3. QED
    BY <1>1, <1>2 DEF Inv

\* Who leaves the repository gives its lock back, with the branches in order.
LEMMA LeaveInv ==
  ASSUME Distinct, Inv, NEW h \in Holder, NEW s \in Places, Goes(h, s),
         s \notin {"merged", "exported"},
         repo' = (IF repo = h THEN Nobody ELSE repo),
         local' \in Nat, remote' \in Nat, remote' <= local', local' <= written,
         UNCHANGED <<written, began>>
  PROVE  Inv'
  <1>1. TypeInv'
    BY DEF Inv, TypeInv, Goes
  <1>2. LockInv'
    BY DEF Distinct, Inv, TypeInv, LockInv, Goes, Holding
  <1>3. OrderInv'
    BY DEF Inv, OrderInv
  <1>4. QED
    BY <1>1, <1>2, <1>3 DEF Inv

\* The steps of a worker around its call of the sync engine.
LEMMA WorkerInv ==
  ASSUME Distinct, Inv, NEW w \in Worker,
         \/ CreateLock(w) \/ WritePid(w) \/ GiveUp(w) \/ JudgeStale(w)
         \/ ClearLock(w) \/ ReleaseLock(w) \/ Die(w)
         \/ StartCycle(w) \/ FixRemoteAhead(w) \/ CannotFix(w)
         \/ CheckDirty(w) \/ NoteSync(w) \/ DeleteFlag(w)
  PROVE  Inv'
  <1>0. w \in Holder /\ began = began
    BY DEF Holder
  <1>1. CASE CreateLock(w)
    BY <1>0, <1>1, OutsideInv DEF CreateLock, Holding, Places, git, counters, cycles
  <1>2. CASE WritePid(w)
    BY <1>0, <1>2, OutsideInv DEF WritePid, Holding, Places, git
  <1>3. CASE GiveUp(w)
    BY <1>0, <1>3, OutsideInv DEF GiveUp, Holding, Places, git, counters, cycles
  <1>4. CASE JudgeStale(w)
    BY <1>0, <1>4, OutsideInv DEF JudgeStale, Holding, Places, git, counters, cycles
  <1>5. CASE ClearLock(w)
    BY <1>0, <1>5, OutsideInv DEF ClearLock, Holding, Places, git
  <1>6. CASE ReleaseLock(w)
    BY <1>0, <1>6, OutsideInv DEF ReleaseLock, Holding, Places, git, counters, cycles
  <1>7. CASE Die(w)
    BY <1>0, <1>7, LeaveInv DEF Die, Places, git, counters, cycles, Inv, TypeInv, OrderInv
  <1>8. CASE StartCycle(w)
    <2>1. PICK s \in {"pushing", "leaving"} : Goes(w, s)
      BY <1>8 DEF StartCycle
    <2>2. QED
      BY <1>0, <1>8, <2>1, OutsideInv DEF StartCycle, Holding, Places, git
  <1>9. CASE FixRemoteAhead(w)
    <2>1. ~Holding(w) /\ repo # w
      BY <1>0, <1>9 DEF FixRemoteAhead, Inv, LockInv, Holding
    <2>2. QED
      BY <1>0, <1>9, <2>1, LeaveInv
      DEF FixRemoteAhead, Places, counters, cycles, Inv, TypeInv, OrderInv
  <1>10. CASE CannotFix(w)
    <2>1. PICK s \in {"leaving", "pushed"} : Goes(w, s)
      BY <1>10 DEF CannotFix
    <2>2. QED
      BY <1>0, <1>10, <2>1, OutsideInv DEF CannotFix, Holding, Places, git, counters, cycles
  <1>11. CASE CheckDirty(w)
    <2>1. PICK s \in {"clean", "starting", "leaving"} : Goes(w, s)
      BY <1>11 DEF CheckDirty
    <2>2. QED
      BY <1>0, <1>11, <2>1, OutsideInv DEF CheckDirty, Holding, Places, git, counters, cycles
  <1>12. CASE NoteSync(w)
    BY <1>0, <1>12, OutsideInv DEF NoteSync, Holding, Places, git, counters, cycles
  <1>13. CASE DeleteFlag(w)
    BY <1>0, <1>13, OutsideInv DEF DeleteFlag, Holding, Places, git, counters, cycles
  <1>14. QED
    BY <1>1, <1>2, <1>3, <1>4, <1>5, <1>6, <1>7, <1>8, <1>9, <1>10, <1>11, <1>12, <1>13

\* The steps of the sync engine.
LEMMA EngineInv ==
  ASSUME Distinct, Inv, NEW h \in Holder,
         \/ BackedOff(h) \/ BackoffEnds(h)
         \/ AlreadyRunning(h) \/ Diverged(h) \/ TakeRepo(h) \/ EndBlocked(h)
         \/ SkipUnchanged(h) \/ ExportAndCommit(h) \/ PushExport(h) \/ PushFails(h)
  PROVE  Inv'
  <1>0. (Called(h) => ~Holding(h)) /\ (Ready(h) => Called(h))
    BY DEF Called, Ready, Holding
  <1>1. CASE AlreadyRunning(h)
    <2>1. PICK s \in {"off", "unpushed"} : Goes(h, s)
      BY <1>1 DEF AlreadyRunning, Result
    <2>2. QED
      BY <1>0, <1>1, <2>1, OutsideInv DEF AlreadyRunning, Places, git, counters, cycles
  <1>2. CASE Diverged(h)
    <2>1. PICK s \in {"off", "leaving"} : Goes(h, s)
      BY <1>2 DEF Diverged, Result
    <2>2. QED
      BY <1>0, <1>2, <2>1, OutsideInv DEF Diverged, Places, git, counters, cycles
  <1>3. CASE TakeRepo(h)
    <2>1. TypeInv' /\ OrderInv'
      BY <1>3 DEF TakeRepo, Goes, Places, Inv, TypeInv, OrderInv, counters, cycles
    <2>2. LockInv'
      BY <1>3 DEF TakeRepo, Goes, Inv, TypeInv, LockInv, Holding, Distinct
    <2>3. QED
      BY <2>1, <2>2 DEF Inv
  <1>4. CASE ExportAndCommit(h)
    <2>1. TypeInv' /\ OrderInv'
      BY <1>4 DEF ExportAndCommit, Goes, Places, Inv, TypeInv, OrderInv, counters, cycles
    <2>2. LockInv'
      BY <1>4 DEF ExportAndCommit, Goes, Inv, TypeInv, LockInv, Holding
    <2>3. QED
      BY <2>1, <2>2 DEF Inv
  <1>5. CASE EndBlocked(h)
    <2>1. repo = h
      BY <1>5 DEF EndBlocked, Inv, LockInv, Holding
    <2>2. PICK s \in {"off", "leaving"} : Goes(h, s)
      BY <1>5 DEF EndBlocked, Result
    <2>3. QED
      BY <1>5, <2>1, <2>2, LeaveInv
      DEF EndBlocked, Places, git, counters, cycles, Inv, TypeInv, OrderInv
  <1>6. CASE SkipUnchanged(h)
    <2>1. repo = h
      BY <1>6 DEF SkipUnchanged, Inv, LockInv, Holding
    <2>2. PICK s \in {"off", "pushed"} : Goes(h, s)
      BY <1>6 DEF SkipUnchanged, Result
    <2>3. QED
      BY <1>6, <2>1, <2>2, LeaveInv
      DEF SkipUnchanged, Places, git, counters, cycles, Inv, TypeInv, OrderInv
  <1>7. CASE PushExport(h)
    <2>1. repo = h
      BY <1>7 DEF PushExport, Inv, LockInv, Holding
    <2>2. PICK s \in {"off", "pushed"} : Goes(h, s)
      BY <1>7 DEF PushExport, Result
    <2>3. QED
      BY <1>7, <2>1, <2>2, LeaveInv
      DEF PushExport, Places, counters, cycles, Inv, TypeInv, OrderInv
  <1>8. CASE PushFails(h)
    <2>1. repo = h
      BY <1>8 DEF PushFails, Inv, LockInv, Holding
    <2>2. PICK s \in {"off", "unpushed"} : Goes(h, s)
      BY <1>8 DEF PushFails, Result
    <2>3. local' \in {local, remote}
      BY <1>8 DEF PushFails
    <2>4. QED
      BY <1>8, <2>1, <2>2, <2>3, LeaveInv
      DEF PushFails, Places, counters, cycles, Inv, TypeInv, OrderInv
  <1>9. CASE BackedOff(h)
    <2>1. PICK s \in {"off", "unpushed"} : Goes(h, s)
      BY <1>9 DEF BackedOff, Result
    <2>2. QED
      BY <1>0, <1>9, <2>1, OutsideInv DEF BackedOff, Places, git, counters, cycles
  <1>10. CASE BackoffEnds(h)
    BY <1>10, ElsewhereInv DEF BackoffEnds, git, cycles, Inv, TypeInv
  <1>11. QED
    BY <1>1, <1>2, <1>3, <1>4, <1>5, <1>6, <1>7, <1>8, <1>9, <1>10

LEMMA StepInv == Distinct /\ Inv /\ [Next]_vars => Inv'
  <1> SUFFICES ASSUME Distinct, Inv, [Next]_vars PROVE Inv'
    OBVIOUS
  <1>1. CASE UNCHANGED vars
    BY <1>1, ElsewhereInv DEF vars, Inv, TypeInv
  <1>2. CASE WriteTool
    BY <1>2, ElsewhereInv DEF WriteTool, git, counters, cycles, Inv, TypeInv
  <1>3. CASE Hook
    <2>1. CASE recent
      BY <1>3, <2>1, ElsewhereInv DEF Hook, git, Inv, TypeInv
    <2>2. CASE ~recent
      <3>1. PICK w \in Worker : step[w] = "off" /\ Goes(w, "locking")
        BY <1>3, <2>2 DEF Hook
      <3>2. QED
        BY <1>3, <3>1, OutsideInv DEF Hook, Holder, Holding, Places, git
    <2>3. QED
      BY <2>1, <2>2
  <1>4. CASE DebounceEnds \/ PeerPush
    BY <1>4, ElsewhereInv DEF DebounceEnds, PeerPush, git, counters, cycles, Inv, TypeInv
  <1>5. CASE StartTray
    BY <1>5, OutsideInv DEF StartTray, Holder, Holding, Places, git, counters, cycles
  <1>6. QED
    BY <1>1, <1>2, <1>3, <1>4, <1>5, WorkerInv, EngineInv DEF Next, Holder

LEMMA Invariance == ASSUME Distinct PROVE Spec => []Inv
  BY InitInv, StepInv, PTL DEF Spec

-----------------------------------------------------------------------------
(* At most one sync is at work in the repository, whoever runs it: workers *)
(* whose lock file was judged stale run next to each other and next to the *)
(* tray, and still _RepoSyncLock keeps them apart, with the remote never   *)
(* ahead of the local branch - though fix_remote_ahead pushes without it.  *)
THEOREM RepositoryExclusive ==
  ASSUME Distinct
  PROVE  Spec => [](/\ \A g, h \in Holder : Holding(g) /\ Holding(h) => g = h
                    /\ remote <= local /\ local <= written)
  <1>1. Inv => /\ \A g, h \in Holder : Holding(g) /\ Holding(h) => g = h
               /\ remote <= local /\ local <= written
    BY DEF Inv, LockInv, OrderInv
  <1>2. QED
    BY <1>1, Invariance, PTL

-----------------------------------------------------------------------------
\* What the cycle of w has brought so far: to the local branch once it has
\* exported, to the remote once it counts as pushed.
Brought(w) ==
  /\ step[w] \in {"exported", "unpushed"} => local >= began[w]
  /\ step[w] \in {"pushed", "clean", "noted"} => remote >= began[w]

\* The steps after which an empty push counts as a sync: the engine answers w
\* that a sync is running, or that it pushes nothing so soon after a push that
\* failed, or a commit is dropped for a peer's.
Honest(w) == ~AlreadyRunning(w) /\ ~BackedOff(w) /\ local' >= local

\* Others may go on, as long as the branches only grow.
LEMMA OthersBring ==
  ASSUME Inv, NEW w \in Worker, Brought(w),
         step'[w] = step[w], began'[w] = began[w],
         local' \in Nat, remote' \in Nat, local' >= local, remote' >= remote
  PROVE  Brought(w)'
  BY DEF Inv, TypeInv, Brought

\* Nothing is claimed at the other steps.
LEMMA NothingClaimed ==
  ASSUME NEW w \in Worker,
         step'[w] \notin {"exported", "unpushed", "pushed", "clean", "noted"}
  PROVE  Brought(w)'
  BY DEF Brought

LEMMA MovesOn ==
  ASSUME Inv, NEW h \in Holder, NEW s, Goes(h, s)
  PROVE  step'[h] = s /\ \A g \in Holder \ {h} : step'[g] = step[g]
  BY DEF Inv, TypeInv, Goes

\* The remote never loses what it holds, whatever peers and workers do.
LEMMA RemoteGrows ==
  ASSUME Distinct, Inv, [Next]_vars
  PROVE  local' \in Nat /\ remote' \in Nat /\ remote' >= remote
  <1>1. local' \in Nat /\ remote' \in Nat
    BY StepInv DEF Inv, TypeInv
  <1>2. CASE remote' = remote
    BY <1>1, <1>2
  <1>3. CASE remote' = local
    BY <1>1, <1>3 DEF Inv, TypeInv, OrderInv
  <1>4. remote' \in {remote, local}
    BY DEF Next, vars, git, WriteTool, Hook, DebounceEnds, PeerPush, StartTray,
       CreateLock, WritePid, GiveUp, JudgeStale, ClearLock, ReleaseLock, Die,
       StartCycle, FixRemoteAhead, CannotFix, CheckDirty, NoteSync, DeleteFlag,
       BackedOff, BackoffEnds, AlreadyRunning, Diverged, TakeRepo, EndBlocked, SkipUnchanged,
       ExportAndCommit, PushExport, PushFails
  <1>5. QED
    BY <1>1, <1>2, <1>3, <1>4

\* What a step of w's own claims is brought.
LEMMA OwnSteps ==
  ASSUME Distinct, Inv, NEW w \in Worker, Brought(w), Honest(w),
         \/ CreateLock(w) \/ WritePid(w) \/ GiveUp(w) \/ JudgeStale(w)
         \/ ClearLock(w) \/ ReleaseLock(w) \/ Die(w)
         \/ StartCycle(w) \/ FixRemoteAhead(w) \/ CannotFix(w)
         \/ CheckDirty(w) \/ NoteSync(w) \/ DeleteFlag(w)
         \/ BackedOff(w) \/ BackoffEnds(w)
         \/ AlreadyRunning(w) \/ Diverged(w) \/ TakeRepo(w) \/ EndBlocked(w)
         \/ SkipUnchanged(w) \/ ExportAndCommit(w) \/ PushExport(w) \/ PushFails(w)
  PROVE  Brought(w)'
  <1>0. w \in Holder /\ w # Tray
    BY DEF Holder, Distinct
  <1>1. CASE CreateLock(w) \/ WritePid(w) \/ GiveUp(w) \/ JudgeStale(w)
             \/ ClearLock(w) \/ ReleaseLock(w) \/ Die(w)
    BY <1>0, <1>1, MovesOn, NothingClaimed
    DEF CreateLock, WritePid, GiveUp, JudgeStale, ClearLock, ReleaseLock, Die
  <1>2. CASE StartCycle(w) \/ Diverged(w) \/ TakeRepo(w) \/ EndBlocked(w) \/ DeleteFlag(w)
    BY <1>0, <1>2, MovesOn, NothingClaimed
    DEF StartCycle, Diverged, TakeRepo, EndBlocked, DeleteFlag, Result
  <1>3. CASE AlreadyRunning(w) \/ BackedOff(w)
    BY <1>3 DEF Honest
  <1>4. CASE SkipUnchanged(w)
    <2>1. step'[w] = "pushed"
      BY <1>0, <1>4, MovesOn DEF SkipUnchanged, Result
    <2>2. remote' = written /\ began' = began
      BY <1>4 DEF SkipUnchanged, git, counters, cycles
    <2>3. QED
      BY <2>1, <2>2 DEF Brought, Inv, TypeInv, OrderInv
  <1>5. CASE ExportAndCommit(w)
    <2>1. step'[w] = "exported"
      BY <1>0, <1>5, MovesOn DEF ExportAndCommit
    <2>2. local' = written /\ began' = began
      BY <1>5 DEF ExportAndCommit, counters, cycles
    <2>3. QED
      BY <2>1, <2>2 DEF Brought, Inv, TypeInv, OrderInv
  <1>6. CASE PushExport(w)
    <2>1. step'[w] = "pushed" /\ step[w] = "exported"
      BY <1>0, <1>6, MovesOn DEF PushExport, Result
    <2>2. remote' = local /\ began' = began
      BY <1>6 DEF PushExport, counters, cycles
    <2>3. QED
      BY <2>1, <2>2 DEF Brought, Inv, TypeInv
  <1>7. CASE PushFails(w)
    <2>1. step'[w] = "unpushed" /\ step[w] = "exported"
      BY <1>0, <1>7, MovesOn DEF PushFails, Result
    <2>2. local' \in {local, remote} /\ began' = began
      BY <1>7 DEF PushFails, counters, cycles
    <2>3. QED
      BY <2>1, <2>2 DEF Brought, Inv, TypeInv, Honest
  <1>8. CASE FixRemoteAhead(w)
    <2>1. step'[w] = "pushed" /\ step[w] = "unpushed"
      BY <1>0, <1>8, MovesOn DEF FixRemoteAhead
    <2>2. remote' = local /\ began' = began
      BY <1>8 DEF FixRemoteAhead, counters, cycles
    <2>3. QED
      BY <2>1, <2>2 DEF Brought, Inv, TypeInv
  <1>9. CASE CannotFix(w)
    <2>1. CASE Goes(w, "leaving")
      BY <1>0, <2>1, MovesOn, NothingClaimed
    <2>2. CASE ~Unpushed /\ Goes(w, "pushed")
      <3>1. step'[w] = "pushed" /\ step[w] = "unpushed"
        BY <1>0, <1>9, <2>2, MovesOn DEF CannotFix
      <3>2. remote' = remote /\ began' = began /\ ~(local > remote)
        BY <1>9, <2>2 DEF CannotFix, git, counters, cycles, Unpushed
      <3>3. QED
        BY <3>1, <3>2 DEF Brought, Inv, TypeInv
    <2>3. QED
      BY <1>9, <2>1, <2>2 DEF CannotFix
  <1>10. CASE CheckDirty(w)
    <2>1. /\ step'[w] \in {"clean", "starting", "leaving"} /\ step[w] = "pushed"
          /\ remote' = remote /\ began' = began
      BY <1>0, <1>10, MovesOn DEF CheckDirty, git, counters, cycles
    <2>2. QED
      BY <2>1 DEF Brought
  <1>11. CASE NoteSync(w)
    <2>1. /\ step'[w] = "noted" /\ step[w] = "clean"
          /\ remote' = remote /\ began' = began
      BY <1>0, <1>11, MovesOn DEF NoteSync, git, counters, cycles
    <2>2. QED
      BY <2>1 DEF Brought
  <1>12. CASE BackoffEnds(w)
    BY <1>12, OthersBring
    DEF BackoffEnds, git, cycles, Inv, TypeInv
  <1>13. QED
    BY <1>1, <1>2, <1>3, <1>4, <1>5, <1>6, <1>7, <1>8, <1>9, <1>10, <1>11, <1>12

\* What others do leaves w and its cycle where they are.
LEMMA OtherSteps ==
  ASSUME Distinct, Inv, NEW w \in Worker, [Next]_vars
  PROVE  \/ step'[w] = step[w] /\ began'[w] = began[w]
         \/ step'[w] = "locking"
         \/ CreateLock(w) \/ WritePid(w) \/ GiveUp(w) \/ JudgeStale(w)
         \/ ClearLock(w) \/ ReleaseLock(w) \/ Die(w)
         \/ StartCycle(w) \/ FixRemoteAhead(w) \/ CannotFix(w)
         \/ CheckDirty(w) \/ NoteSync(w) \/ DeleteFlag(w)
         \/ BackedOff(w) \/ BackoffEnds(w)
         \/ AlreadyRunning(w) \/ Diverged(w) \/ TakeRepo(w) \/ EndBlocked(w)
         \/ SkipUnchanged(w) \/ ExportAndCommit(w) \/ PushExport(w) \/ PushFails(w)
  <1> DEFINE Still == step'[w] = step[w] /\ began'[w] = began[w]
  <1>0. w \in Holder /\ Tray \in Holder /\ w # Tray
    BY DEF Holder, Distinct
  <1>1. CASE UNCHANGED vars \/ WriteTool \/ DebounceEnds \/ PeerPush
    BY <1>1 DEF vars, WriteTool, DebounceEnds, PeerPush, counters, cycles
  <1>2. CASE StartTray
    BY <1>0, <1>2, MovesOn DEF StartTray, counters, cycles
  <1>3. CASE Hook
    <2>1. CASE recent
      BY <1>3, <2>1 DEF Hook
    <2>2. CASE ~recent
      <3>1. PICK v \in Worker : Goes(v, "locking")
        BY <1>3, <2>2 DEF Hook
      <3>2. v \in Holder /\ began' = began
        BY <1>3 DEF Hook, Holder
      <3>3. QED
        BY <1>0, <3>1, <3>2, MovesOn
    <2>3. QED
      BY <2>1, <2>2
  <1>4. ASSUME NEW v \in Worker \ {w},
               \/ CreateLock(v) \/ WritePid(v) \/ GiveUp(v) \/ JudgeStale(v)
               \/ ClearLock(v) \/ ReleaseLock(v) \/ Die(v)
               \/ StartCycle(v) \/ FixRemoteAhead(v) \/ CannotFix(v)
               \/ CheckDirty(v) \/ NoteSync(v) \/ DeleteFlag(v)
        PROVE  Still
    <2>1. v \in Holder
      BY DEF Holder
    <2>2. began' = began \/ began' = [began EXCEPT ![v] = written]
      BY <1>4
      DEF CreateLock, WritePid, GiveUp, JudgeStale, ClearLock, ReleaseLock, Die,
          StartCycle, FixRemoteAhead, CannotFix, CheckDirty, NoteSync, DeleteFlag, counters, cycles
    <2>3. began'[w] = began[w]
      BY <2>2 DEF Inv, TypeInv
    <2>4. \E s \in Places : Goes(v, s)
      BY <1>4
      DEF CreateLock, WritePid, GiveUp, JudgeStale, ClearLock, ReleaseLock, Die,
          StartCycle, FixRemoteAhead, CannotFix, CheckDirty, NoteSync, DeleteFlag, Places
    <2>5. QED
      BY <1>0, <2>1, <2>3, <2>4, MovesOn
  <1>5. ASSUME NEW h \in Holder \ {w},
               \/ BackedOff(h) \/ BackoffEnds(h) \/ AlreadyRunning(h)
               \/ Diverged(h) \/ TakeRepo(h) \/ EndBlocked(h)
               \/ SkipUnchanged(h) \/ ExportAndCommit(h) \/ PushExport(h) \/ PushFails(h)
        PROVE  Still
    <2>1. began' = began
      BY <1>5
      DEF BackedOff, BackoffEnds, AlreadyRunning, Diverged, TakeRepo, EndBlocked,
          SkipUnchanged, ExportAndCommit, PushExport, PushFails, counters, cycles
    <2>2. step' = step \/ \E s \in Places : Goes(h, s)
      BY <1>5
      DEF BackedOff, BackoffEnds, AlreadyRunning, Diverged, TakeRepo, EndBlocked, SkipUnchanged,
          ExportAndCommit, PushExport, PushFails, Result, Places
    <2>3. QED
      BY <1>0, <2>1, <2>2, MovesOn
  <1>6. QED
    BY <1>1, <1>2, <1>3, <1>4, <1>5 DEF Next, Holder

LEMMA BroughtStep ==
  ASSUME Distinct, Inv, NEW w \in Worker, Brought(w), [Next]_vars, [Honest(w)]_vars
  PROVE  Brought(w)'
  <1>1. CASE UNCHANGED vars
    BY <1>1 DEF vars, Brought
  <1>2. CASE Honest(w)
    <2>1. CASE step'[w] = step[w] /\ began'[w] = began[w]
      BY <1>2, <2>1, RemoteGrows, OthersBring DEF Honest
    <2>2. CASE step'[w] = "locking"
      BY <2>2, NothingClaimed
    <2>3. QED
      BY <1>2, <2>1, <2>2, OtherSteps, OwnSteps
  <1>3. QED
    BY <1>1, <1>2

\* A worker whose cycles meet neither a running sync nor the backoff, while no
\* commit is dropped, notes a sync only when it is one.
LEMMA HonestWorker ==
  ASSUME Distinct, NEW w \in Worker
  PROVE  Spec /\ [][Honest(w)]_vars => [](step[w] = "noted" => remote >= began[w])
  <1>1. Init => Brought(w)
    BY DEF Init, Brought
  <1>2. Inv /\ Brought(w) /\ [Next]_vars /\ [Honest(w)]_vars => Brought(w)'
    BY BroughtStep
  <1>3. Brought(w) => (step[w] = "noted" => remote >= began[w])
    BY DEF Brought
  <1>4. QED
    BY <1>1, <1>2, <1>3, Invariance, PTL DEF Spec

(* A worker reports an empty push as a sync for three reasons only: it     *)
(* found a sync running, its own process was backing off after a failed    *)
(* push, or a commit was dropped because a peer had pushed.  If none of    *)
(* them happens - blocked, unanswered and diverged repositories, stale     *)
(* lock files, dying workers and late hooks all may - then a sync is noted *)
(* and the dirty flag deleted only when all that was written before the    *)
(* cycle began is on the remote.  The run auto_sync shows that it fails.   *)
THEOREM NotedIsSentOtherwise ==
  ASSUME Distinct
  PROVE  Spec /\ [][\A w \in Worker : Honest(w)]_vars => []NotedMeansSent
  <1>1. Init => \A w \in Worker : Brought(w)
    BY DEF Init, Brought
  <1>2. /\ Inv /\ (\A w \in Worker : Brought(w))
        /\ [Next]_vars /\ [\A w \in Worker : Honest(w)]_vars
        => (\A w \in Worker : Brought(w))'
    BY BroughtStep
  <1>3. (\A w \in Worker : Brought(w)) => NotedMeansSent
    BY DEF Brought, NotedMeansSent
  <1>4. QED
    BY <1>1, <1>2, <1>3, Invariance, PTL DEF Spec
=============================================================================
