-------------------------- MODULE TaskStore_proofs --------------------------
(***************************************************************************)
(* Proofs about the task table of a machine: its writers (TaskWriters),    *)
(* for any tasks, windows, candidates and number of writes, and its        *)
(* backups (DatabaseBackup), for any number of overlapping runs, any clock *)
(* and any number of generations to keep.                                  *)
(***************************************************************************)
EXTENDS MCTaskStore, BridgeSync_proofs, FiniteSetTheorems

(***************************************************************************)
(* Writers                                                                 *)
(***************************************************************************)
\* The event of a row is that of its last status write, or none.
EventIsLast ==
  \A t \in Task : task[t].event # 0 =>
    \A v \in writes : v.task = t /\ v.field = "status" => v.n <= task[t].event

\* No write of a task is later than its row says.
LastIsLast ==
  \A t \in Task : \A v \in writes : v.task = t => v.n <= task[t].last

\* Rows and writes have their types.
RowsOK ==
  /\ task \in [Task -> [status : TaskStatus \cup {"purged"},
                        event : 0 .. now, last : 0 .. now]]
  /\ now \in 0 .. MaxWrites
  /\ \A w \in writes : w.task \in Task /\ w.n \in 1 .. now /\ w.seen \in 0 .. w.n - 1

WrittenOK ==
  /\ RowsOK /\ EventIsLast /\ LastIsLast
  /\ ClickFollowsSight /\ AppliedAsReviewed

\* A status token is older than the transaction it was rendered at.
TokensOK ==
  /\ DOMAIN token = Window
  /\ \A w \in Window : token[w] # NoToken =>
       /\ token[w] \in Tokens
       /\ token[w].event <= token[w].at /\ token[w].at <= now

\* An undo token names the window's own archive, which was not undone yet.
UndosOK ==
  /\ DOMAIN undo = Window
  /\ \A w \in Window : undo[w] # NoToken =>
       /\ undo[w].task \in Task /\ undo[w].status = "archived"
       /\ undo[w].back \in TaskStatus
       /\ undo[w].event = undo[w].at /\ undo[w].at \in 1 .. now
       /\ \E a \in writes : /\ a.n = undo[w].at /\ a.by = w /\ a.task = undo[w].task
                            /\ a.to = "archived" /\ a.from = undo[w].back
       /\ \A v \in writes : v.by = w /\ v.from = "archived" => v.seen # undo[w].at

\* A proposal was made of a row as it was then.
CandidatesOK ==
  /\ DOMAIN candidate = Candidate
  /\ \A c \in Candidate : candidate[c].run # 0 =>
       /\ {"run", "task", "reviewed", "at"} \subseteq DOMAIN candidate[c]
       /\ candidate[c].task \in Task
       /\ candidate[c].reviewed.last <= candidate[c].at
       /\ candidate[c].reviewed.last \in Nat
       /\ candidate[c].at \in 0 .. now

TaskInv == WrittenOK /\ TokensOK /\ UndosOK /\ CandidatesOK /\ UndoRestores

USE WriterAssumption

LEMMA TaskInitInv == TaskInit => TaskInv
<1> SUFFICES ASSUME TaskInit PROVE TaskInv OBVIOUS
<1>1. RowsOK BY DEF TaskInit, RowsOK
<1>2. EventIsLast /\ LastIsLast BY DEF TaskInit, EventIsLast, LastIsLast
<1>3. ClickFollowsSight /\ AppliedAsReviewed /\ UndoRestores
      BY DEF TaskInit, ClickFollowsSight, AppliedAsReviewed, UndoRestores
<1>4. TokensOK /\ UndosOK BY DEF TaskInit, TokensOK, UndosOK
<1>5. CandidatesOK BY DEF TaskInit, CandidatesOK, NoCandidate
<1> QED BY <1>1, <1>2, <1>3, <1>4, <1>5 DEF TaskInv, WrittenOK

\* A write as a transaction makes it: it has the next number, and if the
\* writer is a window or a candidate, it saw what it has to have seen.
Sound(w) ==
  /\ w.task \in Task /\ w.n = now + 1 /\ w.seen \in 0 .. now
  /\ w.to \in TaskStatus \cup {"purged"}
  /\ w.event \in {0, now + 1} \/ (w.field # "status" /\ w.event = task[w.task].event)
  /\ w.by \in Window =>
       \A v \in writes : v.task = w.task /\ w.seen < v.n => v.field # "status"
  /\ w.by \in Candidate =>
       \A v \in writes : v.task = w.task => ~(w.seen < v.n)

\* Committing sound writes, at most one of a task.
LEMMA CommitKeeps ==
  ASSUME WrittenOK, NEW W, Commit(W), \A w \in W : Sound(w),
         \A w, v \in W : w.task = v.task => w = v
  PROVE  WrittenOK'
<1>1. now \in Nat /\ now' = now + 1 /\ now' \in 0 .. MaxWrites
      /\ writes' = writes \cup W
      BY DEF Commit, WrittenOK, RowsOK
<1>2. ASSUME NEW t \in Task, NEW w \in W, w.task = t
      PROVE  /\ task'[t] = [status |-> w.to, event |-> w.event, last |-> now + 1]
             /\ task'[t].status = w.to /\ task'[t].event = w.event
             /\ task'[t].last = now + 1
  <2> DEFINE v == CHOOSE v \in W : v.task = t
  <2>1. v \in W /\ v.task = t BY <1>2
  <2>2. v = w BY <2>1, <1>2
  <2>3. task'[t] = [status |-> v.to, event |-> v.event, last |-> now + 1]
        BY <1>2 DEF Commit
  <2> HIDE DEF v
  <2>4. task'[t] = [status |-> w.to, event |-> w.event, last |-> now + 1]
        BY <2>2, <2>3
  <2> QED BY <2>4
<1>3. \A t \in Task : (\A w \in W : w.task # t) => task'[t] = task[t]
      BY DEF Commit
<1>4. \A t \in Task : task[t] \in [status : TaskStatus \cup {"purged"},
                                   event : 0 .. now, last : 0 .. now]
      BY DEF WrittenOK, RowsOK
<1>5. \A t \in Task : task'[t] \in [status : TaskStatus \cup {"purged"},
                                    event : 0 .. now', last : 0 .. now']
  <2> SUFFICES ASSUME NEW t \in Task
               PROVE  task'[t] \in [status : TaskStatus \cup {"purged"},
                                    event : 0 .. now', last : 0 .. now']
      OBVIOUS
  <2>1. CASE \E w \in W : w.task = t
    <3>1. PICK w \in W : w.task = t BY <2>1
    <3>2. w.event \in 0 .. now + 1 BY <1>1, <1>4, <3>1 DEF Sound
    <3>3. w.to \in TaskStatus \cup {"purged"} BY <3>1 DEF Sound
    <3>4. now + 1 \in 0 .. now' /\ w.event \in 0 .. now' BY <1>1, <3>2
    <3>5. task'[t] = [status |-> w.to, event |-> w.event, last |-> now + 1]
          BY <1>2, <3>1
    <3> QED BY <3>3, <3>4, <3>5
  <2>2. CASE ~\E w \in W : w.task = t BY <1>1, <1>3, <1>4, <2>2
  <2> QED BY <2>1, <2>2
<1>6. \A w \in writes : w.task \in Task /\ w.n \in 1 .. now /\ w.seen \in 0 .. w.n - 1
      BY DEF WrittenOK, RowsOK
<1>7. RowsOK'
  <2>1. task' \in [Task -> [status : TaskStatus \cup {"purged"},
                            event : 0 .. now', last : 0 .. now']]
        BY <1>5 DEF Commit
  <2>2. \A w \in W : w.task \in Task /\ w.n = now + 1 /\ w.seen \in 0 .. now
        BY DEF Sound
  <2>3. \A w \in writes' :
          w.task \in Task /\ w.n \in 1 .. now' /\ w.seen \in 0 .. w.n - 1
    <3>1. ASSUME NEW w \in writes
          PROVE  w.task \in Task /\ w.n \in 1 .. now' /\ w.seen \in 0 .. w.n - 1
          BY <1>1, <1>6
    <3>2. ASSUME NEW w \in W
          PROVE  w.task \in Task /\ w.n \in 1 .. now' /\ w.seen \in 0 .. w.n - 1
          BY <1>1, <2>2
    <3> QED BY <1>1, <3>1, <3>2
  <2> QED BY <1>1, <2>1, <2>3 DEF RowsOK
<1>8. \A w \in W : w.n = now + 1 BY DEF Sound
<1>9. EventIsLast'
  <2> SUFFICES ASSUME NEW t \in Task, task'[t].event # 0,
                      NEW v \in writes', v.task = t, v.field = "status"
               PROVE  v.n <= task'[t].event
      BY DEF EventIsLast
  <2>1. CASE \E w \in W : w.task = t
    <3>1. PICK w \in W : w.task = t BY <2>1
    <3>2. task'[t].event = w.event BY <1>2, <3>1
    <3>3. v.n <= now + 1 BY <1>1, <1>6, <1>8
    <3>4. CASE w.event = now + 1 BY <3>2, <3>3, <3>4
    <3>5. CASE w.field # "status" /\ w.event = task[t].event
      <4>1. v \in writes BY <1>1, <3>1, <3>5
      <4> QED BY <3>2, <3>5, <4>1 DEF WrittenOK, EventIsLast
    <3> QED BY <3>1, <3>2, <3>4, <3>5 DEF Sound
  <2>2. CASE ~\E w \in W : w.task = t
    <3>1. v \in writes /\ task'[t] = task[t] BY <1>1, <1>3, <2>2
    <3> QED BY <3>1 DEF WrittenOK, EventIsLast
  <2> QED BY <2>1, <2>2
<1>10. LastIsLast'
  <2> SUFFICES ASSUME NEW t \in Task, NEW v \in writes', v.task = t
               PROVE  v.n <= task'[t].last
      BY DEF LastIsLast
  <2>1. CASE \E w \in W : w.task = t
    <3>1. task'[t].last = now + 1 BY <1>2, <2>1
    <3>2. v.n <= now + 1 BY <1>1, <1>6, <1>8
    <3> QED BY <3>1, <3>2
  <2>2. CASE ~\E w \in W : w.task = t
    <3>1. v \in writes /\ task'[t] = task[t] BY <1>1, <1>3, <2>2
    <3> QED BY <3>1 DEF WrittenOK, LastIsLast
  <2> QED BY <2>1, <2>2
<1>11. ASSUME NEW w \in writes, NEW v \in writes', v.task = w.task,
              w.seen < v.n, v.n < w.n
       PROVE  v \in writes
       BY <1>1, <1>6, <1>8, <1>11
<1>12. ASSUME NEW w \in W, NEW v \in writes', v.task = w.task,
              w.seen < v.n, v.n < w.n
       PROVE  v \in writes
       BY <1>1, <1>8, <1>12
<1>13. ClickFollowsSight'
  <2> SUFFICES ASSUME NEW w \in writes', w.by \in Window, NEW v \in writes',
                      v.task = w.task, w.seen < v.n, v.n < w.n
               PROVE  v.field # "status"
      BY DEF ClickFollowsSight, Between
  <2>1. CASE w \in writes
        BY <1>11, <2>1 DEF WrittenOK, ClickFollowsSight, Between
  <2>2. CASE w \in W BY <1>12, <2>2 DEF Sound
  <2> QED BY <1>1, <2>1, <2>2
<1>14. AppliedAsReviewed'
  <2> SUFFICES ASSUME NEW w \in writes', w.by \in Candidate, NEW v \in writes',
                      v.task = w.task, w.seen < v.n, v.n < w.n
               PROVE  FALSE
      BY DEF AppliedAsReviewed, Between
  <2>1. CASE w \in writes
    <3>1. v \in writes BY <1>11, <2>1
    <3>2. v \in Between(w.seen, w) BY <3>1 DEF Between
    <3> QED BY <2>1, <3>2 DEF WrittenOK, AppliedAsReviewed
  <2>2. CASE w \in W
    <3>1. v \in writes BY <1>12, <2>2
    <3> QED BY <2>2, <3>1 DEF Sound
  <2> QED BY <1>1, <2>1, <2>2
<1> QED BY <1>7, <1>9, <1>10, <1>13, <1>14 DEF WrittenOK

\* Committing writes that take nothing back leaves every token as good as it
\* was.
LEMMA CommitLeavesTokens ==
  ASSUME TaskInv, NEW W, Commit(W), \A w \in W : Sound(w),
         \A w, v \in W : w.task = v.task => w = v,
         \A w \in W : w.by \notin Window \/ w.from # "archived"
  PROVE  /\ WrittenOK' /\ UndoRestores'
         /\ token' = token => TokensOK'
         /\ undo' = undo => UndosOK'
         /\ candidate' = candidate => CandidatesOK'
<1>1. WrittenOK' BY CommitKeeps DEF TaskInv
<1>2. now \in Nat /\ now' = now + 1 /\ writes' = writes \cup W
      BY DEF Commit, TaskInv, WrittenOK, RowsOK
<1>3. \A v \in writes' : v.by \in Window /\ v.from = "archived" => v \in writes
      BY <1>2
<1>4. UndoRestores' BY <1>2, <1>3 DEF TaskInv, UndoRestores
<1>5. token' = token => TokensOK' BY <1>2 DEF TaskInv, TokensOK, Tokens
<1>6. undo' = undo => UndosOK'
  <2> SUFFICES ASSUME undo' = undo PROVE UndosOK' OBVIOUS
  <2>1. ASSUME NEW w \in Window, undo[w] # NoToken
        PROVE  /\ undo[w].task \in Task /\ undo[w].status = "archived"
               /\ undo[w].back \in TaskStatus
               /\ undo[w].event = undo[w].at /\ undo[w].at \in 1 .. now'
               /\ \E a \in writes' :
                    /\ a.n = undo[w].at /\ a.by = w /\ a.task = undo[w].task
                    /\ a.to = "archived" /\ a.from = undo[w].back
               /\ \A v \in writes' : v.by = w /\ v.from = "archived" => v.seen # undo[w].at
    <3>1. /\ undo[w].task \in Task /\ undo[w].status = "archived"
          /\ undo[w].back \in TaskStatus
          /\ undo[w].event = undo[w].at /\ undo[w].at \in 1 .. now'
          BY <1>2, <2>1 DEF TaskInv, UndosOK
    <3>2. \E a \in writes' :
            /\ a.n = undo[w].at /\ a.by = w /\ a.task = undo[w].task
            /\ a.to = "archived" /\ a.from = undo[w].back
          BY <1>2, <2>1 DEF TaskInv, UndosOK
    <3>3. \A v \in writes' : v.by = w /\ v.from = "archived" => v.seen # undo[w].at
          BY <1>3, <2>1 DEF TaskInv, UndosOK
    <3> QED BY <3>1, <3>2, <3>3
  <2> QED BY <2>1 DEF TaskInv, UndosOK
<1>7. candidate' = candidate => CandidatesOK' BY <1>2 DEF TaskInv, CandidatesOK
<1> QED BY <1>1, <1>4, <1>5, <1>6, <1>7

\* Whoever writes without having looked saw everything there was.
LEMMA BlindSound ==
  ASSUME TaskInv, NEW t \in Task, NEW field, NEW to \in TaskStatus \cup {"purged"},
         NEW event, event \in {0, now + 1} \/ (field # "status" /\ event = task[t].event)
  PROVE  /\ Sound(AnyWrite(t, field, to, event, Other, now))
         /\ AnyWrite(t, field, to, event, Other, now).by \notin Window
         /\ AnyWrite(t, field, to, event, Other, now).task = t
<1>1. now \in Nat BY DEF TaskInv, WrittenOK, RowsOK
<1>2. \A v \in writes : ~(now < v.n) BY <1>1 DEF TaskInv, WrittenOK, RowsOK
<1> QED BY <1>1, <1>2 DEF Sound, AnyWrite, Other

LEMMA SetInv ==
  ASSUME TaskInv, NEW t \in Task, NEW s \in TaskStatus, NEW event \in {0, now + 1},
         SetTaskStatus(t, s, event)
  PROVE  TaskInv'
<1> DEFINE w == AnyWrite(t, "status", s, event, Other, now)
<1>1. Sound(w) /\ w.by \notin Window BY BlindSound
<1>2. Commit({w}) /\ UNCHANGED <<token, undo, candidate>> BY DEF SetTaskStatus
<1> HIDE DEF w
<1> QED BY <1>1, <1>2, CommitLeavesTokens DEF TaskInv

LEMMA EditInv ==
  ASSUME TaskInv, NEW t \in Task, EditField(t) PROVE TaskInv'
<1> DEFINE w == FieldWrite(t, Other, now)
<1>1. task[t].status \in TaskStatus \cup {"purged"} BY DEF TaskInv, WrittenOK, RowsOK
<1>2. Sound(w) /\ w.by \notin Window BY <1>1, BlindSound DEF FieldWrite
<1>3. Commit({w}) /\ UNCHANGED <<token, undo, candidate>> BY DEF EditField
<1> HIDE DEF w
<1> QED BY <1>2, <1>3, CommitLeavesTokens DEF TaskInv

LEMMA PurgeInv ==
  ASSUME TaskInv, NEW t \in Task, PurgeTask(t) PROVE TaskInv'
<1> DEFINE w == AnyWrite(t, "status", "purged", 0, Other, now)
<1>1. Sound(w) /\ w.by \notin Window BY BlindSound
<1>2. Commit({w}) /\ UNCHANGED <<token, undo, candidate>> BY DEF PurgeTask
<1> HIDE DEF w
<1> QED BY <1>1, <1>2, CommitLeavesTokens DEF TaskInv

LEMMA ArchiveInv ==
  ASSUME TaskInv, NEW old \in SUBSET Task, ArchiveDone(old) PROVE TaskInv'
<1> DEFINE W == {StatusWrite(t, "archived", Other, now) : t \in old}
<1>1. ASSUME NEW t \in old
      PROVE  LET w == StatusWrite(t, "archived", Other, now)
             IN  Sound(w) /\ w.by \notin Window /\ w.task = t
      BY BlindSound DEF StatusWrite
<1>2. \A w \in W : Sound(w) /\ w.by \notin Window BY <1>1
<1>3. \A w, v \in W : w.task = v.task => w = v BY <1>1
<1>4. Commit(W) /\ UNCHANGED <<token, undo, candidate>> BY DEF ArchiveDone
<1> HIDE DEF W
<1> QED BY <1>2, <1>3, <1>4, CommitLeavesTokens DEF TaskInv

LEMMA RenderInv ==
  ASSUME TaskInv, NEW u \in Window, NEW t \in Task, Render(u, t) PROVE TaskInv'
<1> DEFINE k == [task |-> t, status |-> task[t].status, event |-> task[t].event, at |-> now]
<1>1. UNCHANGED <<task, now, writes, undo, candidate>>
      /\ token' = [token EXCEPT ![u] = k] /\ task[t].event # 0 /\ Exists(t)
      BY DEF Render
<1>2. task[t] \in [status : TaskStatus \cup {"purged"}, event : 0 .. now, last : 0 .. now]
      /\ now \in Nat
      BY DEF TaskInv, WrittenOK, RowsOK
<1>3. task[t].status \in TaskStatus BY <1>1, <1>2 DEF Exists
<1>4. task[t].event \in Nat \ {0} /\ task[t].event <= now BY <1>1, <1>2
<1>5. k \in Tokens /\ k.event <= k.at /\ k.at <= now BY <1>2, <1>3, <1>4 DEF Tokens
<1> HIDE DEF k
<1>6. TokensOK' BY <1>1, <1>5 DEF TaskInv, TokensOK
<1>7. WrittenOK' BY <1>1 DEF TaskInv, WrittenOK, RowsOK, EventIsLast, LastIsLast,
                          ClickFollowsSight, AppliedAsReviewed, Between
<1>8. UndosOK' /\ CandidatesOK' /\ UndoRestores'
      BY <1>1 DEF TaskInv, UndosOK, CandidatesOK, UndoRestores
<1> QED BY <1>6, <1>7, <1>8 DEF TaskInv

\* A token that still names its row was rendered after the last status write.
LEMMA NamedSound ==
  ASSUME TaskInv, NEW u \in Window, NEW k, Names(k), k.task \in Task,
         k.event \in Nat \ {0}, k.event <= k.at, k.at \in 0 .. now,
         NEW to \in TaskStatus
  PROVE  LET w == StatusWrite(k.task, to, u, k.at)
         IN  Sound(w) /\ w.by = u /\ w.from = k.status /\ w.seen = k.at
             /\ w.task = k.task /\ w.to = to /\ w.n = now + 1
<1> DEFINE w == StatusWrite(k.task, to, u, k.at)
<1>1. /\ w.by = u /\ w.from = task[k.task].status /\ w.seen = k.at
      /\ w.task = k.task /\ w.to = to /\ w.n = now + 1 /\ w.event = now + 1
      BY DEF StatusWrite, AnyWrite
<1>2. task[k.task].event = k.event /\ task[k.task].status = k.status BY DEF Names
<1>3. \A v \in writes : v.task = k.task /\ k.at < v.n => v.field # "status"
  <2>1. \A v \in writes : v.task = k.task /\ v.field = "status" => v.n <= k.event
        BY <1>2 DEF TaskInv, WrittenOK, EventIsLast
  <2>2. \A v \in writes : v.n \in Nat /\ k.at \in Nat /\ k.event \in Nat
        BY DEF TaskInv, WrittenOK, RowsOK
  <2> QED BY <2>1, <2>2
<1> HIDE DEF w
<1>4. Sound(w) BY <1>1, <1>3 DEF Sound
<1> QED BY <1>1, <1>2, <1>4 DEF w

LEMMA TransitionInv ==
  ASSUME TaskInv, NEW u \in Window, NEW to \in TaskStatus, NEW confirmed \in BOOLEAN,
         Transition(u, to, confirmed)
  PROVE  TaskInv'
<1> DEFINE k == token[u]
           w == StatusWrite(k.task, to, u, k.at)
<1>1. /\ k # NoToken /\ Allowed(k.status, to, confirmed) /\ Names(k) /\ Commit({w})
      /\ UNCHANGED <<token, candidate>>
      BY DEF Transition
<1>2. k \in Tokens /\ k.event <= k.at /\ k.at <= now BY <1>1 DEF TaskInv, TokensOK
<1>3. now \in Nat BY DEF TaskInv, WrittenOK, RowsOK
<1>4. Sound(w) /\ w.by = u /\ w.from = k.status /\ w.seen = k.at
      /\ w.task = k.task /\ w.to = to /\ w.n = now + 1
      BY <1>1, <1>2, <1>3, NamedSound DEF Tokens
<1>5. k.status # "archived" BY <1>1 DEF Allowed, Active
<1>6. undo' = IF to = "archived"
              THEN [undo EXCEPT ![u] =
                      [task |-> k.task, status |-> "archived",
                       event |-> now + 1, at |-> now + 1, back |-> k.status]]
              ELSE undo
      BY DEF Transition, BackTo
<1>7. k.task \in Task /\ k.status \in TaskStatus BY <1>2 DEF Tokens
<1> HIDE DEF k, w
<1>8. WrittenOK' /\ UndoRestores' /\ TokensOK' /\ CandidatesOK' /\ (undo' = undo => UndosOK')
      BY <1>1, <1>4, <1>5, CommitLeavesTokens
<1>9. CASE to # "archived" BY <1>6, <1>8, <1>9 DEF TaskInv
<1>10. CASE to = "archived"
  <2>1. now' = now + 1 /\ writes' = writes \cup {w} BY <1>1 DEF Commit
  <2>2. \A v \in writes : v.seen \in Nat /\ v.seen < now + 1
        BY <1>3 DEF TaskInv, WrittenOK, RowsOK
  <2> DEFINE n == [task |-> k.task, status |-> "archived",
                   event |-> now + 1, at |-> now + 1, back |-> k.status]
  <2>3. undo' = [undo EXCEPT ![u] = n] BY <1>6, <1>10
  <2>4. /\ n.task = k.task /\ n.status = "archived" /\ n.back = k.status
        /\ n.event = now + 1 /\ n.at = now + 1
        OBVIOUS
  <2> HIDE DEF n
  <2>5. undo'[u] = n /\ DOMAIN undo' = Window
        /\ \A x \in Window \ {u} : undo'[x] = undo[x]
        BY <2>3 DEF TaskInv, UndosOK
  <2>6. ASSUME NEW x \in Window, undo'[x] # NoToken
        PROVE  /\ undo'[x].task \in Task /\ undo'[x].status = "archived"
               /\ undo'[x].back \in TaskStatus
               /\ undo'[x].event = undo'[x].at /\ undo'[x].at \in 1 .. now'
               /\ \E a \in writes' :
                    /\ a.n = undo'[x].at /\ a.by = x /\ a.task = undo'[x].task
                    /\ a.to = "archived" /\ a.from = undo'[x].back
               /\ \A v \in writes' : v.by = x /\ v.from = "archived" => v.seen # undo'[x].at
    <3>1. CASE x = u
      <4>1. /\ undo'[x].task \in Task /\ undo'[x].status = "archived"
            /\ undo'[x].back \in TaskStatus
            /\ undo'[x].event = undo'[x].at /\ undo'[x].at \in 1 .. now'
            BY <1>3, <1>7, <2>1, <2>4, <2>5, <3>1
      <4>2. /\ w.n = undo'[x].at /\ w.by = x /\ w.task = undo'[x].task
            /\ w.to = "archived" /\ w.from = undo'[x].back
            BY <1>4, <1>10, <2>4, <2>5, <3>1
      <4>3. w \in writes' BY <2>1
      <4>4. ASSUME NEW v \in writes', v.from = "archived" PROVE v.seen # undo'[x].at
        <5>1. v \in writes BY <1>4, <1>5, <2>1, <4>4
        <5> QED BY <1>3, <2>2, <2>4, <2>5, <3>1, <5>1
      <4> QED BY <4>1, <4>2, <4>3, <4>4
    <3>2. CASE x # u
      <4>1. undo'[x] = undo[x] /\ undo[x] # NoToken BY <2>5, <2>6, <3>2
      <4>2. /\ undo[x].task \in Task /\ undo[x].status = "archived"
            /\ undo[x].back \in TaskStatus
            /\ undo[x].event = undo[x].at /\ undo[x].at \in 1 .. now'
            BY <1>3, <2>1, <4>1 DEF TaskInv, UndosOK
      <4>3. \E a \in writes' :
              /\ a.n = undo[x].at /\ a.by = x /\ a.task = undo[x].task
              /\ a.to = "archived" /\ a.from = undo[x].back
            BY <2>1, <4>1 DEF TaskInv, UndosOK
      <4>4. \A v \in writes' : v.by = x /\ v.from = "archived" => v.seen # undo[x].at
            BY <1>4, <1>5, <2>1, <4>1 DEF TaskInv, UndosOK
      <4> QED BY <4>1, <4>2, <4>3, <4>4
    <3> QED BY <3>1, <3>2
  <2>7. UndosOK' BY <2>5, <2>6 DEF UndosOK
  <2> QED BY <1>8, <2>7 DEF TaskInv
<1> QED BY <1>9, <1>10

LEMMA UndoInv ==
  ASSUME TaskInv, NEW u \in Window, Undo(u) PROVE TaskInv'
<1> DEFINE k == undo[u]
           w == StatusWrite(k.task, k.back, u, k.at)
<1>1. /\ k # NoToken /\ undo' = [undo EXCEPT ![u] = NoToken]
      /\ UNCHANGED <<token, candidate>>
      BY DEF Undo
<1>2. undo'[u] = NoToken /\ DOMAIN undo' = Window
      /\ \A x \in Window \ {u} : undo'[x] = undo[x]
      BY <1>1 DEF TaskInv, UndosOK
<1>3. CASE ~Names(k)
  <2>1. UNCHANGED <<task, now, writes>> BY <1>3 DEF Undo
  <2>2. UndosOK' BY <1>2, <2>1 DEF TaskInv, UndosOK
  <2>3. WrittenOK' BY <2>1 DEF TaskInv, WrittenOK, RowsOK, EventIsLast, LastIsLast,
                            ClickFollowsSight, AppliedAsReviewed, Between
  <2>4. TokensOK' /\ CandidatesOK' /\ UndoRestores'
        BY <1>1, <2>1 DEF TaskInv, TokensOK, CandidatesOK, UndoRestores
  <2> QED BY <2>2, <2>3, <2>4 DEF TaskInv
<1>4. CASE Names(k)
  <2>1. Commit({w}) BY <1>4 DEF Undo
  <2>2. now \in Nat BY DEF TaskInv, WrittenOK, RowsOK
  <2>3. /\ k.task \in Task /\ k.status = "archived" /\ k.back \in TaskStatus
        /\ k.event = k.at /\ k.at \in 1 .. now
        /\ \E a \in writes : /\ a.n = k.at /\ a.by = u /\ a.task = k.task
                             /\ a.to = "archived" /\ a.from = k.back
        /\ \A v \in writes : v.by = u /\ v.from = "archived" => v.seen # k.at
        BY <1>1 DEF TaskInv, UndosOK
  <2>4. k.event \in Nat \ {0} /\ k.event <= k.at /\ k.at \in 0 .. now BY <2>2, <2>3
  <2>5. Sound(w) /\ w.by = u /\ w.from = k.status /\ w.seen = k.at
        /\ w.task = k.task /\ w.to = k.back /\ w.n = now + 1
        BY <1>4, <2>3, <2>4, NamedSound
  <2> HIDE DEF w, k
  <2>6. WrittenOK' BY <2>1, <2>5, CommitKeeps DEF TaskInv
  <2>7. now' = now + 1 /\ writes' = writes \cup {w} BY <2>1 DEF Commit
  <2>8. TokensOK' BY <1>1, <2>2, <2>7 DEF TaskInv, TokensOK, Tokens
  <2>9. CandidatesOK' BY <1>1, <2>2, <2>7 DEF TaskInv, CandidatesOK
  <2>10. UndosOK'
    <3>1. ASSUME NEW x \in Window, undo'[x] # NoToken
          PROVE  /\ undo'[x].task \in Task /\ undo'[x].status = "archived"
                 /\ undo'[x].back \in TaskStatus
                 /\ undo'[x].event = undo'[x].at /\ undo'[x].at \in 1 .. now'
                 /\ \E a \in writes' :
                      /\ a.n = undo'[x].at /\ a.by = x /\ a.task = undo'[x].task
                      /\ a.to = "archived" /\ a.from = undo'[x].back
                 /\ \A v \in writes' : v.by = x /\ v.from = "archived" => v.seen # undo'[x].at
      <4>1. x # u /\ undo'[x] = undo[x] /\ undo[x] # NoToken BY <1>2, <3>1
      <4>2. /\ undo[x].task \in Task /\ undo[x].status = "archived"
            /\ undo[x].back \in TaskStatus
            /\ undo[x].event = undo[x].at /\ undo[x].at \in 1 .. now'
            BY <2>2, <2>7, <4>1 DEF TaskInv, UndosOK
      <4>3. \E a \in writes' :
              /\ a.n = undo[x].at /\ a.by = x /\ a.task = undo[x].task
              /\ a.to = "archived" /\ a.from = undo[x].back
            BY <2>7, <4>1 DEF TaskInv, UndosOK
      <4>4. \A v \in writes' : v.by = x /\ v.from = "archived" => v.seen # undo[x].at
            BY <2>5, <2>7, <4>1 DEF TaskInv, UndosOK
      <4> QED BY <4>1, <4>2, <4>3, <4>4
    <3> QED BY <1>2, <3>1 DEF UndosOK
  <2>11. UndoRestores'
    <3> SUFFICES ASSUME NEW y \in writes', y.by \in Window, y.from = "archived"
                 PROVE  /\ \E a \in writes' :
                             /\ a.n = y.seen /\ a.by = y.by /\ a.task = y.task
                             /\ a.to = "archived" /\ a.from = y.to
                        /\ \A v \in writes' :
                             v.by = y.by /\ v.from = "archived" /\ v.seen = y.seen => v = y
        BY DEF UndoRestores
    <3>1. CASE y \in writes
      <4>1. \E a \in writes' :
              /\ a.n = y.seen /\ a.by = y.by /\ a.task = y.task
              /\ a.to = "archived" /\ a.from = y.to
            BY <2>7, <3>1 DEF TaskInv, UndoRestores
      <4>2. ASSUME NEW v \in writes', v.by = y.by, v.from = "archived", v.seen = y.seen
            PROVE  v = y
        <5>1. v # w BY <2>3, <2>5, <3>1, <4>2
        <5> QED BY <2>7, <3>1, <4>2, <5>1 DEF TaskInv, UndoRestores
      <4> QED BY <4>1, <4>2
    <3>2. CASE y = w
      <4>1. \E a \in writes' :
              /\ a.n = y.seen /\ a.by = y.by /\ a.task = y.task
              /\ a.to = "archived" /\ a.from = y.to
            BY <2>3, <2>5, <2>7, <3>2
      <4>2. \A v \in writes' :
              v.by = y.by /\ v.from = "archived" /\ v.seen = y.seen => v = y
            BY <2>3, <2>5, <2>7, <3>2
      <4> QED BY <4>1, <4>2
    <3> QED BY <2>7, <3>1, <3>2
  <2> QED BY <2>6, <2>8, <2>9, <2>10, <2>11 DEF TaskInv
<1> QED BY <1>3, <1>4

\* Steps that write nothing and leave the windows alone.
LEMMA UnwrittenInv ==
  ASSUME TaskInv, UNCHANGED <<task, now, writes, token, undo>>, CandidatesOK'
  PROVE  TaskInv'
<1>1. WrittenOK' BY DEF TaskInv, WrittenOK, RowsOK, EventIsLast, LastIsLast,
                        ClickFollowsSight, AppliedAsReviewed, Between
<1>2. TokensOK' /\ UndosOK' /\ UndoRestores'
      BY DEF TaskInv, TokensOK, UndosOK, UndoRestores
<1> QED BY <1>1, <1>2 DEF TaskInv

LEMMA StartInv ==
  ASSUME TaskInv, NEW C \in SUBSET Candidate, NEW about \in [C -> Task],
         NEW kind, NEW completed, StartReflection(about, kind, completed)
  PROVE  TaskInv'
<1>1. /\ UNCHANGED <<task, now, writes, token, undo>>
      /\ DOMAIN candidate' = Candidate
      /\ \A c \in Candidate \ C : candidate'[c] = candidate[c]
      /\ \A c \in C : candidate'[c] =
           [run |-> 1 + Cardinality(Runs), completed |-> completed,
            task |-> about[c], kind |-> kind, reviewed |-> task[about[c]],
            at |-> now, decision |-> "none", refused |-> FALSE, applied |-> FALSE]
      BY DEF StartReflection
<1>2. \A c \in C : about[c] \in Task OBVIOUS
<1>3. now \in Nat /\ \A t \in Task : task[t].last \in 0 .. now
      BY DEF TaskInv, WrittenOK, RowsOK
<1>4. ASSUME NEW c \in C
      PROVE  /\ {"run", "task", "reviewed", "at"} \subseteq DOMAIN candidate'[c]
             /\ candidate'[c].task = about[c]
             /\ candidate'[c].reviewed = task[about[c]]
             /\ candidate'[c].at = now
  <2>1. candidate'[c] =
          [run |-> 1 + Cardinality(Runs), completed |-> completed,
           task |-> about[c], kind |-> kind, reviewed |-> task[about[c]],
           at |-> now, decision |-> "none", refused |-> FALSE, applied |-> FALSE]
        BY <1>1
  <2>2. {"run", "task", "reviewed", "at"} \subseteq DOMAIN candidate'[c] BY <2>1
  <2> QED BY <2>1, <2>2
<1>5. \A c \in C : /\ candidate'[c].task \in Task
                   /\ candidate'[c].reviewed.last <= candidate'[c].at
                   /\ candidate'[c].reviewed.last \in Nat
                   /\ candidate'[c].at \in 0 .. now'
      BY <1>1, <1>2, <1>3, <1>4
<1>6. CandidatesOK' BY <1>1, <1>4, <1>5 DEF TaskInv, CandidatesOK
<1> QED BY <1>1, <1>6, UnwrittenInv

\* What a decision or an outcome changes of a proposal is not what the
\* proposal was made of.
LEMMA SameProposal ==
  ASSUME NEW p, {"run", "task", "reviewed", "at"} \subseteq DOMAIN p, NEW x
  PROVE  /\ \A q \in {[p EXCEPT !.decision = x], [p EXCEPT !.applied = x],
                      [p EXCEPT !.refused = x]} :
              /\ DOMAIN q = DOMAIN p
              /\ q.run = p.run /\ q.task = p.task /\ q.at = p.at
              /\ q.reviewed = p.reviewed
OBVIOUS

LEMMA DecideInv ==
  ASSUME TaskInv, NEW c \in Candidate, NEW decision, Decide(c, decision) PROVE TaskInv'
<1>1. /\ UNCHANGED <<task, now, writes, token, undo>> /\ candidate[c].run # 0
      /\ candidate' = [candidate EXCEPT ![c] = [candidate[c] EXCEPT !.decision = decision]]
      BY DEF Decide
<1>2. DOMAIN candidate' = Candidate
      /\ candidate'[c] = [candidate[c] EXCEPT !.decision = decision]
      /\ \A d \in Candidate \ {c} : candidate'[d] = candidate[d]
      BY <1>1 DEF TaskInv, CandidatesOK
<1>3. /\ {"run", "task", "reviewed", "at"} \subseteq DOMAIN candidate[c]
      BY <1>1 DEF TaskInv, CandidatesOK
<1>4. /\ DOMAIN candidate'[c] = DOMAIN candidate[c]
      /\ candidate'[c].task = candidate[c].task /\ candidate'[c].at = candidate[c].at
      /\ candidate'[c].reviewed = candidate[c].reviewed
      BY <1>2, <1>3, SameProposal
<1>5. CandidatesOK' BY <1>1, <1>2, <1>4 DEF TaskInv, CandidatesOK
<1> QED BY <1>1, <1>5, UnwrittenInv

LEMMA ApplyInv ==
  ASSUME TaskInv, NEW r \in Runs, NEW S \in SUBSET Candidate, NEW chosen \in SUBSET S,
         ApplyRun(r, S, chosen)
  PROVE  TaskInv'
<1> DEFINE write(c) == IF candidate[c].kind = "archive"
                       THEN StatusWrite(candidate[c].task, "archived", c, candidate[c].at)
                       ELSE FieldWrite(candidate[c].task, c, candidate[c].at)
           W == {write(c) : c \in chosen}
<1>1. /\ chosen \subseteq Due(S) /\ \A c \in chosen : ~Stale(c)
      /\ \A c, d \in chosen : candidate[c].task = candidate[d].task => c = d
      /\ \A c \in S : candidate[c].run = r
      /\ UNCHANGED <<token, undo>>
      BY DEF ApplyRun, Proposed
<1>2. r # 0 BY DEF Runs
<1>3. \A c \in S : candidate[c].run # 0 BY <1>1, <1>2
<1>4. ASSUME NEW c \in Candidate
      PROVE  \/ candidate'[c] = candidate[c]
             \/ /\ candidate'[c] \in {[candidate[c] EXCEPT !.applied = TRUE],
                                      [candidate[c] EXCEPT !.refused = TRUE]}
                /\ candidate[c].run # 0
  <2>1. chosen \subseteq S /\ Due(S) \subseteq S BY DEF Due
  <2>2. candidate'[c] =
          CASE c \in chosen          -> [candidate[c] EXCEPT !.applied = TRUE]
            [] c \in Due(S) \ chosen -> [candidate[c] EXCEPT !.refused = TRUE]
            [] OTHER                 -> candidate[c]
        BY DEF ApplyRun
  <2> QED BY <1>3, <2>1, <2>2
<1>5. now \in Nat /\ now' \in Nat /\ now <= now'
      BY DEF ApplyRun, Commit, TaskInv, WrittenOK, RowsOK
<1>6. CandidatesOK'
  <2>1. DOMAIN candidate' = Candidate BY DEF ApplyRun
  <2>2. ASSUME NEW c \in Candidate, candidate'[c].run # 0
        PROVE  /\ {"run", "task", "reviewed", "at"} \subseteq DOMAIN candidate'[c]
               /\ candidate'[c].task \in Task
               /\ candidate'[c].reviewed.last <= candidate'[c].at
               /\ candidate'[c].reviewed.last \in Nat
               /\ candidate'[c].at \in 0 .. now'
    <3>1. candidate[c].run # 0 BY <1>4, <2>2
    <3>2. /\ {"run", "task", "reviewed", "at"} \subseteq DOMAIN candidate[c]
          /\ candidate[c].task \in Task
          /\ candidate[c].reviewed.last <= candidate[c].at
          /\ candidate[c].reviewed.last \in Nat
          /\ candidate[c].at \in 0 .. now'
          BY <1>5, <3>1 DEF TaskInv, CandidatesOK
    <3>3. \/ candidate'[c] = candidate[c]
          \/ /\ DOMAIN candidate'[c] = DOMAIN candidate[c]
             /\ candidate'[c].task = candidate[c].task
             /\ candidate'[c].at = candidate[c].at
             /\ candidate'[c].reviewed = candidate[c].reviewed
          BY <1>4, <3>2, SameProposal
    <3> QED BY <3>2, <3>3
  <2> QED BY <2>1, <2>2 DEF CandidatesOK
<1>7. CASE chosen = {}
  <2>1. UNCHANGED <<task, now, writes>> BY <1>7 DEF ApplyRun
  <2> QED BY <1>1, <1>6, <2>1, UnwrittenInv
<1>8. CASE chosen # {}
  <2>1. Commit(W) BY <1>8 DEF ApplyRun
  <2>2. ASSUME NEW c \in chosen
        PROVE  Sound(write(c)) /\ write(c).by = c /\ write(c).task = candidate[c].task
    <3>1. /\ candidate[c].task \in Task
          /\ candidate[c].reviewed.last <= candidate[c].at
          /\ candidate[c].reviewed.last \in Nat
          /\ candidate[c].at \in 0 .. now
          BY <1>3 DEF TaskInv, CandidatesOK
    <3> DEFINE t == candidate[c].task
               at == candidate[c].at
    <3>2. task[t].last <= at BY <1>1, <3>1 DEF Stale
    <3>3. \A v \in writes : v.task = t => v.n <= task[t].last /\ v.n \in Nat
          BY <3>1 DEF TaskInv, WrittenOK, LastIsLast, RowsOK
    <3>4. task[t].last \in Nat /\ task[t].status \in TaskStatus \cup {"purged"}
          BY <1>5, <3>1 DEF TaskInv, WrittenOK, RowsOK
    <3>5. \A v \in writes : v.task = t => ~(at < v.n)
          BY <1>5, <3>1, <3>2, <3>3, <3>4
    <3> HIDE DEF at, t
    <3>6. t \in Task /\ at \in 0 .. now /\ c \in Candidate /\ c \notin Window
          BY <3>1 DEF t, at
    <3>7. /\ Sound(StatusWrite(t, "archived", c, at))
          /\ StatusWrite(t, "archived", c, at).by = c
          /\ StatusWrite(t, "archived", c, at).task = t
          BY <3>5, <3>6 DEF StatusWrite, AnyWrite, Sound
    <3>8. Sound(FieldWrite(t, c, at)) /\ FieldWrite(t, c, at).by = c
          /\ FieldWrite(t, c, at).task = t
          BY <3>4, <3>5, <3>6 DEF FieldWrite, AnyWrite, Sound
    <3> QED BY <3>7, <3>8 DEF t, at
  <2>3. \A w \in W : \E c \in chosen : w = write(c) OBVIOUS
  <2> HIDE DEF W, write
  <2>4. \A w \in W : Sound(w) /\ w.by \notin Window BY <2>2, <2>3
  <2>5. \A w, v \in W : w.task = v.task => w = v BY <1>1, <2>2, <2>3
  <2>6. WrittenOK' /\ TokensOK' /\ UndosOK' /\ UndoRestores'
        BY <1>1, <2>1, <2>4, <2>5, CommitLeavesTokens
  <2> QED BY <1>6, <2>6 DEF TaskInv
<1> QED BY <1>7, <1>8

LEMMA TaskStepInv == TaskInv /\ [TaskNext]_taskVars => TaskInv'
<1> SUFFICES ASSUME TaskInv, [TaskNext]_taskVars PROVE TaskInv' OBVIOUS
<1>1. CASE \E t \in Task :
        \/ \E s \in TaskStatus, event \in {0, now + 1} : SetTaskStatus(t, s, event)
        \/ EditField(t) \/ PurgeTask(t)
      BY <1>1, SetInv, EditInv, PurgeInv
<1>2. CASE \E old \in SUBSET Task : ArchiveDone(old) BY <1>2, ArchiveInv
<1>3. CASE \E w \in Window :
        \/ \E t \in Task : Render(w, t)
        \/ \E to \in TaskStatus, confirmed \in BOOLEAN : Transition(w, to, confirmed)
        \/ Undo(w)
      BY <1>3, RenderInv, TransitionInv, UndoInv
<1>4. CASE \E C \in SUBSET Candidate, kind \in {"archive", "clear"}, completed \in BOOLEAN :
        \E about \in [C -> Task] : StartReflection(about, kind, completed)
      BY <1>4, StartInv
<1>5. CASE \E c \in Candidate, d \in {"accept", "reject"} : Decide(c, d)
      BY <1>5, DecideInv
<1>6. CASE \E r \in Runs, S \in SUBSET Candidate :
        \E chosen \in SUBSET S : ApplyRun(r, S, chosen)
      BY <1>6, ApplyInv
<1>7. CASE UNCHANGED taskVars
  <2>1. UNCHANGED <<task, now, writes, token, undo, candidate>> BY <1>7 DEF taskVars
  <2>2. CandidatesOK' BY <2>1 DEF TaskInv, CandidatesOK
  <2> QED BY <2>1, <2>2, UnwrittenInv
<1> QED BY <1>1, <1>2, <1>3, <1>4, <1>5, <1>6, <1>7 DEF TaskNext

LEMMA TaskInvariance == TaskSpec => []TaskInv
<1> QED BY TaskInitInv, TaskStepInv, PTL DEF TaskSpec

(* Rows, tokens and writes have their types, whoever writes.               *)
THEOREM TaskTypeCorrect == TaskSpec => []TaskTypeOK
<1>1. TaskInv => TaskTypeOK BY DEF TaskInv, WrittenOK, RowsOK, TokensOK, TaskTypeOK
<1> QED BY <1>1, TaskInvariance, PTL

(* No window overwrites a status its user did not see, not even one that   *)
(* was changed back and forth (transition_status, apply_task_mutation).    *)
THEOREM ClicksFollowSight == TaskSpec => []ClickFollowsSight
<1>1. TaskInv => ClickFollowsSight BY DEF TaskInv, WrittenOK
<1> QED BY <1>1, TaskInvariance, PTL

(* What a window takes out of the archive is its own archive, once, back   *)
(* to the status that archive replaced (SingleUseUndo).                    *)
THEOREM UndosRestore == TaskSpec => []UndoRestores
<1>1. TaskInv => UndoRestores BY DEF TaskInv
<1> QED BY <1>1, TaskInvariance, PTL

(* No reflection changes a task that was written since it was reviewed,    *)
(* and none is applied twice (reflect_apply).                              *)
THEOREM AppliedOnlyAsReviewed == TaskSpec => []AppliedAsReviewed
<1>1. TaskInv => AppliedAsReviewed BY DEF TaskInv, WrittenOK
<1> QED BY <1>1, TaskInvariance, PTL

-----------------------------------------------------------------------------
(***************************************************************************)
(* Backups                                                                 *)
(***************************************************************************)
\* A generation is dispensable once Keep - 1 later ones were published.
Dispensable(d) == Cardinality(Above(d, published)) >= Keep - 1

\* Nothing is missing that is not dispensable.
MissingDispensable == \A d \in published \ Generations : Dispensable(d)

\* Only what is dispensable is ever listed for removal.
ListedDispensable == \A r \in Run : \A d \in stale[r] : Dispensable(d)

\* A run that holds a directory found one of the variants free.
VariantFound ==
  \A r \in Run : step[r] \in {"reserved", "moving"} => attempt[r] < Variants

\* A directory with a manifest is a generation that was published.
ManifestLast ==
  \A d \in Dirs : "manifest.json" \in entry[d].files => d \in published

\* A database that is moved into its directory is still there when the
\* manifest follows, unless the directory's name was in use before and has
\* become dispensable: another run may then have removed it.
DatabaseThere ==
  \A r \in Run : step[r] = "moving" =>
    \/ Final(r) \in Dirs /\ "memory.db" \in entry[Final(r)].files
    \/ Dispensable(Final(r))

BackupInv ==
  /\ BackupTypeOK /\ IsFiniteSet(published)
  /\ MissingDispensable /\ ListedDispensable
  /\ VariantFound /\ ManifestLast /\ DatabaseThere

USE NameAssumption, KeepAssumption

\* The names a run may reserve are names of the clock.
LEMMA FinalName ==
  ASSUME BackupTypeOK, NEW r \in Run, attempt[r] < Variants
  PROVE  Final(r) \in DirNames /\ Final(r) \in Nat
<1>1. stamp[r] \in Second /\ attempt[r] + 1 \in 1 .. Variants BY DEF BackupTypeOK
<1>2. ASSUME NEW t \in Second, NEW v \in 1 .. Variants
      PROVE  10 * t + v \in DirNames /\ 10 * t + v \in Nat
  <2>1. t \in Nat /\ v \in Nat OBVIOUS
  <2>2. 10 * t + v \in Nat BY <2>1
  <2>3. 10 * t + v \in DirNames BY DEF DirNames, Name
  <2> QED BY <2>2, <2>3
<1>3. Final(r) = 10 * stamp[r] + (attempt[r] + 1) BY DEF Final, Name
<1> QED BY <1>1, <1>2, <1>3

\* Publishing more never makes a generation indispensable.
LEMMA StaysDispensable ==
  ASSUME IsFiniteSet(published), NEW x, published' = published \cup {x},
         NEW d, Dispensable(d)
  PROVE  Dispensable(d)'
<1>1. IsFiniteSet(published') BY FS_AddElement
<1>2. Above(d, published) \subseteq Above(d, published') BY DEF Above
<1>3. Above(d, published') \subseteq published' BY DEF Above
<1>4. IsFiniteSet(Above(d, published')) BY <1>1, <1>3, FS_Subset
<1>5. /\ IsFiniteSet(Above(d, published))
      /\ Cardinality(Above(d, published)) <= Cardinality(Above(d, published'))
      BY <1>2, <1>4, FS_Subset
<1>6. Cardinality(Above(d, published)) \in Nat /\ Cardinality(Above(d, published')) \in Nat
      BY <1>4, <1>5, FS_CardinalityType
<1> QED BY <1>5, <1>6 DEF Dispensable

\* What a run lists for removal is dispensable and published.
LEMMA RemovableDispensable ==
  ASSUME IsFiniteSet(published), Generations \subseteq published,
         NEW r, NEW d \in Removable(r)
  PROVE  Dispensable(d) /\ d \in published
<1> DEFINE C == Generations \ {Final(r)}
<1>1. d \in C BY DEF Removable
<1>2. Cardinality(Above(d, C)) >= Keep - 1 \/ Cardinality(Above(d, C)) >= Keep
      BY DEF Removable
<1>3. C \subseteq published OBVIOUS
<1>4. Above(d, C) \subseteq Above(d, published) BY <1>3 DEF Above
<1>5. Above(d, published) \subseteq published BY DEF Above
<1>6. IsFiniteSet(Above(d, published)) BY <1>5, FS_Subset
<1>7. /\ IsFiniteSet(Above(d, C))
      /\ Cardinality(Above(d, C)) <= Cardinality(Above(d, published))
      BY <1>4, <1>6, FS_Subset
<1>8. Cardinality(Above(d, C)) \in Nat /\ Cardinality(Above(d, published)) \in Nat
      BY <1>6, <1>7, FS_CardinalityType
<1> HIDE DEF C
<1>9. Cardinality(Above(d, published)) >= Keep - 1 BY <1>2, <1>7, <1>8
<1> QED BY <1>1, <1>3, <1>9 DEF Dispensable

LEMMA BackupInitInv == BackupInit => BackupInv
<1> SUFFICES ASSUME BackupInit PROVE BackupInv OBVIOUS
<1> DEFINE P == {Name(t, 1) : t \in Old}
<1>1. published = P /\ Dirs = P /\ \A d \in P : entry[d] = [files |-> Whole, named |-> d]
      BY DEF BackupInit, Dirs
<1>2. IsFiniteSet(P)
  <2> DEFINE f == [t \in Old |-> Name(t, 1)]
  <2>1. f \in [Old -> P] OBVIOUS
  <2>2. \A p \in P : \E t \in Old : f[t] = p OBVIOUS
  <2>3. f \in Surjection(Old, P) BY <2>1, <2>2 DEF Surjection
  <2> HIDE DEF f, P
  <2> QED BY <2>3, OldAssumption, FS_Surjection
<1>3. P \subseteq DirNames BY OldAssumption DEF DirNames
<1>4. Generations = P
  <2> HIDE DEF P
  <2>1. ASSUME NEW d \in P PROVE entry[d].files = Whole
    <3>1. entry[d] = [files |-> Whole, named |-> d] BY <1>1
    <3> QED BY <3>1
  <2> QED BY <1>1, <2>1 DEF Generations
<1>5. BackupTypeOK
      BY <1>1, <1>3, <1>4 DEF BackupInit, BackupTypeOK, Steps, Dirs, Whole
<1>6. MissingDispensable BY <1>1, <1>4 DEF MissingDispensable
<1>7. /\ ListedDispensable /\ VariantFound /\ DatabaseThere
      BY DEF BackupInit, ListedDispensable, VariantFound, DatabaseThere
<1>8. ManifestLast BY <1>1 DEF ManifestLast
<1> HIDE DEF P
<1> QED BY <1>1, <1>2, <1>5, <1>6, <1>7, <1>8 DEF BackupInv

\* What a generation that is no longer whole was is known to be published.
LEMMA GenerationsPublished ==
  ASSUME BackupInv PROVE Generations \subseteq published
BY DEF BackupInv, ManifestLast, Generations, Whole

\* Steps that touch neither the directories nor what was published.
LEMMA FrameKept ==
  ASSUME BackupInv, UNCHANGED <<entry, published>>
  PROVE  /\ MissingDispensable' /\ ManifestLast' /\ IsFiniteSet(published)'
         /\ \A d : Dispensable(d) => Dispensable(d)'
         /\ Dirs' = Dirs /\ Generations' = Generations
<1>1. Dirs' = Dirs BY DEF Dirs
<1>2. Generations' = Generations BY <1>1 DEF Generations
<1>3. \A d : Dispensable(d) => Dispensable(d)' BY DEF Dispensable, Above
<1>4. MissingDispensable' BY <1>2, <1>3 DEF BackupInv, MissingDispensable
<1>5. ManifestLast' BY <1>1 DEF BackupInv, ManifestLast
<1> QED BY <1>1, <1>2, <1>3, <1>4, <1>5 DEF BackupInv

LEMMA CopyInv ==
  ASSUME BackupInv, NEW r \in Run, CopyDatabase(r) PROVE BackupInv'
<1>1. BackupTypeOK' BY FrameKept DEF BackupInv, BackupTypeOK, CopyDatabase, Goes, Steps, history
<1>2. ListedDispensable' BY FrameKept DEF CopyDatabase, history, BackupInv, ListedDispensable
<1>3. VariantFound' BY DEF CopyDatabase, Goes, BackupInv, BackupTypeOK, VariantFound
<1>4. \A q \in Run : Final(q)' = Final(q) BY DEF CopyDatabase, Final
<1>5. DatabaseThere'
      BY <1>4, FrameKept DEF CopyDatabase, history, Goes, BackupInv, BackupTypeOK, DatabaseThere
<1> QED BY <1>1, <1>2, <1>3, <1>5, FrameKept DEF BackupInv, CopyDatabase, history

LEMMA FinishInv ==
  ASSUME BackupInv, NEW r \in Run, FinishBackup(r) PROVE BackupInv'
<1>1. BackupTypeOK' BY FrameKept DEF BackupInv, BackupTypeOK, FinishBackup, Goes, Steps, history
<1>2. ListedDispensable' BY FrameKept DEF FinishBackup, history, BackupInv, ListedDispensable
<1>3. VariantFound' BY DEF FinishBackup, Goes, BackupInv, BackupTypeOK, VariantFound
<1>4. \A q \in Run : Final(q)' = Final(q) BY DEF FinishBackup, Final
<1>5. DatabaseThere'
      BY <1>4, FrameKept DEF FinishBackup, history, Goes, BackupInv, BackupTypeOK, DatabaseThere
<1> QED BY <1>1, <1>2, <1>3, <1>5, FrameKept DEF BackupInv, FinishBackup, history

LEMMA CrashInv ==
  ASSUME BackupInv, NEW r \in Run, CrashBackup(r) PROVE BackupInv'
<1>1. BackupTypeOK' BY FrameKept DEF BackupInv, BackupTypeOK, CrashBackup, Goes, Steps, history
<1>2. ListedDispensable'
      BY FrameKept DEF CrashBackup, history, BackupInv, BackupTypeOK, ListedDispensable
<1>3. VariantFound' BY DEF CrashBackup, Goes, BackupInv, BackupTypeOK, VariantFound
<1>4. \A q \in Run : Final(q)' = Final(q) BY DEF CrashBackup, Final
<1>5. DatabaseThere'
      BY <1>4, FrameKept DEF CrashBackup, history, Goes, BackupInv, BackupTypeOK, DatabaseThere
<1> QED BY <1>1, <1>2, <1>3, <1>5, FrameKept DEF BackupInv, CrashBackup, history

LEMMA ListInv ==
  ASSUME BackupInv, NEW r \in Run, ListGenerations(r) PROVE BackupInv'
<1>1. \A d \in Removable(r) : Dispensable(d) /\ d \in published
      BY RemovableDispensable, GenerationsPublished DEF BackupInv
<1>2. BackupTypeOK'
      BY <1>1, FrameKept DEF BackupInv, BackupTypeOK, ListGenerations, Goes, Steps, history
<1>3. ListedDispensable'
      BY <1>1, FrameKept DEF ListGenerations, history, BackupInv, BackupTypeOK, ListedDispensable
<1>4. VariantFound' BY DEF ListGenerations, Goes, BackupInv, BackupTypeOK, VariantFound
<1>5. \A q \in Run : Final(q)' = Final(q) BY DEF ListGenerations, Final
<1>6. DatabaseThere'
      BY <1>5, FrameKept DEF ListGenerations, history, Goes, BackupInv, BackupTypeOK, DatabaseThere
<1> QED BY <1>2, <1>3, <1>4, <1>6, FrameKept DEF BackupInv, ListGenerations, history

\* Writing files into a directory d of a name of the clock: what is whole
\* there, or was dispensable, stays so.
LEMMA HoldingFrame ==
  ASSUME BackupInv, NEW d, NEW files, NEW named, entry' = Holding(d, files, named)
  PROVE  /\ Dirs' = Dirs \cup {d}
         /\ \A x \in Dirs \ {d} : entry'[x] = entry[x]
         /\ entry'[d] = [files |-> files, named |-> named]
         /\ entry'[d].files = files /\ entry'[d].named = named
         /\ Generations \ {d} \subseteq Generations'
         /\ files = Whole => d \in Generations'
<1>1. Dirs' = Dirs \cup {d} BY DEF Dirs, Holding
<1>2. \A x \in Dirs \ {d} : entry'[x] = entry[x] BY DEF Holding
<1>3. entry'[d] = [files |-> files, named |-> named] BY DEF Holding
<1>4. Generations' = {x \in Dirs' : entry'[x].files = Whole} BY DEF Generations
<1>5. Generations \ {d} \subseteq Generations' BY <1>1, <1>2, <1>4 DEF Generations
<1>6. files = Whole => d \in Generations' BY <1>1, <1>3, <1>4
<1> QED BY <1>1, <1>2, <1>3, <1>5, <1>6

\* Such a write keeps the type of the table of directories.
LEMMA HoldingType ==
  ASSUME BackupInv, NEW d \in DirNames, NEW files \in SUBSET Whole,
         NEW named \in DirNames \cup {0}, entry' = Holding(d, files, named)
  PROVE  /\ Dirs' \subseteq DirNames
         /\ entry' \in [Dirs' -> [files : SUBSET Whole, named : DirNames \cup {0}]]
<1>1. Dirs' \subseteq DirNames
  <2>1. Dirs' = Dirs \cup {d} BY HoldingFrame
  <2> QED BY <2>1 DEF BackupInv, BackupTypeOK
<1>2. \A x \in Dirs \cup {d} :
        Holding(d, files, named)[x] \in [files : SUBSET Whole, named : DirNames \cup {0}]
      BY DEF BackupInv, BackupTypeOK, Holding
<1>3. Holding(d, files, named)
        \in [Dirs \cup {d} -> [files : SUBSET Whole, named : DirNames \cup {0}]]
      BY <1>2 DEF Holding
<1> QED BY <1>1, <1>3, HoldingFrame

\* Publishing d, whole or not: what else is missing stays dispensable.
LEMMA PublishInv ==
  ASSUME BackupInv, NEW r \in Run, NEW files \in SUBSET Whole,
         step[r] \in {"reserved", "moving"}, Goes(r, "published"),
         entry' = Holding(Final(r), files, Final(r)),
         published' = published \cup {Final(r)},
         files = Whole \/ Dispensable(Final(r)),
         Final(r) \in Dirs => entry[Final(r)].files \subseteq files,
         UNCHANGED <<stamp, attempt, stale, stuck>>
  PROVE  BackupInv'
<1> DEFINE d == Final(r)
<1>1. d \in DirNames BY FinalName DEF BackupInv, VariantFound
<1>2. BackupTypeOK'
  <2>1. d \in Generations => files = Whole BY DEF Generations
  <2>2. /\ Generations \ {d} \subseteq Generations'
        /\ files = Whole => d \in Generations'
        BY HoldingFrame
  <2>3. stuck \subseteq Generations BY DEF BackupInv, BackupTypeOK
  <2>4. stuck \subseteq Generations' BY <2>1, <2>2, <2>3
  <2> QED BY <1>1, <2>4, HoldingType DEF BackupInv, BackupTypeOK, Goes, Steps
<1>3. IsFiniteSet(published)' BY FS_AddElement DEF BackupInv
<1>4. \A x : Dispensable(x) => Dispensable(x)' BY StaysDispensable DEF BackupInv
<1>5. Generations \ {d} \subseteq Generations' /\ (files = Whole => d \in Generations')
      BY HoldingFrame
<1>6. MissingDispensable'
      BY <1>4, <1>5 DEF BackupInv, MissingDispensable
<1>7. ListedDispensable' BY <1>4 DEF BackupInv, ListedDispensable
<1>8. VariantFound' BY DEF BackupInv, VariantFound, Goes, BackupTypeOK
<1>9. ManifestLast'
  <2>1. Dirs' = Dirs \cup {d} /\ \A x \in Dirs \ {d} : entry'[x] = entry[x]
        BY HoldingFrame
  <2> QED BY <2>1 DEF BackupInv, ManifestLast
<1>10. \A q \in Run : Final(q)' = Final(q) BY DEF Final
<1>11. DatabaseThere'
  <2> SUFFICES ASSUME NEW q \in Run, step'[q] = "moving", ~Dispensable(Final(q))
               PROVE  /\ Final(q) \in Dirs'
                      /\ "memory.db" \in entry'[Final(q)].files
      BY <1>4, <1>10 DEF DatabaseThere
  <2>1. q # r /\ step[q] = "moving" BY DEF Goes, BackupInv, BackupTypeOK
  <2>2. Final(q) \in Dirs /\ "memory.db" \in entry[Final(q)].files
        BY <2>1 DEF BackupInv, DatabaseThere
  <2>3. /\ Dirs' = Dirs \cup {d} /\ \A x \in Dirs \ {d} : entry'[x] = entry[x]
        /\ entry'[d].files = files
        BY HoldingFrame
  <2> QED BY <2>2, <2>3
<1> QED BY <1>2, <1>3, <1>6, <1>7, <1>8, <1>9, <1>11 DEF BackupInv

LEMMA RenameInv ==
  ASSUME BackupInv, NEW r \in Run, PublishByRename(r) PROVE BackupInv'
<1>1. Whole \in SUBSET Whole OBVIOUS
<1>2. Final(r) \in Dirs => entry[Final(r)].files \subseteq Whole BY DEF PublishByRename
<1> QED BY <1>1, <1>2, PublishInv DEF PublishByRename

LEMMA ManifestInv ==
  ASSUME BackupInv, NEW r \in Run, MoveManifest(r) PROVE BackupInv'
<1> DEFINE files == entry[Final(r)].files \cup {"manifest.json"}
<1>1. Final(r) \in Dirs BY DEF MoveManifest
<1>2. entry[Final(r)].files \in SUBSET Whole BY <1>1 DEF BackupInv, BackupTypeOK
<1>3. files \in SUBSET Whole BY <1>2 DEF Whole
<1>4. files = Whole \/ Dispensable(Final(r))
  <2>1. step[r] = "moving" BY DEF MoveManifest
  <2>2. "memory.db" \in entry[Final(r)].files \/ Dispensable(Final(r))
        BY <2>1 DEF BackupInv, DatabaseThere
  <2> QED BY <1>3, <2>2 DEF Whole
<1>5. step[r] = "moving" /\ Goes(r, "published") /\ entry' = Holding(Final(r), files, Final(r))
      /\ published' = published \cup {Final(r)} /\ UNCHANGED <<stamp, attempt, stale, stuck>>
      BY DEF MoveManifest
<1>6. entry[Final(r)].files \subseteq files OBVIOUS
<1> HIDE DEF files
<1> QED BY <1>3, <1>4, <1>5, <1>6, PublishInv

\* A taken variant costs an attempt; a free one is made, empty.
LEMMA ReserveInv ==
  ASSUME BackupInv, NEW r \in Run, Reserve(r) PROVE BackupInv'
<1>1. CASE Final(r) \in Dirs
  <2>1. /\ attempt' = [attempt EXCEPT ![r] = attempt[r] + 1]
        /\ UNCHANGED <<entry, step, stamp, stale, published, stuck>>
        BY <1>1 DEF Reserve, history
  <2>2. BackupTypeOK'
        BY <2>1, FrameKept DEF BackupInv, BackupTypeOK, Reserve
  <2>3. ListedDispensable' BY <2>1, FrameKept DEF BackupInv, ListedDispensable
  <2>4. step[r] = "reserving" BY DEF Reserve
  <2>5. VariantFound' BY <2>1, <2>4 DEF BackupInv, BackupTypeOK, VariantFound
  <2>6. \A q \in Run \ {r} : Final(q)' = Final(q)
        BY <2>1 DEF Final, BackupInv, BackupTypeOK
  <2>7. DatabaseThere'
        BY <2>1, <2>4, <2>6, FrameKept DEF BackupInv, DatabaseThere
  <2> QED BY <2>1, <2>2, <2>3, <2>5, <2>7, FrameKept DEF BackupInv
<1>2. CASE Final(r) \notin Dirs
  <2>1. /\ entry' = Holding(Final(r), {}, 0) /\ Goes(r, "reserved")
        /\ UNCHANGED <<attempt, stamp, stale, published, stuck>>
        /\ step[r] = "reserving" /\ attempt[r] < Variants
        BY <1>2 DEF Reserve, history
  <2>2. /\ Dirs' = Dirs \cup {Final(r)}
        /\ \A x \in Dirs \ {Final(r)} : entry'[x] = entry[x]
        /\ entry'[Final(r)].files = {}
        /\ Generations \ {Final(r)} \subseteq Generations'
        BY <2>1, HoldingFrame
  <2>3. Final(r) \in DirNames BY <2>1, FinalName DEF BackupInv
  <2>4. BackupTypeOK'
    <3>1. /\ Dirs' \subseteq DirNames
          /\ entry' \in [Dirs' -> [files : SUBSET Whole, named : DirNames \cup {0}]]
          BY <2>1, <2>3, HoldingType
    <3>2. stuck \subseteq Generations'
          BY <1>2, <2>2 DEF BackupInv, BackupTypeOK, Generations
    <3> QED BY <2>1, <3>1, <3>2 DEF BackupInv, BackupTypeOK, Goes, Steps
  <2>5. \A d : Dispensable(d) => Dispensable(d)'
        BY <2>1 DEF Dispensable, Above
  <2>6. Final(r) \notin Generations BY <1>2 DEF Generations
  <2>7. MissingDispensable'
        BY <2>1, <2>2, <2>5, <2>6 DEF BackupInv, MissingDispensable
  <2>8. ListedDispensable' BY <2>1, <2>5 DEF BackupInv, ListedDispensable
  <2>9. VariantFound' BY <2>1 DEF BackupInv, BackupTypeOK, Goes, VariantFound
  <2>10. ManifestLast' BY <1>2, <2>1, <2>2 DEF BackupInv, ManifestLast
  <2>11. \A q \in Run : Final(q)' = Final(q) BY <2>1 DEF Final
  <2>12. DatabaseThere'
    <3> SUFFICES ASSUME NEW q \in Run, step'[q] = "moving", ~Dispensable(Final(q))
                 PROVE  /\ Final(q) \in Dirs'
                        /\ "memory.db" \in entry'[Final(q)].files
        BY <2>5, <2>11 DEF DatabaseThere
    <3>1. step[q] = "moving" BY <2>1 DEF Goes, BackupInv, BackupTypeOK
    <3>2. Final(q) \in Dirs /\ "memory.db" \in entry[Final(q)].files
          BY <3>1 DEF BackupInv, DatabaseThere
    <3> QED BY <1>2, <2>2, <3>2
  <2> QED BY <2>1, <2>4, <2>7, <2>8, <2>9, <2>10, <2>12 DEF BackupInv
<1> QED BY <1>1, <1>2

LEMMA MoveInv ==
  ASSUME BackupInv, NEW r \in Run, MoveDatabase(r) PROVE BackupInv'
<1> DEFINE d == Final(r)
           files == entry[d].files \cup {"memory.db"}
<1>1. /\ step[r] = "reserved" /\ d \in Dirs
      /\ entry' = Holding(d, files, entry[d].named) /\ Goes(r, "moving")
      /\ UNCHANGED <<stamp, attempt, stale, published, stuck>>
      BY DEF MoveDatabase, history
<1>2. d \in DirNames BY <1>1 DEF BackupInv, BackupTypeOK
<1>3. entry[d] \in [files : SUBSET Whole, named : DirNames \cup {0}]
      BY <1>1 DEF BackupInv, BackupTypeOK
<1>4. files \in SUBSET Whole /\ entry[d].named \in DirNames \cup {0}
      BY <1>3 DEF Whole
<1>5. entry[d].files = Whole => files = Whole BY <1>4
<1> HIDE DEF files
<1>6. /\ Dirs' = Dirs \cup {d}
      /\ \A x \in Dirs \ {d} : entry'[x] = entry[x]
      /\ entry'[d].files = files
      /\ Generations \ {d} \subseteq Generations'
      /\ files = Whole => d \in Generations'
      BY <1>1, HoldingFrame
<1>7. BackupTypeOK'
  <2>1. /\ Dirs' \subseteq DirNames
        /\ entry' \in [Dirs' -> [files : SUBSET Whole, named : DirNames \cup {0}]]
        BY <1>1, <1>2, <1>4, HoldingType
  <2>2. Generations \subseteq Generations' BY <1>5, <1>6 DEF Generations
  <2> QED BY <1>1, <2>1, <2>2 DEF BackupInv, BackupTypeOK, Goes, Steps
<1>8. \A x : Dispensable(x) => Dispensable(x)' BY <1>1 DEF Dispensable, Above
<1>9. Generations \subseteq Generations' BY <1>5, <1>6 DEF Generations
<1>10. MissingDispensable' BY <1>1, <1>8, <1>9 DEF BackupInv, MissingDispensable
<1>11. ListedDispensable' BY <1>1, <1>8 DEF BackupInv, ListedDispensable
<1>12. VariantFound' BY <1>1 DEF BackupInv, BackupTypeOK, Goes, VariantFound
<1>13. "manifest.json" \in files => "manifest.json" \in entry[d].files BY DEF files
<1>14. ManifestLast' BY <1>1, <1>6, <1>13 DEF BackupInv, ManifestLast
<1>15. \A q \in Run : Final(q)' = Final(q) BY <1>1 DEF Final
<1>16. "memory.db" \in files BY DEF files
<1>17. DatabaseThere'
  <2> SUFFICES ASSUME NEW q \in Run, step'[q] = "moving", ~Dispensable(Final(q))
               PROVE  /\ Final(q) \in Dirs'
                      /\ "memory.db" \in entry'[Final(q)].files
      BY <1>8, <1>15 DEF DatabaseThere
  <2>1. CASE q = r BY <1>1, <1>6, <1>16, <2>1
  <2>2. CASE q # r
    <3>1. step[q] = "moving" BY <1>1, <2>2 DEF Goes, BackupInv, BackupTypeOK
    <3>2. Final(q) \in Dirs /\ "memory.db" \in entry[Final(q)].files
          BY <3>1 DEF BackupInv, DatabaseThere
    <3> QED BY <1>6, <1>16, <3>2
  <2> QED BY <2>1, <2>2
<1> QED BY <1>1, <1>7, <1>10, <1>11, <1>12, <1>14, <1>17 DEF BackupInv

\* Removing a directory that is empty or dispensable.
LEMMA WithoutInv ==
  ASSUME BackupInv, NEW d, entry' = Without(d), published' = published,
         Dispensable(d) \/ (d \in Dirs /\ entry[d].files = {}),
         BackupTypeOK', ListedDispensable', VariantFound',
         \A q \in Run : step'[q] = "moving" => step[q] = "moving",
         UNCHANGED <<stamp, attempt>>
  PROVE  BackupInv'
<1>1. Dirs' = Dirs \ {d} /\ \A x \in Dirs \ {d} : entry'[x] = entry[x]
      BY DEF Dirs, Without
<1>2. \A x : Dispensable(x) => Dispensable(x)' BY DEF Dispensable, Above
<1>3. Generations \ {d} \subseteq Generations' BY <1>1 DEF Generations
<1>4. d \notin Generations \/ Dispensable(d) BY DEF Generations, Whole
<1>5. MissingDispensable' BY <1>2, <1>3, <1>4 DEF BackupInv, MissingDispensable
<1>6. ManifestLast' BY <1>1 DEF BackupInv, ManifestLast
<1>7. \A q \in Run : Final(q)' = Final(q) BY DEF Final
<1>8. DatabaseThere'
  <2> SUFFICES ASSUME NEW q \in Run, step'[q] = "moving", ~Dispensable(Final(q))
               PROVE  /\ Final(q) \in Dirs'
                      /\ "memory.db" \in entry'[Final(q)].files
      BY <1>2, <1>7 DEF DatabaseThere
  <2>1. Final(q) \in Dirs /\ "memory.db" \in entry[Final(q)].files
        BY DEF BackupInv, DatabaseThere
  <2>2. Final(q) # d BY <2>1
  <2> QED BY <1>1, <2>1, <2>2
<1> QED BY <1>5, <1>6, <1>8 DEF BackupInv

\* Without a directory the table keeps its type.
LEMMA WithoutType ==
  ASSUME BackupInv, NEW d, entry' = Without(d)
  PROVE  /\ Dirs' \subseteq DirNames
         /\ entry' \in [Dirs' -> [files : SUBSET Whole, named : DirNames \cup {0}]]
<1>1. Dirs' = Dirs \ {d} BY DEF Dirs, Without
<1>2. \A x \in Dirs \ {d} :
        entry[x] \in [files : SUBSET Whole, named : DirNames \cup {0}]
      BY DEF BackupInv, BackupTypeOK
<1> QED BY <1>1, <1>2 DEF BackupInv, BackupTypeOK, Without

LEMMA WithoutRest ==
  ASSUME NEW d, entry' = Without(d)
  PROVE  Generations' = Generations \ {d}
BY DEF Generations, Dirs, Without

LEMMA FailInv ==
  ASSUME BackupInv, NEW r \in Run, FailBackup(r) PROVE BackupInv'
<1> DEFINE end == IF step[r] = "moving" THEN "torn" ELSE "failed"
<1>1. Goes(r, end) /\ UNCHANGED <<stamp, attempt, stale, published, stuck>>
      BY DEF FailBackup, history
<1>2a. end \in {"failed", "torn"} OBVIOUS
<1> HIDE DEF end
<1>2. ListedDispensable'
      BY <1>1 DEF BackupInv, ListedDispensable, Dispensable, Above
<1>3. VariantFound' BY <1>1, <1>2a DEF BackupInv, BackupTypeOK, Goes, VariantFound
<1>4. \A q \in Run : step'[q] = "moving" => step[q] = "moving"
      BY <1>1, <1>2a DEF BackupInv, BackupTypeOK, Goes
<1>5. \A q \in Run : Final(q)' = Final(q) BY <1>1 DEF Final
<1>6. CASE UNCHANGED entry
  <2>1. BackupTypeOK'
        BY <1>1, <1>2a, <1>6, FrameKept DEF BackupInv, BackupTypeOK, Goes, Steps
  <2>2. DatabaseThere'
        BY <1>1, <1>4, <1>5, <1>6, FrameKept DEF BackupInv, DatabaseThere
  <2> QED BY <1>1, <1>2, <1>3, <1>6, <2>1, <2>2, FrameKept DEF BackupInv
<1>7. CASE /\ entry' = Without(Final(r))
           /\ Final(r) \in Dirs /\ entry[Final(r)].files = {}
  <2>0. stuck \subseteq Generations'
    <3>1. Final(r) \notin Generations BY <1>7 DEF Generations, Whole
    <3>2. Generations' = Generations \ {Final(r)} BY <1>7, WithoutRest
    <3> QED BY <3>1, <3>2 DEF BackupInv, BackupTypeOK
  <2>1. BackupTypeOK'
        BY <1>1, <1>2a, <1>7, <2>0, WithoutType DEF BackupInv, BackupTypeOK, Goes, Steps
  <2> QED BY <1>1, <1>2, <1>3, <1>4, <1>7, <2>1, WithoutInv
<1> QED BY <1>6, <1>7 DEF FailBackup

LEMMA RemoveInv ==
  ASSUME BackupInv, NEW r \in Run, RemoveStale(r) PROVE BackupInv'
<1>1. PICK d \in stale[r] :
        /\ stale' = [stale EXCEPT ![r] = stale[r] \ {d}]
        /\ \/ entry' = Without(d) /\ stuck' = stuck \ {d}
           \/ /\ d \in Dirs
              /\ \E left \in SUBSET entry[d].files :
                   /\ entry' = Holding(d, left, entry[d].named)
                   /\ stuck' = IF left = Whole THEN stuck \cup {d} ELSE stuck \ {d}
      BY DEF RemoveStale
<1>2. UNCHANGED <<step, stamp, attempt, published>> BY DEF RemoveStale
<1>3. Dispensable(d) BY DEF BackupInv, ListedDispensable
<1>4. \A x : Dispensable(x) => Dispensable(x)' BY <1>2 DEF Dispensable, Above
<1>5. ListedDispensable' BY <1>1, <1>4 DEF BackupInv, BackupTypeOK, ListedDispensable
<1>6. VariantFound' BY <1>2 DEF BackupInv, VariantFound
<1>7. stale' \in [Run -> SUBSET published] BY <1>1 DEF BackupInv, BackupTypeOK
<1>8. CASE entry' = Without(d) /\ stuck' = stuck \ {d}
  <2>0. stuck' \subseteq Generations'
        BY <1>8, WithoutRest DEF BackupInv, BackupTypeOK
  <2>1. BackupTypeOK'
        BY <1>2, <1>7, <1>8, <2>0, WithoutType DEF BackupInv, BackupTypeOK
  <2> QED BY <1>2, <1>3, <1>5, <1>6, <1>8, <2>1, WithoutInv
<1>9. ASSUME d \in Dirs, NEW left \in SUBSET entry[d].files,
             entry' = Holding(d, left, entry[d].named),
             stuck' = IF left = Whole THEN stuck \cup {d} ELSE stuck \ {d}
      PROVE  BackupInv'
  <2>1. d \in DirNames BY <1>9 DEF BackupInv, BackupTypeOK
  <2>2. entry[d] \in [files : SUBSET Whole, named : DirNames \cup {0}]
        BY <1>9 DEF BackupInv, BackupTypeOK
  <2>3. left \in SUBSET Whole /\ entry[d].named \in DirNames \cup {0}
        BY <1>9, <2>2
  <2>4. /\ Dirs' \subseteq DirNames
        /\ entry' \in [Dirs' -> [files : SUBSET Whole, named : DirNames \cup {0}]]
        BY <1>9, <2>1, <2>3, HoldingType
  <2>6. /\ Dirs' = Dirs \cup {d}
        /\ \A x \in Dirs \ {d} : entry'[x] = entry[x]
        /\ entry'[d].files = left
        /\ Generations \ {d} \subseteq Generations'
        /\ left = Whole => d \in Generations'
        BY <1>9, HoldingFrame
  <2>5. stuck' \subseteq Generations'
        BY <1>9, <2>6 DEF BackupInv, BackupTypeOK
  <2>5a. BackupTypeOK' BY <1>2, <1>7, <2>4, <2>5 DEF BackupInv, BackupTypeOK
  <2>7. MissingDispensable'
        BY <1>2, <1>3, <1>4, <2>6 DEF BackupInv, MissingDispensable
  <2>8. ManifestLast' BY <1>2, <1>9, <2>6 DEF BackupInv, ManifestLast
  <2>9. \A q \in Run : Final(q)' = Final(q) BY <1>2 DEF Final
  <2>10. DatabaseThere'
         BY <1>2, <1>3, <1>4, <2>6, <2>9 DEF BackupInv, DatabaseThere
  <2> QED BY <1>2, <1>5, <1>6, <2>5a, <2>7, <2>8, <2>10 DEF BackupInv
<1> QED BY <1>1, <1>8, <1>9

LEMMA BackupStepInv == BackupInv /\ [BackupNext]_backupVars => BackupInv'
<1> SUFFICES ASSUME BackupInv, [BackupNext]_backupVars PROVE BackupInv' OBVIOUS
<1>1. CASE BackupNext
  <2>1. PICK r \in Run :
          \/ CopyDatabase(r) \/ Reserve(r)
          \/ PublishByRename(r) \/ MoveDatabase(r) \/ MoveManifest(r)
          \/ FailBackup(r) \/ CrashBackup(r)
          \/ ListGenerations(r) \/ RemoveStale(r) \/ FinishBackup(r)
        BY <1>1 DEF BackupNext
  <2>2. CASE CopyDatabase(r) BY <2>2, CopyInv
  <2>3. CASE Reserve(r) BY <2>3, ReserveInv
  <2>4. CASE PublishByRename(r) BY <2>4, RenameInv
  <2>5. CASE MoveDatabase(r) BY <2>5, MoveInv
  <2>6. CASE MoveManifest(r) BY <2>6, ManifestInv
  <2>7. CASE FailBackup(r) BY <2>7, FailInv
  <2>8. CASE CrashBackup(r) BY <2>8, CrashInv
  <2>9. CASE ListGenerations(r) BY <2>9, ListInv
  <2>10. CASE RemoveStale(r) BY <2>10, RemoveInv
  <2>11. CASE FinishBackup(r) BY <2>11, FinishInv
  <2> QED BY <2>1, <2>2, <2>3, <2>4, <2>5, <2>6, <2>7, <2>8, <2>9, <2>10, <2>11
<1>2. CASE UNCHANGED backupVars
  <2>1. UNCHANGED <<entry, step, stamp, attempt, stale, published, stuck>>
        BY <1>2 DEF backupVars, history
  <2>2. BackupTypeOK' BY <2>1, FrameKept DEF BackupInv, BackupTypeOK
  <2>3. ListedDispensable' BY <2>1, FrameKept DEF BackupInv, ListedDispensable
  <2>4. VariantFound' BY <2>1 DEF BackupInv, VariantFound
  <2>5. \A q \in Run : Final(q)' = Final(q) BY <2>1 DEF Final
  <2>6. DatabaseThere' BY <2>1, <2>5, FrameKept DEF BackupInv, DatabaseThere
  <2> QED BY <2>1, <2>2, <2>3, <2>4, <2>6, FrameKept DEF BackupInv
<1> QED BY <1>1, <1>2

LEMMA BackupInvariance == BackupSpec => []BackupInv
<1> QED BY BackupInitInv, BackupStepInv, PTL DEF BackupSpec

(* The directories, the runs and the lists for removal have their types,   *)
(* whatever runs overlap, fail or die (create_backup).                     *)
THEOREM BackupTypeCorrect == BackupSpec => []BackupTypeOK
<1>1. BackupInv => BackupTypeOK BY DEF BackupInv
<1> QED BY <1>1, BackupInvariance, PTL

(* The Keep - 1 newest generations ever published are there: no overlap of *)
(* runs, no crash, no failed removal and no clock that steps back makes    *)
(* create_backup remove one of them.                                       *)
THEOREM NewestAlwaysKept == BackupSpec => []NewestKept
<1>1. BackupInv => NewestKept
  <2> SUFFICES ASSUME BackupInv, NEW d \in published, d \notin Generations
               PROVE  ~(Cardinality(Above(d, published)) < Keep - 1)
      BY DEF NewestKept
  <2>1. Dispensable(d) BY DEF BackupInv, MissingDispensable
  <2>2. Above(d, published) \subseteq published BY DEF Above
  <2>3. IsFiniteSet(Above(d, published)) BY <2>2, FS_Subset DEF BackupInv
  <2>4. Cardinality(Above(d, published)) \in Nat BY <2>3, FS_CardinalityType
  <2> QED BY <2>1, <2>4 DEF Dispensable
<1> QED BY <1>1, BackupInvariance, PTL

-----------------------------------------------------------------------------
(* Retention                                                               *)

\* Runs that may have added a generation since the last listing.
Unlisted == {r \in Run : step[r] \in {"published", "torn"}}

Moving == {r \in Run : step[r] = "moving"}

\* The generations that are nobody's to remove, that nobody tried to remove in
\* vain, and that are not in the directory of a run between its two moves: that
\* run may still publish there.
Doomed   == UNION {stale[r] : r \in Run}
Incoming == {Final(r) : r \in Moving}
Spared   == Generations \ (Doomed \cup Incoming \cup stuck)

Listed == \E r \in Run : step[r] \in {"pruning", "done"}

NoneDied == \A r \in Run : step[r] # "dead"

\* Once somebody has listed, only what was published since is above Keep.
WithinKeep ==
  Listed /\ NoneDied => Cardinality(Spared) <= Keep + Cardinality(Unlisted)

OnlyPruning == \A r \in Run : stale[r] # {} => step[r] = "pruning"

\* A non-empty set of naturals has a least element.
LEMMA LeastInSet ==
  ASSUME NEW S \in SUBSET Nat, S # {}
  PROVE  \E i \in S : \A j \in S : i \leq j
<1>1. PICK i \in S : \A j \in S : ~(<<j, i>> \in OpToRel(<, Nat))
      BY WFMin, NatLessThanWellFounded
<1>2. \A j \in S : ~(j < i) BY <1>1 DEF OpToRel
<1> QED BY <1>2

\* Of a finite set of names at most n have fewer than n above them.
LEMMA FewAtTop ==
  ASSUME NEW C \in SUBSET Nat, IsFiniteSet(C), NEW n \in Nat,
         NEW T, T = {d \in C : ~(Cardinality(Above(d, C)) >= n)}
  PROVE  IsFiniteSet(T) /\ Cardinality(T) <= n
<1>1. T \subseteq C /\ IsFiniteSet(T) BY FS_Subset
<1>2. CASE T = {}
  <2>1. Cardinality(T) = 0 BY <1>2, FS_EmptySet
  <2> QED BY <1>1, <2>1
<1>3. CASE T # {}
  <2>1. T \in SUBSET Nat BY <1>1
  <2>2. PICK m \in T : \A j \in T : m <= j BY <1>3, <2>1, LeastInSet
  <2> DEFINE A == Above(m, C)
  <2>3. A \subseteq C BY DEF Above
  <2>4. IsFiniteSet(A) /\ Cardinality(A) \in Nat
        BY <2>3, FS_Subset, FS_CardinalityType
  <2>5. ~(Cardinality(A) >= n) BY <2>2
  <2>6. m \notin A BY <1>1, <2>2 DEF Above
  <2>7. T \subseteq A \cup {m}
    <3> SUFFICES ASSUME NEW t \in T, t # m PROVE t \in A OBVIOUS
    <3>1. t \in C /\ t \in Nat /\ m \in Nat /\ m <= t BY <1>1, <2>1, <2>2
    <3>2. t > m BY <3>1
    <3> QED BY <3>1, <3>2 DEF Above
  <2> HIDE DEF A
  <2>8. IsFiniteSet(A \cup {m}) /\ Cardinality(A \cup {m}) = Cardinality(A) + 1
        BY <2>4, <2>6, FS_AddElement
  <2>9. Cardinality(T) <= Cardinality(A \cup {m}) BY <2>7, <2>8, FS_Subset
  <2>10. Cardinality(T) \in Nat BY <1>1, FS_CardinalityType
  <2> QED BY <1>1, <2>4, <2>5, <2>8, <2>9, <2>10
<1> QED BY <1>2, <1>3

LEMMA GenerationsFinite ==
  ASSUME BackupInv
  PROVE  IsFiniteSet(Generations) /\ Generations \in SUBSET Nat
<1>1. Generations \subseteq published BY GenerationsPublished
<1>2. DirNames \subseteq Nat
  <2> SUFFICES ASSUME NEW t \in Second, NEW v \in 1 .. Variants
               PROVE  10 * t + v \in Nat
      BY DEF DirNames, Name
  <2>1. t \in Nat /\ v \in Nat OBVIOUS
  <2> QED BY <2>1
<1> QED BY <1>1, <1>2, FS_Subset DEF BackupInv, BackupTypeOK

\* A run that lists marks all but Keep of the generations it sees.
LEMMA ListSpares ==
  ASSUME BackupInv, NEW r \in Run
  PROVE  /\ IsFiniteSet(Generations \ Removable(r))
         /\ Cardinality(Generations \ Removable(r)) <= Keep
<1> DEFINE C == Generations \ {Final(r)}
           room == IF Final(r) \in Generations THEN Keep - 1 ELSE Keep
           T == {d \in C : ~(Cardinality(Above(d, C)) >= room)}
<1>1. C \in SUBSET Nat /\ IsFiniteSet(C) BY GenerationsFinite, FS_Subset
<1>2. room \in Nat OBVIOUS
<1>3. Removable(r) = {d \in C : Cardinality(Above(d, C)) >= room} BY DEF Removable
<1>4. Generations \ Removable(r) =
        IF Final(r) \in Generations THEN T \cup {Final(r)} ELSE T
      BY <1>3
<1>5. Final(r) \notin T OBVIOUS
<1>6. Final(r) \in Generations => room = Keep - 1 OBVIOUS
<1>7. Final(r) \notin Generations => room = Keep OBVIOUS
<1>8. T = {d \in C : ~(Cardinality(Above(d, C)) >= room)} OBVIOUS
<1> HIDE DEF C, room, T
<1>9. IsFiniteSet(T) /\ Cardinality(T) <= room BY <1>1, <1>2, <1>8, FewAtTop
<1>10. Cardinality(T) \in Nat BY <1>9, FS_CardinalityType
<1>11. IsFiniteSet(T \cup {Final(r)}) /\ Cardinality(T \cup {Final(r)}) = Cardinality(T) + 1
       BY <1>5, <1>9, FS_AddElement
<1>12. CASE Final(r) \in Generations
  <2>1. Generations \ Removable(r) = T \cup {Final(r)} BY <1>4, <1>12
  <2>2. Cardinality(T) + 1 <= Keep
    <3>1. room = Keep - 1 BY <1>6, <1>12
    <3> QED BY <1>9, <1>10, <3>1, KeepAssumption
  <2> QED BY <1>11, <2>1, <2>2
<1>13. CASE Final(r) \notin Generations BY <1>4, <1>7, <1>9, <1>13
<1> QED BY <1>12, <1>13

\* The bound survives a step that spares no more, or one more that a run
\* without a listing accounts for.
LEMMA BoundKept ==
  ASSUME BackupInv, NEW S, NEW U, U \subseteq Run,
         Cardinality(Spared) <= Keep + Cardinality(Unlisted),
         \/ S \subseteq Spared /\ Unlisted \subseteq U
         \/ \E x : \E r \in Run \ Unlisted :
              S \subseteq Spared \cup {x} /\ U = Unlisted \cup {r}
  PROVE  Cardinality(S) <= Keep + Cardinality(U)
<1>1. IsFiniteSet(Spared) /\ Cardinality(Spared) \in Nat
      BY GenerationsFinite, FS_Subset, FS_CardinalityType DEF Spared
<1>2. IsFiniteSet(U) /\ Cardinality(U) \in Nat
      BY RunAssumption, FS_Subset, FS_CardinalityType
<1>3. IsFiniteSet(Unlisted) /\ Cardinality(Unlisted) \in Nat
      BY RunAssumption, FS_Subset, FS_CardinalityType DEF Unlisted
<1>4. CASE S \subseteq Spared /\ Unlisted \subseteq U
  <2>1. Cardinality(S) <= Cardinality(Spared) /\ Cardinality(S) \in Nat
        BY <1>1, <1>4, FS_Subset, FS_CardinalityType
  <2>2. Cardinality(Unlisted) <= Cardinality(U) BY <1>2, <1>4, FS_Subset
  <2> QED BY <1>1, <1>2, <1>3, <2>1, <2>2
<1>5. ASSUME NEW x, NEW r \in Run \ Unlisted,
             S \subseteq Spared \cup {x}, U = Unlisted \cup {r}
      PROVE  Cardinality(S) <= Keep + Cardinality(U)
  <2>1. /\ IsFiniteSet(Spared \cup {x})
        /\ Cardinality(Spared \cup {x}) <= Cardinality(Spared) + 1
        /\ Cardinality(Spared \cup {x}) \in Nat
    <3>1. CASE x \in Spared
      <4>1. Spared \cup {x} = Spared BY <3>1
      <4> QED BY <1>1, <4>1
    <3>2. CASE x \notin Spared BY <1>1, <3>2, FS_AddElement
    <3> QED BY <3>1, <3>2
  <2>2. Cardinality(S) <= Cardinality(Spared \cup {x}) /\ Cardinality(S) \in Nat
        BY <1>5, <2>1, FS_Subset, FS_CardinalityType
  <2>3. Cardinality(U) = Cardinality(Unlisted) + 1 BY <1>3, <1>5, FS_AddElement
  <2> QED BY <1>1, <1>3, <2>1, <2>2, <2>3
<1> QED BY <1>4, <1>5

\* Generations come and go only where a step writes or removes.
LEMMA HoldingBound ==
  ASSUME NEW d, NEW files, NEW named, entry' = Holding(d, files, named)
  PROVE  /\ Generations' \subseteq Generations \cup {d}
         /\ files # Whole => Generations' \subseteq Generations \ {d}
BY DEF Generations, Dirs, Holding

LEMMA WithoutBound ==
  ASSUME NEW d, entry' = Without(d)
  PROVE  Generations' \subseteq Generations \ {d}
BY DEF Generations, Dirs, Without

\* What a step may do to what is spared, unless it lists.
SpareLess == Spared' \subseteq Spared /\ Unlisted \subseteq Unlisted'

SpareOneMore(r) ==
  /\ r \notin Unlisted /\ Unlisted' = Unlisted \cup {r}
  /\ Spared' \subseteq Spared \cup {Final(r)}

\* Where a step brings the run r that it is about.
LEMMA Steered ==
  ASSUME BackupInv, NEW r \in Run, NEW s, Goes(r, s)
  PROVE  /\ Moving' = IF s = "moving" THEN Moving \cup {r} ELSE Moving \ {r}
         /\ Unlisted' = IF s \in {"published", "torn"} THEN Unlisted \cup {r}
                        ELSE Unlisted \ {r}
<1>1. step' = [step EXCEPT ![r] = s] /\ step \in [Run -> Steps]
      BY DEF Goes, BackupInv, BackupTypeOK
<1> QED BY <1>1 DEF Moving, Unlisted

LEMMA BeforeSteps ==
  ASSUME BackupInv, NEW r \in Run, CopyDatabase(r) \/ Reserve(r) PROVE SpareLess
<1>1. /\ r \notin Moving /\ r \notin Unlisted
      /\ UNCHANGED <<stamp, stale, stuck>>
      BY DEF CopyDatabase, Reserve, Moving, Unlisted, history
<1>2. UNCHANGED step \/ Goes(r, "reserving") \/ Goes(r, "reserved")
      BY DEF CopyDatabase, Reserve
<1>3. Moving' = Moving /\ Unlisted' = Unlisted
  <2>1. CASE UNCHANGED step BY <2>1 DEF Moving, Unlisted
  <2>2. CASE Goes(r, "reserving") BY <1>1, <2>2, Steered
  <2>3. CASE Goes(r, "reserved") BY <1>1, <2>3, Steered
  <2> QED BY <1>2, <2>1, <2>2, <2>3
<1>4. Generations' \subseteq Generations
  <2>1. CASE UNCHANGED entry BY <2>1 DEF Generations, Dirs
  <2>2. CASE entry' = Holding(Final(r), {}, 0)
    <3>1. {} # Whole BY DEF Whole
    <3> QED BY <2>2, <3>1, HoldingBound
  <2> QED BY <2>1, <2>2 DEF CopyDatabase, Reserve
<1>5. \A q \in Moving : Final(q)' = Final(q)
  <2>1. \A q \in Run \ {r} : attempt'[q] = attempt[q]
        BY DEF CopyDatabase, Reserve, BackupInv, BackupTypeOK
  <2> QED BY <1>1, <2>1 DEF Final, Moving
<1>6. Incoming' = Incoming BY <1>3, <1>5 DEF Incoming
<1>7. Doomed' = Doomed BY <1>1 DEF Doomed
<1> QED BY <1>1, <1>3, <1>4, <1>6, <1>7 DEF SpareLess, Spared

\* Where a step does not change the name of a run's directory.
LEMMA IncomingThen ==
  ASSUME UNCHANGED <<stamp, attempt>>
  PROVE  Incoming' = {Final(q) : q \in Moving'}
<1>1. \A q \in Run : Final(q)' = Final(q) BY DEF Final
<1>2. Moving' \subseteq Run BY DEF Moving
<1>3. {Final(q)' : q \in Moving'} = {Final(q) : q \in Moving'} BY <1>1, <1>2
<1> QED BY <1>3 DEF Incoming

LEMMA PublishSteps ==
  ASSUME BackupInv, NEW r \in Run, PublishByRename(r) \/ MoveManifest(r)
  PROVE  SpareOneMore(r)
<1>1. /\ r \notin Unlisted /\ Goes(r, "published") /\ UNCHANGED <<stamp, attempt, stale, stuck>>
      BY DEF PublishByRename, MoveManifest, Unlisted
<1>2. Generations' \subseteq Generations \cup {Final(r)}
      BY HoldingBound DEF PublishByRename, MoveManifest
<1>3. Moving' = Moving \ {r} /\ Unlisted' = Unlisted \cup {r} BY <1>1, Steered
<1>4. Doomed' = Doomed BY <1>1 DEF Doomed
<1>5. Incoming \subseteq Incoming' \cup {Final(r)}
      BY <1>1, <1>3, IncomingThen DEF Incoming
<1> QED BY <1>1, <1>2, <1>3, <1>4, <1>5 DEF SpareOneMore, Spared

LEMMA MoveSteps ==
  ASSUME BackupInv, NEW r \in Run, MoveDatabase(r) PROVE SpareLess
<1>1. /\ r \notin Unlisted /\ Goes(r, "moving") /\ UNCHANGED <<stamp, attempt, stale, stuck>>
      BY DEF MoveDatabase, Unlisted, history
<1>2. Generations' \subseteq Generations \cup {Final(r)}
      BY HoldingBound DEF MoveDatabase
<1>3. Moving' = Moving \cup {r} /\ Unlisted' = Unlisted BY <1>1, Steered
<1>4. Doomed' = Doomed BY <1>1 DEF Doomed
<1>5. Incoming' = Incoming \cup {Final(r)} BY <1>1, <1>3, IncomingThen DEF Incoming
<1> QED BY <1>1, <1>2, <1>3, <1>4, <1>5 DEF SpareLess, Spared

LEMMA FailSteps ==
  ASSUME BackupInv, NEW r \in Run, FailBackup(r) PROVE SpareLess \/ SpareOneMore(r)
<1>1. /\ r \notin Unlisted /\ UNCHANGED <<stamp, attempt, stale, stuck>>
      /\ IF r \in Moving THEN Goes(r, "torn") ELSE Goes(r, "failed")
      BY DEF FailBackup, Unlisted, Moving, history
<1>2. Generations' \subseteq Generations
  <2>1. CASE UNCHANGED entry BY <2>1 DEF Generations, Dirs
  <2>2. CASE entry' = Without(Final(r)) BY <2>2, WithoutBound
  <2> QED BY <2>1, <2>2 DEF FailBackup
<1>3. Moving' = Moving \ {r} BY <1>1, Steered
<1>4. Doomed' = Doomed BY <1>1 DEF Doomed
<1>5. Incoming \subseteq Incoming' \cup {Final(r)}
      BY <1>1, <1>3, IncomingThen DEF Incoming
<1>6. CASE r \in Moving
  <2>1. Unlisted' = Unlisted \cup {r} BY <1>1, <1>6, Steered
  <2> QED BY <1>1, <1>2, <1>4, <1>5, <2>1 DEF SpareOneMore, Spared
<1>7. CASE r \notin Moving
  <2>1. Unlisted' = Unlisted BY <1>1, <1>7, Steered
  <2>2. Moving' = Moving BY <1>3, <1>7
  <2>3. Incoming' = Incoming BY <1>1, <2>2, IncomingThen DEF Incoming
  <2> QED BY <1>1, <1>2, <1>4, <2>1, <2>3 DEF SpareLess, Spared
<1> QED BY <1>6, <1>7

LEMMA PruneSteps ==
  ASSUME BackupInv, NEW r \in Run, RemoveStale(r) \/ FinishBackup(r) PROVE SpareLess
<1>1. UNCHANGED <<stamp, attempt>> /\ step[r] = "pruning"
      BY DEF RemoveStale, FinishBackup
<1>2. CASE FinishBackup(r)
  <2>1. UNCHANGED <<entry, stale, stuck>> BY <1>2 DEF FinishBackup, history
  <2>2. Goes(r, "done") \/ Goes(r, "failed") BY <1>2 DEF FinishBackup
  <2>3. r \notin Moving /\ r \notin Unlisted BY <1>1 DEF Moving, Unlisted
  <2>4. Moving' = Moving /\ Unlisted' = Unlisted
    <3>1. CASE Goes(r, "done") BY <2>3, <3>1, Steered
    <3>2. CASE Goes(r, "failed") BY <2>3, <3>2, Steered
    <3> QED BY <2>2, <3>1, <3>2
  <2>5. Generations' = Generations BY <2>1 DEF Generations, Dirs
  <2>6. Doomed' = Doomed BY <2>1 DEF Doomed
  <2>7. Incoming' = Incoming BY <1>1, <2>4, IncomingThen DEF Incoming
  <2> QED BY <2>1, <2>4, <2>5, <2>6, <2>7 DEF SpareLess, Spared
<1>3. CASE RemoveStale(r)
  <2>1. PICK d \in stale[r] :
          /\ stale' = [stale EXCEPT ![r] = stale[r] \ {d}]
          /\ \/ entry' = Without(d) /\ stuck' = stuck \ {d}
             \/ /\ d \in Dirs
                /\ \E left \in SUBSET entry[d].files :
                     /\ entry' = Holding(d, left, entry[d].named)
                     /\ stuck' = IF left = Whole THEN stuck \cup {d} ELSE stuck \ {d}
        BY <1>3 DEF RemoveStale
  <2>2. Generations' \ stuck' \subseteq (Generations \ stuck) \ {d}
    <3>1. CASE entry' = Without(d) /\ stuck' = stuck \ {d}
          BY <3>1, WithoutBound
    <3>2. ASSUME d \in Dirs, NEW left \in SUBSET entry[d].files,
                 entry' = Holding(d, left, entry[d].named),
                 stuck' = IF left = Whole THEN stuck \cup {d} ELSE stuck \ {d}
          PROVE  Generations' \ stuck' \subseteq (Generations \ stuck) \ {d}
          BY <3>2, HoldingBound
    <3> QED BY <2>1, <3>1, <3>2
  <2>3. Moving' = Moving /\ Unlisted' = Unlisted
        BY <1>3 DEF RemoveStale, Moving, Unlisted
  <2>4. \A q \in Run : stale[q] \subseteq stale'[q] \cup {d}
        BY <2>1 DEF BackupInv, BackupTypeOK
  <2>5. Doomed \subseteq Doomed' \cup {d}
    <3> SUFFICES ASSUME NEW x \in Doomed, x # d PROVE x \in Doomed' OBVIOUS
    <3>1. PICK q \in Run : x \in stale[q] BY DEF Doomed
    <3>2. x \in stale'[q] BY <2>4, <3>1
    <3> QED BY <3>2 DEF Doomed
  <2>6. Incoming' = Incoming BY <1>1, <2>3, IncomingThen DEF Incoming
  <2> QED BY <2>2, <2>3, <2>5, <2>6 DEF SpareLess, Spared
<1> QED BY <1>2, <1>3

\* A run that is over, and one that has not listed, has nothing left to remove.
LEMMA OnlyPruningKept ==
  ASSUME BackupInv, OnlyPruning, NEW r \in Run,
         \/ CopyDatabase(r) \/ Reserve(r)
         \/ PublishByRename(r) \/ MoveDatabase(r) \/ MoveManifest(r)
         \/ FailBackup(r) \/ CrashBackup(r)
         \/ ListGenerations(r) \/ RemoveStale(r) \/ FinishBackup(r)
  PROVE  OnlyPruning'
<1> USE DEF BackupInv, BackupTypeOK, OnlyPruning, Goes
<1>1. CASE CopyDatabase(r) BY <1>1 DEF CopyDatabase
<1>2. CASE Reserve(r) BY <1>2 DEF Reserve
<1>3. CASE PublishByRename(r) BY <1>3 DEF PublishByRename
<1>4. CASE MoveDatabase(r) BY <1>4 DEF MoveDatabase
<1>5. CASE MoveManifest(r) BY <1>5 DEF MoveManifest
<1>6. CASE FailBackup(r) BY <1>6 DEF FailBackup
<1>7. CASE CrashBackup(r) BY <1>7 DEF CrashBackup
<1>8. CASE ListGenerations(r) BY <1>8 DEF ListGenerations
<1>9. CASE RemoveStale(r) BY <1>9 DEF RemoveStale
<1>10. CASE FinishBackup(r) BY <1>10 DEF FinishBackup
<1> QED BY <1>1, <1>2, <1>3, <1>4, <1>5, <1>6, <1>7, <1>8, <1>9, <1>10

\* A listing starts the count anew.
LEMMA ListRetains ==
  ASSUME BackupInv, BackupInv', NEW r \in Run, ListGenerations(r) PROVE WithinKeep'
<1>1. /\ UNCHANGED <<entry, stamp, attempt>>
      /\ stale' = [stale EXCEPT ![r] = Removable(r)]
      BY DEF ListGenerations
<1>2. Removable(r) \subseteq Doomed'
  <2>1. stale'[r] = Removable(r) BY <1>1 DEF BackupInv, BackupTypeOK
  <2> QED BY <2>1 DEF Doomed
<1>3. Generations' = Generations BY <1>1 DEF Generations, Dirs
<1>4. Spared' \subseteq Generations \ Removable(r) BY <1>2, <1>3 DEF Spared
<1>5. /\ IsFiniteSet(Generations \ Removable(r))
      /\ Cardinality(Generations \ Removable(r)) <= Keep
      BY ListSpares
<1>6. Cardinality(Spared') <= Keep
  <2>1. /\ IsFiniteSet(Spared')
        /\ Cardinality(Spared') <= Cardinality(Generations \ Removable(r))
        BY <1>4, <1>5, FS_Subset
  <2>2. /\ Cardinality(Spared') \in Nat
        /\ Cardinality(Generations \ Removable(r)) \in Nat
        BY <1>5, <2>1, FS_CardinalityType
  <2> QED BY <1>5, <2>1, <2>2
<1>7. Cardinality(Spared') \in Nat /\ Cardinality(Unlisted') \in Nat
  <2>1. Unlisted' \subseteq Run BY DEF Unlisted
  <2>2. IsFiniteSet(Spared') BY <1>4, <1>5, FS_Subset
  <2> QED BY <2>1, <2>2, RunAssumption, FS_Subset, FS_CardinalityType
<1> QED BY <1>6, <1>7 DEF WithinKeep

LEMMA RetainedKept ==
  ASSUME BackupInv, BackupInv', WithinKeep, NEW r \in Run,
         \/ CopyDatabase(r) \/ Reserve(r)
         \/ PublishByRename(r) \/ MoveDatabase(r) \/ MoveManifest(r)
         \/ FailBackup(r) \/ CrashBackup(r)
         \/ ListGenerations(r) \/ RemoveStale(r) \/ FinishBackup(r)
  PROVE  WithinKeep'
<1>1. CASE ListGenerations(r) BY <1>1, ListRetains
<1>2. CASE CrashBackup(r)
  <2>1. step'[r] = "dead" BY <1>2 DEF CrashBackup, Goes, BackupInv, BackupTypeOK
  <2> QED BY <2>1 DEF WithinKeep, NoneDied
<1>3. ASSUME SpareLess \/ SpareOneMore(r),
             \E s : /\ step' = [step EXCEPT ![r] = s]
                    /\ s \in {"pruning", "done"} => step[r] = "pruning"
                    /\ step[r] # "dead"
      PROVE  WithinKeep'
  <2> SUFFICES ASSUME Listed', NoneDied'
               PROVE  Cardinality(Spared') <= Keep + Cardinality(Unlisted')
      BY DEF WithinKeep
  <2>1. PICK s : /\ step' = [step EXCEPT ![r] = s]
                 /\ s \in {"pruning", "done"} => step[r] = "pruning"
                 /\ step[r] # "dead"
        BY <1>3
  <2>2. \A q \in Run \ {r} : step'[q] = step[q] BY <2>1 DEF BackupInv, BackupTypeOK
  <2>3. step'[r] = s BY <2>1 DEF BackupInv, BackupTypeOK
  <2>4. Listed BY <2>1, <2>2, <2>3 DEF Listed
  <2>5. NoneDied BY <2>1, <2>2 DEF NoneDied
  <2>6. Cardinality(Spared) <= Keep + Cardinality(Unlisted) BY <2>4, <2>5 DEF WithinKeep
  <2>7. Unlisted' \subseteq Run BY DEF Unlisted
  <2>8. CASE SpareLess BY <2>6, <2>7, <2>8, BoundKept DEF SpareLess
  <2>9. CASE SpareOneMore(r)
        BY <2>6, <2>7, <2>9, BoundKept DEF SpareOneMore
  <2> QED BY <1>3, <2>8, <2>9
<1>4. CASE CopyDatabase(r) \/ Reserve(r)
  <2>1. SpareLess BY <1>4, BeforeSteps
  <2>2. \E s : /\ step' = [step EXCEPT ![r] = s]
               /\ s \in {"pruning", "done"} => step[r] = "pruning"
               /\ step[r] # "dead"
    <3>1. step' = [step EXCEPT ![r] = step[r]] \/ step' = [step EXCEPT ![r] = "reserving"]
          \/ step' = [step EXCEPT ![r] = "reserved"]
          BY <1>4 DEF CopyDatabase, Reserve, Goes, BackupInv, BackupTypeOK
    <3>2. step[r] \in {"new", "reserving"} BY <1>4 DEF CopyDatabase, Reserve
    <3> QED BY <3>1, <3>2
  <2> QED BY <1>3, <2>1, <2>2
<1>5. CASE PublishByRename(r) \/ MoveManifest(r)
  <2>1. SpareOneMore(r) BY <1>5, PublishSteps
  <2>2. step' = [step EXCEPT ![r] = "published"] /\ step[r] # "dead"
        BY <1>5 DEF PublishByRename, MoveManifest, Goes
  <2> QED BY <1>3, <2>1, <2>2
<1>6. CASE MoveDatabase(r)
  <2>1. SpareLess BY <1>6, MoveSteps
  <2>2. step' = [step EXCEPT ![r] = "moving"] /\ step[r] # "dead"
        BY <1>6 DEF MoveDatabase, Goes
  <2> QED BY <1>3, <2>1, <2>2
<1>7. CASE FailBackup(r)
  <2>1. SpareLess \/ SpareOneMore(r) BY <1>7, FailSteps
  <2>2. /\ \/ step' = [step EXCEPT ![r] = "torn"] \/ step' = [step EXCEPT ![r] = "failed"]
        /\ step[r] # "dead"
        BY <1>7 DEF FailBackup, Goes
  <2> QED BY <1>3, <2>1, <2>2
<1>8. CASE RemoveStale(r) \/ FinishBackup(r)
  <2>1. SpareLess BY <1>8, PruneSteps
  <2>2. /\ \/ step' = [step EXCEPT ![r] = step[r]] \/ step' = [step EXCEPT ![r] = "done"]
           \/ step' = [step EXCEPT ![r] = "failed"]
        /\ step[r] = "pruning"
        BY <1>8 DEF RemoveStale, FinishBackup, Goes, BackupInv, BackupTypeOK
  <2> QED BY <1>3, <2>1, <2>2
<1> QED BY <1>1, <1>2, <1>4, <1>5, <1>6, <1>7, <1>8

\* In every reachable state: once a run has listed, only generations published
\* since exceed Keep.
LEMMA Retention == BackupSpec => [](BackupInv /\ OnlyPruning /\ WithinKeep)
<1>1. BackupInit => OnlyPruning /\ WithinKeep
      BY DEF BackupInit, OnlyPruning, WithinKeep, Listed
<1>2. OnlyPruning /\ WithinKeep /\ BackupInv /\ BackupInv' /\ [BackupNext]_backupVars
        => OnlyPruning' /\ WithinKeep'
  <2> SUFFICES ASSUME OnlyPruning, WithinKeep, BackupInv, BackupInv', [BackupNext]_backupVars
               PROVE  OnlyPruning' /\ WithinKeep'
      OBVIOUS
  <2>1. CASE BackupNext BY <2>1, OnlyPruningKept, RetainedKept DEF BackupNext
  <2>2. CASE UNCHANGED backupVars
    <3>1. UNCHANGED <<entry, step, stamp, attempt, stale, stuck>>
          BY <2>2 DEF backupVars, history
    <3>2. OnlyPruning' BY <3>1 DEF OnlyPruning
    <3>3. /\ Listed' = Listed /\ NoneDied' = NoneDied /\ Unlisted' = Unlisted
          /\ Moving' = Moving /\ Doomed' = Doomed /\ Generations' = Generations
          BY <3>1 DEF Listed, NoneDied, Unlisted, Moving, Doomed, Generations, Dirs
    <3>4. Incoming' = Incoming BY <3>1, <3>3, IncomingThen DEF Incoming
    <3>5. WithinKeep' BY <3>1, <3>3, <3>4 DEF WithinKeep, Spared
    <3> QED BY <3>2, <3>5
  <2> QED BY <2>1, <2>2
<1> QED BY <1>1, <1>2, BackupInitInv, BackupStepInv, PTL DEF BackupSpec

(* Whatever runs overlap or fail, and whatever the clock reads, once the   *)
(* runs are over and none died at most Keep generations are left besides   *)
(* those whose removal failed and left them whole, and one more for each   *)
(* run that was torn between its two moves (create_backup).                *)
THEOREM RetentionAlwaysHolds == BackupSpec => []RetentionHolds
<1>1. BackupInv /\ OnlyPruning /\ WithinKeep => RetentionHolds
  <2> SUFFICES ASSUME BackupInv, OnlyPruning, WithinKeep,
                      \E r \in Run : step[r] = "done",
                      \A r \in Run : step[r] \in {"new", "done", "failed", "torn"}
               PROVE  Cardinality(Generations \ stuck)
                        <= Keep + Cardinality({r \in Run : step[r] = "torn"})
      BY DEF RetentionHolds
  <2>1. Listed /\ NoneDied BY DEF Listed, NoneDied
  <2>2. Unlisted = {r \in Run : step[r] = "torn"} BY DEF Unlisted
  <2>3. Doomed = {} BY DEF OnlyPruning, Doomed
  <2>4. Incoming = {} BY DEF Incoming, Moving
  <2>5. Spared = Generations \ stuck BY <2>3, <2>4 DEF Spared
  <2> QED BY <2>1, <2>2, <2>5 DEF WithinKeep
<1> QED BY <1>1, Retention, PTL

-----------------------------------------------------------------------------
(***************************************************************************)
(* Together                                                                *)
(***************************************************************************)

\* Who looks at one part of the store sees a behaviour of that part.
LEMMA PartsBehave == PartsSpec => Spec /\ TaskSpec /\ BackupSpec
<1>1. PartsInit => Init /\ TaskInit /\ BackupInit
  BY DEF PartsInit
<1>2. [SyncPart \/ WritersPart \/ BackupsPart]_<<part, others>>
        => [Next]_vars /\ [TaskNext]_taskVars /\ [BackupNext]_backupVars
  BY DEF SyncPart, WritersPart, BackupsPart, others
<1> QED BY <1>1, <1>2, PTL DEF PartsSpec, Spec, TaskSpec, BackupSpec

(* Whichever of its parts is at work, the store holds what the code makes  *)
(* of it: machines and ledgers, rows, tokens and proposals, directories.   *)
THEOREM StoreTypeCorrect == PartsSpec => []StoreTypeOK
<1>1. TypeOK /\ TaskTypeOK /\ BackupTypeOK => StoreTypeOK BY DEF StoreTypeOK
<1> QED BY <1>1, PartsBehave, SyncTypeCorrect, TaskTypeCorrect, BackupTypeCorrect, PTL
=============================================================================
