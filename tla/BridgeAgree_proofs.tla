-------------------------- MODULE BridgeAgree_proofs --------------------------
(***************************************************************************)
(* The proof that the machines of BridgeSync agree once they have nothing  *)
(* left to do, for any machines, statuses, crashes, lost pushes and        *)
(* numbers of edits, while their wall clocks are in step, nobody merges a  *)
(* clone by hand and no retention window ends on an unsettled conflict.    *)
(***************************************************************************)
EXTENDS BridgeSync_proofs

-----------------------------------------------------------------------------
(* What the agreement rests on.                                            *)

Regular == SameClocks /\ ~united /\ ~overruled

\* The instant all clocks show while they are in step.
Now == Clock(Min(Machine))

Clones == {remote} \cup {tree[p] : p \in Machine}

\* A priority is the first one, or has the name of the edit that wrote it.
Named(v) ==
  \/ v = FirstRow.pv
  \/ v.order > 0 /\ v.val = Key(v)

Recorded(v) == v.order <= Now /\ Named(v)

\* Nothing is dated in the future.
Dates ==
  /\ \A p \in Machine : last[p] <= Now
  /\ \A t \in Clones : t.clock <= Now /\ (t.entry # NoTask => Recorded(t.entry.pv))
  /\ \A p \in Machine : row[p] # NoTask => Recorded(row[p].pv)

\* What a machine has of others came through its clone; a push it has not
\* missed is imported; a clone with nothing to fetch or push is the remote.
Booked(m) ==
  /\ ledger[m] \subseteq Own(m) \cup tree[m].ledger
  /\ ~unseen[m] => ~behind[m] /\ remote.ledger \subseteq ledger[m]
  /\ ~behind[m] /\ ~ahead[m] /\ ~staged[m] => tree[m] = remote

\* The version of a row is as new as every event of its machine, and as old
\* as an event that says what the row says.
Shows(m) ==
  row[m] # NoTask =>
    /\ \A e \in Own(m) : Key(e) <= Key(row[m].sv)
    /\ \E g \in ledger[m] : g.new = row[m].status /\ Key(g) >= Key(row[m].sv)

\* Every machine, every clone and the remote have the event.
Spread(h) ==
  h \in remote.ledger /\ \A p \in Machine : h \in ledger[p] /\ h \in tree[p].ledger

\* A deletion that no machine can miss.
Safe(h) ==
  /\ h.new \in Hidden
  /\ Spread(h)
  /\ \A p \in Machine : Visible(p) =>
       \E e \in ledger[p] : e.new \notin Hidden /\ Key(e) > Key(h)

\* A merged row is visible only if its ledger says so.
Current(m) ==
  (phase[m] = "merged" \/ ~unseen[m]) /\ Visible(m) =>
    \A h : IsNewest(h, ledger[m]) => h.new \notin Hidden

AgedSafe(m) ==
  row[m] # NoTask /\ row[m].status \in Hidden /\ row[m].aged =>
    \E c \in ledger[m] : Key(c) >= Key(row[m].sv) /\ Safe(c)

\* A row the next export leaves out is hidden everywhere, or is in conflict.
DropReady(m) ==
  phase[m] = "merged" =>
    \A h : IsNewest(h, ledger[m]) =>
      /\ row[m] = NoTask => Safe(h)
      /\ row[m] # NoTask /\ row[m].status \in Hidden /\ row[m].aged /\ h.new \in Hidden
           => Safe(h)

\* A clone without the task has its deletion, one with it knows a deletion.
Filed(t) ==
  /\ t.entry = NoTask => \A h : IsNewest(h, t.ledger) => Safe(h)
  /\ t.entry # NoTask => (t.entry.tomb <=> t.entry.status \in Hidden)

\* Of the same visible status s has no older a priority than t.
Leads(s, t) ==
  \A h : IsNewest(h, s.ledger) /\ IsNewest(h, t.ledger) /\ h.new \notin Hidden =>
    Key(s.entry.pv) >= Key(t.entry.pv)

Linked(m) ==
  /\ ~behind[m] => Leads(tree[m], remote)
  /\ ~ahead[m] /\ ~staged[m] => Leads(remote, tree[m])

\* The merge took over a newer priority, or waits for its user.
Merged(m) ==
  phase[m] = "merged" =>
    \A h : IsNewest(h, ledger[m]) /\ IsNewest(h, tree[m].ledger) /\ h.new \notin Hidden =>
      /\ row[m] # NoTask
      /\ \/ Blocked(row[m].status, Authority(m))
         \/ Key(row[m].pv) >= Key(tree[m].entry.pv)

\* The clone has the priority of the row, or a status that is newer.
Holds(m, t) ==
  \/ \E e \in t.ledger : Key(e) > Key(row[m].sv)
  \/ t.entry # NoTask /\ Key(t.entry.pv) >= Key(row[m].pv)

Told(m) ==
  Visible(m) =>
    /\ ~fresh[m] /\ phase[m] = "staged" => Holds(m, tree[m])
    /\ ~fresh[m] /\ phase[m] = "pushed" => Holds(m, remote)
    /\ ~dirty[m] => Holds(m, remote)

Base == IInv /\ Faithful(remote) /\ (\A p \in Machine : Known(p)) /\ SameClocks /\ ~united

Agreed ==
  /\ Dates
  /\ \A t \in Clones : Filed(t)
  /\ \A m \in Machine : /\ Booked(m) /\ Shows(m) /\ Current(m) /\ AgedSafe(m)
                        /\ DropReady(m) /\ Linked(m) /\ Merged(m) /\ Told(m)

-----------------------------------------------------------------------------
\* What a step of another machine leaves of p.
Apart(p) ==
  /\ Still(p)
  /\ last'[p] = last[p] /\ ahead'[p] = ahead[p] /\ staged'[p] = staged[p]
  /\ \/ remote' = remote /\ behind'[p] = behind[p] /\ unseen'[p] = unseen[p]
     \/ behind'[p] /\ unseen'[p]

\* A step that leaves rows, ledgers and the remote alone, and takes no cycle
\* further than its fetch.
Retreats(m) ==
  /\ row'[m] = row[m] /\ ledger'[m] = ledger[m] /\ last'[m] = last[m]
  /\ dirty'[m] = dirty[m] /\ unseen'[m] = unseen[m]
  /\ UNCHANGED <<remote, wall>>
  /\ phase'[m] \in {"idle", "fetched"}
  /\ \/ tree'[m] = remote /\ ~behind'[m]
     \/ /\ tree'[m] = tree[m] /\ behind'[m] = behind[m]
        /\ ~ahead'[m] /\ ~staged'[m] => ~ahead[m] /\ ~staged[m]

Writes(m) == \E s \in Status : WriteStatus(m, s) /\ row[m] # NoTask

\* Every step edits, ages, purges, is one of the cycle's, or retreats.
LEMMA StepKinds ==
  ASSUME Typed, NEW m \in Machine, Unmerged(m)
  PROVE  \/ Writes(m) \/ SetPriority(m) \/ Age(m) \/ Purge(m)
         \/ ImportLedger(m) \/ MergeTasks(m) \/ Export(m) \/ Push(m) \/ Record(m)
         \/ Retreats(m)
<1>1. ASSUME NEW s \in Status, SetStatus(m, s) \/ Confirm(m, s) PROVE Writes(m)
      BY <1>1 DEF SetStatus, Confirm, Writes
<1>2. CASE Fetch(m) BY <1>2 DEF Fetch, Retreats, Typed
<1>3. CASE RefuseMerge(m) BY <1>3 DEF RefuseMerge, Retreats, Typed, repo
<1>4. CASE EndCycle(m) BY <1>4 DEF EndCycle, Retreats, Typed, repo
<1>5. CASE RejectedPush(m) BY <1>5 DEF RejectedPush, Retreats, Typed
<1>6. CASE FailedPush(m) BY <1>6 DEF FailedPush, Retreats, Typed
<1>7. CASE Crash(m) BY <1>7 DEF Crash, Retreats, Typed, repo
<1>8. CASE ResetByHand(m) BY <1>8 DEF ResetByHand, Retreats, Typed, cycle
<1> QED BY <1>1, <1>2, <1>3, <1>4, <1>5, <1>6, <1>7, <1>8
        DEF Unmerged, LocalWrite, SyncStep

LEMMA OthersApart ==
  ASSUME Typed, NEW m \in Machine, Unmerged(m), NEW p \in Machine, p # m
  PROVE  Apart(p)
<1>0. Still(p) BY OthersStill
<1>1. ASSUME NEW s \in Status, SetStatus(m, s) \/ Confirm(m, s) PROVE Apart(p)
      BY <1>0, <1>1 DEF SetStatus, Confirm, WriteStatus, Apart, Typed, repo, cycle
<1>2. CASE SetPriority(m) \/ Age(m) \/ Purge(m)
      BY <1>0, <1>2 DEF SetPriority, Age, Purge, Apart, Typed, repo, cycle
<1>3. CASE Fetch(m) \/ ImportLedger(m) \/ MergeTasks(m)
      BY <1>0, <1>3 DEF Fetch, ImportLedger, MergeTasks, Apart, Typed, repo
<1>4. CASE RefuseMerge(m) \/ EndCycle(m) \/ Export(m)
      BY <1>0, <1>4 DEF RefuseMerge, EndCycle, Export, Apart, Typed, repo
<1>5. CASE Push(m) \/ RejectedPush(m)
      BY <1>0, <1>5 DEF Push, RejectedPush, Apart, Typed
<1>6. CASE Record(m)
      BY <1>0, <1>6 DEF Record, Apart, Typed, repo
<1>7. CASE FailedPush(m) \/ Crash(m) \/ ResetByHand(m)
      BY <1>0, <1>7 DEF FailedPush, Crash, ResetByHand, Apart, Typed, repo, cycle
<1> QED BY <1>1, <1>2, <1>3, <1>4, <1>5, <1>6, <1>7 DEF Unmerged, LocalWrite, SyncStep

\* A clone is what it was, the remote, or an export.
LEMMA ClonesCopied ==
  ASSUME Typed, NEW m \in Machine, Unmerged(m), NEW t \in Clones'
  PROVE  t \in Clones \/ (Export(m) /\ t = Payload(m))
<1>1. /\ remote' = remote \/ remote' = tree[m]
      /\ \/ tree'[m] = tree[m] \/ tree'[m] = remote
         \/ Export(m) /\ tree'[m] = Payload(m)
  <2>1. CASE Writes(m) BY <2>1 DEF Writes, WriteStatus, repo
  <2>2. CASE SetPriority(m) \/ Age(m) \/ Purge(m) \/ ImportLedger(m) \/ MergeTasks(m)
             \/ Record(m)
        BY <2>2 DEF SetPriority, Age, Purge, ImportLedger, MergeTasks, Record, repo
  <2>3. CASE Export(m) BY <2>3 DEF Export, Typed
  <2>4. CASE Push(m) BY <2>4 DEF Push
  <2>5. CASE Retreats(m) BY <2>5 DEF Retreats
  <2> QED BY <2>1, <2>2, <2>3, <2>4, <2>5, StepKinds
<1>2. \A p \in Machine \ {m} : tree'[p] = tree[p] BY OthersStill DEF Still
<1>3. CASE t = remote' BY <1>1, <1>3 DEF Clones
<1>4. ASSUME NEW p \in Machine, t = tree'[p]
      PROVE  t \in Clones \/ (Export(m) /\ t = Payload(m))
  <2>1. remote \in Clones /\ tree[p] \in Clones BY DEF Clones
  <2>2. CASE p = m BY <1>1, <1>4, <2>1, <2>2
  <2>3. CASE p # m BY <1>2, <1>4, <2>1, <2>3
  <2> QED BY <2>2, <2>3
<1>5. t = remote' \/ \E p \in Machine : t = tree'[p] BY DEF Clones
<1> QED BY <1>3, <1>4, <1>5

-----------------------------------------------------------------------------
\* The parts of the invariant that the others are proved from.
LEMMA BaseParts ==
  ASSUME Base
  PROVE  /\ IInv /\ Typed /\ EventsInv /\ EventsBounded /\ EventsUnique /\ RowPast /\ Accounts
         /\ SameClocks /\ ~united /\ Faithful(remote)
         /\ \A p \in Machine : Known(p) /\ Accounted(p)
         /\ \A t \in Clones : Faithful(t)
BY DEF Base, IInv, EventsInv, Accounts, Known, Clones

\* A ledger has one newest event.
LEMMA NewestUnique ==
  ASSUME Typed, EventsInv, NEW L, L \subseteq AllEvents,
         NEW h, IsNewest(h, L), NEW g, IsNewest(g, L)
  PROVE  h = g
<1>1. h \in AllEvents /\ g \in AllEvents /\ Key(h) >= Key(g) /\ Key(g) >= Key(h)
      BY DEF IsNewest
<1>2. h \in Events /\ g \in Events BY <1>1, EventsTyped
<1>3. Key(h) \in Nat /\ Key(g) \in Nat BY <1>2, KeyIsUnique DEF Events
<1> QED BY <1>1, <1>3 DEF EventsInv, EventsUnique

\* Events, versions and priorities have natural keys.
LEMMA KeyTypes ==
  ASSUME Typed
  PROVE  /\ \A e \in AllEvents : /\ e \in Events /\ Key(e) \in Nat
                                 /\ Key(EventVersion(e)) = Key(e)
                                 /\ EventVersion(e) \in Versions
         /\ \A v \in Versions \cup Priorities : Key(v) \in Nat
<1>1. ASSUME NEW e \in AllEvents
      PROVE  /\ e \in Events /\ Key(e) \in Nat /\ Key(EventVersion(e)) = Key(e)
             /\ EventVersion(e) \in Versions
  <2>1. e \in Events BY EventsTyped
  <2>2. e.order \in Nat /\ e.by \in Machine BY <2>1 DEF Events
  <2> QED BY <2>1, <2>2, KeyIsUnique DEF Key, EventVersion, Versions
<1>2. ASSUME NEW v \in Versions \cup Priorities PROVE Key(v) \in Nat
  <2>1. v.order \in Nat /\ v.by \in Machine BY DEF Versions, Priorities
  <2> QED BY <2>1, KeyIsUnique
<1> QED BY <1>1, <1>2

\* Clocks in step show one instant.
LEMMA InStep ==
  ASSUME Typed, SameClocks
  PROVE  Now \in Nat /\ \A m \in Machine : Clock(m) = Now
<1>1. Min(Machine) \in Machine BY FirstWriter
<1>2. \A m \in Machine : Clock(m) \in Nat BY WorldType
<1> QED BY <1>1, <1>2 DEF Now, Clock, SameClocks

\* What is not from the future is read as it is.
LEMMA NothingClamped ==
  ASSUME Typed, SameClocks, NEW m \in Machine, NEW v \in Versions \cup Priorities,
         v.order <= Now + 1
  PROVE  Clamp(m, v) = v
<1>1. Clock(m) = Now /\ Now \in Nat /\ v.order \in Nat
      BY InStep DEF Versions, Priorities
<1>2. ~(v.order > Clock(m) + 1) BY <1>1
<1> QED BY <1>2 DEF Clamp, Versions, Priorities

\* Nothing a machine reads is dated in the future.
LEMMA Dated ==
  ASSUME Base, Dates, NEW m \in Machine
  PROVE  /\ \A e \in AllEvents : e.order <= Now
         /\ row[m] # NoTask => Clamp(m, row[m].sv) = row[m].sv /\ Clamp(m, row[m].pv) = row[m].pv
         /\ tree[m].entry # NoTask => Clamp(m, tree[m].entry.pv) = tree[m].entry.pv
         /\ \A e \in AllEvents : Clamp(m, EventVersion(e)) = EventVersion(e)
<1>0. Typed /\ EventsInv /\ SameClocks /\ RowPast BY BaseParts
<1>1. Now \in Nat /\ Clock(m) = Now BY <1>0, InStep
<1>2. ASSUME NEW e \in AllEvents PROVE e.order <= Now
  <2>1. e.order \in Nat /\ e.by \in Machine BY <1>0, EventsTyped DEF Events
  <2>2. e.order <= last[e.by] /\ last[e.by] <= Now /\ last[e.by] \in Nat
        BY <1>0, <2>1 DEF EventsInv, EventsPast, Dates, Typed
  <2> QED BY <1>1, <2>1, <2>2
<1>3. ASSUME row[m] # NoTask
      PROVE  Clamp(m, row[m].sv) = row[m].sv /\ Clamp(m, row[m].pv) = row[m].pv
  <2>1. /\ row[m].sv \in Versions /\ row[m].sv.order \in Nat
        /\ row[m].pv \in Priorities /\ row[m].pv.order \in Nat
        BY <1>0, <1>3, RowStates DEF Rows, Versions, Priorities
  <2>2. row[m].sv.order <= last[m] \/ row[m].sv.order <= Now + 1
        BY <1>0, <1>1, <1>3 DEF RowPast
  <2>3. last[m] <= Now /\ last[m] \in Nat BY <1>0 DEF Dates, Typed
  <2>4. row[m].sv.order <= Now + 1
    <3>1. CASE row[m].sv.order <= last[m] BY <1>1, <2>1, <2>3, <3>1
    <3> QED BY <2>2, <3>1
  <2>5. row[m].pv.order <= Now + 1 BY <1>1, <1>3, <2>1 DEF Dates, Recorded
  <2> QED BY <1>0, <2>1, <2>4, <2>5, NothingClamped
<1>4. ASSUME tree[m].entry # NoTask
      PROVE  Clamp(m, tree[m].entry.pv) = tree[m].entry.pv
  <2>1. tree[m].entry.pv \in Priorities /\ tree[m].entry.pv.order \in Nat
        BY <1>0, <1>4 DEF Typed, Trees, Entries, Priorities
  <2>2. tree[m].entry.pv.order <= Now BY <1>4 DEF Dates, Recorded, Clones
  <2>3. tree[m].entry.pv.order <= Now + 1 BY <1>1, <2>1, <2>2
  <2> QED BY <1>0, <2>1, <2>3, NothingClamped
<1>5. ASSUME NEW e \in AllEvents PROVE Clamp(m, EventVersion(e)) = EventVersion(e)
  <2>1. EventVersion(e) \in Versions /\ EventVersion(e).order = e.order /\ e.order \in Nat
        BY <1>0, KeyTypes DEF EventVersion, Events
  <2>2. EventVersion(e).order <= Now + 1 BY <1>1, <1>2, <2>1
  <2> QED BY <1>0, <2>1, <2>2, NothingClamped
<1> QED BY <1>2, <1>3, <1>4, <1>5

-----------------------------------------------------------------------------
(* What a merge makes of a row, given the newest event h that came with    *)
(* the entry: it takes over its status, repairs the row by it, keeps the   *)
(* row, or keeps a deletion that is in conflict with it.                   *)

Raised(m, new) ==
  /\ new.pv \in {row[m].pv, tree[m].entry.pv}
  /\ Key(new.pv) >= Key(row[m].pv) /\ Key(new.pv) >= Key(tree[m].entry.pv)

Takes(m, new, h) ==
  /\ new.status = h.new /\ new.sv = EventVersion(h) /\ Key(h) >= Key(row[m].sv)
  /\ new.aged => h.new \notin Hidden
  /\ Raised(m, new)

Repairs(m, new, h) ==
  /\ row[m].status # h.new /\ new.status = h.new /\ new.sv = row[m].sv
  /\ h.new \notin Hidden /\ IsNewest(h, ledger[m])
  /\ Raised(m, new)

Keeps(m, new, h) ==
  /\ new.status = row[m].status /\ new.sv = row[m].sv /\ Key(row[m].sv) >= Key(h)
  /\ new.aged => row[m].aged
  /\ Raised(m, new)

Waits(m, new, h) ==
  /\ new = row[m] /\ row[m].status \in Hidden /\ h.new \notin Hidden
  /\ Blocked(row[m].status, Authority(m)) \/ Authority(m).value \in Hidden

\* The merged priority is the newer of the two.
LEMMA PriorityRaised ==
  ASSUME Base, Dates, NEW m \in Machine, row[m] # NoTask, tree[m].entry # NoTask,
         NEW new, new.pv = NewerPriority(m, tree[m], row[m])
  PROVE  Raised(m, new)
<1>1. /\ Clamp(m, row[m].pv) = row[m].pv
      /\ Clamp(m, tree[m].entry.pv) = tree[m].entry.pv
      BY Dated
<1>2. row[m].pv \in Priorities /\ tree[m].entry.pv \in Priorities
      BY BaseParts, RowStates DEF Typed, Rows, Trees, Entries
<1>3. Key(row[m].pv) \in Nat /\ Key(tree[m].entry.pv) \in Nat
      BY <1>2, BaseParts, KeyTypes
<1>4. new.pv = IF Key(tree[m].entry.pv) > Key(row[m].pv)
               THEN tree[m].entry.pv ELSE row[m].pv
      BY <1>1 DEF NewerPriority
<1> QED BY <1>3, <1>4 DEF Raised

\* An event of the ledger that the clone lacks is what the row says.
LEMMA OwnDecides ==
  ASSUME Base, NEW m \in Machine, row[m] # NoTask, Booked(m), Shows(m),
         NEW g, IsNewest(g, ledger[m]), g \notin tree[m].ledger
  PROVE  row[m].status = g.new /\ Key(row[m].sv) >= Key(g)
<1>0. Typed /\ EventsInv BY BaseParts
<1>1. g \in ledger[m] /\ g \in Own(m) BY DEF IsNewest, Booked
<1>2. Key(row[m].sv) >= Key(g) BY <1>1 DEF Shows
<1>3. PICK f \in ledger[m] : f.new = row[m].status /\ Key(f) >= Key(row[m].sv)
      BY DEF Shows
<1>4. ledger[m] \subseteq AllEvents BY InAllEvents
<1>5. row[m].sv \in Versions BY <1>0, RowStates DEF Rows
<1>6. Key(f) \in Nat /\ Key(g) \in Nat /\ Key(row[m].sv) \in Nat
      BY <1>0, <1>1, <1>4, <1>5, KeyTypes
<1>7. \A e \in ledger[m] : Key(f) >= Key(e)
  <2> TAKE e \in ledger[m]
  <2>1. Key(g) >= Key(e) /\ Key(e) \in Nat BY <1>0, <1>4, KeyTypes DEF IsNewest
  <2> QED BY <1>2, <1>3, <1>6, <2>1
<1>8. f = g BY <1>0, <1>4, <1>7, NewestUnique DEF IsNewest
<1> QED BY <1>2, <1>3, <1>8

\* The merge of a row and an entry has no other outcome.
LEMMA MergeCases ==
  ASSUME Base, Dates, NEW m \in Machine, row[m] # NoTask, tree[m].entry # NoTask,
         tree[m].ledger \subseteq ledger[m], Booked(m), Shows(m), Filed(tree[m]),
         NEW h, IsNewest(h, tree[m].ledger)
  PROVE  LET new == MergedRow(m)
         IN Takes(m, new, h) \/ Repairs(m, new, h) \/ Keeps(m, new, h) \/ Waits(m, new, h)
<1> DEFINE t == tree[m]  r == row[m]  new == MergedRow(m)  a == Authority(m)
           R == EntryState(t)
           Sent == Clamp(m, R.sv)  Had == Clamp(m, r.sv)
<1> SUFFICES Takes(m, new, h) \/ Repairs(m, new, h) \/ Keeps(m, new, h) \/ Waits(m, new, h)
    OBVIOUS
<1>0. Typed /\ EventsInv /\ Faithful(t) /\ Sourced(r, ledger[m])
      BY BaseParts DEF Known
<1>1. r \in Rows /\ r.sv \in Versions /\ r.status \in Status
      BY <1>0, RowStates DEF Rows
<1>2. t.ledger \subseteq AllEvents /\ ledger[m] \subseteq AllEvents /\ h \in t.ledger
      BY InAllEvents DEF IsNewest
<1>3. R.value = h.new /\ R.sv = EventVersion(h) BY <1>0, <1>2, EntryIsNewest, NewestUnique
<1>4. Sent = EventVersion(h) /\ Had = r.sv /\ Key(Sent) = Key(h) /\ Key(Had) = Key(r.sv)
      BY <1>0, <1>2, <1>3, Dated, KeyTypes
<1>5. Key(h) \in Nat /\ Key(r.sv) \in Nat BY <1>0, <1>1, <1>2, KeyTypes
<1>6. t.entry.status = h.new /\ Key(t.entry.sv) = Key(h)
      BY <1>0, <1>2, NewestUnique, KeyTypes DEF Faithful
<1>7. PICK g \in ledger[m] : IsNewest(g, ledger[m]) /\ a.value = g.new
      BY <1>0, AuthorityIsNewest
<1>8. a.value # r.status => g = h
  <2> SUFFICES ASSUME a.value # r.status PROVE g = h OBVIOUS
  <2>1. g \in t.ledger BY <1>7, OwnDecides
  <2>2. IsNewest(g, t.ledger) BY <1>7, <2>1 DEF IsNewest
  <2> QED BY <1>0, <1>2, <2>2, NewestUnique
<1>11. \A n : n.pv = NewerPriority(m, t, r) => Raised(m, n) BY PriorityRaised
<1> HIDE DEF Sent, Had, R, a, t
<1>9. CASE t.entry.tomb
  <2> DEFINE pv == NewerPriority(m, t, r)
             Wins == \/ Key(Sent) > Key(Had)
                     \/ Max({Key(t.entry.sv), Key(R.sv)}) > Key(r.sv)
                     \/ Key(Sent) = Key(Had) /\ r.fval = "none"
  <2>1. new = IF Wins
              THEN [status |-> R.value, sv |-> Sent, fval |-> R.value, pv |-> pv,
                    stamp |-> FALSE, aged |-> FALSE]
              ELSE [r EXCEPT !.pv = pv]
        BY <1>9 DEF MergedRow, TombstoneRow, t, R, Sent, Had
  <2>2. Max({Key(t.entry.sv), Key(R.sv)}) = Key(h)
    <3>1. Key(R.sv) = Key(h) BY <1>0, <1>2, <1>3, KeyTypes
    <3> QED BY <1>5, <1>6, <3>1, MaxOfTwo
  <2> HIDE DEF new
  <2>3. CASE Wins
    <3>1. /\ new.status = h.new /\ new.sv = EventVersion(h) /\ new.pv = pv
          /\ new.aged = FALSE
          BY <1>3, <1>4, <2>1, <2>3
    <3>2. Key(h) >= Key(r.sv) BY <1>4, <1>5, <2>2, <2>3
    <3> QED BY <3>1, <3>2, <1>11 DEF Takes
  <2>4. CASE ~Wins
    <3>1. /\ new.status = r.status /\ new.sv = r.sv /\ new.aged = r.aged
          /\ new.pv = pv
          BY <1>1, <2>1, <2>4 DEF Rows
    <3>2. Key(r.sv) >= Key(h) BY <1>4, <1>5, <2>4
    <3> QED BY <3>1, <3>2, <1>11 DEF Keeps
  <2> QED BY <2>3, <2>4
<1>10. CASE ~t.entry.tomb
  <2> DEFINE Repaired == a.value # r.status /\ ~Blocked(r.status, a)
             Curr == IF Repaired THEN a.value ELSE r.status
             Guarded == Curr \in Hidden /\ R.value \notin Hidden
             Wins == /\ ~Repaired /\ ~Guarded
                     /\ \/ Key(Sent) > Key(Had)
                        \/ Key(Sent) = Key(Had) /\ R.value # r.status
             Restamp == Wins /\ R.value # r.status
             pv == NewerPriority(m, t, r)
  <2>1. new = [status |-> IF Wins THEN R.value ELSE Curr,
               sv |-> IF Wins THEN Sent ELSE r.sv,
               fval |-> IF Wins THEN R.value ELSE r.fval,
               pv |-> IF Guarded THEN r.pv ELSE pv,
               stamp |-> ~Restamp /\ r.stamp,
               aged |-> ~Restamp /\ r.aged]
        BY <1>10 DEF MergedRow, FieldMergeRow, t, R, a, Sent, Had
  <2>2. h.new \notin Hidden
        BY <1>6, <1>10 DEF Filed, t
  <2> HIDE DEF new
  <2>3. CASE Repaired
    <3>1. g = h /\ a.value = h.new /\ r.status # h.new BY <1>7, <1>8, <2>3
    <3>2. ~Guarded /\ ~Wins BY <2>2, <2>3, <3>1
    <3>3. new.status = h.new /\ new.sv = r.sv /\ new.pv = pv
          BY <2>1, <2>3, <3>1, <3>2
    <3> QED BY <1>7, <2>2, <3>1, <3>3, <1>11 DEF Repairs
  <2>4. CASE ~Repaired /\ Guarded
    <3>1. r.status \in Hidden /\ ~Wins /\ ~Restamp BY <2>4
    <3>2. new = [status |-> r.status, sv |-> r.sv, fval |-> r.fval, pv |-> r.pv,
                 stamp |-> r.stamp, aged |-> r.aged]
          BY <1>1, <2>1, <2>4, <3>1 DEF Rows
    <3>3. new = r BY <1>1, <3>2 DEF Rows
    <3>4. Blocked(r.status, a) \/ a.value \in Hidden BY <2>4, <3>1
    <3> QED BY <2>2, <3>1, <3>3, <3>4 DEF Waits, a
  <2>5. CASE ~Repaired /\ ~Guarded /\ Wins
    <3>1. new.status = h.new /\ new.sv = EventVersion(h) /\ new.pv = pv
          BY <1>3, <1>4, <2>1, <2>5
    <3>2. Key(h) >= Key(r.sv) BY <1>4, <1>5, <2>5
    <3> QED BY <2>2, <3>1, <3>2, <1>11 DEF Takes
  <2>6. CASE ~Repaired /\ ~Guarded /\ ~Wins
    <3>1. /\ new.status = r.status /\ new.sv = r.sv /\ new.pv = pv
          /\ new.aged => r.aged
          BY <2>1, <2>6
    <3>2. Key(r.sv) >= Key(h) BY <1>4, <1>5, <2>6
    <3> QED BY <3>1, <3>2, <1>11 DEF Keeps
  <2> QED BY <2>3, <2>4, <2>5, <2>6
<1> QED BY <1>9, <1>10

\* A new row is what the newest event of the clone says.
LEMMA MergeNew ==
  ASSUME Base, Dates, NEW m \in Machine, row[m] = NoTask, tree[m].entry # NoTask,
         NEW h, IsNewest(h, tree[m].ledger)
  PROVE  LET new == MergedRow(m)
         IN /\ new.status = h.new /\ new.sv = EventVersion(h) /\ ~new.aged
            /\ new.pv = tree[m].entry.pv
<1> DEFINE R == EntryState(tree[m])
<1>0. Typed /\ EventsInv /\ Faithful(tree[m]) BY BaseParts DEF Known
<1>1. tree[m].ledger \subseteq AllEvents BY InAllEvents
<1>2. R.value = h.new /\ R.sv = EventVersion(h) BY <1>0, <1>1, EntryIsNewest, NewestUnique
<1>3. Clamp(m, R.sv) = R.sv BY <1>1, <1>2, Dated DEF IsNewest
<1>4. Clamp(m, tree[m].entry.pv) = tree[m].entry.pv BY Dated
<1>5. MergedRow(m) = [status |-> R.value, sv |-> R.sv, fval |-> "none",
                      pv |-> tree[m].entry.pv, stamp |-> FALSE, aged |-> FALSE]
      BY <1>3, <1>4 DEF MergedRow, NewRow
<1> QED BY <1>2, <1>5

\* An empty clone says nothing of the row.
LEMMA MergeNothing ==
  ASSUME NEW m \in Machine, tree[m].entry = NoTask
  PROVE  MergedRow(m) = row[m]
BY DEF MergedRow

\* A clone with the task has a newest event.
LEMMA NewestOfClone ==
  ASSUME Base, NEW m \in Machine, tree[m].entry # NoTask
  PROVE  \E h \in tree[m].ledger : IsNewest(h, tree[m].ledger)
BY BaseParts DEF Known, Faithful

\* The priority of a merged row.
LEMMA MergedPriority ==
  ASSUME Base, Dates, Agreed, NEW m \in Machine, MergeTasks(m), row'[m] # NoTask
  PROVE  \/ row[m] # NoTask /\ row'[m].pv = row[m].pv
         \/ tree[m].entry # NoTask /\ row'[m].pv = tree[m].entry.pv
<1>0. /\ Typed /\ row'[m] = MergedRow(m)
      /\ tree[m].ledger \subseteq ledger[m] /\ Booked(m) /\ Shows(m) /\ Filed(tree[m])
      BY BaseParts DEF MergeTasks, Typed, Known, Complete, Agreed, Clones
<1>1. CASE tree[m].entry = NoTask BY <1>0, <1>1, MergeNothing
<1>2. CASE tree[m].entry # NoTask /\ row[m] = NoTask
      BY <1>0, <1>2, MergeNew, NewestOfClone
<1>3. CASE tree[m].entry # NoTask /\ row[m] # NoTask
  <2>1. PICK h : IsNewest(h, tree[m].ledger) BY <1>3, NewestOfClone
  <2>2. LET new == MergedRow(m)
        IN Takes(m, new, h) \/ Repairs(m, new, h) \/ Keeps(m, new, h) \/ Waits(m, new, h)
        BY <1>0, <1>3, <2>1, MergeCases
  <2>3. row'[m].pv \in {row[m].pv, tree[m].entry.pv}
        BY <1>0, <2>2 DEF Takes, Repairs, Keeps, Waits, Raised
  <2> QED BY <1>3, <2>3
<1> QED BY <1>1, <1>2, <1>3

-----------------------------------------------------------------------------
\* The step of a machine that expires nothing, while the clocks are in step.
Moves(m) ==
  Next /\ Unmerged(m) /\ ~Expires(m) /\ UNCHANGED <<world, united>>

\* Every edit is at the next instant.
LEMMA TimeMoves ==
  ASSUME Base, Dates, NEW m \in Machine, Moves(m)
  PROVE  /\ Now \in Nat /\ Now' \in Nat /\ Now' >= Now /\ SameClocks'
         /\ Writes(m) \/ SetPriority(m) =>
              NextClock(m) = Now' /\ Now' > Now + 1
<1>0. Typed /\ SameClocks BY BaseParts
<1>1. Now \in Nat /\ Clock(m) = Now BY <1>0, InStep
<1>2. Min(Machine) \in Machine BY FirstWriter
<1>3. wall \in Nat /\ world' = world /\ world.lead[m] \in Nat
      /\ world.lead[Min(Machine)] = world.lead[m]
      BY <1>0, <1>2, WorldType DEF Moves, Typed, SameClocks
<1>4. ASSUME Writes(m) \/ SetPriority(m)
      PROVE  NextClock(m) = Now' /\ Now' = Now + 2
  <2>1. wall' = wall + 1 BY <1>4 DEF Writes, WriteStatus, SetPriority
  <2>2. Now' = 2 * (wall + 1 + world.lead[m]) BY <1>3, <2>1 DEF Now, Clock
  <2>3. Now = 2 * (wall + world.lead[m]) BY <1>1 DEF Clock
  <2>4. Now' = Now + 2 BY <1>3, <2>2, <2>3
  <2>5. last[m] \in Nat /\ last[m] + 1 <= Now' BY <1>0, <1>1, <2>4 DEF Dates, Typed
  <2>6. Max({Now', last[m] + 1}) = Now'
    <3>1. Now' \in Nat /\ last[m] + 1 \in Nat BY <1>1, <2>4, <2>5
    <3>2. Max({Now', last[m] + 1}) \in {Now', last[m] + 1}
          /\ Max({Now', last[m] + 1}) >= Now'
          BY <3>1, MaxOfTwo
    <3> QED BY <2>5, <3>1, <3>2
  <2> QED BY <2>2, <2>4, <2>6 DEF NextClock
<1>7. SameClocks' BY <1>0, <1>3 DEF SameClocks
<1>5. CASE Writes(m) \/ SetPriority(m)
  <2>1. NextClock(m) = Now' /\ Now' = Now + 2 BY <1>4, <1>5
  <2>2. Now' \in Nat /\ Now' > Now + 1 /\ Now' >= Now BY <1>1, <2>1
  <2> QED BY <1>1, <1>7, <2>1, <2>2
<1>6. CASE ~(Writes(m) \/ SetPriority(m))
  <2>1. wall' = wall
        BY <1>0, <1>6, StepKinds DEF Moves, Age, Purge, ImportLedger, MergeTasks, Export,
           Push, Record, Retreats
  <2>2. Now' = Now BY <1>3, <2>1 DEF Now, Clock
  <2>3. Now' \in Nat /\ Now' >= Now BY <1>1, <2>2
  <2> QED BY <1>1, <1>6, <1>7, <2>3
<1> QED BY <1>5, <1>6

\* What the write of an event n changes.
Wrote(m, n) ==
  /\ n \in Events /\ n.order = NextClock(m) /\ n.by = m
  /\ ledger'[m] = ledger[m] \cup {n} /\ last'[m] = NextClock(m)
  /\ row[m] # NoTask /\ row'[m] # NoTask
  /\ row'[m].status = n.new /\ row'[m].pv = row[m].pv
  /\ row'[m].sv = EventVersion(n)
  /\ ~row'[m].aged
  /\ remote' = remote /\ tree'[m] = tree[m] /\ phase'[m] = phase[m]
  /\ dirty'[m] /\ (fresh'[m] <=> phase[m] \in {"staged", "pushed"})
  /\ behind'[m] = behind[m] /\ ahead'[m] = ahead[m] /\ staged'[m] = staged[m]
  /\ unseen'[m] = unseen[m]

\* What each step changes of its machine.
LEMMA WriteUpdates ==
  ASSUME Typed, NEW m \in Machine, Writes(m)
  PROVE  \E n : Wrote(m, n)
<1>1. PICK s \in Status : WriteStatus(m, s) /\ row[m] # NoTask BY DEF Writes
<1> DEFINE n == [order |-> NextClock(m), by |-> m, old |-> row[m].status, new |-> s]
<1>2. row[m].status \in Status BY <1>1, RowStates DEF Rows
<1>3. n \in Events BY <1>2, ClockMoves DEF Events
<1>4. /\ ledger'[m] = ledger[m] \cup {n} /\ last'[m] = NextClock(m)
      /\ row'[m] = [status |-> s,
                    sv |-> [order |-> NextClock(m), by |-> m, ev |-> NextClock(m)],
                    fval |-> s, pv |-> row[m].pv, stamp |-> FALSE, aged |-> FALSE]
      /\ UNCHANGED <<remote, tree, phase, behind, ahead, staged, unseen>>
      /\ dirty'[m] /\ fresh'[m] = (phase[m] \in {"staged", "pushed"})
      BY <1>1 DEF WriteStatus, Typed, repo, cycle
<1>5. n.order = NextClock(m) /\ n.by = m /\ n.new = s OBVIOUS
<1> HIDE DEF n
<1>6. /\ row'[m].status = s /\ row'[m].pv = row[m].pv /\ ~row'[m].aged
      /\ row'[m].sv = [order |-> NextClock(m), by |-> m, ev |-> NextClock(m)]
      /\ remote' = remote /\ tree'[m] = tree[m] /\ phase'[m] = phase[m]
      /\ behind'[m] = behind[m] /\ ahead'[m] = ahead[m] /\ staged'[m] = staged[m]
      /\ unseen'[m] = unseen[m]
      BY <1>4
<1>7. row'[m].sv = EventVersion(n) BY <1>5, <1>6 DEF EventVersion
<1>9. row'[m] # NoTask
  <2>1. row[m] \in Rows /\ NextClock(m) \in Nat BY <1>1, RowStates, ClockMoves
  <2>2. row'[m] \in Rows BY <1>4, <2>1 DEF Rows, Versions
  <2> QED BY <2>2, NoTaskAssumption
<1>8. Wrote(m, n) BY <1>1, <1>3, <1>4, <1>5, <1>6, <1>7, <1>9 DEF Wrote
<1> QED BY <1>8

LEMMA PriorityUpdates ==
  ASSUME Typed, NEW m \in Machine, SetPriority(m)
  PROVE  /\ row[m] # NoTask /\ row'[m] # NoTask
         /\ row'[m].status = row[m].status /\ row'[m].sv = row[m].sv
         /\ row'[m].fval = row[m].fval /\ row'[m].aged = row[m].aged
         /\ row'[m].pv = [order |-> NextClock(m), by |-> m, val |-> 8 * NextClock(m) + m]
         /\ UNCHANGED <<ledger, remote, tree, phase, behind, ahead, staged, unseen>>
         /\ last'[m] = NextClock(m)
         /\ dirty'[m] /\ fresh'[m] = (phase[m] \in {"staged", "pushed"})
<1>1. row[m] # NoTask BY DEF SetPriority
<1>2. row[m] \in Rows BY <1>1, RowStates
<1>3. row'[m] = [row[m] EXCEPT !.pv = [order |-> NextClock(m), by |-> m,
                                       val |-> 8 * NextClock(m) + m]]
      BY DEF SetPriority, Typed
<1>4. /\ UNCHANGED <<ledger, remote, tree, phase, behind, ahead, staged, unseen>>
      /\ last'[m] = NextClock(m)
      /\ dirty'[m] /\ fresh'[m] = (phase[m] \in {"staged", "pushed"})
      BY DEF SetPriority, Typed, repo, cycle
<1>5. row'[m] \in Rows
  <2>1. [order |-> NextClock(m), by |-> m, val |-> 8 * NextClock(m) + m] \in Priorities
        BY ClockMoves, MachineNat DEF Priorities
  <2> QED BY <1>2, <1>3, <2>1 DEF Rows
<1> QED BY <1>1, <1>2, <1>3, <1>4, <1>5, NoTaskAssumption DEF Rows

LEMMA AgeUpdates ==
  ASSUME Typed, NEW m \in Machine, Age(m)
  PROVE  /\ row[m] # NoTask
         /\ row'[m].status = row[m].status /\ row'[m].sv = row[m].sv
         /\ row'[m].pv = row[m].pv
         /\ UNCHANGED <<ledger, last, remote, tree, phase, behind, ahead, staged, unseen,
                        dirty, fresh>>
         /\ ~dirty[m] /\ \A p \in Machine : phase[p] = "idle" /\ ~unseen[p]
<1>1. row[m] # NoTask BY DEF Age
<1>2. row[m] \in Rows BY <1>1, RowStates
<1>3. row'[m] = [row[m] EXCEPT !.aged = TRUE] BY DEF Age, Typed
<1>4. UNCHANGED <<ledger, last, remote, tree, phase, behind, ahead, staged, unseen,
                  dirty, fresh>>
      /\ ~dirty[m] /\ \A p \in Machine : phase[p] = "idle" /\ ~unseen[p]
      BY DEF Age, repo, cycle
<1> QED BY <1>1, <1>2, <1>3, <1>4 DEF Rows

LEMMA PurgeUpdates ==
  ASSUME Typed, NEW m \in Machine, Purge(m)
  PROVE  /\ row[m] # NoTask /\ row[m].status \in Hidden /\ row[m].aged
         /\ row'[m] = NoTask
         /\ UNCHANGED <<ledger, last, remote, tree, phase, behind, ahead, staged, unseen,
                        dirty, fresh>>
<1>1. row[m].status = "archived" /\ row[m] # NoTask BY DEF Purge
<1>2. row[m].status \in Status BY <1>1, RowStates DEF Rows
<1> QED BY <1>1, <1>2 DEF Purge, Typed, repo, cycle, Hidden

LEMMA RecordUpdates ==
  ASSUME Typed, NEW m \in Machine, Record(m)
  PROVE  /\ row'[m] # NoTask =>
              /\ row[m] # NoTask
              /\ row'[m].status = row[m].status /\ row'[m].sv = row[m].sv
              /\ row'[m].pv = row[m].pv
              /\ row'[m].aged => row[m].aged
         /\ UNCHANGED <<ledger, last, remote, tree, behind, ahead, staged, unseen>>
         /\ phase[m] = "pushed" /\ phase'[m] = "idle" /\ dirty'[m] = fresh[m]
<1>1. /\ UNCHANGED <<ledger, last, remote, tree, behind, ahead, staged, unseen>>
      /\ phase[m] = "pushed" /\ phase'[m] = "idle" /\ dirty'[m] = fresh[m]
      /\ row' = IF Stamps(m) THEN [row EXCEPT ![m] = Stamped(@)] ELSE row
      BY DEF Record, Typed, repo
<1>2. CASE Stamps(m)
  <2>1. row[m] # NoTask BY <1>2 DEF Stamps
  <2>2. row[m] \in Rows BY <2>1, RowStates
  <2>3. row'[m] = Stamped(row[m]) BY <1>1, <1>2 DEF Typed
  <2>4. row'[m] = [status |-> row[m].status, sv |-> row[m].sv, fval |-> row[m].fval,
                   pv |-> row[m].pv, stamp |-> TRUE, aged |-> FALSE]
        BY <2>2, <2>3 DEF Stamped, Rows
  <2> QED BY <1>1, <2>1, <2>4
<1>3. CASE ~Stamps(m) BY <1>1, <1>3
<1> QED BY <1>2, <1>3

\* Clones are trees, and their events are events of the system.
LEMMA CloneTypes ==
  ASSUME Typed
  PROVE  \A t \in Clones : t \in Trees /\ t.clock \in Nat /\ t.ledger \subseteq AllEvents
<1>1. \A t \in Clones : t \in Trees BY DEF Typed, Clones
<1> QED BY <1>1, InAllEvents DEF Trees, Clones

\* What is not from the future never will be.
LEMMA StillRecorded ==
  ASSUME Now \in Nat, Now' \in Nat, Now' >= Now, NEW v, v.order \in Nat, Recorded(v)
  PROVE  v.order <= Now' /\ Named(v)
BY DEF Recorded

\* Nothing gets a date from the future.
LEMMA StepDates ==
  ASSUME Base, Agreed, NEW m \in Machine, Moves(m)
  PROVE  Dates'
<1>0. Typed /\ Dates /\ Unmerged(m) BY BaseParts DEF Agreed, Moves
<1>1. /\ Now \in Nat /\ Now' \in Nat /\ Now' >= Now
      /\ Writes(m) \/ SetPriority(m) => NextClock(m) = Now'
      BY <1>0, TimeMoves
<1>2. ASSUME NEW v \in Priorities, Recorded(v) PROVE Recorded(v)'
  <2>1. v.order \in Nat BY DEF Priorities
  <2> QED BY <1>1, <1>2, <2>1, StillRecorded DEF Recorded, Named
<1>3. ASSUME NEW p \in Machine PROVE last'[p] <= Now'
  <2>1. last[p] \in Nat /\ last[p] <= Now BY <1>0 DEF Typed, Dates
  <2>2. CASE last'[p] = last[p] BY <1>1, <2>1, <2>2
  <2>3. CASE p # m BY <1>0, <2>2, <2>3, OthersApart DEF Apart
  <2>4. CASE p = m /\ Writes(m)
    <3>1. last'[p] = Now' BY <1>0, <1>1, <2>4, WriteUpdates DEF Wrote
    <3> QED BY <1>1, <3>1
  <2>5. CASE p = m /\ SetPriority(m)
    <3>1. last'[p] = Now' BY <1>0, <1>1, <2>5, PriorityUpdates
    <3> QED BY <1>1, <3>1
  <2>6. CASE p = m /\ ImportLedger(m)
    <3>1. last'[p] = Max({last[p], tree[p].clock}) BY <1>0, <2>6 DEF ImportLedger, Typed
    <3>2. tree[p].clock \in Nat /\ tree[p].clock <= Now
          BY <1>0, CloneTypes DEF Dates, Clones
    <3>3. last'[p] \in {last[p], tree[p].clock} BY <2>1, <3>1, <3>2, MaxOfTwo
    <3> QED BY <1>1, <2>1, <3>2, <3>3
  <2>7. CASE p = m /\ (Age(m) \/ Purge(m) \/ MergeTasks(m) \/ Export(m) \/ Push(m)
                       \/ Record(m) \/ Retreats(m))
    <3>1. last'[p] = last[p]
          BY <2>7 DEF Age, Purge, MergeTasks, Export, Push, Record, Retreats
    <3> QED BY <2>2, <3>1
  <2> QED BY <1>0, <2>3, <2>4, <2>5, <2>6, <2>7, StepKinds
<1>4. ASSUME NEW t \in Clones'
      PROVE  t.clock <= Now' /\ (t.entry # NoTask => Recorded(t.entry.pv)')
  <2>1. CASE t \in Clones
    <3>1. t.clock \in Nat /\ t.clock <= Now /\ (t.entry # NoTask => Recorded(t.entry.pv))
          BY <1>0, <2>1, CloneTypes DEF Dates
    <3>2. t.entry # NoTask => t.entry.pv \in Priorities
          BY <1>0, <2>1, CloneTypes DEF Trees, Entries
    <3> QED BY <1>1, <1>2, <3>1, <3>2
  <2>2. CASE t = Payload(m)
    <3>1. last[m] \in Nat /\ last[m] <= Now BY <1>0 DEF Typed, Dates
    <3>2. t.clock = last[m] BY <2>2 DEF Payload
    <3>3. t.entry # NoTask => row[m] # NoTask /\ t.entry.pv = row[m].pv
          BY <2>2 DEF Payload, Exports, EntryOf
    <3>4. row[m] # NoTask => row[m].pv \in Priorities /\ Recorded(row[m].pv)
          BY <1>0, RowStates DEF Rows, Dates
    <3> QED BY <1>1, <1>2, <3>1, <3>2, <3>3, <3>4
  <2> QED BY <1>0, <2>1, <2>2, ClonesCopied
<1>5. ASSUME NEW p \in Machine, row'[p] # NoTask
      PROVE  row'[p].pv.order <= Now' /\ Named(row'[p].pv)
  <2>1. row[p] # NoTask => row[p].pv \in Priorities /\ Recorded(row[p].pv)
        BY <1>0, RowStates DEF Rows, Dates
  <2>2. ASSUME NEW v \in Priorities, Recorded(v), row'[p].pv = v
        PROVE  row'[p].pv.order <= Now' /\ Named(row'[p].pv)
        BY <1>2, <2>2 DEF Recorded, Named
  <2>3. CASE row[p] # NoTask /\ row'[p].pv = row[p].pv BY <2>1, <2>2, <2>3
  <2>4. CASE p # m BY <1>0, <1>5, <2>3, <2>4, OthersApart DEF Apart, Still
  <2>5. CASE p = m /\ Writes(m) BY <1>0, <2>3, <2>5, WriteUpdates DEF Wrote
  <2>6. CASE p = m /\ SetPriority(m)
    <3>1. row'[p].pv = [order |-> NextClock(m), by |-> m, val |-> 8 * NextClock(m) + m]
          BY <1>0, <2>6, PriorityUpdates
    <3>2. NextClock(m) = Now' /\ NextClock(m) \in Nat /\ NextClock(m) > Clock(m) + 1
          /\ Clock(m) \in Nat
          BY <1>0, <1>1, <2>6, ClockMoves, WorldType
    <3> QED BY <3>1, <3>2 DEF Named, Key
  <2>7. CASE p = m /\ Age(m) BY <1>0, <2>3, <2>7, AgeUpdates
  <2>8. CASE p = m /\ Purge(m) BY <1>0, <1>5, <2>8, PurgeUpdates
  <2>9. CASE p = m /\ MergeTasks(m)
    <3>1. tree[m].entry # NoTask =>
            tree[m].entry.pv \in Priorities /\ Recorded(tree[m].entry.pv)
          BY <1>0 DEF Typed, Trees, Entries, Dates, Clones
    <3> QED BY <1>0, <1>5, <2>1, <2>2, <2>9, <3>1, MergedPriority
  <2>10. CASE p = m /\ Record(m) BY <1>0, <1>5, <2>3, <2>10, RecordUpdates
  <2>11. CASE p = m /\ (ImportLedger(m) \/ Export(m) \/ Push(m) \/ Retreats(m))
    <3>1. row'[p] = row[p] BY <2>11 DEF ImportLedger, Export, Push, Retreats
    <3> QED BY <1>5, <2>3, <3>1
  <2> QED BY <1>0, <2>4, <2>5, <2>6, <2>7, <2>8, <2>9, <2>10, <2>11, StepKinds
<1>6. \A t \in Clones' : t.clock <= Now' /\ (t.entry # NoTask => Recorded(t.entry.pv)')
      BY <1>4
<1> QED BY <1>3, <1>5, <1>6 DEF Dates, Recorded, Clones

LEMMA ImportUpdates ==
  ASSUME Typed, NEW m \in Machine, ImportLedger(m)
  PROVE  /\ ledger'[m] = ledger[m] \cup tree[m].ledger
         /\ UNCHANGED <<row, remote, tree, behind, ahead, staged, unseen, dirty, fresh>>
         /\ phase[m] = "fetched" /\ phase'[m] = "ledgered"
BY DEF ImportLedger, Typed, repo

LEMMA MergeUpdates ==
  ASSUME Base, NEW m \in Machine, MergeTasks(m)
  PROVE  /\ row'[m] = MergedRow(m) /\ ~Contradictory(tree[m])
         /\ UNCHANGED <<ledger, remote, tree, behind, ahead, staged, fresh>>
         /\ phase[m] = "ledgered" /\ phase'[m] = "merged"
         /\ unseen'[m] = behind[m]
         /\ dirty'[m] = (dirty[m] \/ row'[m] # row[m])
         /\ tree[m].ledger \subseteq ledger[m]
<1>1. Typed /\ Complete(m) BY BaseParts DEF Known
<1> QED BY <1>1 DEF MergeTasks, Typed, repo, Complete

LEMMA ExportUpdates ==
  ASSUME Typed, NEW m \in Machine, Export(m)
  PROVE  /\ tree'[m] = Payload(m) /\ ~ExportConflict(m)
         /\ UNCHANGED <<row, ledger, remote, behind, ahead, unseen, dirty>>
         /\ phase[m] = "merged" /\ dirty[m] /\ ~fresh'[m]
         /\ \/ /\ Payload(m) = tree[m] /\ ~staged[m] /\ ~ahead[m]
               /\ phase'[m] = "pushed" /\ ~staged'[m]
            \/ phase'[m] = "staged" /\ staged'[m]
BY DEF Export, Typed

LEMMA PushUpdates ==
  ASSUME Typed, NEW m \in Machine, Push(m)
  PROVE  /\ remote' = tree[m] /\ ~behind[m] /\ ~behind'[m] /\ unseen'[m] = unseen[m]
         /\ UNCHANGED <<row, ledger, tree, dirty, fresh>>
         /\ ~ahead'[m] /\ ~staged'[m]
         /\ phase[m] = "staged" /\ phase'[m] = "pushed"
BY DEF Push, Typed

\* What came in through a clone, and what a push left unseen, stays booked.
LEMMA StepBooked ==
  ASSUME Base, Agreed, NEW m \in Machine, Moves(m), NEW p \in Machine
  PROVE  Booked(p)'
<1>0. /\ Typed /\ Unmerged(m) /\ \A q \in Machine : Complete(q) /\ Accounted(q) /\ Booked(q)
      BY BaseParts DEF Agreed, Moves, Known
<1>1. CASE p # m
  <2>1. Apart(p) BY <1>0, <1>1, OthersApart
  <2> QED BY <1>0, <2>1 DEF Booked, Own, Apart, Still
<1>2. CASE p = m /\ Writes(m)
  <2>1. PICK n : Wrote(m, n) BY <1>0, <1>2, WriteUpdates
  <2> QED BY <1>0, <1>2, <2>1 DEF Wrote, Booked, Own
<1>3. CASE SetPriority(m) BY <1>0, <1>1, <1>3, PriorityUpdates DEF Booked, Own
<1>4. CASE Age(m) BY <1>0, <1>1, <1>4, AgeUpdates DEF Booked, Own
<1>5. CASE Purge(m) BY <1>0, <1>1, <1>5, PurgeUpdates DEF Booked, Own
<1>6. CASE ImportLedger(m) BY <1>0, <1>1, <1>6, ImportUpdates DEF Booked, Own
<1>7. CASE MergeTasks(m) BY <1>0, <1>1, <1>7, MergeUpdates DEF Booked, Own, Accounted
<1>8. CASE Export(m)
  <2>1. Payload(m).ledger = ledger[m] BY DEF Payload
  <2> QED BY <1>0, <1>1, <1>8, <2>1, ExportUpdates DEF Booked, Own
<1>9. CASE Push(m) BY <1>0, <1>1, <1>9, PushUpdates DEF Booked, Own, Complete
<1>10. CASE Record(m) BY <1>0, <1>1, <1>10, RecordUpdates DEF Booked, Own
<1>11. CASE Retreats(m) BY <1>0, <1>1, <1>11 DEF Retreats, Booked, Own, Complete
<1> QED BY <1>0, <1>1, <1>2, <1>3, <1>4, <1>5, <1>6, <1>7, <1>8, <1>9, <1>10, <1>11,
           StepKinds

-----------------------------------------------------------------------------
Arrives(m, new, h) ==
  /\ row[m] = NoTask
  /\ new.status = h.new /\ new.sv = EventVersion(h) /\ ~new.aged
  /\ new.pv = tree[m].entry.pv

Treated(m, new, h) ==
  /\ row[m] # NoTask
  /\ Takes(m, new, h) \/ Repairs(m, new, h) \/ Keeps(m, new, h) \/ Waits(m, new, h)

\* What the merge of a clone may make of the row.
LEMMA MergeOutcomes ==
  ASSUME Base, Agreed, NEW m \in Machine, MergeTasks(m)
  PROVE  \/ tree[m].entry = NoTask /\ row'[m] = row[m]
         \/ \E h \in tree[m].ledger :
              /\ tree[m].entry # NoTask /\ IsNewest(h, tree[m].ledger)
              /\ Arrives(m, row'[m], h) \/ Treated(m, row'[m], h)
<1>0. /\ Dates /\ Booked(m) /\ Shows(m) /\ Filed(tree[m])
      /\ row'[m] = MergedRow(m) /\ tree[m].ledger \subseteq ledger[m]
      BY MergeUpdates DEF Agreed, Clones
<1>1. CASE tree[m].entry = NoTask BY <1>0, <1>1, MergeNothing
<1>2. CASE tree[m].entry # NoTask
  <2>1. PICK h \in tree[m].ledger : IsNewest(h, tree[m].ledger) BY <1>2, NewestOfClone
  <2>2. CASE row[m] = NoTask
    <3>1. Arrives(m, row'[m], h) BY <1>0, <1>2, <2>1, <2>2, MergeNew DEF Arrives
    <3> QED BY <1>2, <2>1, <3>1
  <2>3. CASE row[m] # NoTask
    <3>1. LET new == MergedRow(m)
          IN Takes(m, new, h) \/ Repairs(m, new, h) \/ Keeps(m, new, h) \/ Waits(m, new, h)
          BY <1>0, <1>2, <2>1, <2>3, MergeCases
    <3>2. Treated(m, row'[m], h) BY <1>0, <2>3, <3>1 DEF Treated
    <3> QED BY <1>2, <2>1, <3>2
  <2> QED BY <2>2, <2>3
<1> QED BY <1>1, <1>2

\* The event a user writes is newer than all others.
LEMMA WrittenIsNewest ==
  ASSUME Base, Dates, NEW m \in Machine, Moves(m), Writes(m), NEW n, Wrote(m, n)
  PROVE  /\ Key(n) \in Nat /\ n \notin AllEvents
         /\ \A e \in AllEvents : Key(e) < Key(n)
         /\ Key(EventVersion(n)) = Key(n)
<1>0. Typed BY BaseParts
<1>1. n.order = Now' /\ Now' \in Nat /\ Now \in Nat /\ Now' > Now + 1 /\ n.by \in Machine
      BY TimeMoves DEF Wrote
<1>2. ASSUME NEW e \in AllEvents PROVE Key(e) < Key(n)
  <2>1. e.order \in Nat /\ e.by \in Machine /\ e.order <= Now
        BY <1>0, KeyTypes, Dated DEF Events
  <2>2. e.order < n.order BY <1>1, <2>1
  <2> QED BY <1>1, <2>1, <2>2, KeyIsUnique
<1>3. Key(n) \in Nat BY <1>1, KeyIsUnique
<1>4. n \notin AllEvents BY <1>2, <1>3
<1>5. Key(EventVersion(n)) = Key(n) BY DEF EventVersion, Key
<1> QED BY <1>2, <1>3, <1>4, <1>5

\* The newest event is not older than the row, and says what an equal row says.
LEMMA NewestAboveRow ==
  ASSUME Base, NEW m \in Machine, row[m] # NoTask, Shows(m),
         NEW h, IsNewest(h, ledger[m])
  PROVE  /\ Key(h) \in Nat /\ Key(row[m].sv) \in Nat /\ Key(h) >= Key(row[m].sv)
         /\ Key(h) = Key(row[m].sv) => row[m].status = h.new
<1>0. Typed /\ EventsInv /\ ledger[m] \subseteq AllEvents BY BaseParts, InAllEvents
<1>1. PICK g \in ledger[m] : g.new = row[m].status /\ Key(g) >= Key(row[m].sv)
      BY DEF Shows
<1>2. row[m].sv \in Versions BY <1>0, RowStates DEF Rows
<1>3. Key(g) \in Nat /\ Key(h) \in Nat /\ Key(row[m].sv) \in Nat /\ Key(h) >= Key(g)
      BY <1>0, <1>1, <1>2, KeyTypes DEF IsNewest
<1>4. ASSUME Key(h) = Key(row[m].sv) PROVE row[m].status = h.new
  <2>1. Key(g) = Key(h) BY <1>1, <1>3, <1>4
  <2>2. g = h BY <1>0, <2>1 DEF IsNewest, EventsInv, EventsUnique
  <2> QED BY <1>1, <2>2
<1> QED BY <1>1, <1>3, <1>4

\* A merged row says what an event as new as its version says.
LEMMA MergedShows ==
  ASSUME Base, Agreed, NEW m \in Machine, MergeTasks(m)
  PROVE  Shows(m)'
<1>0. /\ Typed /\ Shows(m) /\ Complete(m)
      /\ ledger'[m] = ledger[m] /\ Own(m)' = Own(m) /\ tree[m].ledger \subseteq ledger[m]
      /\ Own(m) \subseteq ledger[m] /\ ledger[m] \subseteq AllEvents
      BY BaseParts, MergeUpdates, InAllEvents DEF Agreed, Known, Own
<1>1. \A e \in ledger[m] : Key(e) \in Nat /\ Key(EventVersion(e)) = Key(e)
      BY <1>0, KeyTypes
<1>2. CASE row'[m] = row[m] BY <1>0, <1>2 DEF Shows
<1>3. ASSUME NEW h \in tree[m].ledger, IsNewest(h, tree[m].ledger), Arrives(m, row'[m], h)
      PROVE  Shows(m)'
  <2>1. ledger[m] \subseteq tree[m].ledger BY <1>0, <1>3 DEF Complete, Quiet, Arrives
  <2>2. \A e \in Own(m) : Key(e) <= Key(h) BY <1>0, <1>1, <1>3, <2>1 DEF IsNewest
  <2> QED BY <1>0, <1>1, <1>3, <2>2 DEF Arrives, Shows
<1>4. ASSUME NEW h \in tree[m].ledger, Treated(m, row'[m], h)
      PROVE  Shows(m)'
  <2>0. row[m] # NoTask /\ h \in ledger[m] BY <1>0, <1>4 DEF Treated
  <2>1. /\ \A e \in Own(m) : Key(e) <= Key(row[m].sv)
        /\ \E g \in ledger[m] : g.new = row[m].status /\ Key(g) >= Key(row[m].sv)
        BY <1>0, <2>0 DEF Shows
  <2>2. Key(row[m].sv) \in Nat BY <1>0, <2>0, RowStates, KeyTypes DEF Rows
  <2>3. CASE Takes(m, row'[m], h)
    <3>1. row'[m].status = h.new /\ Key(row'[m].sv) = Key(h) /\ Key(h) >= Key(row[m].sv)
          BY <1>1, <2>0, <2>3 DEF Takes
    <3>2. \A e \in Own(m) : Key(e) <= Key(h) BY <1>0, <1>1, <2>0, <2>1, <2>2, <3>1
    <3> QED BY <1>0, <1>1, <2>0, <3>1, <3>2 DEF Shows
  <2>4. CASE Repairs(m, row'[m], h)
    <3>1. row'[m].status = h.new /\ row'[m].sv = row[m].sv /\ IsNewest(h, ledger[m])
          BY <2>4 DEF Repairs
    <3>2. Key(h) >= Key(row[m].sv) BY <1>0, <2>0, <3>1, NewestAboveRow
    <3> QED BY <1>0, <2>0, <2>1, <3>1, <3>2 DEF Shows
  <2>5. CASE Keeps(m, row'[m], h) BY <1>0, <2>1, <2>5 DEF Keeps, Shows
  <2>6. CASE Waits(m, row'[m], h) BY <1>2, <2>6 DEF Waits
  <2> QED BY <1>4, <2>3, <2>4, <2>5, <2>6 DEF Treated
<1> QED BY <1>2, <1>3, <1>4, MergeOutcomes

\* Every row goes on saying so.
LEMMA StepShows ==
  ASSUME Base, Agreed, NEW m \in Machine, Moves(m), NEW p \in Machine
  PROVE  Shows(p)'
<1>0. /\ Typed /\ EventsInv /\ Unmerged(m) /\ Dates /\ Shows(p)
      /\ ledger[p] \subseteq AllEvents
      BY BaseParts, InAllEvents DEF Agreed, Moves
<1>1. CASE p # m BY <1>0, <1>1, OthersApart DEF Apart, Still, Shows, Own
<1>2. CASE p = m /\ Writes(m)
  <2>1. PICK n : Wrote(m, n) BY <1>0, <1>2, WriteUpdates
  <2>2. /\ Key(n) \in Nat /\ Key(row'[p].sv) = Key(n)
        /\ \A e \in ledger[p] : Key(e) \in Nat /\ Key(e) <= Key(n)
        BY <1>0, <1>2, <2>1, WrittenIsNewest, KeyTypes DEF Wrote
  <2>3. ledger'[p] = ledger[p] \cup {n} /\ row'[p].status = n.new
        BY <1>2, <2>1 DEF Wrote
  <2> QED BY <2>2, <2>3 DEF Shows, Own
<1>3. CASE SetPriority(m) BY <1>0, <1>1, <1>3, PriorityUpdates DEF Shows, Own
<1>4. CASE Age(m) BY <1>0, <1>1, <1>4, AgeUpdates DEF Shows, Own
<1>5. CASE Purge(m) BY <1>0, <1>1, <1>5, PurgeUpdates DEF Shows
<1>6. CASE p = m /\ ImportLedger(m)
  <2>1. Own(p)' = Own(p) BY <1>0, <1>6, OwnImported
  <2> QED BY <1>0, <1>6, <2>1, ImportUpdates DEF Shows
<1>7. CASE MergeTasks(m) BY <1>1, <1>7, MergedShows
<1>8. CASE Record(m) BY <1>0, <1>1, <1>8, RecordUpdates DEF Shows, Own
<1>9. CASE Export(m) \/ Push(m) \/ Retreats(m)
  <2>1. row'[m] = row[m] /\ ledger'[m] = ledger[m]
        BY <1>9 DEF Export, Push, Retreats
  <2> QED BY <1>0, <1>1, <2>1 DEF Shows, Own
<1> QED BY <1>0, <1>1, <1>2, <1>3, <1>4, <1>5, <1>6, <1>7, <1>8, <1>9, StepKinds

-----------------------------------------------------------------------------
LEMMA LedgersGrow ==
  ASSUME Base, NEW m \in Machine, Moves(m)
  PROVE  \A p \in Machine : ledger[p] \subseteq ledger'[p]
BY BaseParts, StepEvents DEF Moves, Remembers

\* A visible newest event is newer than a deletion.
LEMMA VisibleIsNewer ==
  ASSUME Base, NEW L, L \subseteq AllEvents, NEW h, IsNewest(h, L), NEW c \in L,
         h.new \notin Hidden, c.new \in Hidden
  PROVE  Key(h) > Key(c)
<1>0. Typed /\ EventsInv BY BaseParts
<1>1. h \in AllEvents /\ c \in AllEvents /\ Key(h) >= Key(c) /\ h # c BY DEF IsNewest
<1>2. Key(h) \in Nat /\ Key(c) \in Nat BY <1>0, <1>1, KeyTypes
<1>3. Key(h) # Key(c) BY <1>0, <1>1 DEF EventsInv, EventsUnique
<1> QED BY <1>1, <1>2, <1>3

\* What was safely deleted stays so.
LEMMA StepSafe ==
  ASSUME Base, Agreed, NEW m \in Machine, Moves(m), NEW c, Safe(c)
  PROVE  Safe(c)'
<1>0. /\ Typed /\ EventsInv /\ Unmerged(m) /\ Dates
      /\ c.new \in Hidden /\ \A p \in Machine : c \in ledger[p]
      BY BaseParts DEF Agreed, Moves, Safe, Spread
<1>1. \A p \in Machine : ledger[p] \subseteq ledger'[p] BY LedgersGrow
<1>2. \A t \in Clones' : c \in t.ledger
  <2> TAKE t \in Clones'
  <2>1. CASE t \in Clones BY <2>1 DEF Clones, Safe, Spread
  <2>2. CASE t = Payload(m) BY <1>0, <2>2 DEF Payload
  <2> QED BY <1>0, <2>1, <2>2, ClonesCopied
<1>3. Spread(c)'
  <2>1. remote' \in Clones' /\ \A p \in Machine : tree'[p] \in Clones' BY DEF Clones
  <2> QED BY <1>0, <1>1, <1>2, <2>1 DEF Spread
<1>4. ASSUME NEW p \in Machine, Visible(p)'
      PROVE  \E e \in ledger'[p] : e.new \notin Hidden /\ Key(e) > Key(c)
  <2>0. row'[p] # NoTask /\ row'[p].status \notin Hidden
        /\ c \in ledger[p] /\ ledger[p] \subseteq AllEvents
        BY <1>0, <1>4, InAllEvents DEF Visible
  <2>1. CASE row[p] # NoTask /\ row'[p].status = row[p].status
    <3>1. Visible(p) BY <2>0, <2>1 DEF Visible
    <3> QED BY <1>1, <3>1 DEF Safe
  <2>2. CASE p # m BY <1>0, <2>0, <2>1, <2>2, OthersApart DEF Apart, Still
  <2>3. CASE p = m /\ Writes(m)
    <3>1. PICK n : Wrote(m, n) BY <1>0, <2>3, WriteUpdates
    <3>2. Key(c) < Key(n) /\ Key(n) \in Nat /\ Key(c) \in Nat
          BY <1>0, <2>0, <2>3, <3>1, WrittenIsNewest, KeyTypes
    <3>3. n \in ledger'[p] /\ n.new \notin Hidden BY <2>0, <2>3, <3>1 DEF Wrote
    <3> QED BY <3>2, <3>3
  <2>4. CASE p = m /\ MergeTasks(m)
    <3>0. tree[m].ledger \subseteq ledger[m] /\ c \in tree[m].ledger
          /\ tree[m].ledger \subseteq AllEvents
          BY <2>4, MergeUpdates, InAllEvents DEF Safe, Spread
    <3>1. CASE row'[m] = row[m] BY <2>0, <2>1, <2>4, <3>1
    <3>2. ASSUME NEW h \in tree[m].ledger, IsNewest(h, tree[m].ledger), row'[m].status = h.new
          PROVE  \E e \in ledger'[p] : e.new \notin Hidden /\ Key(e) > Key(c)
      <4>1. Key(h) > Key(c) BY <1>0, <2>0, <2>4, <3>0, <3>2, VisibleIsNewer
      <4> QED BY <1>1, <2>0, <2>4, <3>0, <3>2, <4>1
    <3>3. ASSUME NEW h \in tree[m].ledger, Treated(m, row'[m], h), row'[m].status # h.new
          PROVE  row[m] # NoTask /\ row'[m].status = row[m].status
          BY <3>3 DEF Treated, Takes, Repairs, Keeps, Waits
    <3> QED BY <2>1, <2>4, <3>1, <3>2, <3>3, MergeOutcomes DEF Arrives
  <2>5. CASE p = m /\ SetPriority(m) BY <1>0, <2>1, <2>5, PriorityUpdates
  <2>6. CASE p = m /\ Age(m) BY <1>0, <2>1, <2>6, AgeUpdates
  <2>7. CASE p = m /\ Purge(m) BY <1>0, <2>0, <2>7, PurgeUpdates
  <2>8. CASE p = m /\ Record(m) BY <1>0, <2>0, <2>1, <2>8, RecordUpdates
  <2>9. CASE p = m /\ (ImportLedger(m) \/ Export(m) \/ Push(m) \/ Retreats(m))
    <3>1. row'[p] = row[p] BY <2>9 DEF ImportLedger, Export, Push, Retreats
    <3> QED BY <2>0, <2>1, <3>1
  <2> QED BY <1>0, <2>2, <2>3, <2>4, <2>5, <2>6, <2>7, <2>8, <2>9, StepKinds
<1> QED BY <1>0, <1>3, <1>4 DEF Safe

-----------------------------------------------------------------------------
LEMMA HasNewest ==
  ASSUME Base, NEW L, L \subseteq AllEvents, L # {}
  PROVE  \E h \in L : IsNewest(h, L)
<1>0. Typed /\ EventsBounded BY BaseParts
<1>1. PICK B \in Nat : Bounded(AllEvents, B) BY <1>0 DEF EventsBounded
<1>2. \A e \in L : Key(e) \in Nat /\ Key(e) <= 8 * B + 7
  <2> TAKE e \in L
  <2>1. e.order \in Nat /\ e.by \in Machine /\ e.order <= B
        BY <1>0, <1>1, KeyTypes DEF Events, Bounded
  <2> QED BY <2>1, KeyBound
<1>3. 8 * B + 7 \in Nat OBVIOUS
<1> QED BY <1>2, <1>3, NewestOfSet DEF IsNewest

\* What a merge shows, the ledger says.
LEMMA MergedCurrent ==
  ASSUME Base, Agreed, NEW m \in Machine, MergeTasks(m), Visible(m)',
         NEW g, IsNewest(g, ledger[m])
  PROVE  g.new \notin Hidden
<1>0. /\ Typed /\ EventsInv /\ Shows(m) /\ Booked(m) /\ Filed(tree[m]) /\ Complete(m)
      /\ tree[m].ledger \subseteq ledger[m] /\ ledger[m] \subseteq AllEvents
      /\ row'[m] # NoTask /\ row'[m].status \notin Hidden /\ g \in ledger[m]
      BY BaseParts, MergeUpdates, InAllEvents DEF Agreed, Clones, Known, Visible, IsNewest
<1>1. g \in tree[m].ledger => IsNewest(g, tree[m].ledger) BY <1>0 DEF IsNewest
<1>2. row[m] # NoTask /\ g \notin tree[m].ledger =>
        row[m].status = g.new /\ Key(row[m].sv) >= Key(g)
      BY <1>0, OwnDecides
<1>3. CASE tree[m].entry = NoTask /\ row'[m] = row[m]
  <2>1. CASE g \in tree[m].ledger
    <3>1. Safe(g) BY <1>0, <1>1, <1>3, <2>1 DEF Filed
    <3>2. Visible(m) BY <1>0, <1>3 DEF Visible
    <3>3. PICK e \in ledger[m] : Key(e) > Key(g) BY <3>1, <3>2 DEF Safe
    <3>4. Key(g) >= Key(e) /\ Key(e) \in Nat /\ Key(g) \in Nat
          BY <1>0, KeyTypes DEF IsNewest
    <3> QED BY <3>3, <3>4
  <2>2. CASE g \notin tree[m].ledger BY <1>0, <1>2, <1>3, <2>2
  <2> QED BY <2>1, <2>2
<1>4. ASSUME NEW h \in tree[m].ledger, IsNewest(h, tree[m].ledger), Arrives(m, row'[m], h)
      PROVE  g.new \notin Hidden
  <2>1. ledger[m] \subseteq tree[m].ledger BY <1>0, <1>4 DEF Complete, Quiet, Arrives
  <2>2. g = h BY <1>0, <1>1, <1>4, <2>1, NewestUnique
  <2> QED BY <1>0, <1>4, <2>2 DEF Arrives
<1>5. ASSUME NEW h \in tree[m].ledger, IsNewest(h, tree[m].ledger), Treated(m, row'[m], h)
      PROVE  g.new \notin Hidden
  <2>0. row[m] # NoTask BY <1>5 DEF Treated
  <2>1. g \in tree[m].ledger => g = h
    <3>1. tree[m].ledger \subseteq AllEvents BY <1>0
    <3> QED BY <1>0, <1>1, <1>5, <3>1, NewestUnique
  <2>2. CASE Takes(m, row'[m], h)
    <3>1. row'[m].status = h.new /\ Key(h) >= Key(row[m].sv) BY <2>2 DEF Takes
    <3>2. CASE g \notin tree[m].ledger
      <4>1. /\ Key(row[m].sv) >= Key(g) /\ Key(g) >= Key(h)
            /\ Key(g) \in Nat /\ Key(h) \in Nat /\ Key(row[m].sv) \in Nat
            BY <1>0, <1>2, <1>5, <2>0, <3>2, KeyTypes, RowStates DEF IsNewest, Rows
      <4>2. Key(g) = Key(h) BY <3>1, <4>1
      <4>3. g = h BY <1>0, <1>5, <4>2 DEF EventsInv, EventsUnique
      <4> QED BY <1>0, <3>1, <4>3
    <3> QED BY <1>0, <2>1, <3>1, <3>2
  <2>3. CASE Repairs(m, row'[m], h)
    <3>1. g = h /\ h.new \notin Hidden BY <1>0, <2>3, NewestUnique DEF Repairs
    <3> QED BY <3>1
  <2>4. CASE Keeps(m, row'[m], h)
    <3>1. row[m].status \notin Hidden /\ Key(row[m].sv) >= Key(h) BY <1>0, <2>4 DEF Keeps
    <3>2. CASE g = h
      <4>1. /\ Key(h) \in Nat /\ Key(row[m].sv) \in Nat /\ Key(h) >= Key(row[m].sv)
            /\ Key(h) = Key(row[m].sv) => row[m].status = h.new
            BY <1>0, <2>0, <3>2, NewestAboveRow
      <4>2. Key(h) = Key(row[m].sv) BY <3>1, <4>1
      <4> QED BY <3>1, <3>2, <4>1, <4>2
    <3> QED BY <1>2, <2>0, <2>1, <3>1, <3>2
  <2>5. CASE Waits(m, row'[m], h) BY <1>0, <2>5 DEF Waits
  <2> QED BY <1>5, <2>2, <2>3, <2>4, <2>5 DEF Treated
<1> QED BY <1>3, <1>4, <1>5, MergeOutcomes

\* The event a user writes is the newest of its ledger.
LEMMA WrittenDecides ==
  ASSUME Base, Dates, NEW m \in Machine, Moves(m), Writes(m), NEW n, Wrote(m, n),
         NEW h, IsNewest(h, ledger'[m])
  PROVE  h = n
<1>0. /\ Typed /\ ledger[m] \subseteq AllEvents /\ ledger'[m] = ledger[m] \cup {n}
      /\ h \in ledger'[m] /\ Key(h) >= Key(n)
      BY BaseParts, InAllEvents DEF Wrote, IsNewest
<1>1. Key(n) \in Nat /\ \A e \in AllEvents : Key(e) < Key(n) /\ Key(e) \in Nat
      BY <1>0, WrittenIsNewest, KeyTypes
<1> QED BY <1>0, <1>1

\* A merged row stays as hidden as its ledger.
LEMMA StepCurrent ==
  ASSUME Base, Agreed, NEW m \in Machine, Moves(m), NEW p \in Machine
  PROVE  Current(p)'
<1>0. Typed /\ Unmerged(m) /\ Dates /\ Current(p) /\ Booked(p) /\ Complete(p)
      BY BaseParts DEF Agreed, Moves, Known
<1>1. CASE p # m BY <1>0, <1>1, OthersApart DEF Apart, Still, Current, Visible
<1> SUFFICES ASSUME p = m, Visible(m)', phase'[m] = "merged" \/ ~unseen'[m],
                    NEW h, IsNewest(h, ledger'[m])
             PROVE  h.new \notin Hidden
    BY <1>1 DEF Current
<1>2. CASE Writes(m)
  <2>1. PICK n : Wrote(m, n) BY <1>0, <1>2, WriteUpdates
  <2>2. h = n BY <1>0, <1>2, <2>1, WrittenDecides
  <2> QED BY <2>1, <2>2 DEF Wrote, Visible
<1>3. CASE SetPriority(m) BY <1>0, <1>3, PriorityUpdates DEF Current, Visible
<1>4. CASE Age(m) BY <1>0, <1>4, AgeUpdates DEF Current, Visible
<1>5. CASE Purge(m) BY <1>0, <1>5, PurgeUpdates DEF Visible
<1>6. CASE ImportLedger(m)
  <2>1. ~unseen[m] /\ remote.ledger \subseteq ledger[m] BY <1>0, <1>6, ImportUpdates DEF Booked
  <2>2. ledger'[m] = ledger[m] BY <1>0, <1>6, <2>1, ImportUpdates DEF Complete
  <2> QED BY <1>0, <1>6, <2>1, <2>2, ImportUpdates DEF Current, Visible
<1>7. CASE MergeTasks(m)
  <2>1. ledger'[m] = ledger[m] BY <1>7, MergeUpdates
  <2> QED BY <1>7, <2>1, MergedCurrent
<1>8. CASE Record(m) BY <1>0, <1>8, RecordUpdates DEF Current, Visible
<1>9. CASE Export(m) BY <1>0, <1>9, ExportUpdates DEF Current, Visible
<1>10. CASE Push(m) BY <1>0, <1>10, PushUpdates DEF Current, Visible
<1>11. CASE Retreats(m) BY <1>0, <1>11 DEF Retreats, Current, Visible
<1> QED BY <1>0, <1>2, <1>3, <1>4, <1>5, <1>6, <1>7, <1>8, <1>9, <1>10, <1>11, StepKinds

\* When a retention window ends, everybody has the deletion.
LEMMA AgedIsSafe ==
  ASSUME Base, Agreed, NEW m \in Machine, Age(m), row[m].status \in Hidden
  PROVE  \E c \in ledger[m] : Key(c) >= Key(row[m].sv) /\ Safe(c)
<1>0. /\ Typed /\ row[m] # NoTask /\ ~dirty[m] /\ Complete(m) /\ Shows(m)
      /\ \A q \in Machine : ~unseen[q] /\ Booked(q) /\ Current(q) /\ Accounted(q)
      BY BaseParts, AgeUpdates DEF Agreed, Known
<1>1. PICK c \in ledger[m] : c.new = row[m].status /\ Key(c) >= Key(row[m].sv)
      BY <1>0 DEF Shows
<1>2. c \in remote.ledger BY <1>0 DEF Complete, Quiet
<1>3. \A q \in Machine : c \in ledger[q] /\ c \in tree[q].ledger
      BY <1>0, <1>2 DEF Booked, Accounted
<1>4. ASSUME NEW q \in Machine, Visible(q)
      PROVE  \E e \in ledger[q] : e.new \notin Hidden /\ Key(e) > Key(c)
  <2>1. ledger[q] \subseteq AllEvents /\ c \in ledger[q] BY <1>3, InAllEvents
  <2>2. PICK h \in ledger[q] : IsNewest(h, ledger[q]) BY <2>1, HasNewest
  <2>3. h.new \notin Hidden BY <1>0, <1>4, <2>2 DEF Current
  <2>4. Key(h) > Key(c) BY <1>1, <2>1, <2>2, <2>3, VisibleIsNewer
  <2> QED BY <2>3, <2>4
<1> QED BY <1>1, <1>2, <1>3, <1>4 DEF Safe, Spread

\* An aged tombstone stays one that nobody can miss.
LEMMA StepAged ==
  ASSUME Base, Agreed, NEW m \in Machine, Moves(m), NEW p \in Machine
  PROVE  AgedSafe(p)'
<1>0. Typed /\ Unmerged(m) /\ Dates /\ AgedSafe(p) BY BaseParts DEF Agreed, Moves
<1> SUFFICES ASSUME row'[p] # NoTask, row'[p].status \in Hidden, row'[p].aged
             PROVE  \E c \in ledger'[p] : Key(c) >= Key(row'[p].sv) /\ Safe(c)'
    BY DEF AgedSafe
<1>1. ASSUME NEW c \in ledger[p], Key(c) >= Key(row[p].sv), Safe(c), row'[p].sv = row[p].sv
      PROVE  \E d \in ledger'[p] : Key(d) >= Key(row'[p].sv) /\ Safe(d)'
  <2>1. c \in ledger'[p] /\ Safe(c)' BY <1>1, LedgersGrow, StepSafe
  <2> QED BY <1>1, <2>1
<1>2. CASE /\ row[p] # NoTask /\ row'[p].status = row[p].status
           /\ row'[p].sv = row[p].sv /\ row[p].aged
  <2>1. PICK c \in ledger[p] : Key(c) >= Key(row[p].sv) /\ Safe(c)
        BY <1>0, <1>2 DEF AgedSafe
  <2> QED BY <1>1, <1>2, <2>1
<1>3. CASE p # m BY <1>0, <1>2, <1>3, OthersApart DEF Apart, Still
<1>4. CASE p = m /\ Writes(m) BY <1>0, <1>4, WriteUpdates DEF Wrote
<1>5. CASE p = m /\ Age(m)
  <2>1. row[m].status \in Hidden /\ row'[m].sv = row[m].sv BY <1>0, <1>5, AgeUpdates
  <2> QED BY <1>1, <1>5, <2>1, AgedIsSafe
<1>6. CASE p = m /\ MergeTasks(m)
  <2>1. CASE row'[m] = row[m] BY <1>2, <1>6, <2>1
  <2>2. ASSUME NEW h, Treated(m, row'[m], h)
        PROVE  \/ row'[m] = row[m]
               \/ /\ row[m] # NoTask /\ row'[m].status = row[m].status
                  /\ row'[m].sv = row[m].sv /\ row[m].aged
        BY <1>6, <2>2 DEF Treated, Takes, Repairs, Keeps, Waits
  <2> QED BY <1>2, <1>6, <2>1, <2>2, MergeOutcomes DEF Arrives
<1>7. CASE p = m /\ SetPriority(m) BY <1>0, <1>2, <1>7, PriorityUpdates
<1>8. CASE p = m /\ Purge(m) BY <1>0, <1>8, PurgeUpdates
<1>9. CASE p = m /\ Record(m) BY <1>0, <1>2, <1>9, RecordUpdates
<1>10. CASE p = m /\ (ImportLedger(m) \/ Export(m) \/ Push(m) \/ Retreats(m))
  <2>1. row'[p] = row[p] BY <1>10 DEF ImportLedger, Export, Push, Retreats
  <2> QED BY <1>2, <2>1
<1> QED BY <1>0, <1>3, <1>4, <1>5, <1>6, <1>7, <1>8, <1>9, <1>10, StepKinds

-----------------------------------------------------------------------------
LEMMA EntryMerges ==
  ASSUME Base, NEW m \in Machine, MergeTasks(m), tree[m].entry # NoTask
  PROVE  row'[m] # NoTask
<1>1. Typed /\ EventsBounded /\ row'[m] = MergedRow(m) /\ ~Contradictory(tree[m])
      BY BaseParts, MergeUpdates
<1>2. CASE row[m] = NoTask
  <2>1. MergedRow(m) = NewRow(m, tree[m]) BY <1>2 DEF MergedRow
  <2>2. MergedRow(m) \in Rows BY <1>1, <1>2, <2>1, NewRowMerges DEF Merges
  <2> QED BY <1>1, <2>2, NoTaskAssumption
<1>3. CASE row[m] # NoTask
  <2>1. row[m] \in Rows BY <1>1, <1>3, RowStates
  <2>2. MergedRow(m) \in Rows BY <1>1, <2>1, MergedRows DEF Merges
  <2> QED BY <1>1, <2>2, NoTaskAssumption
<1> QED BY <1>2, <1>3

\* The authority of a row is the newest event of its ledger.
LEMMA AuthorityNewest ==
  ASSUME Base, NEW m \in Machine, row[m] # NoTask, NEW h, IsNewest(h, ledger[m])
  PROVE  Authority(m).value = h.new
<1>1. Typed /\ EventsInv /\ Sourced(row[m], ledger[m]) /\ ledger[m] \subseteq AllEvents
      BY BaseParts, InAllEvents DEF Known
<1> QED BY <1>1, AuthorityIsNewest, NewestUnique

\* What a merge hides for good, no machine can miss.
LEMMA MergedDropReady ==
  ASSUME Base, Agreed, NEW m \in Machine, MergeTasks(m), NEW g, IsNewest(g, ledger[m]),
         \/ row'[m] = NoTask
         \/ row'[m].status \in Hidden /\ row'[m].aged /\ g.new \in Hidden
  PROVE  Safe(g)
<1>0. /\ Typed /\ EventsInv /\ Shows(m) /\ AgedSafe(m) /\ Filed(tree[m]) /\ Complete(m)
      /\ tree[m].ledger \subseteq ledger[m] /\ ledger[m] \subseteq AllEvents
      /\ tree[m].ledger \subseteq AllEvents /\ g \in ledger[m]
      BY BaseParts, MergeUpdates, InAllEvents DEF Agreed, Clones, Known, IsNewest
<1>1. row[m] = NoTask \/ row[m].aged => IsNewest(g, tree[m].ledger)
      BY <1>0 DEF Complete, Quiet, IsNewest
<1>2. CASE tree[m].entry = NoTask /\ row'[m] = row[m]
      BY <1>0, <1>1, <1>2 DEF Filed
<1>3. CASE tree[m].entry # NoTask
  <2>0. row'[m] # NoTask BY <1>3, EntryMerges
  <2>1. row'[m].status \in Hidden /\ row'[m].aged /\ g.new \in Hidden BY <2>0
  <2>2. ASSUME NEW h \in tree[m].ledger, IsNewest(h, tree[m].ledger), Keeps(m, row'[m], h),
               row[m] # NoTask
        PROVE  Safe(g)
    <3>1. row[m].status \in Hidden /\ row[m].aged /\ Key(row[m].sv) >= Key(h)
          BY <2>1, <2>2 DEF Keeps
    <3>2. g = h BY <1>0, <1>1, <2>2, <3>1, NewestUnique
    <3>3. PICK c \in ledger[m] : Key(c) >= Key(row[m].sv) /\ Safe(c)
          BY <1>0, <2>2, <3>1 DEF AgedSafe
    <3>4. /\ Key(c) \in Nat /\ Key(g) \in Nat /\ Key(row[m].sv) \in Nat
          /\ Key(g) >= Key(c)
          BY <1>0, <2>2, <3>3, KeyTypes, RowStates DEF IsNewest, Rows
    <3>5. Key(c) = Key(g) BY <3>1, <3>2, <3>3, <3>4
    <3>6. c = g BY <1>0, <3>3, <3>5 DEF EventsInv, EventsUnique
    <3> QED BY <3>3, <3>6
  <2>3. ASSUME NEW h \in tree[m].ledger, IsNewest(h, tree[m].ledger), Waits(m, row'[m], h)
        PROVE  Safe(g)
    <3>1. row[m].aged /\ h.new \notin Hidden BY <2>1, <2>3 DEF Waits
    <3>2. g = h BY <1>0, <1>1, <2>3, <3>1, NewestUnique
    <3> QED BY <2>1, <3>1, <3>2
  <2>4. ASSUME NEW h \in tree[m].ledger, Takes(m, row'[m], h) \/ Repairs(m, row'[m], h)
        PROVE  FALSE
        BY <2>1, <2>4 DEF Takes, Repairs
  <2> QED BY <1>3, <2>1, <2>2, <2>3, <2>4, MergeOutcomes DEF Arrives, Treated
<1> QED BY <1>2, <1>3, MergeOutcomes

\* Nor can it what the next export leaves out.
LEMMA StepDropReady ==
  ASSUME Base, Agreed, NEW m \in Machine, Moves(m), NEW p \in Machine
  PROVE  DropReady(p)'
<1>0. Typed /\ Unmerged(m) /\ Dates /\ DropReady(p) BY BaseParts DEF Agreed, Moves
<1> SUFFICES ASSUME phase'[p] = "merged", NEW h, IsNewest(h, ledger'[p]),
                    \/ row'[p] = NoTask
                    \/ /\ row'[p] # NoTask /\ row'[p].status \in Hidden /\ row'[p].aged
                       /\ h.new \in Hidden
             PROVE  Safe(h)'
    BY DEF DropReady
<1>1. Safe(h) => Safe(h)' BY StepSafe
<1>2. CASE p # m BY <1>0, <1>1, <1>2, OthersApart DEF Apart, Still, DropReady
<1>3. CASE p = m /\ Writes(m) BY <1>0, <1>3, WriteUpdates DEF Wrote
<1>4. CASE p = m /\ SetPriority(m) BY <1>0, <1>1, <1>4, PriorityUpdates DEF DropReady
<1>5. CASE Age(m) BY <1>0, <1>5, AgeUpdates
<1>6. CASE p = m /\ Purge(m)
  <2>1. /\ row[m] # NoTask /\ row[m].status \in Hidden /\ row[m].aged
        /\ row'[m] = NoTask /\ IsNewest(h, ledger[m]) /\ phase[m] = "merged"
        BY <1>0, <1>6, PurgeUpdates
  <2>2. Authority(m).value \in Hidden BY <2>1 DEF Moves, Expires
  <2>3. h.new \in Hidden BY <2>1, <2>2, AuthorityNewest
  <2> QED BY <1>0, <1>1, <1>6, <2>1, <2>3 DEF DropReady
<1>7. CASE p = m /\ MergeTasks(m)
  <2>1. IsNewest(h, ledger[m]) BY <1>7, MergeUpdates
  <2> QED BY <1>1, <1>7, <2>1, MergedDropReady
<1>8. CASE p = m /\ (ImportLedger(m) \/ Export(m) \/ Push(m) \/ Record(m) \/ Retreats(m))
  <2>1. phase'[m] # "merged"
        BY <1>0, <1>8, ImportUpdates, ExportUpdates, PushUpdates, RecordUpdates DEF Retreats
  <2> QED BY <1>8, <2>1
<1> QED BY <1>0, <1>2, <1>3, <1>4, <1>5, <1>6, <1>7, <1>8, StepKinds

\* A clone without the task has a deletion that nobody can miss.
LEMMA StepFiled ==
  ASSUME Base, Agreed, NEW m \in Machine, Moves(m), NEW t \in Clones'
  PROVE  Filed(t)'
<1>0. Typed /\ Unmerged(m) /\ DropReady(m) /\ Current(m) /\ ledger[m] \subseteq AllEvents
      BY BaseParts, InAllEvents DEF Agreed, Moves
<1>1. CASE t \in Clones
  <2>1. Filed(t) BY <1>1 DEF Agreed
  <2> QED BY <2>1, StepSafe DEF Filed
<1>2. CASE Export(m) /\ t = Payload(m)
  <2>0. /\ phase[m] = "merged" /\ tree'[m] = t /\ phase'[m] # "idle"
        /\ t.ledger = ledger[m] /\ t.entry = IF Exports(m) THEN EntryOf(m) ELSE NoTask
        BY <1>0, <1>2, ExportUpdates DEF Payload
  <2>1. ASSUME t.entry = NoTask, NEW h, IsNewest(h, t.ledger) PROVE Safe(h)'
    <3>1. CASE row[m] = NoTask
      <4>1. Safe(h) BY <1>0, <2>0, <2>1, <3>1 DEF DropReady
      <4> QED BY <4>1, StepSafe
    <3>2. CASE row[m] # NoTask /\ ~Exports(m)
      <4>1. row[m].status \in Hidden /\ row[m].aged BY <3>2 DEF Exports, Retained
      <4>2. Authority(m).value \in Hidden
            BY <2>0, <2>1, <3>2, <4>1 DEF Moves, Expires
      <4>3. h.new \in Hidden BY <2>0, <2>1, <3>2, <4>2, AuthorityNewest
      <4>4. Safe(h) BY <1>0, <2>0, <2>1, <3>2, <4>1, <4>3 DEF DropReady
      <4> QED BY <4>4, StepSafe
    <3>3. CASE Exports(m)
      <4>1. t.entry \in Entries
        <5>1. row[m] # NoTask BY <3>3 DEF Exports
        <5>2. row[m] \in Rows /\ Authority(m).value \in Status /\ Authority(m).sv \in Versions
              BY <5>1, BaseParts, RowStates, AuthorityOf
        <5> QED BY <2>0, <3>3, <5>2 DEF EntryOf, Entries, Rows
      <4> QED BY <2>1, <4>1, NoTaskAssumption
    <3> QED BY <3>1, <3>2, <3>3
  <2>2. ASSUME t.entry # NoTask PROVE t.entry.tomb <=> t.entry.status \in Hidden
    <3>1. /\ row[m] # NoTask /\ t.entry.status = Authority(m).value
          /\ t.entry.tomb = (row[m].status \in Hidden /\ Authority(m).value \in Hidden)
          BY <2>0, <2>2 DEF Exports, EntryOf
    <3>2. ASSUME row[m].status \notin Hidden PROVE Authority(m).value \notin Hidden
      <4>1. Sourced(row[m], ledger[m]) BY <3>1, BaseParts DEF Known
      <4>2. PICK h : IsNewest(h, ledger[m]) /\ Authority(m).value = h.new
            BY <3>1, <4>1, BaseParts, AuthorityIsNewest
      <4> QED BY <1>0, <2>0, <3>1, <3>2, <4>2 DEF Current, Visible
    <3> QED BY <3>1, <3>2
  <2> QED BY <2>1, <2>2 DEF Filed
<1> QED BY <1>0, <1>1, <1>2, ClonesCopied

-----------------------------------------------------------------------------
LEMMA ShownIsFiled ==
  ASSUME Base, Agreed, NEW t \in Clones, NEW h, IsNewest(h, t.ledger), h.new \notin Hidden
  PROVE  t.entry # NoTask /\ Key(t.entry.pv) \in Nat
<1>1. t.entry # NoTask BY DEF Agreed, Filed, Safe
<1>2. t.entry.pv \in Priorities BY <1>1, BaseParts, CloneTypes DEF Trees, Entries
<1> QED BY <1>1, <1>2, BaseParts, KeyTypes

\* No clone is behind itself.
LEMMA LeadsItself ==
  ASSUME Base, Agreed, NEW t \in Clones
  PROVE  Leads(t, t)
BY ShownIsFiled DEF Leads

\* Whoever leads a clone leads what that one leads, while the ledgers grow.
LEMMA LeadsOn ==
  ASSUME Base, Agreed, NEW a \in Clones, NEW b \in Clones, NEW c \in Clones,
         Leads(a, b), Leads(b, c), c.ledger \subseteq b.ledger, b.ledger \subseteq a.ledger
  PROVE  Leads(a, c)
<1> SUFFICES ASSUME NEW h, IsNewest(h, a.ledger), IsNewest(h, c.ledger), h.new \notin Hidden
             PROVE  Key(a.entry.pv) >= Key(c.entry.pv)
    BY DEF Leads
<1>1. IsNewest(h, b.ledger) BY DEF IsNewest
<1>2. Key(a.entry.pv) >= Key(b.entry.pv) /\ Key(b.entry.pv) >= Key(c.entry.pv)
      BY <1>1 DEF Leads
<1>3. Key(a.entry.pv) \in Nat /\ Key(b.entry.pv) \in Nat /\ Key(c.entry.pv) \in Nat
      BY <1>1, ShownIsFiled
<1> QED BY <1>2, <1>3

\* An entry has the status of the newest event and the priority of the row.
LEMMA ExportedEntry ==
  ASSUME Base, NEW m \in Machine, Exports(m)
  PROVE  /\ row[m] # NoTask /\ Payload(m).entry # NoTask
         /\ Payload(m).entry.pv = row[m].pv /\ Key(row[m].pv) \in Nat
<1>1. row[m] # NoTask BY DEF Exports
<1>2. row[m] \in Rows /\ Authority(m).value \in Status /\ Authority(m).sv \in Versions
      BY <1>1, BaseParts, RowStates, AuthorityOf
<1>3. EntryOf(m) \in Entries BY <1>2 DEF EntryOf, Entries, Rows
<1>4. Payload(m).entry = EntryOf(m) /\ EntryOf(m).pv = row[m].pv BY DEF Payload, EntryOf
<1>5. Key(row[m].pv) \in Nat BY <1>2, BaseParts, KeyTypes DEF Rows
<1> QED BY <1>1, <1>3, <1>4, <1>5, NoTaskAssumption

\* An export is not behind the clone it replaces.
LEMMA ExportLeads ==
  ASSUME Base, Agreed, NEW m \in Machine, Moves(m), Export(m), ~behind[m]
  PROVE  Leads(Payload(m), remote)
<1>0. /\ Typed /\ Merged(m) /\ Linked(m) /\ Complete(m) /\ Accounted(m)
      /\ phase[m] = "merged" /\ phase'[m] # "idle" /\ tree'[m] = Payload(m) /\ ~ExportConflict(m)
      /\ Payload(m).ledger = ledger[m] /\ remote \in Clones /\ tree[m] \in Clones
      BY BaseParts, ExportUpdates DEF Agreed, Known, Payload, Clones
<1> SUFFICES ASSUME NEW h, IsNewest(h, ledger[m]), IsNewest(h, remote.ledger), h.new \notin Hidden
             PROVE  Key(Payload(m).entry.pv) >= Key(remote.entry.pv)
    BY <1>0 DEF Leads
<1>1. IsNewest(h, tree[m].ledger) BY <1>0 DEF IsNewest, Complete, Accounted
<1>2. Key(tree[m].entry.pv) >= Key(remote.entry.pv) BY <1>0, <1>1 DEF Linked, Leads
<1>3. row[m] # NoTask BY <1>0, <1>1 DEF Merged
<1>4. Authority(m).value \notin Hidden BY <1>3, AuthorityNewest
<1>5. ~Blocked(row[m].status, Authority(m))
  <2> SUFFICES ASSUME Blocked(row[m].status, Authority(m)) PROVE FALSE OBVIOUS
  <2>1. ~Exports(m) BY <1>0 DEF ExportConflict
  <2>2. tree'[m].entry = NoTask BY <1>0, <2>1 DEF Payload
  <2> QED BY <1>0, <1>3, <1>4, <2>2 DEF Moves, Expires, Blocked
<1>6. Exports(m) BY <1>3, <1>4, <1>5 DEF Exports, Blocked
<1>7. Key(row[m].pv) >= Key(tree[m].entry.pv) BY <1>0, <1>1, <1>5 DEF Merged
<1>8. /\ Key(tree[m].entry.pv) \in Nat /\ Key(remote.entry.pv) \in Nat
      /\ Payload(m).entry.pv = row[m].pv /\ Key(row[m].pv) \in Nat
      BY <1>0, <1>1, <1>6, ShownIsFiled, ExportedEntry
<1> QED BY <1>2, <1>7, <1>8

\* Clone and remote stay in the order in which they follow.
LEMMA StepLinked ==
  ASSUME Base, Agreed, NEW m \in Machine, Moves(m), NEW p \in Machine
  PROVE  Linked(p)'
<1>0. /\ Typed /\ Unmerged(m) /\ Linked(p) /\ Linked(m) /\ Accounted(p) /\ Accounted(m)
      /\ remote \in Clones /\ tree[p] \in Clones /\ tree[m] \in Clones
      BY BaseParts DEF Agreed, Moves, Clones
<1>1. CASE /\ tree'[p] = tree[p] /\ remote' = remote /\ behind'[p] = behind[p]
           /\ ahead'[p] = ahead[p] /\ staged'[p] = staged[p]
      BY <1>0, <1>1 DEF Linked, Leads
<1>2. CASE p # m /\ Push(m)
  <2>1. /\ tree'[p] = tree[p] /\ ahead'[p] = ahead[p] /\ staged'[p] = staged[p]
        /\ behind'[p]
        BY <1>0, <1>2 DEF Push, Typed
  <2>2. remote' = tree[m] /\ ~behind[m] BY <1>0, <1>2, PushUpdates
  <2>3. ~ahead[p] /\ ~staged[p] => Leads(tree[m], tree[p])
        BY <1>0, <2>2, LeadsOn DEF Linked, Accounted
  <2> QED BY <2>1, <2>2, <2>3 DEF Linked, Leads
<1>3. CASE p # m /\ ~Push(m)
  <2>1. remote' = remote /\ behind'[p] = behind[p]
    <3>1. CASE Writes(m) BY <3>1 DEF Writes, WriteStatus, repo
    <3>2. CASE Fetch(m) BY <1>0, <1>3, <3>2 DEF Fetch, Typed
    <3>3. CASE RejectedPush(m) \/ ResetByHand(m)
          BY <1>0, <1>3, <3>3 DEF RejectedPush, ResetByHand, Typed
    <3>4. CASE \E s \in Status : SetStatus(m, s) \/ Confirm(m, s)
          BY <3>1, <3>4 DEF SetStatus, Confirm, Writes
    <3> QED BY <1>0, <1>3, <3>2, <3>3, <3>4 DEF Unmerged, LocalWrite, SyncStep, SetPriority,
            Age, Purge, ImportLedger, MergeTasks, RefuseMerge, EndCycle, Export, Record,
            FailedPush, Crash, repo
  <2> QED BY <1>0, <1>1, <1>3, <2>1, OthersApart DEF Apart, Still
<1>4. CASE p = m /\ Export(m)
  <2>1. /\ tree'[m] = Payload(m) /\ remote' = remote /\ behind'[m] = behind[m]
        /\ ahead'[m] = ahead[m]
        /\ ~ahead'[m] /\ ~staged'[m] => Payload(m) = tree[m] /\ ~staged[m] /\ ~ahead[m]
        BY <1>0, <1>4, ExportUpdates
  <2>2. ~behind[m] => Leads(Payload(m), remote) BY <1>4, ExportLeads
  <2>3. ~ahead'[m] /\ ~staged'[m] => Leads(remote, Payload(m)) BY <1>0, <2>1 DEF Linked
  <2> QED BY <1>4, <2>1, <2>2, <2>3 DEF Linked, Leads
<1>5. CASE p = m /\ Push(m)
  <2>1. remote' = tree[m] /\ tree'[m] = tree[m] BY <1>0, <1>5, PushUpdates
  <2>2. Leads(tree[m], tree[m]) BY <1>0, LeadsItself
  <2> QED BY <1>5, <2>1, <2>2 DEF Linked, Leads
<1>6. CASE p = m /\ Retreats(m)
  <2>1. Leads(remote, remote) BY <1>0, LeadsItself
  <2> QED BY <1>0, <1>6, <2>1 DEF Retreats, Linked, Leads
<1>7. CASE p = m /\ Writes(m) BY <1>0, <1>1, <1>7, WriteUpdates DEF Wrote
<1>8. CASE p = m /\ (SetPriority(m) \/ Age(m) \/ Purge(m) \/ ImportLedger(m) \/ Record(m))
      BY <1>0, <1>1, <1>8, PriorityUpdates, AgeUpdates, PurgeUpdates, ImportUpdates, RecordUpdates
<1>9. CASE p = m /\ MergeTasks(m) BY <1>1, <1>9, MergeUpdates
<1> QED BY <1>0, <1>2, <1>3, <1>4, <1>5, <1>6, <1>7, <1>8, <1>9, StepKinds

-----------------------------------------------------------------------------
LEMMA StepMerged ==
  ASSUME Base, Agreed, NEW m \in Machine, Moves(m), NEW p \in Machine
  PROVE  Merged(p)'
<1>0. /\ Typed /\ EventsInv /\ Unmerged(m) /\ Dates /\ Merged(p) /\ tree[m] \in Clones
      /\ tree[m].ledger \subseteq AllEvents /\ ledger[m] \subseteq AllEvents
      BY BaseParts, InAllEvents DEF Agreed, Moves, Clones
<1>1. CASE p # m
  <2>1. /\ row'[p] = row[p] /\ ledger'[p] = ledger[p] /\ tree'[p] = tree[p]
        /\ phase'[p] = phase[p]
        BY <1>0, <1>1, OthersApart DEF Apart, Still
  <2> QED BY <1>0, <2>1 DEF Merged, Authority
<1> SUFFICES ASSUME p = m, phase'[m] = "merged", NEW h, IsNewest(h, ledger'[m]),
                    IsNewest(h, tree'[m].ledger), h.new \notin Hidden
             PROVE  /\ row'[m] # NoTask
                    /\ \/ Blocked(row'[m].status, Authority(m)')
                       \/ Key(row'[m].pv) >= Key(tree'[m].entry.pv)
    BY <1>1 DEF Merged
<1>2. CASE Writes(m)
  <2>1. PICK n : Wrote(m, n) BY <1>0, <1>2, WriteUpdates
  <2>2. h = n /\ n \notin AllEvents BY <1>0, <1>2, <2>1, WrittenDecides, WrittenIsNewest
  <2>3. h \in tree[m].ledger BY <2>1 DEF Wrote, IsNewest
  <2> QED BY <1>0, <2>2, <2>3
<1>3. CASE SetPriority(m)
  <2>1. /\ row'[m] # NoTask /\ tree'[m] = tree[m]
        /\ row'[m].pv = [order |-> NextClock(m), by |-> m, val |-> 8 * NextClock(m) + m]
        BY <1>0, <1>3, PriorityUpdates
  <2>2. NextClock(m) = Now' /\ Now' \in Nat /\ Now \in Nat /\ Now' > Now + 1
        BY <1>0, <1>3, TimeMoves
  <2>3. tree[m].entry # NoTask BY <1>0, <2>1, ShownIsFiled
  <2>4. tree[m].entry.pv \in Priorities /\ tree[m].entry.pv.order <= Now
        BY <1>0, <2>3, CloneTypes DEF Dates, Recorded, Trees, Entries
  <2>5. /\ row'[m].pv.order = Now' /\ row'[m].pv.by \in Machine
        /\ tree[m].entry.pv.order \in Nat /\ tree[m].entry.pv.by \in Machine
        BY <2>1, <2>2, <2>4 DEF Priorities
  <2>6. Key(tree[m].entry.pv) < Key(row'[m].pv)
        /\ Key(tree[m].entry.pv) \in Nat /\ Key(row'[m].pv) \in Nat
        BY <2>2, <2>4, <2>5, KeyIsUnique
  <2> QED BY <2>1, <2>6
<1>4. CASE Purge(m)
  <2>1. /\ row[m] # NoTask /\ row[m].status \in Hidden /\ row'[m] = NoTask
        /\ IsNewest(h, ledger[m])
        BY <1>0, <1>4, PurgeUpdates
  <2>2. Authority(m).value \notin Hidden BY <2>1, AuthorityNewest
  <2> QED BY <2>1, <2>2 DEF Moves, Expires
<1>5. CASE MergeTasks(m)
  <2>1. /\ tree'[m] = tree[m] /\ ledger'[m] = ledger[m]
        /\ IsNewest(h, ledger[m]) /\ IsNewest(h, tree[m].ledger)
        BY <1>5, MergeUpdates
  <2>2. tree[m].entry # NoTask /\ Key(tree[m].entry.pv) \in Nat
        BY <1>0, <2>1, ShownIsFiled
  <2>3. row'[m] # NoTask BY <1>5, <2>2, EntryMerges
  <2>4. PICK g \in tree[m].ledger : /\ IsNewest(g, tree[m].ledger)
                                    /\ Arrives(m, row'[m], g) \/ Treated(m, row'[m], g)
        BY <1>5, <2>2, MergeOutcomes
  <2>5. g = h BY <1>0, <2>1, <2>4, NewestUnique
  <2>6. CASE Waits(m, row'[m], g) /\ row[m] # NoTask
    <3>1. row'[m] = row[m] /\ Authority(m).value \notin Hidden
          BY <2>1, <2>6, AuthorityNewest DEF Waits
    <3>2. Blocked(row[m].status, Authority(m)) BY <2>6, <3>1 DEF Waits
    <3>3. Authority(m)' = Authority(m) BY <2>1, <3>1 DEF Authority
    <3> QED BY <2>3, <3>1, <3>2, <3>3
  <2>7. CASE Arrives(m, row'[m], g)
    <3>1. Key(row'[m].pv) >= Key(tree'[m].entry.pv) BY <2>1, <2>2, <2>7 DEF Arrives
    <3> QED BY <2>3, <3>1
  <2>8. CASE Takes(m, row'[m], g) \/ Repairs(m, row'[m], g) \/ Keeps(m, row'[m], g)
    <3>1. Key(row'[m].pv) >= Key(tree'[m].entry.pv)
          BY <2>1, <2>8 DEF Takes, Repairs, Keeps, Raised
    <3> QED BY <2>3, <3>1
  <2> QED BY <2>4, <2>6, <2>7, <2>8 DEF Treated
<1>6. CASE Age(m) \/ ImportLedger(m) \/ Export(m) \/ Push(m) \/ Record(m) \/ Retreats(m)
  <2>1. phase'[m] # "merged"
        BY <1>0, <1>6, AgeUpdates, ImportUpdates, ExportUpdates, PushUpdates, RecordUpdates
        DEF Retreats
  <2> QED BY <2>1
<1> QED BY <1>0, <1>2, <1>3, <1>4, <1>5, <1>6, StepKinds

\* What one clone holds of a row, a clone that leads it holds as well.
LEMMA HoldsOn ==
  ASSUME Base, Agreed, NEW p \in Machine, Visible(p), NEW a \in Clones, NEW b \in Clones,
         Leads(a, b), b.ledger \subseteq a.ledger, ledger[p] \subseteq b.ledger, Holds(p, b)
  PROVE  Holds(p, a)
<1>0. /\ Typed /\ EventsInv /\ Shows(p) /\ row[p] # NoTask /\ row[p].status \notin Hidden
      /\ a.ledger \subseteq AllEvents
      BY BaseParts, CloneTypes DEF Agreed, Visible
<1>1. PICK f \in ledger[p] : f.new = row[p].status /\ Key(f) >= Key(row[p].sv)
      BY <1>0 DEF Shows
<1>2. f \in a.ledger /\ f \in b.ledger BY <1>1
<1>3. PICK g \in a.ledger : IsNewest(g, a.ledger) BY <1>0, <1>2, HasNewest
<1>4. row[p].sv \in Versions /\ row[p].pv \in Priorities BY <1>0, RowStates DEF Rows
<1>5. /\ Key(g) \in Nat /\ Key(f) \in Nat /\ Key(row[p].sv) \in Nat /\ Key(g) >= Key(f)
      /\ Key(row[p].pv) \in Nat
      BY <1>0, <1>2, <1>3, <1>4, KeyTypes DEF IsNewest
<1>6. CASE g # f
  <2>1. Key(g) # Key(f) BY <1>0, <1>2, <1>6 DEF EventsInv, EventsUnique
  <2>2. Key(g) > Key(row[p].sv) BY <1>1, <1>5, <2>1
  <2> QED BY <2>2 DEF Holds
<1>7. CASE \E e \in b.ledger : Key(e) > Key(row[p].sv) BY <1>7 DEF Holds
<1>8. CASE g = f /\ b.entry # NoTask /\ Key(b.entry.pv) >= Key(row[p].pv)
  <2>1. IsNewest(g, b.ledger) /\ g.new \notin Hidden
        BY <1>0, <1>1, <1>2, <1>3, <1>8 DEF IsNewest
  <2>2. Key(a.entry.pv) >= Key(b.entry.pv) BY <1>3, <2>1 DEF Leads
  <2>3. a.entry # NoTask /\ Key(a.entry.pv) \in Nat /\ Key(b.entry.pv) \in Nat
        BY <1>3, <2>1, ShownIsFiled
  <2>4. Key(a.entry.pv) >= Key(row[p].pv) BY <1>5, <1>8, <2>2, <2>3
  <2> QED BY <2>3, <2>4 DEF Holds
<1> QED BY <1>6, <1>7, <1>8 DEF Holds

\* An export takes the row's priority along.
LEMMA ExportTells ==
  ASSUME Base, Agreed, NEW m \in Machine, Export(m), Visible(m)
  PROVE  /\ Holds(m, Payload(m))
         /\ phase'[m] = "pushed" => Holds(m, remote)
<1>0. /\ Typed /\ row[m] # NoTask /\ row[m].status \notin Hidden /\ Linked(m)
      /\ Complete(m) /\ Accounted(m) /\ phase[m] = "merged"
      /\ remote \in Clones /\ tree[m] \in Clones
      BY BaseParts, ExportUpdates DEF Agreed, Visible, Known, Clones
<1>1. Exports(m) BY <1>0 DEF Exports
<1>2. Holds(m, Payload(m)) BY <1>1, ExportedEntry DEF Holds
<1>3. ASSUME phase'[m] = "pushed" PROVE Holds(m, remote)
  <2>1. Payload(m) = tree[m] /\ ~staged[m] /\ ~ahead[m] BY <1>0, <1>3, ExportUpdates
  <2>2. Payload(m).ledger = ledger[m] BY DEF Payload
  <2>3. ledger[m] \subseteq tree[m].ledger /\ tree[m].ledger \subseteq remote.ledger
        BY <1>0, <2>1, <2>2 DEF Accounted
  <2>4. Leads(remote, tree[m]) /\ Holds(m, tree[m]) BY <1>0, <1>2, <2>1 DEF Linked
  <2> QED BY <1>0, <2>3, <2>4, HoldsOn
<1> QED BY <1>2, <1>3

\* A clean machine has told the remote its priority.
LEMMA StepTold ==
  ASSUME Base, Agreed, NEW m \in Machine, Moves(m), NEW p \in Machine
  PROVE  Told(p)'
<1>0. /\ Typed /\ Unmerged(m) /\ Told(p) /\ Complete(p) /\ Accounted(p)
      /\ remote \in Clones /\ tree[m] \in Clones
      BY BaseParts DEF Agreed, Moves, Known, Clones
<1>1. CASE p # m /\ remote' = remote
  <2>1. /\ row'[p] = row[p] /\ tree'[p] = tree[p] /\ phase'[p] = phase[p]
        /\ dirty'[p] = dirty[p] /\ fresh'[p] = fresh[p]
        BY <1>0, <1>1, OthersApart DEF Apart, Still
  <2> QED BY <1>0, <1>1, <2>1 DEF Told, Visible, Holds
<1>2. ASSUME Push(m), Visible(p), ledger[p] \subseteq remote.ledger, Holds(p, remote)
      PROVE  Holds(p, tree[m])
  <2>1. Leads(tree[m], remote) /\ remote.ledger \subseteq tree[m].ledger
        BY <1>0, <1>2, PushUpdates, BaseParts DEF Agreed, Linked, Accounted
  <2> QED BY <1>0, <1>2, <2>1, HoldsOn
<1>3. Visible(p) /\ ~dirty[p] => ledger[p] \subseteq remote.ledger /\ Holds(p, remote)
      BY <1>0 DEF Complete, Quiet, Told
<1>4. CASE p # m /\ Push(m)
  <2>1. /\ row'[p] = row[p] /\ tree'[p] = tree[p] /\ phase'[p] = phase[p]
        /\ dirty'[p] = dirty[p] /\ fresh'[p] = fresh[p] /\ remote' = tree[m]
        BY <1>0, <1>4, OthersApart, PushUpdates DEF Apart, Still
  <2>2. ASSUME Visible(p), ~fresh[p], phase[p] = "pushed" PROVE Holds(p, tree[m])
    <3>1. ledger[p] \subseteq remote.ledger BY <1>0, <2>2 DEF Complete, Accounted
    <3> QED BY <1>0, <1>2, <1>4, <2>2, <3>1 DEF Told
  <2>3. Visible(p) /\ ~dirty[p] => Holds(p, tree[m]) BY <1>2, <1>3, <1>4
  <2> QED BY <1>0, <2>1, <2>2, <2>3 DEF Told, Visible, Holds
<1>5. CASE p # m /\ ~Push(m)
  <2>1. remote' = remote
    <3>1. CASE Writes(m) BY <3>1 DEF Writes, WriteStatus, repo
    <3> QED BY <1>0, <1>5, <3>1, StepKinds, PriorityUpdates, AgeUpdates, PurgeUpdates,
               ImportUpdates, MergeUpdates, ExportUpdates, RecordUpdates DEF Retreats
  <2> QED BY <1>1, <1>5, <2>1
<1>6. CASE p = m /\ Writes(m)
  <2>1. PICK n : Wrote(m, n) BY <1>0, <1>6, WriteUpdates
  <2> QED BY <1>6, <2>1 DEF Wrote, Told
<1>7. CASE p = m /\ SetPriority(m) BY <1>0, <1>7, PriorityUpdates DEF Told
<1>8. CASE p = m /\ Age(m) BY <1>0, <1>8, AgeUpdates DEF Told, Visible, Holds
<1>9. CASE p = m /\ Purge(m) BY <1>0, <1>9, PurgeUpdates DEF Told, Visible
<1>10. CASE p = m /\ ImportLedger(m)
  <2>1. /\ row' = row /\ remote' = remote /\ dirty' = dirty /\ phase'[m] = "ledgered"
        BY <1>0, <1>10, ImportUpdates
  <2> QED BY <1>0, <1>10, <2>1 DEF Told, Visible, Holds
<1>11. CASE p = m /\ MergeTasks(m)
  <2>1. /\ remote' = remote /\ phase'[m] = "merged"
        /\ ~dirty'[m] => ~dirty[m] /\ row'[m] = row[m]
        BY <1>11, MergeUpdates
  <2> QED BY <1>0, <1>11, <2>1 DEF Told, Visible, Holds
<1>12. CASE p = m /\ Export(m)
  <2>1. /\ row' = row /\ remote' = remote /\ tree'[m] = Payload(m) /\ dirty'[m]
        BY <1>0, <1>12, ExportUpdates
  <2>2. Visible(m) => /\ Holds(m, Payload(m))
                      /\ phase'[m] = "pushed" => Holds(m, remote)
        BY <1>12, ExportTells
  <2> QED BY <1>12, <2>1, <2>2 DEF Told, Visible, Holds
<1>13. CASE p = m /\ Push(m)
  <2>1. /\ row' = row /\ remote' = tree[m] /\ dirty' = dirty /\ fresh' = fresh
        /\ phase[m] = "staged" /\ phase'[m] = "pushed"
        BY <1>0, <1>13, PushUpdates
  <2>2. Visible(m) /\ ~dirty[m] => Holds(m, tree[m]) BY <1>2, <1>3, <1>13
  <2>3. Visible(m) /\ ~fresh[m] => Holds(m, tree[m]) BY <1>0, <1>13, <2>1 DEF Told
  <2> QED BY <1>13, <2>1, <2>2, <2>3 DEF Told, Visible, Holds
<1>14. CASE p = m /\ Record(m)
  <2>1. /\ remote' = remote /\ phase[m] = "pushed" /\ phase'[m] = "idle" /\ dirty'[m] = fresh[m]
        /\ row'[m] # NoTask => /\ row[m] # NoTask /\ row'[m].status = row[m].status
                               /\ row'[m].sv = row[m].sv /\ row'[m].pv = row[m].pv
        BY <1>0, <1>14, RecordUpdates
  <2> QED BY <1>0, <1>14, <2>1 DEF Told, Visible, Holds
<1>15. CASE p = m /\ Retreats(m) BY <1>0, <1>15 DEF Retreats, Told, Visible, Holds
<1> QED BY <1>0, <1>4, <1>5, <1>6, <1>7, <1>8, <1>9, <1>10, <1>11, <1>12, <1>13, <1>14,
           <1>15, StepKinds

-----------------------------------------------------------------------------
(* From the parts to the agreement.                                        *)

\* Two priorities of one key have one value.
LEMMA NamedAlike ==
  ASSUME NEW v \in Priorities, NEW w \in Priorities, Named(v), Named(w), Key(v) = Key(w)
  PROVE  v.val = w.val
<1>1. v.order \in Nat /\ w.order \in Nat /\ v.by \in Machine /\ w.by \in Machine
      BY DEF Priorities
<1>2. v.order = w.order BY <1>1, KeyIsUnique
<1>3. FirstRow.pv.order = 0 BY DEF FirstRow
<1>4. CASE v = FirstRow.pv
  <2>1. w.order = 0 BY <1>2, <1>3, <1>4
  <2>2. w = FirstRow.pv BY <2>1 DEF Named
  <2> QED BY <1>4, <2>2
<1>5. CASE w = FirstRow.pv
  <2>1. v.order = 0 BY <1>2, <1>3, <1>5
  <2>2. v = FirstRow.pv BY <2>1 DEF Named
  <2> QED BY <1>5, <2>2
<1>6. CASE v.val = Key(v) /\ w.val = Key(w) BY <1>6
<1> QED BY <1>4, <1>5, <1>6 DEF Named

\* A settled machine has the remote's ledger and its clone is the remote.
LEMMA SettledIsRemote ==
  ASSUME Base, Agreed, NEW m \in Machine, Settled(m)
  PROVE  tree[m] = remote /\ ledger[m] = remote.ledger
<1>1. Booked(m) /\ ~unseen[m] /\ ~ahead[m] /\ ~staged[m] /\ ~dirty[m]
      BY DEF Agreed, Settled
<1>2. tree[m] = remote /\ remote.ledger \subseteq ledger[m] BY <1>1 DEF Booked
<1>3. ledger[m] \subseteq remote.ledger
      BY <1>1, BaseParts DEF Known, Complete, Quiet
<1> QED BY <1>2, <1>3

\* If the newest event hides the task, a settled machine does not show it.
LEMMA HiddenIsHidden ==
  ASSUME Base, Agreed, NEW m \in Machine, Settled(m),
         NEW h, IsNewest(h, remote.ledger), h.new \in Hidden
  PROVE  ~Visible(m)
<1>1. IsNewest(h, ledger[m]) /\ ~unseen[m] BY SettledIsRemote DEF Settled
<1> QED BY <1>1 DEF Agreed, Current

\* If it does not, the machine shows its status and the remote's priority.
LEMMA ShowsTheRemote ==
  ASSUME Base, Agreed, NEW m \in Machine, Settled(m), ~Pending(m),
         NEW h, IsNewest(h, remote.ledger), h.new \notin Hidden
  PROVE  Shown(m) = <<h.new, remote.entry.pv.val>>
<1>1. tree[m] = remote /\ ledger[m] = remote.ledger BY SettledIsRemote
<1>2. remote \in Clones /\ remote.entry # NoTask /\ Key(remote.entry.pv) \in Nat
      BY ShownIsFiled DEF Clones
<1>3. /\ Typed /\ EventsInv /\ EventsBounded /\ remote.ledger \subseteq AllEvents
      BY <1>2, BaseParts, CloneTypes DEF EventsInv
<1>4. IsNewest(h, ledger[m]) /\ IsNewest(h, tree[m].ledger) BY <1>1
<1>5. MergedRow(m) = row[m] BY DEF Pending
<1>6. row[m] # NoTask
  <2> SUFFICES ASSUME row[m] = NoTask PROVE FALSE OBVIOUS
  <2>1. MergedRow(m) = NewRow(m, tree[m]) BY <1>1, <1>2 DEF MergedRow
  <2>2. NewRow(m, tree[m]) \in Rows BY <1>1, <1>2, <1>3, NewRowMerges DEF Merges
  <2> QED BY <1>5, <2>1, <2>2, NoTaskAssumption
<1>7. ~Blocked(row[m].status, Authority(m)) /\ Authority(m).value = h.new
      BY <1>4, <1>6, AuthorityNewest DEF Pending
<1>8. Dates /\ Booked(m) /\ Shows(m) /\ Filed(tree[m]) /\ Told(m) BY <1>1, <1>2 DEF Agreed
<1>9. /\ Key(h) \in Nat /\ Key(row[m].sv) \in Nat /\ Key(h) >= Key(row[m].sv)
      /\ Key(h) = Key(row[m].sv) => row[m].status = h.new
      BY <1>4, <1>6, <1>8, NewestAboveRow
<1>10. LET new == MergedRow(m)
       IN Takes(m, new, h) \/ Repairs(m, new, h) \/ Keeps(m, new, h) \/ Waits(m, new, h)
       BY <1>1, <1>2, <1>4, <1>6, <1>8, MergeCases
<1>11. Takes(m, row[m], h) \/ Repairs(m, row[m], h) \/ Keeps(m, row[m], h)
       \/ Waits(m, row[m], h)
       BY <1>5, <1>10
<1>12. ~Repairs(m, row[m], h) BY DEF Repairs
<1>13. ~Waits(m, row[m], h) BY <1>7 DEF Waits
<1>14. row[m].status = h.new /\ Key(row[m].sv) >= Key(h) /\ Raised(m, row[m])
  <2>1. CASE Takes(m, row[m], h)
    <3>1. Key(EventVersion(h)) = Key(h) BY <1>3, KeyTypes DEF IsNewest
    <3> QED BY <1>9, <2>1, <3>1 DEF Takes
  <2>2. CASE Keeps(m, row[m], h) BY <1>9, <2>2 DEF Keeps
  <2> QED BY <1>11, <1>12, <1>13, <2>1, <2>2
<1>15. Visible(m) BY <1>6, <1>14 DEF Visible
<1>16. Key(row[m].pv) >= Key(remote.entry.pv) BY <1>1, <1>14 DEF Raised
<1>17. Key(remote.entry.pv) >= Key(row[m].pv)
  <2>1. Holds(m, remote) BY <1>8, <1>15 DEF Told, Settled
  <2>2. \A e \in remote.ledger : ~(Key(e) > Key(row[m].sv))
    <3> TAKE e \in remote.ledger
    <3>1. Key(h) >= Key(e) /\ Key(e) \in Nat BY <1>3, KeyTypes DEF IsNewest
    <3> QED BY <1>9, <1>14, <3>1
  <2> QED BY <2>1, <2>2 DEF Holds
<1>18. row[m].pv \in Priorities /\ remote.entry.pv \in Priorities
       BY <1>2, <1>3, <1>6, RowStates DEF Typed, Rows, Trees, Entries
<1>19. Key(row[m].pv) = Key(remote.entry.pv)
       BY <1>2, <1>3, <1>16, <1>17, <1>18, KeyTypes
<1>20. Named(row[m].pv) /\ Named(remote.entry.pv)
       BY <1>2, <1>6, <1>8 DEF Dates, Recorded
<1>21. row[m].pv.val = remote.entry.pv.val BY <1>18, <1>19, <1>20, NamedAlike
<1> QED BY <1>14, <1>15, <1>21 DEF Shown

\* The parts give the agreement.
LEMMA AgreedIsQuiet ==
  ASSUME Base, Agreed, \A m \in Machine : Settled(m) /\ ~Pending(m),
         NEW m \in Machine, NEW p \in Machine
  PROVE  Shown(m) = Shown(p)
<1>1. remote \in Clones BY DEF Clones
<1>2. remote.ledger \subseteq AllEvents BY <1>1, BaseParts, CloneTypes
<1>3. CASE remote.ledger = {}
  <2>1. ASSUME NEW q \in Machine PROVE row[q] = NoTask
        BY <1>3, SettledIsRemote DEF Agreed, Shows
  <2> QED BY <2>1 DEF Shown, Visible
<1>4. CASE remote.ledger # {}
  <2>1. PICK h : IsNewest(h, remote.ledger) BY <1>2, <1>4, HasNewest
  <2>2. CASE h.new \in Hidden
        BY <2>1, <2>2, HiddenIsHidden DEF Shown
  <2>3. CASE h.new \notin Hidden
        BY <2>1, <2>3, ShowsTheRemote
  <2> QED BY <2>2, <2>3
<1> QED BY <1>3, <1>4

-----------------------------------------------------------------------------
\* What the machines agree by, while their clocks are in step and nothing
\* was merged by hand or overruled.
Agreement == Regular => Agreed

\* The first row and entry are of their types.
LEMMA FirstStates == FirstRow \in Rows /\ FirstTree.entry \in Entries
<1>1. Min(Machine) \in Machine BY FirstWriter
<1>2. FirstRow \in Rows
      BY <1>1, StatusAssumption DEF FirstRow, Rows, Versions, Priorities
<1>3. FirstRow.sv \in Versions /\ FirstRow.pv \in Priorities BY <1>2 DEF Rows
<1>4. FirstTree.entry \in Entries BY <1>3, StatusAssumption DEF FirstTree, Entries
<1> QED BY <1>2, <1>4

\* They hold at first, and every step keeps them.
LEMMA InitAgreed ==
  ASSUME Init
  PROVE  Agreed
<1>1. Typed /\ \A m \in Machine : ledger[m] = {Created} BY InitTyped
<1>2. /\ Created.order = 0 /\ Created.by = Min(Machine) /\ Created.new = "todo"
      /\ Key(FirstRow.sv) = Key(Created) /\ FirstRow.status = "todo"
      /\ FirstRow.sv.order = 0 /\ FirstRow.pv.order = 0 /\ FirstRow.aged = FALSE
      BY DEF Created, FirstRow, Key
<1>3. Key(Created) \in Nat /\ Key(FirstRow.pv) \in Nat
      BY <1>2, FirstWriter, KeyIsUnique DEF FirstRow
<1>4. /\ remote = FirstTree /\ \A m \in Machine : tree[m] = FirstTree
      /\ FirstTree.ledger = {Created} /\ FirstTree.clock = 0
      /\ FirstTree.entry.pv = FirstRow.pv /\ FirstTree.entry.status = "todo"
      /\ FirstTree.entry.tomb = FALSE
      BY DEF Init, FirstTree
<1>5. "todo" \notin Hidden BY DEF Hidden
<1>6. FirstTree.entry # NoTask /\ FirstRow # NoTask BY FirstStates, NoTaskAssumption
<1>7. /\ \A m \in Machine : /\ row[m] = FirstRow /\ last[m] = 0 /\ phase[m] = "idle"
                            /\ ~behind[m] /\ ~ahead[m] /\ ~staged[m] /\ ~dirty[m]
      BY DEF Init
<1>8. \A t \in Clones : t = FirstTree BY <1>4 DEF Clones
<1>9. Now \in Nat
  <2>1. Clock(Min(Machine)) \in Nat BY <1>1, FirstWriter, WorldType
  <2> QED BY <2>1 DEF Now
<1>10. Recorded(FirstRow.pv) BY <1>2, <1>9 DEF Recorded, Named
<1>11. Dates
       BY <1>4, <1>7, <1>8, <1>9, <1>10 DEF Dates
<1>12. \A t \in Clones : Filed(t) BY <1>4, <1>5, <1>6, <1>8 DEF Filed
<1>13. ASSUME NEW m \in Machine
       PROVE  Booked(m) /\ Shows(m) /\ Current(m) /\ AgedSafe(m) /\ DropReady(m)
              /\ Linked(m) /\ Merged(m) /\ Told(m)
  <2>1. Booked(m) BY <1>1, <1>4, <1>7, <1>13 DEF Booked
  <2>2. Shows(m) BY <1>1, <1>2, <1>3, <1>7, <1>13 DEF Shows, Own
  <2>3. Current(m) BY <1>1, <1>2, <1>5, <1>13 DEF Current, IsNewest
  <2>4. AgedSafe(m) BY <1>2, <1>5, <1>7, <1>13 DEF AgedSafe
  <2>5. DropReady(m) /\ Merged(m) BY <1>7, <1>13 DEF DropReady, Merged
  <2>6. Linked(m) BY <1>3, <1>4, <1>13 DEF Linked, Leads
  <2>7. Told(m) BY <1>3, <1>4, <1>6, <1>7, <1>13 DEF Told, Holds
  <2> QED BY <2>1, <2>2, <2>3, <2>4, <2>5, <2>6, <2>7
<1> QED BY <1>11, <1>12, <1>13 DEF Agreed

LEMMA StepAgreed ==
  ASSUME Base, Agreed, NEW m \in Machine, Moves(m)
  PROVE  Agreed'
<1>1. Dates' BY StepDates
<1>2. \A t \in Clones' : Filed(t)' BY StepFiled
<1>3. ASSUME NEW p \in Machine
      PROVE  (Booked(p) /\ Shows(p) /\ Current(p) /\ AgedSafe(p)
              /\ DropReady(p) /\ Linked(p) /\ Merged(p) /\ Told(p))'
      BY StepBooked, StepShows, StepCurrent, StepAged, StepDropReady, StepLinked,
         StepMerged, StepTold
<1> QED BY <1>1, <1>2, <1>3 DEF Agreed

LEMMA StepAgreement ==
  ASSUME IInv, Histories, Agreement, [Next]_vars
  PROVE  Agreement'
<1>1. CASE UNCHANGED vars
  <2> USE <1>1 DEF vars
  <2>1. Now' = Now /\ Clones' = Clones /\ Regular' = Regular
        BY DEF Now, Clock, Clones, Regular, SameClocks
  <2>2. Dates' = Dates BY <2>1 DEF Dates, Recorded
  <2>3. \A h : Safe(h)' = Safe(h) BY DEF Safe, Spread, Visible
  <2>4. \A t : Filed(t)' = Filed(t) BY <2>3 DEF Filed
  <2>5. ASSUME NEW m \in Machine
        PROVE  /\ Booked(m)' = Booked(m) /\ Shows(m)' = Shows(m)
               /\ Current(m)' = Current(m) /\ AgedSafe(m)' = AgedSafe(m)
    <3>1. Booked(m)' = Booked(m) /\ Shows(m)' = Shows(m) BY DEF Booked, Shows, Own
    <3>2. Current(m)' = Current(m) BY DEF Current, Visible
    <3>3. AgedSafe(m)' = AgedSafe(m) BY <2>3 DEF AgedSafe
    <3> QED BY <3>1, <3>2, <3>3
  <2>6. ASSUME NEW m \in Machine
        PROVE  /\ DropReady(m)' = DropReady(m) /\ Linked(m)' = Linked(m)
               /\ Merged(m)' = Merged(m) /\ Told(m)' = Told(m)
    <3>1. DropReady(m)' = DropReady(m) BY <2>3 DEF DropReady
    <3>2. Linked(m)' = Linked(m) BY DEF Linked, Leads
    <3>3. Merged(m)' = Merged(m) BY DEF Merged, Authority
    <3>4. Told(m)' = Told(m) BY DEF Told, Holds, Visible
    <3> QED BY <3>1, <3>2, <3>3, <3>4
  <2> QED BY <2>1, <2>2, <2>4, <2>5, <2>6 DEF Agreement, Agreed
<1>2. CASE Next
  <2> SUFFICES ASSUME Regular' PROVE Agreed' BY DEF Agreement
  <2>1. PICK m \in Machine : Unmerged(m) /\ UNCHANGED united /\ ~Expires(m) /\ ~overruled
        BY <1>2 DEF Next, Regular
  <2>2. Moves(m) BY <1>2, <2>1 DEF Moves, Next
  <2>3. SameClocks BY <1>2 DEF Next, Regular, SameClocks
  <2>4. ~united BY <2>1 DEF Regular
  <2>5. Base BY <2>3, <2>4 DEF Base, Histories
  <2>6. Agreed BY <2>1, <2>3, <2>4 DEF Agreement, Regular
  <2> QED BY <2>2, <2>5, <2>6, StepAgreed
<1> QED BY <1>1, <1>2

(* Whatever users edit on several machines between two steps of their      *)
(* sync cycles, and whichever cycles crash, lose the push or race: when    *)
(* the last cycle is done and no merge, repair or conflict is left, all    *)
(* machines show the same status and priority (the merge of task_files,    *)
(* purge_done and export_task_files).                                      *)
THEOREM QuietMachinesAgree == Spec => []QuietAgree
<1>1. IInv /\ Histories /\ Agreement => QuietAgree
  <2> SUFFICES ASSUME IInv, Histories, Agreement, SameClocks, ~united, ~overruled,
                      \A m \in Machine : Settled(m),
                      \A m \in Machine : ~Pending(m),
                      NEW m \in Machine, NEW p \in Machine
               PROVE  Shown(m) = Shown(p)
      BY DEF QuietAgree
  <2>1. Base /\ Agreed BY DEF Base, Histories, Agreement, Regular
  <2> QED BY <2>1, AgreedIsQuiet
<1>2. Init => Histories /\ Agreement BY InitHistories, InitAgreed DEF Agreement
<1>3. IInv /\ Histories /\ Agreement /\ [Next]_vars /\ IInv' => Histories' /\ Agreement'
      BY StepHistories, StepAgreement DEF IInv
<1> QED BY <1>1, <1>2, <1>3, SyncInvariant, PTL DEF Spec
=============================================================================
