--------------------------- MODULE DebateWake_proofs ---------------------------
(***************************************************************************)
(* Proofs about DebateWake, for any sessions, handovers, triggers and      *)
(* bounds.                                                                 *)
(***************************************************************************)
EXTENDS DebateWake, FiniteSetTheorems, WellFoundedInduction, TLAPS

\* Where a launcher is in a dispatch; the pump also scans between two of them.
DispatchPCs == {"resolve", "snapshot", "claim", "launch", "receipt", "mark", "close"}
OwnerKnown  == DispatchPCs \ {"resolve"}

JobRow ==
  [pc : DispatchPCs \cup {"idle", "scan"}, t : 0 .. posted,
   s : Sessions \cup {Nobody}, gen : 0 .. generation, pid : Nat]

JobOK(j) ==
  /\ j \in JobRow
  /\ j.pc \in DispatchPCs => j.t \in 1 .. posted
  /\ j.pc \in OwnerKnown => j.s \in Sessions

JobsTyped == job \in [Launchers -> JobRow] /\ \A l \in Launchers : JobOK(job[l])

ScanTyped == scan \subseteq [t : 1 .. posted, queued : BOOLEAN, past : BOOLEAN]

\* Processes are told apart by their pids.
PidsUnique == \A p, q \in procs : p.pid = q.pid => p = q

TypeInv ==
  /\ TypeOK /\ JobsTyped /\ ScanTyped
  /\ IsFiniteSet(procs) /\ IsFiniteSet(children)

\* Nothing is known of a trigger before it is posted; a claim is in force only
\* for the owner of the role; as long as the role never changed hands every
\* claim is the owner's, and until it may have returned to a former owner the
\* owner's claim on a trigger is the youngest one.
ClaimsOfOwners ==
  /\ \A t \in Triggers : t > posted => answered[t] = {} /\ latest[t] = Nobody
  /\ \A s \in Sessions, t \in Triggers :
       LET state == claim[s][t].state
       IN  /\ state = "none" => claim[s][t].requeues = 0
           /\ state # "none" => t \leq posted
           /\ state = "active" => s = seat
           /\ state # "none" /\ generation = 1 => s = seat
           /\ state # "none" /\ s = seat /\ generation \leq 2 => latest[t] = s

\* No WATERMARK and no owner's cursor is beyond what somebody vouched for.
CursorsVouched == watermark \leq vouched /\ \A s \in Sessions : cursor[s] \leq vouched

\* A launcher about to start a worker, and a worker that runs, have a claim.
WorkersClaimed ==
  /\ \A p \in procs : claim[p.s][p.t].state # "none"
  /\ \A l \in Launchers : At(l, "launch") => claim[job[l].s][job[l].t].state # "none"

\* A launcher on its way to close a trigger found it settled, and it stays so.
Settled(s, t) ==
  Answered(t) \/ claim[s][t].state = "completed" \/ Exhausted(s, t)

ClosingIsSettled == \A l \in Launchers : At(l, "close") => Settled(job[l].s, job[l].t)

\* The hook of a session that does not have it installed never runs.
HookInstalled == ~hooked => job["hook"] = Idle

\* The pump is the only launcher, nothing was lost, no former owner is back.
Alone == ~hooked /\ faults = 0 /\ generation \leq 2

\* The pump is at the receipt of the worker of session s on trigger t.
Recording(s, t) == At("pump", "receipt") /\ job["pump"].s = s /\ job["pump"].t = t

\* The receipt of a worker that runs names it, or is just about to: that is why
\* the sweep retires the claim of no worker that runs, and why the pump, alone,
\* never launches beside one.
RunsKnown(p) ==
  /\ IF Recording(p.s, p.t) THEN job["pump"].pid = p.pid
     ELSE receipt[p.s][p.t].pid = p.pid
  /\ claim[p.s][p.t].state = "retired" => p.s # seat \/ Answered(p.t)
  /\ At("pump", "launch") => ~(job["pump"].s = p.s /\ job["pump"].t = p.t)

OneByOne ==
  Alone =>
    /\ \A p \in procs : RunsKnown(p)
    /\ \A p, q \in procs : p.s = q.s /\ p.t = q.t => p = q
    /\ \A s \in Sessions :
         /\ At("pump", "resolve") /\ s = seat =>
              claim[s][job["pump"].t].state # "active"
         /\ job["pump"].pc \in {"snapshot", "claim"} /\ job["pump"].s = seat =>
              claim[seat][job["pump"].t].state # "active"
    /\ At("pump", "launch") /\ claim[job["pump"].s][job["pump"].t].state = "retired" =>
         job["pump"].s # seat \/ Answered(job["pump"].t)

SafetyInv ==
  /\ TypeInv /\ PidsUnique /\ ClaimsOfOwners /\ CursorsVouched /\ WorkersClaimed
  /\ ClosedIsSettled /\ ClosingIsSettled /\ OpenIsQueued /\ HookInstalled /\ OneByOne

--------------------------------------------------------------------------------
(* Processes and their pids                                                *)

\* A non-empty set of naturals has a least element.
LEMMA LeastInSet ==
  ASSUME NEW S \in SUBSET Nat, S # {}
  PROVE  \E i \in S : \A j \in S : i \leq j
<1>1. PICK i \in S : \A j \in S : ~(<<j, i>> \in OpToRel(<, Nat))
      BY WFMin, NatLessThanWellFounded
<1>2. \A j \in S : ~(j < i) BY <1>1 DEF OpToRel
<1> QED BY <1>2

\* Everything some table, launcher or process names is a finite set of numbers.
LEMMA NamedFinite ==
  ASSUME TypeInv
  PROVE  /\ IsFiniteSet(AlivePids)
         /\ IsFiniteSet({job[l].pid : l \in Launchers})
         /\ IsFiniteSet({receipt[s][t].pid : s \in Sessions, t \in Triggers})
<1> USE WakeAssumption
<1>1. IsFiniteSet(AlivePids)
  <2> DEFINE f == [p \in procs |-> p.pid]
  <2>1. f \in Surjection(procs, AlivePids) BY DEF AlivePids, Surjection
  <2> QED BY <2>1, FS_Surjection DEF TypeInv
<1>2. IsFiniteSet({job[l].pid : l \in Launchers})
  <2> DEFINE f == [l \in Launchers |-> job[l].pid]
  <2>1. f \in Surjection(Launchers, {job[l].pid : l \in Launchers})
        BY DEF Surjection
  <2>2. IsFiniteSet(Launchers)
    <3>1. IsFiniteSet({"hook"}) BY FS_Singleton
    <3>2. Launchers = {"hook"} \cup {"pump"} BY DEF Launchers
    <3> QED BY <3>1, <3>2, FS_AddElement
  <2> QED BY <2>1, <2>2, FS_Surjection
<1>3. IsFiniteSet({receipt[s][t].pid : s \in Sessions, t \in Triggers})
  <2> DEFINE f == [k \in Sessions \X Triggers |-> receipt[k[1]][k[2]].pid]
             R == {receipt[s][t].pid : s \in Sessions, t \in Triggers}
  <2>1. f \in Surjection(Sessions \X Triggers, R)
    <3>1. \A k \in Sessions \X Triggers : f[k] \in R OBVIOUS
    <3>2. ASSUME NEW r \in R PROVE \E k \in Sessions \X Triggers : f[k] = r
      <4>1. PICK s \in Sessions, t \in Triggers : r = receipt[s][t].pid OBVIOUS
      <4>2. <<s, t>> \in Sessions \X Triggers /\ f[<<s, t>>] = r BY <4>1
      <4> QED BY <4>2
    <3>3. f \in [Sessions \X Triggers -> R] BY <3>1
    <3> HIDE DEF f, R
    <3> QED BY <3>2, <3>3 DEF Surjection
  <2>2. IsFiniteSet(Triggers) BY FS_Interval DEF Triggers
  <2>3. IsFiniteSet(Sessions \X Triggers) BY <2>2, FS_Product
  <2> QED BY <2>1, <2>3, FS_Surjection
<1> QED BY <1>1, <1>2, <1>3

\* The pid of a new process is a number no live process has.
LEMMA NewPidFresh ==
  ASSUME TypeInv
  PROVE  NewPid \in Nat \ {0} /\ NewPid \notin AlivePids
<1> DEFINE ofJobs     == {job[l].pid : l \in Launchers}
           ofReceipts == {receipt[s][t].pid : s \in Sessions, t \in Triggers}
           named      == AlivePids \cup children \cup ofJobs \cup ofReceipts
           n     == Cardinality(named)
           free  == (1 .. n + 1) \ named
<1>1. IsFiniteSet(named)
  <2>1. IsFiniteSet(AlivePids) /\ IsFiniteSet(ofJobs) /\ IsFiniteSet(ofReceipts)
        BY NamedFinite
  <2>2. IsFiniteSet(children) BY DEF TypeInv
  <2> HIDE DEF ofJobs, ofReceipts
  <2>3. IsFiniteSet(AlivePids \cup children) BY <2>1, <2>2, FS_Union
  <2>4. IsFiniteSet(AlivePids \cup children \cup ofJobs) BY <2>1, <2>3, FS_Union
  <2> QED BY <2>1, <2>4, FS_Union
<1> HIDE DEF named
<1>2. n \in Nat BY <1>1, FS_CardinalityType
<1> HIDE DEF n
<1>3. free # {}
  <2> SUFFICES ASSUME free = {} PROVE FALSE OBVIOUS
  <2>1. (1 .. n + 1) \in SUBSET named OBVIOUS
  <2>2. Cardinality(1 .. n + 1) \leq Cardinality(named) BY <1>1, <2>1, FS_Subset
  <2>3. Cardinality(1 .. n + 1) = n + 1 BY <1>2, FS_Interval
  <2> QED BY <1>2, <2>2, <2>3 DEF n
<1>4. free \in SUBSET Nat BY <1>2
<1>5. PICK i \in free : \A j \in free : i \leq j BY <1>3, <1>4, LeastInSet
<1>6. NewPid = CHOOSE x \in free : \A y \in free : x =< y
      BY DEF NewPid, Min, named, n
<1>7. NewPid \in free BY <1>5, <1>6
<1> QED BY <1>2, <1>7 DEF named

\* The census counts a subset of the finitely many keys.
LEMMA CensusType == TypeInv => Cardinality(LiveClaims) \in Nat
<1> SUFFICES ASSUME TypeInv PROVE Cardinality(LiveClaims) \in Nat OBVIOUS
<1>1. IsFiniteSet(Triggers) BY WakeAssumption, FS_Interval DEF Triggers
<1>2. IsFiniteSet(Sessions \X Triggers) BY <1>1, WakeAssumption, FS_Product
<1>3. LiveClaims \in SUBSET (Sessions \X Triggers) BY DEF LiveClaims
<1> QED BY <1>2, <1>3, FS_Subset, FS_CardinalityType

--------------------------------------------------------------------------------
(* Every table and every launcher stays well-typed                         *)

ClaimRow ==
  [state : {"none", "active", "completed", "retired"},
   requeues : 0 .. MaxRequeues, fresh : BOOLEAN]

\* The claims of one session, some of them retired.
LEMMA RetireFacts ==
  ASSUME TypeOK, NEW s \in Sessions, NEW T
  PROVE  /\ Retire(s, T) \in [Triggers -> ClaimRow]
         /\ \A t \in Triggers :
              /\ Retire(s, T)[t].requeues = claim[s][t].requeues
              /\ Retire(s, T)[t].state =
                   IF t \in T /\ claim[s][t].state = "active" THEN "retired"
                   ELSE claim[s][t].state
<1>1. \A t \in Triggers : claim[s][t] \in ClaimRow BY DEF TypeOK, ClaimRow
<1>2. ASSUME NEW t \in Triggers
      PROVE  /\ Ended(claim[s][t], "retired") \in ClaimRow
             /\ Ended(claim[s][t], "retired").state = "retired"
             /\ Ended(claim[s][t], "retired").requeues = claim[s][t].requeues
      BY <1>1 DEF Ended, ClaimRow
<1>3. \A t \in Triggers :
        Retire(s, T)[t] = IF t \in T /\ claim[s][t].state = "active"
                          THEN Ended(claim[s][t], "retired") ELSE claim[s][t]
      BY DEF Retire
<1>4. \A t \in Triggers : Retire(s, T)[t] \in ClaimRow BY <1>1, <1>2, <1>3
<1>5. Retire(s, T) \in [Triggers -> ClaimRow] BY <1>4 DEF Retire
<1>6. ASSUME NEW t \in Triggers
      PROVE  /\ Retire(s, T)[t].requeues = claim[s][t].requeues
             /\ Retire(s, T)[t].state =
                  IF t \in T /\ claim[s][t].state = "active" THEN "retired"
                  ELSE claim[s][t].state
      BY <1>1, <1>2, <1>3
<1> QED BY <1>5, <1>6

\* One launcher moves, or none, and the ledger and the generation only grow.
LEMMA JobMoves ==
  ASSUME TypeInv, posted' \in Nat, posted \leq posted',
         generation' \in Nat, generation \leq generation',
         \/ job' = job
         \/ \E l \in Launchers : \E j : job' = [job EXCEPT ![l] = j] /\ JobOK(j)'
  PROVE  JobsTyped'
<1>1. posted \in Nat /\ generation \in Nat BY WakeAssumption DEF TypeInv, TypeOK
<1>2. \A r : r \in JobRow => r \in JobRow' BY <1>1 DEF JobRow
<1>3. \A l \in Launchers : JobOK(job[l]) BY DEF TypeInv, JobsTyped
<1>4. \A l \in Launchers :
        /\ job[l] \in JobRow'
        /\ job[l].pc \in DispatchPCs => job[l].t \in 1 .. posted'
        /\ job[l].pc \in OwnerKnown => job[l].s \in Sessions
      BY <1>1, <1>2, <1>3 DEF JobOK
<1>5. CASE job' = job BY <1>4, <1>5 DEF JobsTyped, JobOK, TypeInv
<1>6. CASE \E l \in Launchers : \E j : job' = [job EXCEPT ![l] = j] /\ JobOK(j)'
  <2>0. PICK l \in Launchers : \E j : job' = [job EXCEPT ![l] = j] /\ JobOK(j)' BY <1>6
  <2>1. PICK j : job' = [job EXCEPT ![l] = j] /\ JobOK(j)' BY <2>0
  <2>2. DOMAIN job = Launchers BY DEF TypeInv, JobsTyped
  <2>3. \A k \in Launchers : job'[k] = IF k = l THEN j ELSE job[k] BY <2>1, <2>2
  <2>4. \A k \in Launchers : JobOK(job[k])' BY <1>4, <2>1, <2>3 DEF JobOK
  <2>5. job' \in [Launchers -> JobRow'] BY <2>1, <2>2, <2>3, <1>4 DEF JobOK, TypeInv, JobsTyped
  <2> QED BY <2>4, <2>5 DEF JobsTyped
<1> QED BY <1>5, <1>6

LEMMA InitType == Init => TypeInv
<1> SUFFICES ASSUME Init PROVE TypeInv OBVIOUS
<1> USE WakeAssumption
<1>1. NoClaim \in ClaimRow BY DEF NoClaim, ClaimRow
<1>2. NoReceipt \in [pid : Nat, gen : 0 .. generation] BY DEF Init, NoReceipt
<1>3. TypeOK BY <1>1, <1>2 DEF Init, TypeOK, Results, ClaimRow
<1>4. JobOK(Idle) BY DEF Init, JobOK, JobRow, Idle, DispatchPCs, OwnerKnown
<1>5. JobsTyped BY <1>4 DEF Init, JobsTyped, JobOK
<1>6. IsFiniteSet({}) BY FS_EmptySet
<1> QED BY <1>3, <1>5, <1>6 DEF Init, TypeInv, ScanTyped

\* The rows a launcher writes in its own dispatch.
LEMMA JobRows ==
  ASSUME TypeInv
  PROVE  /\ \A pc \in {"idle", "scan"} : JobOK([Idle EXCEPT !.pc = pc])
         /\ \A t \in 1 .. posted : JobOK(Dispatching(t))
         /\ \A l \in Launchers, pc \in OwnerKnown :
              job[l].pc \in OwnerKnown =>
                /\ JobOK(To(l, pc))
                /\ \A g \in 0 .. generation : JobOK([To(l, pc) EXCEPT !.gen = g])
                /\ \A pid \in Nat : JobOK([To(l, pc) EXCEPT !.pid = pid])
         /\ \A l \in Launchers, s \in Sessions :
              job[l].pc = "resolve" => JobOK([To(l, "snapshot") EXCEPT !.s = s])
<1>1. posted \in Nat /\ generation \in Nat BY WakeAssumption DEF TypeInv, TypeOK
<1>2. \A pc \in {"idle", "scan"} : JobOK([Idle EXCEPT !.pc = pc])
      BY <1>1 DEF JobOK, JobRow, Idle, DispatchPCs, OwnerKnown
<1>3. \A t \in 1 .. posted : JobOK(Dispatching(t))
      BY <1>1 DEF JobOK, JobRow, Dispatching, DispatchPCs, OwnerKnown
<1>4. \A l \in Launchers : JobOK(job[l]) BY DEF TypeInv, JobsTyped
<1>5. ASSUME NEW l \in Launchers, NEW pc \in OwnerKnown, job[l].pc \in OwnerKnown
      PROVE  /\ JobOK(To(l, pc))
             /\ \A g \in 0 .. generation : JobOK([To(l, pc) EXCEPT !.gen = g])
             /\ \A pid \in Nat : JobOK([To(l, pc) EXCEPT !.pid = pid])
      BY <1>1, <1>4, <1>5 DEF JobOK, JobRow, To, DispatchPCs, OwnerKnown
<1>6. ASSUME NEW l \in Launchers, NEW s \in Sessions, job[l].pc = "resolve"
      PROVE  JobOK([To(l, "snapshot") EXCEPT !.s = s])
      BY <1>1, <1>4, <1>6 DEF JobOK, JobRow, To, DispatchPCs, OwnerKnown
<1> QED BY <1>2, <1>3, <1>5, <1>6

\* The end of a dispatch.
LEMMA FinishMoves ==
  ASSUME TypeInv, NEW l \in Launchers, NEW launches \in Nat, Finish(l, launches)
  PROVE  /\ \E pc \in {"idle", "scan"} : job' = [job EXCEPT ![l] = [Idle EXCEPT !.pc = pc]]
         /\ l = "hook" => job' = [job EXCEPT ![l] = Idle]
         /\ scan' \subseteq scan /\ passed' = passed /\ children' = children
         /\ census' = census /\ launched' \in Nat
<1>1. launched \in Nat BY DEF TypeInv, TypeOK
<1>2. [Idle EXCEPT !.pc = "idle"] = Idle BY DEF Idle
<1>3. CASE l = "pump"
  <2>1. job' = [job EXCEPT ![l] = [Idle EXCEPT !.pc = "scan"]]
        BY <1>3 DEF Finish, Goto
  <2> QED BY <1>1, <1>3, <2>1 DEF Finish
<1>4. CASE l = "hook"
  <2>1. job' = [job EXCEPT ![l] = [Idle EXCEPT !.pc = "idle"]]
        BY <1>4 DEF Finish, Goto
  <2>2. UNCHANGED pump BY <1>4 DEF Finish
  <2> QED BY <1>1, <1>2, <2>1, <2>2 DEF pump
<1> QED BY <1>3, <1>4 DEF Launchers

LEMMA MaxOfTwo ==
  ASSUME NEW i \in Nat, NEW k \in Nat
  PROVE  Max({i, k}) \in {i, k} /\ Max({i, k}) \geq i /\ Max({i, k}) \geq k
<1>1. \E x \in {i, k} : \A y \in {i, k} : x \geq y OBVIOUS
<1>2. /\ Max({i, k}) \in {i, k}
      /\ \A y \in {i, k} : Max({i, k}) \geq y
      BY <1>1 DEF Max
<1> QED BY <1>2

\* A vouching keeps to the ledger and only grows.
LEMMA VouchFacts ==
  ASSUME TypeInv, NEW i \in 0 .. posted, Vouch(i)
  PROVE  vouched' \in 0 .. posted /\ vouched \leq vouched' /\ i \leq vouched'
<1>1. posted \in Nat /\ vouched \in 0 .. posted
      BY WakeAssumption DEF TypeInv, TypeOK
<1>2. vouched' \in {vouched, i} /\ vouched' \geq vouched /\ vouched' \geq i
      BY <1>1, MaxOfTwo DEF Vouch
<1> QED BY <1>1, <1>2

\* A reading, a WATERMARK and a handover move cursors within the ledger, and vouch
\* for where they put them.
LEMMA InboxMoves ==
  ASSUME TypeInv,
         \/ \E t \in Triggers : Reads(t) \/ PostWatermark(t)
         \/ \E to \in Sessions \cup {Nobody} : Handover(to)
  PROVE  /\ cursor' \in [Sessions -> 0 .. posted] /\ watermark' \in 0 .. posted
         /\ vouched' \in 0 .. posted /\ vouched \leq vouched'
         /\ CursorsVouched => CursorsVouched'
<1>0. /\ posted \in Nat /\ vouched \in 0 .. posted /\ watermark \in 0 .. posted
      /\ cursor \in [Sessions -> 0 .. posted] /\ seat \in Sessions \cup {Nobody}
      BY WakeAssumption DEF TypeInv, TypeOK
<1>1. ASSUME NEW t \in Triggers, Reads(t)
      PROVE  /\ cursor' \in [Sessions -> 0 .. posted] /\ watermark' \in 0 .. posted
             /\ vouched' \in 0 .. posted /\ vouched \leq vouched'
             /\ CursorsVouched => CursorsVouched'
  <2>1. t \in 0 .. posted /\ Vouch(t) BY <1>0, <1>1 DEF Reads, Triggers
  <2>2. /\ cursor' = [cursor EXCEPT ![seat] = t] /\ watermark' = watermark
        BY <1>1 DEF Reads
  <2>3. vouched' \in 0 .. posted /\ vouched \leq vouched' /\ t \leq vouched'
        BY <2>1, VouchFacts
  <2>4. /\ cursor' \in [Sessions -> 0 .. posted]
        /\ \A s \in Sessions : cursor'[s] \in {cursor[s], t}
        BY <1>0, <2>1, <2>2
  <2>5. CursorsVouched => CursorsVouched'
        BY <1>0, <2>2, <2>3, <2>4 DEF CursorsVouched
  <2> QED BY <1>0, <2>2, <2>3, <2>4, <2>5
<1>2. ASSUME NEW t \in Triggers, PostWatermark(t)
      PROVE  /\ cursor' \in [Sessions -> 0 .. posted] /\ watermark' \in 0 .. posted
             /\ vouched' \in 0 .. posted /\ vouched \leq vouched'
             /\ CursorsVouched => CursorsVouched'
  <2>1. t \in 0 .. posted /\ Vouch(t) /\ watermark' = t
        BY <1>0, <1>2 DEF PostWatermark, Triggers
  <2>2. vouched' \in 0 .. posted /\ vouched \leq vouched' /\ t \leq vouched'
        BY <2>1, VouchFacts
  <2>3. /\ cursor' \in [Sessions -> 0 .. posted]
        /\ \A s \in Sessions : cursor'[s] \in {cursor[s], t}
    <3>1. CASE seat = Nobody
      <4>1. cursor' = cursor BY <1>2, <3>1 DEF PostWatermark
      <4> QED BY <1>0, <4>1
    <3>2. CASE seat # Nobody
      <4>1. cursor' = [cursor EXCEPT ![seat] = Max({@, t})]
            BY <1>2, <3>2 DEF PostWatermark
      <4>2. cursor[seat] \in 0 .. posted BY <1>0, <3>2
      <4>3. Max({cursor[seat], t}) \in {cursor[seat], t} BY <1>0, <2>1, <4>2, MaxOfTwo
      <4> DEFINE m == Max({cursor[seat], t})
      <4>4. cursor' = [cursor EXCEPT ![seat] = m] BY <4>1
      <4>5. m \in {cursor[seat], t} BY <4>3
      <4> HIDE DEF m
      <4> QED BY <1>0, <2>1, <4>2, <4>4, <4>5
    <3> QED BY <3>1, <3>2
  <2> QED BY <1>0, <2>1, <2>2, <2>3 DEF CursorsVouched
<1>3. ASSUME NEW to \in Sessions \cup {Nobody}, Handover(to)
      PROVE  /\ cursor' \in [Sessions -> 0 .. posted] /\ watermark' \in 0 .. posted
             /\ vouched' \in 0 .. posted /\ vouched \leq vouched'
             /\ CursorsVouched => CursorsVouched'
  <2>1. PICK i \in StartsAt(to) :
           /\ cursor' = IF to = Nobody THEN cursor ELSE [cursor EXCEPT ![to] = i]
           /\ Vouch(i)
        BY <1>3 DEF Handover
  <2>2. i \in 0 .. posted BY <1>0 DEF StartsAt
  <2>3. vouched' \in 0 .. posted /\ vouched \leq vouched' /\ i \leq vouched'
        BY <2>1, <2>2, VouchFacts
  <2>4. /\ cursor' \in [Sessions -> 0 .. posted]
        /\ \A s \in Sessions : cursor'[s] \in {cursor[s], i}
        BY <1>0, <2>1, <2>2
  <2>5. watermark' = watermark BY <1>3 DEF Handover
  <2> QED BY <1>0, <2>2, <2>3, <2>4, <2>5 DEF CursorsVouched
<1> QED BY <1>1, <1>2, <1>3

LEMMA LedgerTypes ==
  ASSUME TypeInv,
         \/ Post \/ \E t \in Triggers : ParentAnswers(t) \/ Reads(t) \/ PostWatermark(t)
         \/ \E to \in Sessions \cup {Nobody} : Handover(to)
  PROVE  TypeInv'
<1> USE WakeAssumption
<1>0. posted \in Nat /\ generation \in Nat BY DEF TypeInv, TypeOK
<1>1. CASE Post
  <2>1. posted' \in 0 .. LastTrigger /\ posted' = posted + 1 BY <1>0, <1>1 DEF Post
  <2>2. pending' \subseteq 1 .. posted' BY <2>1, <1>0, <1>1 DEF Post, TypeInv, TypeOK
  <2>i. /\ UNCHANGED <<cursor, watermark, vouched>>
        /\ cursor \in [Sessions -> 0 .. posted] /\ watermark \in 0 .. posted
        /\ vouched \in 0 .. posted
        BY <1>1 DEF Post, inbox, TypeInv, TypeOK
  <2>j. /\ cursor' \in [Sessions -> 0 .. posted'] /\ watermark' \in 0 .. posted'
        /\ vouched' \in 0 .. posted'
        BY <2>1, <2>i, <1>0
  <2>3. TypeOK'
        BY <2>1, <2>2, <2>j, <1>0, <1>1 DEF Post, TypeInv, TypeOK, pump
  <2>4. \A j : j = Dispatching(posted + 1) => JobOK(j)'
        BY <2>1, <1>0, <1>1 DEF Post, JobOK, JobRow, Dispatching, DispatchPCs, OwnerKnown
  <2>5. JobsTyped'
    <3>1. \/ job' = job
          \/ job' = [job EXCEPT !["hook"] = Dispatching(posted + 1)]
          BY <1>1 DEF Post
    <3>2. \/ job' = job
          \/ \E l \in Launchers : \E j : job' = [job EXCEPT ![l] = j] /\ JobOK(j)'
          BY <3>1, <2>4 DEF Launchers
    <3>3. /\ posted' \in Nat /\ posted \leq posted'
          /\ generation' \in Nat /\ generation \leq generation'
          BY <2>1, <1>0, <1>1 DEF Post
    <3> QED BY <3>2, <3>3, JobMoves
  <2>6. ScanTyped' BY <2>1, <1>0, <1>1 DEF Post, TypeInv, ScanTyped, pump
  <2> QED BY <2>3, <2>5, <2>6, <1>1 DEF Post, TypeInv, pump
<1>2. CASE \E t \in Triggers : ParentAnswers(t)
  <2>1. PICK t \in Triggers : ParentAnswers(t) BY <1>2
  <2>2. claim' \in [Sessions -> [Triggers -> ClaimRow]]
        BY <2>1, RetireFacts DEF ParentAnswers, TypeInv
  <2>3. answered' \in [Triggers -> SUBSET {"parent", "worker"}]
        BY <2>1 DEF ParentAnswers, TypeInv, TypeOK
  <2>4. TypeOK' BY <2>1, <2>2, <2>3 DEF ParentAnswers, TypeInv, TypeOK, inbox, pump, ClaimRow
  <2>5. JobsTyped' BY <2>1, <1>0, JobMoves DEF ParentAnswers
  <2> QED BY <2>1, <2>4, <2>5 DEF ParentAnswers, TypeInv, ScanTyped, pump
<1>3. CASE \E to \in Sessions \cup {Nobody} : Handover(to)
  <2>1. PICK to \in Sessions \cup {Nobody} : Handover(to) BY <1>3
  <2>2. claim' \in [Sessions -> [Triggers -> ClaimRow]]
    <3>1. \A s \in Sessions : claim[s] \in [Triggers -> ClaimRow]
          BY DEF TypeInv, TypeOK, ClaimRow
    <3> QED BY <2>1, <3>1, RetireFacts DEF Handover, TypeInv
  <2>3. generation' = generation + 1 /\ generation' \in Nat \ {0}
        BY <2>1, <1>0 DEF Handover
  <2>4. receipt' \in [Sessions -> [Triggers -> [pid : Nat, gen : 0 .. generation']]]
        BY <2>1, <2>3, <1>0 DEF Handover, TypeInv, TypeOK
  <2>5. TypeOK'
        BY <2>1, <2>2, <2>3, <2>4, InboxMoves DEF Handover, TypeInv, TypeOK, pump, ClaimRow
  <2>6. JobsTyped' BY <2>1, <2>3, <1>0, JobMoves DEF Handover
  <2> QED BY <2>1, <2>5, <2>6 DEF Handover, TypeInv, ScanTyped, pump
<1>4. CASE \E t \in Triggers : Reads(t) \/ PostWatermark(t)
  <2>1. UNCHANGED <<hooked, posted, answered, seat, generation, tables, procs, job, pump,
                    faults>>
        BY <1>4 DEF Reads, PostWatermark
  <2>2. TypeOK' BY <1>4, <2>1, InboxMoves DEF TypeInv, TypeOK, tables, pump
  <2>3. JobsTyped' BY <2>1, <1>0, JobMoves
  <2> QED BY <2>1, <2>2, <2>3 DEF TypeInv, ScanTyped, pump
<1> QED BY <1>1, <1>2, <1>3, <1>4

LEMMA WorkerTypes ==
  ASSUME TypeInv,
         \/ \E p \in procs : Exits(p) \/ \E reply \in BOOLEAN : Reports(p, reply)
         \/ \E s \in Sessions, t \in Triggers : Ages(s, t)
         \/ Recover
  PROVE  TypeInv'
<1> USE WakeAssumption
<1>0. posted \in Nat /\ generation \in Nat BY DEF TypeInv, TypeOK
<1>1. CASE \E p \in procs : Exits(p)
  <2>1. PICK p \in procs : Exits(p) BY <1>1
  <2>2. TypeOK'
        BY <2>1 DEF Exits, TypeInv, TypeOK, ledger, inbox, tables, pump
  <2>3. JobsTyped' BY <2>1, <1>0, JobMoves DEF Exits, ledger
  <2>4. IsFiniteSet(procs') BY <2>1, FS_RemoveElement DEF Exits, TypeInv
  <2> QED BY <2>1, <2>2, <2>3, <2>4 DEF Exits, TypeInv, ScanTyped, ledger, pump
<1>2. CASE \E p \in procs : \E reply \in BOOLEAN : Reports(p, reply)
  <2>1. PICK p \in procs, reply \in BOOLEAN : Reports(p, reply) BY <1>2
  <2>2. p.s \in Sessions /\ p.t \in Triggers BY DEF TypeInv, TypeOK
  <2>3. claim[p.s][p.t] \in ClaimRow BY <2>2 DEF TypeInv, TypeOK, ClaimRow
  <2>4. Ended(claim[p.s][p.t], "completed") \in ClaimRow BY <2>3 DEF Ended, ClaimRow
  <2>5. claim' \in [Sessions -> [Triggers -> ClaimRow]]
        BY <2>1, <2>2, <2>4 DEF Reports, TypeInv, TypeOK, ClaimRow
  <2>6. answered' \in [Triggers -> SUBSET {"parent", "worker"}]
        BY <2>1, <2>2 DEF Reports, TypeInv, TypeOK
  <2>7. TypeOK' BY <2>1, <2>5, <2>6 DEF Reports, TypeInv, TypeOK, inbox, pump, ClaimRow
  <2>8. JobsTyped' BY <2>1, <1>0, JobMoves DEF Reports
  <2> QED BY <2>1, <2>7, <2>8 DEF Reports, TypeInv, ScanTyped, pump
<1>3. CASE \E s \in Sessions, t \in Triggers : Ages(s, t)
  <2>1. PICK s \in Sessions, t \in Triggers : Ages(s, t) BY <1>3
  <2>r. claim[s][t] \in ClaimRow BY DEF TypeInv, TypeOK, ClaimRow
  <2>a. [claim[s][t] EXCEPT !.fresh = FALSE] \in ClaimRow BY <2>r DEF ClaimRow
  <2>c. claim' = [claim EXCEPT ![s][t] = [claim[s][t] EXCEPT !.fresh = FALSE]]
        BY <2>1 DEF Ages
  <2>2. claim' \in [Sessions -> [Triggers -> ClaimRow]]
        BY <2>a, <2>c DEF TypeInv, TypeOK, ClaimRow
  <2>3. TypeOK' BY <2>1, <2>2 DEF Ages, TypeInv, TypeOK, ledger, inbox, pump, ClaimRow
  <2>4. JobsTyped' BY <2>1, <1>0, JobMoves DEF Ages, ledger
  <2> QED BY <2>1, <2>3, <2>4 DEF Ages, TypeInv, ScanTyped, pump, ledger
<1>4. CASE Recover
  <2>1. claim' \in [Sessions -> [Triggers -> ClaimRow]]
        BY <1>4, RetireFacts DEF Recover, TypeInv
  <2>2. TypeOK' BY <1>4, <2>1 DEF Recover, TypeInv, TypeOK, ledger, inbox, pump, ClaimRow
  <2>3. JobsTyped' BY <1>4, <1>0, JobMoves DEF Recover, ledger
  <2> QED BY <1>4, <2>2, <2>3 DEF Recover, TypeInv, ScanTyped, pump, ledger
<1> QED BY <1>1, <1>2, <1>3, <1>4

\* Nothing a launcher does touches the ledger, so its rows need no second look.
LEMMA JobSteps ==
  ASSUME TypeInv, UNCHANGED ledger, NEW l \in Launchers, NEW j, JobOK(j),
         job' = [job EXCEPT ![l] = j]
  PROVE  JobsTyped'
<1>1. posted' = posted /\ generation' = generation BY DEF ledger
<1>2. posted \in Nat /\ generation \in Nat BY WakeAssumption DEF TypeInv, TypeOK
<1>3. JobOK(j)' BY <1>1 DEF JobOK, JobRow
<1>4. \E k \in Launchers : \E r : job' = [job EXCEPT ![k] = r] /\ JobOK(r)' BY <1>3
<1>5. /\ posted' \in Nat /\ posted \leq posted'
      /\ generation' \in Nat /\ generation \leq generation'
      BY <1>1, <1>2
<1> QED BY <1>4, <1>5, JobMoves

LEMMA FinishTypes ==
  ASSUME TypeInv, UNCHANGED ledger, NEW l \in Launchers, NEW launches \in Nat,
         Finish(l, launches)
  PROVE  JobsTyped' /\ ScanTyped'
<1>1. PICK pc \in {"idle", "scan"} : job' = [job EXCEPT ![l] = [Idle EXCEPT !.pc = pc]]
      BY FinishMoves
<1>2. JobOK([Idle EXCEPT !.pc = pc]) BY JobRows
<1>3. JobsTyped' BY <1>1, <1>2, JobSteps
<1> QED BY <1>3, FinishMoves DEF TypeInv, ScanTyped, ledger

LEMMA DispatchTypes ==
  ASSUME TypeInv, NEW l \in Launchers, Dispatch(l)
  PROVE  TypeInv'
<1> USE WakeAssumption
<1>0. /\ posted \in Nat /\ generation \in Nat /\ JobOK(job[l])
      /\ posted \in 0 .. LastTrigger /\ seat \in Sessions \cup {Nobody}
      BY DEF TypeInv, TypeOK, JobsTyped
<1>1. CASE Resolve(l)
  <2>0. UNCHANGED <<ledger, claim, latest, receipt, pending, procs, faults>>
        BY <1>1 DEF Resolve
  <2>1. CASE Finish(l, 0) /\ UNCHANGED wake
    <3>1. TypeOK' BY <2>0, <2>1, FinishMoves DEF TypeInv, TypeOK, ledger, inbox
    <3> QED BY <2>0, <2>1, <3>1, FinishMoves, FinishTypes DEF TypeInv, ledger
  <2>2. CASE /\ seat # Nobody /\ wake' = [wake EXCEPT ![seat][job[l].t] = "dry_run"]
             /\ Goto(l, [To(l, "snapshot") EXCEPT !.s = seat]) /\ UNCHANGED pump
    <3>1. wake' \in [Sessions -> [Triggers -> Results]]
          BY <2>2, <1>0 DEF TypeInv, TypeOK, Results
    <3>2. TypeOK' BY <2>0, <2>2, <3>1 DEF TypeInv, TypeOK, ledger, inbox, pump
    <3>3. JobOK([To(l, "snapshot") EXCEPT !.s = seat])
          BY <1>1, <2>2, <1>0, JobRows DEF Resolve, At
    <3>4. JobsTyped' BY <2>0, <2>2, <3>3, JobSteps DEF Goto
    <3> QED BY <2>0, <2>2, <3>2, <3>4 DEF TypeInv, ScanTyped, ledger, pump
  <2> QED BY <1>1, <2>1, <2>2 DEF Resolve
<1>2. CASE Snapshot(l)
  <2>1. UNCHANGED <<ledger, tables, procs, pump, faults>> BY <1>2 DEF Snapshot
  <2> DEFINE g == IF seat = job[l].s THEN generation ELSE 0
  <2>2. /\ g \in 0 .. generation
        /\ job' = [job EXCEPT ![l] = [To(l, "claim") EXCEPT !.gen = g]]
        BY <1>2, <1>0 DEF Snapshot, Goto
  <2> HIDE DEF g
  <2>3. JobOK([To(l, "claim") EXCEPT !.gen = g])
        BY <1>2, <2>2, JobRows DEF Snapshot, At, OwnerKnown, DispatchPCs
  <2>4. JobsTyped' BY <2>1, <2>2, <2>3, JobSteps
  <2> QED BY <2>1, <2>4 DEF TypeInv, TypeOK, ScanTyped, ledger, inbox, tables, pump
<1>3. CASE ClaimTarget(l)
  <2> DEFINE s == job[l].s
             t == job[l].t
  <2>0. /\ UNCHANGED <<ledger, wake, receipt, pending, procs, faults>>
        /\ s \in Sessions /\ t \in Triggers /\ job[l].pc \in OwnerKnown
        BY <1>3, <1>0 DEF ClaimTarget, At, JobOK, OwnerKnown, DispatchPCs, Triggers
  <2>1. CASE Admits(s, t)
    <3>1. claim[s][t] \in ClaimRow BY <2>0 DEF TypeInv, TypeOK, ClaimRow
    <3>2. ClaimedAgain(claim[s][t]) \in ClaimRow
          BY <2>1, <3>1 DEF Admits, ClaimedAgain, ClaimRow
    <3>3. /\ claim' = [claim EXCEPT ![s][t] = ClaimedAgain(@)]
          /\ latest' = IF claim[s][t].state = "none" THEN [latest EXCEPT ![t] = s]
                       ELSE latest
          /\ Step(l, "launch") /\ UNCHANGED pump
          BY <1>3, <2>1 DEF ClaimTarget
    <3>4. claim' \in [Sessions -> [Triggers -> ClaimRow]]
          BY <2>0, <3>2, <3>3 DEF TypeInv, TypeOK, ClaimRow
    <3>5. latest' \in [Triggers -> Sessions \cup {Nobody}]
          BY <2>0, <3>3 DEF TypeInv, TypeOK
    <3>6. TypeOK' BY <2>0, <3>3, <3>4, <3>5 DEF TypeInv, TypeOK, ledger, inbox, pump, ClaimRow
    <3>7. JobOK(To(l, "launch")) BY <2>0, JobRows DEF OwnerKnown, DispatchPCs
    <3>8. JobsTyped' BY <2>0, <3>3, <3>7, JobSteps DEF Step, Goto
    <3> QED BY <2>0, <3>3, <3>6, <3>8 DEF TypeInv, ScanTyped, ledger, pump
  <2>2. CASE ~Admits(s, t) /\ RefusalCloses(s, t)
    <3>1. Step(l, "close") /\ UNCHANGED pump /\ UNCHANGED <<claim, latest>>
          BY <1>3, <2>2 DEF ClaimTarget
    <3>2. JobOK(To(l, "close")) BY <2>0, JobRows DEF OwnerKnown, DispatchPCs
    <3>3. JobsTyped' BY <2>0, <3>1, <3>2, JobSteps DEF Step, Goto
    <3> QED BY <2>0, <3>1, <3>3 DEF TypeInv, TypeOK, ScanTyped, ledger, inbox, pump
  <2>3. CASE ~Admits(s, t) /\ ~RefusalCloses(s, t)
    <3>1. Finish(l, 0) /\ UNCHANGED <<claim, latest>> BY <1>3, <2>3 DEF ClaimTarget
    <3>2. TypeOK' BY <2>0, <3>1, FinishMoves DEF TypeInv, TypeOK, ledger, inbox
    <3> QED BY <2>0, <3>1, <3>2, FinishMoves, FinishTypes DEF TypeInv
  <2> QED BY <2>1, <2>2, <2>3
<1>4. CASE Launch(l)
  <2>1. UNCHANGED <<ledger, tables, scan, passed, census, launched, faults>>
        BY <1>4 DEF Launch
  <2>2. job[l].s \in Sessions /\ job[l].t \in Triggers /\ job[l].pc \in OwnerKnown
        BY <1>4, <1>0 DEF Launch, At, JobOK, OwnerKnown, DispatchPCs, Triggers
  <2>3. NewPid \in Nat \ {0} BY NewPidFresh
  <2>p. /\ procs' = procs \cup {[pid |-> NewPid, s |-> job[l].s, t |-> job[l].t]}
        /\ [pid |-> NewPid, s |-> job[l].s, t |-> job[l].t] \in
             [pid : Nat \ {0}, s : Sessions, t : Triggers]
        BY <1>4, <2>2, <2>3 DEF Launch
  <2>4. procs' \subseteq [pid : Nat \ {0}, s : Sessions, t : Triggers] /\ IsFiniteSet(procs')
        BY <2>p, FS_AddElement DEF TypeInv, TypeOK
  <2>5. children' \subseteq Nat \ {0} /\ IsFiniteSet(children')
    <3>1. children \subseteq Nat \ {0} /\ IsFiniteSet(children) BY DEF TypeInv, TypeOK
    <3>2. IsFiniteSet(children \cup {NewPid}) BY <3>1, FS_AddElement
    <3>3. children' \in {children, children \cup {NewPid}} BY <1>4 DEF Launch
    <3> QED BY <2>3, <3>1, <3>2, <3>3
  <2>6. TypeOK' BY <2>1, <2>4, <2>5 DEF TypeInv, TypeOK, ledger, inbox, tables
  <2>7. JobOK([To(l, "receipt") EXCEPT !.pid = NewPid])
        BY <2>2, <2>3, JobRows DEF OwnerKnown, DispatchPCs
  <2>8. job' = [job EXCEPT ![l] = [To(l, "receipt") EXCEPT !.pid = NewPid]]
        BY <1>4 DEF Launch, Goto
  <2>9. JobsTyped' BY <2>1, <2>7, <2>8, JobSteps
  <2> QED BY <2>1, <2>4, <2>5, <2>6, <2>9 DEF TypeInv, ScanTyped, ledger
<1>5. CASE Receipt(l)
  <2>1. UNCHANGED <<ledger, claim, latest, wake, pending, procs, pump>> /\ Step(l, "mark")
        BY <1>5 DEF Receipt
  <2>2. job[l].s \in Sessions /\ job[l].t \in Triggers /\ job[l].pc \in OwnerKnown
        BY <1>5, <1>0 DEF Receipt, At, JobOK, OwnerKnown, DispatchPCs, Triggers
  <2>3. NewReceipt(l) \in [pid : Nat, gen : 0 .. generation]
        BY <1>0 DEF NewReceipt, JobOK, JobRow
  <2>4. receipt' \in [Sessions -> [Triggers -> [pid : Nat, gen : 0 .. generation']]]
    <3>1. \/ receipt' = receipt
          \/ receipt' = [receipt EXCEPT ![job[l].s][job[l].t] = NewReceipt(l)]
          BY <1>5 DEF Receipt
    <3>2. receipt \in [Sessions -> [Triggers -> [pid : Nat, gen : 0 .. generation]]]
          BY DEF TypeInv, TypeOK
    <3>3. generation' = generation BY <2>1 DEF ledger
    <3> DEFINE R == [pid : Nat, gen : 0 .. generation]
    <3>4. receipt \in [Sessions -> [Triggers -> R]] /\ NewReceipt(l) \in R BY <3>2, <2>3
    <3> HIDE DEF R
    <3>5. receipt' \in [Sessions -> [Triggers -> R]] BY <3>1, <3>4, <2>2
    <3> QED BY <3>3, <3>5 DEF R
  <2>5. faults' \in 0 .. MaxFaults BY <1>5 DEF Receipt, TypeInv, TypeOK
  <2>6. TypeOK' BY <2>1, <2>4, <2>5 DEF TypeInv, TypeOK, ledger, inbox, pump
  <2>7. JobOK(To(l, "mark")) BY <2>2, JobRows DEF OwnerKnown, DispatchPCs
  <2>8. JobsTyped' BY <2>1, <2>7, JobSteps DEF Step, Goto
  <2> QED BY <2>1, <2>6, <2>8 DEF TypeInv, ScanTyped, ledger, pump
<1>6. CASE Mark(l)
  <2>1. PICK result \in {"dispatched", "terminal_no_action"}, launches \in {0, 1} :
           Marked(l, result) /\ Finish(l, launches)
        BY <1>6 DEF Mark
  <2>2. UNCHANGED <<ledger, claim, latest, receipt, pending, procs, faults>>
        BY <1>6 DEF Mark
  <2>3. job[l].s \in Sessions /\ job[l].t \in Triggers
        BY <1>6, <1>0 DEF Mark, At, JobOK, OwnerKnown, DispatchPCs, Triggers
  <2>4. wake' \in [Sessions -> [Triggers -> Results]]
        BY <2>1, <2>3 DEF Marked, TypeInv, TypeOK, Results
  <2>5. TypeOK' BY <2>1, <2>2, <2>4, FinishMoves DEF TypeInv, TypeOK, ledger, inbox
  <2> QED BY <2>1, <2>2, <2>5, FinishMoves, FinishTypes DEF TypeInv
<1>7. CASE Refuse(l)
  <2>1. Finish(l, 0) /\ UNCHANGED <<ledger, tables, procs, faults>> BY <1>7 DEF Refuse
  <2>2. TypeOK' BY <2>1, FinishMoves DEF TypeInv, TypeOK, ledger, inbox, tables
  <2> QED BY <2>1, <2>2, FinishMoves, FinishTypes DEF TypeInv
<1> QED BY <1>1, <1>2, <1>3, <1>4, <1>5, <1>6, <1>7 DEF Dispatch

LEMMA CrashTypes ==
  ASSUME TypeInv, NEW l \in Launchers, Crash(l)
  PROVE  TypeInv'
<1> USE WakeAssumption
<1>1. /\ UNCHANGED <<ledger, tables, procs>> /\ faults' \in 0 .. MaxFaults
      /\ job' = [job EXCEPT ![l] = Idle]
      BY DEF Crash, Goto, TypeInv, TypeOK
<1>2. /\ scan' \subseteq scan /\ passed' = passed /\ children' \subseteq children
      /\ census' \in Nat /\ launched' \in Nat
      BY DEF Crash, TypeInv, TypeOK, pump
<1>3. JobOK(Idle)
  <2>1. JobOK([Idle EXCEPT !.pc = "idle"]) BY JobRows
  <2>2. [Idle EXCEPT !.pc = "idle"] = Idle BY DEF Idle
  <2> QED BY <2>1, <2>2
<1>4. JobsTyped' BY <1>1, <1>3, JobSteps
<1>5. TypeOK' BY <1>1, <1>2 DEF TypeInv, TypeOK, ledger, inbox, tables
<1>6. IsFiniteSet(children') BY <1>2, FS_Subset DEF TypeInv
<1> QED BY <1>1, <1>2, <1>4, <1>5, <1>6 DEF TypeInv, ScanTyped, ledger, tables

\* The children that are left.
LEMMA LiveChildrenType ==
  ASSUME TypeInv
  PROVE  LiveChildren \subseteq Nat \ {0} /\ IsFiniteSet(LiveChildren)
BY FS_Intersection DEF LiveChildren, TypeInv, TypeOK

LEMMA ScanTypes ==
  ASSUME TypeInv, BeginScan \/ NextRow
  PROVE  TypeInv'
<1> USE WakeAssumption DEF Launchers
<1>0. posted \in Nat /\ generation \in Nat BY DEF TypeInv, TypeOK
<1>1. CASE BeginScan
  <2>1. UNCHANGED <<ledger, tables, procs, passed, faults>> BY <1>1 DEF BeginScan
  <2>2. census' \in Nat /\ launched' \in Nat /\ children' \subseteq Nat \ {0}
        BY <1>1, CensusType, LiveChildrenType DEF BeginScan
  <2>3. Rows \subseteq [t : 1 .. posted, queued : BOOLEAN, past : BOOLEAN]
    <3>1. Targeted \subseteq 1 .. posted BY DEF Targeted, TypeInv, TypeOK
    <3>2. PastCursor \subseteq 1 .. posted BY DEF PastCursor
    <3> SUFFICES ASSUME NEW row \in Rows
                 PROVE  row \in [t : 1 .. posted, queued : BOOLEAN, past : BOOLEAN]
        OBVIOUS
    <3>3. PICK t \in Targeted \cup PastCursor :
             row = [t |-> t, queued |-> t \in Targeted, past |-> t \in PastCursor]
          BY DEF Rows
    <3>4. t \in 1 .. posted BY <3>1, <3>2
    <3> QED BY <3>3, <3>4
  <2>4. ScanTyped' BY <1>1, <2>1, <2>3 DEF BeginScan, ScanTyped, ledger
  <2>5. TypeOK' BY <2>1, <2>2 DEF TypeInv, TypeOK, ledger, inbox, tables
  <2>6. JobOK([Idle EXCEPT !.pc = "scan"]) BY JobRows
  <2>7. JobsTyped' BY <1>1, <2>1, <2>6, JobSteps DEF BeginScan, Goto
  <2> QED BY <1>1, <2>1, <2>4, <2>5, <2>7, LiveChildrenType DEF BeginScan, TypeInv
<1>2. CASE NextRow
  <2>1. UNCHANGED <<ledger, claim, latest, wake, receipt, procs, faults>>
        BY <1>2 DEF NextRow
  <2>2. children' = LiveChildren BY <1>2 DEF NextRow
  <2>3. CASE EndScan
    <3>1. UNCHANGED <<pending, passed>> /\ scan' = {} /\ census' = 0 /\ launched' = 0
          BY <2>3 DEF EndScan
    <3>2. TypeOK' BY <2>1, <2>2, <3>1, LiveChildrenType DEF TypeInv, TypeOK, ledger, inbox
    <3>3. JobOK([Idle EXCEPT !.pc = "idle"]) /\ [Idle EXCEPT !.pc = "idle"] = Idle
          BY JobRows DEF Idle
    <3>4. JobsTyped' BY <2>1, <2>3, <3>3, JobSteps DEF EndScan, Goto
    <3> QED BY <2>1, <2>2, <3>1, <3>2, <3>4, LiveChildrenType DEF TypeInv, ScanTyped
  <2>4. CASE \E row \in scan : SkipTerminal(row) \/ Hold(row) \/ Begin(row.t)
    <3>1. PICK row \in scan : SkipTerminal(row) \/ Hold(row) \/ Begin(row.t) BY <2>4
    <3>2. row.t \in 1 .. posted BY <3>1 DEF TypeInv, ScanTyped
    <3>3. /\ pending' \subseteq pending /\ passed' \in {passed, row.t}
          /\ scan' \subseteq scan /\ UNCHANGED <<census, launched>>
          BY <3>1 DEF SkipTerminal, Hold, Begin
    <3>4. TypeOK'
          BY <2>1, <2>2, <3>2, <3>3, LiveChildrenType DEF TypeInv, TypeOK, ledger, inbox
    <3>5. JobsTyped'
      <4>1. CASE Begin(row.t)
        <5>1. JobOK(Dispatching(row.t)) BY <3>2, JobRows
        <5> QED BY <2>1, <4>1, <5>1, JobSteps DEF Begin, Goto
      <4>2. CASE SkipTerminal(row) \/ Hold(row)
        <5>1. job' = job BY <4>2 DEF SkipTerminal, Hold
        <5> QED BY <2>1, <5>1 DEF TypeInv, JobsTyped, JobOK, JobRow, ledger
      <4> QED BY <3>1, <4>1, <4>2
    <3> QED BY <2>1, <2>2, <3>3, <3>4, <3>5, LiveChildrenType
            DEF TypeInv, ScanTyped, ledger
  <2> QED BY <1>2, <2>3, <2>4 DEF NextRow
<1> QED BY <1>1, <1>2

\* Every step keeps the tables and the launchers well-typed.
LEMMA NextType == TypeInv /\ [Next]_vars => TypeInv'
<1> SUFFICES ASSUME TypeInv, [Next]_vars PROVE TypeInv' OBVIOUS
<1>1. CASE UNCHANGED vars
      BY <1>1 DEF vars, ledger, inbox, tables, pump, TypeInv, TypeOK, JobsTyped, JobOK,
         JobRow, ScanTyped
<1>2. CASE Next
      BY <1>2, LedgerTypes, WorkerTypes, DispatchTypes, CrashTypes, ScanTypes DEF Next
<1> QED BY <1>1, <1>2

\* In every reachable state every table, launcher and scan is well-typed: no claim
\* exceeds its retry budget, no receipt names a later binding than the current
\* one, no row or cursor runs ahead of the ledger.
THEOREM WakeTypeCorrect == Spec => []TypeOK
<1>1. TypeInv => TypeOK BY DEF TypeInv
<1> QED BY <1>1, InitType, NextType, PTL DEF Spec

--------------------------------------------------------------------------------
(* What one step may do to a claim, to the seat and to the ledger          *)

Kept(s, t) ==
  /\ claim'[s][t].state = claim[s][t].state
  /\ claim'[s][t].requeues = claim[s][t].requeues

Admitted(s, t) ==
  /\ \E l \in Launchers : ClaimTarget(l) /\ job[l].s = s /\ job[l].t = t
  /\ Admits(s, t)
  /\ claim'[s][t] = ClaimedAgain(claim[s][t])

Completed(s, t) ==
  /\ claim[s][t].state = "active" /\ claim'[s][t].state = "completed"
  /\ claim'[s][t].requeues = claim[s][t].requeues

\* A claim retires because the owner answers, because its session loses the seat,
\* or because the sweep finds it stale.
Retired(s, t) ==
  /\ claim[s][t].state = "active" /\ claim'[s][t].state = "retired"
  /\ claim'[s][t].requeues = claim[s][t].requeues
  /\ \/ Answered(t)'
     \/ s = seat /\ \E to \in Sessions \cup {Nobody} : Handover(to)
     \/ Recover /\ <<s, t>> \in Stale

\* A dispatch is of a posted trigger and, once resolved, for a session.
LEMMA TargetKnown ==
  ASSUME TypeInv, NEW l \in Launchers, job[l].pc \in DispatchPCs
  PROVE  /\ job[l].t \in Triggers /\ job[l].t \in 1 .. posted
         /\ job[l].pc \in OwnerKnown => job[l].s \in Sessions
<1>1. posted \in 0 .. LastTrigger /\ LastTrigger \in Nat
      BY WakeAssumption DEF TypeInv, TypeOK
<1>2. JobOK(job[l]) BY DEF TypeInv, JobsTyped
<1> QED BY <1>1, <1>2 DEF JobOK, Triggers

LEMMA KeptByUnchanged ==
  ASSUME UNCHANGED claim, NEW s \in Sessions, NEW t \in Triggers
  PROVE  Kept(s, t)
BY DEF Kept

LEMMA ClaimTargetSteps ==
  ASSUME TypeInv, NEW l \in Launchers, ClaimTarget(l),
         NEW s \in Sessions, NEW t \in Triggers
  PROVE  Kept(s, t) \/ Admitted(s, t)
<1>1. /\ job[l].s \in Sessions /\ job[l].t \in Triggers
      BY TargetKnown DEF ClaimTarget, At, OwnerKnown, DispatchPCs
<1>2. CASE ~Admits(job[l].s, job[l].t)
  <2>1. claim' = claim BY <1>2 DEF ClaimTarget
  <2> QED BY <2>1 DEF Kept
<1>3. CASE Admits(job[l].s, job[l].t)
  <2>1. claim' = [claim EXCEPT ![job[l].s][job[l].t] = ClaimedAgain(@)]
        BY <1>3 DEF ClaimTarget
  <2>2. claim \in [Sessions -> [Triggers -> ClaimRow]] BY DEF TypeInv, TypeOK, ClaimRow
  <2>3. CASE s = job[l].s /\ t = job[l].t
    <3>1. claim'[s][t] = ClaimedAgain(claim[s][t]) BY <2>1, <2>2, <2>3
    <3> QED BY <1>3, <2>3, <3>1 DEF Admitted
  <2>4. CASE ~(s = job[l].s /\ t = job[l].t)
    <3>1. claim'[s][t] = claim[s][t] BY <1>1, <2>1, <2>2, <2>4
    <3> QED BY <3>1 DEF Kept
  <2> QED BY <2>3, <2>4
<1> QED BY <1>2, <1>3

\* A reading and a WATERMARK touch the inbox and nothing else.
LEMMA InboxOnly ==
  ASSUME NEW t \in Triggers, Reads(t) \/ PostWatermark(t)
  PROVE  UNCHANGED <<hooked, posted, answered, seat, generation, claim, latest, wake,
                     receipt, pending, procs, job, pump, faults>>
BY DEF Reads, PostWatermark, tables

\* The shapes of what a step does to one claim.
LEMMA ClaimSteps ==
  ASSUME TypeInv, [Next]_vars, NEW s \in Sessions, NEW t \in Triggers
  PROVE  Kept(s, t) \/ Admitted(s, t) \/ Completed(s, t) \/ Retired(s, t)
<1>0. /\ claim \in [Sessions -> [Triggers -> ClaimRow]] /\ TypeOK
      BY DEF TypeInv, TypeOK, ClaimRow
<1>1. CASE UNCHANGED vars BY <1>1, KeptByUnchanged DEF vars, tables
<1>2. CASE Post BY <1>2, KeptByUnchanged DEF Post
<1>3. ASSUME NEW u \in Triggers, ParentAnswers(u) PROVE Kept(s, t) \/ Retired(s, t)
  <2>1. claim'[s] = Retire(s, {u}) BY <1>3 DEF ParentAnswers
  <2>2. CASE t = u /\ claim[s][t].state = "active"
    <3>1. answered' = [answered EXCEPT ![u] = @ \cup {"parent"}] BY <1>3 DEF ParentAnswers
    <3>2. answered'[t] # {} BY <2>2, <3>1 DEF TypeInv, TypeOK
    <3> QED BY <1>0, <2>1, <2>2, <3>2, RetireFacts DEF Retired, Answered
  <2>3. CASE ~(t = u /\ claim[s][t].state = "active")
        BY <1>0, <2>1, <2>3, RetireFacts DEF Kept
  <2> QED BY <2>2, <2>3
<1>4. ASSUME NEW to \in Sessions \cup {Nobody}, Handover(to)
      PROVE  Kept(s, t) \/ Retired(s, t)
  <2>1. claim'[s] = IF s = seat THEN Retire(s, Triggers) ELSE claim[s]
        BY <1>4 DEF Handover
  <2>2. CASE s = seat /\ claim[s][t].state = "active"
        BY <1>0, <1>4, <2>1, <2>2, RetireFacts DEF Retired
  <2>3. CASE ~(s = seat /\ claim[s][t].state = "active")
        BY <1>0, <2>1, <2>3, RetireFacts DEF Kept
  <2> QED BY <2>2, <2>3
<1>5. ASSUME NEW p \in procs, Exits(p) PROVE Kept(s, t)
      BY <1>5, KeptByUnchanged DEF Exits, tables
<1>6. ASSUME NEW p \in procs, NEW reply \in BOOLEAN, Reports(p, reply)
      PROVE  Kept(s, t) \/ Completed(s, t)
  <2>1. claim' = [claim EXCEPT ![p.s][p.t] = Ended(@, "completed")]
        /\ claim[p.s][p.t].state = "active"
        BY <1>6 DEF Reports
  <2>p. p.s \in Sessions /\ p.t \in Triggers BY DEF TypeInv, TypeOK
  <2>2. CASE s = p.s /\ t = p.t
    <3>1. claim'[s][t] = Ended(claim[s][t], "completed") BY <1>0, <2>1, <2>2
    <3> QED BY <2>1, <2>2, <3>1 DEF Ended, Completed
  <2>3. CASE ~(s = p.s /\ t = p.t)
    <3>1. claim'[s][t] = claim[s][t] BY <1>0, <2>1, <2>3
    <3> QED BY <3>1 DEF Kept
  <2> QED BY <2>2, <2>3
<1>7. ASSUME NEW l \in Launchers, Dispatch(l) PROVE Kept(s, t) \/ Admitted(s, t)
  <2>1. CASE ClaimTarget(l) BY <2>1, ClaimTargetSteps
  <2>2. CASE ~ClaimTarget(l)
        BY <1>7, <2>2, KeptByUnchanged
           DEF Dispatch, Resolve, Snapshot, Launch, Receipt, Mark, Refuse, tables
  <2> QED BY <2>1, <2>2
<1>8. ASSUME NEW l \in Launchers, Crash(l) PROVE Kept(s, t)
      BY <1>8, KeptByUnchanged DEF Crash, tables
<1>9. ASSUME NEW a \in Sessions, NEW u \in Triggers, Ages(a, u) PROVE Kept(s, t)
  <2>1. claim' = [claim EXCEPT ![a][u] = [claim[a][u] EXCEPT !.fresh = FALSE]]
        BY <1>9 DEF Ages
  <2>2. claim'[s][t] = IF s = a /\ t = u THEN [claim[a][u] EXCEPT !.fresh = FALSE]
                       ELSE claim[s][t]
        BY <1>0, <2>1
  <2>3. claim[a][u] \in ClaimRow BY <1>0
  <2> QED BY <2>2, <2>3 DEF Kept, ClaimRow
<1>10. CASE Recover
  <2>1. claim'[s] = Retire(s, {u \in Triggers : <<s, u>> \in Stale})
        BY <1>10 DEF Recover
  <2>2. CASE <<s, t>> \in Stale /\ claim[s][t].state = "active"
        BY <1>0, <1>10, <2>1, <2>2, RetireFacts DEF Retired
  <2>3. CASE ~(<<s, t>> \in Stale /\ claim[s][t].state = "active")
        BY <1>0, <2>1, <2>3, RetireFacts DEF Kept
  <2> QED BY <2>2, <2>3
<1>11. CASE BeginScan BY <1>11, KeptByUnchanged DEF BeginScan, tables
<1>12. CASE NextRow BY <1>12, KeptByUnchanged DEF NextRow
<1>13. ASSUME NEW u \in Triggers, Reads(u) \/ PostWatermark(u) PROVE Kept(s, t)
       BY <1>13, InboxOnly, KeptByUnchanged
<1> QED BY <1>1, <1>2, <1>3, <1>4, <1>5, <1>6, <1>7, <1>8, <1>9, <1>10, <1>11, <1>12,
           <1>13 DEF Next

\* The youngest claim of a trigger changes where a session's first one is inserted.
LatestMoves ==
  \/ latest' = latest
  \/ \E l \in Launchers :
       /\ ClaimTarget(l) /\ Admits(job[l].s, job[l].t)
       /\ claim[job[l].s][job[l].t].state = "none"
       /\ latest' = [latest EXCEPT ![job[l].t] = job[l].s]

SeatMoves ==
  \/ seat' = seat /\ generation' = generation
  \/ \E to \in Sessions \cup {Nobody} :
       /\ Handover(to)
       /\ to = seat' /\ seat' # seat /\ generation' = generation + 1

\* The ledger only grows.
LEMMA LedgerSteps ==
  ASSUME TypeInv, [Next]_vars
  PROVE  /\ LatestMoves /\ SeatMoves
         /\ hooked' = hooked /\ posted' \in Nat /\ posted \leq posted'
         /\ generation' \in Nat /\ generation \leq generation'
         /\ faults' \in Nat /\ faults \leq faults'
         /\ vouched \in Nat /\ vouched' \in Nat /\ vouched \leq vouched'
         /\ \A t \in Triggers : answered[t] \subseteq answered'[t]
<1> USE WakeAssumption
<1>0. /\ posted \in Nat /\ generation \in Nat /\ faults \in Nat /\ vouched \in Nat
      /\ answered \in [Triggers -> SUBSET {"parent", "worker"}]
      BY DEF TypeInv, TypeOK
<1>1. CASE UNCHANGED vars
      BY <1>0, <1>1 DEF vars, ledger, inbox, tables, LatestMoves, SeatMoves
<1>2. CASE Post BY <1>0, <1>2 DEF Post, inbox, LatestMoves, SeatMoves
<1>3. ASSUME NEW t \in Triggers, ParentAnswers(t)
      PROVE  /\ UNCHANGED <<latest, hooked, posted, seat, generation, vouched, faults>>
             /\ \A u \in Triggers : answered[u] \subseteq answered'[u]
      BY <1>0, <1>3 DEF ParentAnswers, inbox
<1>4. ASSUME NEW to \in Sessions \cup {Nobody}, Handover(to)
      PROVE  /\ UNCHANGED <<latest, hooked, posted, answered, faults>>
             /\ to = seat' /\ seat' # seat /\ generation' = generation + 1
             /\ vouched' \in Nat /\ vouched \leq vouched'
  <2>1. <<seat, to>>[1] # <<seat, to>>[2] BY <1>4 DEF Handover, WakeAssumption
  <2>2. vouched' \in Nat /\ vouched \leq vouched' BY <1>4, <1>0, InboxMoves
  <2> QED BY <1>4, <2>1, <2>2 DEF Handover
<1>5. ASSUME NEW p \in procs, Exits(p) PROVE UNCHANGED <<ledger, latest, faults>>
      BY <1>5 DEF Exits, tables
<1>6. ASSUME NEW p \in procs, NEW reply \in BOOLEAN, Reports(p, reply)
      PROVE  /\ UNCHANGED <<latest, hooked, posted, seat, generation, vouched, faults>>
             /\ \A t \in Triggers : answered[t] \subseteq answered'[t]
      BY <1>0, <1>6 DEF Reports, inbox
<1>7. ASSUME NEW l \in Launchers, Dispatch(l)
      PROVE  /\ UNCHANGED ledger /\ LatestMoves
             /\ faults' \in Nat /\ faults \leq faults'
  <2>1. CASE ClaimTarget(l)
        BY <1>0, <2>1 DEF ClaimTarget, LatestMoves
  <2>2. CASE Receipt(l) BY <1>0, <2>2 DEF Receipt, LatestMoves
  <2>3. CASE Resolve(l) \/ Snapshot(l) \/ Launch(l) \/ Mark(l) \/ Refuse(l)
        BY <1>0, <2>3 DEF Resolve, Snapshot, Launch, Mark, Refuse, tables, LatestMoves
  <2> QED BY <1>7, <2>1, <2>2, <2>3 DEF Dispatch
<1>8. ASSUME NEW l \in Launchers, Crash(l)
      PROVE  UNCHANGED <<ledger, latest>> /\ faults' \in Nat /\ faults \leq faults'
      BY <1>0, <1>8 DEF Crash, tables
<1>9. ASSUME NEW s \in Sessions, NEW t \in Triggers, Ages(s, t)
      PROVE  UNCHANGED <<ledger, latest, faults>>
      BY <1>9 DEF Ages
<1>10. CASE Recover \/ BeginScan \/ NextRow
  <2>1. UNCHANGED <<ledger, latest, faults>>
        BY <1>10 DEF Recover, BeginScan, NextRow, tables
  <2> QED BY <1>0, <2>1 DEF ledger, inbox, LatestMoves, SeatMoves
<1>11. CASE \E p \in procs : Exits(p) \/ \E reply \in BOOLEAN : Reports(p, reply)
      BY <1>0, <1>5, <1>6, <1>11 DEF ledger, inbox, LatestMoves, SeatMoves
<1>12. CASE \E l \in Launchers : Dispatch(l) \/ Crash(l)
      BY <1>0, <1>7, <1>8, <1>12 DEF ledger, inbox, LatestMoves, SeatMoves
<1>13. CASE \E s \in Sessions, t \in Triggers : Ages(s, t)
      BY <1>0, <1>9, <1>13 DEF ledger, inbox, LatestMoves, SeatMoves
<1>14. CASE \E t \in Triggers : ParentAnswers(t)
      BY <1>0, <1>3, <1>14 DEF LatestMoves, SeatMoves
<1>15. CASE \E to \in Sessions \cup {Nobody} : Handover(to)
      BY <1>0, <1>4, <1>15 DEF LatestMoves, SeatMoves
<1>16. CASE \E t \in Triggers : Reads(t) \/ PostWatermark(t)
  <2>1. vouched' \in Nat /\ vouched \leq vouched' BY <1>16, <1>0, InboxMoves
  <2>2. UNCHANGED <<hooked, posted, answered, seat, generation, latest, faults>>
        BY <1>16, InboxOnly
  <2> QED BY <1>0, <2>1, <2>2 DEF LatestMoves, SeatMoves
<1> QED BY <1>1, <1>2, <1>10, <1>11, <1>12, <1>13, <1>14, <1>15, <1>16 DEF Next

\* A launcher goes on to pc with the trigger and the session it is at.
Carries(l, pc) ==
  job'[l].pc = pc /\ job'[l].t = job[l].t /\ job'[l].s = job[l].s

\* Where a launcher may be after one step.
JobShape(l) ==
  \/ job'[l] = job[l]
  \/ /\ job'[l].pc \in {"idle", "scan"} /\ (l = "hook" => job'[l] = Idle)
     /\ At(l, "receipt") => Crash(l)
  \/ l = "hook" /\ hooked /\ job'[l] = Dispatching(posted + 1)
  \/ l = "pump" /\ At(l, "scan") /\ \E row \in scan :
       NextRow /\ Demanded(row.t) /\ job'[l] = Dispatching(row.t)
  \/ /\ Resolve(l) /\ seat # Nobody
     /\ job'[l].pc = "snapshot" /\ job'[l].t = job[l].t /\ job'[l].s = seat
  \/ Snapshot(l) /\ Carries(l, "claim")
  \/ ClaimTarget(l) /\ Admits(job[l].s, job[l].t) /\ Carries(l, "launch")
  \/ /\ ClaimTarget(l) /\ ~Admits(job[l].s, job[l].t) /\ RefusalCloses(job[l].s, job[l].t)
     /\ Carries(l, "close")
  \/ Launch(l) /\ Carries(l, "receipt") /\ job'[l].pid = NewPid
  \/ Receipt(l) /\ Carries(l, "mark")

LEMMA DispatchJobs ==
  ASSUME TypeInv, NEW l \in Launchers, Dispatch(l)
  PROVE  JobShape(l) /\ \A k \in Launchers \ {l} : job'[k] = job[k]
<1>0. job \in [Launchers -> JobRow] /\ job[l] \in JobRow BY DEF TypeInv, JobsTyped
<1>1. ASSUME NEW n \in Nat, Finish(l, n), ~At(l, "receipt")
      PROVE  JobShape(l) /\ \A k \in Launchers \ {l} : job'[k] = job[k]
  <2>1. PICK pc \in {"idle", "scan"} : job' = [job EXCEPT ![l] = [Idle EXCEPT !.pc = pc]]
        BY <1>1, FinishMoves
  <2>2. job'[l].pc \in {"idle", "scan"} BY <1>0, <2>1 DEF Idle
  <2>3. l = "hook" => job'[l] = Idle BY <1>0, <1>1, FinishMoves
  <2>4. \A k \in Launchers \ {l} : job'[k] = job[k] BY <1>0, <2>1
  <2> QED BY <1>1, <2>2, <2>3, <2>4 DEF JobShape
<1>2. \A j : Goto(l, j) => job'[l] = j /\ \A k \in Launchers \ {l} : job'[k] = job[k]
      BY <1>0 DEF Goto
<1>3. \A pc : /\ To(l, pc).pc = pc /\ To(l, pc).t = job[l].t /\ To(l, pc).s = job[l].s
              /\ \A g : /\ [To(l, pc) EXCEPT !.gen = g].pc = pc
                        /\ [To(l, pc) EXCEPT !.gen = g].t = job[l].t
                        /\ [To(l, pc) EXCEPT !.gen = g].s = job[l].s
              /\ \A n : /\ [To(l, pc) EXCEPT !.pid = n].pc = pc
                        /\ [To(l, pc) EXCEPT !.pid = n].t = job[l].t
                        /\ [To(l, pc) EXCEPT !.pid = n].s = job[l].s
                        /\ [To(l, pc) EXCEPT !.pid = n].pid = n
              /\ \A s : /\ [To(l, pc) EXCEPT !.s = s].pc = pc
                        /\ [To(l, pc) EXCEPT !.s = s].t = job[l].t
                        /\ [To(l, pc) EXCEPT !.s = s].s = s
      BY <1>0 DEF To, JobRow
<1>4. CASE Resolve(l)
  <2>1. CASE Finish(l, 0) BY <2>1, <1>1, <1>4 DEF Resolve, At
  <2>2. CASE seat # Nobody /\ Goto(l, [To(l, "snapshot") EXCEPT !.s = seat])
    <3>1. /\ job'[l] = [To(l, "snapshot") EXCEPT !.s = seat]
          /\ \A k \in Launchers \ {l} : job'[k] = job[k]
          BY <2>2, <1>2
    <3>2. job'[l].pc = "snapshot" /\ job'[l].t = job[l].t /\ job'[l].s = seat
          BY <3>1, <1>3
    <3> QED BY <2>2, <3>1, <3>2, <1>4 DEF JobShape
  <2> QED BY <1>4, <2>1, <2>2 DEF Resolve
<1>5. CASE Snapshot(l)
  <2>1. PICK g : Goto(l, [To(l, "claim") EXCEPT !.gen = g]) BY <1>5 DEF Snapshot
  <2>2. /\ job'[l] = [To(l, "claim") EXCEPT !.gen = g]
        /\ \A k \in Launchers \ {l} : job'[k] = job[k]
        BY <2>1, <1>2
  <2>3. Carries(l, "claim") BY <2>2, <1>3 DEF Carries
  <2> QED BY <2>2, <2>3, <1>5 DEF JobShape
<1>6. CASE ClaimTarget(l)
  <2>1. CASE Admits(job[l].s, job[l].t)
    <3>1. Goto(l, To(l, "launch")) BY <1>6, <2>1 DEF ClaimTarget, Step
    <3> QED BY <3>1, <2>1, <1>2, <1>3, <1>6 DEF JobShape, Carries
  <2>2. CASE ~Admits(job[l].s, job[l].t) /\ RefusalCloses(job[l].s, job[l].t)
    <3>1. Goto(l, To(l, "close")) BY <1>6, <2>2 DEF ClaimTarget, Step
    <3> QED BY <3>1, <2>2, <1>2, <1>3, <1>6 DEF JobShape, Carries
  <2>3. CASE ~Admits(job[l].s, job[l].t) /\ ~RefusalCloses(job[l].s, job[l].t)
    <3>1. Finish(l, 0) /\ ~At(l, "receipt") BY <1>6, <2>3 DEF ClaimTarget, At
    <3> QED BY <3>1, <1>1
  <2> QED BY <2>1, <2>2, <2>3
<1>7. CASE Launch(l)
  <2>1. Goto(l, [To(l, "receipt") EXCEPT !.pid = NewPid]) BY <1>7 DEF Launch
  <2>2. /\ job'[l] = [To(l, "receipt") EXCEPT !.pid = NewPid]
        /\ \A k \in Launchers \ {l} : job'[k] = job[k]
        BY <2>1, <1>2
  <2>3. Carries(l, "receipt") /\ job'[l].pid = NewPid BY <2>2, <1>3 DEF Carries
  <2> QED BY <2>2, <2>3, <1>7 DEF JobShape
<1>8. CASE Receipt(l)
  <2>1. Goto(l, To(l, "mark")) BY <1>8 DEF Receipt, Step
  <2> QED BY <2>1, <1>2, <1>3, <1>8 DEF JobShape, Carries
<1>9. CASE Mark(l)
  <2>1. (Finish(l, 0) \/ Finish(l, 1)) /\ ~At(l, "receipt") BY <1>9 DEF Mark, At
  <2> QED BY <2>1, <1>1
<1>10. CASE Refuse(l) BY <1>10, <1>1 DEF Refuse, At
<1> QED BY <1>4, <1>5, <1>6, <1>7, <1>8, <1>9, <1>10 DEF Dispatch

LEMMA JobShapes ==
  ASSUME TypeInv, [Next]_vars, NEW l \in Launchers
  PROVE  JobShape(l)
<1>0. job \in [Launchers -> JobRow] BY DEF TypeInv, JobsTyped
<1>1. CASE UNCHANGED job BY <1>1 DEF JobShape
<1>2. CASE Post
  <2>1. CASE UNCHANGED job BY <2>1 DEF JobShape
  <2>2. CASE hooked /\ job' = [job EXCEPT !["hook"] = Dispatching(posted + 1)]
        BY <1>0, <2>2 DEF JobShape, Launchers
  <2> QED BY <1>2, <2>1, <2>2 DEF Post
<1>3. CASE \E k \in Launchers : Dispatch(k) BY <1>3, DispatchJobs DEF JobShape
<1>4. ASSUME NEW k \in Launchers, Crash(k) PROVE JobShape(l)
  <2>1. job' = [job EXCEPT ![k] = Idle] BY <1>4 DEF Crash, Goto
  <2> QED BY <1>0, <1>4, <2>1 DEF JobShape, Idle
<1>5. CASE BeginScan
  <2>1. job' = [job EXCEPT !["pump"] = [Idle EXCEPT !.pc = "scan"]]
        BY <1>5 DEF BeginScan, Goto
  <2>2. At("pump", "idle") BY <1>5 DEF BeginScan
  <2> QED BY <1>0, <2>1, <2>2 DEF JobShape, Idle, Launchers, At
<1>6. CASE NextRow
  <2>1. CASE EndScan
    <3>1. job' = [job EXCEPT !["pump"] = Idle] BY <2>1 DEF EndScan, Goto
    <3>2. At("pump", "scan") BY <1>6 DEF NextRow
    <3> QED BY <1>0, <3>1, <3>2 DEF JobShape, Idle, Launchers, At
  <2>2. CASE UNCHANGED job BY <2>2 DEF JobShape
  <2>3. ASSUME NEW row \in scan, Begin(row.t) PROVE JobShape(l)
    <3>1. job' = [job EXCEPT !["pump"] = Dispatching(row.t)] /\ Demanded(row.t)
          BY <2>3 DEF Begin, Goto
    <3>2. At("pump", "scan") BY <1>6 DEF NextRow
    <3> QED BY <1>0, <1>6, <3>1, <3>2 DEF JobShape, Launchers
  <2> QED BY <1>6, <2>1, <2>2, <2>3 DEF NextRow, SkipTerminal, Hold
<1>7. CASE \/ \E t \in Triggers : ParentAnswers(t) \/ Reads(t) \/ PostWatermark(t)
           \/ \E to \in Sessions \cup {Nobody} : Handover(to)
           \/ \E p \in procs : Exits(p) \/ \E reply \in BOOLEAN : Reports(p, reply)
           \/ \E s \in Sessions, t \in Triggers : Ages(s, t)
           \/ Recover \/ UNCHANGED vars
      BY <1>7, <1>1 DEF ParentAnswers, Reads, PostWatermark, Handover, Exits, Reports,
         Ages, Recover, vars
<1> QED BY <1>2, <1>3, <1>4, <1>5, <1>6, <1>7 DEF Next

\* Processes end, and only a launcher at "launch" starts one.
LEMMA ProcSteps ==
  ASSUME TypeInv, [Next]_vars
  PROVE  \/ procs' \subseteq procs
         \/ \E l \in Launchers :
              /\ Launch(l)
              /\ procs' = procs \cup {[pid |-> NewPid, s |-> job[l].s, t |-> job[l].t]}
<1>1. CASE \E l \in Launchers : Launch(l) BY <1>1 DEF Launch
<1>2. CASE \E p \in procs : Exits(p) BY <1>2 DEF Exits
<1>3. CASE ~(\E l \in Launchers : Launch(l)) /\ ~(\E p \in procs : Exits(p))
  <2>1. procs' = procs
        BY <1>3 DEF Next, vars, Post, ParentAnswers, Reads, PostWatermark, Handover, Reports,
           Dispatch, Resolve, Snapshot, ClaimTarget, Receipt, Mark, Refuse, Crash, Ages,
           Recover, BeginScan, NextRow
  <2> QED BY <2>1
<1> QED BY <1>1, <1>2, <1>3

\* A wake row comes to say 'terminal_no_action' only from a launcher at "close".
LEMMA WakeSteps ==
  ASSUME TypeInv, [Next]_vars, NEW s \in Sessions, NEW t \in Triggers,
         wake'[s][t] = "terminal_no_action"
  PROVE  \/ wake[s][t] = "terminal_no_action"
         \/ \E l \in Launchers : At(l, "close") /\ job[l].s = s /\ job[l].t = t
<1>0. wake \in [Sessions -> [Triggers -> Results]] BY DEF TypeInv, TypeOK
<1>1. CASE wake' = wake BY <1>1
<1>2. ASSUME NEW l \in Launchers, Resolve(l)
      PROVE  wake[s][t] = "terminal_no_action"
  <2>1. \/ wake' = wake \/ wake' = [wake EXCEPT ![seat][job[l].t] = "dry_run"]
        BY <1>2 DEF Resolve
  <2> QED BY <1>0, <2>1
<1>3. ASSUME NEW l \in Launchers, Mark(l)
      PROVE  \/ wake[s][t] = "terminal_no_action"
             \/ At(l, "close") /\ job[l].s = s /\ job[l].t = t
  <2>1. PICK result : /\ Marked(l, result)
                      /\ result = "terminal_no_action" => At(l, "close")
                      /\ result \in {"dispatched", "terminal_no_action"}
        BY <1>3 DEF Mark
  <2>2. job[l].pc \in OwnerKnown /\ job[l].pc \in DispatchPCs
        BY <1>3 DEF Mark, At, OwnerKnown, DispatchPCs
  <2>3. job[l].s \in Sessions /\ job[l].t \in Triggers BY <2>2, TargetKnown
  <2>4. wake'[s][t] = IF s = job[l].s /\ t = job[l].t
                      THEN IF wake[s][t] = "dry_run" THEN result ELSE wake[s][t]
                      ELSE wake[s][t]
        BY <1>0, <2>1, <2>3 DEF Marked
  <2> QED BY <2>1, <2>4
<1>4. CASE ~(\E l \in Launchers : Resolve(l) \/ Mark(l))
  <2>1. wake' = wake
        BY <1>4 DEF Next, vars, tables, Post, ParentAnswers, Reads, PostWatermark, Handover,
           Exits, Reports, Dispatch, Snapshot, ClaimTarget, Launch, Receipt, Refuse, Crash,
           Ages, Recover, BeginScan, NextRow
  <2> QED BY <2>1
<1> QED BY <1>2, <1>3, <1>4

\* A queue row goes only when the trigger is terminal and acknowledged.
LEMMA PendingSteps ==
  ASSUME TypeInv, [Next]_vars
  PROVE  \/ posted' = posted /\ pending' = pending
         \/ posted' = posted + 1 /\ pending' = pending \cup {posted + 1}
         \/ \E t \in 1 .. posted :
              /\ posted' = posted /\ pending' = pending \ {t}
              /\ Terminal(t) /\ Acknowledged(t)
<1>1. CASE Post BY <1>1 DEF Post
<1>2. ASSUME NextRow, NEW row \in scan, SkipTerminal(row)
      PROVE  \/ posted' = posted /\ pending' = pending
             \/ \E t \in 1 .. posted :
                  /\ posted' = posted /\ pending' = pending \ {t}
                  /\ Terminal(t) /\ Acknowledged(t)
  <2>1. row.t \in 1 .. posted BY DEF TypeInv, ScanTyped
  <2> QED BY <1>2, <2>1 DEF NextRow, SkipTerminal, ledger
<1>3. CASE NextRow /\ ~(\E row \in scan : SkipTerminal(row))
      BY <1>3 DEF NextRow, Hold, Begin, EndScan, ledger
<1>4. CASE ~Post /\ ~NextRow
      BY <1>4 DEF Next, vars, ledger, tables, ParentAnswers, Reads, PostWatermark, Handover,
         Exits, Reports, Dispatch, Resolve, Snapshot, ClaimTarget, Launch, Receipt, Mark,
         Refuse, Crash, Ages, Recover, BeginScan
<1> QED BY <1>1, <1>2, <1>3, <1>4

\* Only what is posted, or has a claim, is answered.
LEMMA AnswerSteps ==
  ASSUME TypeInv, [Next]_vars, NEW t \in Triggers
  PROVE  \/ answered'[t] = answered[t]
         \/ t \leq posted \/ \E s \in Sessions : claim[s][t].state # "none"
<1>0. answered \in [Triggers -> SUBSET {"parent", "worker"}] BY DEF TypeInv, TypeOK
<1>1. ASSUME NEW u \in Triggers, ParentAnswers(u)
      PROVE  answered'[t] = answered[t] \/ t \leq posted
      BY <1>0, <1>1 DEF ParentAnswers
<1>2. ASSUME NEW p \in procs, NEW reply \in BOOLEAN, Reports(p, reply)
      PROVE  \/ answered'[t] = answered[t]
             \/ \E s \in Sessions : claim[s][t].state # "none"
  <2>1. p.s \in Sessions BY DEF TypeInv, TypeOK
  <2> QED BY <1>0, <1>2, <2>1 DEF Reports
<1>3. CASE /\ ~(\E u \in Triggers : ParentAnswers(u))
           /\ ~(\E p \in procs : \E reply \in BOOLEAN : Reports(p, reply))
  <2>1. answered' = answered
        BY <1>3 DEF Next, vars, ledger, Post, Reads, PostWatermark, Handover, Exits, Dispatch,
           Resolve, Snapshot, ClaimTarget, Launch, Receipt, Mark, Refuse, Crash, Ages, Recover,
           BeginScan, NextRow
  <2> QED BY <2>1
<1> QED BY <1>1, <1>2, <1>3

--------------------------------------------------------------------------------
(* Claims are the owners', and what is closed is settled                   *)

LEMMA OwnersKept ==
  ASSUME TypeInv, ClaimsOfOwners, [Next]_vars
  PROVE  ClaimsOfOwners'
<1> USE WakeAssumption
<1>0. /\ posted \in Nat /\ posted' \in Nat /\ posted \leq posted'
      /\ generation \in Nat \ {0} /\ generation' \in Nat /\ generation \leq generation'
      /\ latest \in [Triggers -> Sessions \cup {Nobody}]
      /\ LatestMoves /\ SeatMoves
      BY LedgerSteps DEF TypeInv, TypeOK
<1>1. ASSUME NEW t \in Triggers, t > posted'
      PROVE  answered'[t] = {} /\ latest'[t] = Nobody
  <2>1. ~(t \leq posted) /\ t \in Int BY <1>0, <1>1 DEF Triggers
  <2>2. answered[t] = {} /\ latest[t] = Nobody /\ \A s \in Sessions : claim[s][t].state = "none"
        BY <2>1, <1>0 DEF ClaimsOfOwners
  <2>3. answered'[t] = {} BY <2>1, <2>2, AnswerSteps
  <2>4. \A l \in Launchers : ClaimTarget(l) => job[l].t \leq posted /\ job[l].t \in Triggers
        BY TargetKnown DEF ClaimTarget, At, DispatchPCs
  <2>5. latest'[t] = latest[t] BY <1>0, <2>1, <2>4 DEF LatestMoves
  <2> QED BY <2>2, <2>3, <2>5
<1>2. ASSUME NEW s \in Sessions, NEW t \in Triggers, claim'[s][t].state # "none"
      PROVE  /\ t \leq posted'
             /\ claim'[s][t].state = "active" => s = seat'
             /\ generation' = 1 => s = seat'
             /\ s = seat' /\ generation' \leq 2 => latest'[t] = s
  <2>0. t \in Int BY DEF Triggers
  <2>1. Kept(s, t) \/ Admitted(s, t) \/ Completed(s, t) \/ Retired(s, t) BY ClaimSteps
  <2>2. /\ claim[s][t].state # "none" => t \leq posted
        /\ claim[s][t].state = "active" => s = seat
        /\ claim[s][t].state # "none" /\ generation = 1 => s = seat
        /\ claim[s][t].state # "none" /\ s = seat /\ generation \leq 2 => latest[t] = s
        BY DEF ClaimsOfOwners
  <2>3. CASE \E to \in Sessions \cup {Nobody} :
               Handover(to) /\ to = seat' /\ seat' # seat /\ generation' = generation + 1
    <3>1. PICK to \in Sessions \cup {Nobody} :
               Handover(to) /\ to = seat' /\ seat' # seat /\ generation' = generation + 1
          BY <2>3
    <3>2. claim' = [a \in Sessions |-> IF a = seat THEN Retire(a, Triggers) ELSE claim[a]]
          BY <3>1 DEF Handover
    <3>3. /\ claim'[s][t].state # "active" /\ claim[s][t].state # "none"
      <4>1. CASE s = seat
        <5>1. claim'[s] = Retire(s, Triggers) BY <3>2, <4>1
        <5> QED BY <5>1, RetireFacts, <1>2 DEF TypeInv
      <4>2. CASE s # seat
        <5>1. claim'[s] = claim[s] BY <3>2, <4>2
        <5> QED BY <5>1, <4>2, <2>2, <1>2
      <4> QED BY <4>1, <4>2
    <3> QED BY <3>1, <3>3, <2>0, <2>2, <1>0
  <2>4. CASE seat' = seat /\ generation' = generation
    <3>1. CASE claim[s][t].state # "none"
      <4>1. claim'[s][t].state = "active" => s = seat
            BY <2>1, <2>2 DEF Kept, Admitted, Admits, Completed, Retired
      <4>2. s = seat /\ generation \leq 2 => latest'[t] = s
        <5> SUFFICES ASSUME s = seat, generation \leq 2 PROVE latest'[t] = s OBVIOUS
        <5>1. latest[t] = s BY <3>1, <2>2
        <5>2. ASSUME NEW l \in Launchers, Admits(job[l].s, job[l].t),
                     latest' = [latest EXCEPT ![job[l].t] = job[l].s]
              PROVE  latest'[t] = s
              BY <1>0, <5>1, <5>2 DEF Admits
        <5> QED BY <1>0, <5>1, <5>2 DEF LatestMoves
      <4> QED BY <3>1, <4>1, <4>2, <2>0, <2>2, <2>4, <1>0
    <3>2. CASE claim[s][t].state = "none"
      <4>1. Admitted(s, t) BY <3>2, <2>1, <1>2 DEF Kept, Completed, Retired
      <4>2. PICK l \in Launchers : ClaimTarget(l) /\ job[l].s = s /\ job[l].t = t
            BY <4>1 DEF Admitted
      <4>3. s = seat /\ Admits(s, t) BY <4>1 DEF Admitted, Admits
      <4>4. t \leq posted BY <4>2, TargetKnown DEF ClaimTarget, At, DispatchPCs
      <4>5. latest' = [latest EXCEPT ![t] = s]
            BY <3>2, <4>2, <4>3 DEF ClaimTarget
      <4>6. latest'[t] = s BY <4>5, <1>0
      <4> QED BY <4>3, <4>4, <4>6, <2>0, <2>4, <1>0
    <3> QED BY <3>1, <3>2
  <2> QED BY <2>3, <2>4, <1>0 DEF SeatMoves
<1>3. ASSUME NEW s \in Sessions, NEW t \in Triggers, claim'[s][t].state = "none"
      PROVE  claim'[s][t].requeues = 0
  <2>1. Kept(s, t) \/ Admitted(s, t) \/ Completed(s, t) \/ Retired(s, t) BY ClaimSteps
  <2>2. ClaimedAgain(claim[s][t]).state = "active" BY DEF ClaimedAgain
  <2> QED BY <1>3, <2>1, <2>2 DEF Kept, Admitted, Completed, Retired, ClaimsOfOwners
<1> QED BY <1>1, <1>2, <1>3 DEF ClaimsOfOwners

\* What is settled stays settled.
LEMMA SettledKept ==
  ASSUME TypeInv, [Next]_vars, NEW s \in Sessions, NEW t \in Triggers, Settled(s, t)
  PROVE  Settled(s, t)'
<1>0. claim[s][t] \in ClaimRow BY DEF TypeInv, TypeOK, ClaimRow
<1>1. CASE Answered(t) BY <1>1, LedgerSteps DEF Answered, Settled
<1>2. CASE ~Answered(t) /\ (claim[s][t].state = "completed" \/ Exhausted(s, t))
  <2>1. ~Admits(s, t)
        BY <1>0, <1>2, WakeAssumption DEF Admits, Exhausted, ClaimRow
  <2>2. Kept(s, t)
        BY <1>2, <2>1, ClaimSteps DEF Admitted, Completed, Retired, Exhausted
  <2> QED BY <1>2, <2>2 DEF Kept, Settled, Exhausted
<1> QED BY <1>1, <1>2 DEF Settled

LEMMA ClosingKept ==
  ASSUME TypeInv, ClosingIsSettled, [Next]_vars
  PROVE  ClosingIsSettled'
<1> SUFFICES ASSUME NEW l \in Launchers, job'[l].pc = "close"
             PROVE  Settled(job[l].s, job[l].t)'
                    /\ job'[l].s = job[l].s /\ job'[l].t = job[l].t
    BY DEF ClosingIsSettled, At, Settled, Answered, Exhausted
<1>1. CASE job'[l] = job[l]
  <2>1. At(l, "close") /\ job[l].pc \in OwnerKnown /\ job[l].pc \in DispatchPCs
        BY <1>1 DEF At, OwnerKnown, DispatchPCs
  <2>2. Settled(job[l].s, job[l].t) BY <2>1 DEF ClosingIsSettled
  <2>3. job[l].s \in Sessions /\ job[l].t \in Triggers BY <2>1, TargetKnown
  <2> QED BY <1>1, <2>2, <2>3, SettledKept
<1>2. CASE /\ ClaimTarget(l) /\ ~Admits(job[l].s, job[l].t)
           /\ RefusalCloses(job[l].s, job[l].t) /\ Carries(l, "close")
  <2>1. job[l].pc \in OwnerKnown /\ job[l].pc \in DispatchPCs
        BY <1>2 DEF ClaimTarget, At, OwnerKnown, DispatchPCs
  <2>2. job[l].s \in Sessions /\ job[l].t \in Triggers BY <2>1, TargetKnown
  <2>3. claim[job[l].s][job[l].t] \in ClaimRow BY <2>2 DEF TypeInv, TypeOK, ClaimRow
  <2>4. Settled(job[l].s, job[l].t)
        BY <1>2, <2>3, WakeAssumption
           DEF Admits, RefusalCloses, Settled, Answered, Exhausted, ClaimRow
  <2> QED BY <1>2, <2>2, <2>4, SettledKept DEF Carries
<1>3. \/ job'[l] = job[l]
      \/ /\ ClaimTarget(l) /\ ~Admits(job[l].s, job[l].t)
         /\ RefusalCloses(job[l].s, job[l].t) /\ Carries(l, "close")
  <2>1. JobShape(l) BY JobShapes
  <2>2. Idle.pc = "idle" /\ \A t : Dispatching(t).pc = "resolve" BY DEF Idle, Dispatching
  <2> QED BY <2>1, <2>2 DEF JobShape, Carries
<1> QED BY <1>1, <1>2, <1>3

LEMMA ClosedKept ==
  ASSUME TypeInv, ClosingIsSettled, ClosedIsSettled, [Next]_vars
  PROVE  ClosedIsSettled'
<1> SUFFICES ASSUME NEW s \in Sessions, NEW t \in Triggers,
                    wake'[s][t] = "terminal_no_action"
             PROVE  Settled(s, t)'
    BY DEF ClosedIsSettled, Settled, Answered, Exhausted
<1>1. Settled(s, t)
  <2>1. CASE wake[s][t] = "terminal_no_action" BY <2>1 DEF ClosedIsSettled, Settled
  <2>2. CASE \E l \in Launchers : At(l, "close") /\ job[l].s = s /\ job[l].t = t
        BY <2>2 DEF ClosingIsSettled
  <2> QED BY <2>1, <2>2, WakeSteps
<1> QED BY <1>1, SettledKept

\* What somebody vouched for stays vouched for.
LEMMA VouchedKept ==
  ASSUME TypeInv, CursorsVouched, [Next]_vars
  PROVE  CursorsVouched'
<1>1. CASE \/ \E t \in Triggers : Reads(t) \/ PostWatermark(t)
           \/ \E to \in Sessions \cup {Nobody} : Handover(to)
      BY <1>1, InboxMoves
<1>2. CASE /\ ~(\E t \in Triggers : Reads(t) \/ PostWatermark(t))
           /\ ~(\E to \in Sessions \cup {Nobody} : Handover(to))
  <2>1. UNCHANGED inbox
        BY <1>2 DEF Next, vars, ledger, Post, ParentAnswers, Exits, Reports, Dispatch,
           Resolve, Snapshot, ClaimTarget, Launch, Receipt, Mark, Refuse, Crash, Ages, Recover,
           BeginScan, NextRow
  <2> QED BY <2>1 DEF CursorsVouched, inbox
<1> QED BY <1>1, <1>2

\* A reply, a declined claim and a cursor put behind the trigger are for ever.
Over(t) ==
  \/ Answered(t) \/ t \leq vouched
  \/ \E s \in Sessions : claim[s][t].state = "completed"

LEMMA OverKept ==
  ASSUME TypeInv, [Next]_vars, NEW t \in Triggers, Over(t)
  PROVE  Over(t)'
<1>1. CASE Answered(t) BY <1>1, LedgerSteps DEF Answered, Over
<1>2. ASSUME NEW s \in Sessions, claim[s][t].state = "completed"
      PROVE  Over(t)'
  <2>1. claim'[s][t].state = "completed" \/ Admitted(s, t)
        BY <1>2, ClaimSteps DEF Kept, Completed, Retired
  <2>2. ~Admitted(s, t) BY <1>2 DEF Admitted, Admits
  <2> QED BY <2>1, <2>2 DEF Over
<1>3. CASE t \leq vouched
  <2>1. t \in Nat /\ vouched \in Nat /\ vouched' \in Nat /\ vouched \leq vouched'
        BY LedgerSteps DEF Triggers
  <2> QED BY <1>3, <2>1 DEF Over
<1> QED BY <1>1, <1>2, <1>3 DEF Over

\* A delivery is completed only where the role answered, a worker declined or
\* somebody vouched: the acknowledgement by a receipt is of a claim in force or
\* completed, and a closed row of such a claim is one that is completed.
LEMMA AcknowledgedIsOver ==
  ASSUME TypeInv, ClosedIsSettled, CursorsVouched, NEW t \in Triggers, Terminal(t),
         Acknowledged(t)
  PROVE  Over(t)
<1>1. seat \in Sessions BY DEF Terminal, TypeInv, TypeOK
<1>2. CASE Answered(t) BY <1>2 DEF Over
<1>3. CASE ClaimState(t) = "completed"
  <2>1. latest[t] \in Sessions /\ claim[latest[t]][t].state = "completed"
        BY <1>3 DEF ClaimState, TypeInv, TypeOK
  <2> QED BY <2>1 DEF Over
<1>5. CASE t \leq watermark \/ t \leq cursor[seat]
  <2>1. /\ t \in Nat /\ vouched \in Nat /\ watermark \in Nat /\ cursor[seat] \in Nat
    <3>1. posted \in Nat BY WakeAssumption DEF TypeInv, TypeOK
    <3> QED BY <1>1, <3>1 DEF TypeInv, TypeOK, Triggers
  <2>2. watermark \leq vouched /\ cursor[seat] \leq vouched BY <1>1 DEF CursorsVouched
  <2> QED BY <1>5, <2>1, <2>2 DEF Over
<1>4. CASE /\ ~Answered(t) /\ ~(t \leq watermark) /\ ~(t \leq cursor[seat])
           /\ wake[seat][t] = "terminal_no_action"
  <2>1. claim[seat][t].state \in {"active", "completed"}
        BY <1>4 DEF Acknowledged, Confirmed
  <2>2. claim[seat][t].state = "completed" \/ Exhausted(seat, t)
        BY <1>1, <1>4 DEF ClosedIsSettled
  <2> QED BY <1>1, <2>1, <2>2 DEF Exhausted, Over
<1> QED BY <1>2, <1>3, <1>4, <1>5 DEF Terminal

LEMMA QueuedKept ==
  ASSUME TypeInv, ClosedIsSettled, CursorsVouched, OpenIsQueued, [Next]_vars
  PROVE  OpenIsQueued'
<1> SUFFICES ASSUME NEW t \in 1 .. posted', t \notin pending' PROVE Over(t)'
    BY DEF OpenIsQueued, Over, Answered
<1>0. posted \in 0 .. LastTrigger /\ LastTrigger \in Nat
      BY WakeAssumption DEF TypeInv, TypeOK
<1>1. t \in 1 .. posted /\ (t \notin pending \/ (Terminal(t) /\ Acknowledged(t)))
      BY <1>0, PendingSteps
<1>2. t \in Triggers BY <1>0, <1>1 DEF Triggers
<1>3. CASE t \notin pending
  <2>1. Over(t) BY <1>1, <1>3 DEF OpenIsQueued, Over
  <2> QED BY <1>2, <2>1, OverKept
<1>4. CASE Terminal(t) /\ Acknowledged(t) BY <1>2, <1>4, AcknowledgedIsOver, OverKept
<1> QED BY <1>1, <1>3, <1>4

--------------------------------------------------------------------------------
(* Workers have claims, and the pump alone never starts a twin              *)

LEMMA ProcKnown ==
  ASSUME TypeInv, NEW p \in procs
  PROVE  p.s \in Sessions /\ p.t \in Triggers /\ p.pid \in AlivePids
BY DEF TypeInv, TypeOK, AlivePids

LEMMA ClaimStays ==
  ASSUME TypeInv, [Next]_vars, NEW s \in Sessions, NEW t \in Triggers,
         claim[s][t].state # "none"
  PROVE  claim'[s][t].state # "none"
<1>1. Kept(s, t) \/ Admitted(s, t) \/ Completed(s, t) \/ Retired(s, t) BY ClaimSteps
<1>2. ClaimedAgain(claim[s][t]).state = "active" BY DEF ClaimedAgain
<1> QED BY <1>1, <1>2 DEF Kept, Admitted, Completed, Retired

\* A claim that is admitted is in force, and its launcher goes on to launch.
LEMMA AdmittedMoves ==
  ASSUME TypeInv, NEW l \in Launchers, ClaimTarget(l), Admits(job[l].s, job[l].t)
  PROVE  claim'[job[l].s][job[l].t].state = "active" /\ job'[l].pc = "launch"
<1>1. job[l].pc \in OwnerKnown /\ job[l].pc \in DispatchPCs
      BY DEF ClaimTarget, At, OwnerKnown, DispatchPCs
<1>2. job[l].s \in Sessions /\ job[l].t \in Triggers BY <1>1, TargetKnown
<1>3. claim' = [claim EXCEPT ![job[l].s][job[l].t] = ClaimedAgain(@)]
      /\ job' = [job EXCEPT ![l] = To(l, "launch")]
      BY DEF ClaimTarget, Step, Goto
<1>4. claim'[job[l].s][job[l].t] = ClaimedAgain(claim[job[l].s][job[l].t])
      BY <1>2, <1>3 DEF TypeInv, TypeOK
<1>5. job'[l].pc = "launch" BY <1>3 DEF To, TypeInv, JobsTyped, JobRow
<1> QED BY <1>4, <1>5 DEF ClaimedAgain

LEMMA WorkersKept ==
  ASSUME TypeInv, WorkersClaimed, [Next]_vars
  PROVE  WorkersClaimed'
<1>1. ASSUME NEW p \in procs' PROVE claim'[p.s][p.t].state # "none"
  <2>1. CASE p \in procs
        BY <2>1, ProcKnown, ClaimStays DEF WorkersClaimed
  <2>2. CASE p \notin procs
    <3>1. PICK l \in Launchers :
             Launch(l) /\ p = [pid |-> NewPid, s |-> job[l].s, t |-> job[l].t]
          BY <1>1, <2>2, ProcSteps
    <3>2. claim' = claim /\ At(l, "launch") BY <3>1 DEF Launch, tables
    <3> QED BY <3>1, <3>2 DEF WorkersClaimed
  <2> QED BY <2>1, <2>2
<1>2. ASSUME NEW l \in Launchers, job'[l].pc = "launch"
      PROVE  claim'[job'[l].s][job'[l].t].state # "none"
  <2>1. \/ job'[l] = job[l]
        \/ ClaimTarget(l) /\ Admits(job[l].s, job[l].t) /\ Carries(l, "launch")
    <3>1. JobShape(l) BY JobShapes
    <3>2. \A t : Dispatching(t).pc = "resolve" BY DEF Dispatching
    <3> QED BY <1>2, <3>1, <3>2 DEF JobShape, Carries
  <2>2. CASE job'[l] = job[l]
    <3>1. /\ At(l, "launch") /\ job[l].pc \in OwnerKnown /\ job[l].pc \in DispatchPCs
          BY <1>2, <2>2 DEF At, OwnerKnown, DispatchPCs
    <3>2. job[l].s \in Sessions /\ job[l].t \in Triggers BY <3>1, TargetKnown
    <3>3. claim[job[l].s][job[l].t].state # "none" BY <3>1 DEF WorkersClaimed
    <3> QED BY <2>2, <3>2, <3>3, ClaimStays
  <2>3. CASE ClaimTarget(l) /\ Admits(job[l].s, job[l].t) /\ Carries(l, "launch")
        BY <2>3, AdmittedMoves DEF Carries
  <2> QED BY <2>1, <2>2, <2>3
<1> QED BY <1>1, <1>2 DEF WorkersClaimed, At

LEMMA HookKept ==
  ASSUME TypeInv, HookInstalled, [Next]_vars
  PROVE  HookInstalled'
<1> SUFFICES ASSUME ~hooked PROVE job'["hook"] = Idle
    BY LedgerSteps DEF HookInstalled
<1>1. job["hook"] = Idle /\ Idle.pc = "idle" BY DEF HookInstalled, Idle
<1>2. JobShape("hook") BY JobShapes DEF Launchers
<1> QED BY <1>1, <1>2 DEF JobShape, At, Resolve, Snapshot, ClaimTarget, Launch, Receipt

LEMMA PidsKept ==
  ASSUME TypeInv, PidsUnique, [Next]_vars
  PROVE  PidsUnique'
<1>1. CASE procs' \subseteq procs BY <1>1 DEF PidsUnique
<1>2. ASSUME NEW l \in Launchers,
             procs' = procs \cup {[pid |-> NewPid, s |-> job[l].s, t |-> job[l].t]}
      PROVE  PidsUnique'
  <2>1. \A p \in procs : p.pid # NewPid BY NewPidFresh DEF AlivePids
  <2> QED BY <1>2, <2>1 DEF PidsUnique
<1> QED BY <1>1, <1>2, ProcSteps

--------------------------------------------------------------------------------

\* As long as the pump is alone, it is the one that dispatches and nothing is lost.
LEMMA AloneSteps ==
  ASSUME TypeInv, HookInstalled, [Next]_vars, Alone'
  PROVE  /\ Alone
         /\ \A l \in Launchers : At(l, "idle") \/ l = "pump"
         /\ ~(\E l \in Launchers : Crash(l))
         /\ Receipt("pump") =>
              receipt' = [receipt EXCEPT ![job["pump"].s][job["pump"].t] = NewReceipt("pump")]
<1>1. faults \in Nat /\ generation \in Nat BY WakeAssumption DEF TypeInv, TypeOK
<1>2. Alone BY <1>1, LedgerSteps DEF Alone
<1>3. \A l \in Launchers : At(l, "idle") \/ l = "pump"
      BY <1>2 DEF Alone, HookInstalled, At, Idle, Launchers
<1>4. ~(\E l \in Launchers : Crash(l)) BY <1>1, <1>2 DEF Crash, Alone
<1>5. Receipt("pump") =>
        receipt' = [receipt EXCEPT ![job["pump"].s][job["pump"].t] = NewReceipt("pump")]
      BY <1>1, <1>2 DEF Receipt, Alone
<1> QED BY <1>2, <1>3, <1>4, <1>5

\* Unless the sweep takes it, a claim that retires does so because its trigger is
\* answered or its session has lost the seat - for good, as nobody is back yet.
LEMMA RetiredAlone ==
  ASSUME TypeInv, ClaimsOfOwners, [Next]_vars, Alone',
         NEW s \in Sessions, NEW t \in Triggers,
         claim[s][t].state # "none", ~(Recover /\ <<s, t>> \in Stale),
         claim[s][t].state = "retired" => s # seat \/ Answered(t),
         claim'[s][t].state = "retired"
  PROVE  s # seat' \/ Answered(t)'
<1>0. generation \in Nat \ {0} /\ LatestMoves /\ SeatMoves BY LedgerSteps DEF TypeInv, TypeOK
<1>1. ASSUME Answered(t) PROVE Answered(t)' BY <1>1, LedgerSteps DEF Answered
<1>2. generation' \leq 2 BY DEF Alone
<1>3. ASSUME seat' # seat PROVE s = seat
      BY <1>0, <1>2, <1>3 DEF SeatMoves, ClaimsOfOwners
<1>4. CASE Kept(s, t) BY <1>1, <1>3, <1>4 DEF Kept
<1>5. CASE Retired(s, t)
  <2>1. ASSUME NEW to \in Sessions \cup {Nobody}, Handover(to) PROVE seat' # seat
    <3>1. generation' = generation + 1 BY <2>1 DEF Handover
    <3> QED BY <1>0, <3>1 DEF SeatMoves
  <2>2. \/ Answered(t)'
        \/ s = seat /\ \E to \in Sessions \cup {Nobody} : Handover(to)
        BY <1>5 DEF Retired
  <2> QED BY <2>1, <2>2
<1>6. Kept(s, t) \/ Retired(s, t)
  <2>1. Kept(s, t) \/ Admitted(s, t) \/ Completed(s, t) \/ Retired(s, t) BY ClaimSteps
  <2>2. ClaimedAgain(claim[s][t]).state = "active" BY DEF ClaimedAgain
  <2> QED BY <2>1, <2>2 DEF Admitted, Completed
<1> QED BY <1>4, <1>5, <1>6

\* The sweep never takes the claim of a worker that runs.
LEMMA SweepSpares ==
  ASSUME TypeInv, NEW p \in procs, RunsKnown(p), Recover
  PROVE  <<p.s, p.t>> \notin Stale
<1>1. p.s \in Sessions /\ p.t \in Triggers /\ p.pid \in AlivePids BY ProcKnown
<1>2. ~Recording(p.s, p.t) BY DEF Recover, At, Recording
<1>3. receipt[p.s][p.t].pid \in AlivePids BY <1>1, <1>2 DEF RunsKnown
<1>4. claim[p.s][p.t].state = "active" => <<p.s, p.t>> \in LiveClaims
      BY <1>1, <1>3 DEF LiveClaims
<1>5. <<p.s, p.t>> \in Stale => /\ claim[p.s][p.t].state = "active"
                                /\ <<p.s, p.t>> \notin LiveClaims
      BY DEF Stale
<1> QED BY <1>4, <1>5

LEMMA ReceiptSteps ==
  ASSUME TypeInv, [Next]_vars
  PROVE  receipt' = receipt \/ \E l \in Launchers : Receipt(l)
BY DEF Next, vars, tables, Post, ParentAnswers, Reads, PostWatermark, Handover, Exits,
   Reports, Dispatch, Resolve, Snapshot, ClaimTarget, Launch, Mark, Refuse, Crash, Ages,
   Recover, BeginScan, NextRow

\* At "launch" no worker of the target runs: the pump got there by a claim, which
\* it gets for a new, an unused or a lost one only.
LEMMA LaunchesAlone ==
  ASSUME TypeInv, ClaimsOfOwners, WorkersClaimed, HookInstalled, OneByOne,
         [Next]_vars, Alone', NEW p \in procs,
         job'["pump"].pc = "launch", job'["pump"].s = p.s, job'["pump"].t = p.t
  PROVE  FALSE
<1>0. /\ Alone /\ "pump" \in Launchers /\ p.s \in Sessions /\ p.t \in Triggers
      BY AloneSteps, ProcKnown DEF Launchers
<1>1. RunsKnown(p) BY <1>0 DEF OneByOne
<1>2. \/ job'["pump"] = job["pump"]
      \/ /\ ClaimTarget("pump") /\ Admits(job["pump"].s, job["pump"].t)
         /\ Carries("pump", "launch")
  <2>1. JobShape("pump") BY <1>0, JobShapes
  <2>2. \A t : Dispatching(t).pc = "resolve" BY DEF Dispatching
  <2> QED BY <2>1, <2>2 DEF JobShape, Carries
<1>3. CASE job'["pump"] = job["pump"] BY <1>1, <1>3 DEF RunsKnown, At
<1>4. CASE /\ ClaimTarget("pump") /\ Admits(job["pump"].s, job["pump"].t)
           /\ Carries("pump", "launch")
  <2>1. Admits(p.s, p.t) /\ job["pump"].s = p.s /\ job["pump"].t = p.t
        BY <1>4 DEF Carries
  <2>2. job["pump"].pc = "claim" BY <1>4 DEF ClaimTarget, At
  <2>3. claim[p.s][p.t].state # "none" BY DEF WorkersClaimed
  <2>4. claim[p.s][p.t].state # "active"
        BY <1>0, <2>1, <2>2 DEF OneByOne, Admits
  <2>5. claim[p.s][p.t].state # "retired" BY <1>1, <2>1 DEF RunsKnown, Admits, Answered
  <2> QED BY <2>1, <2>3, <2>4, <2>5 DEF Admits
<1> QED BY <1>2, <1>3, <1>4

\* The receipt of a worker that runs goes on naming it.
LEMMA OldRunsKnown ==
  ASSUME TypeInv, ClaimsOfOwners, WorkersClaimed, HookInstalled, OneByOne,
         [Next]_vars, Alone', NEW p \in procs
  PROVE  RunsKnown(p)'
<1>0. /\ Alone /\ "pump" \in Launchers /\ p.s \in Sessions /\ p.t \in Triggers
      /\ \A l \in Launchers : At(l, "idle") \/ l = "pump"
      /\ ~(\E l \in Launchers : Crash(l))
      /\ JobShape("pump")
      BY AloneSteps, ProcKnown, JobShapes DEF Launchers
<1>1. RunsKnown(p) BY <1>0 DEF OneByOne
<1>2. claim'[p.s][p.t].state = "retired" => p.s # seat' \/ Answered(p.t)'
  <2>1. ~(Recover /\ <<p.s, p.t>> \in Stale) BY <1>1, SweepSpares
  <2>2. claim[p.s][p.t].state # "none" BY DEF WorkersClaimed
  <2>3. claim[p.s][p.t].state = "retired" => p.s # seat \/ Answered(p.t)
        BY <1>1 DEF RunsKnown
  <2> QED BY <1>0, <2>1, <2>2, <2>3, RetiredAlone
<1>3. ~(job'["pump"].pc = "launch" /\ job'["pump"].s = p.s /\ job'["pump"].t = p.t)
      BY LaunchesAlone
<1>4. IF Recording(p.s, p.t)' THEN job'["pump"].pid = p.pid
      ELSE receipt'[p.s][p.t].pid = p.pid
  <2>1. CASE Receipt("pump")
    <3>1. receipt' = [receipt EXCEPT ![job["pump"].s][job["pump"].t] = NewReceipt("pump")]
          BY <2>1, AloneSteps
    <3>2. /\ job' = [job EXCEPT !["pump"] = To("pump", "mark")]
          /\ job["pump"].pc = "receipt"
          BY <2>1 DEF Receipt, Step, Goto, At
    <3>3. job'["pump"].pc = "mark"
          BY <1>0, <3>2 DEF To, TypeInv, JobsTyped, JobRow
    <3>4. NewReceipt("pump").pid = job["pump"].pid BY DEF NewReceipt
    <3>5. receipt \in [Sessions -> [Triggers -> [pid : Nat, gen : 0 .. generation]]]
          BY DEF TypeInv, TypeOK
    <3>6. CASE job["pump"].s = p.s /\ job["pump"].t = p.t
      <4>1. receipt'[p.s][p.t] = NewReceipt("pump") BY <1>0, <3>1, <3>5, <3>6
      <4>2. job["pump"].pid = p.pid BY <1>1, <3>2, <3>6 DEF RunsKnown, Recording, At
      <4> QED BY <3>3, <3>4, <4>1, <4>2 DEF Recording, At
    <3>7. CASE ~(job["pump"].s = p.s /\ job["pump"].t = p.t)
      <4>1. receipt'[p.s][p.t] = receipt[p.s][p.t] BY <1>0, <3>1, <3>5, <3>7
      <4>2. receipt[p.s][p.t].pid = p.pid BY <1>1, <3>7 DEF RunsKnown, Recording
      <4> QED BY <3>3, <4>1, <4>2 DEF Recording, At
    <3> QED BY <3>6, <3>7
  <2>2. CASE ~Receipt("pump")
    <3>1. receipt' = receipt
      <4>1. \A l \in Launchers : Receipt(l) => l = "pump" BY <1>0 DEF Receipt, At
      <4> QED BY <2>2, <4>1, ReceiptSteps
    <3>2. CASE job'["pump"] = job["pump"]
          BY <1>1, <3>1, <3>2 DEF RunsKnown, Recording, At
    <3>3. CASE Launch("pump") /\ Carries("pump", "receipt")
      <4>1. At("pump", "launch") BY <3>3 DEF Launch
      <4>2. ~(job["pump"].s = p.s /\ job["pump"].t = p.t) BY <1>1, <4>1 DEF RunsKnown
      <4>3. ~Recording(p.s, p.t) /\ ~Recording(p.s, p.t)'
            BY <3>3, <4>2 DEF Recording, Carries
      <4> QED BY <1>1, <3>1, <4>3 DEF RunsKnown
    <3>4. CASE job'["pump"].pc # "receipt" /\ job["pump"].pc # "receipt"
          BY <1>1, <3>1, <3>4 DEF RunsKnown, Recording, At
    <3>5. \A t : Dispatching(t).pc = "resolve" BY DEF Dispatching
    <3>6. \/ job'["pump"] = job["pump"]
          \/ Launch("pump") /\ Carries("pump", "receipt")
          \/ job'["pump"].pc # "receipt" /\ job["pump"].pc # "receipt"
          BY <1>0, <2>2, <3>5
             DEF JobShape, Carries, At, Resolve, Snapshot, ClaimTarget, Launch
    <3> QED BY <3>2, <3>3, <3>4, <3>6
  <2> QED BY <2>1, <2>2
<1> QED BY <1>2, <1>3, <1>4 DEF RunsKnown, At

\* A new worker is the only one of its target; the pump is about to write its
\* receipt.
LEMMA NewRunsKnown ==
  ASSUME TypeInv, ClaimsOfOwners, WorkersClaimed, HookInstalled, OneByOne,
         [Next]_vars, Alone', NEW p \in procs', p \notin procs
  PROVE  /\ RunsKnown(p)'
         /\ \A q \in procs : ~(q.s = p.s /\ q.t = p.t)
<1>0. /\ Alone /\ "pump" \in Launchers
      /\ \A l \in Launchers : At(l, "idle") \/ l = "pump"
      BY AloneSteps DEF Launchers
<1>1. /\ Launch("pump")
      /\ p = [pid |-> NewPid, s |-> job["pump"].s, t |-> job["pump"].t]
  <2>1. PICK l \in Launchers :
           Launch(l) /\ p = [pid |-> NewPid, s |-> job[l].s, t |-> job[l].t]
        BY ProcSteps
  <2>2. l = "pump" BY <1>0, <2>1 DEF Launch, At
  <2> QED BY <2>1, <2>2
<1>2. /\ job["pump"].pc = "launch" /\ UNCHANGED <<ledger, tables>>
      /\ job' = [job EXCEPT !["pump"] = [To("pump", "receipt") EXCEPT !.pid = NewPid]]
      BY <1>1 DEF Launch, At, Goto
<1>3. /\ job'["pump"].pc = "receipt" /\ job'["pump"].pid = NewPid
      /\ job'["pump"].s = p.s /\ job'["pump"].t = p.t
      BY <1>0, <1>1, <1>2 DEF To, TypeInv, JobsTyped, JobRow
<1>4. claim[p.s][p.t].state = "retired" => p.s # seat \/ Answered(p.t)
      BY <1>0, <1>1, <1>2 DEF OneByOne, At
<1>5. RunsKnown(p)'
  <2>1. claim'[p.s][p.t].state = "retired" => p.s # seat' \/ Answered(p.t)'
        BY <1>2, <1>4 DEF ledger, tables, Answered
  <2>2. Recording(p.s, p.t)' /\ p.pid = NewPid /\ ~At("pump", "launch")'
        BY <1>1, <1>3 DEF Recording, At
  <2> QED BY <1>3, <2>1, <2>2, <1>1 DEF RunsKnown
<1>6. ASSUME NEW q \in procs PROVE ~(q.s = p.s /\ q.t = p.t)
  <2>1. RunsKnown(q) BY <1>0 DEF OneByOne
  <2> QED BY <1>1, <1>2, <2>1 DEF RunsKnown, At
<1> QED BY <1>5, <1>6

\* On its way to claim the pump has no claim of the owner in force before it.
LEMMA ClaimFree ==
  ASSUME TypeInv, ClaimsOfOwners, WorkersClaimed, HookInstalled, OneByOne,
         [Next]_vars, Alone', NEW s \in Sessions, s = seat', NEW t, t = job'["pump"].t,
         \/ job'["pump"].pc = "resolve"
         \/ job'["pump"].pc \in {"snapshot", "claim"} /\ job'["pump"].s = s
  PROVE  claim'[s][t].state # "active"
<1> SUFFICES ASSUME claim'[s][t].state = "active" PROVE FALSE OBVIOUS
<1>0. /\ Alone /\ "pump" \in Launchers /\ JobShape("pump") /\ TypeInv'
      /\ \A l \in Launchers : At(l, "idle") \/ l = "pump"
      BY AloneSteps, JobShapes, NextType DEF Launchers
<1>1. t \in Triggers
  <2>1. JobOK(job["pump"])' /\ job'["pump"].pc \in DispatchPCs
        BY <1>0 DEF TypeInv, JobsTyped, DispatchPCs
  <2>2. job'["pump"].t \in 1 .. posted' /\ posted' \in 0 .. LastTrigger
        BY <1>0, <2>1 DEF JobOK, TypeInv, TypeOK
  <2> QED BY <2>2, WakeAssumption DEF Triggers
<1>2. claim[s][t].state = "active"
  <2>1. Kept(s, t) \/ Admitted(s, t) \/ Completed(s, t) \/ Retired(s, t)
        BY <1>1, ClaimSteps
  <2>2. ~Admitted(s, t)
    <3>1. SUFFICES ASSUME NEW l \in Launchers, ClaimTarget(l), job[l].s = s, job[l].t = t,
                          Admits(s, t)
                   PROVE  FALSE
          BY DEF Admitted
    <3>2. l = "pump" BY <1>0, <3>1 DEF ClaimTarget, At
    <3>3. job'["pump"].pc = "launch" BY <3>1, <3>2, AdmittedMoves
    <3> QED BY <3>3
  <2> QED BY <2>1, <2>2 DEF Kept, Completed, Retired
<1>3. s = seat BY <1>1, <1>2 DEF ClaimsOfOwners
<1>4. CASE job'["pump"] = job["pump"]
      BY <1>0, <1>2, <1>3, <1>4 DEF OneByOne, At
<1>5. CASE \E row \in scan : Demanded(row.t) /\ job'["pump"] = Dispatching(row.t)
  <2>1. Demanded(t) BY <1>5 DEF Dispatching
  <2>2. latest[t] = s /\ s # Nobody
        BY <1>0, <1>1, <1>2, <1>3, WakeAssumption DEF ClaimsOfOwners, Alone
  <2>3. ClaimState(t) = "active" BY <1>2, <2>2 DEF ClaimState
  <2> QED BY <2>1, <2>3 DEF Demanded
<1>6. CASE Resolve("pump") /\ job'["pump"].t = job["pump"].t
      BY <1>0, <1>2, <1>3, <1>6 DEF OneByOne, Resolve, At
<1>7. CASE Snapshot("pump") /\ Carries("pump", "claim")
  <2>1. /\ At("pump", "snapshot") /\ job["pump"].t = t
        /\ job'["pump"].pc = "claim" /\ job'["pump"].s = job["pump"].s
        BY <1>7 DEF Snapshot, Carries
  <2>2. job["pump"].s = seat BY <1>3, <2>1
  <2> QED BY <1>0, <1>2, <1>3, <2>1, <2>2 DEF OneByOne, At
<1>8. \/ job'["pump"] = job["pump"]
      \/ \E row \in scan : Demanded(row.t) /\ job'["pump"] = Dispatching(row.t)
      \/ Resolve("pump") /\ job'["pump"].t = job["pump"].t
      \/ Snapshot("pump") /\ Carries("pump", "claim")
      BY <1>0 DEF JobShape, Carries
<1> QED BY <1>4, <1>5, <1>6, <1>7, <1>8

\* About to launch, the pump's claim is retired only for a reason that stands.
LEMMA LaunchingKept ==
  ASSUME TypeInv, ClaimsOfOwners, WorkersClaimed, HookInstalled, OneByOne,
         [Next]_vars, Alone', job'["pump"].pc = "launch",
         claim'[job'["pump"].s][job'["pump"].t].state = "retired"
  PROVE  job'["pump"].s # seat' \/ Answered(job["pump"].t)'
<1>0. /\ Alone /\ "pump" \in Launchers BY AloneSteps DEF Launchers
<1>1. \/ job'["pump"] = job["pump"]
      \/ /\ ClaimTarget("pump") /\ Admits(job["pump"].s, job["pump"].t)
         /\ Carries("pump", "launch")
  <2>1. JobShape("pump") BY <1>0, JobShapes
  <2>2. \A t : Dispatching(t).pc = "resolve" BY DEF Dispatching
  <2> QED BY <2>1, <2>2 DEF JobShape, Carries
<1>2. CASE job'["pump"] = job["pump"]
  <2>1. /\ At("pump", "launch") /\ job["pump"].pc \in OwnerKnown
        /\ job["pump"].pc \in DispatchPCs /\ ~Recover
        BY <1>2 DEF At, OwnerKnown, DispatchPCs, Recover
  <2>2. job["pump"].s \in Sessions /\ job["pump"].t \in Triggers
        BY <1>0, <2>1, TargetKnown
  <2>3. claim[job["pump"].s][job["pump"].t].state # "none"
        BY <1>0, <2>1 DEF WorkersClaimed
  <2>4. claim[job["pump"].s][job["pump"].t].state = "retired" =>
           job["pump"].s # seat \/ Answered(job["pump"].t)
        BY <1>0, <2>1 DEF OneByOne
  <2>5. \A s \in Sessions, t \in Triggers :
           (/\ claim[s][t].state # "none"
            /\ (claim[s][t].state = "retired" => s # seat \/ Answered(t))
            /\ claim'[s][t].state = "retired")
           => s # seat' \/ Answered(t)'
        BY <2>1, RetiredAlone
  <2>6. \A t : t = job["pump"].t => (job["pump"].s # seat' \/ Answered(t)')
        BY <1>2, <2>2, <2>3, <2>4, <2>5
  <2> QED BY <1>2, <2>6 DEF Answered
<1>3. CASE /\ ClaimTarget("pump") /\ Admits(job["pump"].s, job["pump"].t)
           /\ Carries("pump", "launch")
      BY <1>0, <1>3, AdmittedMoves DEF Carries
<1> QED BY <1>1, <1>2, <1>3

LEMMA OneByOneKept ==
  ASSUME TypeInv, ClaimsOfOwners, WorkersClaimed, HookInstalled, OneByOne, [Next]_vars
  PROVE  OneByOne'
<1> SUFFICES ASSUME Alone' PROVE OneByOne' BY DEF OneByOne
<1>1. \A p \in procs' : RunsKnown(p)' BY OldRunsKnown, NewRunsKnown
<1>2. ASSUME NEW p \in procs', NEW q \in procs', p.s = q.s, p.t = q.t PROVE p = q
  <2>1. Alone BY AloneSteps
  <2>2. CASE p \in procs /\ q \in procs BY <1>2, <2>1, <2>2 DEF OneByOne
  <2>3. CASE p \in procs /\ q \notin procs BY <1>2, <2>3, NewRunsKnown
  <2>4. CASE p \notin procs /\ q \in procs BY <1>2, <2>4, NewRunsKnown
  <2>5. CASE p \notin procs /\ q \notin procs
    <3>1. /\ p \in {[pid |-> NewPid, s |-> job[l].s, t |-> job[l].t] : l \in Launchers}
          /\ \E l \in Launchers :
               /\ Launch(l)
               /\ procs' = procs \cup {[pid |-> NewPid, s |-> job[l].s, t |-> job[l].t]}
          BY <2>5, ProcSteps
    <3> QED BY <2>5, <3>1
  <2> QED BY <2>2, <2>3, <2>4, <2>5
<1>3. ASSUME NEW s \in Sessions
      PROVE  /\ At("pump", "resolve")' /\ s = seat' =>
                  claim'[s][job'["pump"].t].state # "active"
             /\ job'["pump"].pc \in {"snapshot", "claim"} /\ job'["pump"].s = seat' =>
                  claim'[seat'][job'["pump"].t].state # "active"
  <2>1. CASE s = seat' BY <2>1, ClaimFree DEF At
  <2>2. job'["pump"].pc \in {"snapshot", "claim"} => job'["pump"].s \in Sessions
    <3>1. JobOK(job["pump"])' BY NextType DEF TypeInv, JobsTyped, Launchers
    <3> QED BY <3>1 DEF JobOK, OwnerKnown, DispatchPCs
  <2>3. job'["pump"].pc \in {"snapshot", "claim"} /\ job'["pump"].s = seat' =>
           claim'[seat'][job'["pump"].t].state # "active"
        BY <2>2, ClaimFree
  <2> QED BY <2>1, <2>3
<1>4. At("pump", "launch")' /\ claim'[job'["pump"].s][job'["pump"].t].state = "retired"
        => job'["pump"].s # seat' \/ Answered(job["pump"].t)'
      BY LaunchingKept DEF At
<1> QED BY <1>1, <1>2, <1>3, <1>4 DEF OneByOne

--------------------------------------------------------------------------------
(* The theorems                                                            *)

LEMMA InitSafe == Init => SafetyInv
<1> SUFFICES ASSUME Init PROVE SafetyInv OBVIOUS
<1>1. TypeInv BY InitType
<1>2. \A s \in Sessions, t \in Triggers :
        claim[s][t].state = "none" /\ claim[s][t].requeues = 0
      BY DEF Init, NoClaim
<1>3. \A l \in Launchers : job[l].pc = "idle" BY DEF Init, Idle
<1>4. PidsUnique /\ ClaimsOfOwners /\ WorkersClaimed
      BY <1>2, <1>3 DEF Init, PidsUnique, ClaimsOfOwners, WorkersClaimed, At
<1>5. ClosedIsSettled /\ ClosingIsSettled
      BY <1>3 DEF Init, ClosedIsSettled, ClosingIsSettled, At
<1>6. OpenIsQueued /\ CursorsVouched BY DEF Init, OpenIsQueued, CursorsVouched
<1>7. HookInstalled BY DEF Init, HookInstalled, Launchers
<1>8. OneByOne
      BY <1>3 DEF Init, OneByOne, At, Launchers
<1> QED BY <1>1, <1>4, <1>5, <1>6, <1>7, <1>8 DEF SafetyInv

LEMMA NextSafe == SafetyInv /\ [Next]_vars => SafetyInv'
<1> SUFFICES ASSUME SafetyInv, [Next]_vars PROVE SafetyInv' OBVIOUS
<1>1. TypeInv /\ PidsUnique /\ ClaimsOfOwners /\ CursorsVouched /\ WorkersClaimed
      /\ ClosedIsSettled /\ ClosingIsSettled /\ OpenIsQueued /\ HookInstalled /\ OneByOne
      BY DEF SafetyInv
<1>2. TypeInv' /\ PidsUnique' /\ ClaimsOfOwners' /\ CursorsVouched' /\ WorkersClaimed'
      BY <1>1, NextType, PidsKept, OwnersKept, VouchedKept, WorkersKept
<1>3. ClosedIsSettled' /\ ClosingIsSettled' /\ OpenIsQueued'
      BY <1>1, ClosedKept, ClosingKept, QueuedKept
<1>4. HookInstalled' /\ OneByOne' BY <1>1, HookKept, OneByOneKept
<1> QED BY <1>2, <1>3, <1>4 DEF SafetyInv

LEMMA Safe == Spec => []SafetyInv
BY InitSafe, NextSafe, PTL DEF Spec

\* A launcher that lost a race, was refused or found the seat taken never closes a
\* trigger that is open: a wake row says 'terminal_no_action' only of one that is
\* answered, declined by its worker, or whose retries are spent.
THEOREM ClosedSafe == Spec => []ClosedIsSettled
<1>1. SafetyInv => ClosedIsSettled BY DEF SafetyInv
<1> QED BY <1>1, Safe, PTL

\* Whoever crashes and whoever owns the role, what nobody answered, no worker
\* declined and no reading, WATERMARK or seating put behind the role is still in the
\* delivery queue, where the next scan finds it: neither the file cursor nor a spent
\* retry budget takes it out.
THEOREM OpenSafe == Spec => []OpenIsQueued
<1>1. SafetyInv => OpenIsQueued BY DEF SafetyInv
<1> QED BY <1>1, Safe, PTL

\* Two processes of one worker need the hook beside the pump, a crash, a lost
\* receipt, or a former owner back in its seat: for any number of sessions and
\* triggers, the pump by itself never starts a second one.
THEOREM TwinsSafe == Spec => []TwinsAreExplained
<1>1. SafetyInv => TwinsAreExplained
  <2> SUFFICES ASSUME SafetyInv, Twins # {}, ~hooked, ~(faults > 0), ~(generation > 2)
               PROVE  FALSE
      BY DEF TwinsAreExplained
  <2>1. Alone
    <3>1. faults \in Nat /\ generation \in Nat
          BY WakeAssumption DEF SafetyInv, TypeInv, TypeOK
    <3> QED BY <3>1 DEF Alone
  <2>2. PICK pair \in procs \X procs :
           pair[1].pid < pair[2].pid /\ pair[1].s = pair[2].s /\ pair[1].t = pair[2].t
        BY DEF Twins
  <2>p. pair[1] \in procs /\ pair[2] \in procs BY <2>2
  <2>3. pair[1] = pair[2] BY <2>1, <2>2, <2>p DEF SafetyInv, OneByOne
  <2>4. pair[1].pid \in Nat BY <2>2 DEF SafetyInv, TypeInv, TypeOK
  <2> QED BY <2>2, <2>3, <2>4
<1> QED BY <1>1, Safe, PTL

--------------------------------------------------------------------------------
(* The pipeline serves triggers as WakeJobs promises                       *)

LEMMA JobsInit == Init => Jobs!Init
<1> SUFFICES ASSUME Init PROVE Jobs!Init OBVIOUS
<1>1. ASSUME NEW t \in Triggers PROVE Phase(t) = "unposted"
      BY <1>1, WakeAssumption DEF Init, Phase, Triggers
<1>2. ASSUME NEW t \in Triggers PROVE Tries(t) = 0
  <2>1. \A s \in Sessions : Activations(s, t) = 0 BY DEF Init, Activations, NoClaim
  <2>2. {a \in Sessions \X (1 .. MaxRequeues + 1) : a[2] \leq Activations(a[1], t)} = {}
        BY <2>1, WakeAssumption
  <2> QED BY <2>2, FS_EmptySet DEF Tries
<1> QED BY <1>1, <1>2 DEF Jobs!Init

\* What the phase of a trigger depends on.
SamePhase(t) ==
  /\ t \leq posted <=> t \leq posted'
  /\ answered'[t] = answered[t] /\ latest'[t] = latest[t]
  /\ \A s \in Sessions : claim'[s][t].state = claim[s][t].state

LEMMA PhaseKept ==
  ASSUME TypeInv, posted' \in Nat, NEW t \in Triggers, SamePhase(t)
  PROVE  Phase(t)' = Phase(t)
<1>1. latest[t] \in Sessions \cup {Nobody} BY DEF TypeInv, TypeOK
<1>2. ActiveOn(t)' = ActiveOn(t) BY DEF SamePhase, ActiveOn
<1>3. ClaimState(t)' = ClaimState(t) BY <1>1 DEF SamePhase, ClaimState
<1>4. posted \in Nat /\ t \in Nat BY WakeAssumption DEF TypeInv, TypeOK, Triggers
<1>5. t > posted <=> t > posted' BY <1>4 DEF SamePhase
<1> QED BY <1>2, <1>3, <1>5 DEF SamePhase, Phase, Answered

\* Only the admission of a new or a lost claim counts as another try.
LEMMA TriesKept ==
  ASSUME TypeInv, ClaimsOfOwners, NEW t \in Triggers,
         \A s \in Sessions : \/ Kept(s, t) \/ Completed(s, t) \/ Retired(s, t)
                             \/ Admitted(s, t) /\ claim[s][t].state = "active"
  PROVE  Tries(t)' = Tries(t)
<1>1. ASSUME NEW s \in Sessions PROVE Activations(s, t)' = Activations(s, t)
  <2>1. CASE Kept(s, t) BY <2>1 DEF Kept, Activations
  <2>2. CASE Completed(s, t) \/ Retired(s, t) BY <2>2 DEF Completed, Retired, Activations
  <2>3. CASE Admitted(s, t) /\ claim[s][t].state = "active"
        BY <2>3 DEF Admitted, ClaimedAgain, Activations
  <2> QED BY <2>1, <2>2, <2>3
<1>2. {a \in Sessions \X (1 .. MaxRequeues + 1) : a[2] \leq Activations(a[1], t)}' =
      {a \in Sessions \X (1 .. MaxRequeues + 1) : a[2] \leq Activations(a[1], t)}
      BY <1>1
<1> QED BY <1>2 DEF Tries

LEMMA TriesGrow ==
  ASSUME TypeInv, ClaimsOfOwners, NEW s \in Sessions, NEW t \in Triggers,
         Admits(s, t), claim[s][t].state # "active",
         claim'[s][t] = ClaimedAgain(claim[s][t]),
         \A a \in Sessions \ {s} : claim'[a][t] = claim[a][t]
  PROVE  /\ Tries(t) < Cardinality(Sessions) * (MaxRequeues + 1)
         /\ Tries(t)' = Tries(t) + 1
<1> DEFINE P     == Sessions \X (1 .. MaxRequeues + 1)
           used  == {a \in P : a[2] \leq Activations(a[1], t)}
           next  == Activations(s, t) + 1
<1>0. MaxRequeues \in Nat /\ claim \in [Sessions -> [Triggers -> ClaimRow]]
      BY WakeAssumption DEF TypeInv, TypeOK, ClaimRow
<1>1. /\ IsFiniteSet(P)
      /\ Cardinality(P) = Cardinality(Sessions) * (MaxRequeues + 1)
  <2>1. IsFiniteSet(1 .. MaxRequeues + 1)
        /\ Cardinality(1 .. MaxRequeues + 1) = MaxRequeues + 1
        BY <1>0, FS_Interval
  <2> QED BY <2>1, WakeAssumption, FS_Product
<1>2. /\ claim[s][t].state \in {"none", "retired"}
      /\ claim[s][t].state = "none" => claim[s][t].requeues = 0
      /\ claim[s][t].state = "retired" => claim[s][t].requeues < MaxRequeues
      /\ claim[s][t].requeues \in 0 .. MaxRequeues
      BY <1>0 DEF Admits, ClaimsOfOwners, ClaimRow
<1>3. Activations(s, t) \in Nat /\ next \in 1 .. MaxRequeues + 1
      BY <1>0, <1>2 DEF Activations
<1>4. Activations(s, t)' = next
      BY <1>0, <1>2 DEF Activations, ClaimedAgain
<1>5. \A a \in Sessions \ {s} : Activations(a, t)' = Activations(a, t)
      BY DEF Activations
<1>6. \A a \in Sessions : Activations(a, t) \in Nat
      BY <1>0 DEF Activations, ClaimRow
<1>7. used' = used \cup {<<s, next>>}
  <2>1. \A a \in P : a[2] \leq Activations(a[1], t)' <=>
                       a[2] \leq Activations(a[1], t) \/ a = <<s, next>>
    <3> SUFFICES ASSUME NEW a \in P
                 PROVE  a[2] \leq Activations(a[1], t)' <=>
                          a[2] \leq Activations(a[1], t) \/ a = <<s, next>>
        OBVIOUS
    <3>1. a = <<a[1], a[2]>> /\ a[1] \in Sessions /\ a[2] \in Nat BY <1>0
    <3>2. CASE a[1] = s
      <4>1. a = <<s, next>> <=> a[2] = next BY <3>1, <3>2
      <4>2. a[2] \leq next <=> a[2] \leq Activations(s, t) \/ a[2] = next
            BY <1>3, <3>1
      <4> QED BY <1>4, <3>2, <4>1, <4>2
    <3>3. CASE a[1] # s
      <4>1. a # <<s, next>> BY <3>1, <3>3
      <4> QED BY <1>5, <3>1, <3>3, <4>1
    <3> QED BY <3>2, <3>3
  <2>2. <<s, next>> \in P BY <1>3
  <2> QED BY <2>1, <2>2
<1>8. <<s, next>> \in P /\ <<s, next>> \notin used
      BY <1>3
<1>9. Tries(t) = Cardinality(used) /\ Tries(t)' = Cardinality(used')
      BY DEF Tries
<1>u. used \in SUBSET P OBVIOUS
<1> HIDE DEF used, P, next
<1>10. /\ IsFiniteSet(used) /\ Cardinality(used) \leq Cardinality(P)
       /\ Cardinality(P) = Cardinality(used) => P = used
       /\ Cardinality(used) \in Nat /\ Cardinality(P) \in Nat
  <2>1. IsFiniteSet(used) /\ Cardinality(used) \leq Cardinality(P)
        /\ (Cardinality(P) = Cardinality(used) => P = used)
        BY <1>1, <1>u, FS_Subset
  <2> QED BY <2>1, <1>1, FS_CardinalityType
<1>11. Cardinality(used) < Cardinality(P) BY <1>8, <1>10
<1>12. Cardinality(used') = Cardinality(used) + 1
       BY <1>7, <1>8, <1>10, FS_AddElement
<1> QED BY <1>1, <1>9, <1>11, <1>12

\* Nothing the phases and the tries depend on changes.
LEMMA QuietSteps ==
  ASSUME TypeInv, ClaimsOfOwners, UNCHANGED <<posted, answered, latest>>,
         \A s \in Sessions, t \in Triggers : Kept(s, t)
  PROVE  UNCHANGED Jobs!vars
<1>1. posted' \in Nat BY WakeAssumption DEF TypeInv, TypeOK
<1>2. ASSUME NEW t \in Triggers PROVE Phase(t)' = Phase(t) /\ Tries(t)' = Tries(t)
  <2>1. SamePhase(t) BY DEF SamePhase, Kept
  <2> QED BY <1>1, <2>1, PhaseKept, TriesKept
<1> QED BY <1>2 DEF Jobs!vars

\* One trigger moves, without another try.
LEMMA OneMoves ==
  ASSUME NEW t \in Triggers, NEW to, Phase(t)' = to,
         \A u \in Triggers \ {t} : Phase(u)' = Phase(u),
         \A u \in Triggers : Tries(u)' = Tries(u)
  PROVE  /\ [u \in Triggers |-> Phase(u)]' =
              [[u \in Triggers |-> Phase(u)] EXCEPT ![t] = to]
         /\ [u \in Triggers |-> Tries(u)]' = [u \in Triggers |-> Tries(u)]
OBVIOUS

LEMMA PostMaps ==
  ASSUME TypeInv, ClaimsOfOwners, Post
  PROVE  Jobs!Next
<1> DEFINE t == posted + 1
<1>0. posted \in Nat /\ t \in Triggers
      BY WakeAssumption DEF Post, TypeInv, TypeOK, Triggers
<1>1. posted' = posted + 1 /\ UNCHANGED <<answered, latest, claim>> BY DEF Post
<1>2. answered[t] = {} /\ latest[t] = Nobody /\ ~(t \leq posted)
      /\ \A s \in Sessions : claim[s][t].state = "none"
      BY <1>0 DEF ClaimsOfOwners
<1>3. Phase(t) = "unposted" BY <1>0 DEF Phase
<1>4. \A x : x = t => Phase(x)' = "waiting"
      BY <1>0, <1>1, <1>2 DEF Phase, Answered, ActiveOn, ClaimState
<1>5. ASSUME NEW u \in Triggers, u # t PROVE Phase(u)' = Phase(u)
  <2>1. u \in Nat /\ (u \leq posted <=> u \leq posted') BY <1>0, <1>1, <1>5 DEF Triggers
  <2>2. SamePhase(u) BY <1>1, <2>1 DEF SamePhase
  <2> QED BY <1>0, <1>1, <2>2, PhaseKept
<1>6. \A u \in Triggers : Tries(u)' = Tries(u)
      BY <1>1, TriesKept DEF Kept
<1>7. PICK x \in Triggers : x = t BY <1>0
<1>8. Jobs!Arrive(x)
      BY <1>3, <1>4, <1>5, <1>6, <1>7, OneMoves DEF Jobs!Arrive, Jobs!Move
<1> QED BY <1>8 DEF Jobs!Next

\* Claims retire, and nothing else: their triggers wait again, or are declined.
LEMMA RetirementMaps ==
  ASSUME TypeInv, ClaimsOfOwners, UNCHANGED <<posted, answered, latest>>,
         \A s \in Sessions, t \in Triggers : Kept(s, t) \/ Retired(s, t)
  PROVE  Jobs!Next
<1> DEFINE J == {t \in Triggers : Phase(t) = "working" /\ Phase(t)' # "working"}
           D == {t \in J : Phase(t)' = "declined"}
<1>0. posted' \in Nat BY WakeAssumption DEF TypeInv, TypeOK
<1>1. ASSUME NEW t \in J PROVE Phase(t)' \in {"waiting", "declined"}
  <2>1. ~(t > posted) /\ ~Answered(t) BY DEF Phase
  <2> QED BY <2>1 DEF Phase, Answered
<1>2. ASSUME NEW t \in Triggers \ J PROVE Phase(t)' = Phase(t)
  <2>1. CASE Phase(t) = "working" BY <2>1
  <2>2. CASE t > posted \/ Answered(t) BY <2>2 DEF Phase, Answered
  <2>3. CASE Phase(t) # "working" /\ ~(t > posted) /\ ~Answered(t)
    <3>1. \A s \in Sessions : claim[s][t].state # "active"
          BY <2>3 DEF Phase, ActiveOn
    <3>2. SamePhase(t) BY <3>1 DEF SamePhase, Kept, Retired
    <3> QED BY <1>0, <3>2, PhaseKept
  <2> QED BY <2>1, <2>2, <2>3
<1>3. ASSUME NEW t \in Triggers PROVE Tries(t)' = Tries(t) BY TriesKept
<1>4. ASSUME NEW t \in Triggers
      PROVE  Phase(t)' = IF t \notin J THEN Phase(t)
                         ELSE IF t \in D THEN "declined" ELSE "waiting"
      BY <1>1, <1>2
<1>5. J \in SUBSET Triggers /\ D \in SUBSET J /\ \A t \in J : Phase(t) = "working"
      OBVIOUS
<1> HIDE DEF J, D
<1>6. Jobs!Lose(J, D) BY <1>3, <1>4, <1>5 DEF Jobs!Lose
<1> QED BY <1>5, <1>6 DEF Jobs!Next

LEMMA AnswerMaps ==
  ASSUME TypeInv, ClaimsOfOwners, NEW t \in Triggers, ParentAnswers(t)
  PROVE  Jobs!Next \/ UNCHANGED Jobs!vars
<1>0. posted \in Nat /\ posted' = posted /\ t \leq posted /\ latest' = latest /\ t \in Nat
      BY WakeAssumption DEF ParentAnswers, TypeInv, TypeOK, Triggers
<1>1. /\ answered' = [answered EXCEPT ![t] = @ \cup {"parent"}]
      /\ answered \in [Triggers -> SUBSET {"parent", "worker"}]
      BY DEF ParentAnswers, TypeInv, TypeOK
<1>2. Phase(t)' = "answered" BY <1>0, <1>1 DEF Phase, Answered
<1>3. ASSUME NEW s \in Sessions, NEW u \in Triggers
      PROVE  /\ Kept(s, u) \/ Retired(s, u)
             /\ u # t => Kept(s, u)
  <2>1. claim'[s] = Retire(s, {t}) BY DEF ParentAnswers
  <2>2. u # t => Kept(s, u) BY <2>1, RetireFacts DEF TypeInv, Kept
  <2>3. u = t => Kept(s, u) \/ Retired(s, u)
    <3>1. Answered(t)' BY <1>1 DEF Answered
    <3> QED BY <2>1, <3>1, RetireFacts DEF TypeInv, Kept, Retired
  <2> QED BY <2>2, <2>3
<1>4. ASSUME NEW u \in Triggers, u # t PROVE Phase(u)' = Phase(u)
  <2>1. SamePhase(u) BY <1>0, <1>1, <1>3, <1>4 DEF SamePhase, Kept
  <2> QED BY <1>0, <2>1, PhaseKept
<1>5. \A u \in Triggers : Tries(u)' = Tries(u) BY <1>3, TriesKept
<1>6. CASE Phase(t) = "answered" BY <1>2, <1>4, <1>5, <1>6 DEF Jobs!vars
<1>7. CASE Phase(t) # "answered"
  <2>1. Phase(t) \in {"waiting", "working", "declined"} BY <1>0, <1>7 DEF Phase
  <2>2. Jobs!Answer(t)
        BY <1>2, <1>4, <1>5, <2>1, OneMoves DEF Jobs!Answer, Jobs!Move
  <2> QED BY <2>2 DEF Jobs!Next
<1> QED BY <1>6, <1>7

LEMMA ReportMaps ==
  ASSUME TypeInv, ClaimsOfOwners, NEW p \in procs, NEW reply \in BOOLEAN, Reports(p, reply)
  PROVE  Jobs!Next \/ UNCHANGED Jobs!vars
<1> DEFINE t == p.t
<1>0. /\ p.s \in Sessions /\ t \in Triggers /\ t \in Nat
      /\ posted \in Nat /\ posted' = posted /\ latest' = latest
      /\ claim[p.s][t].state = "active" /\ seat = p.s
  <2>1. posted \in Nat BY WakeAssumption DEF TypeInv, TypeOK
  <2>2. posted' = posted /\ latest' = latest BY DEF Reports
  <2> QED BY <2>1, <2>2, ProcKnown DEF Reports, Triggers
<1>1. claim' = [claim EXCEPT ![p.s][t] = Ended(@, "completed")] BY DEF Reports
<1>2. ASSUME NEW s \in Sessions, NEW u \in Triggers
      PROVE  claim'[s][u] = IF s = p.s /\ u = t THEN Ended(claim[s][u], "completed")
                            ELSE claim[s][u]
      BY <1>0, <1>1 DEF TypeInv, TypeOK
<1>3. ASSUME NEW s \in Sessions, NEW u \in Triggers
      PROVE  Kept(s, u) \/ Completed(s, u)
  <2>1. CASE s = p.s /\ u = t
    <3>1. claim'[s][u] = Ended(claim[s][u], "completed") BY <1>2, <2>1
    <3> QED BY <1>0, <2>1, <3>1 DEF Ended, Completed
  <2>2. CASE ~(s = p.s /\ u = t)
    <3>1. claim'[s][u] = claim[s][u] BY <1>2, <2>2
    <3> QED BY <3>1 DEF Kept
  <2> QED BY <2>1, <2>2
<1>4. \A u \in Triggers : Tries(u)' = Tries(u) BY <1>3, TriesKept
<1>5. ASSUME NEW u \in Triggers, u # t PROVE Phase(u)' = Phase(u)
  <2>1. answered'[u] = answered[u]
        BY <1>0, <1>5 DEF Reports, TypeInv, TypeOK
  <2>2. SamePhase(u) BY <1>0, <1>2, <1>5, <2>1 DEF SamePhase
  <2> QED BY <1>0, <2>2, PhaseKept
<1>6. t \leq posted BY <1>0 DEF ClaimsOfOwners
<1>7. CASE reply
  <2>1. ~Answered(t) /\ answered' = [answered EXCEPT ![t] = @ \cup {"worker"}]
        BY <1>7 DEF Reports
  <2>2. Phase(t) = "working" BY <1>0, <1>6, <2>1 DEF Phase, ActiveOn
  <2>3. Answered(t)' BY <1>0, <2>1 DEF Answered, TypeInv, TypeOK
  <2>4. Phase(t)' = "answered" BY <1>0, <1>6, <2>3 DEF Phase
  <2>5. Jobs!Answer(t)
        BY <1>0, <1>4, <1>5, <2>2, <2>4, OneMoves DEF Jobs!Answer, Jobs!Move
  <2> QED BY <1>0, <2>5 DEF Jobs!Next
<1>8. CASE ~reply
  <2>1. answered' = answered BY <1>8 DEF Reports
  <2>2. CASE Answered(t)
    <3>1. Phase(t)' = Phase(t) BY <1>0, <2>1, <2>2 DEF Phase, Answered
    <3> QED BY <1>4, <1>5, <3>1 DEF Jobs!vars
  <2>3. CASE ~Answered(t)
    <3>1. Phase(t) = "working" BY <1>0, <1>6, <2>3 DEF Phase, ActiveOn
    <3>2. ActiveOn(t)' = {}
      <4>0. claim'[p.s][t] = Ended(claim[p.s][t], "completed") BY <1>0, <1>2
      <4>1. claim'[p.s][t].state = "completed" BY <4>0 DEF Ended
      <4>2. \A s \in Sessions \ {p.s} : claim'[s][t].state # "active"
            BY <1>0, <1>2 DEF ClaimsOfOwners
      <4> QED BY <4>1, <4>2 DEF ActiveOn
    <3>3. Phase(t)' \in {"declined", "waiting"}
          BY <1>0, <1>6, <2>1, <2>3, <3>2 DEF Phase, Answered
    <3>4. CASE Phase(t)' = "declined"
      <4>1. Jobs!Decline(t)
            BY <1>0, <1>4, <1>5, <3>1, <3>4, OneMoves DEF Jobs!Decline, Jobs!Move
      <4> QED BY <1>0, <4>1 DEF Jobs!Next
    <3>5. CASE Phase(t)' = "waiting"
      <4>1. Jobs!Lose({t}, {})
            BY <1>0, <1>4, <1>5, <3>1, <3>5 DEF Jobs!Lose
      <4>2. {t} \in SUBSET Triggers /\ {} \in SUBSET {t} BY <1>0
      <4> QED BY <4>1, <4>2 DEF Jobs!Next
    <3> QED BY <3>3, <3>4, <3>5
  <2> QED BY <2>2, <2>3
<1> QED BY <1>7, <1>8

LEMMA ClaimMaps ==
  ASSUME TypeInv, ClaimsOfOwners, NEW l \in Launchers, ClaimTarget(l),
         NEW s, NEW t, s = job[l].s, t = job[l].t
  PROVE  Jobs!Next \/ UNCHANGED Jobs!vars
<1>0. /\ s \in Sessions /\ t \in Triggers /\ t \in 1 .. posted /\ t \in Nat
      /\ posted \in Nat /\ posted' = posted /\ answered' = answered
  <2>1. job[l].pc \in OwnerKnown /\ job[l].pc \in DispatchPCs
        BY DEF ClaimTarget, At, OwnerKnown, DispatchPCs
  <2>2. posted \in Nat BY WakeAssumption DEF TypeInv, TypeOK
  <2>3. posted' = posted /\ answered' = answered BY DEF ClaimTarget, ledger
  <2> QED BY <2>1, <2>2, <2>3, TargetKnown DEF Triggers
<1>1. CASE ~Admits(s, t)
  <2>1. UNCHANGED <<claim, latest>> BY <1>1 DEF ClaimTarget
  <2>2. UNCHANGED Jobs!vars BY <1>0, <2>1, QuietSteps DEF Kept
  <2> QED BY <2>2
<1>2. CASE Admits(s, t)
  <2>1. /\ claim' = [claim EXCEPT ![s][t] = ClaimedAgain(@)]
        /\ latest' = IF claim[s][t].state = "none" THEN [latest EXCEPT ![t] = s] ELSE latest
        BY <1>2 DEF ClaimTarget
  <2>2. ASSUME NEW a \in Sessions, NEW u \in Triggers
        PROVE  claim'[a][u] = IF a = s /\ u = t THEN ClaimedAgain(claim[a][u])
                              ELSE claim[a][u]
        BY <1>0, <2>1 DEF TypeInv, TypeOK
  <2>3. Admitted(s, t)
    <3>1. claim'[s][t] = ClaimedAgain(claim[s][t]) BY <1>0, <2>2
    <3> QED BY <1>2, <3>1 DEF Admitted
  <2>4. ASSUME NEW a \in Sessions, NEW u \in Triggers, ~(a = s /\ u = t)
        PROVE  claim'[a][u] = claim[a][u] /\ Kept(a, u)
    <3>1. claim'[a][u] = claim[a][u] BY <2>2, <2>4
    <3> QED BY <3>1 DEF Kept
  <2>5. claim'[s][t].state = "active" BY <2>3 DEF Admitted, ClaimedAgain
  <2>6. CASE claim[s][t].state = "active"
    <3>1. latest' = latest BY <2>1, <2>6
    <3>2. Kept(s, t)
      <4>1. claim'[s][t] = ClaimedAgain(claim[s][t]) BY <2>3 DEF Admitted
      <4> QED BY <2>6, <4>1 DEF ClaimedAgain, Kept
    <3>3. \A a \in Sessions, u \in Triggers : Kept(a, u) BY <2>4, <3>2
    <3> QED BY <1>0, <3>1, <3>3, QuietSteps
  <2>7. CASE claim[s][t].state # "active"
    <3>1. /\ Tries(t) < Cardinality(Sessions) * (MaxRequeues + 1)
          /\ Tries(t)' = Tries(t) + 1
      <4>1. claim'[s][t] = ClaimedAgain(claim[s][t]) BY <2>3 DEF Admitted
      <4>2. \A a \in Sessions \ {s} : claim'[a][t] = claim[a][t] BY <1>0, <2>4
      <4> QED BY <1>0, <1>2, <2>7, <4>1, <4>2, TriesGrow
    <3>2. ASSUME NEW u \in Triggers \ {t} PROVE Tries(u)' = Tries(u) /\ Phase(u)' = Phase(u)
      <4>1. \A a \in Sessions : Kept(a, u) BY <2>4, <3>2
      <4>2. latest'[u] = latest[u] BY <1>0, <2>1, <3>2 DEF TypeInv, TypeOK
      <4>3. SamePhase(u) BY <1>0, <4>1, <4>2 DEF SamePhase, Kept
      <4> QED BY <1>0, <4>1, <4>3, TriesKept, PhaseKept
    <3>3. Phase(t) \in {"waiting", "declined"}
      <4>1. ActiveOn(t) = {}
            BY <1>0, <1>2, <2>7 DEF ActiveOn, Admits, ClaimsOfOwners
      <4> QED BY <1>0, <1>2, <4>1 DEF Phase, Admits, Answered
    <3>4. Phase(t)' = "working"
      <4>1. ActiveOn(t)' # {} BY <1>0, <2>5 DEF ActiveOn
      <4>2. ~Answered(t)' /\ ~(t > posted') BY <1>0, <1>2 DEF Admits, Answered
      <4> QED BY <1>0, <1>2, <4>1, <4>2 DEF Phase, Answered, Admits
    <3>5. [u \in Triggers |-> Phase(u)]' =
             [[u \in Triggers |-> Phase(u)] EXCEPT ![t] = "working"]
          BY <3>2, <3>4
    <3>6. [u \in Triggers |-> Tries(u)]' =
             [[u \in Triggers |-> Tries(u)] EXCEPT ![t] = @ + 1]
          BY <1>0, <3>1, <3>2
    <3>7. Jobs!Take(t)
          BY <1>0, <3>1, <3>3, <3>5, <3>6 DEF Jobs!Take, Jobs!Move
    <3> QED BY <1>0, <3>7 DEF Jobs!Next
  <2> QED BY <2>6, <2>7
<1> QED BY <1>1, <1>2

\* Every step of the pipeline is a step of WakeJobs, or leaves its state alone.
LEMMA StepMaps == SafetyInv /\ [Next]_vars => [Jobs!Next]_(Jobs!vars)
<1> SUFFICES ASSUME TypeInv, ClaimsOfOwners, [Next]_vars
             PROVE  Jobs!Next \/ UNCHANGED Jobs!vars
    BY DEF SafetyInv
<1>0. TypeOK BY DEF TypeInv
<1>1. ASSUME UNCHANGED <<posted, answered, latest, claim>> PROVE UNCHANGED Jobs!vars
      BY <1>1, QuietSteps, KeptByUnchanged
<1>2. CASE Post BY <1>2, PostMaps
<1>3. CASE \E t \in Triggers : ParentAnswers(t) BY <1>3, AnswerMaps
<1>4. CASE \E to \in Sessions \cup {Nobody} : Handover(to)
  <2>1. PICK to \in Sessions \cup {Nobody} : Handover(to) BY <1>4
  <2>2. ASSUME NEW s \in Sessions, NEW t \in Triggers PROVE Kept(s, t) \/ Retired(s, t)
    <3>1. claim'[s] = IF s = seat THEN Retire(s, Triggers) ELSE claim[s]
          BY <2>1 DEF Handover
    <3>2. CASE s = seat /\ claim[s][t].state = "active"
          BY <1>0, <1>4, <3>1, <3>2, RetireFacts DEF Retired
    <3>3. CASE ~(s = seat /\ claim[s][t].state = "active")
          BY <1>0, <3>1, <3>3, RetireFacts DEF Kept
    <3> QED BY <3>2, <3>3
  <2>3. UNCHANGED <<posted, answered, latest>> BY <2>1 DEF Handover
  <2> QED BY <2>2, <2>3, RetirementMaps
<1>5. CASE Recover
  <2>1. ASSUME NEW s \in Sessions, NEW t \in Triggers PROVE Kept(s, t) \/ Retired(s, t)
    <3>1. claim'[s] = Retire(s, {u \in Triggers : <<s, u>> \in Stale})
          BY <1>5 DEF Recover
    <3>2. CASE <<s, t>> \in Stale /\ claim[s][t].state = "active"
          BY <1>0, <1>5, <3>1, <3>2, RetireFacts DEF Retired
    <3>3. CASE ~(<<s, t>> \in Stale /\ claim[s][t].state = "active")
          BY <1>0, <3>1, <3>3, RetireFacts DEF Kept
    <3> QED BY <3>2, <3>3
  <2>2. UNCHANGED <<posted, answered, latest>> BY <1>5 DEF Recover, ledger
  <2> QED BY <2>1, <2>2, RetirementMaps
<1>6. CASE \E p \in procs : Exits(p)
      BY <1>1, <1>6 DEF Exits, ledger, tables
<1>7. CASE \E p \in procs : \E reply \in BOOLEAN : Reports(p, reply) BY <1>7, ReportMaps
<1>8. ASSUME NEW l \in Launchers, Dispatch(l) PROVE Jobs!Next \/ UNCHANGED Jobs!vars
  <2>1. CASE ClaimTarget(l) BY <2>1, ClaimMaps
  <2>2. CASE ~ClaimTarget(l)
    <3>1. UNCHANGED <<posted, answered, latest, claim>>
          BY <1>8, <2>2
             DEF Dispatch, Resolve, Snapshot, Launch, Receipt, Mark, Refuse, ledger, tables
    <3> QED BY <1>1, <3>1
  <2> QED BY <2>1, <2>2
<1>9. CASE \E l \in Launchers : Crash(l)
      BY <1>1, <1>9 DEF Crash, ledger, tables
<1>10. ASSUME NEW s \in Sessions, NEW t \in Triggers, Ages(s, t)
       PROVE  UNCHANGED Jobs!vars
  <2>1. UNCHANGED <<posted, answered, latest>> BY <1>10 DEF Ages, ledger
  <2>2. claim' = [claim EXCEPT ![s][t] = [claim[s][t] EXCEPT !.fresh = FALSE]]
        BY <1>10 DEF Ages
  <2>3. claim \in [Sessions -> [Triggers -> ClaimRow]]
        BY DEF TypeInv, TypeOK, ClaimRow
  <2>4. ASSUME NEW a \in Sessions, NEW u \in Triggers PROVE Kept(a, u)
    <3>1. claim'[a][u] = IF a = s /\ u = t THEN [claim[s][t] EXCEPT !.fresh = FALSE]
                         ELSE claim[a][u]
          BY <2>2, <2>3
    <3>2. claim[s][t] \in ClaimRow BY <2>3
    <3> QED BY <3>1, <3>2 DEF Kept, ClaimRow
  <2> QED BY <2>1, <2>4, QuietSteps
<1>11. CASE BeginScan BY <1>1, <1>11 DEF BeginScan, ledger, tables
<1>12. CASE NextRow BY <1>1, <1>12 DEF NextRow, ledger
<1>13. CASE UNCHANGED vars BY <1>1, <1>13 DEF vars, ledger, tables
<1>14. CASE \E t \in Triggers : Reads(t) \/ PostWatermark(t) BY <1>1, <1>14, InboxOnly
<1> QED BY <1>2, <1>3, <1>4, <1>5, <1>6, <1>7, <1>8, <1>9, <1>10, <1>11, <1>12, <1>13,
           <1>14 DEF Next

\* Hooks, pumps, crashes, sweeps and handovers together serve every trigger as
\* WakeJobs promises: it is worked on for one owner at a time, comes back when the
\* worker is lost, is never taken up again once answered, and gets no more workers
\* than the retry budgets of the sessions add up to.
THEOREM WakeServes == Spec => ServesAsJobs
<1>1. Init => Jobs!Init BY JobsInit
<1>2. SafetyInv /\ [Next]_vars => [Jobs!Next]_(Jobs!vars) BY StepMaps
<1>3. Spec => Jobs!Spec BY <1>1, <1>2, Safe, PTL DEF Spec, Jobs!Spec
<1> QED BY <1>3 DEF ServesAsJobs

--------------------------------------------------------------------------------
(* The cap on concurrent workers                                           *)

\* The pump passed the throttle and has not launched yet.
Unlaunched == {"resolve", "snapshot", "claim", "launch"}

\* Every worker is a child of the pump that runs, and the one it is about to
\* launch has a place.
Capped ==
  ~hooked =>
    /\ AlivePids \subseteq children
    /\ Cardinality(AlivePids) \leq MaxConcurrent
    /\ job["pump"].pc \in Unlaunched => Cardinality(AlivePids) < MaxConcurrent

LEMMA CardTypes ==
  ASSUME TypeInv
  PROVE  /\ Cardinality(AlivePids) \in Nat /\ Cardinality(LiveChildren) \in Nat
         /\ census \in Nat /\ MaxConcurrent \in Nat
<1>1. Cardinality(AlivePids) \in Nat BY NamedFinite, FS_CardinalityType
<1>2. Cardinality(LiveChildren) \in Nat BY LiveChildrenType, FS_CardinalityType
<1>3. census \in Nat BY DEF TypeInv, TypeOK
<1> QED BY <1>1, <1>2, <1>3, WakeAssumption

\* Where all workers are children, the throttle counts them.
LEMMA ThrottleCounts ==
  ASSUME TypeInv, AlivePids \subseteq children, ~Throttled
  PROVE  Cardinality(AlivePids) < MaxConcurrent
<1> DEFINE n == Cardinality(LiveChildren)
<1>1. LiveChildren = AlivePids BY DEF LiveChildren
<1>2. n \in Nat /\ census \in Nat /\ MaxConcurrent \in Nat BY CardTypes
<1>3. ~(Max({n, census}) \geq MaxConcurrent) BY DEF Throttled
<1> HIDE DEF n
<1>4. Max({n, census}) \in {n, census} /\ Max({n, census}) \geq n BY <1>2, MaxOfTwo
<1>5. n < MaxConcurrent BY <1>2, <1>3, <1>4
<1> QED BY <1>1, <1>5 DEF n

\* A launch takes the place that was left.
LEMMA CappedLaunch ==
  ASSUME TypeInv, HookInstalled, Capped, ~hooked, NEW l \in Launchers, Launch(l)
  PROVE  /\ AlivePids' \subseteq children' /\ Cardinality(AlivePids)' \leq MaxConcurrent
         /\ job'["pump"].pc \notin Unlaunched
<1>1. l = "pump"
  <2>1. job[l].pc = "launch" BY DEF Launch, At
  <2>2. job["hook"].pc = "idle" BY DEF HookInstalled, Idle
  <2> QED BY <2>1, <2>2 DEF Launchers
<1>2. /\ procs' = procs \cup {[pid |-> NewPid, s |-> job[l].s, t |-> job[l].t]}
      /\ children' = children \cup {NewPid}
      /\ job' = [job EXCEPT ![l] = [To(l, "receipt") EXCEPT !.pid = NewPid]]
      /\ job[l].pc = "launch"
  BY <1>1 DEF Launch, Goto, At
<1>3. AlivePids' = AlivePids \cup {NewPid}
  <2> DEFINE p == [pid |-> NewPid, s |-> job[l].s, t |-> job[l].t]
  <2>1. procs' = procs \cup {p} /\ p.pid = NewPid BY <1>2
  <2> HIDE DEF p
  <2> QED BY <2>1 DEF AlivePids
<1>4. NewPid \notin AlivePids BY NewPidFresh
<1>5. Cardinality(AlivePids)' = Cardinality(AlivePids) + 1
  <2>1. Cardinality(AlivePids \cup {NewPid}) = Cardinality(AlivePids) + 1
    <3>1. IsFiniteSet(AlivePids) BY NamedFinite
    <3> QED BY <1>4, <3>1, FS_AddElement
  <2> QED BY <1>3, <2>1
<1>6. Cardinality(AlivePids) < MaxConcurrent /\ AlivePids \subseteq children
  BY <1>1, <1>2 DEF Capped, Unlaunched
<1>7. job'["pump"].pc = "receipt"
  BY <1>1, <1>2 DEF To, TypeInv, JobsTyped, JobRow
<1> QED BY <1>2, <1>3, <1>5, <1>6, <1>7, CardTypes DEF Unlaunched

\* Only the throttle lets the pump start a dispatch.
LEMMA UnlaunchedSteps ==
  ASSUME TypeInv, [Next]_vars, ~hooked, job'["pump"].pc \in Unlaunched
  PROVE  job["pump"].pc \in Unlaunched \/ (NextRow /\ ~Throttled)
<1>1. "pump" \in Launchers /\ JobShape("pump") BY JobShapes DEF Launchers
<1>2. CASE NextRow
  <2>1. At("pump", "scan") BY <1>2 DEF NextRow
  <2>2. job'["pump"].pc # "scan" /\ Idle.pc = "idle" BY DEF Unlaunched, Idle
  <2>3. ~EndScan
    <3>1. ASSUME EndScan PROVE FALSE
      <4>1. job'["pump"] = Idle
        BY <1>1, <3>1 DEF EndScan, Goto, TypeInv, JobsTyped
      <4> QED BY <2>2, <4>1 DEF Unlaunched
    <3> QED BY <3>1
  <2>4. PICK row \in scan : SkipTerminal(row) \/ Hold(row) \/ Begin(row.t)
    BY <1>2, <2>3 DEF NextRow
  <2>5. ~SkipTerminal(row) /\ ~Hold(row)
    BY <2>1, <2>2 DEF SkipTerminal, Hold, At
  <2> QED BY <1>2, <2>4, <2>5 DEF Begin
<1>3. CASE ~NextRow
  BY <1>1, <1>3 DEF JobShape, Unlaunched, Carries, Resolve, Snapshot, ClaimTarget,
     Launch, Receipt, At
<1> QED BY <1>2, <1>3

\* The pump forgets a child only when it has ended, unless it dies itself.
LEMMA ChildrenSteps ==
  ASSUME TypeInv, [Next]_vars, ~Crash("pump"), ~ \E l \in Launchers : Launch(l)
  PROVE  \/ children' = children
         \/ children' = LiveChildren /\ procs' = procs
<1>1. CASE BeginScan \/ NextRow BY <1>1 DEF BeginScan, NextRow
<1>2. CASE \E l \in Launchers : Dispatch(l)
  BY <1>2 DEF Dispatch, Resolve, Snapshot, ClaimTarget, Receipt, Mark, Refuse, Finish, pump
<1>3. CASE \E l \in Launchers : Crash(l) BY <1>3 DEF Crash, pump
<1> QED BY <1>1, <1>2, <1>3
        DEF Next, Post, ParentAnswers, Reads, PostWatermark, Handover, Exits, Reports, Ages,
            Recover, vars, pump

LEMMA CappedKept ==
  ASSUME TypeInv, HookInstalled, Capped, [Next]_vars, ~Crash("pump")
  PROVE  Capped'
<1> SUFFICES ASSUME ~hooked
             PROVE  /\ AlivePids' \subseteq children'
                    /\ Cardinality(AlivePids)' \leq MaxConcurrent
                    /\ job'["pump"].pc \in Unlaunched =>
                         Cardinality(AlivePids)' < MaxConcurrent
  BY LedgerSteps DEF Capped
<1>1. CASE \E l \in Launchers : Launch(l) BY <1>1, CappedLaunch
<1>2. CASE ~ \E l \in Launchers : Launch(l)
  <2>1. /\ AlivePids \subseteq children /\ Cardinality(AlivePids) \leq MaxConcurrent
        /\ job["pump"].pc \in Unlaunched => Cardinality(AlivePids) < MaxConcurrent
    BY DEF Capped
  <2>2. procs' \subseteq procs BY <1>2, ProcSteps
  <2>3. AlivePids' \subseteq AlivePids BY <2>2 DEF AlivePids
  <2>4. Cardinality(AlivePids)' \leq Cardinality(AlivePids)
    BY <2>3, NamedFinite, FS_Subset
  <2>5. Cardinality(AlivePids)' \in Nat
    BY <2>3, NamedFinite, FS_Subset, FS_CardinalityType
  <2>6. AlivePids' \subseteq children'
    <3>1. CASE children' = children BY <2>1, <2>3, <3>1
    <3>2. CASE children' = LiveChildren BY <2>1, <2>3, <3>2 DEF LiveChildren
    <3> QED BY <1>2, <3>1, <3>2, ChildrenSteps
  <2>7. ASSUME job'["pump"].pc \in Unlaunched PROVE Cardinality(AlivePids) < MaxConcurrent
    <3>1. CASE job["pump"].pc \in Unlaunched BY <2>1, <3>1
    <3>2. CASE ~Throttled BY <2>1, <3>2, ThrottleCounts
    <3> QED BY <2>7, <3>1, <3>2, UnlaunchedSteps
  <2> QED BY <2>1, <2>4, <2>5, <2>6, <2>7, CardTypes
<1> QED BY <1>1, <1>2

\* Where no session has the hook installed and the pump itself never dies, no more
\* than max_concurrent_workers run at a time, however many receipts are lost and
\* however often the role changes hands.  Both conditions are needed: the hook
\* does not look at the cap, and a restarted pump counts only the survivors that
\* an active claim and a receipt still name.
THEOREM CapAlone == Spec /\ [][~Crash("pump")]_vars => [](~hooked => CapRespected)
<1>1. Init => Capped
  <2> SUFFICES ASSUME Init PROVE Capped OBVIOUS
  <2>1. AlivePids = {} BY DEF Init, AlivePids
  <2>2. Cardinality(AlivePids) = 0 BY <2>1, FS_EmptySet
  <2>3. job["pump"].pc = "idle" BY DEF Init, Launchers, Idle
  <2> QED BY <2>1, <2>2, <2>3, WakeAssumption DEF Capped, Unlaunched
<1>2. SafetyInv /\ Capped /\ [Next]_vars /\ [~Crash("pump")]_vars => Capped'
  <2> SUFFICES ASSUME SafetyInv, Capped, [Next]_vars, [~Crash("pump")]_vars
               PROVE  Capped'
    OBVIOUS
  <2>1. CASE ~Crash("pump") BY <2>1, CappedKept DEF SafetyInv
  <2>2. CASE UNCHANGED vars
    <3>1. UNCHANGED <<hooked, procs, children, job>>
      BY <2>2 DEF vars, ledger, pump
    <3> QED BY <3>1 DEF Capped, AlivePids
  <2> QED BY <2>1, <2>2
<1>3. SafetyInv /\ Capped => (~hooked => CapRespected)
  <2> SUFFICES ASSUME SafetyInv, Capped, ~hooked PROVE CapRespected OBVIOUS
  <2>0. TypeInv BY DEF SafetyInv
  <2> DEFINE f == [p \in procs |-> p.pid]
  <2>1. f \in Injection(procs, AlivePids)
    <3>1. f \in [procs -> AlivePids] BY DEF AlivePids
    <3>2. \A p, q \in procs : f[p] = f[q] => p = q BY DEF SafetyInv, PidsUnique
    <3> HIDE DEF f
    <3> QED BY <3>1, <3>2 DEF Injection, IsInjective
  <2> HIDE DEF f
  <2>2. IsFiniteSet(procs) /\ Cardinality(procs) \leq Cardinality(AlivePids)
    BY <2>0, <2>1, NamedFinite, FS_Injection
  <2>3. Cardinality(procs) \in Nat BY <2>2, FS_CardinalityType
  <2>4. Cardinality(AlivePids) \leq MaxConcurrent BY DEF Capped
  <2> QED BY <2>0, <2>2, <2>3, <2>4, CardTypes DEF CapRespected
<1> QED BY <1>1, <1>2, <1>3, Safe, PTL DEF Spec
================================================================================
