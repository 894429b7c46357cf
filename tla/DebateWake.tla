------------------------------ MODULE DebateWake ------------------------------
(***************************************************************************)
(* How an addressed message (a trigger) reaches a worker process.          *)
(*                                                                         *)
(* Two launchers run the same pipeline of hooks/debate_wake.py, one short  *)
(* transaction after the other: the hook of the session that posted, once, *)
(* and the resident pump, scan after scan (hooks/debate_pump.py).          *)
(*                                                                         *)
(*   Resolve -> Snapshot -> ClaimTarget -> Launch -> Receipt -> Mark       *)
(*                                                                         *)
(* Launchers and workers may die between any two of these steps; the role  *)
(* may change hands; the pump's sweep retires the claims of the dead.  One *)
(* topic, one role, every trigger addressed to it with a vehicle a worker  *)
(* may serve; triggers are numbered in the order they are posted.          *)
(***************************************************************************)
EXTENDS Integers, FiniteSets, FiniteSetsExt

CONSTANTS
  Sessions,       \* sessions that may own the role
  Nobody,         \* no active binding
  FirstOwner,     \* who owns the role when the model starts, or Nobody
  Handovers,      \* the pairs <<from, to>> bind_role_session may make
  HookModes,      \* may the sessions that post have the hook installed?
  Reading,        \* do owners read their inbox, and may the role post WATERMARKs?
  LastTrigger,    \* bound: triggers posted
  MaxRequeues,    \* DEBATE_WORKER_MAX_REQUEUES
  MaxConcurrent,  \* --max-concurrent-workers
  MaxPerScan,     \* --max-workers-per-scan
  Limit,          \* --limit, rows per source and scan
  MaxFaults       \* bound: crashes of launchers and lost receipts

ASSUME WakeAssumption ==
  /\ IsFiniteSet(Sessions) /\ Nobody \notin Sessions
  /\ FirstOwner \in Sessions \cup {Nobody}
  /\ \A h \in Handovers : {h[1], h[2]} \subseteq Sessions \cup {Nobody} /\ h[1] # h[2]
  /\ HookModes \subseteq BOOLEAN /\ Reading \in BOOLEAN
  /\ {LastTrigger, MaxRequeues, MaxConcurrent, MaxPerScan, Limit, MaxFaults} \subseteq Nat
  /\ 0 \notin {MaxConcurrent, MaxPerScan, Limit}

Triggers  == 1 .. LastTrigger
Launchers == {"hook", "pump"}

VARIABLES
  hooked,      \* is the hook installed in the sessions that post?
  posted,      \* triggers 1 .. posted are in the ledger
  answered,    \* trigger -> classes of the role's terminal replies to it
  seat,        \* owner of the role
  generation,  \* of the owner's binding
  cursor,      \* session -> its debate_signal_state row, 0 when absent
  watermark,   \* debate_watermarks of the role, 0 when absent
  vouched,     \* history: the furthest trigger an owner read to, a WATERMARK
               \* named, or whoever seated an owner put it at
  claim,       \* session -> trigger -> its debate_worker_claims row
  latest,      \* trigger -> session that inserted its youngest claim
  wake,        \* session -> trigger -> result of its debate_wake_log row
  receipt,     \* session -> trigger -> its external_agent_spawn row
  pending,     \* triggers with an open debate_delivery_queue row
  procs,       \* live worker processes
  job,         \* launcher -> the dispatch it is in
  scan,        \* rows the pump's scan has left
  passed,      \* the pump's file cursor
  children,    \* processes the pump tracks as its own
  census,      \* live workers the scan counted when it began
  launched,    \* workers this scan launched
  faults

inbox  == <<cursor, watermark, vouched>>
ledger == <<hooked, posted, answered, seat, generation, inbox>>
tables == <<claim, latest, wake, receipt, pending>>
pump   == <<scan, passed, children, census, launched>>
vars   == <<ledger, tables, procs, job, pump, faults>>

--------------------------------------------------------------------------------
(* Rows and what is read from them                                         *)

NoClaim   == [state |-> "none", requeues |-> 0, fresh |-> FALSE]
NoReceipt == [pid |-> 0, gen |-> 0]
Idle      == [pc |-> "idle", t |-> 0, s |-> Nobody, gen |-> 0, pid |-> 0]

\* The dispatch of a trigger begins; a claim is in force no longer.
Dispatching(t)   == [pc |-> "resolve", t |-> t, s |-> Nobody, gen |-> 0, pid |-> 0]
Ended(c, state)  == [state |-> state, requeues |-> c.requeues, fresh |-> FALSE]

\* _terminal_reply_for_trigger
Answered(t) == answered[t] # {}

\* _recipient_claim_state: the youngest claim of the role on the trigger.
ClaimState(t) == IF latest[t] = Nobody THEN "none" ELSE claim[latest[t]][t].state

\* Mutant: a 'dispatched' row covers its trigger for ever.
CoversAlways(t) == TRUE

\* _dispatch_still_covers_trigger
Covers(t) == Answered(t) \/ ClaimState(t) # "retired"

\* Mutant: a dispatched trigger is done with (the defect the docstring of
\* _trigger_is_terminal describes).
DispatchedIsTerminal(t) ==
  /\ seat # Nobody
  /\ \/ Answered(t)
     \/ ClaimState(t) = "completed"
     \/ wake[seat][t] \in {"dispatched", "terminal_no_action"}

\* _trigger_is_terminal, with _has_unbound_addressed_recipient
Terminal(t) ==
  /\ seat # Nobody
  /\ \/ Answered(t)
     \/ ClaimState(t) = "completed"
     \/ wake[seat][t] = "terminal_no_action"

\* _estimate_worker_demand of one role recipient
Demanded(t) ==
  /\ seat # Nobody
  /\ ~Answered(t)
  /\ ClaimState(t) \notin {"active", "completed"}
  /\ \/ ClaimState(t) = "retired"
     \/ wake[seat][t] \notin {"dispatched", "terminal_no_action"}

\* _routing_snapshot_current: the binding is still the one the launcher saw
\* and its claim still stands.
Confirmed(s, t, gen) ==
  /\ gen # 0 /\ seat = s /\ generation = gen
  /\ claim[s][t].state \in {"active", "completed"}

\* _delivery_acknowledged: a reply, the role's WATERMARK, the owner's cursor, or
\* _confirmed_delivery_receipt.
Acknowledged(t) ==
  \/ Answered(t)
  \/ t \leq watermark
  \/ /\ seat # Nobody
     /\ t \leq cursor[seat] \/ Confirmed(seat, t, receipt[seat][t].gen)

AlivePids == {p.pid : p \in procs}

\* A process is known by its pid and its start time: never taken for another
\* one that some table or launcher still names.
NewPid ==
  LET named == AlivePids \cup children \cup {job[l].pid : l \in Launchers} \cup
               {receipt[s][t].pid : s \in Sessions, t \in Triggers}
  IN  Min((1 .. Cardinality(named) + 1) \ named)

\* _live_worker_claim_keys: active claims whose latest receipt names a live
\* process.
LiveClaims ==
  {k \in Sessions \X Triggers : /\ claim[k[1]][k[2]].state = "active"
                                /\ receipt[k[1]][k[2]].pid \in AlivePids}

\* _reap_children
LiveChildren == children \cap AlivePids

\* _fetch_pending_deliveries: the newest rows, the last slot kept for the oldest
\* when there are too many.
Targeted ==
  LET newer(t) == {u \in pending : u > t}
  IN  IF Limit = 1 THEN {t \in pending : newer(t) = {}}
      ELSE {t \in pending : \/ Cardinality(newer(t)) < Limit - 1
                            \/ \A u \in pending : t \leq u}

\* _fetch_new
PastCursor == {t \in 1 .. posted : passed < t /\ t \leq passed + Limit}

\* The rows of a scan, each once; a row found past the file cursor may move it.
Rows ==
  {[t |-> t, queued |-> t \in Targeted, past |-> t \in PastCursor] :
     t \in Targeted \cup PastCursor}

\* The queue's rows come first and newest first, the others in their order.
Before(a, b) ==
  IF a.queued = b.queued THEN (IF a.queued THEN a.t > b.t ELSE a.t < b.t) ELSE a.queued

--------------------------------------------------------------------------------
(* The ledger and the seat                                                 *)

ActiveOn(t)      == {s \in Sessions : claim[s][t].state = "active"}
Retire(s, T)     == [t \in Triggers |->
                       IF t \in T /\ claim[s][t].state = "active"
                       THEN Ended(claim[s][t], "retired") ELSE claim[s][t]]

\* debate_post_with_recipients: the message and its queue row, then the hook of
\* the posting session - unless it is not installed, disabled, or the budget
\* of a spawned worker's session is spent (_run_hook).
Post ==
  /\ posted < LastTrigger
  /\ posted' = posted + 1
  /\ pending' = pending \cup {posted + 1}
  /\ \/ UNCHANGED job
     \/ /\ hooked /\ job["hook"].pc = "idle"
        /\ job' = [job EXCEPT !["hook"] = Dispatching(posted + 1)]
  /\ UNCHANGED <<hooked, answered, seat, generation, inbox, claim, latest, wake,
                 receipt, procs, pump, faults>>

\* The owner answers itself: parent-final, the workers on the trigger retire.
ParentAnswers(t) ==
  /\ t \leq posted /\ seat # Nobody /\ "parent" \notin answered[t]
  /\ answered' = [answered EXCEPT ![t] = @ \cup {"parent"}]
  /\ claim' = [s \in Sessions |-> Retire(s, {t})]
  /\ UNCHANGED <<hooked, posted, seat, generation, inbox, latest, wake, receipt,
                 pending, procs, job, pump, faults>>

\* How far an owner, a WATERMARK or an operator says the role has come.
Vouch(i) == vouched' = Max({vouched, i})

\* The owner's signal_check and signal_advance.
Reads(t) ==
  /\ Reading /\ seat # Nobody
  /\ cursor[seat] < t /\ t \leq posted
  /\ cursor' = [cursor EXCEPT ![seat] = t]
  /\ Vouch(t)
  /\ UNCHANGED <<hooked, posted, answered, seat, generation, watermark, tables, procs,
                 job, pump, faults>>

\* WATERMARK overwrites the role's row and drags the owner's cursor along.
PostWatermark(t) ==
  /\ Reading /\ t \leq posted
  /\ watermark' = t
  /\ cursor' = IF seat = Nobody THEN cursor
               ELSE [cursor EXCEPT ![seat] = Max({@, t})]
  /\ Vouch(t)
  /\ UNCHANGED <<hooked, posted, answered, seat, generation, tables, procs, job, pump,
                 faults>>

\* Where the cursor of a new owner may stand: where it was (bind_role_session), at
\* the start, or anywhere from the former owner's on (rotate_role_binding); anywhere,
\* when a sweep seats it on the cursor of whoever was bound to the role.
StartsAt(to) ==
  IF to = Nobody \/ ~Reading THEN {0}
  ELSE IF seat = Nobody THEN 0 .. posted
  ELSE {0, cursor[to]} \cup cursor[seat] .. posted

\* Another owner, or none; the workers of the former retire.
Handover(to) ==
  /\ <<seat, to>> \in Handovers
  /\ seat' = to
  /\ generation' = generation + 1
  /\ \E i \in StartsAt(to) :
       /\ cursor' = IF to = Nobody THEN cursor ELSE [cursor EXCEPT ![to] = i]
       /\ Vouch(i)
  /\ claim' = [s \in Sessions |-> IF s = seat THEN Retire(s, Triggers) ELSE claim[s]]
  /\ UNCHANGED <<hooked, posted, answered, watermark, latest, wake, receipt, pending,
                 procs, job, pump, faults>>

--------------------------------------------------------------------------------
(* Worker processes                                                        *)

\* A worker reports while its claim is active: its one terminal reply, or
\* worker_no_action.  Which replies the DAO admits is in DebateOwnership.
Reports(p, reply) ==
  /\ claim[p.s][p.t].state = "active" /\ seat = p.s
  /\ reply => ~Answered(p.t)
  /\ claim' = [claim EXCEPT ![p.s][p.t] = Ended(@, "completed")]
  /\ answered' = IF reply THEN [answered EXCEPT ![p.t] = @ \cup {"worker"}] ELSE answered
  /\ UNCHANGED <<hooked, posted, seat, generation, inbox, latest, wake, receipt,
                 pending, procs, job, pump, faults>>

\* Done, out of quota, or killed.
Exits(p) ==
  /\ procs' = procs \ {p}
  /\ UNCHANGED <<ledger, tables, job, pump, faults>>

--------------------------------------------------------------------------------
(* The pipeline of a launcher                                              *)

At(l, pc)  == job[l].pc = pc
Goto(l, j) == job' = [job EXCEPT ![l] = j]
To(l, pc)  == [job[l] EXCEPT !.pc = pc]
Step(l, pc) == Goto(l, To(l, pc))

\* The dispatch of a row ends: the hook is done, the pump takes its next row.
Finish(l, launches) ==
  /\ Goto(l, [Idle EXCEPT !.pc = IF l = "pump" THEN "scan" ELSE "idle"])
  /\ IF l = "pump"
     THEN /\ scan' = {row \in scan : row.t # job[l].t}
          /\ launched' = launched + launches
          /\ UNCHANGED <<passed, children, census>>
     ELSE UNCHANGED pump

\* prepare_wake_dry_run: the owner is the target unless its wake row says the
\* trigger is covered; a stale row is reset in place.
Resolve(l) ==
  LET t == job[l].t
  IN  /\ At(l, "resolve")
      /\ IF \/ seat = Nobody
            \/ wake[seat][t] = "terminal_no_action"
            \/ wake[seat][t] = "dispatched" /\ Covers(t)
         THEN Finish(l, 0) /\ UNCHANGED wake
         ELSE /\ wake' = [wake EXCEPT ![seat][t] = "dry_run"]
              /\ Goto(l, [To(l, "snapshot") EXCEPT !.s = seat])
              /\ UNCHANGED pump
      /\ UNCHANGED <<ledger, claim, latest, receipt, pending, procs, faults>>

\* _routing_binding_snapshot
Snapshot(l) ==
  /\ At(l, "snapshot")
  /\ Goto(l, [To(l, "claim") EXCEPT !.gen = IF seat = job[l].s THEN generation ELSE 0])
  /\ UNCHANGED <<ledger, tables, procs, pump, faults>>

\* The runtime preflight of _launch_agent refuses before anything is claimed.
Refuse(l) ==
  /\ At(l, "claim")
  /\ Finish(l, 0)
  /\ UNCHANGED <<ledger, tables, procs, faults>>

\* Mutants: a completed claim is taken up again; the budget is not looked at; a
\* claim that fails for any reason closes the trigger.
AdmitsCompleted(s, t) ==
  /\ seat = s /\ answered[t] = {}
  /\ \/ claim[s][t].state \in {"none", "active", "completed"}
     \/ claim[s][t].requeues < MaxRequeues
AdmitsUnbounded(s, t) ==
  seat = s /\ answered[t] = {} /\ claim[s][t].state # "completed"
RefusalClosesAny(s, t) == TRUE

\* claim_worker_session: who gets a worker ...
Admits(s, t) ==
  /\ seat = s /\ answered[t] = {}
  /\ \/ claim[s][t].state \in {"none", "active"}
     \/ claim[s][t].state = "retired" /\ claim[s][t].requeues < MaxRequeues

\* ... and which refusals tell the launcher that the trigger is closed: the
\* others (the parent lost its seat) leave its wake row at 'dry_run'.
RefusalCloses(s, t) == seat = s

ClaimedAgain(c) ==
  [state |-> "active", fresh |-> TRUE,
   requeues |-> IF c.state = "retired" THEN c.requeues + 1 ELSE c.requeues]

\* _claim_worker_target
ClaimTarget(l) ==
  LET s == job[l].s  t == job[l].t
  IN  /\ At(l, "claim")
      /\ IF Admits(s, t)
         THEN /\ claim' = [claim EXCEPT ![s][t] = ClaimedAgain(@)]
              /\ latest' = IF claim[s][t].state = "none" THEN [latest EXCEPT ![t] = s]
                           ELSE latest
              /\ Step(l, "launch") /\ UNCHANGED pump
         ELSE /\ IF RefusalCloses(s, t) THEN Step(l, "close") /\ UNCHANGED pump
                 ELSE Finish(l, 0)
              /\ UNCHANGED <<claim, latest>>
      /\ UNCHANGED <<ledger, wake, receipt, pending, procs, faults>>

\* Popen; the pump finds the new process among its children when the dispatch
\* of the row is over.
Launch(l) ==
  /\ At(l, "launch")
  /\ procs' = procs \cup {[pid |-> NewPid, s |-> job[l].s, t |-> job[l].t]}
  /\ children' = IF l = "pump" THEN children \cup {NewPid} ELSE children
  /\ Goto(l, [To(l, "receipt") EXCEPT !.pid = NewPid])
  /\ UNCHANGED <<ledger, tables, scan, passed, census, launched, faults>>

\* The receipt names the process and, if the attribution still holds, the
\* binding it was launched for.
NewReceipt(l) ==
  [pid |-> job[l].pid,
   gen |-> IF Confirmed(job[l].s, job[l].t, job[l].gen) THEN job[l].gen ELSE 0]

\* _record_real_spawn: one row per (trigger, worker), refreshed in place.  A
\* failed write is logged and forgotten.
Receipt(l) ==
  /\ At(l, "receipt")
  /\ \/ /\ receipt' = [receipt EXCEPT ![job[l].s][job[l].t] = NewReceipt(l)]
        /\ UNCHANGED faults
     \/ /\ faults < MaxFaults /\ faults' = faults + 1
        /\ UNCHANGED receipt
  /\ Step(l, "mark")
  /\ UNCHANGED <<ledger, claim, latest, wake, pending, procs, pump>>

\* _mark_source_wake_result: only a row still at 'dry_run' is marked.
Marked(l, result) ==
  wake' = [wake EXCEPT ![job[l].s][job[l].t] = IF @ = "dry_run" THEN result ELSE @]

Mark(l) ==
  /\ \/ At(l, "mark")  /\ Marked(l, "dispatched") /\ Finish(l, 1)
     \/ At(l, "close") /\ Marked(l, "terminal_no_action") /\ Finish(l, 0)
  /\ UNCHANGED <<ledger, claim, latest, receipt, pending, procs, faults>>

Dispatch(l) ==
  \/ Resolve(l) \/ Snapshot(l) \/ ClaimTarget(l) \/ Launch(l) \/ Receipt(l) \/ Mark(l)
  \/ Refuse(l)

\* A launcher dies at any point of a dispatch or a scan; service supervision
\* starts the pump again with no children of its own.
Crash(l) ==
  /\ ~At(l, "idle") /\ faults < MaxFaults
  /\ faults' = faults + 1
  /\ Goto(l, Idle)
  /\ IF l = "pump"
     THEN scan' = {} /\ children' = {} /\ census' = 0 /\ launched' = 0 /\ UNCHANGED passed
     ELSE UNCHANGED pump
  /\ UNCHANGED <<ledger, tables, procs>>

--------------------------------------------------------------------------------
(* The pump                                                                *)

\* More than 120 seconds since anything touched the claim.
Ages(s, t) ==
  /\ claim[s][t].fresh /\ claim[s][t].state = "active"
  /\ claim' = [claim EXCEPT ![s][t] = [@ EXCEPT !.fresh = FALSE]]
  /\ UNCHANGED <<ledger, latest, wake, receipt, pending, procs, job, pump, faults>>

\* Mutant: the sweep does not look at the receipts.
StaleWhateverRuns ==
  {k \in Sessions \X Triggers : /\ claim[k[1]][k[2]].state = "active"
                                /\ ~claim[k[1]][k[2]].fresh}
Stale ==
  {k \in Sessions \X Triggers : /\ claim[k[1]][k[2]].state = "active"
                                /\ ~claim[k[1]][k[2]].fresh} \ LiveClaims

\* _recover_stale_worker_claims.  A worker's own reply completed its claim in
\* the transaction that stored it, so whatever is found here is an orphan.
Recover ==
  /\ At("pump", "idle") /\ Stale # {}
  /\ claim' = [s \in Sessions |-> Retire(s, {t \in Triggers : <<s, t>> \in Stale})]
  /\ UNCHANGED <<ledger, latest, wake, receipt, pending, procs, job, pump, faults>>

\* The census and the rows of one scan of main().
BeginScan ==
  /\ At("pump", "idle") /\ Rows # {}
  /\ scan' = Rows
  /\ census' = Cardinality(LiveClaims)
  /\ children' = LiveChildren
  /\ launched' = 0
  /\ Goto("pump", [Idle EXCEPT !.pc = "scan"])
  /\ UNCHANGED <<ledger, tables, procs, passed, faults>>

\* A terminal row: its delivery is completed if acknowledged, and the file
\* cursor is set to it if it was found past the cursor.
SkipTerminal(row) ==
  /\ Terminal(row.t)
  /\ pending' = IF row.queued /\ Acknowledged(row.t) THEN pending \ {row.t} ELSE pending
  /\ passed' = IF row.past THEN row.t ELSE passed
  /\ scan' = scan \ {row}
  /\ UNCHANGED <<job, census, launched>>

\* In flight, or no owner to launch for: the row is left as it is.
Hold(row) ==
  /\ ~Terminal(row.t) /\ ~Demanded(row.t)
  /\ scan' = scan \ {row}
  /\ UNCHANGED <<pending, job, passed, census, launched>>

\* _throttle_reason
Throttled ==
  \/ launched \geq MaxPerScan
  \/ Max({Cardinality(LiveChildren), census}) \geq MaxConcurrent

EndScan ==
  /\ scan' = {} /\ launched' = 0 /\ census' = 0
  /\ Goto("pump", Idle)
  /\ UNCHANGED <<pending, passed>>

Begin(t) ==
  /\ ~Terminal(t) /\ Demanded(t) /\ ~Throttled
  /\ Goto("pump", Dispatching(t))
  /\ UNCHANGED <<pending, scan, passed, census, launched>>

\* One row of the scan loop, up to its dispatch.
NextRow ==
  /\ At("pump", "scan")
  /\ children' = LiveChildren
  /\ \/ scan = {} /\ EndScan
     \/ \E row \in scan :
          /\ \A other \in scan \ {row} : Before(row, other)
          /\ \/ SkipTerminal(row) \/ Hold(row) \/ Begin(row.t)
             \/ ~Terminal(row.t) /\ Demanded(row.t) /\ Throttled /\ EndScan
  /\ UNCHANGED <<ledger, claim, latest, wake, receipt, procs, faults>>

--------------------------------------------------------------------------------
Init ==
  /\ hooked \in HookModes
  /\ posted = 0
  /\ answered = [t \in Triggers |-> {}]
  /\ seat = FirstOwner
  /\ generation = 1
  /\ cursor = [s \in Sessions |-> 0] /\ watermark = 0 /\ vouched = 0
  /\ claim = [s \in Sessions |-> [t \in Triggers |-> NoClaim]]
  /\ latest = [t \in Triggers |-> Nobody]
  /\ wake = [s \in Sessions |-> [t \in Triggers |-> "none"]]
  /\ receipt = [s \in Sessions |-> [t \in Triggers |-> NoReceipt]]
  /\ pending = {}
  /\ procs = {}
  /\ job = [l \in Launchers |-> Idle]
  /\ scan = {} /\ passed = 0 /\ children = {} /\ census = 0 /\ launched = 0
  /\ faults = 0

Next ==
  \/ Post
  \/ \E t \in Triggers : ParentAnswers(t) \/ Reads(t) \/ PostWatermark(t)
  \/ \E to \in Sessions \cup {Nobody} : Handover(to)
  \/ \E p \in procs : Exits(p) \/ \E reply \in BOOLEAN : Reports(p, reply)
  \/ \E l \in Launchers : Dispatch(l) \/ Crash(l)
  \/ \E s \in Sessions, t \in Triggers : Ages(s, t)
  \/ Recover \/ BeginScan \/ NextRow

Spec == Init /\ [][Next]_vars

\* The pump is a supervised service: it keeps scanning and finishes what it
\* dispatches; its recovery interval elapses again and again; the agent runtime
\* is not refused for ever.  A worker that never reports is ended by its
\* runtime, and time passes.
FairSpec ==
  /\ Spec
  /\ WF_vars(BeginScan) /\ WF_vars(NextRow)
  /\ \A l \in Launchers : WF_vars(Dispatch(l)) /\ SF_vars(ClaimTarget(l))
  /\ SF_vars(Recover)
  /\ WF_vars(\E p \in procs : Exits(p))
  /\ \A s \in Sessions, t \in Triggers : WF_vars(Ages(s, t))

--------------------------------------------------------------------------------
(* Properties                                                              *)

Results == {"none", "dry_run", "dispatched", "terminal_no_action"}

\* Every table and every launcher is well-typed; no claim exceeds its retry
\* budget, no cursor runs ahead of the ledger.
TypeOK ==
  /\ hooked \in HookModes /\ posted \in 0 .. LastTrigger
  /\ answered \in [Triggers -> SUBSET {"parent", "worker"}]
  /\ seat \in Sessions \cup {Nobody}
  /\ generation \in Nat \ {0}
  /\ cursor \in [Sessions -> 0 .. posted]
  /\ watermark \in 0 .. posted /\ vouched \in 0 .. posted
  /\ claim \in [Sessions -> [Triggers ->
       [state : {"none", "active", "completed", "retired"},
        requeues : 0 .. MaxRequeues, fresh : BOOLEAN]]]
  /\ latest \in [Triggers -> Sessions \cup {Nobody}]
  /\ wake \in [Sessions -> [Triggers -> Results]]
  /\ receipt \in [Sessions -> [Triggers -> [pid : Nat, gen : 0 .. generation]]]
  /\ pending \subseteq 1 .. posted
  /\ procs \subseteq [pid : Nat \ {0}, s : Sessions, t : Triggers]
  /\ children \subseteq Nat \ {0}
  /\ passed \in 0 .. posted /\ census \in Nat /\ launched \in Nat
  /\ faults \in 0 .. MaxFaults

Exhausted(s, t) == claim[s][t].state = "retired" /\ claim[s][t].requeues = MaxRequeues

\* A wake row says 'terminal_no_action' only of a trigger the role answered,
\* its worker declined, or whose retry budget is spent: a launcher that lost a
\* race or was refused for another reason never closes work that is open.
ClosedIsSettled ==
  \A s \in Sessions, t \in Triggers :
    wake[s][t] = "terminal_no_action" =>
      Answered(t) \/ claim[s][t].state = "completed" \/ Exhausted(s, t)

\* The file cursor may pass a trigger whose worker is in flight, and the worker
\* may then die: what nobody answered, no worker declined and no owner, WATERMARK or
\* operator put behind the role is still queued, whoever owns the role by then and
\* even when the retries are spent, so a later scan finds it again.
OpenIsQueued ==
  \A t \in 1 .. posted :
    t \notin pending => \/ Answered(t) \/ t \leq vouched
                       \/ \E s \in Sessions : claim[s][t].state = "completed"

Twins ==
  {pair \in procs \X procs : /\ pair[1].pid < pair[2].pid
                             /\ pair[1].s = pair[2].s /\ pair[1].t = pair[2].t}

\* Two processes of one worker run side by side only where the hook dispatches
\* too, a launcher died, a receipt was lost, or a former owner may be back in its
\* seat (after two handovers): the pump by itself never launches beside a worker
\* that runs, however slow that worker is.
TwinsAreExplained == Twins # {} => hooked \/ faults > 0 \/ generation > 2

\* hooks/debate_pump.py: "The unique worker claim prevents duplicate execution
\* for this (topic, role, trigger)."
OneRunner == Twins = {}

\* The docstring of _machine_live_worker_count: a restarted pump counts the
\* workers that outlived the old one toward max_concurrent_workers.
CapRespected == Cardinality(procs) \leq MaxConcurrent

\* _fetch_pending_deliveries: "one slot is reserved for its oldest row to prevent
\* starvation".  A scan that would find only rows it can do nothing about leaves
\* no trigger behind that demands a worker.
NothingStarves ==
  (\A row \in Rows : Terminal(row.t) /\ ~Acknowledged(row.t) /\ ~row.past)
    => \A t \in 1 .. posted : Demanded(t) => Terminal(t)

\* A trigger waits, is worked on by one worker at a time, returns when the
\* worker is lost, and is settled for good, within the retry budget of every
\* owner the role ever has.
Phase(t) ==
  IF t > posted THEN "unposted"
  ELSE IF Answered(t) THEN "answered"
  ELSE IF ActiveOn(t) # {} THEN "working"
  ELSE IF ClaimState(t) = "completed" THEN "declined" ELSE "waiting"

Activations(s, t) == IF claim[s][t].state = "none" THEN 0 ELSE claim[s][t].requeues + 1

Tries(t) ==
  Cardinality({a \in Sessions \X (1 .. MaxRequeues + 1) : a[2] \leq Activations(a[1], t)})

Jobs == INSTANCE WakeJobs WITH
  Jobs <- Triggers, MaxTries <- Cardinality(Sessions) * (MaxRequeues + 1),
  phase <- [t \in Triggers |-> Phase(t)], tries <- [t \in Triggers |-> Tries(t)]

ServesAsJobs == Jobs!Spec

\* Every trigger is in the end answered, declined by its worker, or closed
\* because its retries are spent, as long as the role has an owner.
EveryTriggerCloses ==
  \A t \in Triggers : (t \leq posted) ~> (Terminal(t) \/ seat = Nobody)

================================================================================
