---------------------------- MODULE DebateOwnership ----------------------------
(***************************************************************************)
(* Reply ownership in one debate topic (debate.py).                        *)
(*                                                                         *)
(* A topic is an append-only ledger of messages posted under ROLES.  A     *)
(* role is owned by at most one ACTIVE parent session; the parent may have *)
(* bounded wake-workers, each holding one CLAIM on one trigger message.    *)
(* Who may answer a trigger, as which provenance class, and what happens   *)
(* to the claims when somebody does, is decided inside one transaction of  *)
(* post_message, claim_worker_session, bind_role_session, the recovery     *)
(* sweep, the reaper or a lifecycle transition; every public writer runs   *)
(* under BEGIN IMMEDIATE, so each handler is one action.                   *)
(*                                                                         *)
(* Tables: debates.state (topic), debate_messages (msgs; msg_id = position *)
(* in the ledger), debate_role_bindings (binding, holders),                *)
(* debate_worker_claims (claims), debate_worker_counters (nextWorker),     *)
(* debate_worker_reap_log (reaped).  Clocks, bodies and audit text are     *)
(* abstracted: "stale" is a free choice of the sweep.                      *)
(***************************************************************************)
EXTENDS Naturals, FiniteSets, Sequences

CONSTANTS
  Roles,          \* declared roles of the topic
  Sessions,       \* base (parent) session ids
  NoSession,      \* NULL author
  Conductor,      \* the role whose DECISIONs are overrides
  Executors,      \* the EXECUTOR_N roles: owned by one session forever
  Bindable,       \* <<role, session>> pairs the operators may bind
  Forms,          \* shapes of the messages posted in this instance
  LegacyLedger,   \* rows written before provenance existed
  MaxMsgs,        \* bound on the ledger
  MaxWorkers,     \* bound on the -W<n> ids of one parent
  MaxRequeues     \* DEBATE_WORKER_MAX_REQUEUES

Kinds         == {"Q", "A", "STATUS", "DECISION", "STATE"}
TerminalKinds == {"A", "STATUS"}
Classes       == {"parent", "worker", "legacy", "unattributed"}
TopicStates   == {"INIT", "ACTIVE", "RESOLVED", "ARCHIVED"}
BindingStates == {"none", "active", "diagnostic", "retired"}
ClaimStates   == {"none", "active", "completed", "retired"}

Msgs    == 1 .. MaxMsgs
Keys    == Roles \X Sessions \X Msgs    \* PRIMARY KEY of debate_worker_claims
Authors == [session : Sessions \cup {NoSession}, n : 0 .. MaxWorkers]
FormSet == [role : Roles, kind : Kinds, oneShot : BOOLEAN, impl : BOOLEAN,
            to : SUBSET (Roles \cup Sessions), replies : BOOLEAN]
Message == [role : Roles, kind : Kinds, oneShot : BOOLEAN, impl : BOOLEAN,
            to : SUBSET (Roles \cup Sessions), reply : 0 .. MaxMsgs,
            author : Authors, class : Classes]
Claim   == [state : ClaimStates, n : 0 .. MaxWorkers, ack : 0 .. MaxMsgs,
            requeues : 0 .. MaxRequeues]

ASSUME ConstantsAssumption ==
  /\ NoSession \notin Sessions
  /\ Conductor \in Roles
  /\ Executors \subseteq Roles
  /\ Bindable \subseteq Roles \X Sessions
  /\ MaxMsgs \in Nat /\ MaxWorkers \in Nat /\ MaxRequeues \in Nat

ASSUME FormsAssumption == Forms \subseteq FormSet

\* Migrated rows carry no author and the class 'legacy'; a reply follows the
\* message it answers.
ASSUME LegacyAssumption ==
  /\ LegacyLedger \in Seq(Message)
  /\ Len(LegacyLedger) \leq MaxMsgs
  /\ \A i \in 1 .. Len(LegacyLedger) :
       LegacyLedger[i].class = "legacy" /\ LegacyLedger[i].reply < i

VARIABLES topic, msgs, binding, holders, claims, nextWorker, reaped

vars == <<topic, msgs, binding, holders, claims, nextWorker, reaped>>

--------------------------------------------------------------------------------
(* Reading the tables                                                      *)

Anonymous    == [session |-> NoSession, n |-> 0]
Parent(s)    == [session |-> s, n |-> 0]
Worker(s, n) == [session |-> s, n |-> n]
NoClaim      == [state |-> "none", n |-> 0, ack |-> 0, requeues |-> 0]
FreshClaim(n) == [state |-> "active", n |-> n, ack |-> 0, requeues |-> 0]
Reactivated(c) ==
  [state |-> "active", n |-> c.n, ack |-> 0, requeues |-> c.requeues + 1]
Completed(c, m) ==
  [state |-> "completed", n |-> c.n, ack |-> m, requeues |-> c.requeues]

\* _terminal_reply_for_trigger / OWNERSHIP_LOOKUP_SQL
Terminals(r, t) ==
  {i \in 1 .. Len(msgs) : /\ msgs[i].role = r
                          /\ msgs[i].reply = t
                          /\ msgs[i].kind \in TerminalKinds}

OwnershipClasses(r, t) == {msgs[i].class : i \in Terminals(r, t)}

\* A trigger is worker-scoped once any worker was ever claimed for it: a live
\* claim in any state, a reaped one, or a worker terminal.
WorkerScoped(r, t) ==
  \/ \E k \in Keys : k[1] = r /\ k[3] = t /\ claims[k].state # "none"
  \/ \E x \in reaped : x.role = r /\ x.trigger = t
  \/ "worker" \in OwnershipClasses(r, t)

Owners(r) == {s \in Sessions : binding[<<r, s>>] = "active"}

\* Claims this worker ever held: live rows, then the reap log.
LiveClaimsOf(r, a) ==
  {k \in Keys : /\ k[1] = r /\ k[2] = a.session
                /\ claims[k].state # "none" /\ claims[k].n = a.n}
Held(r, a, t) ==
  \/ \E k \in LiveClaimsOf(r, a) : k[3] = t
  \/ \E x \in reaped : x.role = r /\ x.worker = a /\ x.trigger = t

\* _resolve_author_session: an active binding, or an active claim.
Authorized(r, a) ==
  \/ a.n = 0 /\ a.session \in Owners(r)
  \/ a.n > 0 /\ \E k \in LiveClaimsOf(r, a) : claims[k].state = "active"

\* The holder that the RESOLVED transition retired may still archive.
LifecycleRetiredHolder(r, a) ==
  topic = "RESOLVED" /\ a.n = 0 /\ <<r, a.session>> \in holders

\* A post is stored under its caller or, when bare, under the role's owner.
StoredAuthors(r, a) == {a} \cup {Parent(s) : s \in Owners(r)}

\* _resolve_author_provenance: the rows a caller's post may be stored with.
Attributed(r, a, t, kind, by, class) ==
  \/ /\ a = Anonymous                       \* bare in-process callers
     /\ t # 0 => ~WorkerScoped(r, t)
     /\ \/ \E s \in Sessions :
             Owners(r) = {s} /\ by = Parent(s) /\ class = "parent"
        \/ Owners(r) = {} /\ by = Anonymous /\ class = "unattributed"
  \/ /\ kind = "STATE" /\ LifecycleRetiredHolder(r, a)
     /\ by = a /\ class = "parent"
  \/ /\ Authorized(r, a) /\ a.n = 0
     /\ by = a /\ class = "parent"
  \/ /\ Authorized(r, a) /\ a.n > 0
     /\ t # 0 => Held(r, a, t)              \* else provenance_unresolvable
     /\ by = a /\ class = "worker"

OneShot(t) == msgs[t].kind = "DECISION" /\ msgs[t].oneShot

\* Mutants: the parent's own slot forgotten; a DECISION treated like any trigger.
SlotFreeParentTwice(r, t, class) ==
  WorkerScoped(r, t) /\ class = "worker" =>
    OwnershipClasses(r, t) \cap {"worker", "parent"} = {}
SlotFreePerClassOnly(r, t, class) ==
  WorkerScoped(r, t) => class \notin OwnershipClasses(r, t)

\* The duplicate check of post_message for an A/STATUS reply.
SlotFree(r, t, class) ==
  IF OneShot(t)
  THEN Terminals(r, t) = {}
  ELSE WorkerScoped(r, t) =>
         LET owned == OwnershipClasses(r, t)
         IN  /\ "legacy" \notin owned
             /\ class = "worker" => owned \cap {"worker", "parent"} = {}
             /\ class = "parent" => "parent" \notin owned

OverrideExists ==
  \E i \in 1 .. Len(msgs) : msgs[i].role = Conductor /\ msgs[i].kind = "DECISION"

BlockingQuestions ==
  {q \in 1 .. Len(msgs) :
     /\ msgs[q].kind = "Q"
     /\ ~\E a \in 1 .. Len(msgs) : msgs[a].kind = "A" /\ msgs[a].reply = q}

NextState == [INIT |-> {"ACTIVE"}, ACTIVE |-> {"RESOLVED"},
              RESOLVED |-> {"ARCHIVED"}, ARCHIVED |-> {}]

--------------------------------------------------------------------------------
(* Claim updates shared by the handlers                                    *)

\* Set the rows of K to state st, leaving worker id and requeue budget alone.
WithState(K, st) ==
  [k \in Keys |-> IF k \in K THEN [claims[k] EXCEPT !.state = st] ELSE claims[k]]

\* Mutant: the swap forgets the workers of the session it unseats.
ActiveOfNobody(P) == {}

\* _retire_worker_claims_for_parent_sessions
ActiveOfParents(P) ==
  {k \in Keys : <<k[1], k[2]>> \in P /\ claims[k].state = "active"}

\* _retire_worker_claims_for_trigger: parent-final
ActiveOnTrigger(r, t) ==
  {k \in Keys : k[1] = r /\ k[3] = t /\ claims[k].state = "active"}

\* Mutants: a parent's answer leaves the workers running; any answer of the role
\* acknowledges the claim.
ClaimsUntouchedByParent(r, t, by, class, m) ==
  IF class = "parent" THEN claims
  ELSE [k \in Keys |-> IF k[3] = t /\ k[1] = r /\ claims[k].state = "active"
                       THEN Completed(claims[k], m)
                       ELSE claims[k]]
ClaimsAckedByAnyone(r, t, by, class, m) ==
  [k \in Keys |-> IF k[3] = t /\ k[1] = r /\ claims[k].state = "active"
                  THEN Completed(claims[k], m)
                  ELSE claims[k]]

\* The claim side of a terminal reply stored as message m.
ClaimsAfterTerminal(r, t, by, class, m) ==
  IF class = "worker"
  THEN [k \in Keys |->
          IF k \in LiveClaimsOf(r, by) /\ k[3] = t /\ claims[k].state = "active"
          THEN Completed(claims[k], m)
          ELSE claims[k]]
  ELSE IF class = "parent" THEN WithState(ActiveOnTrigger(r, t), "retired")
                           ELSE claims

--------------------------------------------------------------------------------
(* Messages                                                                *)

Row(f, t, by, class) ==
  [role |-> f.role, kind |-> f.kind, oneShot |-> f.oneShot, impl |-> f.impl,
   to |-> f.to, reply |-> t, author |-> by, class |-> class]

\* _validate_diagnostic_recipient: a direct session needs a diagnostic
\* binding or a conductor override.
RecipientsValid(f) ==
  \A s \in f.to \cap Sessions :
    OverrideExists \/ \E r \in Roles : binding[<<r, s>>] = "diagnostic"

\* post_message / debate_post_with_recipients, every kind but STATE.
Post(f, a, t) ==
  /\ Len(msgs) < MaxMsgs
  /\ f.kind # "STATE"
  /\ topic \notin {"RESOLVED", "ARCHIVED"}
  /\ RecipientsValid(f)
  /\ IF f.replies THEN t \in 1 .. Len(msgs) ELSE t = 0
  /\ (f.kind = "DECISION" /\ t # 0) => msgs[t].kind = "Q"
  /\ \E by \in StoredAuthors(f.role, a), class \in Classes :
       /\ Attributed(f.role, a, t, f.kind, by, class)
       /\ (f.kind \in TerminalKinds /\ t # 0) => SlotFree(f.role, t, class)
       /\ msgs' = Append(msgs, Row(f, t, by, class))
       /\ claims' = IF f.kind \in TerminalKinds /\ t # 0
                    THEN ClaimsAfterTerminal(f.role, t, by, class, Len(msgs) + 1)
                    ELSE claims
  /\ UNCHANGED <<topic, binding, holders, nextWorker, reaped>>

\* The STATE row of post_message: it moves the topic itself, and looks at
\* neither the open questions nor the bindings.
StateRow(f, a, new) ==
  /\ Len(msgs) < MaxMsgs
  /\ f.kind = "STATE" /\ ~f.replies /\ f.to = {}
  /\ new \in NextState[topic]
  /\ topic' = new
  /\ \E by \in StoredAuthors(f.role, a), class \in Classes :
       /\ Attributed(f.role, a, 0, "STATE", by, class)
       /\ msgs' = Append(msgs, Row(f, 0, by, class))

PostState(f, a, new) ==
  /\ StateRow(f, a, new)
  /\ UNCHANGED <<binding, holders, claims, nextWorker, reaped>>

\* transition_state (the debate_state tool): the RESOLVED gate, the STATE row,
\* then _retire_bindings_for_transition.
TransitionState(f, a, new) ==
  LET leaving == IF new = "RESOLVED" THEN {"active"}
                 ELSE IF new = "ARCHIVED" THEN {"active", "diagnostic"} ELSE {}
      retired == {b \in Roles \X Sessions : binding[b] \in leaving}
      parents == {b \in retired : binding[b] = "active"}
  IN  /\ new = "RESOLVED" => BlockingQuestions = {}
      /\ StateRow(f, a, new)
      /\ binding' = [b \in Roles \X Sessions |->
                        IF b \in retired THEN "retired" ELSE binding[b]]
      /\ holders' = IF new = "RESOLVED" THEN holders \cup retired
                    ELSE holders \ retired
      /\ claims' = WithState(ActiveOfParents(parents), "retired")
      /\ UNCHANGED <<nextWorker, reaped>>

--------------------------------------------------------------------------------
(* Role bindings                                                           *)

\* An EXECUTOR_N number is never inherited by another session.
MayHold(r, s) ==
  r \in Executors => \A other \in Sessions \ {s} : binding[<<r, other>>] = "none"

\* Mutant: no duplicate_active_session check.
SeatAlways(r, s) == TRUE

\* A session owns at most one role of the topic.
SeatFree(r, s) == \A other \in Roles \ {r} : s \notin Owners(other)

\* bind_role_session(state='active'); a different active owner is swapped out
\* (replace_active), also by rotate_role_binding and add_role_to_debate.
BindActive(r, s) ==
  LET replaced == {<<r, o>> : o \in Owners(r) \ {s}}
  IN  /\ MayHold(r, s)
      /\ SeatFree(r, s)
      /\ binding' = [b \in Roles \X Sessions |->
                        IF b = <<r, s>> THEN "active"
                        ELSE IF b \in replaced THEN "retired" ELSE binding[b]]
      /\ holders' = holders \ {<<r, s>>}
      /\ claims' = WithState(ActiveOfParents(replaced), "retired")
      /\ UNCHANGED <<topic, msgs, nextWorker, reaped>>

\* bind_role_session(state='diagnostic') and (state='retired'): taking the
\* active binding away needs a conductor override and orphans the claims.
Unseat(r, s, to) ==
  /\ binding[<<r, s>>] = "active" => OverrideExists
  /\ binding' = [binding EXCEPT ![<<r, s>>] = to]
  /\ holders' = holders \ {<<r, s>>}
  /\ claims' = IF binding[<<r, s>>] = "active"
               THEN WithState(ActiveOfParents({<<r, s>>}), "retired")
               ELSE claims
  /\ UNCHANGED <<topic, msgs, nextWorker, reaped>>

BindDiagnostic(r, s) == MayHold(r, s) /\ Unseat(r, s, "diagnostic")

BindRetired(r, s) == binding[<<r, s>>] # "none" /\ Unseat(r, s, "retired")

--------------------------------------------------------------------------------
(* Worker claims                                                           *)

\* The admission checks of claim_worker_session, before any existing row is
\* looked at.
Admitted(r, p, t) ==
  /\ p \in Owners(r)
  /\ t \in 1 .. Len(msgs)
  /\ ~msgs[t].impl                          \* fail-closed vehicle router
  /\ {r, p} \cap msgs[t].to # {}
  /\ OwnershipClasses(r, t) \cap {"parent", "worker", "legacy"} = {}

\* Mutant: number workers by the rows that are left.
CountLiveWorkers(r, p) ==
  1 + Cardinality({t \in Msgs : claims[<<r, p, t>>].state # "none"})

NextWorkerId(r, p) == nextWorker[<<r, p>>]

\* First claim of (parent, trigger): allocate -W<n>.
ClaimWorker(r, p, t) ==
  /\ Admitted(r, p, t)
  /\ claims[<<r, p, t>>].state = "none"
  /\ NextWorkerId(r, p) \leq MaxWorkers
  /\ claims' = [claims EXCEPT ![<<r, p, t>>] = FreshClaim(NextWorkerId(r, p))]
  /\ nextWorker' = [nextWorker EXCEPT ![<<r, p>>] = NextWorkerId(r, p) + 1]
  /\ UNCHANGED <<topic, msgs, binding, holders, reaped>>

\* Mutants: every closed claim is retried; the budget is not looked at.
RequeueClosed(c)    == c.state \in {"retired", "completed"} /\ c.requeues < MaxRequeues
RequeueUnbounded(c) == c.state = "retired"

Requeueable(c) == c.state = "retired" /\ c.requeues < MaxRequeues

\* REQUEUE: a retired claim is reactivated under the same worker id while its
\* retry budget lasts; past it the call changes only the audit text.
RequeueWorker(r, p, t) ==
  /\ Admitted(r, p, t)
  /\ Requeueable(claims[<<r, p, t>>])
  /\ claims' = [claims EXCEPT ![<<r, p, t>>] =
                  Reactivated(claims[<<r, p, t>>])]
  /\ UNCHANGED <<topic, msgs, binding, holders, nextWorker, reaped>>

\* worker_no_action: the worker closes its claim without a message.
WorkerNoAction(k) ==
  /\ claims[k].state = "active"
  /\ k[2] \in Owners(k[1])
  /\ claims' = [claims EXCEPT ![k] = Completed(claims[k], 0)]
  /\ UNCHANGED <<topic, msgs, binding, holders, nextWorker, reaped>>

\* The worker's own terminal reply on its trigger.
OwnTerminals(k) ==
  {i \in Terminals(k[1], k[3]) :
     msgs[i].class = "worker" /\ msgs[i].author = Worker(k[2], claims[k].n)}

FirstOwnTerminal(k) ==
  CHOOSE i \in OwnTerminals(k) : \A j \in OwnTerminals(k) : i \leq j

\* recover_stale_worker_claims on the claims K it finds stale and not live.
RecoverStale(K) ==
  /\ K # {} /\ \A k \in K : claims[k].state = "active"
  /\ claims' = [k \in Keys |->
       IF k \notin K THEN claims[k]
       ELSE IF OwnTerminals(k) = {} THEN [claims[k] EXCEPT !.state = "retired"]
       ELSE Completed(claims[k], FirstOwnTerminal(k))]
  /\ UNCHANGED <<topic, msgs, binding, holders, nextWorker, reaped>>

\* reap_worker_claims on the closed claims K older than its cutoff.
ReapClaims(K) ==
  /\ K # {} /\ \A k \in K : claims[k].state \in {"completed", "retired"}
  /\ claims' = [k \in Keys |-> IF k \in K THEN NoClaim ELSE claims[k]]
  /\ reaped' = reaped \cup
       {[role |-> k[1], worker |-> Worker(k[2], claims[k].n), trigger |-> k[3]] :
          k \in K}
  /\ UNCHANGED <<topic, msgs, binding, holders, nextWorker>>

--------------------------------------------------------------------------------
(* init_debate, before its roles are bound                                 *)
Init ==
  /\ topic = "INIT"
  /\ msgs = LegacyLedger
  /\ binding = [b \in Roles \X Sessions |-> "none"]
  /\ holders = {}
  /\ claims = [k \in Keys |-> NoClaim]
  /\ nextWorker = [b \in Roles \X Sessions |-> 1]
  /\ reaped = {}

Callers == {Anonymous} \cup [session : Sessions, n : 0 .. MaxWorkers]

ActiveKeys == {k \in Keys : claims[k].state = "active"}
ClosedKeys == {k \in Keys : claims[k].state \in {"completed", "retired"}}

Next ==
  \/ \E f \in Forms, a \in Callers :
       \/ \E t \in 0 .. Len(msgs) : Post(f, a, t)
       \/ \E new \in TopicStates : PostState(f, a, new) \/ TransitionState(f, a, new)
  \/ \E b \in Bindable : \/ BindActive(b[1], b[2])
                         \/ BindDiagnostic(b[1], b[2])
                         \/ BindRetired(b[1], b[2])
  \/ \E r \in Roles, p \in Sessions, t \in 1 .. Len(msgs) :
       ClaimWorker(r, p, t) \/ RequeueWorker(r, p, t)
  \/ \E k \in ActiveKeys : WorkerNoAction(k)
  \/ \E K \in SUBSET ActiveKeys : RecoverStale(K)
  \/ \E K \in SUBSET ClosedKeys : ReapClaims(K)

Spec == Init /\ [][Next]_vars

--------------------------------------------------------------------------------
(* Properties                                                              *)

TypeOK ==
  /\ topic \in TopicStates
  /\ msgs \in Seq(Message) /\ Len(msgs) \leq MaxMsgs
  /\ binding \in [Roles \X Sessions -> BindingStates]
  /\ holders \subseteq Roles \X Sessions
  /\ claims \in [Keys -> Claim]
  /\ nextWorker \in [Roles \X Sessions -> 1 .. MaxWorkers + 1]
  /\ reaped \subseteq [role : Roles, worker : [session : Sessions, n : 1 .. MaxWorkers],
                       trigger : Msgs]

ByClass(r, t, class) == {i \in Terminals(r, t) : msgs[i].class = class}

AtMostOne(S) == \A i, j \in S : i = j

\* One parent terminal and one worker terminal per trigger: however claims,
\* rotations, recoveries, requeues and reaps interleave, a role that involved a
\* worker never answers twice in the same class (post_message's slot check
\* together with the admission check of claim_worker_session).
OneTerminalPerClass ==
  \A r \in Roles, t \in 1 .. Len(msgs) :
    (WorkerScoped(r, t) /\ ~OneShot(t)) =>
       AtMostOne(ByClass(r, t, "parent")) /\ AtMostOne(ByClass(r, t, "worker"))

\* A non-standing DECISION is answered at most once by a role, whoever of the
\* role answers and whether or not a worker was claimed on it.
OneShotAnsweredOnce ==
  \A r \in Roles, t \in 1 .. Len(msgs) :
    OneShot(t) => AtMostOne({i \in Terminals(r, t) : msgs[i].class # "legacy"})

\* Parent-final: once the parent answered a trigger no claim on it is active,
\* and no worker answer is stored behind the parent's.
ParentFinal ==
  \A r \in Roles, t \in 1 .. Len(msgs) :
    \A i \in ByClass(r, t, "parent") :
      /\ ActiveOnTrigger(r, t) = {}
      /\ \A j \in ByClass(r, t, "worker") : j < i

\* A claim is acknowledged only by its own worker's answer to its own trigger,
\* and a worker's answer leaves its claim completed with that answer as the
\* acknowledgement, until the claim is reaped: it is never requeued again.
AckIsOwnAnswer ==
  /\ \A k \in Keys : claims[k].ack # 0 =>
       /\ claims[k].state = "completed"
       /\ claims[k].ack \in OwnTerminals(k)
  /\ \A k \in Keys : claims[k].state # "none" =>
       \A i \in OwnTerminals(k) :
          claims[k].state = "completed" /\ claims[k].ack = i

\* A worker runs only under the authority of a seated parent: whatever takes the
\* active binding away (swap, diagnosis, retirement, RESOLVED, ARCHIVED) also
\* retires the claims of that session.
ActiveClaimHasSeatedParent ==
  \A k \in Keys : claims[k].state = "active" => k[2] \in Owners(k[1])

\* One session speaks for a role, and a session speaks for one role
\* (idx_drb_one_active and the duplicate_active_session check).
OneOwnerPerRole ==
  /\ \A r \in Roles : AtMostOne(Owners(r))
  /\ \A s \in Sessions : AtMostOne({r \in Roles : s \in Owners(r)})

\* The authority to act for a role: one session has it, for one role, and only
\* while it has it do its workers run, through every change of the bindings.
SeatedAuthority == OneOwnerPerRole /\ ActiveClaimHasSeatedParent

\* Worker ids are never reissued: neither by a requeue nor after the reaper
\* deleted the row, because the counter outlives the claims.
WorkerIdsNeverReissued ==
  /\ \A k, l \in Keys :
       (/\ claims[k].state # "none" /\ claims[l].state # "none"
        /\ k[1] = l[1] /\ k[2] = l[2] /\ claims[k].n = claims[l].n) => k = l
  /\ \A x \in reaped : LiveClaimsOf(x.role, x.worker) = {}
  /\ \A x, y \in reaped : x.role = y.role /\ x.worker = y.worker => x = y

\* At most one worker of a role runs on a trigger at a time, across rotations.
OneRunningWorker ==
  \A r \in Roles, t \in Msgs : AtMostOne(ActiveOnTrigger(r, t))

\* A completed claim stays completed until it is reaped: neither a requeue nor a
\* sweep nor a lifecycle change reopens work that was acknowledged or declined.
CompletedStaysClosed ==
  [][\A k \in Keys : claims[k].state = "completed" =>
       \/ claims'[k] = claims[k]
       \/ claims'[k].state = "none"]_vars

\* docs/DEBATE_PROTOCOL.md: RESOLVED means every question has an answer.
ResolvedMeansAnswered ==
  topic \in {"RESOLVED", "ARCHIVED"} => BlockingQuestions = {}

================================================================================
