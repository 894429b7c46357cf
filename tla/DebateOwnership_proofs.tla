------------------------ MODULE DebateOwnership_proofs ------------------------
(***************************************************************************)
(* Proofs about DebateOwnership, for any roles, sessions, message forms    *)
(* and bounds.                                                             *)
(***************************************************************************)
EXTENDS DebateOwnership, WellFoundedInduction, TLAPS

\* Every stored claim carries a worker number the counter has passed.
ClaimsNumbered ==
  \A k \in Keys : claims[k].state # "none" =>
     claims[k].n \in 1 .. MaxWorkers /\ claims[k].n < nextWorker[<<k[1], k[2]>>]

TypeInv == TypeOK /\ ClaimsNumbered

\* A non-empty set of naturals has a least element.
LEMMA LeastInSet ==
  ASSUME NEW S \in SUBSET Nat, S # {}
  PROVE  \E i \in S : \A j \in S : i \leq j
<1>1. PICK i \in S : \A j \in S : ~(<<j, i>> \in OpToRel(<, Nat))
      BY WFMin, NatLessThanWellFounded
<1>2. \A j \in S : ~(j < i) BY <1>1 DEF OpToRel
<1> QED BY <1>2

\* Retiring a set of claims keeps the table well-typed.
LEMMA WithStateType ==
  ASSUME TypeOK, NEW K, NEW st \in ClaimStates
  PROVE  /\ WithState(K, st) \in [Keys -> Claim]
         /\ \A k \in Keys : /\ WithState(K, st)[k].n = claims[k].n
                            /\ WithState(K, st)[k].ack = claims[k].ack
                            /\ WithState(K, st)[k].requeues = claims[k].requeues
                            /\ WithState(K, st)[k].state =
                                 (IF k \in K THEN st ELSE claims[k].state)
<1>1. claims \in [Keys -> Claim] BY DEF TypeOK
<1>2. \A k \in Keys : claims[k] \in Claim BY <1>1
<1>3. \A k \in Keys : [claims[k] EXCEPT !.state = st] \in Claim
      BY <1>2 DEF Claim
<1> QED BY <1>1, <1>2, <1>3 DEF WithState, Claim

LEMMA InitType == Init => TypeInv
<1> SUFFICES ASSUME Init PROVE TypeInv OBVIOUS
<1> USE ConstantsAssumption, LegacyAssumption
<1>1. NoClaim \in Claim BY DEF NoClaim, Claim, ClaimStates
<1>2. TypeOK
      BY <1>1 DEF Init, TypeOK, TopicStates, BindingStates
<1>3. ClaimsNumbered BY DEF Init, ClaimsNumbered, NoClaim
<1> QED BY <1>2, <1>3 DEF TypeInv

\* Handlers only ever move the state of rows that exist.
LEMMA WithStateNumbered ==
  ASSUME TypeInv, NEW K \in SUBSET Keys, NEW st \in ClaimStates,
         \A k \in K : claims[k].state # "none",
         claims' = WithState(K, st), nextWorker' = nextWorker
  PROVE  claims' \in [Keys -> Claim] /\ ClaimsNumbered'
<1>1. claims' \in [Keys -> Claim] BY WithStateType DEF TypeInv
<1>2. \A k \in Keys : claims'[k].state # "none" => claims[k].state # "none"
      BY WithStateType DEF TypeInv
<1>3. \A k \in Keys : claims'[k].n = claims[k].n BY WithStateType DEF TypeInv
<1> QED BY <1>1, <1>2, <1>3 DEF TypeInv, ClaimsNumbered

\* _retire_worker_claims_for_parent_sessions, for whatever sessions it is given.
LEMMA RetireParentsType ==
  ASSUME TypeInv, NEW P, claims' = WithState(ActiveOfParents(P), "retired"),
         nextWorker' = nextWorker
  PROVE  claims' \in [Keys -> Claim] /\ ClaimsNumbered'
<1>1. /\ ActiveOfParents(P) \in SUBSET Keys
      /\ \A k \in ActiveOfParents(P) : claims[k].state # "none"
      BY DEF ActiveOfParents
<1>2. "retired" \in ClaimStates BY DEF ClaimStates
<1> QED BY <1>1, <1>2, WithStateNumbered

\* _retire_worker_claims_for_trigger likewise.
LEMMA RetireTriggerType ==
  ASSUME TypeInv, NEW r, NEW t, claims' = WithState(ActiveOnTrigger(r, t), "retired"),
         nextWorker' = nextWorker
  PROVE  claims' \in [Keys -> Claim] /\ ClaimsNumbered'
<1>1. /\ ActiveOnTrigger(r, t) \in SUBSET Keys
      /\ \A k \in ActiveOnTrigger(r, t) : claims[k].state # "none"
      BY DEF ActiveOnTrigger
<1>2. "retired" \in ClaimStates BY DEF ClaimStates
<1> QED BY <1>1, <1>2, WithStateNumbered

\* The row a post stores is a message.
LEMMA RowType ==
  ASSUME TypeOK, NEW f \in Forms, NEW a \in Callers, NEW t \in 0 .. Len(msgs),
         NEW by \in StoredAuthors(f.role, a), NEW class \in Classes
  PROVE  by \in Authors /\ Row(f, t, by, class) \in Message
<1> USE ConstantsAssumption, FormsAssumption
<1>1. f \in FormSet OBVIOUS
<1>2. a \in Authors BY DEF Callers, Authors, Anonymous
<1>3. \A s \in Owners(f.role) : Parent(s) \in Authors
      BY DEF Owners, Parent, Authors
<1>4. by \in Authors BY <1>2, <1>3 DEF StoredAuthors
<1>5. t \in 0 .. MaxMsgs BY DEF TypeOK
<1> QED BY <1>1, <1>4, <1>5 DEF Row, Message, FormSet

LEMMA AppendType ==
  ASSUME TypeOK, NEW m \in Message, Len(msgs) < MaxMsgs
  PROVE  Append(msgs, m) \in Seq(Message) /\ Len(Append(msgs, m)) \leq MaxMsgs
BY ConstantsAssumption DEF TypeOK

LEMMA PostType ==
  ASSUME TypeInv, NEW f \in Forms, NEW a \in Callers, NEW t \in 0 .. Len(msgs),
         Post(f, a, t)
  PROVE  TypeInv'
<1> USE ConstantsAssumption
<1>1. PICK by \in StoredAuthors(f.role, a), class \in Classes :
        /\ msgs' = Append(msgs, Row(f, t, by, class))
        /\ claims' = IF f.kind \in TerminalKinds /\ t # 0
                     THEN ClaimsAfterTerminal(f.role, t, by, class, Len(msgs) + 1)
                     ELSE claims
      BY DEF Post
<1>2. msgs' \in Seq(Message) /\ Len(msgs') \leq MaxMsgs
      BY <1>1, RowType, AppendType DEF Post, TypeInv
<1>3. Len(msgs) + 1 \in 0 .. MaxMsgs BY DEF Post, TypeInv, TypeOK
<1>u. UNCHANGED <<topic, binding, holders, nextWorker, reaped>> BY DEF Post
<1>4. claims' \in [Keys -> Claim] /\ ClaimsNumbered'
  <2>1. CASE ~(f.kind \in TerminalKinds /\ t # 0)
        BY <2>1, <1>1, <1>u DEF TypeInv, TypeOK, ClaimsNumbered
  <2>2. CASE f.kind \in TerminalKinds /\ t # 0 /\ class = "worker"
    <3>1. claims' = [k \in Keys |->
            IF k \in LiveClaimsOf(f.role, by) /\ k[3] = t /\ claims[k].state = "active"
            THEN Completed(claims[k], Len(msgs) + 1)
            ELSE claims[k]]
          BY <2>2, <1>1 DEF ClaimsAfterTerminal
    <3>2. \A k \in Keys : claims[k] \in Claim BY DEF TypeInv, TypeOK
    <3>3. \A k \in Keys : claims'[k] \in Claim /\ claims'[k].n = claims[k].n
                          /\ (claims'[k].state # "none" => claims[k].state # "none")
          BY <3>1, <3>2, <1>3 DEF Completed, Claim, ClaimStates
    <3> QED BY <3>1, <3>3, <1>u DEF TypeInv, ClaimsNumbered
  <2>3. CASE f.kind \in TerminalKinds /\ t # 0 /\ class = "parent"
    <3>1. claims' = WithState(ActiveOnTrigger(f.role, t), "retired")
          BY <2>3, <1>1 DEF ClaimsAfterTerminal
    <3> QED BY <3>1, <1>u, RetireTriggerType
  <2>4. CASE f.kind \in TerminalKinds /\ t # 0 /\ class \notin {"worker", "parent"}
        BY <2>4, <1>1, <1>u DEF TypeInv, TypeOK, ClaimsNumbered, ClaimsAfterTerminal
  <2> QED BY <2>1, <2>2, <2>3, <2>4
<1> QED BY <1>2, <1>4, <1>u DEF TypeInv, TypeOK

LEMMA StateRowType ==
  ASSUME TypeInv, NEW f \in Forms, NEW a \in Callers, NEW new \in TopicStates,
         StateRow(f, a, new)
  PROVE  topic' \in TopicStates /\ msgs' \in Seq(Message) /\ Len(msgs') \leq MaxMsgs
<1>1. PICK by \in StoredAuthors(f.role, a), class \in Classes :
        msgs' = Append(msgs, Row(f, 0, by, class))
      BY DEF StateRow
<1>2. 0 \in 0 .. Len(msgs) BY DEF TypeInv, TypeOK
<1> QED BY <1>1, <1>2, RowType, AppendType DEF StateRow, TypeInv

LEMMA TransitionType ==
  ASSUME TypeInv, NEW f \in Forms, NEW a \in Callers, NEW new \in TopicStates,
         TransitionState(f, a, new)
  PROVE  TypeInv'
<1> DEFINE leaving == IF new = "RESOLVED" THEN {"active"}
                      ELSE IF new = "ARCHIVED" THEN {"active", "diagnostic"} ELSE {}
           retired == {b \in Roles \X Sessions : binding[b] \in leaving}
           parents == {b \in retired : binding[b] = "active"}
<1>1. /\ binding' = [b \in Roles \X Sessions |->
                       IF b \in retired THEN "retired" ELSE binding[b]]
      /\ holders' \subseteq holders \cup retired
      /\ claims' = WithState(ActiveOfParents(parents), "retired")
      /\ StateRow(f, a, new)
      /\ UNCHANGED <<nextWorker, reaped>>
      BY DEF TransitionState
<1>2. topic' \in TopicStates /\ msgs' \in Seq(Message) /\ Len(msgs') \leq MaxMsgs
      BY <1>1, StateRowType
<1> HIDE DEF retired, parents
<1>3. claims' \in [Keys -> Claim] /\ ClaimsNumbered'
      BY <1>1, RetireParentsType
<1>4. binding' \in [Roles \X Sessions -> BindingStates]
      BY <1>1 DEF TypeInv, TypeOK, BindingStates
<1>5. retired \subseteq Roles \X Sessions BY DEF retired
<1> QED BY <1>1, <1>2, <1>3, <1>4, <1>5 DEF TypeInv, TypeOK

LEMMA BindType ==
  ASSUME TypeInv, NEW r \in Roles, NEW s \in Sessions,
         BindActive(r, s) \/ BindDiagnostic(r, s) \/ BindRetired(r, s)
  PROVE  TypeInv'
<1>1. CASE BindActive(r, s)
  <2> DEFINE replaced == {<<r, o>> : o \in Owners(r) \ {s}}
  <2>1. /\ binding' = [b \in Roles \X Sessions |->
                         IF b = <<r, s>> THEN "active"
                         ELSE IF b \in replaced THEN "retired" ELSE binding[b]]
        /\ holders' \subseteq holders
        /\ claims' = WithState(ActiveOfParents(replaced), "retired")
        /\ UNCHANGED <<topic, msgs, nextWorker, reaped>>
        BY <1>1 DEF BindActive
  <2> HIDE DEF replaced
  <2>2. claims' \in [Keys -> Claim] /\ ClaimsNumbered'
        BY <2>1, RetireParentsType
  <2>3. binding' \in [Roles \X Sessions -> BindingStates]
        BY <2>1 DEF TypeInv, TypeOK, BindingStates
  <2> QED BY <2>1, <2>2, <2>3 DEF TypeInv, TypeOK
<1>2. ASSUME NEW to \in BindingStates, Unseat(r, s, to) PROVE TypeInv'
  <2>1. /\ binding' \in [Roles \X Sessions -> BindingStates]
        /\ holders' \subseteq holders
        /\ UNCHANGED <<topic, msgs, nextWorker, reaped>>
        BY <1>2 DEF Unseat, TypeInv, TypeOK
  <2>2. claims' \in [Keys -> Claim] /\ ClaimsNumbered'
    <3>1. CASE binding[<<r, s>>] = "active"
      <4>1. claims' = WithState(ActiveOfParents({<<r, s>>}), "retired")
            BY <1>2, <3>1 DEF Unseat
      <4> QED BY <2>1, <4>1, RetireParentsType
    <3>2. CASE binding[<<r, s>>] # "active"
          BY <1>2, <2>1, <3>2 DEF Unseat, TypeInv, TypeOK, ClaimsNumbered
    <3> QED BY <3>1, <3>2
  <2> QED BY <2>1, <2>2 DEF TypeInv, TypeOK
<1> QED BY <1>1, <1>2 DEF BindDiagnostic, BindRetired, BindingStates

LEMMA ClaimType ==
  ASSUME TypeInv, NEW r \in Roles, NEW p \in Sessions, NEW t \in 1 .. Len(msgs),
         ClaimWorker(r, p, t) \/ RequeueWorker(r, p, t)
  PROVE  TypeInv'
<1> USE ConstantsAssumption
<1> DEFINE key == <<r, p, t>>
<1>1. key \in Keys /\ <<r, p>> \in Roles \X Sessions
      BY DEF Keys, Msgs, TypeInv, TypeOK
<1>2. CASE ClaimWorker(r, p, t)
  <2>1. /\ nextWorker[<<r, p>>] \in 1 .. MaxWorkers
        /\ claims' = [claims EXCEPT ![key] = FreshClaim(nextWorker[<<r, p>>])]
        /\ nextWorker' = [nextWorker EXCEPT ![<<r, p>>] = nextWorker[<<r, p>>] + 1]
        /\ UNCHANGED <<topic, msgs, binding, holders, reaped>>
        BY <1>1, <1>2 DEF ClaimWorker, NextWorkerId, TypeInv, TypeOK
  <2>2. nextWorker' \in [Roles \X Sessions -> 1 .. MaxWorkers + 1]
        BY <2>1, <1>1 DEF TypeInv, TypeOK
  <2>3. FreshClaim(nextWorker[<<r, p>>]) \in Claim
        BY <2>1 DEF FreshClaim, Claim, ClaimStates
  <2>4. claims' \in [Keys -> Claim] BY <2>1, <2>3 DEF TypeInv, TypeOK
  <2>5. ASSUME NEW k \in Keys, claims'[k].state # "none"
        PROVE  claims'[k].n \in 1 .. MaxWorkers
               /\ claims'[k].n < nextWorker'[<<k[1], k[2]>>]
    <3>1. CASE k = key
      <4>1. claims'[k].n = nextWorker[<<r, p>>]
            BY <3>1, <2>1, <1>1 DEF FreshClaim, TypeInv, TypeOK
      <4>2. nextWorker'[<<k[1], k[2]>>] = nextWorker[<<r, p>>] + 1
            BY <3>1, <2>1, <1>1 DEF TypeInv, TypeOK
      <4> QED BY <4>1, <4>2, <2>1
    <3>2. CASE k # key
      <4>1. claims'[k] = claims[k] BY <3>2, <2>1 DEF TypeInv, TypeOK
      <4>2. <<k[1], k[2]>> \in Roles \X Sessions BY DEF Keys
      <4>3. nextWorker'[<<k[1], k[2]>>] \geq nextWorker[<<k[1], k[2]>>]
        <5>1. nextWorker[<<k[1], k[2]>>] \in Nat BY <4>2 DEF TypeInv, TypeOK
        <5>2. nextWorker'[<<k[1], k[2]>>] = IF <<k[1], k[2]>> = <<r, p>>
                THEN nextWorker[<<r, p>>] + 1 ELSE nextWorker[<<k[1], k[2]>>]
              BY <4>2, <2>1 DEF TypeInv, TypeOK
        <5> QED BY <5>1, <5>2
      <4>4. /\ claims[k].n \in 1 .. MaxWorkers
            /\ claims[k].n < nextWorker[<<k[1], k[2]>>]
            BY <4>1, <2>5 DEF TypeInv, ClaimsNumbered
      <4> QED BY <4>1, <4>2, <4>3, <4>4, <2>2 DEF TypeInv, TypeOK
    <3> QED BY <3>1, <3>2
  <2> QED BY <2>1, <2>2, <2>4, <2>5 DEF TypeInv, TypeOK, ClaimsNumbered
<1>3. CASE RequeueWorker(r, p, t)
  <2>1. /\ claims[key].state = "retired" /\ claims[key].requeues < MaxRequeues
        /\ claims' = [claims EXCEPT ![key] = Reactivated(claims[key])]
        /\ UNCHANGED <<topic, msgs, binding, holders, nextWorker, reaped>>
        BY <1>1, <1>3 DEF RequeueWorker, Requeueable, TypeInv, TypeOK
  <2>2. claims[key] \in Claim BY <1>1 DEF TypeInv, TypeOK
  <2>5. Reactivated(claims[key]) \in Claim /\ Reactivated(claims[key]).n = claims[key].n
        BY <2>1, <2>2 DEF Reactivated, Claim, ClaimStates
  <2>6. \A k \in Keys : claims'[k] = IF k = key THEN Reactivated(claims[key]) ELSE claims[k]
        BY <1>1, <2>1 DEF TypeInv, TypeOK
  <2>3. \A k \in Keys : claims'[k] \in Claim /\ claims'[k].n = claims[k].n
                        /\ (claims'[k].state # "none" => claims[k].state # "none")
        BY <2>1, <2>5, <2>6 DEF TypeInv, TypeOK
  <2>4. claims' \in [Keys -> Claim] BY <2>1, <2>3 DEF TypeInv, TypeOK
  <2> QED BY <2>1, <2>3, <2>4 DEF TypeInv, TypeOK, ClaimsNumbered
<1> QED BY <1>2, <1>3

LEMMA CloseType ==
  ASSUME TypeInv, NEW k \in ActiveKeys, WorkerNoAction(k)
  PROVE  TypeInv'
<1> USE ConstantsAssumption
<1>1. k \in Keys /\ claims[k].state = "active" BY DEF ActiveKeys
<1>2. /\ claims' = [claims EXCEPT ![k] = Completed(claims[k], 0)]
      /\ UNCHANGED <<topic, msgs, binding, holders, nextWorker, reaped>>
      BY DEF WorkerNoAction
<1>5. Completed(claims[k], 0) \in Claim /\ Completed(claims[k], 0).n = claims[k].n
      BY <1>1 DEF TypeInv, TypeOK, Completed, Claim, ClaimStates
<1>3. \A l \in Keys : claims'[l] \in Claim /\ claims'[l].n = claims[l].n
                      /\ (claims'[l].state # "none" => claims[l].state # "none")
      BY <1>1, <1>2, <1>5 DEF TypeInv, TypeOK
<1>4. claims' \in [Keys -> Claim] BY <1>2, <1>3 DEF TypeInv, TypeOK
<1> QED BY <1>2, <1>3, <1>4 DEF TypeInv, TypeOK, ClaimsNumbered

\* The acknowledgement the recovery sweep picks is one of the worker's answers.
LEMMA FirstOwnTerminalIn ==
  ASSUME TypeOK, NEW k \in Keys, OwnTerminals(k) # {}
  PROVE  FirstOwnTerminal(k) \in OwnTerminals(k)
<1>1. OwnTerminals(k) \subseteq 1 .. Len(msgs) BY DEF OwnTerminals, Terminals
<1>2. OwnTerminals(k) \in SUBSET Nat BY <1>1 DEF TypeOK
<1>3. \E i \in OwnTerminals(k) : \A j \in OwnTerminals(k) : i \leq j
      BY <1>2, LeastInSet
<1> QED BY <1>3 DEF FirstOwnTerminal

LEMMA RecoverType ==
  ASSUME TypeInv, NEW K \in SUBSET ActiveKeys, RecoverStale(K)
  PROVE  TypeInv'
<1> USE ConstantsAssumption
<1>1. /\ claims' = [k \in Keys |->
            IF k \notin K THEN claims[k]
            ELSE IF OwnTerminals(k) = {} THEN [claims[k] EXCEPT !.state = "retired"]
            ELSE Completed(claims[k], FirstOwnTerminal(k))]
      /\ UNCHANGED <<topic, msgs, binding, holders, nextWorker, reaped>>
      BY DEF RecoverStale
<1>2. \A k \in Keys : OwnTerminals(k) # {} => FirstOwnTerminal(k) \in 0 .. MaxMsgs
  <2>1. TypeOK BY DEF TypeInv
  <2>2. \A k \in Keys : OwnTerminals(k) \subseteq 1 .. Len(msgs)
        BY DEF OwnTerminals, Terminals
  <2>3. \A k \in Keys : OwnTerminals(k) # {} => FirstOwnTerminal(k) \in 1 .. Len(msgs)
        BY <2>1, <2>2, FirstOwnTerminalIn
  <2> QED BY <2>1, <2>3 DEF TypeOK
<1>3. \A k \in Keys : claims'[k] \in Claim /\ claims'[k].n = claims[k].n
                      /\ (claims'[k].state # "none" => claims[k].state # "none")
  <2> SUFFICES ASSUME NEW k \in Keys
               PROVE  /\ claims'[k] \in Claim /\ claims'[k].n = claims[k].n
                      /\ (claims'[k].state # "none" => claims[k].state # "none")
      OBVIOUS
  <2>1. claims[k] \in Claim BY DEF TypeInv, TypeOK
  <2>2. k \in K => claims[k].state = "active" BY DEF ActiveKeys
  <2> QED BY <1>1, <1>2, <2>1, <2>2 DEF Completed, Claim, ClaimStates
<1>4. claims' \in [Keys -> Claim] BY <1>1, <1>3
<1> QED BY <1>1, <1>3, <1>4 DEF TypeInv, TypeOK, ClaimsNumbered

LEMMA ReapType ==
  ASSUME TypeInv, NEW K \in SUBSET ClosedKeys, ReapClaims(K)
  PROVE  TypeInv'
<1> USE ConstantsAssumption
<1>1. /\ claims' = [k \in Keys |-> IF k \in K THEN NoClaim ELSE claims[k]]
      /\ reaped' = reaped \cup
           {[role |-> k[1], worker |-> Worker(k[2], claims[k].n), trigger |-> k[3]] :
              k \in K}
      /\ UNCHANGED <<topic, msgs, binding, holders, nextWorker>>
      BY DEF ReapClaims
<1>2. NoClaim \in Claim BY DEF NoClaim, Claim, ClaimStates
<1>3. claims' \in [Keys -> Claim] BY <1>1, <1>2 DEF TypeInv, TypeOK
<1>4. \A k \in K : k \in Keys /\ claims[k].n \in 1 .. MaxWorkers
      BY DEF ClosedKeys, TypeInv, ClaimsNumbered
<1>5. reaped' \subseteq [role : Roles, worker : [session : Sessions, n : 1 .. MaxWorkers],
                        trigger : Msgs]
      BY <1>1, <1>4 DEF TypeInv, TypeOK, Worker, Keys
<1>6. \A k \in Keys : claims'[k].state # "none" => claims'[k] = claims[k]
      BY <1>1 DEF NoClaim
<1> QED BY <1>1, <1>3, <1>5, <1>6 DEF TypeInv, TypeOK, ClaimsNumbered

LEMMA StepType == TypeInv /\ [Next]_vars => TypeInv'
<1> SUFFICES ASSUME TypeInv, [Next]_vars PROVE TypeInv' OBVIOUS
<1>1. ASSUME NEW f \in Forms, NEW a \in Callers, NEW t \in 0 .. Len(msgs), Post(f, a, t)
      PROVE  TypeInv'
      BY <1>1, PostType
<1>2. ASSUME NEW f \in Forms, NEW a \in Callers, NEW new \in TopicStates,
             PostState(f, a, new)
      PROVE  TypeInv'
      BY <1>2, StateRowType DEF PostState, TypeInv, TypeOK, ClaimsNumbered
<1>3. ASSUME NEW f \in Forms, NEW a \in Callers, NEW new \in TopicStates,
             TransitionState(f, a, new)
      PROVE  TypeInv'
      BY <1>3, TransitionType
<1>4. ASSUME NEW b \in Bindable,
             BindActive(b[1], b[2]) \/ BindDiagnostic(b[1], b[2]) \/ BindRetired(b[1], b[2])
      PROVE  TypeInv'
      BY <1>4, BindType, ConstantsAssumption
<1>5. ASSUME NEW r \in Roles, NEW p \in Sessions, NEW t \in 1 .. Len(msgs),
             ClaimWorker(r, p, t) \/ RequeueWorker(r, p, t)
      PROVE  TypeInv'
      BY <1>5, ClaimType
<1>6. ASSUME NEW k \in ActiveKeys, WorkerNoAction(k) PROVE TypeInv'
      BY <1>6, CloseType
<1>7. ASSUME NEW K \in SUBSET ActiveKeys, RecoverStale(K) PROVE TypeInv'
      BY <1>7, RecoverType
<1>8. ASSUME NEW K \in SUBSET ClosedKeys, ReapClaims(K) PROVE TypeInv'
      BY <1>8, ReapType
<1>9. CASE UNCHANGED vars BY <1>9 DEF vars, TypeInv, TypeOK, ClaimsNumbered
<1> QED BY <1>1, <1>2, <1>3, <1>4, <1>5, <1>6, <1>7, <1>8, <1>9 DEF Next

\* Type correctness: every table keeps its shape, and every stored claim has a
\* worker number the counter has passed.
THEOREM TypeCorrect == Spec => [](TypeOK /\ ClaimsNumbered)
<1>1. Spec => []TypeInv BY InitType, StepType, PTL DEF Spec
<1>2. TypeInv => TypeOK /\ ClaimsNumbered BY DEF TypeInv
<1> QED BY <1>1, <1>2, PTL

--------------------------------------------------------------------------------
(* Seats: who may speak for a role, and under whose authority workers run. *)

\* A handler that only closes claims and leaves the seats alone keeps SeatedAuthority.
NoNewRunner == \A k \in Keys : claims'[k].state = "active" => claims[k].state = "active"

LEMMA SeatsKept ==
  ASSUME SeatedAuthority, NoNewRunner, binding' = binding
  PROVE  SeatedAuthority'
<1>1. \A r \in Roles : Owners(r)' = Owners(r) BY DEF Owners
<1>2. OneOwnerPerRole' BY <1>1 DEF SeatedAuthority, OneOwnerPerRole, AtMostOne
<1>3. \A k \in Keys : k[1] \in Roles BY DEF Keys
<1>4. ActiveClaimHasSeatedParent'
      BY <1>1, <1>3 DEF SeatedAuthority, NoNewRunner, ActiveClaimHasSeatedParent
<1> QED BY <1>2, <1>4 DEF SeatedAuthority

LEMMA PostOnlyCloses ==
  ASSUME TypeInv, NEW f \in Forms, NEW a \in Callers, NEW t \in 0 .. Len(msgs),
         Post(f, a, t)
  PROVE  NoNewRunner
<1>1. PICK by \in StoredAuthors(f.role, a), class \in Classes :
        claims' = IF f.kind \in TerminalKinds /\ t # 0
                  THEN ClaimsAfterTerminal(f.role, t, by, class, Len(msgs) + 1)
                  ELSE claims
      BY DEF Post
<1>2. CASE ~(f.kind \in TerminalKinds /\ t # 0)
      BY <1>1, <1>2 DEF NoNewRunner
<1>3. CASE f.kind \in TerminalKinds /\ t # 0
  <2>1. CASE class = "worker"
        BY <1>1, <1>3, <2>1 DEF NoNewRunner, ClaimsAfterTerminal, Completed
  <2>2. CASE class = "parent"
    <3>1. claims' = WithState(ActiveOnTrigger(f.role, t), "retired")
          BY <1>1, <1>3, <2>2 DEF ClaimsAfterTerminal
    <3>2. "retired" \in ClaimStates /\ TypeOK BY DEF ClaimStates, TypeInv
    <3>3. \A k \in Keys : claims'[k].state =
             IF k \in ActiveOnTrigger(f.role, t) THEN "retired" ELSE claims[k].state
          BY <3>1, <3>2, WithStateType
    <3> QED BY <3>3 DEF NoNewRunner
  <2>3. CASE class \notin {"worker", "parent"}
        BY <1>1, <1>3, <2>3 DEF NoNewRunner, ClaimsAfterTerminal
  <2> QED BY <2>1, <2>2, <2>3
<1> QED BY <1>2, <1>3

LEMMA RetiredParents ==
  ASSUME TypeOK, NEW P, claims' = WithState(ActiveOfParents(P), "retired")
  PROVE  \A k \in Keys : claims'[k].state = "active" =>
            claims[k].state = "active" /\ <<k[1], k[2]>> \notin P
<1>1. "retired" \in ClaimStates BY DEF ClaimStates
<1>2. \A k \in Keys : claims'[k].state =
         IF k \in ActiveOfParents(P) THEN "retired" ELSE claims[k].state
      BY <1>1, WithStateType
<1> QED BY <1>2 DEF ActiveOfParents

LEMMA TransitionSeats ==
  ASSUME TypeInv, SeatedAuthority, NEW f \in Forms, NEW a \in Callers,
         NEW new \in TopicStates, TransitionState(f, a, new)
  PROVE  SeatedAuthority'
<1> DEFINE leaving == IF new = "RESOLVED" THEN {"active"}
                      ELSE IF new = "ARCHIVED" THEN {"active", "diagnostic"} ELSE {}
           retired == {b \in Roles \X Sessions : binding[b] \in leaving}
           parents == {b \in retired : binding[b] = "active"}
<1>1. /\ binding' = [b \in Roles \X Sessions |->
                       IF b \in retired THEN "retired" ELSE binding[b]]
      /\ claims' = WithState(ActiveOfParents(parents), "retired")
      BY DEF TransitionState
<1>2. \A b \in Roles \X Sessions :
         /\ binding'[b] = "active" => binding[b] = "active"
         /\ binding[b] = "active" /\ b \notin parents => binding'[b] = "active"
      BY <1>1
<1> HIDE DEF parents
<1>3. \A k \in Keys : claims'[k].state = "active" =>
         claims[k].state = "active" /\ <<k[1], k[2]>> \notin parents
      BY <1>1, RetiredParents DEF TypeInv
<1>4. \A r \in Roles : Owners(r)' \subseteq Owners(r) BY <1>2 DEF Owners
<1>5. OneOwnerPerRole' BY <1>4 DEF SeatedAuthority, OneOwnerPerRole, AtMostOne
<1>6. ActiveClaimHasSeatedParent'
  <2> SUFFICES ASSUME NEW k \in Keys, claims'[k].state = "active"
               PROVE  k[2] \in Owners(k[1])'
      BY DEF ActiveClaimHasSeatedParent
  <2>1. k[2] \in Owners(k[1]) /\ <<k[1], k[2]>> \notin parents
        BY <1>3 DEF SeatedAuthority, ActiveClaimHasSeatedParent
  <2>2. k[1] \in Roles /\ k[2] \in Sessions BY DEF Keys
  <2> QED BY <1>2, <2>1, <2>2 DEF Owners
<1> QED BY <1>5, <1>6 DEF SeatedAuthority

LEMMA BindActiveSeats ==
  ASSUME TypeInv, SeatedAuthority, NEW r \in Roles, NEW s \in Sessions, BindActive(r, s)
  PROVE  SeatedAuthority'
<1> DEFINE replaced == {<<r, o>> : o \in Owners(r) \ {s}}
<1>1. /\ binding' = [b \in Roles \X Sessions |->
                       IF b = <<r, s>> THEN "active"
                       ELSE IF b \in replaced THEN "retired" ELSE binding[b]]
      /\ claims' = WithState(ActiveOfParents(replaced), "retired")
      /\ \A other \in Roles \ {r} : s \notin Owners(other)
      BY DEF BindActive, SeatFree
<1>2. Owners(r)' = {s} BY <1>1 DEF Owners
<1>3. \A q \in Roles \ {r} : Owners(q)' = Owners(q) BY <1>1 DEF Owners
<1> HIDE DEF replaced
<1>4. \A k \in Keys : claims'[k].state = "active" =>
         claims[k].state = "active" /\ <<k[1], k[2]>> \notin replaced
      BY <1>1, RetiredParents DEF TypeInv
<1>5. OneOwnerPerRole'
  <2>1. \A q \in Roles : AtMostOne(Owners(q)')
        BY <1>2, <1>3 DEF AtMostOne, SeatedAuthority, OneOwnerPerRole
  <2>2. \A o \in Sessions, q1, q2 \in Roles :
           o \in Owners(q1)' /\ o \in Owners(q2)' => q1 = q2
        BY <1>1, <1>2, <1>3 DEF AtMostOne, SeatedAuthority, OneOwnerPerRole
  <2> QED BY <2>1, <2>2 DEF AtMostOne, OneOwnerPerRole
<1>6. ActiveClaimHasSeatedParent'
  <2> SUFFICES ASSUME NEW k \in Keys, claims'[k].state = "active"
               PROVE  k[2] \in Owners(k[1])'
      BY DEF ActiveClaimHasSeatedParent
  <2>1. k[2] \in Owners(k[1]) /\ <<k[1], k[2]>> \notin replaced
        BY <1>4 DEF SeatedAuthority, ActiveClaimHasSeatedParent
  <2>2. k[1] \in Roles BY DEF Keys
  <2>3. CASE k[1] = r BY <2>1, <2>3, <1>2 DEF replaced
  <2>4. CASE k[1] # r BY <2>1, <2>2, <2>4, <1>3
  <2> QED BY <2>3, <2>4
<1> QED BY <1>5, <1>6 DEF SeatedAuthority

LEMMA UnseatSeats ==
  ASSUME TypeInv, SeatedAuthority, NEW r \in Roles, NEW s \in Sessions,
         NEW to \in {"diagnostic", "retired"}, Unseat(r, s, to)
  PROVE  SeatedAuthority'
<1>1. binding' = [binding EXCEPT ![<<r, s>>] = to] BY DEF Unseat
<1>2. \A b \in Roles \X Sessions :
         binding'[b] = IF b = <<r, s>> THEN to ELSE binding[b]
      BY <1>1 DEF TypeInv, TypeOK
<1>3. \A q \in Roles : Owners(q)' \subseteq Owners(q) BY <1>2 DEF Owners
<1>4. OneOwnerPerRole' BY <1>3 DEF SeatedAuthority, OneOwnerPerRole, AtMostOne
<1>5. \A k \in Keys : claims'[k].state = "active" =>
         claims[k].state = "active" /\ <<k[1], k[2]>> # <<r, s>>
  <2>1. CASE binding[<<r, s>>] = "active"
    <3>1. claims' = WithState(ActiveOfParents({<<r, s>>}), "retired")
          BY <2>1 DEF Unseat
    <3> QED BY <3>1, RetiredParents DEF TypeInv
  <2>2. CASE binding[<<r, s>>] # "active"
    <3>1. claims' = claims BY <2>2 DEF Unseat
    <3>2. \A k \in Keys : claims[k].state = "active" => k[2] \in Owners(k[1])
          BY DEF SeatedAuthority, ActiveClaimHasSeatedParent
    <3> QED BY <2>2, <3>1, <3>2 DEF Owners
  <2> QED BY <2>1, <2>2
<1>6. ActiveClaimHasSeatedParent'
  <2> SUFFICES ASSUME NEW k \in Keys, claims'[k].state = "active"
               PROVE  k[2] \in Owners(k[1])'
      BY DEF ActiveClaimHasSeatedParent
  <2>1. k[2] \in Owners(k[1]) /\ <<k[1], k[2]>> # <<r, s>>
        BY <1>5 DEF SeatedAuthority, ActiveClaimHasSeatedParent
  <2>2. k[1] \in Roles /\ k[2] \in Sessions BY DEF Keys
  <2> QED BY <1>2, <2>1, <2>2 DEF Owners
<1> QED BY <1>4, <1>6 DEF SeatedAuthority

LEMMA ClaimSeats ==
  ASSUME TypeInv, SeatedAuthority, NEW r \in Roles, NEW p \in Sessions,
         NEW t \in 1 .. Len(msgs), ClaimWorker(r, p, t) \/ RequeueWorker(r, p, t)
  PROVE  SeatedAuthority'
<1>1. p \in Owners(r) /\ binding' = binding
      BY DEF ClaimWorker, RequeueWorker, Admitted
<1>2. \A k \in Keys : k # <<r, p, t>> => claims'[k] = claims[k]
      BY DEF ClaimWorker, RequeueWorker, TypeInv, TypeOK
<1>3. \A q \in Roles : Owners(q)' = Owners(q) BY <1>1 DEF Owners
<1>4. OneOwnerPerRole' BY <1>3 DEF SeatedAuthority, OneOwnerPerRole, AtMostOne
<1>5. ActiveClaimHasSeatedParent'
  <2> SUFFICES ASSUME NEW k \in Keys, claims'[k].state = "active"
               PROVE  k[2] \in Owners(k[1])'
      BY DEF ActiveClaimHasSeatedParent
  <2>1. k[1] \in Roles BY DEF Keys
  <2>2. CASE k = <<r, p, t>> BY <1>1, <1>3, <2>2
  <2>3. CASE k # <<r, p, t>>
        BY <1>2, <1>3, <2>1, <2>3 DEF SeatedAuthority, ActiveClaimHasSeatedParent
  <2> QED BY <2>2, <2>3
<1> QED BY <1>4, <1>5 DEF SeatedAuthority

LEMMA CloseSeats ==
  ASSUME TypeInv, SeatedAuthority,
         \/ \E k \in ActiveKeys : WorkerNoAction(k)
         \/ \E K \in SUBSET ActiveKeys : RecoverStale(K)
         \/ \E K \in SUBSET ClosedKeys : ReapClaims(K)
  PROVE  SeatedAuthority'
<1>1. ASSUME NEW k \in ActiveKeys, WorkerNoAction(k)
      PROVE  NoNewRunner /\ binding' = binding
  <2>1. claims' = [claims EXCEPT ![k] = Completed(claims[k], 0)] /\ binding' = binding
        BY <1>1 DEF WorkerNoAction
  <2>2. \A l \in Keys : claims'[l] = IF l = k THEN Completed(claims[k], 0) ELSE claims[l]
        BY <2>1 DEF TypeInv, TypeOK
  <2> QED BY <2>1, <2>2 DEF NoNewRunner, Completed
<1>2. ASSUME NEW K \in SUBSET ActiveKeys, RecoverStale(K)
      PROVE  NoNewRunner /\ binding' = binding
  <2>1. \A k \in Keys : k \notin K => claims'[k] = claims[k] BY <1>2 DEF RecoverStale
  <2>2. \A k \in K : claims[k].state = "active" BY <1>2 DEF RecoverStale
  <2> QED BY <1>2, <2>1, <2>2 DEF NoNewRunner, RecoverStale
<1>3. ASSUME NEW K \in SUBSET ClosedKeys, ReapClaims(K)
      PROVE  NoNewRunner /\ binding' = binding
      BY <1>3 DEF ReapClaims, NoNewRunner, NoClaim
<1> QED BY <1>1, <1>2, <1>3, SeatsKept

LEMMA StepSeats == TypeInv /\ SeatedAuthority /\ [Next]_vars => SeatedAuthority'
<1> SUFFICES ASSUME TypeInv, SeatedAuthority, [Next]_vars PROVE SeatedAuthority' OBVIOUS
<1>1. ASSUME NEW f \in Forms, NEW a \in Callers, NEW t \in 0 .. Len(msgs), Post(f, a, t)
      PROVE  SeatedAuthority'
  <2>1. binding' = binding BY <1>1 DEF Post
  <2> QED BY <1>1, <2>1, PostOnlyCloses, SeatsKept
<1>2. ASSUME NEW f \in Forms, NEW a \in Callers, NEW new \in TopicStates,
             PostState(f, a, new)
      PROVE  SeatedAuthority'
      BY <1>2, SeatsKept DEF PostState, NoNewRunner
<1>3. ASSUME NEW f \in Forms, NEW a \in Callers, NEW new \in TopicStates,
             TransitionState(f, a, new)
      PROVE  SeatedAuthority'
      BY <1>3, TransitionSeats
<1>4. ASSUME NEW b \in Bindable,
             BindActive(b[1], b[2]) \/ BindDiagnostic(b[1], b[2]) \/ BindRetired(b[1], b[2])
      PROVE  SeatedAuthority'
  <2>1. b[1] \in Roles /\ b[2] \in Sessions BY ConstantsAssumption
  <2> QED BY <1>4, <2>1, BindActiveSeats, UnseatSeats DEF BindDiagnostic, BindRetired
<1>5. ASSUME NEW r \in Roles, NEW p \in Sessions, NEW t \in 1 .. Len(msgs),
             ClaimWorker(r, p, t) \/ RequeueWorker(r, p, t)
      PROVE  SeatedAuthority'
      BY <1>5, ClaimSeats
<1>6. CASE \/ \E k \in ActiveKeys : WorkerNoAction(k)
           \/ \E K \in SUBSET ActiveKeys : RecoverStale(K)
           \/ \E K \in SUBSET ClosedKeys : ReapClaims(K)
      BY <1>6, CloseSeats
<1>7. CASE UNCHANGED vars BY <1>7, SeatsKept DEF vars, NoNewRunner
<1> QED BY <1>1, <1>2, <1>3, <1>4, <1>5, <1>6, <1>7 DEF Next

LEMMA InitSeats == Init => SeatedAuthority
<1> SUFFICES ASSUME Init PROVE SeatedAuthority OBVIOUS
<1>1. \A r \in Roles : Owners(r) = {} BY DEF Init, Owners
<1>2. \A k \in Keys : claims[k].state = "none" BY DEF Init, NoClaim
<1> QED BY <1>1, <1>2
        DEF SeatedAuthority, OneOwnerPerRole, AtMostOne, ActiveClaimHasSeatedParent

\* A worker runs only while its parent is the role's one owner, whatever binds,
\* swaps, retires, resolves or archives in between.
THEOREM SeatsSafe == Spec => []SeatedAuthority
<1>1. Init => TypeInv /\ SeatedAuthority BY InitType, InitSeats
<1>2. (TypeInv /\ SeatedAuthority) /\ [Next]_vars => (TypeInv /\ SeatedAuthority)'
      BY StepType, StepSeats
<1>3. Spec => [](TypeInv /\ SeatedAuthority) BY <1>1, <1>2, PTL DEF Spec
<1> QED BY <1>3, PTL

\* Hence a role never has two workers running on one trigger.
THEOREM OneRunner == Spec => []OneRunningWorker
<1>1. OneOwnerPerRole /\ ActiveClaimHasSeatedParent => OneRunningWorker
  <2> SUFFICES ASSUME OneOwnerPerRole, ActiveClaimHasSeatedParent,
                      NEW r \in Roles, NEW t \in Msgs,
                      NEW k \in ActiveOnTrigger(r, t), NEW l \in ActiveOnTrigger(r, t)
               PROVE  k = l
      BY DEF OneRunningWorker, AtMostOne
  <2>1. k \in Keys /\ l \in Keys BY DEF ActiveOnTrigger
  <2>2. k[2] \in Owners(r) /\ l[2] \in Owners(r)
        BY <2>1 DEF ActiveOnTrigger, ActiveClaimHasSeatedParent
  <2>3. k[2] = l[2] BY <2>2 DEF OneOwnerPerRole, AtMostOne
  <2>4. k[1] = l[1] /\ k[3] = l[3] BY DEF ActiveOnTrigger
  <2> QED BY <2>1, <2>3, <2>4 DEF Keys
<1>2. SeatedAuthority => OneRunningWorker BY <1>1 DEF SeatedAuthority
<1> QED BY <1>2, SeatsSafe, PTL

--------------------------------------------------------------------------------
(* Who answers what: worker ids, the acknowledgement of claims and the     *)
(* answers of each class.                                                  *)

USE ConstantsAssumption

\* The counter has passed the number of every worker in the reap log.
ReapedNumbered ==
  \A x \in reaped : x.worker.n < nextWorker[<<x.role, x.worker.session>>]

\* A reply follows the message it answers.
RepliesBack == \A i \in 1 .. Len(msgs) : msgs[i].reply < i

AnswersInv ==
  /\ TypeInv /\ ReapedNumbered /\ WorkerIdsNeverReissued
  /\ RepliesBack /\ AckIsOwnAnswer
  /\ OneTerminalPerClass /\ OneShotAnsweredOnce /\ ParentFinal

--------------------------------------------------------------------------------
(* The shapes of a step, as far as claims and answers are concerned.       *)

\* A claim is left alone, or an active one is closed without an answer.
Untouched(k) ==
  \/ claims'[k] = claims[k]
  \/ /\ claims[k].state = "active" /\ claims'[k].state \in {"retired", "completed"}
     /\ claims'[k].n = claims[k].n /\ claims'[k].ack = 0

IsAnswer(m) == m.reply # 0 /\ m.kind \in TerminalKinds

\* No answer is posted, and claims are closed if anything.
Closing ==
  /\ \/ msgs' = msgs
     \/ \E m \in Message :
          msgs' = Append(msgs, m) /\ m.reply \in 0 .. Len(msgs) /\ ~IsAnswer(m)
  /\ \A k \in Keys : Untouched(k)
  /\ UNCHANGED <<nextWorker, reaped>>

\* m is posted, an answer to an earlier message.
Answer(m) ==
  /\ msgs' = Append(msgs, m)
  /\ m \in Message /\ m.reply \in 1 .. Len(msgs) /\ m.kind \in TerminalKinds
  /\ SlotFree(m.role, m.reply, m.class)
  /\ UNCHANGED <<nextWorker, reaped>>

\* A worker answers the trigger of its active claim k.
WorkerAnswer(m, k) ==
  /\ Answer(m) /\ m.class = "worker"
  /\ k \in Keys /\ k[1] = m.role /\ k[3] = m.reply
  /\ claims[k].state = "active" /\ m.author = Worker(k[2], claims[k].n)
  /\ claims' = [claims EXCEPT ![k] = Completed(claims[k], Len(msgs) + 1)]

\* Somebody else answers; a parent's answer retires the claims on the trigger.
OtherAnswer(m) ==
  /\ Answer(m) /\ m.class \in {"parent", "unattributed"}
  /\ \A k \in Keys : Untouched(k)
  /\ m.class = "parent" =>
       \A k \in Keys : k[1] = m.role /\ k[3] = m.reply => claims'[k].state # "active"

\* A claim is made active, for the first time or again, on a trigger nobody has
\* answered with an attribution.
Claiming(k, n) ==
  /\ k \in Keys /\ k[3] \in 1 .. Len(msgs)
  /\ OwnershipClasses(k[1], k[3]) \cap {"parent", "worker", "legacy"} = {}
  /\ \A l \in Keys \ {k} : claims'[l] = claims[l]
  /\ claims'[k].state = "active" /\ claims'[k].ack = 0 /\ claims'[k].n = n
  /\ UNCHANGED <<msgs, reaped>>
  /\ \/ n = claims[k].n /\ claims[k].state = "retired" /\ nextWorker' = nextWorker
     \/ /\ claims[k].state = "none" /\ n = nextWorker[<<k[1], k[2]>>]
        /\ nextWorker' = [nextWorker EXCEPT ![<<k[1], k[2]>>] = n + 1]

Shape ==
  \/ Closing
  \/ \E m \in Message, k \in Keys : WorkerAnswer(m, k)
  \/ \E m \in Message : OtherAnswer(m)
  \/ \E k \in Keys, n \in 1 .. MaxWorkers : Claiming(k, n)
  \/ \E K \in SUBSET ClosedKeys : ReapClaims(K)

\* Active claims have no acknowledgement yet.
LEMMA ActiveHasNoAck ==
  ASSUME AckIsOwnAnswer, NEW k \in Keys, claims[k].state = "active"
  PROVE  claims[k].ack = 0
BY DEF AckIsOwnAnswer

\* Setting active claims to retired touches nothing else.
LEMMA RetireUntouched ==
  ASSUME TypeInv, AckIsOwnAnswer, NEW K \in SUBSET Keys,
         \A k \in K : claims[k].state = "active",
         claims' = WithState(K, "retired")
  PROVE  /\ \A k \in Keys : Untouched(k)
         /\ \A k \in K : claims'[k].state = "retired"
<1>1. "retired" \in ClaimStates /\ TypeOK BY DEF ClaimStates, TypeInv
<1>2. \A k \in Keys : /\ claims'[k].n = claims[k].n /\ claims'[k].ack = claims[k].ack
                      /\ claims'[k].state = (IF k \in K THEN "retired" ELSE claims[k].state)
      BY <1>1, WithStateType
<1>3. \A k \in Keys \ K : claims'[k] = claims[k] BY DEF WithState
<1>4. \A k \in K : claims[k].ack = 0 BY ActiveHasNoAck
<1> QED BY <1>2, <1>3, <1>4 DEF Untouched

\* A worker that may answer a trigger holds the active claim on it.
LEMMA WorkerHolds ==
  ASSUME TypeInv, WorkerIdsNeverReissued, NEW r \in Roles, NEW a \in Callers,
         NEW t \in Msgs, a.n > 0, Authorized(r, a), Held(r, a, t)
  PROVE  /\ <<r, a.session, t>> \in LiveClaimsOf(r, a)
         /\ LiveClaimsOf(r, a) = {<<r, a.session, t>>}
         /\ claims[<<r, a.session, t>>].state = "active"
<1>1. PICK k \in LiveClaimsOf(r, a) : claims[k].state = "active"
      BY DEF Authorized, Callers, Anonymous
<1>2. \A x \in reaped : ~(x.role = r /\ x.worker = a)
      BY <1>1 DEF WorkerIdsNeverReissued
<1>3. PICK l \in LiveClaimsOf(r, a) : l[3] = t BY <1>2 DEF Held
<1>4. \A j \in LiveClaimsOf(r, a) : j = k
      BY <1>1 DEF LiveClaimsOf, WorkerIdsNeverReissued
<1>5. l = <<r, a.session, t>> BY <1>3 DEF LiveClaimsOf, Keys
<1> QED BY <1>1, <1>3, <1>4, <1>5

LEMMA PostShape ==
  ASSUME AnswersInv, NEW f \in Forms, NEW a \in Callers, NEW t \in 0 .. Len(msgs),
         Post(f, a, t)
  PROVE  Shape
<1>1. PICK by \in StoredAuthors(f.role, a), class \in Classes :
        /\ Attributed(f.role, a, t, f.kind, by, class)
        /\ (f.kind \in TerminalKinds /\ t # 0) => SlotFree(f.role, t, class)
        /\ msgs' = Append(msgs, Row(f, t, by, class))
        /\ claims' = IF f.kind \in TerminalKinds /\ t # 0
                     THEN ClaimsAfterTerminal(f.role, t, by, class, Len(msgs) + 1)
                     ELSE claims
      BY DEF Post
<1> DEFINE m == Row(f, t, by, class)
<1>2. TypeInv /\ TypeOK /\ AckIsOwnAnswer /\ WorkerIdsNeverReissued
      BY DEF AnswersInv, TypeInv
<1>3. m \in Message BY <1>2, RowType
<1>4. m.role = f.role /\ m.kind = f.kind /\ m.reply = t /\ m.class = class /\ m.author = by
      BY DEF Row
<1>5. UNCHANGED <<nextWorker, reaped>> BY DEF Post
<1>6. f.role \in Roles BY FormsAssumption DEF FormSet
<1>7. Len(msgs) \in Nat /\ Len(msgs) <= MaxMsgs BY <1>2 DEF TypeOK
<1>a. msgs' = Append(msgs, m) BY <1>1
<1> HIDE DEF m
<1>8. CASE ~(f.kind \in TerminalKinds /\ t # 0)
  <2>1. claims' = claims BY <1>1, <1>8
  <2>2. Closing BY <1>3, <1>4, <1>5, <1>8, <1>a, <2>1 DEF Closing, IsAnswer, Untouched
  <2> QED BY <2>2 DEF Shape
<1>9. CASE f.kind \in TerminalKinds /\ t # 0
  <2>1. t \in 1 .. Len(msgs) /\ t \in Msgs BY <1>7, <1>9 DEF Msgs
  <2>2. Answer(m) BY <1>1, <1>3, <1>4, <1>5, <1>9, <1>a, <2>1 DEF Answer
  <2>3. claims' = ClaimsAfterTerminal(f.role, t, by, class, Len(msgs) + 1)
        BY <1>1, <1>9
  <2>4. f.kind # "STATE" BY <1>9 DEF TerminalKinds
  <2>5. CASE class = "worker"
    <3>1. by = a /\ a.n > 0 /\ Authorized(f.role, a) /\ Held(f.role, a, t)
          BY <1>1, <1>9, <2>5 DEF Attributed
    <3> DEFINE k == <<f.role, a.session, t>>
    <3>2. LiveClaimsOf(f.role, a) = {k} /\ claims[k].state = "active"
          BY <1>2, <1>6, <2>1, <3>1, WorkerHolds
    <3>3. k \in Keys /\ claims[k].n = a.n /\ k[1] = f.role /\ k[2] = a.session /\ k[3] = t
          BY <3>2 DEF LiveClaimsOf
    <3> HIDE DEF k
    <3>4. a = Worker(a.session, a.n) BY <3>1 DEF Callers, Anonymous, Worker
    <3>5. m.author = Worker(k[2], claims[k].n) BY <1>4, <3>1, <3>3, <3>4
    <3>6. claims' = [l \in Keys |->
             IF l \in {k} /\ l[3] = t /\ claims[l].state = "active"
             THEN Completed(claims[l], Len(msgs) + 1) ELSE claims[l]]
          BY <2>3, <2>5, <3>1, <3>2 DEF ClaimsAfterTerminal
    <3>7. claims' = [claims EXCEPT ![k] = Completed(claims[k], Len(msgs) + 1)]
          BY <1>2, <3>2, <3>3, <3>6 DEF TypeOK
    <3>8. WorkerAnswer(m, k)
          BY <1>4, <2>2, <2>5, <3>2, <3>3, <3>5, <3>7 DEF WorkerAnswer
    <3> QED BY <1>3, <3>3, <3>8 DEF Shape
  <2>6. CASE class = "parent"
    <3> DEFINE K == ActiveOnTrigger(f.role, t)
    <3>1. claims' = WithState(K, "retired") BY <2>3, <2>6 DEF ClaimsAfterTerminal
    <3>2. K \in SUBSET Keys /\ \A k \in K : claims[k].state = "active"
          BY DEF ActiveOnTrigger
    <3>3. /\ \A k \in Keys : Untouched(k)
          /\ \A k \in K : claims'[k].state = "retired"
          BY <1>2, <3>1, <3>2, RetireUntouched
    <3>4. ASSUME NEW k \in Keys, k[1] = f.role, k[3] = t PROVE claims'[k].state # "active"
      <4>1. CASE k \in K BY <3>3, <4>1
      <4>2. CASE k \notin K
        <5>1. claims[k].state # "active" BY <3>4, <4>2 DEF ActiveOnTrigger
        <5> QED BY <3>3, <5>1 DEF Untouched
      <4> QED BY <4>1, <4>2
    <3>5. OtherAnswer(m) BY <1>4, <2>2, <2>6, <3>3, <3>4 DEF OtherAnswer
    <3> QED BY <1>3, <3>5 DEF Shape
  <2>7. CASE class \notin {"worker", "parent"}
    <3>1. claims' = claims BY <2>3, <2>7 DEF ClaimsAfterTerminal
    <3>2. class = "unattributed" BY <1>1, <2>7 DEF Attributed
    <3>3. OtherAnswer(m)
          BY <1>4, <2>2, <3>1, <3>2 DEF OtherAnswer, Untouched
    <3> QED BY <1>3, <3>3 DEF Shape
  <2> QED BY <2>5, <2>6, <2>7
<1> QED BY <1>8, <1>9

LEMMA StateRowShape ==
  ASSUME AnswersInv, NEW f \in Forms, NEW a \in Callers, NEW new \in TopicStates,
         StateRow(f, a, new)
  PROVE  \E m \in Message :
           msgs' = Append(msgs, m) /\ m.reply \in 0 .. Len(msgs) /\ ~IsAnswer(m)
<1>1. PICK by \in StoredAuthors(f.role, a), class \in Classes :
        msgs' = Append(msgs, Row(f, 0, by, class))
      BY DEF StateRow
<1>2. TypeOK BY DEF AnswersInv, TypeInv
<1>3. 0 \in 0 .. Len(msgs) BY <1>2 DEF TypeOK
<1>4. Row(f, 0, by, class) \in Message BY <1>2, <1>3, RowType
<1>5. Row(f, 0, by, class).reply = 0 BY DEF Row
<1> QED BY <1>1, <1>3, <1>4, <1>5 DEF IsAnswer

LEMMA TransitionShape ==
  ASSUME AnswersInv, NEW f \in Forms, NEW a \in Callers, NEW new \in TopicStates,
         PostState(f, a, new) \/ TransitionState(f, a, new)
  PROVE  Shape
<1>1. StateRow(f, a, new) /\ UNCHANGED <<nextWorker, reaped>>
      BY DEF PostState, TransitionState
<1>2. PICK P : claims' = claims \/ claims' = WithState(ActiveOfParents(P), "retired")
      BY DEF PostState, TransitionState
<1>3. \A k \in Keys : Untouched(k)
  <2>1. CASE claims' = claims BY <2>1 DEF Untouched
  <2>2. CASE claims' = WithState(ActiveOfParents(P), "retired")
    <3>1. ActiveOfParents(P) \in SUBSET Keys
          /\ \A k \in ActiveOfParents(P) : claims[k].state = "active"
          BY DEF ActiveOfParents
    <3> QED BY <2>2, <3>1, RetireUntouched DEF AnswersInv
  <2> QED BY <1>2, <2>1, <2>2
<1>4. Closing BY <1>1, <1>3, StateRowShape DEF Closing
<1> QED BY <1>4 DEF Shape

LEMMA BindShape ==
  ASSUME AnswersInv, NEW r, NEW s,
         BindActive(r, s) \/ BindDiagnostic(r, s) \/ BindRetired(r, s)
  PROVE  Shape
<1>1. UNCHANGED <<msgs, nextWorker, reaped>>
      BY DEF BindActive, BindDiagnostic, BindRetired, Unseat
<1>2. PICK P : claims' = claims \/ claims' = WithState(ActiveOfParents(P), "retired")
      BY DEF BindActive, BindDiagnostic, BindRetired, Unseat
<1>3. \A k \in Keys : Untouched(k)
  <2>1. CASE claims' = claims BY <2>1 DEF Untouched
  <2>2. CASE claims' = WithState(ActiveOfParents(P), "retired")
    <3>1. ActiveOfParents(P) \in SUBSET Keys
          /\ \A k \in ActiveOfParents(P) : claims[k].state = "active"
          BY DEF ActiveOfParents
    <3> QED BY <2>2, <3>1, RetireUntouched DEF AnswersInv
  <2> QED BY <1>2, <2>1, <2>2
<1>4. Closing BY <1>1, <1>3 DEF Closing
<1> QED BY <1>4 DEF Shape

LEMMA ClaimShape ==
  ASSUME AnswersInv, NEW r \in Roles, NEW p \in Sessions, NEW t \in 1 .. Len(msgs),
         ClaimWorker(r, p, t) \/ RequeueWorker(r, p, t)
  PROVE  Shape
<1> DEFINE k == <<r, p, t>>
<1>1. TypeOK /\ ClaimsNumbered BY DEF AnswersInv, TypeInv
<1>2. k \in Keys /\ k[1] = r /\ k[2] = p /\ k[3] = t /\ <<r, p>> \in Roles \X Sessions
      BY <1>1 DEF Keys, Msgs, TypeOK
<1>3. OwnershipClasses(r, t) \cap {"parent", "worker", "legacy"} = {}
      BY DEF ClaimWorker, RequeueWorker, Admitted
<1>4. CASE ClaimWorker(r, p, t)
  <2> DEFINE n == nextWorker[<<r, p>>]
  <2>1. /\ claims' = [claims EXCEPT ![k] = FreshClaim(n)] /\ n <= MaxWorkers
        /\ nextWorker' = [nextWorker EXCEPT ![<<r, p>>] = n + 1]
        /\ claims[k].state = "none" /\ UNCHANGED <<msgs, reaped>>
        BY <1>4 DEF ClaimWorker, NextWorkerId
  <2>2. n \in 1 .. MaxWorkers BY <1>1, <1>2, <2>1 DEF TypeOK
  <2> HIDE DEF n, k
  <2>3. /\ \A l \in Keys \ {k} : claims'[l] = claims[l]
        /\ claims'[k] = FreshClaim(n)
        BY <1>1, <1>2, <2>1 DEF TypeOK
  <2>4. n = nextWorker[<<k[1], k[2]>>] BY <1>2 DEF n
  <2>5. nextWorker' = [nextWorker EXCEPT ![<<k[1], k[2]>>] = n + 1] BY <1>2, <2>1
  <2>6. claims'[k].state = "active" /\ claims'[k].ack = 0 /\ claims'[k].n = n
        BY <2>3 DEF FreshClaim
  <2>7. Claiming(k, n)
        BY <1>2, <1>3, <2>1, <2>3, <2>4, <2>5, <2>6 DEF Claiming
  <2> QED BY <1>2, <2>2, <2>7 DEF Shape
<1>5. CASE RequeueWorker(r, p, t)
  <2> DEFINE n == claims[k].n
  <2>1. /\ claims' = [claims EXCEPT ![k] = Reactivated(claims[k])]
        /\ claims[k].state = "retired" /\ UNCHANGED <<msgs, reaped, nextWorker>>
        BY <1>5 DEF RequeueWorker, Requeueable
  <2>2. n \in 1 .. MaxWorkers BY <1>1, <1>2, <2>1 DEF ClaimsNumbered
  <2> HIDE DEF k
  <2>3. /\ \A l \in Keys \ {k} : claims'[l] = claims[l]
        /\ claims'[k] = Reactivated(claims[k])
        BY <1>1, <1>2, <2>1 DEF TypeOK
  <2>4. claims'[k].state = "active" /\ claims'[k].ack = 0 /\ claims'[k].n = n
        BY <2>3 DEF Reactivated
  <2> HIDE DEF n
  <2>5. n = claims[k].n BY DEF n
  <2>6. Claiming(k, n)
        BY <1>2, <1>3, <2>1, <2>3, <2>4, <2>5 DEF Claiming
  <2> QED BY <1>2, <2>2, <2>6 DEF Shape
<1> QED BY <1>4, <1>5

\* The sweep never finds an answer: it would have closed the claim.
LEMMA CloseShape ==
  ASSUME AnswersInv,
         \/ \E k \in ActiveKeys : WorkerNoAction(k)
         \/ \E K \in SUBSET ActiveKeys : RecoverStale(K)
  PROVE  Shape
<1>1. TypeOK /\ AckIsOwnAnswer BY DEF AnswersInv, TypeInv
<1>2. \A k \in Keys : claims[k].state = "active" =>
        claims[k].ack = 0 /\ OwnTerminals(k) = {}
      BY <1>1 DEF AckIsOwnAnswer
<1>3. \A k \in Keys : claims[k] \in Claim BY <1>1 DEF TypeOK
<1>4. ASSUME NEW k \in ActiveKeys, WorkerNoAction(k) PROVE Closing
  <2>1. /\ claims' = [claims EXCEPT ![k] = Completed(claims[k], 0)]
        /\ UNCHANGED <<msgs, nextWorker, reaped>>
        BY <1>4 DEF WorkerNoAction
  <2>2. k \in Keys /\ claims[k].state = "active" BY DEF ActiveKeys
  <2>3. \A l \in Keys : claims'[l] = IF l = k THEN Completed(claims[k], 0) ELSE claims[l]
        BY <1>1, <2>1, <2>2 DEF TypeOK
  <2>4. \A l \in Keys : Untouched(l) BY <2>2, <2>3 DEF Untouched, Completed
  <2> QED BY <2>1, <2>4 DEF Closing
<1>5. ASSUME NEW K \in SUBSET ActiveKeys, RecoverStale(K) PROVE Closing
  <2>1. /\ claims' = [k \in Keys |->
              IF k \notin K THEN claims[k]
              ELSE IF OwnTerminals(k) = {} THEN [claims[k] EXCEPT !.state = "retired"]
              ELSE Completed(claims[k], FirstOwnTerminal(k))]
        /\ UNCHANGED <<msgs, nextWorker, reaped>>
        BY <1>5 DEF RecoverStale
  <2>2. \A k \in K : k \in Keys /\ claims[k].state = "active" BY DEF ActiveKeys
  <2>3. ASSUME NEW k \in Keys PROVE Untouched(k)
    <3>1. CASE k \notin K BY <2>1, <3>1 DEF Untouched
    <3>2. CASE k \in K
      <4>1. OwnTerminals(k) = {} /\ claims[k].state = "active" /\ claims[k].ack = 0
            BY <1>2, <2>2, <3>2
      <4>2. claims'[k] = [claims[k] EXCEPT !.state = "retired"] BY <2>1, <3>2, <4>1
      <4>3. claims'[k].state = "retired" /\ claims'[k].n = claims[k].n
            /\ claims'[k].ack = claims[k].ack
            BY <1>3, <4>2 DEF Claim
      <4> QED BY <4>1, <4>3 DEF Untouched
    <3> QED BY <3>1, <3>2
  <2> QED BY <2>1, <2>3 DEF Closing
<1> QED BY <1>4, <1>5 DEF Shape

LEMMA StepShape == AnswersInv /\ [Next]_vars => Shape
<1> SUFFICES ASSUME AnswersInv, [Next]_vars PROVE Shape OBVIOUS
<1>1. ASSUME NEW f \in Forms, NEW a \in Callers, NEW t \in 0 .. Len(msgs), Post(f, a, t)
      PROVE  Shape
      BY <1>1, PostShape
<1>2. ASSUME NEW f \in Forms, NEW a \in Callers, NEW new \in TopicStates,
             PostState(f, a, new) \/ TransitionState(f, a, new)
      PROVE  Shape
      BY <1>2, TransitionShape
<1>3. ASSUME NEW b \in Bindable,
             BindActive(b[1], b[2]) \/ BindDiagnostic(b[1], b[2]) \/ BindRetired(b[1], b[2])
      PROVE  Shape
      BY <1>3, BindShape
<1>4. ASSUME NEW r \in Roles, NEW p \in Sessions, NEW t \in 1 .. Len(msgs),
             ClaimWorker(r, p, t) \/ RequeueWorker(r, p, t)
      PROVE  Shape
      BY <1>4, ClaimShape
<1>5. CASE \/ \E k \in ActiveKeys : WorkerNoAction(k)
           \/ \E K \in SUBSET ActiveKeys : RecoverStale(K)
      BY <1>5, CloseShape
<1>6. CASE \E K \in SUBSET ClosedKeys : ReapClaims(K) BY <1>6 DEF Shape
<1>7. CASE UNCHANGED vars
  <2>1. UNCHANGED <<msgs, claims, nextWorker, reaped>> BY <1>7 DEF vars
  <2>2. Closing BY <2>1 DEF Closing, Untouched
  <2> QED BY <2>2 DEF Shape
<1> QED BY <1>1, <1>2, <1>3, <1>4, <1>5, <1>6, <1>7 DEF Next

--------------------------------------------------------------------------------
(* Worker ids.                                                             *)

\* Only a claim or a reap changes which claims exist, and under which number.
SameRows ==
  \A k \in Keys : /\ claims'[k].n = claims[k].n
                  /\ claims'[k].state = "none" <=> claims[k].state = "none"

LEMMA AnswersKeepRows ==
  ASSUME TypeInv,
         \/ Closing \/ \E m \in Message : OtherAnswer(m)
         \/ \E m \in Message, k \in Keys : WorkerAnswer(m, k)
  PROVE  SameRows /\ UNCHANGED <<nextWorker, reaped>>
<1>1. ASSUME \A k \in Keys : Untouched(k) PROVE SameRows
      BY <1>1 DEF Untouched, SameRows
<1>2. ASSUME NEW m \in Message, NEW k \in Keys, WorkerAnswer(m, k) PROVE SameRows
  <2>1. /\ claims' = [claims EXCEPT ![k] = Completed(claims[k], Len(msgs) + 1)]
        /\ claims[k].state = "active"
        BY <1>2 DEF WorkerAnswer
  <2>2. \A l \in Keys : claims'[l] =
          IF l = k THEN Completed(claims[k], Len(msgs) + 1) ELSE claims[l]
        BY <2>1 DEF TypeInv, TypeOK
  <2> QED BY <2>1, <2>2 DEF SameRows, Completed
<1> QED BY <1>1, <1>2 DEF Closing, OtherAnswer, WorkerAnswer, Answer

LEMMA SameRowsIds ==
  ASSUME ReapedNumbered, WorkerIdsNeverReissued, SameRows,
         UNCHANGED <<nextWorker, reaped>>
  PROVE  ReapedNumbered' /\ WorkerIdsNeverReissued'
<1>1. \A r, a : LiveClaimsOf(r, a)' = LiveClaimsOf(r, a)
      BY DEF LiveClaimsOf, SameRows
<1>2. ReapedNumbered' BY DEF ReapedNumbered
<1>3. WorkerIdsNeverReissued' BY <1>1 DEF WorkerIdsNeverReissued, SameRows
<1> QED BY <1>2, <1>3

LEMMA ClaimingIds ==
  ASSUME TypeInv, ReapedNumbered, WorkerIdsNeverReissued,
         NEW k \in Keys, NEW n \in 1 .. MaxWorkers, Claiming(k, n)
  PROVE  ReapedNumbered' /\ WorkerIdsNeverReissued'
<1>1. CASE n = claims[k].n /\ claims[k].state # "none" /\ nextWorker' = nextWorker
  <2>1. SameRows /\ reaped' = reaped BY <1>1 DEF Claiming, SameRows
  <2> QED BY <1>1, <2>1, SameRowsIds
<1>2. CASE /\ claims[k].state = "none" /\ n = nextWorker[<<k[1], k[2]>>]
           /\ nextWorker' = [nextWorker EXCEPT ![<<k[1], k[2]>>] = n + 1]
  <2>1. /\ reaped' = reaped /\ claims'[k].n = n
        /\ \A l \in Keys \ {k} : claims'[l] = claims[l]
        BY DEF Claiming
  <2>2. <<k[1], k[2]>> \in Roles \X Sessions BY DEF Keys
  <2>3. \A b \in Roles \X Sessions : nextWorker[b] \in Nat
        BY DEF TypeInv, TypeOK
  <2>4. \A b \in Roles \X Sessions :
          nextWorker'[b] = IF b = <<k[1], k[2]>> THEN n + 1 ELSE nextWorker[b]
        BY <1>2 DEF TypeInv, TypeOK
  <2>5. \A x \in reaped : /\ x.role \in Roles /\ x.worker.session \in Sessions
                          /\ x.worker.n \in Nat
        BY DEF TypeInv, TypeOK
  <2>6. ReapedNumbered'
    <3> SUFFICES ASSUME NEW x \in reaped
                 PROVE  x.worker.n < nextWorker'[<<x.role, x.worker.session>>]
        BY <2>1 DEF ReapedNumbered
    <3>1. x.worker.n < nextWorker[<<x.role, x.worker.session>>] BY DEF ReapedNumbered
    <3>2. <<x.role, x.worker.session>> \in Roles \X Sessions BY <2>5
    <3> QED BY <1>2, <2>3, <2>4, <2>5, <3>1, <3>2
  <2>7. \A l \in Keys \ {k} :
          claims[l].state # "none" /\ l[1] = k[1] /\ l[2] = k[2] => claims[l].n # n
        BY <1>2 DEF TypeInv, ClaimsNumbered
  <2>8. \A x \in reaped : x.role = k[1] /\ x.worker.session = k[2] => x.worker.n # n
        BY <1>2, <2>5 DEF ReapedNumbered
  <2>9. \A i, j \in Keys :
          (/\ claims'[i].state # "none" /\ claims'[j].state # "none"
           /\ i[1] = j[1] /\ i[2] = j[2] /\ claims'[i].n = claims'[j].n) => i = j
    <3> SUFFICES ASSUME NEW i \in Keys, NEW j \in Keys,
                        claims'[i].state # "none", claims'[j].state # "none",
                        i[1] = j[1], i[2] = j[2], claims'[i].n = claims'[j].n
                 PROVE  i = j
        OBVIOUS
    <3>1. CASE i # k /\ j # k
          BY <2>1, <3>1 DEF WorkerIdsNeverReissued
    <3>2. CASE i = k /\ j # k BY <2>1, <2>7, <3>2
    <3>3. CASE i # k /\ j = k BY <2>1, <2>7, <3>3
    <3> QED BY <3>1, <3>2, <3>3
  <2>10. \A x \in reaped : LiveClaimsOf(x.role, x.worker)' = {}
    <3> SUFFICES ASSUME NEW x \in reaped, NEW l \in Keys,
                        l[1] = x.role, l[2] = x.worker.session,
                        claims'[l].state # "none", claims'[l].n = x.worker.n
                 PROVE  FALSE
        BY DEF LiveClaimsOf
    <3>1. CASE l = k BY <2>1, <2>8, <3>1
    <3>2. CASE l # k
      <4>1. claims'[l] = claims[l] BY <2>1, <3>2
      <4>2. l \in LiveClaimsOf(x.role, x.worker) BY <4>1 DEF LiveClaimsOf
      <4> QED BY <4>2 DEF WorkerIdsNeverReissued
    <3> QED BY <3>1, <3>2
  <2>11. WorkerIdsNeverReissued'
         BY <2>1, <2>9, <2>10 DEF WorkerIdsNeverReissued
  <2> QED BY <2>6, <2>11
<1> QED BY <1>1, <1>2 DEF Claiming

LEMMA ReapIds ==
  ASSUME TypeInv, ReapedNumbered, WorkerIdsNeverReissued,
         NEW K \in SUBSET ClosedKeys, ReapClaims(K)
  PROVE  ReapedNumbered' /\ WorkerIdsNeverReissued'
<1> DEFINE logged(k) ==
      [role |-> k[1], worker |-> Worker(k[2], claims[k].n), trigger |-> k[3]]
<1>1. /\ \A k \in Keys : claims'[k] = IF k \in K THEN NoClaim ELSE claims[k]
      /\ reaped' = reaped \cup {logged(k) : k \in K}
      /\ nextWorker' = nextWorker
      BY DEF ReapClaims
<1>2. \A k \in K : k \in Keys /\ claims[k].state # "none" BY DEF ClosedKeys
<1>3. \A k \in Keys : /\ logged(k).role = k[1] /\ logged(k).trigger = k[3]
                      /\ logged(k).worker.session = k[2]
                      /\ logged(k).worker.n = claims[k].n
                      /\ logged(k).worker = Worker(k[2], claims[k].n)
      BY DEF Worker
<1>4. \A k, l \in Keys :
        (/\ claims[k].state # "none" /\ claims[l].state # "none"
         /\ k[1] = l[1] /\ k[2] = l[2] /\ claims[k].n = claims[l].n) => k = l
      BY DEF WorkerIdsNeverReissued
<1> HIDE DEF logged
<1>5. ASSUME NEW x \in reaped'
      PROVE  x \in reaped \/ \E k \in K : x = logged(k)
      BY <1>1
<1>6. ReapedNumbered'
  <2> SUFFICES ASSUME NEW x \in reaped'
               PROVE  x.worker.n < nextWorker[<<x.role, x.worker.session>>]
      BY <1>1 DEF ReapedNumbered
  <2>1. CASE x \in reaped BY <2>1 DEF ReapedNumbered
  <2>2. CASE \E k \in K : x = logged(k)
    <3>1. PICK k \in K : x = logged(k) BY <2>2
    <3>2. claims[k].n < nextWorker[<<k[1], k[2]>>]
          BY <1>2 DEF TypeInv, ClaimsNumbered
    <3> QED BY <1>2, <1>3, <3>1, <3>2
  <2> QED BY <1>5, <2>1, <2>2
<1>7. \A k \in Keys : claims'[k].state # "none" => claims'[k] = claims[k] /\ k \notin K
      BY <1>1 DEF NoClaim
<1>8. \A k, l \in Keys :
        (/\ claims'[k].state # "none" /\ claims'[l].state # "none"
         /\ k[1] = l[1] /\ k[2] = l[2] /\ claims'[k].n = claims'[l].n) => k = l
      BY <1>4, <1>7
<1>9. \A x \in reaped' : LiveClaimsOf(x.role, x.worker)' = {}
  <2> SUFFICES ASSUME NEW x \in reaped', NEW l \in Keys,
                      l[1] = x.role, l[2] = x.worker.session,
                      claims'[l].state # "none", claims'[l].n = x.worker.n
               PROVE  FALSE
      BY DEF LiveClaimsOf
  <2>1. claims'[l] = claims[l] /\ l \notin K BY <1>7
  <2>2. CASE x \in reaped
    <3>1. l \in LiveClaimsOf(x.role, x.worker) BY <2>1 DEF LiveClaimsOf
    <3> QED BY <2>2, <3>1 DEF WorkerIdsNeverReissued
  <2>3. CASE \E k \in K : x = logged(k)
    <3>1. PICK k \in K : x = logged(k) BY <2>3
    <3>2. l = k BY <1>2, <1>3, <1>4, <2>1, <3>1
    <3> QED BY <2>1, <3>2
  <2> QED BY <1>5, <2>2, <2>3
<1>10. \A x, y \in reaped' : x.role = y.role /\ x.worker = y.worker => x = y
  <2> SUFFICES ASSUME NEW x \in reaped', NEW y \in reaped',
                      x.role = y.role, x.worker = y.worker
               PROVE  x = y
      OBVIOUS
  <2>1. CASE x \in reaped /\ y \in reaped BY <2>1 DEF WorkerIdsNeverReissued
  <2>2. ASSUME NEW z \in reaped, NEW k \in K,
               z.role = logged(k).role, z.worker = logged(k).worker
        PROVE  FALSE
    <3>1. k \in LiveClaimsOf(z.role, z.worker)
          BY <1>2, <1>3, <2>2 DEF LiveClaimsOf
    <3> QED BY <3>1 DEF WorkerIdsNeverReissued
  <2>3. CASE (\E k \in K : x = logged(k)) /\ (\E k \in K : y = logged(k))
    <3>1. PICK k \in K, l \in K : x = logged(k) /\ y = logged(l) BY <2>3
    <3>2. k[1] = l[1] /\ k[2] = l[2] /\ claims[k].n = claims[l].n
          BY <1>2, <1>3, <3>1
    <3> QED BY <1>2, <1>4, <3>1, <3>2
  <2> QED BY <1>5, <2>1, <2>2, <2>3
<1>11. WorkerIdsNeverReissued' BY <1>8, <1>9, <1>10 DEF WorkerIdsNeverReissued
<1> QED BY <1>6, <1>11

LEMMA ShapeIds ==
  ASSUME TypeInv, ReapedNumbered, WorkerIdsNeverReissued, Shape
  PROVE  ReapedNumbered' /\ WorkerIdsNeverReissued'
<1>1. CASE \/ Closing \/ \E m \in Message : OtherAnswer(m)
           \/ \E m \in Message, k \in Keys : WorkerAnswer(m, k)
  <2>1. SameRows /\ UNCHANGED <<nextWorker, reaped>> BY <1>1, AnswersKeepRows
  <2> QED BY <2>1, SameRowsIds
<1>2. CASE \E k \in Keys, n \in 1 .. MaxWorkers : Claiming(k, n) BY <1>2, ClaimingIds
<1>3. CASE \E K \in SUBSET ClosedKeys : ReapClaims(K) BY <1>3, ReapIds
<1> QED BY <1>1, <1>2, <1>3 DEF Shape

--------------------------------------------------------------------------------
(* Answers.                                                                *)

LEMMA Posted ==
  ASSUME TypeInv, NEW m \in Message, msgs' = Append(msgs, m)
  PROVE  /\ Len(msgs) \in Nat /\ Len(msgs') = Len(msgs) + 1
         /\ \A i \in 1 .. Len(msgs) : msgs'[i] = msgs[i]
         /\ msgs'[Len(msgs) + 1] = m
         /\ \A r, t : Terminals(r, t)' =
              Terminals(r, t) \cup
                (IF m.role = r /\ m.reply = t /\ m.kind \in TerminalKinds
                 THEN {Len(msgs) + 1} ELSE {})
<1>1. msgs \in Seq(Message) /\ Len(msgs) \in Nat BY DEF TypeInv, TypeOK
<1>2. Len(msgs') = Len(msgs) + 1 BY <1>1
<1>3. \A i \in 1 .. Len(msgs) : msgs'[i] = msgs[i] BY <1>1
<1>4. msgs'[Len(msgs) + 1] = m BY <1>1
<1>5. 1 .. Len(msgs') = (1 .. Len(msgs)) \cup {Len(msgs) + 1} BY <1>1, <1>2
<1>6. ASSUME NEW r, NEW t
      PROVE  Terminals(r, t)' =
               Terminals(r, t) \cup
                 (IF m.role = r /\ m.reply = t /\ m.kind \in TerminalKinds
                  THEN {Len(msgs) + 1} ELSE {})
      BY <1>3, <1>4, <1>5 DEF Terminals
<1> QED BY <1>1, <1>2, <1>3, <1>4, <1>6

\* Nothing answers a message that is not there yet.
LEMMA NothingAhead ==
  ASSUME TypeInv, RepliesBack, NEW r
  PROVE  Terminals(r, Len(msgs) + 1) = {}
<1>1. Len(msgs) \in Nat BY DEF TypeInv, TypeOK
<1> QED BY <1>1 DEF RepliesBack, Terminals

\* What a step that posts no answer leaves of the ledger.
LEMMA ClosingLedger ==
  ASSUME TypeInv, Closing
  PROVE  /\ Len(msgs) \in Nat /\ Len(msgs') \in {Len(msgs), Len(msgs) + 1}
         /\ \A i \in 1 .. Len(msgs) : msgs'[i] = msgs[i]
         /\ \A r, t : t # 0 => Terminals(r, t)' = Terminals(r, t)
<1>1. Len(msgs) \in Nat BY DEF TypeInv, TypeOK
<1>2. CASE msgs' = msgs BY <1>1, <1>2 DEF Terminals
<1>3. CASE \E m \in Message : msgs' = Append(msgs, m) /\ ~IsAnswer(m)
  <2>1. PICK m \in Message : msgs' = Append(msgs, m) /\ ~IsAnswer(m) BY <1>3
  <2>2. /\ Len(msgs') = Len(msgs) + 1
        /\ \A i \in 1 .. Len(msgs) : msgs'[i] = msgs[i]
        /\ \A r, t : Terminals(r, t)' =
             Terminals(r, t) \cup
               (IF m.role = r /\ m.reply = t /\ m.kind \in TerminalKinds
                THEN {Len(msgs) + 1} ELSE {})
        BY <2>1, Posted
  <2>3. \A r, t : t # 0 => Terminals(r, t)' = Terminals(r, t)
        BY <2>1, <2>2 DEF IsAnswer
  <2> QED BY <1>1, <2>2, <2>3
<1> QED BY <1>2, <1>3 DEF Closing

\* What an answer leaves of it.
LEMMA AnswerLedger ==
  ASSUME TypeInv, NEW m, Answer(m)
  PROVE  /\ Len(msgs) \in Nat /\ Len(msgs') = Len(msgs) + 1
         /\ \A i \in 1 .. Len(msgs) : msgs'[i] = msgs[i]
         /\ msgs'[Len(msgs) + 1] = m
         /\ Terminals(m.role, m.reply)' = Terminals(m.role, m.reply) \cup {Len(msgs) + 1}
         /\ \A r, t : r # m.role \/ t # m.reply => Terminals(r, t)' = Terminals(r, t)
<1>1. m \in Message /\ msgs' = Append(msgs, m) /\ m.kind \in TerminalKinds BY DEF Answer
<1>2. /\ Len(msgs) \in Nat /\ Len(msgs') = Len(msgs) + 1
      /\ \A i \in 1 .. Len(msgs) : msgs'[i] = msgs[i]
      /\ msgs'[Len(msgs) + 1] = m
      BY <1>1, Posted
<1>3. \A r, t : Terminals(r, t)' =
        Terminals(r, t) \cup
          (IF m.role = r /\ m.reply = t /\ m.kind \in TerminalKinds
           THEN {Len(msgs) + 1} ELSE {})
      BY <1>1, Posted
<1> QED BY <1>1, <1>2, <1>3

\* The ledger only grows, and replies look back.
LEMMA ShapeReplies ==
  ASSUME TypeInv, RepliesBack, Shape
  PROVE  RepliesBack'
<1>1. CASE UNCHANGED msgs BY <1>1 DEF RepliesBack
<1>2. CASE \E m \in Message : msgs' = Append(msgs, m) /\ m.reply \in 0 .. Len(msgs)
  <2>1. PICK m \in Message : msgs' = Append(msgs, m) /\ m.reply \in 0 .. Len(msgs)
        BY <1>2
  <2>2. /\ Len(msgs) \in Nat /\ Len(msgs') = Len(msgs) + 1
        /\ \A i \in 1 .. Len(msgs) : msgs'[i] = msgs[i]
        /\ msgs'[Len(msgs) + 1] = m
        BY <2>1, Posted
  <2>3. ASSUME NEW i \in 1 .. Len(msgs') PROVE msgs'[i].reply < i
    <3>1. CASE i \in 1 .. Len(msgs) BY <2>2, <3>1 DEF RepliesBack
    <3>2. CASE i = Len(msgs) + 1 BY <2>1, <2>2, <3>2
    <3> QED BY <2>2, <3>1, <3>2
  <2> QED BY <2>3 DEF RepliesBack
<1>3. Shape => \/ UNCHANGED msgs
               \/ \E m \in Message : msgs' = Append(msgs, m) /\ m.reply \in 0 .. Len(msgs)
  <2>1. Closing => \/ UNCHANGED msgs
                   \/ \E m \in Message :
                        msgs' = Append(msgs, m) /\ m.reply \in 0 .. Len(msgs)
        BY DEF Closing
  <2>2. \A m : Answer(m) =>
          m \in Message /\ msgs' = Append(msgs, m) /\ m.reply \in 0 .. Len(msgs)
        BY DEF Answer, TypeInv, TypeOK
  <2>3. (\E k \in Keys, n \in 1 .. MaxWorkers : Claiming(k, n)) => UNCHANGED msgs
        BY DEF Claiming
  <2>4. (\E K \in SUBSET ClosedKeys : ReapClaims(K)) => UNCHANGED msgs
        BY DEF ReapClaims
  <2> QED BY <2>1, <2>2, <2>3, <2>4 DEF Shape, WorkerAnswer, OtherAnswer
<1> QED BY <1>1, <1>2, <1>3

--------------------------------------------------------------------------------
(* Acknowledgements.                                                       *)

\* The answers of a worker are where they were.
LEMMA OwnTerminalsKept ==
  ASSUME NEW k \in Keys, Terminals(k[1], k[3])' = Terminals(k[1], k[3]),
         \A i \in 1 .. Len(msgs) : msgs'[i] = msgs[i], claims'[k].n = claims[k].n
  PROVE  OwnTerminals(k)' = OwnTerminals(k)
<1>1. Terminals(k[1], k[3]) \subseteq 1 .. Len(msgs) BY DEF Terminals
<1>2. \A i \in Terminals(k[1], k[3]) : msgs'[i] = msgs[i] BY <1>1
<1> QED BY <1>2 DEF OwnTerminals

\* The property, claim by claim.
Acked(k) ==
  /\ claims[k].ack # 0 =>
       claims[k].state = "completed" /\ claims[k].ack \in OwnTerminals(k)
  /\ claims[k].state # "none" =>
       \A i \in OwnTerminals(k) : claims[k].state = "completed" /\ claims[k].ack = i

LEMMA AckedEach == AckIsOwnAnswer <=> \A k \in Keys : Acked(k)
BY DEF AckIsOwnAnswer, Acked

LEMMA AckedEachNext == AckIsOwnAnswer' <=> \A k \in Keys : Acked(k)'
BY DEF AckIsOwnAnswer, Acked

LEMMA UntouchedAcked ==
  ASSUME NEW k \in Keys, Acked(k), Untouched(k), OwnTerminals(k)' = OwnTerminals(k)
  PROVE  Acked(k)'
<1>1. CASE claims'[k] = claims[k] BY <1>1 DEF Acked
<1>2. CASE /\ claims[k].state = "active" /\ claims'[k].ack = 0
  <2>1. OwnTerminals(k) = {} BY <1>2 DEF Acked
  <2> QED BY <1>2, <2>1 DEF Acked
<1> QED BY <1>1, <1>2 DEF Untouched

LEMMA ClosingAcks ==
  ASSUME TypeInv, AckIsOwnAnswer, Closing
  PROVE  AckIsOwnAnswer'
<1> SUFFICES ASSUME NEW k \in Keys PROVE Acked(k)' BY AckedEachNext
<1>1. Acked(k) BY AckedEach
<1>2. Untouched(k) /\ claims'[k].n = claims[k].n BY DEF Closing, Untouched
<1>3. k[3] # 0 BY DEF Keys, Msgs
<1>4. Terminals(k[1], k[3])' = Terminals(k[1], k[3])
      /\ \A i \in 1 .. Len(msgs) : msgs'[i] = msgs[i]
      BY <1>3, ClosingLedger
<1>5. OwnTerminals(k)' = OwnTerminals(k) BY <1>2, <1>4, OwnTerminalsKept
<1> QED BY <1>1, <1>2, <1>5, UntouchedAcked

LEMMA OtherAnswerAcks ==
  ASSUME TypeInv, AckIsOwnAnswer, NEW m \in Message, OtherAnswer(m)
  PROVE  AckIsOwnAnswer'
<1> SUFFICES ASSUME NEW k \in Keys PROVE Acked(k)' BY AckedEachNext
<1>1. Acked(k) BY AckedEach
<1>2. Untouched(k) /\ claims'[k].n = claims[k].n BY DEF OtherAnswer, Untouched
<1>3. /\ \A i \in 1 .. Len(msgs) : msgs'[i] = msgs[i]
      /\ msgs'[Len(msgs) + 1] = m
      /\ Terminals(m.role, m.reply)' = Terminals(m.role, m.reply) \cup {Len(msgs) + 1}
      /\ \A r, t : r # m.role \/ t # m.reply => Terminals(r, t)' = Terminals(r, t)
      BY AnswerLedger DEF OtherAnswer
<1>4. OwnTerminals(k)' = OwnTerminals(k)
  <2>1. CASE k[1] # m.role \/ k[3] # m.reply
    <3>1. Terminals(k[1], k[3])' = Terminals(k[1], k[3]) BY <1>3, <2>1
    <3> QED BY <1>2, <1>3, <3>1, OwnTerminalsKept
  <2>2. CASE k[1] = m.role /\ k[3] = m.reply
    <3>1. m.class # "worker" BY DEF OtherAnswer
    <3>2. Terminals(k[1], k[3]) \subseteq 1 .. Len(msgs) BY DEF Terminals
    <3>3. Terminals(k[1], k[3])' = Terminals(k[1], k[3]) \cup {Len(msgs) + 1}
          BY <1>3, <2>2
    <3> QED BY <1>2, <1>3, <3>1, <3>2, <3>3 DEF OwnTerminals
  <2> QED BY <2>1, <2>2
<1> QED BY <1>1, <1>2, <1>4, UntouchedAcked

LEMMA WorkerAnswerAcks ==
  ASSUME TypeInv, AckIsOwnAnswer, WorkerIdsNeverReissued,
         NEW m \in Message, NEW l \in Keys, WorkerAnswer(m, l)
  PROVE  AckIsOwnAnswer'
<1>1. /\ m.class = "worker" /\ l[1] = m.role /\ l[3] = m.reply
      /\ claims[l].state = "active" /\ m.author = Worker(l[2], claims[l].n)
      /\ claims' = [claims EXCEPT ![l] = Completed(claims[l], Len(msgs) + 1)]
      BY DEF WorkerAnswer
<1>2. /\ Len(msgs) \in Nat
      /\ \A i \in 1 .. Len(msgs) : msgs'[i] = msgs[i]
      /\ msgs'[Len(msgs) + 1] = m
      /\ Terminals(m.role, m.reply)' = Terminals(m.role, m.reply) \cup {Len(msgs) + 1}
      /\ \A r, t : r # m.role \/ t # m.reply => Terminals(r, t)' = Terminals(r, t)
      BY AnswerLedger DEF WorkerAnswer
<1>3. \A k \in Keys : claims'[k] = IF k = l THEN Completed(claims[l], Len(msgs) + 1)
                                            ELSE claims[k]
      BY <1>1 DEF TypeInv, TypeOK
<1>4. \A k \in Keys : claims'[k].n = claims[k].n BY <1>3 DEF Completed
<1>5. \A k \in Keys : Acked(k) BY AckedEach
<1>6. Terminals(l[1], l[3]) \subseteq 1 .. Len(msgs) BY DEF Terminals
<1>7. Acked(l)'
  <2>1. OwnTerminals(l) = {} BY <1>1, <1>5 DEF Acked
  <2>2. Terminals(l[1], l[3])' = Terminals(l[1], l[3]) \cup {Len(msgs) + 1}
        BY <1>1, <1>2
  <2>3. OwnTerminals(l)' = {Len(msgs) + 1}
        BY <1>1, <1>2, <1>4, <1>6, <2>1, <2>2 DEF OwnTerminals
  <2>4. claims'[l].state = "completed" /\ claims'[l].ack = Len(msgs) + 1
        BY <1>3 DEF Completed
  <2> QED BY <2>3, <2>4 DEF Acked
<1>8. ASSUME NEW k \in Keys \ {l} PROVE Acked(k)'
  <2>1. claims'[k] = claims[k] BY <1>3
  <2>2. CASE k[1] # m.role \/ k[3] # m.reply
    <3>1. Terminals(k[1], k[3])' = Terminals(k[1], k[3]) BY <1>2, <2>2
    <3>2. OwnTerminals(k)' = OwnTerminals(k)
          BY <1>2, <1>4, <3>1, OwnTerminalsKept
    <3> QED BY <1>5, <2>1, <3>2 DEF Acked
  <2>3. CASE k[1] = m.role /\ k[3] = m.reply
    <3>1. k[2] # l[2] BY <1>1, <2>3 DEF Keys
    <3>2. m.author # Worker(k[2], claims[k].n) BY <1>1, <3>1 DEF Worker
    <3>3. Terminals(k[1], k[3])' = Terminals(k[1], k[3]) \cup {Len(msgs) + 1}
          BY <1>2, <2>3
    <3>4. Terminals(k[1], k[3]) \subseteq 1 .. Len(msgs) BY DEF Terminals
    <3>5. OwnTerminals(k)' = OwnTerminals(k)
          BY <1>2, <2>1, <3>2, <3>3, <3>4 DEF OwnTerminals
    <3> QED BY <1>5, <2>1, <3>5 DEF Acked
  <2> QED BY <2>2, <2>3
<1> QED BY <1>7, <1>8, AckedEachNext

LEMMA ClaimingAcks ==
  ASSUME TypeInv, AckIsOwnAnswer, NEW l \in Keys, NEW n, Claiming(l, n)
  PROVE  AckIsOwnAnswer'
<1>1. /\ \A k \in Keys \ {l} : claims'[k] = claims[k]
      /\ claims'[l].state = "active" /\ claims'[l].ack = 0
      /\ msgs' = msgs
      /\ OwnershipClasses(l[1], l[3]) \cap {"parent", "worker", "legacy"} = {}
      BY DEF Claiming
<1>2. \A r, t : Terminals(r, t)' = Terminals(r, t) BY <1>1 DEF Terminals
<1>3. \A i \in Terminals(l[1], l[3]) : msgs[i].class # "worker"
      BY <1>1 DEF OwnershipClasses
<1>4. OwnTerminals(l)' = {} BY <1>1, <1>2, <1>3 DEF OwnTerminals
<1>5. Acked(l)' BY <1>1, <1>4 DEF Acked
<1>6. ASSUME NEW k \in Keys \ {l} PROVE Acked(k)'
  <2>1. OwnTerminals(k)' = OwnTerminals(k) BY <1>1, <1>2 DEF OwnTerminals
  <2> QED BY <1>1, <2>1, AckedEach DEF Acked
<1> QED BY <1>5, <1>6, AckedEachNext

LEMMA ReapAcks ==
  ASSUME TypeInv, AckIsOwnAnswer, NEW K \in SUBSET ClosedKeys, ReapClaims(K)
  PROVE  AckIsOwnAnswer'
<1>1. /\ \A k \in Keys : claims'[k] = IF k \in K THEN NoClaim ELSE claims[k]
      /\ msgs' = msgs
      BY DEF ReapClaims
<1> SUFFICES ASSUME NEW k \in Keys PROVE Acked(k)' BY AckedEachNext
<1>2. CASE k \in K BY <1>1, <1>2 DEF Acked, NoClaim
<1>3. CASE k \notin K
  <2>1. claims'[k] = claims[k] BY <1>1, <1>3
  <2>2. OwnTerminals(k)' = OwnTerminals(k) BY <1>1, <2>1 DEF OwnTerminals, Terminals
  <2> QED BY <2>1, <2>2, AckedEach DEF Acked
<1> QED BY <1>2, <1>3

LEMMA ShapeAcks ==
  ASSUME TypeInv, AckIsOwnAnswer, WorkerIdsNeverReissued, Shape
  PROVE  AckIsOwnAnswer'
BY ClosingAcks, OtherAnswerAcks, WorkerAnswerAcks, ClaimingAcks, ReapAcks DEF Shape

--------------------------------------------------------------------------------
(* The answers to one trigger.                                             *)

\* The three properties, trigger by trigger.
Answered(r, t) ==
  /\ (WorkerScoped(r, t) /\ ~OneShot(t)) =>
        AtMostOne(ByClass(r, t, "parent")) /\ AtMostOne(ByClass(r, t, "worker"))
  /\ OneShot(t) => AtMostOne({i \in Terminals(r, t) : msgs[i].class # "legacy"})
  /\ \A i \in ByClass(r, t, "parent") :
       /\ ActiveOnTrigger(r, t) = {}
       /\ \A j \in ByClass(r, t, "worker") : j < i

LEMMA AnsweredEach ==
  (OneTerminalPerClass /\ OneShotAnsweredOnce /\ ParentFinal)
     <=> \A r \in Roles, t \in 1 .. Len(msgs) : Answered(r, t)
BY DEF OneTerminalPerClass, OneShotAnsweredOnce, ParentFinal, Answered

LEMMA AnsweredEachNext ==
  (OneTerminalPerClass' /\ OneShotAnsweredOnce' /\ ParentFinal')
     <=> \A r \in Roles, t \in 1 .. Len(msgs') : Answered(r, t)'
BY DEF OneTerminalPerClass, OneShotAnsweredOnce, ParentFinal, Answered

\* Nobody has answered with an attribution.
Unanswered(r, t) == OwnershipClasses(r, t) \cap {"parent", "worker", "legacy"} = {}

LEMMA UnansweredClasses ==
  ASSUME NEW r, NEW t, Unanswered(r, t)
  PROVE  ByClass(r, t, "parent") = {} /\ ByClass(r, t, "worker") = {}
BY DEF Unanswered, OwnershipClasses, ByClass

\* A trigger whose answers did not change is as well answered as it was, unless a
\* claim appears on it although it had an answer.
LEMMA KeptAnswered ==
  ASSUME NEW r, NEW t \in 1 .. Len(msgs), Answered(r, t),
         Terminals(r, t)' = Terminals(r, t),
         \A i \in 1 .. Len(msgs) : msgs'[i] = msgs[i],
         WorkerScoped(r, t)' => WorkerScoped(r, t) \/ Unanswered(r, t),
         ActiveOnTrigger(r, t)' # {} => ActiveOnTrigger(r, t) # {} \/ Unanswered(r, t)
  PROVE  Answered(r, t)'
<1>1. Terminals(r, t) \subseteq 1 .. Len(msgs) BY DEF Terminals
<1>2. OneShot(t)' = OneShot(t) BY DEF OneShot
<1>3. \A c : ByClass(r, t, c)' = ByClass(r, t, c) BY <1>1 DEF ByClass
<1>4. {i \in Terminals(r, t)' : msgs'[i].class # "legacy"}
        = {i \in Terminals(r, t) : msgs[i].class # "legacy"}
      BY <1>1
<1>5. CASE Unanswered(r, t)
  <2>1. ByClass(r, t, "parent") = {} /\ ByClass(r, t, "worker") = {}
        BY <1>5, UnansweredClasses
  <2> QED BY <1>2, <1>3, <1>4, <2>1 DEF Answered, AtMostOne
<1>6. CASE ~Unanswered(r, t)
  <2>1. WorkerScoped(r, t)' => WorkerScoped(r, t) BY <1>6
  <2>2. ActiveOnTrigger(r, t) = {} => ActiveOnTrigger(r, t)' = {} BY <1>6
  <2>3. (WorkerScoped(r, t)' /\ ~OneShot(t)') =>
          AtMostOne(ByClass(r, t, "parent")') /\ AtMostOne(ByClass(r, t, "worker")')
        BY <1>2, <1>3, <2>1 DEF Answered
  <2>4. OneShot(t)' => AtMostOne({i \in Terminals(r, t)' : msgs'[i].class # "legacy"})
        BY <1>2, <1>4 DEF Answered
  <2>5. \A i \in ByClass(r, t, "parent")' :
          /\ ActiveOnTrigger(r, t)' = {}
          /\ \A j \in ByClass(r, t, "worker")' : j < i
        BY <1>3, <2>2 DEF Answered
  <2> QED BY <2>3, <2>4, <2>5 DEF Answered, AtMostOne
<1> QED BY <1>5, <1>6

\* With no answers there is nothing to say.
LEMMA NoAnswers ==
  ASSUME NEW r, NEW t, Terminals(r, t)' = {}
  PROVE  Answered(r, t)'
BY DEF Answered, ByClass, AtMostOne

\* A step grows the ledger by one message at most, which nothing answers yet.
LEMMA ShapeLedger ==
  ASSUME TypeInv, RepliesBack, Shape
  PROVE  /\ Len(msgs) \in Nat /\ Len(msgs') \in {Len(msgs), Len(msgs) + 1}
         /\ \A i \in 1 .. Len(msgs) : msgs'[i] = msgs[i]
         /\ \A r, t : t \in 1 .. Len(msgs') /\ t \notin 1 .. Len(msgs)
                        => Terminals(r, t)' = {}
<1>1. Len(msgs) \in Nat BY DEF TypeInv, TypeOK
<1>2. \/ msgs' = msgs
      \/ Closing
      \/ \E m : Answer(m)
      BY DEF Shape, WorkerAnswer, OtherAnswer, Claiming, ReapClaims
<1>3. Len(msgs') \in {Len(msgs), Len(msgs) + 1}
      /\ \A i \in 1 .. Len(msgs) : msgs'[i] = msgs[i]
      BY <1>1, <1>2, ClosingLedger, AnswerLedger
<1>4. RepliesBack' BY ShapeReplies
<1>5. ASSUME NEW r, NEW t, t \in 1 .. Len(msgs'), t \notin 1 .. Len(msgs)
      PROVE  Terminals(r, t)' = {}
  <2>1. t = Len(msgs') BY <1>1, <1>3, <1>5
  <2>2. \A i \in 1 .. Len(msgs') : msgs'[i].reply < i BY <1>4 DEF RepliesBack
  <2>3. Len(msgs') \in Nat BY <1>1, <1>3
  <2> QED BY <2>1, <2>2, <2>3 DEF Terminals
<1> QED BY <1>1, <1>3, <1>5

\* Rows that stay keep a trigger worker-scoped, or not.
LEMMA SameRowsScope ==
  ASSUME SameRows, reaped' = reaped, NEW r, NEW t,
         "worker" \in OwnershipClasses(r, t)' => WorkerScoped(r, t)
  PROVE  WorkerScoped(r, t)' => WorkerScoped(r, t)
BY DEF SameRows, WorkerScoped

LEMMA ClassesKept ==
  ASSUME NEW r, NEW t, Terminals(r, t)' = Terminals(r, t),
         \A i \in 1 .. Len(msgs) : msgs'[i] = msgs[i]
  PROVE  OwnershipClasses(r, t)' = OwnershipClasses(r, t)
BY DEF OwnershipClasses, Terminals

\* Closing a claim, or leaving it alone, makes nothing active.
LEMMA UntouchedActive ==
  ASSUME \A k \in Keys : Untouched(k), NEW r, NEW t
  PROVE  ActiveOnTrigger(r, t)' \subseteq ActiveOnTrigger(r, t)
BY DEF Untouched, ActiveOnTrigger

LEMMA ClosingAnswered ==
  ASSUME TypeInv, Closing, NEW r, NEW t \in 1 .. Len(msgs), Answered(r, t)
  PROVE  Answered(r, t)'
<1>1. /\ \A i \in 1 .. Len(msgs) : msgs'[i] = msgs[i]
      /\ Terminals(r, t)' = Terminals(r, t)
      BY ClosingLedger
<1>2. OwnershipClasses(r, t)' = OwnershipClasses(r, t) BY <1>1, ClassesKept
<1>3. "worker" \in OwnershipClasses(r, t)' => WorkerScoped(r, t)
      BY <1>2 DEF WorkerScoped
<1>4. SameRows /\ reaped' = reaped BY AnswersKeepRows
<1>5. WorkerScoped(r, t)' => WorkerScoped(r, t) BY <1>3, <1>4, SameRowsScope
<1>6. ActiveOnTrigger(r, t)' \subseteq ActiveOnTrigger(r, t)
      BY UntouchedActive DEF Closing
<1> QED BY <1>1, <1>5, <1>6, KeptAnswered

\* The answer of a worker to its own trigger.
LEMMA WorkerAnswered ==
  ASSUME TypeInv, NEW m \in Message, NEW k \in Keys, WorkerAnswer(m, k),
         Answered(m.role, m.reply)
  PROVE  Answered(m.role, m.reply)'
<1> DEFINE r == m.role
           t == m.reply
           new == Len(msgs) + 1
<1>1. /\ m.class = "worker" /\ k[1] = r /\ k[3] = t /\ claims[k].state = "active"
      /\ SlotFree(r, t, m.class) /\ t \in 1 .. Len(msgs)
      BY DEF WorkerAnswer, Answer
<1>2. /\ Len(msgs) \in Nat
      /\ \A i \in 1 .. Len(msgs) : msgs'[i] = msgs[i]
      /\ msgs'[new] = m
      /\ Terminals(r, t)' = Terminals(r, t) \cup {new}
      BY AnswerLedger DEF WorkerAnswer
<1>3. Terminals(r, t) \subseteq 1 .. Len(msgs) BY DEF Terminals
<1>4. OneShot(t)' = OneShot(t) BY <1>1, <1>2 DEF OneShot
<1>5. k \in ActiveOnTrigger(r, t) /\ WorkerScoped(r, t)
      BY <1>1 DEF ActiveOnTrigger, WorkerScoped
<1>6. ByClass(r, t, "parent") = {} BY <1>5 DEF Answered
<1> HIDE DEF r, t, new
<1>7. ByClass(r, t, "worker") = {}
      BY <1>1, <1>5 DEF SlotFree, OwnershipClasses, ByClass
<1>8. ByClass(r, t, "parent")' = {}
      BY <1>1, <1>2, <1>3, <1>6 DEF ByClass
<1>9. ByClass(r, t, "worker")' \subseteq {new}
      BY <1>1, <1>2, <1>3, <1>7 DEF ByClass
<1>10. OneShot(t) => Terminals(r, t)' = {new}
      BY <1>1, <1>2 DEF SlotFree
<1>11. Answered(r, t)'
  <2>1. AtMostOne(ByClass(r, t, "parent")') /\ AtMostOne(ByClass(r, t, "worker")')
        BY <1>8, <1>9 DEF AtMostOne
  <2>2. OneShot(t)' => AtMostOne({i \in Terminals(r, t)' : msgs'[i].class # "legacy"})
        BY <1>4, <1>10 DEF AtMostOne
  <2> QED BY <1>8, <2>1, <2>2 DEF Answered, AtMostOne
<1> QED BY <1>11 DEF r, t

\* The answer of anybody else.
LEMMA OtherAnswered ==
  ASSUME TypeInv, NEW m \in Message, OtherAnswer(m), Answered(m.role, m.reply)
  PROVE  Answered(m.role, m.reply)'
<1> DEFINE r == m.role
           t == m.reply
           new == Len(msgs) + 1
<1>1. /\ m.class \in {"parent", "unattributed"}
      /\ SlotFree(r, t, m.class) /\ t \in 1 .. Len(msgs)
      /\ \A k \in Keys : Untouched(k)
      /\ m.class = "parent" =>
           \A k \in Keys : k[1] = r /\ k[3] = t => claims'[k].state # "active"
      BY DEF OtherAnswer, Answer
<1>2. /\ Len(msgs) \in Nat
      /\ \A i \in 1 .. Len(msgs) : msgs'[i] = msgs[i]
      /\ msgs'[new] = m
      /\ Terminals(r, t)' = Terminals(r, t) \cup {new}
      BY AnswerLedger DEF OtherAnswer
<1>3. Terminals(r, t) \subseteq 1 .. Len(msgs) BY DEF Terminals
<1>4. OneShot(t)' = OneShot(t) BY <1>1, <1>2 DEF OneShot
<1>a. SameRows /\ reaped' = reaped BY AnswersKeepRows
<1>b. ActiveOnTrigger(r, t)' \subseteq ActiveOnTrigger(r, t) BY <1>1, UntouchedActive
<1>c. Answered(r, t) OBVIOUS
<1> HIDE DEF r, t, new
<1>5. ByClass(r, t, "worker")' = ByClass(r, t, "worker")
      BY <1>1, <1>2, <1>3 DEF ByClass
<1>6. ByClass(r, t, "parent")'
        = ByClass(r, t, "parent") \cup (IF m.class = "parent" THEN {new} ELSE {})
      BY <1>1, <1>2, <1>3 DEF ByClass
<1>7. WorkerScoped(r, t)' => WorkerScoped(r, t)
  <2>1. "worker" \in OwnershipClasses(r, t)' => "worker" \in OwnershipClasses(r, t)
        BY <1>5 DEF OwnershipClasses, ByClass
  <2> QED BY <1>a, <2>1, SameRowsScope DEF WorkerScoped
<1>8. OneShot(t) => Terminals(r, t)' = {new}
      BY <1>1, <1>2 DEF SlotFree
<1>9. WorkerScoped(r, t) /\ ~OneShot(t) /\ m.class = "parent"
        => ByClass(r, t, "parent") = {}
      BY <1>1 DEF SlotFree, OwnershipClasses, ByClass
<1>10. (WorkerScoped(r, t)' /\ ~OneShot(t)') =>
          AtMostOne(ByClass(r, t, "parent")') /\ AtMostOne(ByClass(r, t, "worker")')
  <2> SUFFICES ASSUME WorkerScoped(r, t), ~OneShot(t)
               PROVE  /\ AtMostOne(ByClass(r, t, "parent")')
                      /\ AtMostOne(ByClass(r, t, "worker")')
      BY <1>4, <1>7
  <2>1. AtMostOne(ByClass(r, t, "parent")) /\ AtMostOne(ByClass(r, t, "worker"))
        BY <1>c DEF Answered
  <2>2. AtMostOne(ByClass(r, t, "parent")') BY <1>6, <1>9, <2>1 DEF AtMostOne
  <2> QED BY <1>5, <2>1, <2>2
<1>11. OneShot(t)' => AtMostOne({i \in Terminals(r, t)' : msgs'[i].class # "legacy"})
      BY <1>4, <1>8 DEF AtMostOne
<1>12. ASSUME NEW i \in ByClass(r, t, "parent")'
       PROVE  /\ ActiveOnTrigger(r, t)' = {}
              /\ \A j \in ByClass(r, t, "worker")' : j < i
  <2>1. CASE i \in ByClass(r, t, "parent")
    <3>1. /\ ActiveOnTrigger(r, t) = {}
          /\ \A j \in ByClass(r, t, "worker") : j < i
          BY <1>c, <2>1 DEF Answered
    <3> QED BY <1>5, <1>b, <3>1
  <2>2. CASE i = new /\ m.class = "parent"
    <3>1. ActiveOnTrigger(r, t)' = {} BY <1>1, <2>2 DEF ActiveOnTrigger
    <3>2. \A j \in ByClass(r, t, "worker") : j < new
          BY <1>2, <1>3 DEF ByClass, new
    <3> QED BY <1>5, <2>2, <3>1, <3>2
  <2> QED BY <1>6, <2>1, <2>2
<1>13. Answered(r, t)' BY <1>10, <1>11, <1>12 DEF Answered, AtMostOne
<1> QED BY <1>13 DEF r, t

LEMMA AnswerAnswered ==
  ASSUME TypeInv, NEW m \in Message, NEW r, NEW t \in 1 .. Len(msgs), Answered(r, t),
         \/ OtherAnswer(m)
         \/ \E k \in Keys : WorkerAnswer(m, k)
  PROVE  Answered(r, t)'
<1>1. CASE r = m.role /\ t = m.reply BY <1>1, OtherAnswered, WorkerAnswered
<1>2. CASE r # m.role \/ t # m.reply
  <2>1. Answer(m) BY DEF OtherAnswer, WorkerAnswer
  <2>2. /\ \A i \in 1 .. Len(msgs) : msgs'[i] = msgs[i]
        /\ Terminals(r, t)' = Terminals(r, t)
        BY <1>2, <2>1, AnswerLedger
  <2>3. OwnershipClasses(r, t)' = OwnershipClasses(r, t) BY <2>2, ClassesKept
  <2>4. SameRows /\ reaped' = reaped BY AnswersKeepRows
  <2>5. WorkerScoped(r, t)' => WorkerScoped(r, t)
        BY <2>3, <2>4, SameRowsScope DEF WorkerScoped
  <2>6. ActiveOnTrigger(r, t)' \subseteq ActiveOnTrigger(r, t)
    <3>1. CASE OtherAnswer(m) BY <3>1, UntouchedActive DEF OtherAnswer
    <3>2. CASE \E k \in Keys : WorkerAnswer(m, k)
      <4>1. PICK k \in Keys : WorkerAnswer(m, k) BY <3>2
      <4>2. claims' = [claims EXCEPT ![k] = Completed(claims[k], Len(msgs) + 1)]
            BY <4>1 DEF WorkerAnswer
      <4>3. \A l \in Keys : claims'[l] =
              IF l = k THEN Completed(claims[k], Len(msgs) + 1) ELSE claims[l]
            BY <4>2 DEF TypeInv, TypeOK
      <4> QED BY <4>3 DEF ActiveOnTrigger, Completed
    <3> QED BY <3>1, <3>2
  <2> QED BY <2>2, <2>5, <2>6, KeptAnswered
<1> QED BY <1>1, <1>2

LEMMA ClaimingAnswered ==
  ASSUME TypeInv, NEW k \in Keys, NEW n \in 1 .. MaxWorkers, Claiming(k, n),
         NEW r, NEW t \in 1 .. Len(msgs), Answered(r, t)
  PROVE  Answered(r, t)'
<1>1. /\ msgs' = msgs /\ reaped' = reaped
      /\ \A l \in Keys \ {k} : claims'[l] = claims[l]
      /\ Unanswered(k[1], k[3])
      BY DEF Claiming, Unanswered
<1>2. Terminals(r, t)' = Terminals(r, t) BY <1>1 DEF Terminals
<1>3. OwnershipClasses(r, t)' = OwnershipClasses(r, t) BY <1>1, <1>2, ClassesKept
<1>4. CASE r = k[1] /\ t = k[3]
  <2>1. Unanswered(r, t) BY <1>1, <1>4
  <2> QED BY <1>1, <1>2, <2>1, KeptAnswered
<1>5. CASE r # k[1] \/ t # k[3]
  <2>1. \A l \in Keys : l[1] = r /\ l[3] = t => claims'[l] = claims[l]
        BY <1>1, <1>5
  <2>2. WorkerScoped(r, t)' => WorkerScoped(r, t)
        BY <1>1, <1>3, <2>1 DEF WorkerScoped
  <2>3. ActiveOnTrigger(r, t)' = ActiveOnTrigger(r, t)
        BY <2>1 DEF ActiveOnTrigger
  <2> QED BY <1>1, <1>2, <2>2, <2>3, KeptAnswered
<1> QED BY <1>4, <1>5

\* The log remembers which triggers were worker-scoped.
LEMMA ReapAnswered ==
  ASSUME TypeInv, NEW K \in SUBSET ClosedKeys, ReapClaims(K),
         NEW r, NEW t \in 1 .. Len(msgs), Answered(r, t)
  PROVE  Answered(r, t)'
<1> DEFINE logged(k) ==
      [role |-> k[1], worker |-> Worker(k[2], claims[k].n), trigger |-> k[3]]
<1>1. /\ msgs' = msgs
      /\ \A k \in Keys : claims'[k] = IF k \in K THEN NoClaim ELSE claims[k]
      /\ reaped' = reaped \cup {logged(k) : k \in K}
      BY DEF ReapClaims
<1>2. Terminals(r, t)' = Terminals(r, t) BY <1>1 DEF Terminals
<1>3. OwnershipClasses(r, t)' = OwnershipClasses(r, t) BY <1>1, <1>2, ClassesKept
<1>4. \A k \in K : k \in Keys /\ claims[k].state # "none" BY DEF ClosedKeys
<1>5. \A k \in Keys : claims'[k].state # "none" => claims'[k] = claims[k]
      BY <1>1 DEF NoClaim
<1>6. \A x \in reaped' : x \in reaped \/ \E k \in K : x.role = k[1] /\ x.trigger = k[3]
      BY <1>1
<1>7. WorkerScoped(r, t)' => WorkerScoped(r, t)
      BY <1>3, <1>4, <1>5, <1>6 DEF WorkerScoped
<1>8. ActiveOnTrigger(r, t)' \subseteq ActiveOnTrigger(r, t)
      BY <1>5 DEF ActiveOnTrigger
<1> QED BY <1>1, <1>2, <1>7, <1>8, KeptAnswered

LEMMA ShapeAnswered ==
  ASSUME TypeInv, RepliesBack, Shape,
         OneTerminalPerClass, OneShotAnsweredOnce, ParentFinal
  PROVE  OneTerminalPerClass' /\ OneShotAnsweredOnce' /\ ParentFinal'
<1> SUFFICES ASSUME NEW r \in Roles, NEW t \in 1 .. Len(msgs') PROVE Answered(r, t)'
    BY AnsweredEachNext
<1>1. CASE t \notin 1 .. Len(msgs)
  <2>1. Terminals(r, t)' = {} BY <1>1, ShapeLedger
  <2> QED BY <2>1, NoAnswers
<1>2. CASE t \in 1 .. Len(msgs)
  <2>1. Answered(r, t) BY <1>2, AnsweredEach
  <2> QED BY <1>2, <2>1, ClosingAnswered, AnswerAnswered, ClaimingAnswered, ReapAnswered
          DEF Shape
<1> QED BY <1>1, <1>2

--------------------------------------------------------------------------------
(* The theorems.                                                           *)

LEMMA InitAnswers == Init => AnswersInv
<1> SUFFICES ASSUME Init PROVE AnswersInv OBVIOUS
<1> USE LegacyAssumption
<1>1. /\ TypeInv /\ msgs = LegacyLedger /\ reaped = {}
      /\ \A k \in Keys : claims[k].state = "none" /\ claims[k].ack = 0
      BY InitType DEF Init, NoClaim
<1>2. \A i \in 1 .. Len(msgs) : msgs[i].class = "legacy" /\ msgs[i].reply < i
      BY <1>1
<1>3. ReapedNumbered /\ RepliesBack BY <1>1, <1>2 DEF ReapedNumbered, RepliesBack
<1>4. WorkerIdsNeverReissued BY <1>1 DEF WorkerIdsNeverReissued
<1>5. AckIsOwnAnswer BY <1>1 DEF AckIsOwnAnswer
<1>6. ASSUME NEW r \in Roles, NEW t \in 1 .. Len(msgs) PROVE Answered(r, t)
  <2>1. \A i \in Terminals(r, t) : msgs[i].class = "legacy" BY <1>2 DEF Terminals
  <2>2. ByClass(r, t, "parent") = {} /\ ByClass(r, t, "worker") = {}
        BY <2>1 DEF ByClass
  <2>3. {i \in Terminals(r, t) : msgs[i].class # "legacy"} = {} BY <2>1
  <2> QED BY <2>2, <2>3 DEF Answered, AtMostOne
<1>7. OneTerminalPerClass /\ OneShotAnsweredOnce /\ ParentFinal BY <1>6, AnsweredEach
<1> QED BY <1>1, <1>3, <1>4, <1>5, <1>7 DEF AnswersInv

LEMMA StepAnswers == AnswersInv /\ [Next]_vars => AnswersInv'
<1> SUFFICES ASSUME AnswersInv, [Next]_vars PROVE AnswersInv' OBVIOUS
<1>1. /\ TypeInv /\ ReapedNumbered /\ WorkerIdsNeverReissued /\ RepliesBack
      /\ AckIsOwnAnswer /\ OneTerminalPerClass /\ OneShotAnsweredOnce /\ ParentFinal
      BY DEF AnswersInv
<1>2. Shape BY StepShape
<1>3. TypeInv' BY <1>1, StepType
<1>4. ReapedNumbered' /\ WorkerIdsNeverReissued' BY <1>1, <1>2, ShapeIds
<1>5. RepliesBack' BY <1>1, <1>2, ShapeReplies
<1>6. AckIsOwnAnswer' BY <1>1, <1>2, ShapeAcks
<1>7. OneTerminalPerClass' /\ OneShotAnsweredOnce' /\ ParentFinal'
      BY <1>1, <1>2, ShapeAnswered
<1> QED BY <1>3, <1>4, <1>5, <1>6, <1>7 DEF AnswersInv

LEMMA Answers == Spec => []AnswersInv
BY InitAnswers, StepAnswers, PTL DEF Spec

\* A worker id names one worker for good: neither a requeue nor the reaper frees a
\* number, because the counter outlives the claims.
THEOREM WorkerIdsUnique == Spec => []WorkerIdsNeverReissued
<1>1. AnswersInv => WorkerIdsNeverReissued BY DEF AnswersInv
<1> QED BY <1>1, Answers, PTL

\* A claim is closed with its own worker's answer, and a worker's answer closes its
\* claim, whatever sweeps, requeues and posts come in between.
THEOREM AcksAreOwn == Spec => []AckIsOwnAnswer
<1>1. AnswersInv => AckIsOwnAnswer BY DEF AnswersInv
<1> QED BY <1>1, Answers, PTL

\* A role that involved a worker answers a trigger once as parent and once as
\* worker at most.
THEOREM OneAnswerPerClass == Spec => []OneTerminalPerClass
<1>1. AnswersInv => OneTerminalPerClass BY DEF AnswersInv
<1> QED BY <1>1, Answers, PTL

\* A non-standing DECISION gets one answer from a role.
THEOREM OneShotOnce == Spec => []OneShotAnsweredOnce
<1>1. AnswersInv => OneShotAnsweredOnce BY DEF AnswersInv
<1> QED BY <1>1, Answers, PTL

\* The parent's answer is the last word: no worker runs on the trigger afterwards,
\* and none answers it.
THEOREM ParentsAreFinal == Spec => []ParentFinal
<1>1. AnswersInv => ParentFinal BY DEF AnswersInv
<1> QED BY <1>1, Answers, PTL

\* No step reopens a completed claim.
LEMMA ShapeCompleted ==
  ASSUME TypeInv, Shape, NEW k \in Keys, claims[k].state = "completed"
  PROVE  claims'[k] = claims[k] \/ claims'[k].state = "none"
<1>1. CASE Untouched(k) BY <1>1 DEF Untouched
<1>2. ASSUME NEW m \in Message, NEW l \in Keys, WorkerAnswer(m, l)
      PROVE  claims'[k] = claims[k]
  <2>1. /\ claims' = [claims EXCEPT ![l] = Completed(claims[l], Len(msgs) + 1)]
        /\ claims[l].state = "active"
        BY <1>2 DEF WorkerAnswer
  <2>2. k # l BY <2>1
  <2> QED BY <2>1, <2>2 DEF TypeInv, TypeOK
<1>3. ASSUME NEW l \in Keys, NEW n, Claiming(l, n)
      PROVE  claims'[k] = claims[k]
  <2>1. k # l BY <1>3 DEF Claiming
  <2> QED BY <1>3, <2>1 DEF Claiming
<1>4. ASSUME NEW K \in SUBSET ClosedKeys, ReapClaims(K)
      PROVE  claims'[k] = claims[k] \/ claims'[k].state = "none"
      BY <1>4 DEF ReapClaims, NoClaim
<1> QED BY <1>1, <1>2, <1>3, <1>4 DEF Shape, Closing, OtherAnswer

\* Work that was acknowledged or declined is never reopened; the reaper alone
\* removes it.
THEOREM CompletedClaimsStay == Spec => CompletedStaysClosed
<1>1. AnswersInv /\ [Next]_vars
        => [\A k \in Keys : claims[k].state = "completed" =>
              \/ claims'[k] = claims[k]
              \/ claims'[k].state = "none"]_vars
  <2> SUFFICES ASSUME AnswersInv, [Next]_vars, NEW k \in Keys,
                      claims[k].state = "completed"
               PROVE  claims'[k] = claims[k] \/ claims'[k].state = "none"
      OBVIOUS
  <2>1. Shape BY StepShape
  <2>2. TypeInv BY DEF AnswersInv
  <2> QED BY <2>1, <2>2, ShapeCompleted
<1> QED BY <1>1, Answers, PTL DEF Spec, CompletedStaysClosed
--------------------------------------------------------------------------------
(* The RESOLVED gate                                                       *)

\* A row that is no question opens none.
LEMMA RowOpensNothing ==
  ASSUME TypeOK, BlockingQuestions = {}, NEW m \in Message, m.kind # "Q",
         msgs' = Append(msgs, m)
  PROVE  BlockingQuestions' = {}
<1> SUFFICES ASSUME NEW q \in BlockingQuestions' PROVE FALSE OBVIOUS
<1>1. msgs \in Seq(Message) BY DEF TypeOK
<1>2. /\ Len(msgs') = Len(msgs) + 1 /\ msgs'[Len(msgs) + 1] = m
      /\ \A i \in 1 .. Len(msgs) : msgs'[i] = msgs[i]
      BY <1>1
<1>3. /\ q \in 1 .. Len(msgs') /\ msgs'[q].kind = "Q"
      /\ ~\E a \in 1 .. Len(msgs') : msgs'[a].kind = "A" /\ msgs'[a].reply = q
      BY DEF BlockingQuestions
<1>4. Len(msgs) \in Nat BY <1>1
<1>5. q \in 1 .. Len(msgs) BY <1>2, <1>3, <1>4
<1>6. msgs[q].kind = "Q" BY <1>2, <1>3, <1>5
<1>7. PICK a \in 1 .. Len(msgs) : msgs[a].kind = "A" /\ msgs[a].reply = q
      BY <1>5, <1>6 DEF BlockingQuestions
<1>8. a \in 1 .. Len(msgs') /\ msgs'[a] = msgs[a] BY <1>2, <1>4, <1>7
<1> QED BY <1>3, <1>7, <1>8

\* A STATE row is a message, and no question.
LEMMA StateRowStores ==
  ASSUME TypeOK, NEW f \in Forms, NEW a \in Callers, NEW new \in TopicStates,
         StateRow(f, a, new)
  PROVE  \E m \in Message : m.kind # "Q" /\ msgs' = Append(msgs, m)
<1>1. PICK by \in StoredAuthors(f.role, a), class \in Classes :
        msgs' = Append(msgs, Row(f, 0, by, class))
      BY DEF StateRow
<1>2. Row(f, 0, by, class) \in Message
  <2>1. 0 \in 0 .. Len(msgs) BY DEF TypeOK
  <2> QED BY <1>1, <2>1, RowType
<1>3. Row(f, 0, by, class).kind # "Q" BY DEF Row, StateRow
<1> QED BY <1>1, <1>2, <1>3

\* Only transition_state resolves the topic: no STATE row does that says RESOLVED and
\* is posted as a message.
ByTheGate ==
  topic # "RESOLVED" /\ topic' = "RESOLVED" =>
    \E f \in Forms, a \in Callers : TransitionState(f, a, "RESOLVED")

LEMMA GateStep ==
  ASSUME TypeOK, ResolvedMeansAnswered, [Next]_vars, ByTheGate \/ UNCHANGED vars
  PROVE  ResolvedMeansAnswered'
<1> SUFFICES ASSUME topic' \in {"RESOLVED", "ARCHIVED"} PROVE BlockingQuestions' = {}
    BY DEF ResolvedMeansAnswered
<1>1. CASE topic' = topic /\ msgs' = msgs
  BY <1>1 DEF ResolvedMeansAnswered, BlockingQuestions
<1>2. ASSUME NEW f \in Forms, NEW a \in Callers, NEW new \in TopicStates,
             PostState(f, a, new) \/ TransitionState(f, a, new)
      PROVE  BlockingQuestions' = {}
  <2>1. StateRow(f, a, new) BY <1>2 DEF PostState, TransitionState
  <2>2. topic' = new /\ new \in NextState[topic] BY <2>1 DEF StateRow
  <2>3. BlockingQuestions = {}
    <3>1. CASE topic = "RESOLVED" BY <3>1 DEF ResolvedMeansAnswered
    <3>2. CASE topic # "RESOLVED" /\ new = "RESOLVED"
      <4>1. topic' # topic BY <2>2, <3>2
      <4>2. ByTheGate BY <4>1 DEF vars
      <4>3. PICK g \in Forms, b \in Callers : TransitionState(g, b, "RESOLVED")
            BY <2>2, <3>2, <4>2 DEF ByTheGate
      <4> QED BY <4>3 DEF TransitionState
    <3>3. CASE new = "ARCHIVED"
      <4>1. topic \in {"INIT", "ACTIVE", "RESOLVED", "ARCHIVED"}
            BY DEF TypeOK, TopicStates
      <4>2. topic = "RESOLVED" BY <2>2, <3>3, <4>1 DEF NextState
      <4> QED BY <4>2 DEF ResolvedMeansAnswered
    <3> QED BY <2>2, <3>1, <3>2, <3>3
  <2>4. PICK m \in Message : m.kind # "Q" /\ msgs' = Append(msgs, m)
        BY <2>1, StateRowStores
  <2> QED BY <2>3, <2>4, RowOpensNothing
<1>3. ASSUME NEW f \in Forms, NEW a \in Callers, NEW t \in 0 .. Len(msgs), Post(f, a, t)
      PROVE  FALSE
  BY <1>3 DEF Post
<1>4. CASE Next
  BY <1>1, <1>2, <1>3, <1>4
  DEF Next, BindActive, BindDiagnostic, BindRetired, Unseat, ClaimWorker, RequeueWorker,
      WorkerNoAction, RecoverStale, ReapClaims
<1>5. CASE UNCHANGED vars BY <1>1, <1>5 DEF vars
<1> QED BY <1>4, <1>5

\* RESOLVED means every question has an answer (docs/DEBATE_PROTOCOL.md) in every
\* behaviour in which the topic is resolved by transition_state alone: the only way
\* around its gate is a STATE row posted as a message, which post_message takes for
\* a transition; archiving, answers and bindings add none.  The run ownership_gate
\* shows that way.
THEOREM ResolvedByTheGate ==
  Spec /\ [][ByTheGate]_vars => []ResolvedMeansAnswered
<1>1. Init => ResolvedMeansAnswered BY DEF Init, ResolvedMeansAnswered
<1>2. TypeInv /\ ResolvedMeansAnswered /\ [Next]_vars /\ [ByTheGate]_vars
        => ResolvedMeansAnswered'
  BY GateStep DEF TypeInv
<1>3. TypeOK /\ ClaimsNumbered => TypeInv BY DEF TypeInv
<1> QED BY <1>1, <1>2, <1>3, TypeCorrect, PTL DEF Spec
================================================================================
