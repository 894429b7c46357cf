-------------------------- MODULE DebateChannel_proofs --------------------------
(***************************************************************************)
(* Proofs about the inbox of a role.  TypeCorrect and CursorsForward hold  *)
(* with no strengthening; each of the other properties gets the invariant  *)
(* that explains it.                                                       *)
(***************************************************************************)
EXTENDS DebateChannel, FiniteSetTheorems, WellFoundedInduction, TLAPS

--------------------------------------------------------------------------------
(* Last, over the bounded sets it is applied to                            *)

Below == {ss \in Nat \X Nat : ss[1] < ss[2]}

\* The order of the naturals, as a set of pairs.
LEMMA BelowWellFounded == IsWellFoundedOn(Below, Nat)
BY NatLessThanWellFounded DEF OpToRel, Below

\* A nonempty bounded set of positions has a last one.  It is n minus the
\* least of the distances to n.
LEMMA LastIsMax ==
  ASSUME NEW n \in Nat, NEW S \in SUBSET (0 .. n), S # {}
  PROVE  Last(S) \in S /\ \A j \in S : j \leq Last(S)
<1> DEFINE T == {n - x : x \in S}
<1>0. \A x \in S : x \in Nat /\ x \leq n /\ n - x \in Nat OBVIOUS
<1>1. T \subseteq Nat /\ T # {}
  <2>1. T \subseteq Nat BY <1>0
  <2>2. T # {} OBVIOUS
  <2> QED BY <2>1, <2>2
<1>2. \E x \in T : \A y \in T : ~(<<y, x>> \in Below)
  <2> HIDE DEF T
  <2> QED BY <1>1, BelowWellFounded, WFMin
<1>3. PICK x \in T : \A y \in T : ~(<<y, x>> \in Below) BY <1>2
<1>4. \A y \in T : x \leq y
  <2> HIDE DEF T
  <2> TAKE y \in T
  <2>1. x \in Nat /\ y \in Nat BY <1>1, <1>3
  <2>2. ~(<<y, x>> \in Below) BY <1>3
  <2>3. ~(y < x) BY <2>1, <2>2 DEF Below
  <2> QED BY <2>1, <2>3
<1>5. PICK i \in S : x = n - i BY <1>3
<1>6. \A j \in S : j \leq i
  <2> TAKE j \in S
  <2>1. n - j \in T OBVIOUS
  <2>2. x \leq n - j BY <2>1, <1>4
  <2> QED BY <1>5, <2>2
<1> QED BY <1>6 DEF Last

--------------------------------------------------------------------------------
(* What the readers of the tables return                                   *)

LEMMA Positions ==
  ASSUME TypeOK
  PROVE  /\ Len(msgs) \in Nat /\ Posted \subseteq Msgs /\ Posted \subseteq Nat
         /\ \A i \in Posted : msgs[i] \in Forms /\ msgs[i] \in Form
BY ConstantsAssumption, FormsAssumption DEF TypeOK, Posted, Msgs

\* Projecting a watermark moves a cursor forward, to the watermark at most.
LEMMA ReconciledForward ==
  ASSUME TypeOK, NEW s \in Sessions, NEW wm \in Nat
  PROVE  /\ Reconciled(s, wm) \in {0} \cup Posted
         /\ cursor[s] \leq Reconciled(s, wm)
         /\ Reconciled(s, wm) = cursor[s] \/ Reconciled(s, wm) \leq wm
<1> DEFINE P == Projected(s, wm)
<1>1. /\ P \in SUBSET (0 .. Len(msgs)) /\ P \subseteq Posted
      /\ \A i \in P : i \leq wm /\ i > cursor[s]
  BY Positions DEF Projected, AddressedTo, Posted
<1>2. cursor[s] \in {0} \cup Posted /\ cursor[s] \in Nat BY Positions DEF TypeOK
<1>3. CASE P = {}
  BY <1>2, <1>3 DEF Reconciled
<1>4. CASE P # {}
  <2> HIDE DEF P
  <2>1. Last(P) \in P BY <1>1, <1>4, Positions, LastIsMax
  <2>2. Reconciled(s, wm) = Last(P) BY <1>4 DEF Reconciled, P
  <2>3. Last(P) \in Nat BY <2>1, <1>1, Positions
  <2> QED BY <1>1, <1>2, <2>1, <2>2, <2>3
<1> QED BY <1>3, <1>4

\* What a sweep hands on is a position, no earlier than any bound session's.
LEMMA InheritedBound ==
  ASSUME TypeOK
  PROVE  Inherited \in {0} \cup Posted
<1> DEFINE C == {cursor[s] : s \in Bound} \cup {0}
<1>1. C \subseteq {0} \cup Posted /\ C # {} BY DEF TypeOK, Bound
<1>2. C \in SUBSET (0 .. Len(msgs)) BY <1>1, Positions DEF Posted
<1> HIDE DEF C
<1>3. Last(C) \in C BY <1>1, <1>2, Positions, LastIsMax
<1> QED BY <1>1, <1>3 DEF Inherited, C

\* A page holds posted messages the session may see.
PageOf(s, from) ==
  Page(Inbox(s, IF from = 0 THEN Reconciled(s, watermark) ELSE cursor[s], from))

LEMMA PageShape ==
  ASSUME TypeOK, NEW s \in Sessions, NEW from
  PROVE  /\ PageOf(s, from) \subseteq AddressedTo(RecipientsOf(s))
         /\ PageOf(s, from) \subseteq Posted
         /\ PageOf(s, from) \in SUBSET (0 .. Len(msgs))
         /\ \A i \in PageOf(s, from) : ~Taken(s, i)
BY Positions DEF PageOf, Page, Inbox, AddressedTo, Posted

\* The effects of a check, of a page and what is pending of it.
LEMMA CheckEffect ==
  ASSUME TypeOK, NEW s \in Sessions, NEW from \in Msgs \cup {0}, Check(s, from)
  PROVE  LET page    == PageOf(s, from)
             pending == page \ Answered(page)
         IN /\ cursor'[s] \in {0} \cup Posted
            /\ cursor[s] \leq cursor'[s]
            /\ cursor'[s] = cursor[s] \/ cursor'[s] \leq watermark
            /\ \A t \in Sessions \ {s} : cursor'[t] = cursor[t]
            /\ cursor' \in [Sessions -> {0} \cup Posted]
            /\ pending \subseteq page
            /\ pending # {} => Last(pending) \in pending
            /\ \A i \in pending : i \leq Last(pending)
<1> DEFINE page == PageOf(s, from)
           pending == page \ Answered(page)
           c == IF from = 0 THEN Reconciled(s, watermark) ELSE cursor[s]
<1>1. watermark \in Nat /\ cursor[s] \in {0} \cup Posted /\ cursor[s] \in Nat
  BY Positions DEF TypeOK
<1>2. /\ c \in {0} \cup Posted /\ cursor[s] \leq c
      /\ c = cursor[s] \/ c \leq watermark
  BY <1>1, ReconciledForward
<1>3. cursor' = [cursor EXCEPT ![s] = c] BY DEF Check
<1>4. pending \subseteq page /\ pending \in SUBSET (0 .. Len(msgs)) BY PageShape
<1>5. /\ pending # {} => Last(pending) \in pending
      /\ \A i \in pending : i \leq Last(pending)
  <2> HIDE DEF pending
  <2> QED BY <1>4, Positions, LastIsMax
<1> HIDE DEF c, pending, page
<1>6. cursor \in [Sessions -> {0} \cup Posted] BY DEF TypeOK
<1>7. /\ cursor'[s] = c /\ \A t \in Sessions \ {s} : cursor'[t] = cursor[t]
      /\ cursor' \in [Sessions -> {0} \cup Posted]
  BY <1>2, <1>3, <1>6
<1> QED BY <1>2, <1>4, <1>5, <1>7 DEF pending, page
--------------------------------------------------------------------------------
(* Types                                                                   *)

\* A binding is replaced by a binding, and the seat is a position.
LEMMA RebindTypes ==
  ASSUME TypeOK, NEW b \in [Sessions -> BindingStates], Rebind(b)
  PROVE  binding' \in [Sessions -> BindingStates] /\ seated' \in {0} \cup Posted
<1>1. Len(msgs) \in {0} \cup Posted BY Positions DEF Posted
<1> QED BY <1>1 DEF Rebind, TypeOK

LEMMA CheckTypes ==
  ASSUME TypeOK, NEW s \in Sessions, NEW from \in Msgs \cup {0}, Check(s, from)
  PROVE  TypeOK'
<1> DEFINE page == PageOf(s, from)
           pending == page \ Answered(page)
<1>1. page \subseteq Posted /\ pending \subseteq Posted
  BY PageShape
<1>2. /\ cursor' \in [Sessions -> {0} \cup Posted]
      /\ pending # {} => Last(pending) \in pending
  BY CheckEffect
<1>3. claim' = ClaimsAfter(s, page) BY DEF Check, PageOf
<1>4. /\ delivered' = [delivered EXCEPT ![s] =
           IF V1 /\ pending # {} THEN Later(@, Last(pending)) ELSE @]
      /\ shown' = [shown EXCEPT ![s] = @ \cup {i \in pending : V1 \/ OneShot(i)}]
      /\ \E l \in {0} \cup Posted : pageEnd' = [pageEnd EXCEPT ![s] = l]
      /\ walked' \subseteq walked \cup {s}
  <2>1. pending # {} => Last(pending) \in Posted BY <1>1, <1>2
  <2> QED BY <2>1 DEF Check, PageOf
<1>5. UNCHANGED <<msgs, released, binding, watermark, answered, completed,
                  seated, ledger, signed, reclaimed>>
  BY DEF Check
<1>6. \A i \in Msgs : OneShot(i)' = OneShot(i) BY <1>5 DEF OneShot
<1>7. Posted' = Posted BY <1>5 DEF Posted
<1>8. /\ claim' \in [Msgs -> Sessions \cup {Nobody, Done}]
      /\ \A i \in Msgs : claim'[i] # Nobody => i \in Posted /\ OneShot(i)
  <2> HIDE DEF page
  <2> QED BY <1>1, <1>3 DEF ClaimsAfter, Answered, TypeOK
<1>9. delivered' \in [Sessions -> {0} \cup Posted]
  <2>1. pending # {} => Later(delivered[s], Last(pending)) \in {0} \cup Posted
    BY <1>1, <1>2 DEF Later, TypeOK
  <2> HIDE DEF pending
  <2> QED BY <1>4, <2>1 DEF TypeOK
<1>10. shown' \in [Sessions -> SUBSET Posted]
  <2> HIDE DEF pending
  <2> QED BY <1>1, <1>4 DEF TypeOK
<1>11. pageEnd' \in [Sessions -> {0} \cup Posted] /\ walked' \subseteq Sessions
  <2> HIDE DEF pending
  <2> QED BY <1>4 DEF TypeOK
<1> HIDE DEF page, pending
<1> QED BY <1>2, <1>5, <1>6, <1>7, <1>8, <1>9, <1>10, <1>11 DEF TypeOK

LEMMA PostTypes ==
  ASSUME TypeOK, NEW f \in Forms, Post(f)
  PROVE  TypeOK'
<1>1. /\ msgs' = Append(msgs, f) /\ msgs \in Seq(Forms) /\ Len(msgs) < MaxMsgs
      /\ UNCHANGED <<released, binding, cursor, delivered, watermark, claim,
                     answered, completed, history>>
  BY DEF Post, TypeOK
<1>2. /\ msgs' \in Seq(Forms) /\ Len(msgs') = Len(msgs) + 1
      /\ \A i \in Posted : msgs'[i] = msgs[i]
  BY <1>1 DEF Posted
<1>3. Len(msgs') \leq MaxMsgs BY <1>1, <1>2, ConstantsAssumption, Positions
<1>4. Posted \subseteq Posted' BY <1>2, Positions DEF Posted
<1>5. \A i \in Msgs : claim'[i] # Nobody => i \in Posted' /\ OneShot(i)'
  BY <1>1, <1>2, <1>4 DEF TypeOK, OneShot
<1> QED BY <1>1, <1>2, <1>3, <1>4, <1>5 DEF TypeOK, history

LEMMA WatermarkTypes ==
  ASSUME TypeOK, NEW i \in Msgs, WatermarkPost(i)
  PROVE  TypeOK'
<1>1. /\ i \in Posted /\ watermark' = i /\ ledger' = Later(ledger, i)
      /\ cursor' = [s \in Sessions |-> Reconciled(s, i)]
      /\ UNCHANGED <<msgs, released, binding, delivered, claim, answered,
                     completed, shown, pageEnd, walked, seated, signed, reclaimed>>
  BY DEF WatermarkPost
<1>2. cursor' \in [Sessions -> {0} \cup Posted]
  BY <1>1, Positions, ReconciledForward
<1>3. Posted' = Posted BY <1>1 DEF Posted
<1>4. \A j \in Msgs : OneShot(j)' = OneShot(j) BY <1>1 DEF OneShot
<1>5. ledger' \in {0} \cup Posted BY <1>1 DEF Later, TypeOK
<1> QED BY <1>1, <1>2, <1>3, <1>4, <1>5 DEF TypeOK

LEMMA ClaimTypes ==
  ASSUME TypeOK,
         \/ \E i \in Msgs : Answer(i)
         \/ \E K \in SUBSET Lent : Reclaim(K)
  PROVE  TypeOK'
<1>1. ASSUME NEW i \in Msgs, Answer(i) PROVE TypeOK'
  BY <1>1 DEF TypeOK, Answer, history, Posted, OneShot
<1>2. ASSUME NEW K \in SUBSET Lent, Reclaim(K) PROVE TypeOK'
  <2>1. K \subseteq Posted
    BY ConstantsAssumption DEF Lent, TypeOK
  <2>2. /\ claim' = [i \in Msgs |-> IF i \notin K THEN claim[i]
                                   ELSE IF i \in answered THEN Done ELSE Nobody]
        /\ reclaimed' = reclaimed \cup (K \ answered)
        /\ UNCHANGED <<msgs, released, binding, cursor, delivered, watermark,
                       answered, completed, shown, pageEnd, walked, seated,
                       ledger, signed>>
    BY <1>2 DEF Reclaim
  <2>3. Posted' = Posted /\ \A j \in Msgs : OneShot(j)' = OneShot(j)
    BY <2>2 DEF Posted, OneShot
  <2>4. \A i \in K : claim[i] # Nobody BY ConstantsAssumption DEF Lent
  <2>5. \A i \in Msgs : claim'[i] # Nobody => claim[i] # Nobody BY <2>2, <2>4
  <2> QED BY <2>1, <2>2, <2>3, <2>5 DEF TypeOK
<1> QED BY <1>1, <1>2

LEMMA ReplacedTypes ==
  ASSUME TypeOK, NEW s \in Sessions
  PROVE  Replaced(s) \in [Sessions -> BindingStates]
BY DEF Replaced, TypeOK, BindingStates

\* A rotation seats one session, at a position.
LEMMA RotateEffect ==
  ASSUME TypeOK, NEW old \in Sessions, NEW new \in Sessions, NEW mode \in Modes,
         Rotate(old, new, mode)
  PROVE  /\ old \in Owners /\ new \in Owning
         /\ binding' = Replaced(new) /\ seated' = Len(msgs)
         /\ \E i \in {0} \cup Posted :
              /\ cursor' = [cursor EXCEPT ![new] = i]
              /\ signed' = IF i > cursor[old] THEN Later(signed, i) ELSE signed
              /\ mode = "head" => i = Len(msgs)
         /\ UNCHANGED <<msgs, released, delivered, watermark, claim, answered,
                        completed, shown, pageEnd, walked, ledger, reclaimed>>
<1>1. PICK i \in StartsAt(old, mode) :
        /\ cursor' = [cursor EXCEPT ![new] = i]
        /\ signed' = IF i > cursor[old] THEN Later(signed, i) ELSE signed
  BY DEF Rotate
<1>2. Len(msgs) \in {0} \cup Posted BY Positions DEF Posted
<1>3. i \in {0} \cup Posted /\ (mode = "head" => i = Len(msgs))
  <2>1. CASE mode = "head" BY <1>1, <1>2, <2>1 DEF StartsAt
  <2>2. CASE mode = "copy" BY <1>1, <2>2 DEF StartsAt
  <2>3. CASE mode = "replay" BY <1>1, <2>3 DEF StartsAt
  <2> QED BY <2>1, <2>2, <2>3 DEF Modes
<1> QED BY <1>1, <1>3 DEF Rotate

LEMMA RotateTypes ==
  ASSUME TypeOK, NEW old \in Sessions, NEW new \in Sessions, NEW mode \in Modes,
         Rotate(old, new, mode)
  PROVE  TypeOK'
<1>1. PICK i \in {0} \cup Posted :
        /\ cursor' = [cursor EXCEPT ![new] = i]
        /\ signed' = IF i > cursor[old] THEN Later(signed, i) ELSE signed
  BY RotateEffect
<1>2. binding' \in [Sessions -> BindingStates] BY RotateEffect, ReplacedTypes
<1>3. /\ seated' \in {0} \cup Posted
      /\ UNCHANGED <<msgs, released, delivered, watermark, claim, answered,
                     completed, shown, pageEnd, walked, ledger, reclaimed>>
  <2>1. Len(msgs) \in {0} \cup Posted BY Positions DEF Posted
  <2> QED BY <2>1, RotateEffect
<1>4. cursor' \in [Sessions -> {0} \cup Posted] BY <1>1 DEF TypeOK
<1>5. signed' \in {0} \cup Posted BY <1>1 DEF TypeOK, Later
<1>6. Posted' = Posted /\ \A j \in Msgs : OneShot(j)' = OneShot(j)
  BY <1>3 DEF Posted, OneShot
<1> QED BY <1>2, <1>3, <1>4, <1>5, <1>6 DEF TypeOK

LEMMA BindingTypes ==
  ASSUME TypeOK, Bindings
  PROVE  TypeOK'
<1>0. SUFFICES ASSUME NEW s \in Sessions,
                      BindActive(s) \/ BindDiagnostic(s) \/ BindRetired(s) \/ Sweep(s)
               PROVE  TypeOK'
  BY RotateTypes DEF Bindings
<1>1. BindActive(s) \/ BindDiagnostic(s) \/ BindRetired(s) \/ Sweep(s) BY <1>0
<1>2. \E b \in [Sessions -> BindingStates] : Rebind(b)
  <2>1. ASSUME BindActive(s)
        PROVE  \E b \in [Sessions -> BindingStates] : Rebind(b)
    BY <2>1, ReplacedTypes DEF BindActive
  <2>2. \A x \in BindingStates : [binding EXCEPT ![s] = x] \in [Sessions -> BindingStates]
    BY DEF TypeOK
  <2>3. {"active", "diagnostic", "retired"} \subseteq BindingStates BY DEF BindingStates
  <2> QED BY <1>1, <2>1, <2>2, <2>3 DEF BindDiagnostic, BindRetired, Sweep
<1>3. /\ binding' \in [Sessions -> BindingStates] /\ seated' \in {0} \cup Posted
      /\ UNCHANGED <<msgs, released, delivered, watermark, claim, answered,
                     completed, shown, pageEnd, walked, ledger, reclaimed>>
  BY <1>2, RebindTypes DEF Rebind
<1>4. cursor' \in [Sessions -> {0} \cup Posted] /\ signed' = signed
  BY <1>1, InheritedBound DEF BindActive, BindDiagnostic, BindRetired, Sweep, TypeOK
<1>5. Posted' = Posted /\ \A i \in Msgs : OneShot(i)' = OneShot(i)
  BY <1>3 DEF Posted, OneShot
<1> QED BY <1>3, <1>4, <1>5 DEF TypeOK

\* The steps that only set one variable.
LEMMA PlainTypes ==
  ASSUME TypeOK,
         \/ \E s \in Sessions, i \in Msgs : Advance(s, i)
         \/ Release
         \/ Queue
         \/ UNCHANGED vars
  PROVE  TypeOK'
<1>1. ASSUME NEW s \in Sessions, NEW i \in Msgs, Advance(s, i) PROVE TypeOK'
  <2>1. i \in Posted BY <1>1 DEF Advance, AddressedTo
  <2> QED BY <1>1, <2>1 DEF TypeOK, Advance, Later, Posted, OneShot
<1>2. CASE Release BY <1>2 DEF TypeOK, Release, history, Posted, OneShot
<1>3. CASE Queue BY <1>3 DEF TypeOK, Queue, Complete, history, Posted, OneShot
<1>4. CASE UNCHANGED vars BY <1>4 DEF TypeOK, vars, history, Posted, OneShot
<1> QED BY <1>1, <1>2, <1>3, <1>4

LEMMA TypeStep == TypeOK /\ [Next]_vars => TypeOK'
<1> SUFFICES ASSUME TypeOK, [Next]_vars PROVE TypeOK' OBVIOUS
<1>1. CASE Inboxes BY <1>1, CheckTypes, PlainTypes DEF Inboxes
<1>2. CASE Ledger BY <1>2, PostTypes, PlainTypes, WatermarkTypes, ClaimTypes DEF Ledger
<1>3. CASE Bindings BY <1>3, BindingTypes
<1>4. CASE Queue BY <1>4, PlainTypes
<1>5. CASE UNCHANGED vars BY <1>5, PlainTypes
<1> QED BY <1>1, <1>2, <1>3, <1>4, <1>5 DEF Next

LEMMA TypeInit == Init => TypeOK
<1> SUFFICES ASSUME Init PROVE TypeOK OBVIOUS
<1>1. msgs \in Seq(Forms) /\ Len(msgs) = 0 BY DEF Init
<1>2. claim = [i \in Msgs |-> Nobody] BY DEF Init
<1>3. claim \in [Msgs -> Sessions \cup {Nobody, Done}] BY <1>2
<1>4. 0 \leq MaxMsgs BY ConstantsAssumption
<1>5. /\ released \in BOOLEAN /\ binding \in [Sessions -> BindingStates]
      /\ cursor \in [Sessions -> {0} \cup Posted]
      /\ delivered \in [Sessions -> {0} \cup Posted]
      /\ shown \in [Sessions -> SUBSET Posted]
      /\ pageEnd \in [Sessions -> {0} \cup Posted]
  BY DEF Init, BindingStates
<1> QED BY <1>1, <1>2, <1>3, <1>4, <1>5 DEF Init, TypeOK

\* Every table stays well-typed, for any sessions, forms and bounds.
THEOREM TypeCorrect == Spec => []TypeOK
<1> QED BY TypeInit, TypeStep, PTL DEF Spec

--------------------------------------------------------------------------------
(* Cursors                                                                 *)

\* What a rotation may do to the cursor of the session it seats.
SetBack(s) == \E old \in Sessions, mode \in {"copy", "replay"} : Rotate(old, s, mode)

LEMMA ForwardStep ==
  ASSUME TypeOK, [Next]_vars
  PROVE  \A s \in Sessions : /\ cursor[s] \in Nat /\ cursor'[s] \in Nat
                             /\ cursor'[s] \geq cursor[s] \/ SetBack(s)
<1>0. /\ \A s \in Sessions : cursor[s] \in Nat
      /\ cursor \in [Sessions -> {0} \cup Posted]
      /\ 0 \in Nat /\ Posted \subseteq Nat /\ Msgs \subseteq Nat
  BY Positions, ConstantsAssumption DEF TypeOK, Msgs
<1>1. ASSUME NEW t \in Sessions, NEW from \in Msgs \cup {0}, Check(t, from)
      PROVE  \A s \in Sessions : cursor'[s] \in Nat /\ cursor'[s] \geq cursor[s]
  <2>1. /\ cursor'[t] \in {0} \cup Posted /\ cursor[t] \leq cursor'[t]
        /\ \A s \in Sessions \ {t} : cursor'[s] = cursor[s]
    BY <1>1, CheckEffect
  <2>2. cursor'[t] \in Nat BY <1>0, <2>1
  <2>3. \A s \in Sessions \ {t} : cursor'[s] \in Nat /\ cursor'[s] \geq cursor[s]
    BY <1>0, <2>1
  <2> QED BY <1>0, <2>1, <2>2, <2>3
<1>2. ASSUME NEW t \in Sessions, NEW i \in Msgs, Advance(t, i)
      PROVE  \A s \in Sessions : cursor'[s] \in Nat /\ cursor'[s] \geq cursor[s]
  BY <1>0, <1>2 DEF Advance
<1>3. ASSUME NEW i \in Msgs, WatermarkPost(i)
      PROVE  \A s \in Sessions : cursor'[s] \in Nat /\ cursor'[s] \geq cursor[s]
  <2>1. ASSUME NEW s \in Sessions PROVE cursor'[s] \in Nat /\ cursor'[s] \geq cursor[s]
    <3>1. cursor'[s] = Reconciled(s, i) BY <1>3 DEF WatermarkPost
    <3>2. Reconciled(s, i) \in {0} \cup Posted /\ cursor[s] \leq Reconciled(s, i)
      BY <1>0, ReconciledForward
    <3> QED BY <1>0, <3>1, <3>2
  <2> QED BY <2>1
<1>4. ASSUME NEW t \in Sessions, Sweep(t)
      PROVE  \A s \in Sessions : cursor'[s] \in Nat /\ cursor'[s] \geq cursor[s]
  <2>1. cursor[t] = 0 /\ cursor' = [cursor EXCEPT ![t] = Inherited]
    BY <1>4 DEF Sweep, Fresh
  <2>2. Inherited \in Nat BY <1>0, InheritedBound
  <2> QED BY <1>0, <2>1, <2>2
<1>5. ASSUME UNCHANGED cursor
      PROVE  \A s \in Sessions : cursor'[s] \in Nat /\ cursor'[s] \geq cursor[s]
  BY <1>0, <1>5
<1>5a. ASSUME NEW old \in Sessions, NEW new \in Sessions, NEW mode \in Modes,
              Rotate(old, new, mode)
       PROVE  \A s \in Sessions : /\ cursor'[s] \in Nat
                                  /\ cursor'[s] \geq cursor[s] \/ SetBack(s)
  <2>1. PICK i \in {0} \cup Posted : /\ cursor' = [cursor EXCEPT ![new] = i]
                                     /\ mode = "head" => i = Len(msgs)
    BY <1>5a, RotateEffect
  <2>2. CASE mode = "head"
    <3>1. i \geq cursor[new] BY <1>0, <2>1, <2>2, Positions DEF Posted
    <3> QED BY <1>0, <2>1, <3>1
  <2>3. CASE mode \in {"copy", "replay"}
    <3>1. SetBack(new) BY <1>5a, <2>3 DEF SetBack
    <3> QED BY <1>0, <2>1, <3>1
  <2> QED BY <2>2, <2>3 DEF Modes
<1>6. CASE Inboxes BY <1>0, <1>1, <1>2, <1>6 DEF Inboxes
<1>7. CASE Ledger
  <2>1. (\E i \in Msgs : WatermarkPost(i)) \/ UNCHANGED cursor
    BY <1>7 DEF Ledger, Post, Release, Answer, Reclaim
  <2> QED BY <1>0, <1>3, <1>5, <2>1
<1>8. CASE Bindings
  <2>1. \/ \E t \in Sessions : Sweep(t)
        \/ \E old, new \in Sessions, mode \in Modes : Rotate(old, new, mode)
        \/ UNCHANGED cursor
    BY <1>8 DEF Bindings, BindActive, BindDiagnostic, BindRetired
  <2> QED BY <1>0, <1>4, <1>5, <1>5a, <2>1
<1>9. CASE Queue \/ UNCHANGED vars BY <1>0, <1>5, <1>9 DEF Queue, Complete, vars
<1> QED BY <1>6, <1>7, <1>8, <1>9 DEF Next

\* A read cursor moves back only where a rotation copies or resets it, whichever
\* handler moves it.
THEOREM CursorsAreMonotone == Spec => CursorsForward
<1>1. TypeOK /\ [Next]_vars =>
        [\A s \in Sessions :
           \/ cursor'[s] \geq cursor[s]
           \/ \E old \in Sessions, mode \in {"copy", "replay"} : Rotate(old, s, mode)]_vars
  BY ForwardStep DEF SetBack
<1> QED BY <1>1, TypeCorrect, PTL DEF Spec, CursorsForward
--------------------------------------------------------------------------------
(* One-shot decisions                                                      *)

\* A one-shot that s was shown is s's, or done, unless a sweep took it back.
ShownIsHeld ==
  \A s \in Sessions : \A i \in shown[s] :
    OneShot(i) => claim[i] \in {s, Done} \/ i \in reclaimed

OneShotInv == ShownIsHeld /\ OneShotShownToOne

LEMMA OneShotCheck ==
  ASSUME TypeOK, OneShotInv, NEW s \in Sessions, NEW from \in Msgs \cup {0},
         Check(s, from)
  PROVE  OneShotInv'
<1> DEFINE page == PageOf(s, from)
           fresh == {i \in page \ Answered(page) : V1 \/ OneShot(i)}
<1>1. /\ page \subseteq Posted /\ page \subseteq Msgs
      /\ \A i \in page : OneShot(i) => claim[i] \in {Nobody, s}
  BY PageShape, Positions DEF Taken
<1>2. claim' = ClaimsAfter(s, page) /\ shown' = [shown EXCEPT ![s] = @ \cup fresh]
      /\ reclaimed' = reclaimed /\ msgs' = msgs
  BY DEF Check, PageOf
<1>3. \A i \in Msgs : OneShot(i)' = OneShot(i) BY <1>2 DEF OneShot
<1>4. fresh \subseteq page /\ \A i \in fresh : OneShot(i) => i \notin Answered(page)
  OBVIOUS
<1> HIDE DEF page, fresh
<1>5. \A i \in Msgs : claim'[i] = IF i \in Answered(page) THEN Done
                                 ELSE IF i \in page /\ OneShot(i) THEN s ELSE claim[i]
  BY <1>2 DEF ClaimsAfter
<1>6. /\ shown'[s] = shown[s] \cup fresh
      /\ \A t \in Sessions \ {s} : shown'[t] = shown[t]
      /\ \A t \in Sessions : shown[t] \subseteq Msgs
  BY <1>2, Positions DEF TypeOK
<1>7. Answered(page) \subseteq page /\ \A i \in Answered(page) : OneShot(i)
  BY DEF Answered
\* Whoever else was shown a row of this page lost it to a sweep.
<1>8. \A t \in Sessions \ {s} : \A i \in shown[t] \cap page :
        OneShot(i) => i \in reclaimed
  BY <1>1, ConstantsAssumption DEF OneShotInv, ShownIsHeld
<1>9. ShownIsHeld'
  <2> SUFFICES ASSUME NEW t \in Sessions, NEW i \in shown'[t], OneShot(i)'
               PROVE  claim'[i] \in {t, Done} \/ i \in reclaimed'
    BY DEF ShownIsHeld
  <2>1. i \in Msgs /\ OneShot(i) BY <1>1, <1>3, <1>4, <1>6
  <2>2. CASE t = s
    BY <1>2, <1>4, <1>5, <1>6, <2>1, <2>2 DEF OneShotInv, ShownIsHeld
  <2>3. CASE t # s
    BY <1>2, <1>5, <1>6, <1>7, <1>8, <2>1, <2>3 DEF OneShotInv, ShownIsHeld
  <2> QED BY <2>2, <2>3
<1>10. OneShotShownToOne'
  <2> SUFFICES ASSUME NEW t \in Sessions, NEW u \in Sessions,
                      NEW i \in shown'[t] \cap shown'[u], OneShot(i)', t # u
               PROVE  i \in reclaimed
    BY <1>2 DEF OneShotShownToOne
  <2>1. OneShot(i) BY <1>1, <1>3, <1>4, <1>6
  <2>2. CASE i \in shown[t] /\ i \in shown[u]
    BY <2>1, <2>2 DEF OneShotInv, OneShotShownToOne
  <2>3. CASE i \notin shown[t] \/ i \notin shown[u]
    BY <1>4, <1>6, <1>8, <2>1, <2>3
  <2> QED BY <2>2, <2>3
<1> QED BY <1>9, <1>10 DEF OneShotInv

\* A sweep that takes a claim back is recorded, an answer closes it.
LEMMA OneShotClaims ==
  ASSUME TypeOK, OneShotInv,
         \/ \E i \in Msgs : Answer(i)
         \/ \E K \in SUBSET Lent : Reclaim(K)
  PROVE  OneShotInv'
<1>1. /\ shown' = shown /\ msgs' = msgs /\ reclaimed \subseteq reclaimed'
      /\ \A i \in Msgs : claim'[i] \in {claim[i], Done} \/ i \in reclaimed'
  <2>1. ASSUME NEW i \in Msgs, Answer(i)
        PROVE  /\ shown' = shown /\ msgs' = msgs /\ reclaimed' = reclaimed
               /\ \A j \in Msgs : claim'[j] \in {claim[j], Done}
    BY <2>1 DEF Answer, history, TypeOK
  <2>2. ASSUME NEW K \in SUBSET Lent, Reclaim(K)
        PROVE  /\ shown' = shown /\ msgs' = msgs /\ reclaimed \subseteq reclaimed'
               /\ \A j \in Msgs : claim'[j] \in {claim[j], Done} \/ j \in reclaimed'
    BY <2>2 DEF Reclaim
  <2> QED BY <2>1, <2>2
<1>2. \A i \in Msgs : OneShot(i)' = OneShot(i) BY <1>1 DEF OneShot
<1>3. \A s \in Sessions : shown[s] \subseteq Msgs BY Positions DEF TypeOK
<1> QED BY <1>1, <1>2, <1>3 DEF OneShotInv, ShownIsHeld, OneShotShownToOne

\* Nothing else touches claims or shows anything.
LEMMA OneShotFrame ==
  ASSUME TypeOK, OneShotInv,
         UNCHANGED <<claim, shown, reclaimed>>,
         \A i \in Posted : msgs'[i] = msgs[i]
  PROVE  OneShotInv'
<1>1. \A s \in Sessions : shown[s] \subseteq Posted BY DEF TypeOK
<1>2. \A i \in Posted : OneShot(i)' = OneShot(i) BY DEF OneShot
<1> QED BY <1>1, <1>2 DEF OneShotInv, ShownIsHeld, OneShotShownToOne

LEMMA PostOrKeep ==
  ASSUME [Next]_vars
  PROVE  (\E f \in Forms : Post(f)) \/ UNCHANGED msgs
BY DEF Next, Inboxes, Ledger, Bindings, Queue, Check, Advance, Release,
       WatermarkPost, Answer, Reclaim, BindActive, BindDiagnostic, BindRetired,
       Sweep, Rebind, Rotate, Complete, vars

LEMMA LedgerGrows ==
  ASSUME TypeOK, [Next]_vars
  PROVE  Posted \subseteq Posted' /\ \A i \in Posted : msgs'[i] = msgs[i]
<1>1. ASSUME NEW f \in Forms, Post(f)
      PROVE  Posted \subseteq Posted' /\ \A i \in Posted : msgs'[i] = msgs[i]
  <2>1. msgs' = Append(msgs, f) /\ msgs \in Seq(Forms) BY <1>1 DEF Post, TypeOK
  <2>2. Len(msgs') = Len(msgs) + 1 /\ \A i \in Posted : msgs'[i] = msgs[i]
    BY <2>1 DEF Posted
  <2> QED BY <2>2, Positions DEF Posted
<1> QED BY <1>1, PostOrKeep DEF Posted

LEMMA OneShotStep == TypeOK /\ OneShotInv /\ [Next]_vars => OneShotInv'
<1> SUFFICES ASSUME TypeOK, OneShotInv, [Next]_vars PROVE OneShotInv' OBVIOUS
<1>1. CASE \E s \in Sessions : \E from \in Msgs \cup {0} : Check(s, from)
  BY <1>1, OneShotCheck
<1>2. CASE (\E i \in Msgs : Answer(i)) \/ (\E K \in SUBSET Lent : Reclaim(K))
  BY <1>2, OneShotClaims
<1>3. CASE UNCHANGED <<claim, shown, reclaimed>>
  BY <1>3, LedgerGrows, OneShotFrame
<1>4. \/ \E s \in Sessions : \E from \in Msgs \cup {0} : Check(s, from)
      \/ \E i \in Msgs : Answer(i)
      \/ \E K \in SUBSET Lent : Reclaim(K)
      \/ UNCHANGED <<claim, shown, reclaimed>>
  BY DEF Next, Inboxes, Ledger, Bindings, Queue, Advance, Post, Release,
         WatermarkPost, BindActive, BindDiagnostic, BindRetired, Sweep, Rebind,
         Rotate, Complete, vars, history
<1> QED BY <1>1, <1>2, <1>3, <1>4

\* A one-shot DECISION is shown to two sessions only after a sweep took it back.
THEOREM OneShotExclusive == Spec => []OneShotShownToOne
<1>1. Init => OneShotInv
  BY DEF Init, OneShotInv, ShownIsHeld, OneShotShownToOne
<1>2. OneShotInv => OneShotShownToOne BY DEF OneShotInv
<1> QED BY <1>1, <1>2, OneShotStep, TypeCorrect, PTL DEF Spec
--------------------------------------------------------------------------------
(* Deliveries of a legacy topic                                            *)

\* Without a sweep, and with no session bound both as owner and as diagnostic,
\* a cursor that may belong to an owner rests on an advance of an owner, on a
\* rotation or on a WATERMARK; and no rotation sets back the cursor that a direct
\* delivery was completed on.
CursorsEarned ==
  /\ watermark \leq ledger
  /\ \A s \in Sessions : /\ binding[s] = "active" => s \in Owning
                         /\ binding[s] = "diagnostic" => s \in Diagnosing
  /\ \A s \in Sessions \ Diagnosing : cursor[s] \leq signed \/ cursor[s] \leq ledger
  /\ \A i \in completed : msgs[i].to \ {Role} \subseteq Diagnosing

Legacy == ~V1 /\ Owning \cap Diagnosing = {}

\* Only the WATERMARK handler touches the ledger's own position.
LEMMA WatermarkCause ==
  ASSUME TypeOK, [Next]_vars
  PROVE  \/ \E i \in Msgs : ledger' = Later(ledger, i) /\ watermark' = i
         \/ UNCHANGED <<ledger, watermark>>
<1>1. ASSUME NEW i \in Msgs, WatermarkPost(i)
      PROVE  ledger' = Later(ledger, i) /\ watermark' = i
  BY <1>1 DEF WatermarkPost
<1>2. CASE Inboxes
  <2>1. ASSUME NEW s \in Sessions, NEW from \in Msgs \cup {0}, Check(s, from)
        PROVE  UNCHANGED <<ledger, watermark>>
    BY <2>1 DEF Check
  <2>2. ASSUME NEW s \in Sessions, NEW i \in Msgs, Advance(s, i)
        PROVE  UNCHANGED <<ledger, watermark>>
    BY <2>2 DEF Advance
  <2> QED BY <1>2, <2>1, <2>2 DEF Inboxes
<1>3. CASE Ledger
  <2>1. (\E i \in Msgs : WatermarkPost(i)) \/ UNCHANGED <<ledger, watermark>>
    BY <1>3 DEF Ledger, Post, Release, Answer, Reclaim, history
  <2> QED BY <1>1, <2>1
<1>4. CASE Bindings
  BY <1>4 DEF Bindings, BindActive, BindDiagnostic, BindRetired, Sweep, Rebind, Rotate
<1>5. CASE Queue BY <1>5 DEF Queue, Complete, history
<1>6. CASE UNCHANGED vars BY <1>6 DEF vars, history
<1> QED BY <1>2, <1>3, <1>4, <1>5, <1>6 DEF Next

LEMMA CountersGrow ==
  ASSUME TypeOK, [Next]_vars
  PROVE  /\ ledger \in Nat /\ ledger' \in Nat /\ ledger \leq ledger'
         /\ signed \in Nat /\ signed' \in Nat /\ signed \leq signed'
         /\ watermark \in Nat /\ watermark' \in Nat
<1>1. /\ ledger \in Nat /\ signed \in Nat /\ watermark \in Nat /\ Msgs \subseteq Nat
  BY Positions DEF TypeOK, Msgs
<1>2. \/ \E i \in Msgs : ledger' = Later(ledger, i) /\ watermark' = i
      \/ UNCHANGED <<ledger, watermark>>
  BY WatermarkCause
<1>3. \/ \E i \in Msgs \cup {0} : signed' = Later(signed, i)
      \/ UNCHANGED signed
  <2>1. ASSUME NEW old \in Sessions, NEW new \in Sessions, NEW mode \in Modes,
               Rotate(old, new, mode)
        PROVE  (\E i \in Msgs \cup {0} : signed' = Later(signed, i)) \/ UNCHANGED signed
    BY <2>1, RotateEffect, Positions
  <2> QED BY <2>1 DEF Next, Inboxes, Ledger, Bindings, Queue, Check, Advance, Post, Release,
         WatermarkPost, Answer, Reclaim, BindActive, BindDiagnostic, BindRetired,
         Sweep, Rebind, Complete, vars, history
<1> QED BY <1>1, <1>2, <1>3 DEF Later

\* A cursor moves by an advance of its session, by a watermark, by a rotation that
\* seats its session, or, in debate/v1, by a sweep.
LEMMA CursorCauses ==
  ASSUME TypeOK, [Next]_vars, NEW s \in Sessions, ~V1
  PROVE  \/ cursor'[s] = cursor[s]
         \/ cursor'[s] \leq watermark
         \/ cursor'[s] \leq ledger'
         \/ \E i \in Msgs : Advance(s, i)
         \/ \E old \in Sessions, mode \in Modes : Rotate(old, s, mode)
<1>1. ASSUME NEW t \in Sessions, NEW from \in Msgs \cup {0}, Check(t, from)
      PROVE  cursor'[s] = cursor[s] \/ cursor'[s] \leq watermark
  BY <1>1, CheckEffect
<1>2. ASSUME NEW t \in Sessions, NEW i \in Msgs, Advance(t, i)
      PROVE  cursor'[s] = cursor[s] \/ Advance(s, i)
  BY <1>2 DEF Advance, TypeOK
<1>3. ASSUME NEW i \in Msgs, WatermarkPost(i)
      PROVE  cursor'[s] = cursor[s] \/ cursor'[s] \leq ledger'
  <2>1. cursor'[s] = Reconciled(s, i) /\ ledger' = Later(ledger, i)
    BY <1>3 DEF WatermarkPost
  <2>2. i \in Nat /\ ledger \in Nat BY Positions DEF Msgs, TypeOK
  <2>3. Reconciled(s, i) = cursor[s] \/ Reconciled(s, i) \leq i
    BY <2>2, ReconciledForward
  <2>4. Reconciled(s, i) \in Nat BY <2>2, ReconciledForward, Positions
  <2> QED BY <2>1, <2>2, <2>3, <2>4 DEF Later
<1>4. \/ \E t \in Sessions : \E from \in Msgs \cup {0} : Check(t, from)
      \/ \E t \in Sessions : \E i \in Msgs : Advance(t, i)
      \/ \E i \in Msgs : WatermarkPost(i)
      \/ \E old, new \in Sessions, mode \in Modes : Rotate(old, new, mode)
      \/ UNCHANGED cursor
  BY DEF Next, Inboxes, Ledger, Bindings, Queue, Post, Release, Answer, Reclaim,
         BindActive, BindDiagnostic, BindRetired, Sweep, Complete, vars
<1>5. ASSUME NEW old \in Sessions, NEW new \in Sessions, NEW mode \in Modes,
             Rotate(old, new, mode)
      PROVE  cursor'[s] = cursor[s] \/ Rotate(old, s, mode)
  BY <1>5, RotateEffect DEF TypeOK
<1> QED BY <1>1, <1>2, <1>3, <1>4, <1>5

LEMMA EarnedBindings ==
  ASSUME TypeOK, CursorsEarned, [Next]_vars, ~V1
  PROVE  \A s \in Sessions : /\ binding'[s] = "active" => s \in Owning
                             /\ binding'[s] = "diagnostic" => s \in Diagnosing
<1>1. ASSUME NEW t \in Sessions, BindActive(t) \/ BindDiagnostic(t) \/ BindRetired(t)
      PROVE  \A s \in Sessions : /\ binding'[s] = "active" => s \in Owning
                                 /\ binding'[s] = "diagnostic" => s \in Diagnosing
  BY <1>1 DEF BindActive, BindDiagnostic, BindRetired, Rebind, Replaced, CursorsEarned,
              TypeOK
<1>2. \/ \E t \in Sessions : BindActive(t) \/ BindDiagnostic(t) \/ BindRetired(t)
      \/ \E old, new \in Sessions, mode \in Modes : Rotate(old, new, mode)
      \/ UNCHANGED binding
  BY DEF Next, Inboxes, Ledger, Bindings, Queue, Check, Advance, Post, Release,
         WatermarkPost, Answer, Reclaim, Sweep, Complete, vars
<1>3. ASSUME NEW old \in Sessions, NEW new \in Sessions, NEW mode \in Modes,
             Rotate(old, new, mode)
      PROVE  \A s \in Sessions : /\ binding'[s] = "active" => s \in Owning
                                 /\ binding'[s] = "diagnostic" => s \in Diagnosing
  BY <1>3, RotateEffect DEF Replaced, CursorsEarned, Owners
<1> QED BY <1>1, <1>2, <1>3 DEF CursorsEarned

LEMMA CompletedCauses ==
  ASSUME [Next]_vars
  PROVE  \A i \in completed' : i \in completed \/ (i \in Msgs /\ Complete(i))
<1>1. ASSUME NEW i \in Msgs, Complete(i)
      PROVE  \A j \in completed' : j \in completed \/ (j \in Msgs /\ Complete(j))
  BY <1>1 DEF Complete
<1>2. (\E i \in Msgs : Complete(i)) \/ UNCHANGED completed
  BY DEF Next, Inboxes, Ledger, Bindings, Queue, Check, Advance, Post, Release,
         WatermarkPost, Answer, Reclaim, BindActive, BindDiagnostic, BindRetired,
         Sweep, Rebind, Rotate, vars, history
<1> QED BY <1>1, <1>2

LEMMA EarnedStep ==
  ASSUME TypeOK, CursorsEarned, [Next]_vars, Legacy
  PROVE  CursorsEarned'
<1>1. \A s \in Sessions : /\ binding'[s] = "active" => s \in Owning
                          /\ binding'[s] = "diagnostic" => s \in Diagnosing
  BY EarnedBindings DEF Legacy
<1>2. watermark' \leq ledger' BY WatermarkCause, CountersGrow DEF Later, CursorsEarned
<1>3. ASSUME NEW s \in Sessions \ Diagnosing
      PROVE  cursor'[s] \leq signed' \/ cursor'[s] \leq ledger'
  <2>1. cursor[s] \in Nat /\ cursor'[s] \in Nat BY ForwardStep
  <2>2. cursor[s] \leq signed \/ cursor[s] \leq ledger BY DEF CursorsEarned
  <2>3. ASSUME NEW i \in Msgs, Advance(s, i) PROVE cursor'[s] \leq signed'
    <3>1. RecipientsOf(s) # {} BY <2>3 DEF Advance, AddressedTo
    <3>2. Role \in RecipientsOf(s)
      BY <3>1 DEF RecipientsOf, CursorsEarned
    <3>3. cursor'[s] = i /\ signed' = Later(signed, i)
      BY <2>3, <3>2 DEF Advance, TypeOK
    <3> QED BY <2>1, <3>3, CountersGrow DEF Later
  <2>4. watermark \leq ledger BY DEF CursorsEarned
  <2>5. ~V1 BY DEF Legacy
  <2>6. \/ cursor'[s] = cursor[s]
        \/ cursor'[s] \leq watermark
        \/ cursor'[s] \leq ledger'
        \/ \E i \in Msgs : Advance(s, i)
        \/ \E old \in Sessions, mode \in Modes : Rotate(old, s, mode)
    BY <2>5, CursorCauses
  <2>7. ASSUME NEW old \in Sessions, NEW mode \in Modes, Rotate(old, s, mode)
        PROVE  cursor'[s] \leq signed' \/ cursor'[s] \leq ledger'
    <3>1. PICK i \in {0} \cup Posted :
            /\ cursor' = [cursor EXCEPT ![s] = i]
            /\ signed' = IF i > cursor[old] THEN Later(signed, i) ELSE signed
      BY <2>7, RotateEffect
    <3>2. old \in Owners /\ ledger' = ledger BY <2>7, RotateEffect
    <3>3. cursor'[s] = i BY <3>1 DEF TypeOK
    <3>4. old \in Sessions \ Diagnosing BY <3>2 DEF Owners, CursorsEarned, Legacy
    <3>5. cursor[old] \leq signed \/ cursor[old] \leq ledger BY <3>4 DEF CursorsEarned
    <3>6. i \in Nat /\ cursor[old] \in Nat BY <3>1, ForwardStep, Positions
    <3>7. CASE i > cursor[old] BY <3>1, <3>3, <3>6, <3>7, CountersGrow DEF Later
    <3>8. CASE ~(i > cursor[old])
      BY <3>1, <3>2, <3>3, <3>5, <3>6, <3>8, CountersGrow
    <3> QED BY <3>7, <3>8
  <2> QED BY <2>1, <2>2, <2>3, <2>4, <2>6, <2>7, CountersGrow
<1>4. \A i \in completed' : msgs'[i].to \ {Role} \subseteq Diagnosing
  <2>1. ASSUME NEW i \in completed PROVE msgs'[i].to \ {Role} \subseteq Diagnosing
    <3>1. msgs'[i] = msgs[i] BY LedgerGrows DEF TypeOK
    <3> QED BY <3>1 DEF CursorsEarned
  <2>2. ASSUME NEW i \in Msgs, Complete(i)
        PROVE  msgs'[i].to \ {Role} \subseteq Diagnosing
    <3>1. /\ i \in Posted /\ msgs' = msgs
          /\ \A r \in msgs[i].to : RecipientAcknowledged(r, i)
      BY <2>2 DEF Complete
    <3>2. msgs[i].to \subseteq {Role} \cup Sessions BY <3>1, Positions DEF Form
    <3> QED BY <3>1, <3>2 DEF RecipientAcknowledged, CursorsEarned
  <2> QED BY <2>1, <2>2, CompletedCauses
<1> QED BY <1>1, <1>2, <1>3, <1>4 DEF CursorsEarned

\* One completion: the evidence of the queue is the evidence of the property.
LEMMA CompleteStep ==
  ASSUME TypeOK, CursorsEarned, CompletedByOwner, Legacy, NEW i \in Msgs, Complete(i)
  PROVE  CompletedByOwner'
<1>1. /\ i \in Posted /\ completed' = completed \cup {i}
      /\ \A r \in msgs[i].to : RecipientAcknowledged(r, i)
      /\ UNCHANGED <<msgs, answered, ledger, signed, cursor>>
  BY DEF Complete, history
<1>2. /\ i \in Nat /\ watermark \in Nat /\ ledger \in Nat /\ signed \in Nat
      /\ \A s \in Sessions : cursor[s] \in Nat
  BY Positions DEF TypeOK, Msgs
<1>3. ASSUME Role \in msgs[i].to
      PROVE  i \in answered \/ i \leq ledger \/ i \leq signed
  <2>1. i \in answered \/ i \leq watermark \/ \E s \in Owners : i \leq cursor[s]
    BY <1>1, <1>3 DEF RecipientAcknowledged, RoleReaders
  <2>2. ASSUME NEW s \in Owners, i \leq cursor[s]
        PROVE  i \leq ledger \/ i \leq signed
    <3>1. s \in Sessions \ Diagnosing BY DEF Owners, CursorsEarned, Legacy
    <3>2. cursor[s] \leq signed \/ cursor[s] \leq ledger BY <3>1 DEF CursorsEarned
    <3> QED BY <1>2, <2>2, <3>1, <3>2
  <2> QED BY <1>2, <2>1, <2>2 DEF CursorsEarned
<1>4. \A s \in msgs[i].to \ {Role} : i \leq cursor[s]
  BY <1>1 DEF RecipientAcknowledged
<1> QED BY <1>1, <1>3, <1>4 DEF CompletedByOwner

LEMMA CompletedStep ==
  ASSUME TypeOK, CursorsEarned, CompletedByOwner, [Next]_vars, Legacy
  PROVE  CompletedByOwner'
<1>1. CASE \E i \in Msgs : Complete(i) BY <1>1, CompleteStep
<1>2. CASE UNCHANGED completed
  <2> SUFFICES ASSUME NEW i \in completed
               PROVE  /\ Role \in msgs'[i].to =>
                           i \in answered' \/ i \leq ledger' \/ i \leq signed'
                      /\ \A s \in msgs'[i].to \ {Role} : i \leq cursor'[s]
    BY <1>2 DEF CompletedByOwner
  <2>1. i \in Posted /\ i \in Nat /\ msgs'[i] = msgs[i]
    BY Positions, LedgerGrows DEF TypeOK
  <2>2. answered \subseteq answered'
    BY DEF Next, Inboxes, Ledger, Bindings, Queue, Check, Advance, Post, Release,
           WatermarkPost, Answer, Reclaim, BindActive, BindDiagnostic, BindRetired,
           Sweep, Rebind, Rotate, Complete, vars
  <2>3. Role \in msgs[i].to => i \in answered \/ i \leq ledger \/ i \leq signed
    BY DEF CompletedByOwner
  <2>4. ASSUME NEW s \in msgs[i].to \ {Role} PROVE i \leq cursor'[s]
    <3>1. s \in Sessions BY <2>1, Positions DEF Form
    <3>2. i \leq cursor[s] BY DEF CompletedByOwner
    <3>3. s \in Diagnosing BY DEF CursorsEarned
    <3>4. ~SetBack(s)
      <4>1. ASSUME NEW old \in Sessions, NEW mode \in Modes, Rotate(old, s, mode)
            PROVE  FALSE
        BY <3>1, <3>3, <4>1, RotateEffect DEF Legacy
      <4> QED BY <4>1 DEF SetBack, Modes
    <3> QED BY <2>1, <3>1, <3>2, <3>4, ForwardStep
  <2> QED BY <2>1, <2>2, <2>3, <2>4, CountersGrow
<1>3. (\E i \in Msgs : Complete(i)) \/ UNCHANGED completed
  BY DEF Next, Inboxes, Ledger, Bindings, Queue, Check, Advance, Post, Release,
         WatermarkPost, Answer, Reclaim, BindActive, BindDiagnostic, BindRetired,
         Sweep, Rebind, Rotate, vars
<1> QED BY <1>1, <1>2, <1>3

\* In a legacy topic whose operators keep owners and diagnostic sessions apart,
\* the pump completes a delivery to the role only on evidence of the role or of an
\* operator who rotated it.
THEOREM CompletionsAreEarned ==
  ASSUME Legacy
  PROVE  Spec => []CompletedByOwner
<1>1. Init => CursorsEarned /\ CompletedByOwner
  BY DEF Init, CursorsEarned, CompletedByOwner
<1>2. TypeOK /\ (CursorsEarned /\ CompletedByOwner) /\ [Next]_vars
        => (CursorsEarned /\ CompletedByOwner)'
  BY EarnedStep, CompletedStep
<1> QED BY <1>1, <1>2, TypeCorrect, PTL DEF Spec
--------------------------------------------------------------------------------
(* What an owner leaves behind                                             *)

\* What an owner that never chose where to read has behind its cursor or its
\* delivery marker it was shown, or the role's WATERMARK covers.
Reached ==
  /\ \A s \in Sessions : pageEnd[s] \leq delivered[s]
  /\ watermark \leq ledger
  /\ \A s \in Owners \ walked : \A i \in RoleMessages :
       seated < i /\ (i \leq cursor[s] \/ i \leq delivered[s])
         => i \in shown[s] \/ i \leq ledger

\* A page has no holes: what is selected before one of its rows is on it.
LEMMA PageIsPrefix ==
  ASSUME TypeOK, NEW S \in SUBSET Posted, NEW j \in Page(S), NEW i \in S, i \leq j
  PROVE  i \in Page(S)
<1> DEFINE Upto(k) == {x \in S : x \leq k}
<1>1. S \subseteq 1 .. Len(msgs) /\ Len(msgs) \in Nat BY Positions DEF Posted
<1>2. IsFiniteSet(1 .. Len(msgs)) BY <1>1, FS_Interval
<1>3. IsFiniteSet(S) BY <1>1, <1>2, FS_Subset
<1>4. Upto(i) \subseteq Upto(j) /\ Upto(j) \subseteq S
  <2>1. j \in S BY DEF Page
  <2>2. \A x \in S : x \in Nat BY <1>1
  <2>3. \A x \in S : x \leq i => x \leq j BY <2>1, <2>2
  <2> QED BY <2>3
<1>5. IsFiniteSet(Upto(j)) BY <1>3, <1>4, FS_Subset
<1>6. Cardinality(Upto(i)) \leq Cardinality(Upto(j))
  BY <1>4, <1>5, FS_Subset
<1>7. IsFiniteSet(Upto(i)) BY <1>4, <1>5, FS_Subset
<1>8. Cardinality(Upto(i)) \in Nat /\ Cardinality(Upto(j)) \in Nat
  BY <1>5, <1>7, FS_CardinalityType
<1>9. Cardinality(Upto(j)) \leq Limit BY DEF Page
<1>10. Limit \in Nat BY ConstantsAssumption
<1>11. Cardinality(Upto(i)) \leq Limit
  <2> HIDE DEF Upto
  <2> QED BY <1>6, <1>8, <1>9, <1>10
<1> QED BY <1>11 DEF Page

LEMMA NewMessages ==
  ASSUME TypeOK, [Next]_vars
  PROVE  \A i \in RoleMessages' : i \in Nat /\ (i \in RoleMessages \/ i > Len(msgs))
<1> SUFFICES ASSUME NEW i \in RoleMessages'
             PROVE  i \in Nat /\ (i \in RoleMessages \/ i > Len(msgs))
  OBVIOUS
<1>1. i \in Posted' /\ Role \in msgs'[i].to /\ ~msgs'[i].blind BY DEF RoleMessages
<1>2. TypeOK' BY TypeStep
<1>3. i \in Nat /\ i \geq 1
  <2>1. Len(msgs') \in Nat BY <1>2 DEF TypeOK
  <2> QED BY <1>1, <2>1 DEF Posted
<1>4. CASE i \in Posted BY <1>1, <1>3, <1>4, LedgerGrows DEF RoleMessages
<1>5. CASE i \notin Posted BY <1>3, <1>5, Positions DEF Posted
<1> QED BY <1>4, <1>5

\* debate/v1 has no one-shots, so nothing is dropped from a page.
NoOneShots == V1 => \A i \in Posted : ~OneShot(i)

LEMMA NoOneShotsStep ==
  ASSUME TypeOK, NoOneShots, [Next]_vars
  PROVE  NoOneShots'
<1>1. ASSUME V1, NEW i \in Posted', OneShot(i)' PROVE FALSE
  <2>1. CASE \E f \in Forms : Post(f)
    <3>1. PICK f \in Forms : Post(f) BY <2>1
    <3>2. msgs' = Append(msgs, f) /\ f.sort # "oneshot" BY <1>1, <3>1 DEF Post
    <3>3. msgs \in Seq(Forms) BY DEF TypeOK
    <3>4. Len(msgs') = Len(msgs) + 1 /\ Len(msgs) \in Nat BY <3>2, <3>3
    <3>5. CASE i = Len(msgs) + 1
      BY <1>1, <3>2, <3>3, <3>5 DEF OneShot
    <3>6. CASE i # Len(msgs) + 1
      <4>1. i \in Posted BY <1>1, <3>4, <3>6 DEF Posted
      <4>2. msgs'[i] = msgs[i] BY <3>2, <3>3, <4>1 DEF Posted
      <4> QED BY <1>1, <4>1, <4>2 DEF OneShot, NoOneShots
    <3> QED BY <3>5, <3>6
  <2>2. CASE UNCHANGED msgs
    BY <1>1, <2>2 DEF NoOneShots, OneShot, Posted
  <2> QED BY <2>1, <2>2, PostOrKeep
<1> QED BY <1>1 DEF NoOneShots

\* What a check puts behind the delivery marker is on its page.
LEMMA ReachedCheck ==
  ASSUME TypeOK, NoOneShots, Reached, V1, NEW s \in Sessions, NEW from \in Msgs \cup {0},
         Check(s, from)
  PROVE  Reached'
<1> DEFINE c    == IF from = 0 THEN Reconciled(s, watermark) ELSE cursor[s]
           rows == Inbox(s, c, from)
           page == PageOf(s, from)
           pending == page \ Answered(page)
<1>1. page = Page(rows) /\ rows \subseteq Posted
  BY DEF PageOf, Inbox, AddressedTo
<1>2. page \subseteq Posted /\ page \in SUBSET (0 .. Len(msgs)) BY PageShape
<1>3. pending = page
  BY <1>2 DEF Answered, NoOneShots
<1>4. /\ delivered' = [delivered EXCEPT ![s] =
           IF V1 /\ page # {} THEN Later(@, Last(page)) ELSE @]
      /\ shown' = [shown EXCEPT ![s] = @ \cup {i \in page : V1 \/ OneShot(i)}]
      /\ pageEnd' = [pageEnd EXCEPT ![s] =
           IF V1 /\ page # rows /\ page # {} THEN Last(page) ELSE 0]
      /\ walked' = IF V1 /\ from \notin {0, pageEnd[s]} THEN walked \cup {s} ELSE walked
      /\ cursor' = [cursor EXCEPT ![s] = c]
      /\ UNCHANGED <<msgs, binding, watermark, seated, ledger>>
  BY <1>3 DEF Check, PageOf
<1>5. page # {} => Last(page) \in page /\ \A i \in page : i \leq Last(page)
  BY <1>3, CheckEffect
<1>6. cursor'[s] = c /\ (c = cursor[s] \/ c \leq watermark) /\ c \in Nat
  <2>1. cursor'[s] = c BY <1>4 DEF TypeOK
  <2>2. /\ cursor'[s] \in {0} \cup Posted
        /\ cursor'[s] = cursor[s] \/ cursor'[s] \leq watermark
    BY CheckEffect
  <2> HIDE DEF c
  <2>3. cursor'[s] \in Nat BY <2>2, Positions
  <2> QED BY <2>1, <2>2, <2>3
<1>7. RoleMessages' = RoleMessages /\ Owners' = Owners
  BY <1>4 DEF RoleMessages, Owners, Posted
<1>8. /\ \A t \in Sessions : /\ delivered[t] \in Nat /\ pageEnd[t] \in Nat
                             /\ shown[t] \subseteq Posted
      /\ watermark \in Nat /\ ledger \in Nat /\ seated \in Nat
      /\ RoleMessages \subseteq Posted /\ Posted \subseteq Nat
      /\ \A i \in Posted : i \geq 1
  BY Positions DEF TypeOK, RoleMessages, Posted
\* What the marker may newly cover was selected.
<1>9. ASSUME s \in Owners, from \in {0, pageEnd[s]}, NEW i \in RoleMessages,
             i > c \/ (from # 0 /\ i > delivered[s]), i > delivered[s]
      PROVE  i \in rows
  <2>1. i \in AddressedTo(RecipientsOf(s))
    BY <1>9 DEF RecipientsOf, AddressedTo, RoleMessages, Visible
  <2>2. ~Taken(s, i) BY <1>8 DEF Taken, NoOneShots
  <2>3. i \in Nat BY <1>8
  <2>4. CASE from = 0
    <3>1. i > c BY <1>9, <2>4
    <3> QED BY <2>1, <2>2, <2>4, <3>1 DEF Inbox, PastCursor
  <2>5. CASE from # 0
    <3>1. pageEnd[s] \leq delivered[s] /\ from = pageEnd[s] BY <1>9, <2>5 DEF Reached
    <3>2. i > from BY <1>8, <1>9, <2>3, <3>1
    <3> QED BY <2>1, <2>2, <2>5, <3>2 DEF Inbox
  <2> QED BY <2>4, <2>5
<1> HIDE DEF page, rows, c, pending
<1>10. /\ \A t \in Sessions \ {s} : /\ delivered'[t] = delivered[t]
                                    /\ pageEnd'[t] = pageEnd[t]
                                    /\ shown'[t] = shown[t]
                                    /\ cursor'[t] = cursor[t]
       /\ delivered'[s] = IF page # {} THEN Later(delivered[s], Last(page)) ELSE delivered[s]
       /\ pageEnd'[s] = IF page # rows /\ page # {} THEN Last(page) ELSE 0
       /\ shown'[s] = shown[s] \cup page
  BY <1>4 DEF TypeOK
<1>11. page # {} => Last(page) \in Nat BY <1>2, <1>5, <1>8
<1>12. \A t \in Sessions : pageEnd'[t] \leq delivered'[t]
  <2>1. pageEnd'[s] \leq delivered'[s] BY <1>8, <1>10, <1>11 DEF Later
  <2> QED BY <1>10, <2>1 DEF Reached
<1>13. ASSUME NEW t \in Owners' \ walked', NEW i \in RoleMessages',
              seated' < i, i \leq cursor'[t] \/ i \leq delivered'[t]
       PROVE  i \in shown'[t] \/ i \leq ledger'
  <2>1. /\ t \in Owners \ walked /\ i \in RoleMessages /\ seated < i /\ ledger' = ledger
        /\ t \in Sessions /\ i \in Nat /\ i \in Posted
    BY <1>4, <1>7, <1>8, <1>13 DEF Owners
  <2>2. CASE t # s
    BY <1>10, <1>13, <2>1, <2>2 DEF Reached
  <2>3. CASE t = s
    <3>1. from \in {0, pageEnd[s]} BY <1>4, <1>13, <2>3
    <3>2. CASE i \leq cursor[s] \/ i \leq delivered[s]
      BY <1>10, <2>1, <2>3, <3>2 DEF Reached
    <3>3. CASE i \leq watermark
      BY <1>8, <2>1, <3>3 DEF Reached
    <3>4. CASE ~(i \leq cursor[s]) /\ ~(i \leq delivered[s]) /\ ~(i \leq watermark)
      <4>1. i > c /\ i > delivered[s]
        <5>1. cursor[s] \in Nat
          <6>1. cursor[s] \in {0} \cup Posted BY DEF TypeOK
          <6> QED BY <6>1, Positions
        <5>2. ~(i \leq c) BY <1>6, <1>8, <2>1, <3>4, <5>1
        <5> QED BY <1>6, <1>8, <2>1, <2>3, <3>4, <5>2
      <4>2. i \leq delivered'[s]
        BY <1>6, <1>8, <1>13, <2>1, <2>3, <4>1
      <4>3. page # {} /\ i \leq Last(page)
        BY <1>8, <1>10, <1>11, <2>1, <2>3, <4>1, <4>2 DEF Later
      <4>4. i \in rows BY <1>9, <2>1, <2>3, <3>1, <4>1
      <4>5. i \in page BY <1>1, <1>5, <4>3, <4>4, PageIsPrefix
      <4> QED BY <1>10, <2>3, <4>5
    <3> QED BY <3>2, <3>3, <3>4
  <2> QED BY <2>2, <2>3
<1>14. watermark' \leq ledger' BY <1>4 DEF Reached
<1> QED BY <1>12, <1>13, <1>14 DEF Reached

\* A step that leaves the seat, or empties it, or fills it afresh.
LEMMA ReachedFrame ==
  ASSUME TypeOK, Reached, [Next]_vars,
         UNCHANGED <<delivered, pageEnd, walked, shown>>,
         watermark' \leq ledger',
         \/ /\ Owners' \subseteq Owners /\ seated' = seated
            /\ \A s \in Owners' \ walked : \/ cursor'[s] \leq cursor[s]
                                           \/ cursor'[s] \leq delivered[s]
                                           \/ cursor'[s] \leq ledger'
         \/ Owners' = {}
         \/ seated' = Len(msgs) /\ UNCHANGED msgs
  PROVE  Reached'
<1>1. /\ \A s \in Sessions : /\ cursor[s] \in Nat /\ delivered[s] \in Nat
                             /\ cursor'[s] \in Nat
                             /\ cursor[s] \leq Len(msgs) /\ delivered[s] \leq Len(msgs)
      /\ Len(msgs) \in Nat /\ seated \in Nat
  BY Positions, ForwardStep DEF TypeOK, Posted
<1>2. ledger \in Nat /\ ledger' \in Nat /\ ledger \leq ledger' /\ ledger \leq Len(msgs)
  BY CountersGrow, Positions DEF TypeOK, Posted
<1>3. ASSUME NEW s \in Owners' \ walked', NEW i \in RoleMessages',
             seated' < i, i \leq cursor'[s] \/ i \leq delivered'[s]
      PROVE  i \in shown'[s] \/ i \leq ledger'
  <2>0. s \in Sessions /\ s \notin walked BY <1>3 DEF Owners
  <2>1. i \in Nat /\ (i \in RoleMessages \/ i > Len(msgs)) BY NewMessages
  <2>2. CASE /\ Owners' \subseteq Owners /\ seated' = seated
             /\ \A t \in Owners' \ walked : \/ cursor'[t] \leq cursor[t]
                                            \/ cursor'[t] \leq delivered[t]
                                            \/ cursor'[t] \leq ledger'
    <3>1. s \in Owners \ walked /\ seated < i BY <1>3, <2>0, <2>2
    <3>2. \/ cursor'[s] \leq cursor[s] \/ cursor'[s] \leq delivered[s]
          \/ cursor'[s] \leq ledger'
      BY <1>3, <2>0, <2>2
    <3>3. i \leq cursor[s] \/ i \leq delivered[s] \/ i \leq ledger'
      BY <1>1, <1>2, <1>3, <2>0, <2>1, <3>2
    <3>4. CASE i \leq ledger' BY <3>4
    <3>5. CASE i \leq cursor[s] \/ i \leq delivered[s]
      <4>1. ~(i > Len(msgs)) BY <1>1, <2>0, <2>1, <3>5
      <4>2. i \in shown[s] \/ i \leq ledger BY <2>1, <3>1, <3>5, <4>1 DEF Reached
      <4> QED BY <1>2, <2>1, <4>2
    <3> QED BY <3>3, <3>4, <3>5
  <2>3. CASE Owners' = {} BY <1>3, <2>3
  <2>4. CASE seated' = Len(msgs) /\ UNCHANGED msgs
    <3>1. i \leq Len(msgs)
      <4>1. RoleMessages' \subseteq Posted BY <2>4 DEF RoleMessages, Posted
      <4> QED BY <1>1, <4>1 DEF Posted
    <3> QED BY <1>1, <1>3, <2>1, <2>4, <3>1
  <2> QED BY <2>2, <2>3, <2>4
<1>4. \A s \in Sessions : pageEnd'[s] \leq delivered'[s] BY DEF Reached
<1> QED BY <1>3, <1>4 DEF Reached

LEMMA ReachedAdvance ==
  ASSUME TypeOK, Reached, V1, [Next]_vars, NEW s \in Sessions, NEW i \in Msgs,
         Advance(s, i)
  PROVE  Reached'
<1>1. /\ cursor' = [cursor EXCEPT ![s] = i] /\ i \leq delivered[s]
      /\ UNCHANGED <<binding, seated, delivered, pageEnd, walked, shown, watermark, ledger>>
  BY DEF Advance, WasDelivered
<1>2. Owners' = Owners BY <1>1 DEF Owners
<1>3. \A t \in Sessions : cursor'[t] \leq cursor[t] \/ cursor'[t] \leq delivered[t]
  BY <1>1, ForwardStep DEF TypeOK
<1>4. watermark' \leq ledger' BY <1>1 DEF Reached
<1> QED BY <1>1, <1>2, <1>3, <1>4, ReachedFrame DEF Owners

LEMMA ReachedWatermark ==
  ASSUME TypeOK, Reached, [Next]_vars, NEW i \in Msgs, WatermarkPost(i)
  PROVE  Reached'
<1>1. /\ watermark' = i /\ ledger' = Later(ledger, i)
      /\ cursor' = [s \in Sessions |-> Reconciled(s, i)]
      /\ UNCHANGED <<binding, seated, delivered, pageEnd, walked, shown>>
  BY DEF WatermarkPost
<1>2. i \in Nat /\ ledger \in Nat BY Positions DEF Msgs, TypeOK
<1>3. watermark' \leq ledger' /\ i \leq ledger' BY <1>1, <1>2 DEF Later
<1>4. ASSUME NEW s \in Sessions
      PROVE  cursor'[s] \leq cursor[s] \/ cursor'[s] \leq ledger'
  <2>1. cursor'[s] = Reconciled(s, i) BY <1>1
  <2>2. Reconciled(s, i) = cursor[s] \/ Reconciled(s, i) \leq i
    BY <1>2, ReconciledForward
  <2> QED BY <1>2, <1>3, <2>1, <2>2, ForwardStep, CountersGrow
<1>5. Owners' = Owners BY <1>1 DEF Owners
<1> QED BY <1>1, <1>3, <1>4, <1>5, ReachedFrame DEF Owners

LEMMA ReachedBindings ==
  ASSUME TypeOK, Reached, [Next]_vars, Bindings
  PROVE  Reached'
<1>0. ASSUME NEW old \in Sessions, NEW new \in Sessions, NEW mode \in Modes,
             Rotate(old, new, mode)
      PROVE  Reached'
  <2>1. /\ seated' = Len(msgs)
        /\ UNCHANGED <<msgs, delivered, pageEnd, walked, shown, watermark, ledger>>
    BY <1>0, RotateEffect
  <2>2. watermark' \leq ledger' BY <2>1 DEF Reached
  <2> QED BY <2>1, <2>2, ReachedFrame
<1>00. SUFFICES ASSUME NEW s \in Sessions,
                       BindActive(s) \/ BindDiagnostic(s) \/ BindRetired(s) \/ Sweep(s)
                PROVE  Reached'
  BY <1>0 DEF Bindings
<1>1. BindActive(s) \/ BindDiagnostic(s) \/ BindRetired(s) \/ Sweep(s) BY <1>00
<1>2. PICK b : Rebind(b) BY <1>1 DEF BindActive, BindDiagnostic, BindRetired, Sweep
<1>3. /\ binding' = b
      /\ UNCHANGED <<msgs, delivered, pageEnd, walked, shown, watermark, ledger>>
  BY <1>2 DEF Rebind
<1>4. watermark' \leq ledger' BY <1>3 DEF Reached
<1>5. Owners' = {t \in Sessions : b[t] = "active"} BY <1>3 DEF Owners
<1>6. CASE \E t \in Sessions : b[t] = "active" /\ t \notin Owners
  <2>1. seated' = Len(msgs) BY <1>2, <1>6 DEF Rebind
  <2> QED BY <1>3, <1>4, <2>1, ReachedFrame
<1>7. CASE ~ \E t \in Sessions : b[t] = "active" /\ t \notin Owners
  <2>1. Owners' \subseteq Owners BY <1>5, <1>7
  <2>2. ~Sweep(s)
    <3>1. ASSUME Sweep(s) PROVE FALSE
      <4>1. binding' = [binding EXCEPT ![s] = "active"] /\ Owners = {}
        BY <3>1 DEF Sweep, Rebind
      <4>2. b[s] = "active" BY <1>3, <4>1 DEF TypeOK
      <4> QED BY <1>7, <4>1, <4>2
    <3> QED BY <3>1
  <2>3. cursor' = cursor
    BY <1>1, <2>2 DEF BindActive, BindDiagnostic, BindRetired
  <2>4. CASE Owners' = {} BY <1>3, <1>4, <2>4, ReachedFrame
  <2>5. CASE Owners' # {}
    <3>1. \E t \in Owners : b[t] = "active" BY <1>5, <2>1, <2>5
    <3>2. seated' = seated BY <1>2, <1>7, <3>1 DEF Rebind
    <3>3. \A t \in Sessions : cursor'[t] \leq cursor[t] BY <2>3, ForwardStep
    <3> QED BY <1>3, <1>4, <2>1, <3>2, <3>3, ReachedFrame DEF Owners
  <2> QED BY <2>4, <2>5
<1> QED BY <1>6, <1>7

LEMMA ReachedStep ==
  ASSUME TypeOK, NoOneShots, Reached, V1, [Next]_vars
  PROVE  Reached'
<1>1. CASE Inboxes BY <1>1, ReachedCheck, ReachedAdvance DEF Inboxes
<1>2. CASE \E i \in Msgs : WatermarkPost(i) BY <1>2, ReachedWatermark
<1>3. CASE Bindings BY <1>3, ReachedBindings
<1>4. CASE UNCHANGED <<cursor, delivered, pageEnd, walked, shown, binding, seated,
                       watermark, ledger>>
  <2>1. Owners' = Owners BY <1>4 DEF Owners
  <2>2. watermark' \leq ledger' BY <1>4 DEF Reached
  <2>3. \A s \in Sessions : cursor'[s] \leq cursor[s] BY <1>4, ForwardStep
  <2> QED BY <1>4, <2>1, <2>2, <2>3, ReachedFrame DEF Owners
<1>5. CASE Ledger
  <2>1. \/ \E i \in Msgs : WatermarkPost(i)
        \/ UNCHANGED <<cursor, delivered, pageEnd, walked, shown, binding, seated,
                       watermark, ledger>>
    BY <1>5 DEF Ledger, Post, Release, Answer, Reclaim, history
  <2> QED BY <1>2, <1>4, <2>1
<1>6. CASE Queue \/ UNCHANGED vars
  <2>1. UNCHANGED <<cursor, delivered, pageEnd, walked, shown, binding, seated,
                    watermark, ledger>>
    BY <1>6 DEF Queue, Complete, history, vars
  <2> QED BY <1>4, <2>1
<1> QED BY <1>1, <1>3, <1>5, <1>6 DEF Next

LEMMA ReachedAlways == Spec => [](TypeOK /\ (V1 => Reached))
<1>1. Init => NoOneShots /\ (V1 => Reached)
  BY DEF Init, NoOneShots, Posted, Reached, Owners
<1>2. TypeOK /\ (NoOneShots /\ (V1 => Reached)) /\ [Next]_vars
        => (NoOneShots /\ (V1 => Reached))'
  BY NoOneShotsStep, ReachedStep
<1> QED BY <1>1, <1>2, TypeCorrect, PTL DEF Spec

\* debate/v1: an owner's cursor leaves no message to the role unseen behind it.
THEOREM NothingMissed == Spec => []OwnerMissesNothing
<1>1. TypeOK /\ (V1 => Reached) => OwnerMissesNothing
  BY DEF Reached, OwnerMissesNothing
<1> QED BY <1>1, ReachedAlways, PTL

\* The advances the marker of signal_check cannot vouch for: of a session that is
\* not the role's owner or chose where to read, to a blind commit or to a direct
\* message, to what was posted before the owner was seated, and to what the
\* role's WATERMARK covers already.
Excused(s, i) ==
  s \notin Owners \/ s \in walked \/ i \notin RoleMessages \/ i \leq seated \/ i \leq ledger

\* signal_advance compares with the greatest position a check returned, not with
\* what was returned; still every advance it accepts in debate/v1 is to a message
\* a check did return to that session, but for the five cases above.
THEOREM ReceiptsVouch ==
  Spec => [][\A s \in Sessions, i \in Msgs :
               V1 /\ Advance(s, i) => i \in shown[s] \/ Excused(s, i)]_vars
<1>1. ASSUME TypeOK, V1 => Reached, NEW s \in Sessions, NEW i \in Msgs, V1,
             Advance(s, i), ~Excused(s, i)
      PROVE  i \in shown[s]
  <2>1. i \leq delivered[s] BY <1>1 DEF Advance, WasDelivered
  <2>2. s \in Owners \ walked /\ i \in RoleMessages /\ ~(i \leq seated) /\ ~(i \leq ledger)
    BY <1>1 DEF Excused
  <2>3. seated < i
    <3>1. seated \in Nat /\ i \in Nat BY <1>1, Positions DEF TypeOK, Msgs
    <3> QED BY <2>2, <3>1
  <2> QED BY <1>1, <2>1, <2>2, <2>3 DEF Reached
<1>2. TypeOK /\ (V1 => Reached) =>
        [\A s \in Sessions, i \in Msgs :
           V1 /\ Advance(s, i) => i \in shown[s] \/ Excused(s, i)]_vars
  BY <1>1
<1> QED BY <1>2, ReachedAlways, PTL
================================================================================
