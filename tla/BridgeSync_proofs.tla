-------------------------- MODULE BridgeSync_proofs --------------------------
(***************************************************************************)
(* Proofs about BridgeSync, for any machines, statuses, wall clocks,       *)
(* crashes and numbers of edits.                                           *)
(***************************************************************************)
EXTENDS BridgeSync, WellFoundedInduction, TLAPS

USE MachineAssumption, StatusAssumption, WorldAssumption

-----------------------------------------------------------------------------
(* Clocks and keys.                                                        *)

LEMMA MachineNat ==
  \A m \in Machine : m \in Nat /\ 1 <= m /\ m <= 7
OBVIOUS

LEMMA MaxOfTwo ==
  ASSUME NEW a \in Nat, NEW b \in Nat
  PROVE  Max({a, b}) \in {a, b} /\ Max({a, b}) >= a /\ Max({a, b}) >= b
<1>1. \E x \in {a, b} : \A y \in {a, b} : x >= y
      BY SMT
<1> QED BY <1>1 DEF Max

LEMMA MaxOfThree ==
  ASSUME NEW a \in Nat, NEW b \in Nat, NEW c \in Nat
  PROVE  Max({a, b, c}) \in Nat /\ Max({a, b, c}) >= c
<1>1. \E x \in {a, b, c} : \A y \in {a, b, c} : x >= y
      BY SMT
<1> QED BY <1>1 DEF Max

\* Any nonempty set of naturals has a least member.
LEMMA LeastNatural ==
  ASSUME NEW S \in SUBSET Nat, S # {}
  PROVE  \E i \in S : \A j \in S : i \leq j
<1>1. PICK i \in S : \A j \in S : ~(<<j, i>> \in OpToRel(<, Nat))
      BY WFMin, NatLessThanWellFounded
<1>2. \A j \in S : ~(j < i) BY <1>1 DEF OpToRel
<1> QED BY <1>2

\* The task was created by one of the machines.
LEMMA FirstWriter == Min(Machine) \in Machine
<1>1. Machine \in SUBSET Nat OBVIOUS
<1>2. \E x \in Machine : \A y \in Machine : x <= y BY <1>1, LeastNatural
<1> QED BY <1>2 DEF Min

\* A key determines the clock and the writer.
LEMMA KeyIsUnique ==
  ASSUME NEW a, NEW b, a.order \in Nat, b.order \in Nat,
         a.by \in Machine, b.by \in Machine
  PROVE  /\ Key(a) \in Nat
         /\ Key(a) = Key(b) => a.order = b.order /\ a.by = b.by
         /\ a.order < b.order => Key(a) < Key(b)
<1> DEFINE i == a.order  x == a.by  j == b.order  y == b.by
<1>1. /\ i \in Nat /\ x \in Nat /\ 1 <= x /\ x <= 7
      /\ j \in Nat /\ y \in Nat /\ 1 <= y /\ y <= 7
      BY MachineNat
<1>2. Key(a) = 8 * i + x /\ Key(b) = 8 * j + y BY DEF Key
<1> HIDE DEF i, x, j, y
<1>3. /\ 8 * i + x \in Nat
      /\ 8 * i + x = 8 * j + y => i = j /\ x = y
      /\ i < j => 8 * i + x < 8 * j + y
      BY <1>1
<1> QED BY <1>2, <1>3 DEF i, x, j, y

LEMMA KeyBound ==
  ASSUME NEW v, v.order \in Nat, v.by \in Machine, NEW B \in Nat, v.order <= B
  PROVE  Key(v) \in Nat /\ Key(v) <= 8 * B + 7
<1> DEFINE i == v.order  x == v.by
<1>1. i \in Nat /\ i <= B /\ x \in Nat /\ 1 <= x /\ x <= 7 BY MachineNat
<1>2. Key(v) = 8 * i + x BY DEF Key
<1> HIDE DEF i, x
<1> QED BY <1>1, <1>2

\* The newest of a nonempty set whose keys are bounded.
LEMMA NewestOfSet ==
  ASSUME NEW S, S # {}, NEW B \in Nat,
         \A e \in S : Key(e) \in Nat /\ Key(e) <= B
  PROVE  Newest(S) \in S /\ \A f \in S : Key(Newest(S)) >= Key(f)
<1> DEFINE D == {n \in Nat : \E e \in S : n = B - Key(e)}
<1>1. \A e \in S : B - Key(e) \in D OBVIOUS
<1>2. D \in SUBSET Nat /\ D # {} BY <1>1
<1> HIDE DEF D
<1>3. PICK i \in D : \A j \in D : i <= j BY <1>2, LeastNatural
<1>4. PICK e \in S : i = B - Key(e) BY <1>3 DEF D
<1>5. \A f \in S : Key(e) >= Key(f) BY <1>1, <1>3, <1>4
<1> QED BY <1>4, <1>5 DEF Newest

-----------------------------------------------------------------------------
(* Status authority.                                                       *)

States == [status : Status, sv : Versions, fval : Status \cup {"none"}]
Candidates == [value : Status, order : Nat, by : Machine, ev : Nat]

Bounded(L, B) == \A e \in L : e.order <= B

\* The newest event of a ledger.
LEMMA HeadOfLedger ==
  ASSUME NEW L \in Ledgers, NEW B \in Nat, Bounded(L, B)
  PROVE  /\ Head(L) \subseteq L
         /\ \A e \in L : \E h \in Head(L) : Key(h) >= Key(e)
<1>1. \A e \in L : Key(e) \in Nat /\ Key(e) <= 8 * B + 7
  <2> TAKE e \in L
  <2>1. e.order \in Nat /\ e.by \in Machine /\ e.order <= B
        BY DEF Ledgers, Events, Bounded
  <2> QED BY <2>1, KeyBound
<1>2. CASE L = {} BY <1>2 DEF Head
<1>3. CASE L # {}
  <2>1. Newest(L) \in L /\ \A f \in L : Key(Newest(L)) >= Key(f)
        BY <1>1, <1>3, NewestOfSet
  <2> QED BY <2>1, <1>3 DEF Head
<1> QED BY <1>2, <1>3

LEMMA CandidateType ==
  ASSUME NEW st \in States, NEW L \in Ledgers, NEW B \in Nat, Bounded(L, B)
  PROVE  /\ Cands(st, L) \subseteq Candidates
         /\ FieldCand(st) \subseteq Cands(st, L)
         /\ \E C \in Nat : \A c \in Cands(st, L) : Key(c) \in Nat /\ Key(c) <= C
         /\ \A e \in L : \E c \in Cands(st, L) : Key(c) >= Key(e)
<1>1. Head(L) \subseteq L /\ \A e \in L : \E h \in Head(L) : Key(h) >= Key(e)
      BY HeadOfLedger
<1>2. EventOf(st.sv, L) \subseteq L BY DEF EventOf
<1>3. \A e \in L : EventCand(e) \in Candidates /\ Key(EventCand(e)) = Key(e)
      BY DEF EventCand, Cand, Candidates, Ledgers, Events, Key
<1>4. FieldCand(st) \subseteq Candidates
      /\ \A c \in FieldCand(st) : c.order = st.sv.order
      BY DEF FieldCand, Cand, Candidates, States, Versions
<1>5. Cands(st, L) \subseteq Candidates /\ FieldCand(st) \subseteq Cands(st, L)
      BY <1>1, <1>2, <1>3, <1>4 DEF Cands
<1>6. \A c \in Cands(st, L) : c.order <= st.sv.order \/ c.order <= B
  <2> TAKE c \in Cands(st, L)
  <2>1. CASE c \in FieldCand(st)
    <3>1. c.order = st.sv.order /\ st.sv.order \in Nat
          BY <1>4, <2>1 DEF States, Versions
    <3> QED BY <3>1
  <2>2. ASSUME NEW e \in L, c = EventCand(e) PROVE c.order <= B
    <3>1. c.order = e.order BY <2>2 DEF EventCand, Cand
    <3> QED BY <3>1, <2>2 DEF Bounded
  <2> QED BY <1>1, <1>2, <2>1, <2>2 DEF Cands
<1>7. \A c \in Cands(st, L) : Key(c) \in Nat /\ Key(c) <= 8 * (st.sv.order + B) + 7
  <2> TAKE c \in Cands(st, L)
  <2>1. c.order \in Nat /\ c.by \in Machine BY <1>5 DEF Candidates
  <2>2. st.sv.order \in Nat BY DEF States, Versions
  <2>3. c.order <= st.sv.order + B BY <1>6, <2>1, <2>2
  <2> QED BY <2>1, <2>2, <2>3, KeyBound
<1>8. 8 * (st.sv.order + B) + 7 \in Nat BY DEF States, Versions
<1>9. \A e \in L : \E c \in Cands(st, L) : Key(c) >= Key(e)
  <2> TAKE e \in L
  <2>1. PICK h \in Head(L) : Key(h) >= Key(e) BY <1>1
  <2>2. EventCand(h) \in Cands(st, L) /\ Key(EventCand(h)) = Key(h)
        BY <1>1, <1>3 DEF Cands
  <2> QED BY <2>1, <2>2
<1> QED BY <1>5, <1>7, <1>8, <1>9

\* What is chosen is a candidate as new as every event of the ledger.
LEMMA ChosenIsNewest ==
  ASSUME NEW st \in States, NEW L \in Ledgers, NEW B \in Nat, Bounded(L, B)
  PROVE  /\ Chosen(st, L) \in Candidates
         /\ \A e \in L : Key(Chosen(st, L)) >= Key(e)
         /\ Cands(st, L) # {} => Chosen(st, L) \in Cands(st, L)
<1>1. PICK C \in Nat : \A c \in Cands(st, L) : Key(c) \in Nat /\ Key(c) <= C
      BY CandidateType
<1>2. CASE Cands(st, L) = {}
  <2>1. L = {} BY <1>2, CandidateType
  <2>2. FieldCand(st) = {} BY <1>2, CandidateType
  <2>3. Cand(st.status, st.sv) \in Candidates
        BY DEF Cand, Candidates, States, Versions
  <2> QED BY <1>2, <2>1, <2>3 DEF Chosen
<1>3. CASE Cands(st, L) # {}
  <2> DEFINE Best == Newest(Cands(st, L))
             Equal == {c \in FieldCand(st) : Key(c) = Key(Best)}
  <2>1. Chosen(st, L) = IF Equal = {} THEN Best ELSE Newest(Equal)
        BY <1>3 DEF Chosen
  <2>2. Best \in Cands(st, L) /\ \A f \in Cands(st, L) : Key(Best) >= Key(f)
        BY <1>1, <1>3, NewestOfSet
  <2>3. Equal \subseteq Cands(st, L) /\ \A c \in Equal : Key(c) = Key(Best)
        BY CandidateType
  <2> HIDE DEF Best, Equal
  <2>4. Equal # {} => Newest(Equal) \in Equal BY <1>1, <2>3, NewestOfSet
  <2>5. Chosen(st, L) \in Cands(st, L) /\ Key(Chosen(st, L)) = Key(Best)
        BY <2>1, <2>2, <2>3, <2>4
  <2>6. \A e \in L : Key(Best) >= Key(e)
    <3> TAKE e \in L
    <3>1. PICK c \in Cands(st, L) : Key(c) >= Key(e) BY CandidateType
    <3>2. Key(Best) >= Key(c) BY <2>2
    <3>3. Key(Best) \in Nat /\ Key(c) \in Nat BY <1>1, <2>2
    <3>4. Key(e) \in Nat BY KeyIsUnique DEF Ledgers, Events
    <3> QED BY <3>1, <3>2, <3>3, <3>4
  <2> QED BY <2>5, <2>6, CandidateType
<1> QED BY <1>2, <1>3

\* The authority of a state.
LEMMA Authorities ==
  ASSUME NEW st \in States, NEW L \in Ledgers, NEW B \in Nat, Bounded(L, B)
  PROVE  /\ Resolve(st, L).value \in Status
         /\ Resolve(st, L).sv \in Versions
         /\ Resolve(st, L).reopens = Reopens(st, L, Chosen(st, L))
         /\ Resolve(st, L).value = Chosen(st, L).value
         /\ \A e \in L : Key(Resolve(st, L).sv) >= Key(e)
<1> DEFINE c == Chosen(st, L)
<1>1. c \in Candidates /\ \A e \in L : Key(c) >= Key(e) BY ChosenIsNewest
<1>2. /\ Resolve(st, L).value = c.value
      /\ Resolve(st, L).sv = [order |-> c.order, by |-> c.by, ev |-> c.ev]
      /\ Resolve(st, L).reopens = Reopens(st, L, Chosen(st, L))
      BY DEF Resolve
<1> HIDE DEF c
<1>3. Key(Resolve(st, L).sv) = Key(c) BY <1>2 DEF Key
<1> QED BY <1>1, <1>2, <1>3 DEF Candidates, Versions, c

\* When the field of a state has an author in the ledger, who agrees with it
\* on the value unless the clock of the version was clamped, the authority is
\* the newest event.
EventVersion(h) == [order |-> h.order, by |-> h.by, ev |-> h.order]

IsNewest(h, L) == h \in L /\ \A f \in L : Key(h) >= Key(f)

Authored(v, fval, L) ==
  \E e \in L :
    /\ e.order = v.ev /\ e.by = v.by /\ v.order <= e.order
    /\ v.order = e.order => fval \in {"none", e.new}

LEMMA NewestDecides ==
  ASSUME NEW st \in States, NEW L \in Ledgers, NEW B \in Nat, Bounded(L, B),
         \A e, f \in L : Key(e) = Key(f) => e = f,
         NEW h, IsNewest(h, L), Authored(st.sv, st.fval, L)
  PROVE  Resolve(st, L).value = h.new /\ Resolve(st, L).sv = EventVersion(h)
<1>1. PICK a \in L :
        /\ a.order = st.sv.ev /\ a.by = st.sv.by /\ st.sv.order <= a.order
        /\ st.sv.order = a.order => st.fval \in {"none", a.new}
      BY DEF Authored
<1>2. h \in L /\ \A e \in L : Key(h) >= Key(e) BY DEF IsNewest
<1>3. \A e \in L : e.order \in Nat /\ e.by \in Machine /\ Key(e) \in Nat
      BY KeyIsUnique DEF Ledgers, Events
<1>4. st.sv.order \in Nat /\ st.sv.by \in Machine BY DEF States, Versions
<1>5. Head(L) \subseteq L /\ EventOf(st.sv, L) \subseteq L
      BY HeadOfLedger DEF EventOf
<1>6. EventCand(h) \in Cands(st, L)
  <2>1. PICK g \in Head(L) : Key(g) >= Key(h) BY <1>2, HeadOfLedger
  <2>2. g = h BY <1>2, <1>3, <1>5, <2>1
  <2> QED BY <2>1, <2>2 DEF Cands
<1>7. \A e \in L : Key(EventCand(e)) = Key(e)
      BY DEF EventCand, Cand, Key
<1>8. \A c \in Cands(st, L) : Key(c) >= Key(h) => c = EventCand(h)
  <2> SUFFICES ASSUME NEW c \in Cands(st, L), Key(c) >= Key(h) PROVE c = EventCand(h)
      OBVIOUS
  <2>1. CASE c \in FieldCand(st)
    <3>1. st.fval # "none" /\ c = Cand(st.fval, st.sv)
          BY <2>1 DEF FieldCand
    <3>2. c.order = st.sv.order /\ c.by = st.sv.by BY <3>1 DEF Cand
    <3>3. Key(c) = Key(st.sv) /\ Key(st.sv) \in Nat
          BY <1>4, <3>2, KeyIsUnique DEF Key
    <3>4. st.sv.order = a.order
      <4>1. CASE st.sv.order < a.order
        <5>1. Key(st.sv) < Key(a) BY <1>3, <1>4, <4>1, KeyIsUnique
        <5> QED BY <1>2, <1>3, <3>3, <5>1
      <4> QED BY <1>1, <1>3, <1>4, <4>1
    <3>5. Key(st.sv) = Key(a) BY <1>1, <3>4 DEF Key
    <3>6. a = h BY <1>2, <1>3, <3>3, <3>5
    <3>7. st.fval = h.new BY <1>1, <3>1, <3>4, <3>6
    <3> QED BY <1>1, <3>1, <3>4, <3>6, <3>7 DEF Cand, EventCand
  <2>2. ASSUME NEW e \in L, c = EventCand(e) PROVE c = EventCand(h)
        BY <1>2, <1>3, <1>7, <2>2
  <2> QED BY <1>5, <2>1, <2>2 DEF Cands
<1>9. Chosen(st, L) = EventCand(h)
      BY <1>2, <1>6, <1>8, ChosenIsNewest
<1> QED BY <1>9 DEF Resolve, EventCand, Cand, EventVersion

-----------------------------------------------------------------------------
(* The invariant.                                                          *)

\* Every event of a ledger, of a clone or of the remote.
AllEvents ==
  UNION ({ledger[m] : m \in Machine}
         \cup {tree[m].ledger : m \in Machine} \cup {remote.ledger})

EventsBounded == \E B \in Nat : Bounded(AllEvents, B)

\* An event is not newer than what its writer's clock gave last.
EventsPast == \A e \in AllEvents : e.order <= last[e.by]

EventsUnique == \A e, f \in AllEvents : Key(e) = Key(f) => e = f

\* A machine has every event it wrote.
EventsKept == \A e \in AllEvents : e \in ledger[e.by]

\* The next clock of a machine is above the version of its row.
RowPast ==
  \A m \in Machine : row[m] # NoTask =>
    row[m].sv.order <= last[m] \/ row[m].sv.order <= Clock(m) + 1

\* An entry is as new as the ledger next to it.
Covers(t) ==
  t.entry # NoTask => \A e \in t.ledger : Key(t.entry.sv) >= Key(e)

EntriesCover == Covers(remote) /\ \A m \in Machine : Covers(tree[m])

Own(m) == {e \in ledger[m] : e.by = m}

\* A clone with nothing to push holds nothing the remote lacks; one that is
\* up to date, and a ledger that imported it, lack nothing the remote holds;
\* an export nothing was written after has all events of its machine, and so
\* has the remote when the machine is clean.
Accounted(m) ==
  /\ phase[m] = "pushed" => ~ahead[m] /\ ~staged[m]
  /\ ~ahead[m] /\ ~staged[m] => tree[m].ledger \subseteq remote.ledger
  /\ ~behind[m] => remote.ledger \subseteq tree[m].ledger
  /\ ~behind[m] /\ phase[m] \in {"ledgered", "merged"} =>
       remote.ledger \subseteq ledger[m]
  /\ ~fresh[m] /\ phase[m] \in {"staged", "pushed"} =>
       Own(m) \subseteq tree[m].ledger
  /\ ~dirty[m] => Own(m) \subseteq remote.ledger

Accounts == ~united => \A m \in Machine : Accounted(m)

EventsInv == EventsBounded /\ EventsPast /\ EventsUnique /\ EventsKept

IInv == Typed /\ EventsInv /\ RowPast /\ EntriesCover /\ Accounts

\* Nothing of the machine's that another one could still be told.
Quiet(m) == ~dirty[m] \/ row[m] = NoTask \/ row[m].aged

\* The events of the others are on the remote.  A clone has what the remote or
\* its machine has, all of that machine after an export nothing was written
\* after, and nothing else once it is imported.  A quiet machine has nothing
\* that the remote or its clone lacks.
Complete(m) ==
  /\ ledger[m] \subseteq Own(m) \cup remote.ledger
  /\ tree[m].ledger \subseteq remote.ledger \cup ledger[m]
  /\ ~fresh[m] /\ phase[m] \in {"staged", "pushed"} =>
       ledger[m] \subseteq tree[m].ledger
  /\ phase[m] \in {"ledgered", "merged"} => tree[m].ledger \subseteq ledger[m]
  /\ Quiet(m) => ledger[m] \subseteq remote.ledger \cap tree[m].ledger

\* The version of a row has its author in the ledger; a hidden row has the
\* event that hid it, or a newer one.
Closed(r, L) ==
  r.status \in Hidden =>
    \E g \in L :
      \/ Key(g) > Key(r.sv)
      \/ Key(g) = Key(r.sv) /\ g.new \in Hidden

Sourced(r, L) == Authored(r.sv, r.fval, L) /\ Closed(r, L)

\* An entry says what the newest event of the ledger next to it says.
Faithful(t) ==
  t.entry # NoTask =>
    \E h \in t.ledger :
      /\ IsNewest(h, t.ledger)
      /\ t.entry.status = h.new /\ t.entry.sv = EventVersion(h)

\* The ledger has the event behind a purged tombstone, or a newer one; the
\* next clock of the machine is above the tombstone.
Past(m, v) == v.order <= last[m] \/ v.order <= Clock(m) + 1

Deleted(m) ==
  gone[m] # 0 =>
    /\ \E f \in ledger[m] :
         \/ Key(f) > gone[m]
         \/ Key(f) = gone[m] /\ f.new \in Hidden
    /\ \E v \in Versions : gone[m] = Key(v) /\ Past(m, v)

\* The task of a purged tombstone came back by a newer edit.
Restored(m) ==
  Visible(m) /\ gone[m] # 0 =>
    \E e \in ledger[m] : e.new \notin Hidden /\ Key(e) > gone[m]

Known(m) ==
  /\ Complete(m)
  /\ row[m] # NoTask => Sourced(row[m], ledger[m])
  /\ Faithful(tree[m])
  /\ Deleted(m) /\ Restored(m)

Histories == ~united => Faithful(remote) /\ \A m \in Machine : Known(m)

LEMMA InAllEvents ==
  /\ remote.ledger \subseteq AllEvents
  /\ \A m \in Machine : ledger[m] \subseteq AllEvents /\ tree[m].ledger \subseteq AllEvents
  /\ \A e \in AllEvents : \/ e \in remote.ledger
                          \/ \E m \in Machine : e \in ledger[m] \/ e \in tree[m].ledger
BY DEF AllEvents

-----------------------------------------------------------------------------
(* What the operations make.                                               *)

LEMMA WorldType ==
  ASSUME Typed
  PROVE  /\ world.edits \in Nat /\ world.faults \in Nat
         /\ \A m \in Machine : world.lead[m] \in Nat /\ Clock(m) \in Nat
<1>1. wall \in Nat /\ world \in Worlds BY DEF Typed
<1>2. /\ world.edits \in Nat /\ world.faults \in Nat
      /\ world.lead \in [Machine -> Nat]
      BY <1>1
<1>3. ASSUME NEW m \in Machine PROVE world.lead[m] \in Nat /\ Clock(m) \in Nat
  <2>1. world.lead[m] \in Nat BY <1>2
  <2> QED BY <1>1, <2>1 DEF Clock
<1> QED BY <1>2, <1>3

\* The next clock is above the last one and above the current instant.
LEMMA ClockMoves ==
  ASSUME Typed, NEW m \in Machine
  PROVE  /\ NextClock(m) \in Nat
         /\ NextClock(m) > last[m]
         /\ NextClock(m) > Clock(m) + 1
<1>1. wall \in Nat /\ last[m] \in Nat /\ world.lead[m] \in Nat
      BY WorldType DEF Typed
<1> DEFINE a == 2 * (wall + 1 + world.lead[m])  b == last[m] + 1
<1>2. a \in Nat /\ b \in Nat /\ a > Clock(m) + 1 /\ b > last[m] BY <1>1 DEF Clock
<1>3. NextClock(m) = Max({a, b}) BY DEF NextClock
<1> HIDE DEF a, b
<1>4. NextClock(m) \in {a, b} /\ NextClock(m) >= a /\ NextClock(m) >= b
      BY <1>2, <1>3, MaxOfTwo
<1>5. Clock(m) \in Nat BY WorldType
<1> QED BY <1>1, <1>2, <1>4, <1>5

LEMMA Clamped ==
  ASSUME Typed, NEW m \in Machine
  PROVE  /\ \A v \in Versions : /\ Clamp(m, v) \in Versions
                                /\ Clamp(m, v).order <= Clock(m) + 1
         /\ \A v \in Priorities : Clamp(m, v) \in Priorities
<1>1. Clock(m) \in Nat BY WorldType
<1>2. \A v \in Versions : /\ Clamp(m, v) \in Versions
                          /\ Clamp(m, v).order <= Clock(m) + 1
  <2> TAKE v \in Versions
  <2>1. CASE v.order > Clock(m) + 1
        BY <1>1, <2>1 DEF Clamp, Versions
  <2>2. CASE ~(v.order > Clock(m) + 1)
        BY <1>1, <2>2 DEF Clamp, Versions
  <2> QED BY <2>1, <2>2
<1>3. \A v \in Priorities : Clamp(m, v) \in Priorities
      BY <1>1 DEF Clamp, Priorities
<1> QED BY <1>2, <1>3

LEMMA RowStates ==
  ASSUME Typed, NEW m \in Machine, row[m] # NoTask
  PROVE  row[m] \in Rows /\ State(row[m]) \in States
BY DEF Typed, Rows, State, States

\* What a machine's row, field version and ledger say of the status.
LEMMA AuthorityOf ==
  ASSUME Typed, EventsBounded, NEW m \in Machine, row[m] # NoTask
  PROVE  /\ Authority(m).value \in Status
         /\ Authority(m).sv \in Versions
         /\ Authority(m).value = Chosen(State(row[m]), ledger[m]).value
         /\ Authority(m).reopens = Reopens(State(row[m]), ledger[m],
                                           Chosen(State(row[m]), ledger[m]))
         /\ \A e \in ledger[m] : Key(Authority(m).sv) >= Key(e)
<1>1. State(row[m]) \in States BY RowStates
<1>2. ledger[m] \in Ledgers BY DEF Typed
<1>3. PICK B \in Nat : Bounded(AllEvents, B) BY DEF EventsBounded
<1>4. Bounded(ledger[m], B) BY <1>3, InAllEvents DEF Bounded
<1> QED BY <1>1, <1>2, <1>4, Authorities DEF Authority

\* What an imported entry and the events sent with it say of the status.
LEMMA SentAuthority ==
  ASSUME Typed, EventsBounded, NEW m \in Machine, tree[m].entry # NoTask
  PROVE  /\ EntryState(tree[m]).value \in Status
         /\ EntryState(tree[m]).sv \in Versions
<1> DEFINE t == tree[m]
           st == [status |-> t.entry.status, sv |-> t.entry.sv, fval |-> t.entry.status]
<1>1. t \in Trees /\ t.entry \in Entries /\ t.ledger \in Ledgers BY DEF Typed, Trees
<1>2. st \in States BY <1>1 DEF Entries, States
<1>3. PICK B \in Nat : Bounded(AllEvents, B) BY DEF EventsBounded
<1>4. Bounded(t.ledger, B) BY <1>3, InAllEvents DEF Bounded
<1> HIDE DEF t
<1>5. SentEvents(t) \subseteq t.ledger
      BY <1>1, <1>4, HeadOfLedger DEF SentEvents, EventOf
<1>6. SentEvents(t) \in Ledgers /\ Bounded(SentEvents(t), B)
      BY <1>1, <1>4, <1>5 DEF Ledgers, Bounded
<1>7. EntryState(t) = Resolve(st, SentEvents(t)) BY DEF EntryState
<1> HIDE DEF st
<1>8. EntryState(t).value \in Status /\ EntryState(t).sv \in Versions
      BY <1>2, <1>6, <1>7, Authorities
<1> QED BY <1>8 DEF t

LEMMA NewerPriorityType ==
  ASSUME Typed, NEW m \in Machine, tree[m].entry # NoTask, row[m] # NoTask
  PROVE  NewerPriority(m, tree[m], row[m]) \in Priorities
<1>1. row[m].pv \in Priorities BY RowStates DEF Rows
<1>2. tree[m].entry.pv \in Priorities BY DEF Typed, Trees, Entries
<1>3. Clamp(m, tree[m].entry.pv) \in Priorities BY <1>2, Clamped
<1> QED BY <1>1, <1>3 DEF NewerPriority

\* What a merge makes of a row is a row; its version is a clamped one or the
\* one it had; it opens a hidden row only if the history reopens it, and lets no
\* retention end.
Merges(m, new) ==
  /\ new \in Rows
  /\ \/ new.sv.order <= Clock(m) + 1
     \/ row[m] # NoTask /\ new.sv = row[m].sv
  /\ row[m] # NoTask /\ row[m].status \in Hidden /\ new.status \notin Hidden =>
       Authority(m).reopens
  /\ new.aged => row[m] # NoTask /\ row[m].aged

LEMMA NewRowMerges ==
  ASSUME Typed, EventsBounded, NEW m \in Machine,
         tree[m].entry # NoTask, row[m] = NoTask
  PROVE  Merges(m, NewRow(m, tree[m]))
<1> DEFINE R == EntryState(tree[m])
<1>1. R.value \in Status /\ R.sv \in Versions BY SentAuthority
<1>2. Clamp(m, R.sv) \in Versions /\ Clamp(m, R.sv).order <= Clock(m) + 1
      BY <1>1, Clamped
<1>3. tree[m].entry.pv \in Priorities BY DEF Typed, Trees, Entries
<1>4. Clamp(m, tree[m].entry.pv) \in Priorities BY <1>3, Clamped
<1> HIDE DEF R
<1>5. NewRow(m, tree[m]) = [status |-> R.value, sv |-> Clamp(m, R.sv), fval |-> "none",
        pv |-> Clamp(m, tree[m].entry.pv), stamp |-> FALSE, aged |-> FALSE]
      BY DEF NewRow, R
<1> QED BY <1>1, <1>2, <1>4, <1>5 DEF Merges, Rows

LEMMA TombstoneMerges ==
  ASSUME Typed, EventsBounded, NEW m \in Machine,
         tree[m].entry # NoTask, tree[m].entry.tomb, row[m] # NoTask,
         ~Contradictory(tree[m])
  PROVE  Merges(m, TombstoneRow(m, tree[m], row[m]))
<1> DEFINE R == EntryState(tree[m])
           pv == NewerPriority(m, tree[m], row[m])
           new == TombstoneRow(m, tree[m], row[m])
<1>1. R.value \in Status /\ R.sv \in Versions BY SentAuthority
<1>2. R.value \in Hidden BY DEF Contradictory
<1>3. Clamp(m, R.sv) \in Versions /\ Clamp(m, R.sv).order <= Clock(m) + 1
      BY <1>1, Clamped
<1>4. pv \in Priorities BY NewerPriorityType
<1>5. row[m] \in Rows BY RowStates
<1>6. \/ new = [status |-> R.value, sv |-> Clamp(m, R.sv), fval |-> R.value,
                pv |-> pv, stamp |-> FALSE, aged |-> FALSE]
      \/ new = [row[m] EXCEPT !.pv = pv]
      BY DEF TombstoneRow
<1> SUFFICES Merges(m, new) OBVIOUS
<1> HIDE DEF R, pv, new
<1>7. CASE new = [status |-> R.value, sv |-> Clamp(m, R.sv), fval |-> R.value,
                  pv |-> pv, stamp |-> FALSE, aged |-> FALSE]
      BY <1>1, <1>2, <1>3, <1>4, <1>7 DEF Merges, Rows
<1>8. CASE new = [row[m] EXCEPT !.pv = pv]
      BY <1>4, <1>5, <1>8 DEF Merges, Rows
<1> QED BY <1>6, <1>7, <1>8

LEMMA FieldMerges ==
  ASSUME Typed, EventsBounded, NEW m \in Machine,
         tree[m].entry # NoTask, row[m] # NoTask
  PROVE  Merges(m, FieldMergeRow(m, tree[m], row[m]))
<1> DEFINE R == EntryState(tree[m])
           a == Authority(m)
           r == row[m]
           new == FieldMergeRow(m, tree[m], row[m])
           Repaired == a.value # r.status /\ ~Blocked(r.status, a)
           Current == IF Repaired THEN a.value ELSE r.status
           Sent == Clamp(m, R.sv)
           pv == NewerPriority(m, tree[m], row[m])
<1>1. R.value \in Status /\ R.sv \in Versions BY SentAuthority
<1>2. Sent \in Versions /\ Sent.order <= Clock(m) + 1 BY <1>1, Clamped
<1>3. pv \in Priorities BY NewerPriorityType
<1>4. r \in Rows BY RowStates
<1>5. a.value \in Status BY AuthorityOf
<1>6. Current \in Status BY <1>4, <1>5 DEF Rows
<1>7. Current \notin Hidden /\ r.status \in Hidden => Repaired /\ a.reopens
      BY DEF Blocked
<1>8. PICK w \in BOOLEAN, x \in BOOLEAN, g \in BOOLEAN :
        /\ w => ~Repaired /\ ~(Current \in Hidden /\ R.value \notin Hidden)
        /\ new = [status |-> IF w THEN R.value ELSE Current,
                  sv |-> IF w THEN Sent ELSE r.sv,
                  fval |-> IF w THEN R.value ELSE r.fval,
                  pv |-> IF g THEN r.pv ELSE pv,
                  stamp |-> ~x /\ r.stamp,
                  aged |-> ~x /\ r.aged]
  <2> DEFINE Guarded == Current \in Hidden /\ R.value \notin Hidden
             Had == Clamp(m, r.sv)
             Wins == /\ ~Repaired /\ ~Guarded
                     /\ \/ Key(Sent) > Key(Had)
                        \/ Key(Sent) = Key(Had) /\ R.value # r.status
             Restamp == Wins /\ R.value # r.status
  <2>1. new = [status |-> IF Wins THEN R.value ELSE Current,
               sv |-> IF Wins THEN Sent ELSE r.sv,
               fval |-> IF Wins THEN R.value ELSE r.fval,
               pv |-> IF Guarded THEN r.pv ELSE pv,
               stamp |-> ~Restamp /\ r.stamp,
               aged |-> ~Restamp /\ r.aged]
        BY DEF FieldMergeRow
  <2>2. Wins => ~Repaired /\ ~Guarded OBVIOUS
  <2>3. Wins \in BOOLEAN /\ Restamp \in BOOLEAN /\ Guarded \in BOOLEAN OBVIOUS
  <2> HIDE DEF Wins, Restamp, new, Repaired, Current, R, Sent, pv, a, r
  <2> QED BY <2>1, <2>2, <2>3
<1> HIDE DEF new, Repaired, Current, R, Sent, pv, a
<1>9. r.pv \in Priorities /\ r.sv \in Versions /\ r.fval \in Status \cup {"none"}
      /\ r.stamp \in BOOLEAN /\ r.aged \in BOOLEAN
      BY <1>4 DEF Rows
<1>10. new \in Rows
  <2>1. (IF w THEN R.value ELSE Current) \in Status BY <1>1, <1>6
  <2>2. (IF w THEN Sent ELSE r.sv) \in Versions BY <1>2, <1>9
  <2>3. (IF w THEN R.value ELSE r.fval) \in Status \cup {"none"} BY <1>1, <1>9
  <2>4. (IF g THEN r.pv ELSE pv) \in Priorities BY <1>3, <1>9
  <2>5. (~x /\ r.stamp) \in BOOLEAN /\ (~x /\ r.aged) \in BOOLEAN OBVIOUS
  <2> QED BY <1>8, <2>1, <2>2, <2>3, <2>4, <2>5 DEF Rows
<1>11. new.sv.order <= Clock(m) + 1 \/ new.sv = r.sv BY <1>2, <1>8
<1>12. r.status \in Hidden /\ new.status \notin Hidden => a.reopens
       BY <1>7, <1>8
<1>13. new.aged => r.aged BY <1>8, <1>9
<1>14. Merges(m, new) BY <1>10, <1>11, <1>12, <1>13 DEF Merges, a
<1> QED BY <1>14 DEF new

LEMMA MergedRows ==
  ASSUME Typed, EventsBounded, NEW m \in Machine, ~Contradictory(tree[m])
  PROVE  MergedRow(m) = row[m] \/ Merges(m, MergedRow(m))
<1>1. CASE tree[m].entry = NoTask BY <1>1 DEF MergedRow
<1>2. CASE tree[m].entry # NoTask /\ row[m] = NoTask
  <2>1. MergedRow(m) = NewRow(m, tree[m]) BY <1>2 DEF MergedRow
  <2> QED BY <1>2, <2>1, NewRowMerges
<1>3. CASE tree[m].entry # NoTask /\ row[m] # NoTask /\ tree[m].entry.tomb
  <2>1. MergedRow(m) = TombstoneRow(m, tree[m], row[m]) BY <1>3 DEF MergedRow
  <2> QED BY <1>3, <2>1, TombstoneMerges
<1>4. CASE tree[m].entry # NoTask /\ row[m] # NoTask /\ ~tree[m].entry.tomb
  <2>1. MergedRow(m) = FieldMergeRow(m, tree[m], row[m]) BY <1>4 DEF MergedRow
  <2> QED BY <1>4, <2>1, FieldMerges
<1> QED BY <1>1, <1>2, <1>3, <1>4

\* An export is an entry as new as its ledger.
LEMMA Exported ==
  ASSUME Typed, EventsBounded, NEW m \in Machine
  PROVE  /\ Payload(m) \in Trees
         /\ Payload(m).ledger = ledger[m]
         /\ Covers(Payload(m))
<1>1. ledger[m] \in Ledgers /\ last[m] \in Nat BY DEF Typed
<1>2. Payload(m).ledger = ledger[m] /\ Payload(m).clock = last[m] BY DEF Payload
<1>3. CASE ~Exports(m)
  <2>1. Payload(m) = [entry |-> NoTask, ledger |-> ledger[m], clock |-> last[m]]
        BY <1>3 DEF Payload
  <2>2. Payload(m) \in Trees BY <1>1, <2>1 DEF Trees
  <2>3. Covers(Payload(m)) BY <2>1 DEF Covers
  <2> QED BY <1>2, <2>2, <2>3
<1>4. CASE Exports(m)
  <2>1. row[m] # NoTask BY <1>4 DEF Exports
  <2> DEFINE a == Authority(m)
             t == row[m].status \in Hidden /\ a.value \in Hidden
  <2>2. a.value \in Status /\ a.sv \in Versions
        /\ \A e \in ledger[m] : Key(a.sv) >= Key(e)
        BY <2>1, AuthorityOf
  <2>3. row[m].pv \in Priorities BY <2>1, RowStates DEF Rows
  <2>4. EntryOf(m) = [status |-> a.value, sv |-> a.sv, pv |-> row[m].pv, tomb |-> t]
        BY DEF EntryOf
  <2>5. t \in BOOLEAN OBVIOUS
  <2> HIDE DEF a, t
  <2>6. EntryOf(m) \in Entries /\ EntryOf(m).sv = a.sv
        BY <2>2, <2>3, <2>4, <2>5 DEF Entries
  <2>7. Payload(m) = [entry |-> EntryOf(m), ledger |-> ledger[m], clock |-> last[m]]
        BY <1>4 DEF Payload
  <2>8. Payload(m) \in Trees BY <1>1, <2>6, <2>7 DEF Trees
  <2>9. Covers(Payload(m)) BY <2>2, <2>6, <2>7 DEF Covers
  <2> QED BY <1>2, <2>8, <2>9
<1> QED BY <1>3, <1>4

\* The merge driver makes an entry of two, or keeps the only one.
LEMMA Reconciled ==
  ASSUME Typed, NEW m \in Machine,
         NEW a \in Entries \cup {NoTask}, NEW b \in Entries \cup {NoTask}
  PROVE  Reconcile(m, a, b) \in Entries \cup {NoTask}
<1>1. CASE a = NoTask \/ b = NoTask BY <1>1 DEF Reconcile
<1>2. CASE a # NoTask /\ b # NoTask
  <2>1. /\ a.status \in Status /\ a.sv \in Versions /\ a.pv \in Priorities
        /\ b.status \in Status /\ b.sv \in Versions /\ b.pv \in Priorities
        BY <1>2 DEF Entries
  <2>2. Dominating(m, a, b) \in Versions
    <3>1. a.sv.order \in Nat /\ b.sv.order \in Nat /\ Clock(m) \in Nat
          BY <2>1, WorldType DEF Versions
    <3>2. Max({a.sv.order, b.sv.order, Clock(m)}) \in Nat BY <3>1, MaxOfThree
    <3> QED BY <3>2 DEF Dominating, Versions
  <2>3. ASSUME NEW x \in Nat PROVE UnionPriority(a, b, x) \in Priorities
    <3>1. CASE Key(b.pv) > Key(a.pv) BY <2>1, <3>1 DEF UnionPriority, Priorities
    <3>2. CASE ~(Key(b.pv) > Key(a.pv)) BY <2>1, <3>2 DEF UnionPriority, Priorities
    <3> QED BY <3>1, <3>2
  <2> DEFINE tomb(x) == x.tomb \/ x.status \in Hidden
             kept == IF tomb(a) = tomb(b)
                     THEN IF Key(b.sv) > Key(a.sv) THEN b ELSE a
                     ELSE IF tomb(a) THEN a ELSE b
             fresher == IF Key(b.pv) > Key(a.pv) THEN b ELSE a
  <2>4. kept \in {a, b} /\ fresher \in {a, b} OBVIOUS
  <2>5. Reconcile(m, a, b) =
          IF tomb(a) \/ tomb(b)
          THEN [status |-> IF kept.status \in Hidden THEN kept.status ELSE "archived",
                sv |-> Dominating(m, a, b),
                pv |-> UnionPriority(a, b, kept.pv.val),
                tomb |-> TRUE]
          ELSE [status |-> kept.status, sv |-> kept.sv, pv |-> fresher.pv,
                tomb |-> FALSE]
        BY <1>2 DEF Reconcile
  <2> HIDE DEF tomb, kept, fresher
  <2>6. kept.status \in Status /\ kept.sv \in Versions /\ fresher.pv \in Priorities
        /\ kept.pv.val \in Nat
        BY <2>1, <2>4 DEF Priorities
  <2>7. CASE tomb(a) \/ tomb(b) BY <2>2, <2>3, <2>5, <2>6, <2>7 DEF Entries
  <2>8. CASE ~(tomb(a) \/ tomb(b)) BY <2>5, <2>6, <2>8 DEF Entries
  <2> QED BY <2>7, <2>8
<1> QED BY <1>1, <1>2

-----------------------------------------------------------------------------
(* Type correctness.                                                       *)

LEMMA InitTyped ==
  ASSUME Init
  PROVE  Typed /\ \A m \in Machine : ledger[m] = {Created}
<1>1. Min(Machine) \in Machine BY FirstWriter
<1>2. FirstRow \in Rows BY <1>1 DEF FirstRow, Rows, Versions, Priorities
<1>3. Created \in Events BY <1>1 DEF Created, Events
<1>4. FirstTree \in Trees
  <2>1. FirstRow.sv \in Versions /\ FirstRow.pv \in Priorities
        BY <1>2 DEF Rows
  <2>2. FirstTree.entry \in Entries BY <2>1 DEF FirstTree, Entries
  <2>3. {Created} \in Ledgers BY <1>3 DEF Ledgers
  <2> QED BY <2>2, <2>3 DEF FirstTree, Trees
<1>5. world \in Worlds /\ world.faults \in Nat BY DEF Init
<1>6. wall \in Nat /\ faults \in 0 .. world.faults BY <1>5 DEF Init
<1>7. last \in [Machine -> Nat] /\ gone \in [Machine -> Nat] BY DEF Init
<1>8. row \in [Machine -> Rows \cup {NoTask}] BY <1>2 DEF Init
<1>9. ledger \in [Machine -> Ledgers] BY <1>3 DEF Init, Ledgers
<1>10. remote \in Trees /\ tree \in [Machine -> Trees] BY <1>4 DEF Init
<1>11. phase \in [Machine -> Phases] BY DEF Init, Phases
<1>12. {behind, ahead, staged, dirty, fresh, unseen} \subseteq [Machine -> BOOLEAN]
       BY DEF Init
<1>13. united \in BOOLEAN /\ \A m \in Machine : ledger[m] = {Created} BY DEF Init
<1> QED BY <1>5, <1>6, <1>7, <1>8, <1>9, <1>10, <1>11, <1>12, <1>13 DEF Typed

LEMMA WriteTyped ==
  ASSUME Typed, NEW m \in Machine, NEW s \in Status, row[m] # NoTask,
         WriteStatus(m, s), UNCHANGED <<world, united>>
  PROVE  Typed'
<1> DEFINE c == NextClock(m)
           e == [order |-> c, by |-> m, old |-> row[m].status, new |-> s]
           new == [status |-> s, sv |-> [order |-> c, by |-> m, ev |-> c], fval |-> s,
                   pv |-> row[m].pv, stamp |-> FALSE, aged |-> FALSE]
<1>1. c \in Nat BY ClockMoves
<1>2. row[m] \in Rows BY RowStates
<1>3. new \in Rows BY <1>1, <1>2 DEF Rows, Versions
<1>4. e \in Events BY <1>1, <1>2 DEF Events, Rows
<1>5. /\ wall' = wall + 1
      /\ last' = [last EXCEPT ![m] = c]
      /\ row' = [row EXCEPT ![m] = new]
      /\ ledger' = [ledger EXCEPT ![m] = @ \cup {e}]
      /\ dirty' = [dirty EXCEPT ![m] = TRUE]
      /\ fresh' = [fresh EXCEPT ![m] = phase[m] \in {"staged", "pushed"}]
      /\ UNCHANGED <<repo, cycle, gone, faults>>
      BY DEF WriteStatus
<1> HIDE DEF c, e, new
<1>6. ledger[m] \cup {e} \in Ledgers BY <1>4 DEF Typed, Ledgers
<1>7. (phase[m] \in {"staged", "pushed"}) \in BOOLEAN OBVIOUS
<1>8. fresh' \in [Machine -> BOOLEAN] BY <1>5, <1>7 DEF Typed
<1> QED BY <1>1, <1>3, <1>5, <1>6, <1>8 DEF Typed, repo, cycle

LEMMA PriorityTyped ==
  ASSUME Typed, NEW m \in Machine, SetPriority(m), UNCHANGED <<world, united>>
  PROVE  Typed'
<1> DEFINE c == NextClock(m)
           pv == [order |-> c, by |-> m, val |-> 8 * c + m]
<1>1. c \in Nat BY ClockMoves
<1>2. row[m] # NoTask BY DEF SetPriority
<1>3. row[m] \in Rows BY <1>2, RowStates
<1>4. pv \in Priorities BY <1>1, MachineNat DEF Priorities
<1>5. /\ wall' = wall + 1
      /\ last' = [last EXCEPT ![m] = c]
      /\ row' = [row EXCEPT ![m] = [row[m] EXCEPT !.pv = pv]]
      /\ dirty' = [dirty EXCEPT ![m] = TRUE]
      /\ fresh' = [fresh EXCEPT ![m] = phase[m] \in {"staged", "pushed"}]
      /\ UNCHANGED <<ledger, repo, cycle, gone, faults>>
      BY DEF SetPriority
<1> HIDE DEF c, pv
<1>6. [row[m] EXCEPT !.pv = pv] \in Rows BY <1>3, <1>4 DEF Rows
<1>7. (phase[m] \in {"staged", "pushed"}) \in BOOLEAN OBVIOUS
<1>8. fresh' \in [Machine -> BOOLEAN] BY <1>5, <1>7 DEF Typed
<1> QED BY <1>1, <1>5, <1>6, <1>8 DEF Typed, repo, cycle

LEMMA AgeTyped ==
  ASSUME Typed, NEW m \in Machine, Age(m), UNCHANGED <<world, united>>
  PROVE  Typed'
<1>1. row[m] \in Rows BY RowStates DEF Age
<1>2. [row[m] EXCEPT !.aged = TRUE] \in Rows BY <1>1 DEF Rows
<1>3. row' = [row EXCEPT ![m] = [row[m] EXCEPT !.aged = TRUE]] BY DEF Age
<1>4. row' \in [Machine -> Rows \cup {NoTask}] BY <1>2, <1>3 DEF Typed
<1> QED BY <1>4 DEF Typed, Age, repo, cycle

LEMMA PurgeTyped ==
  ASSUME Typed, NEW m \in Machine, Purge(m), UNCHANGED <<world, united>>
  PROVE  Typed'
<1>1. row[m] \in Rows BY RowStates DEF Purge
<1>2. Key(row[m].sv) \in Nat BY <1>1, KeyIsUnique DEF Rows, Versions
<1>3. row' \in [Machine -> Rows \cup {NoTask}] BY DEF Typed, Purge
<1>4. gone' \in [Machine -> Nat] BY <1>2 DEF Typed, Purge
<1> QED BY <1>3, <1>4 DEF Typed, Purge, repo, cycle

LEMMA LocalTyped ==
  ASSUME Typed, NEW m \in Machine, LocalWrite(m), UNCHANGED <<world, united>>
  PROVE  Typed'
<1>1. ASSUME NEW s \in Status, SetStatus(m, s) \/ Confirm(m, s) PROVE Typed'
  <2>1. row[m] # NoTask /\ WriteStatus(m, s) BY <1>1 DEF SetStatus, Confirm
  <2> QED BY <2>1, WriteTyped
<1> QED BY <1>1, PriorityTyped, AgeTyped, PurgeTyped DEF LocalWrite

LEMMA SyncTyped ==
  ASSUME Typed, EventsBounded, NEW m \in Machine, SyncStep(m),
         UNCHANGED <<world, united>>
  PROVE  Typed'
<1>1. CASE Fetch(m) BY <1>1 DEF Fetch, Typed, Phases
<1>2. CASE ImportLedger(m)
  <2>1. tree[m].ledger \in Ledgers /\ tree[m].clock \in Nat BY DEF Typed, Trees
  <2>2. ledger[m] \cup tree[m].ledger \in Ledgers BY <2>1 DEF Typed, Ledgers
  <2>3. last[m] \in Nat BY DEF Typed
  <2>4. Max({last[m], tree[m].clock}) \in Nat BY <2>1, <2>3, MaxOfTwo
  <2>5. /\ ledger' = [ledger EXCEPT ![m] = ledger[m] \cup tree[m].ledger]
        /\ last' = [last EXCEPT ![m] = Max({last[m], tree[m].clock})]
        /\ phase' = [phase EXCEPT ![m] = "ledgered"]
        /\ UNCHANGED <<wall, row, repo, dirty, fresh, unseen, gone, faults>>
        BY <1>2 DEF ImportLedger
  <2> QED BY <2>2, <2>4, <2>5 DEF Typed, Phases, repo
<1>3. CASE MergeTasks(m)
  <2>1. row[m] \in Rows \cup {NoTask} BY DEF Typed
  <2>2. MergedRow(m) \in Rows \cup {NoTask}
        BY <1>3, <2>1, MergedRows DEF MergeTasks, Merges
  <2>3. row' \in [Machine -> Rows \cup {NoTask}] BY <1>3, <2>2 DEF MergeTasks, Typed
  <2>4. dirty' \in [Machine -> BOOLEAN] /\ unseen' \in [Machine -> BOOLEAN]
        BY <1>3 DEF MergeTasks, Typed
  <2>5. phase' \in [Machine -> Phases] BY <1>3 DEF MergeTasks, Typed, Phases
  <2> QED BY <1>3, <2>3, <2>4, <2>5 DEF MergeTasks, Typed, repo
<1>4. CASE RefuseMerge(m) BY <1>4 DEF RefuseMerge, Typed, Phases, repo
<1>5. CASE EndCycle(m) BY <1>5 DEF EndCycle, Typed, Phases, repo
<1>6. CASE Export(m)
  <2>1. Payload(m) \in Trees BY Exported
  <2>2. tree' \in [Machine -> Trees] BY <1>6, <2>1 DEF Export, Typed
  <2>3. phase' \in [Machine -> Phases] /\ staged' \in [Machine -> BOOLEAN]
        BY <1>6 DEF Export, Typed, Phases
  <2> QED BY <1>6, <2>2, <2>3 DEF Export, Typed
<1>7. CASE Push(m)
  <2>1. tree[m] \in Trees BY DEF Typed
  <2>2. behind' \in [Machine -> BOOLEAN] /\ unseen' \in [Machine -> BOOLEAN]
        BY <1>7 DEF Push, Typed
  <2> QED BY <1>7, <2>1, <2>2 DEF Push, Typed, Phases
<1>8. CASE RejectedPush(m) BY <1>8 DEF RejectedPush, Typed, Phases
<1>9. CASE Record(m)
  <2>1. row' \in [Machine -> Rows \cup {NoTask}]
    <3>1. CASE ~Stamps(m) BY <1>9, <3>1 DEF Record, Typed
    <3>2. CASE Stamps(m)
      <4>1. row[m] \in Rows BY <3>2, RowStates DEF Stamps
      <4>2. Stamped(row[m]) \in Rows BY <4>1 DEF Stamped, Rows
      <4>3. row' = [row EXCEPT ![m] = Stamped(row[m])] BY <1>9, <3>2 DEF Record
      <4> QED BY <4>2, <4>3 DEF Typed
    <3> QED BY <3>1, <3>2
  <2>2. fresh[m] \in BOOLEAN BY DEF Typed
  <2>3. dirty' \in [Machine -> BOOLEAN] BY <1>9, <2>2 DEF Record, Typed
  <2> QED BY <1>9, <2>1, <2>3 DEF Record, Typed, Phases, repo
<1> QED BY <1>1, <1>2, <1>3, <1>4, <1>5, <1>6, <1>7, <1>8, <1>9 DEF SyncStep

LEMMA OtherTyped ==
  ASSUME Typed, NEW m \in Machine,
         FailedPush(m) \/ Crash(m) \/ ResetByHand(m) \/ MergeByHand(m),
         UNCHANGED world, united' \in BOOLEAN
  PROVE  Typed'
<1>0. faults \in Nat /\ world.faults \in Nat /\ faults <= world.faults
      BY WorldType DEF Typed
<1>1. CASE FailedPush(m) BY <1>0, <1>1 DEF FailedPush, Typed, Phases
<1>2. CASE Crash(m) BY <1>0, <1>2 DEF Crash, Typed, Phases, repo
<1>3. CASE ResetByHand(m) BY <1>3 DEF ResetByHand, Typed, cycle
<1>4. CASE MergeByHand(m)
  <2> DEFINE e == Reconcile(m, tree[m].entry, remote.entry)
             t == [entry |-> e, ledger |-> {}, clock |-> 0]
  <2>1. tree[m].entry \in Entries \cup {NoTask} /\ remote.entry \in Entries \cup {NoTask}
        BY DEF Typed, Trees
  <2>2. e \in Entries \cup {NoTask} BY <2>1, Reconciled
  <2>3. tree' = [tree EXCEPT ![m] = t] BY <1>4 DEF MergeByHand
  <2> HIDE DEF e
  <2>4. t \in Trees BY <2>2 DEF Trees, Ledgers
  <2> HIDE DEF t
  <2>5. tree' \in [Machine -> Trees] BY <2>3, <2>4 DEF Typed
  <2> QED BY <1>4, <2>5 DEF MergeByHand, Typed, cycle
<1> QED BY <1>1, <1>2, <1>3, <1>4

\* A step keeps the types, as long as the events are bounded.
LEMMA StepTyped ==
  ASSUME Typed, EventsBounded, [Next]_vars
  PROVE  Typed'
<1>1. CASE UNCHANGED vars BY <1>1 DEF vars, Typed
<1>2. ASSUME NEW m \in Machine, Unmerged(m), UNCHANGED <<world, united>>
      PROVE  Typed'
  <2>1. united' \in BOOLEAN BY <1>2 DEF Typed
  <2> QED BY <1>2, <2>1, LocalTyped, SyncTyped, OtherTyped DEF Unmerged
<1>3. ASSUME NEW m \in Machine, MergeByHand(m), united' = TRUE, UNCHANGED world
      PROVE  Typed'
      BY <1>3, OtherTyped
<1> QED BY <1>1, <1>2, <1>3 DEF Next

-----------------------------------------------------------------------------
(* Events.                                                                 *)

LEMMA EventsTyped == Typed => AllEvents \subseteq Events
BY DEF Typed, AllEvents, Trees, Ledgers

LEMMA AllEventsWithin ==
  ASSUME NEW S, remote'.ledger \subseteq S,
         \A p \in Machine : ledger'[p] \subseteq S /\ tree'[p].ledger \subseteq S
  PROVE  AllEvents' \subseteq S
BY DEF AllEvents

\* A step moves events around, or its machine writes one at its next clock.
NewEvent(m, n) ==
  /\ n.by = m /\ n.order = last'[m] /\ n.order > last[m]
  /\ n \in ledger'[m]
  /\ AllEvents' \subseteq AllEvents \cup {n}

MovesEvents ==
  \/ AllEvents' \subseteq AllEvents
  \/ \E m \in Machine : \E n \in Events : NewEvent(m, n)

\* No machine forgets an event or its clock.
Remembers ==
  \A p \in Machine : ledger[p] \subseteq ledger'[p] /\ last'[p] >= last[p]

LEMMA StillEvents ==
  ASSUME UNCHANGED <<ledger, tree, remote>>
  PROVE  AllEvents' \subseteq AllEvents
BY DEF AllEvents

LEMMA WriteEvents ==
  ASSUME Typed, NEW m \in Machine, NEW s \in Status, row[m] # NoTask,
         WriteStatus(m, s)
  PROVE  /\ MovesEvents /\ Remembers
         /\ NextClock(m) = last'[m]
         /\ [order |-> NextClock(m), by |-> m, old |-> row[m].status, new |-> s]
              \in ledger'[m]
<1> DEFINE c == NextClock(m)
           n == [order |-> c, by |-> m, old |-> row[m].status, new |-> s]
<1>1. c \in Nat /\ c > last[m] BY ClockMoves
<1>2. row[m] \in Rows BY RowStates
<1>3. /\ last' = [last EXCEPT ![m] = c]
      /\ ledger' = [ledger EXCEPT ![m] = ledger[m] \cup {n}]
      /\ UNCHANGED <<tree, remote>>
      BY DEF WriteStatus, repo
<1>4. n \in Events /\ n.order = c /\ n.by = m BY <1>1, <1>2 DEF Events, Rows
<1> HIDE DEF c, n
<1>5. last'[m] = c /\ n \in ledger'[m] BY <1>3 DEF Typed
<1>6. Remembers BY <1>1, <1>3 DEF Remembers, Typed
<1>7. \A p \in Machine : ledger'[p] \subseteq ledger[p] \cup {n} BY <1>3 DEF Typed
<1>8. AllEvents' \subseteq AllEvents \cup {n}
  <2>1. \A p \in Machine : /\ ledger'[p] \subseteq AllEvents \cup {n}
                           /\ tree'[p].ledger \subseteq AllEvents \cup {n}
        BY <1>3, <1>7, InAllEvents
  <2>2. remote'.ledger \subseteq AllEvents \cup {n} BY <1>3, InAllEvents
  <2> QED BY <2>1, <2>2, AllEventsWithin
<1>9. NewEvent(m, n) BY <1>1, <1>4, <1>5, <1>8 DEF NewEvent
<1> QED BY <1>4, <1>5, <1>6, <1>9 DEF MovesEvents, c, n

LEMMA StepEvents ==
  ASSUME Typed, EventsBounded, [Next]_vars
  PROVE  MovesEvents /\ Remembers
<1>1. CASE UNCHANGED <<ledger, tree, remote, last>>
      BY <1>1, StillEvents DEF MovesEvents, Remembers, Typed
<1>2. CASE UNCHANGED <<ledger, tree, remote>> /\ \A p \in Machine : last'[p] >= last[p]
      BY <1>2, StillEvents DEF MovesEvents, Remembers, Typed
<1>3. ASSUME NEW m \in Machine, UNCHANGED <<ledger, last>>,
             remote'.ledger \subseteq AllEvents,
             tree'[m].ledger \subseteq AllEvents,
             \A p \in Machine \ {m} : tree'[p] = tree[p]
      PROVE  MovesEvents /\ Remembers
  <2>1. \A p \in Machine : ledger'[p] \subseteq AllEvents /\ tree'[p].ledger \subseteq AllEvents
        BY <1>3, InAllEvents
  <2>2. AllEvents' \subseteq AllEvents BY <1>3, <2>1, AllEventsWithin
  <2> QED BY <1>3, <2>2 DEF MovesEvents, Remembers, Typed
<1>4. ASSUME NEW m \in Machine, LocalWrite(m) PROVE MovesEvents /\ Remembers
  <2>1. ASSUME NEW s \in Status, SetStatus(m, s) \/ Confirm(m, s)
        PROVE  MovesEvents /\ Remembers
        BY <2>1, WriteEvents DEF SetStatus, Confirm
  <2>2. CASE SetPriority(m)
    <3>1. NextClock(m) \in Nat /\ NextClock(m) > last[m] BY ClockMoves
    <3>2. \A p \in Machine : last'[p] >= last[p]
          BY <2>2, <3>1 DEF SetPriority, Typed
    <3> QED BY <1>2, <2>2, <3>2 DEF SetPriority, repo
  <2>3. CASE Age(m) BY <1>1, <2>3 DEF Age, repo
  <2>4. CASE Purge(m) BY <1>1, <2>4 DEF Purge, repo
  <2> QED BY <1>4, <2>1, <2>2, <2>3, <2>4 DEF LocalWrite
<1>5. ASSUME NEW m \in Machine, SyncStep(m) PROVE MovesEvents /\ Remembers
  <2>1. CASE Fetch(m)
    <3>1. /\ tree'[m] = tree[m] \/ tree'[m] = remote
          /\ \A p \in Machine \ {m} : tree'[p] = tree[p]
          /\ UNCHANGED <<ledger, last, remote>>
          BY <2>1 DEF Fetch, Typed
    <3> QED BY <1>3, <3>1, InAllEvents
  <2>2. CASE ImportLedger(m)
    <3>1. /\ ledger' = [ledger EXCEPT ![m] = ledger[m] \cup tree[m].ledger]
          /\ last' = [last EXCEPT ![m] = Max({last[m], tree[m].clock})]
          /\ UNCHANGED <<tree, remote>>
          BY <2>2 DEF ImportLedger, repo
    <3>2. last[m] \in Nat /\ tree[m].clock \in Nat BY DEF Typed, Trees
    <3>3. Max({last[m], tree[m].clock}) >= last[m] BY <3>2, MaxOfTwo
    <3>4. Remembers BY <3>1, <3>3 DEF Remembers, Typed
    <3>5. \A p \in Machine : ledger'[p] \subseteq AllEvents /\ tree'[p].ledger \subseteq AllEvents
          BY <3>1, InAllEvents DEF Typed
    <3>6. AllEvents' \subseteq AllEvents BY <3>1, <3>5, InAllEvents, AllEventsWithin
    <3> QED BY <3>4, <3>6 DEF MovesEvents
  <2>3. CASE MergeTasks(m) BY <1>1, <2>3 DEF MergeTasks, repo
  <2>4. CASE RefuseMerge(m) BY <1>1, <2>4 DEF RefuseMerge, repo
  <2>5. CASE EndCycle(m) BY <1>1, <2>5 DEF EndCycle, repo
  <2>6. CASE Export(m)
    <3>1. tree'[m] = Payload(m) /\ \A p \in Machine \ {m} : tree'[p] = tree[p]
          BY <2>6 DEF Export, Typed
    <3>2. Payload(m).ledger = ledger[m] BY Exported
    <3>3. UNCHANGED <<ledger, last, remote>> BY <2>6 DEF Export
    <3> QED BY <1>3, <3>1, <3>2, <3>3, InAllEvents
  <2>7. CASE Push(m)
    <3>1. remote' = tree[m] /\ UNCHANGED <<tree, ledger, last>> BY <2>7 DEF Push
    <3> QED BY <1>3, <3>1, InAllEvents
  <2>8. CASE RejectedPush(m)
    <3>1. /\ tree'[m] = remote
          /\ \A p \in Machine \ {m} : tree'[p] = tree[p]
          /\ UNCHANGED <<ledger, last, remote>>
          BY <2>8 DEF RejectedPush, Typed
    <3> QED BY <1>3, <3>1, InAllEvents
  <2>9. CASE Record(m) BY <1>1, <2>9 DEF Record, repo
  <2> QED BY <1>5, <2>1, <2>2, <2>3, <2>4, <2>5, <2>6, <2>7, <2>8, <2>9 DEF SyncStep
<1>6. ASSUME NEW m \in Machine, ResetByHand(m) PROVE MovesEvents /\ Remembers
  <2>1. /\ tree'[m] = remote
        /\ \A p \in Machine \ {m} : tree'[p] = tree[p]
        /\ UNCHANGED <<ledger, last, remote>>
        BY <1>6 DEF ResetByHand, Typed
  <2> QED BY <1>3, <2>1, InAllEvents
<1>7. ASSUME NEW m \in Machine, MergeByHand(m) PROVE MovesEvents /\ Remembers
  <2>1. /\ tree'[m].ledger = {}
        /\ \A p \in Machine \ {m} : tree'[p] = tree[p]
        /\ UNCHANGED <<ledger, last, remote>>
        BY <1>7 DEF MergeByHand, Typed
  <2> QED BY <1>3, <2>1, InAllEvents
<1>8. ASSUME NEW m \in Machine, FailedPush(m) \/ Crash(m) PROVE MovesEvents /\ Remembers
      BY <1>1, <1>8 DEF FailedPush, Crash, repo
<1>9. CASE UNCHANGED vars BY <1>1, <1>9 DEF vars
<1> QED BY <1>4, <1>5, <1>6, <1>7, <1>8, <1>9 DEF Next, Unmerged

\* What is known of the events survives a step.
LEMMA StepEventsInv ==
  ASSUME Typed, EventsInv, MovesEvents, Remembers, Typed'
  PROVE  EventsInv'
<1>1. AllEvents \subseteq Events BY EventsTyped
<1>2. \A p \in Machine : last[p] \in Nat /\ last'[p] \in Nat BY DEF Typed
<1>3. PICK B \in Nat : Bounded(AllEvents, B) BY DEF EventsInv, EventsBounded
<1>4. \A e \in AllEvents : /\ e.order \in Nat /\ e.by \in Machine
                            /\ e.order <= B
                            /\ e.order <= last[e.by]
                            /\ e \in ledger[e.by]
      BY <1>1, <1>3 DEF Events, Bounded, EventsInv, EventsPast, EventsKept
<1>5. \A e \in AllEvents : e.order <= last'[e.by] /\ e \in ledger'[e.by]
  <2> TAKE e \in AllEvents
  <2>1. e.by \in Machine /\ e.order \in Nat /\ e.order <= last[e.by] /\ e \in ledger[e.by]
        BY <1>4
  <2>2. last'[e.by] >= last[e.by] /\ ledger[e.by] \subseteq ledger'[e.by]
        BY <2>1 DEF Remembers
  <2>3. last[e.by] \in Nat /\ last'[e.by] \in Nat BY <1>2, <2>1
  <2> QED BY <2>1, <2>2, <2>3
<1>6. \A e, f \in AllEvents : Key(e) = Key(f) => e = f
      BY DEF EventsInv, EventsUnique
<1>7. CASE AllEvents' \subseteq AllEvents
  <2>1. Bounded(AllEvents', B) BY <1>4, <1>7 DEF Bounded
  <2> QED BY <1>5, <1>6, <1>7, <2>1
          DEF EventsInv, EventsBounded, EventsPast, EventsUnique, EventsKept, Key, Bounded
<1>8. ASSUME NEW m \in Machine, NEW n \in Events, NewEvent(m, n)
      PROVE  EventsInv'
  <2>1. /\ n.by = m /\ n.order = last'[m] /\ n.order > last[m] /\ n \in ledger'[m]
        /\ \A e \in AllEvents' : e \in AllEvents \/ e = n
        BY <1>8 DEF NewEvent
  <2>2. n.order \in Nat BY DEF Events
  <2>3. Bounded(AllEvents', B + n.order) /\ B + n.order \in Nat
        BY <1>4, <2>1, <2>2 DEF Bounded
  <2>4. EventsPast' BY <1>5, <1>2, <2>1 DEF EventsPast
  <2>5. EventsKept' BY <1>5, <2>1 DEF EventsKept
  <2>6. \A e \in AllEvents : Key(e) # Key(n)
    <3> SUFFICES ASSUME NEW e \in AllEvents, Key(e) = Key(n) PROVE FALSE OBVIOUS
    <3>1. e.order \in Nat /\ e.by \in Machine /\ e.order <= last[e.by] BY <1>4
    <3>2. e.order = n.order /\ e.by = n.by BY <2>1, <2>2, <3>1, KeyIsUnique
    <3> QED BY <1>2, <2>1, <2>2, <3>1, <3>2
  <2>7. EventsUnique' BY <1>6, <2>1, <2>6 DEF EventsUnique, Key
  <2>8. EventsBounded' BY <2>3 DEF EventsBounded, Bounded
  <2> QED BY <2>4, <2>5, <2>7, <2>8 DEF EventsInv
<1> QED BY <1>7, <1>8 DEF MovesEvents

-----------------------------------------------------------------------------
(* Rows.                                                                   *)

\* What a step may do to a row.
RowStep(p) ==
  \/ row'[p] = NoTask
  \/ /\ row[p] # NoTask /\ row'[p].sv = row[p].sv
     /\ row'[p].status = row[p].status /\ row'[p].fval = row[p].fval
  \/ /\ MergeTasks(p) /\ row'[p] = MergedRow(p)
     /\ Merges(p, row'[p]) /\ ledger'[p] = ledger[p]
  \/ \E s \in Status : WriteStatus(p, s) /\ row[p] # NoTask

LEMMA StepRows ==
  ASSUME Typed, EventsBounded, [Next]_vars
  PROVE  /\ wall' \in Nat /\ wall' >= wall /\ UNCHANGED world
         /\ \A p \in Machine : RowStep(p)
<1>0. wall \in Nat BY DEF Typed
<1>a. ASSUME NEW p \in Machine, row'[p] = row[p] PROVE RowStep(p)
      BY <1>a DEF RowStep
<1>1. CASE UNCHANGED <<row, wall, world>> BY <1>0, <1>1, <1>a
<1>2. ASSUME NEW m \in Machine, NEW new, row' = [row EXCEPT ![m] = new],
             row[m] # NoTask, new \in Rows,
             new.sv = row[m].sv, new.status = row[m].status,
             new.fval = row[m].fval
      PROVE  \A p \in Machine : RowStep(p)
      BY <1>2 DEF RowStep, Typed
<1>3. ASSUME NEW m \in Machine, NEW s \in Status, SetStatus(m, s) \/ Confirm(m, s)
      PROVE  wall' \in Nat /\ wall' >= wall /\ \A p \in Machine : RowStep(p)
  <2>1. WriteStatus(m, s) /\ row[m] # NoTask BY <1>3 DEF SetStatus, Confirm
  <2>2. wall' = wall + 1 /\ \A p \in Machine \ {m} : row'[p] = row[p]
        BY <2>1 DEF WriteStatus, Typed
  <2>3. RowStep(m) BY <2>1 DEF RowStep
  <2>4. \A p \in Machine \ {m} : RowStep(p) BY <1>a, <2>2
  <2> QED BY <1>0, <2>2, <2>3, <2>4
<1>4. ASSUME NEW m \in Machine, SetPriority(m)
      PROVE  wall' \in Nat /\ wall' >= wall /\ \A p \in Machine : RowStep(p)
  <2> DEFINE pv == [order |-> NextClock(m), by |-> m, val |-> 8 * NextClock(m) + m]
             new == [row[m] EXCEPT !.pv = pv]
  <2>1. /\ wall' = wall + 1 /\ row[m] # NoTask
        /\ row' = [row EXCEPT ![m] = new]
        BY <1>4 DEF SetPriority
  <2>2. row[m] \in Rows BY <2>1, RowStates
  <2>3. NextClock(m) \in Nat BY ClockMoves
  <2>4. pv \in Priorities BY <2>3, MachineNat DEF Priorities
  <2> HIDE DEF pv
  <2>5. new \in Rows /\ new.sv = row[m].sv /\ new.status = row[m].status
        /\ new.fval = row[m].fval
        BY <2>2, <2>4 DEF Rows
  <2> HIDE DEF new
  <2>6. \A p \in Machine : RowStep(p) BY <1>2, <2>1, <2>5
  <2> QED BY <1>0, <2>1, <2>6
<1>5. ASSUME NEW m \in Machine, Age(m)
      PROVE  UNCHANGED wall /\ \A p \in Machine : RowStep(p)
  <2> DEFINE new == [row[m] EXCEPT !.aged = TRUE]
  <2>1. UNCHANGED wall /\ row[m] # NoTask /\ row' = [row EXCEPT ![m] = new]
        BY <1>5 DEF Age
  <2>2. row[m] \in Rows BY <2>1, RowStates
  <2>3. new \in Rows /\ new.sv = row[m].sv /\ new.status = row[m].status
        /\ new.fval = row[m].fval
        BY <2>2 DEF Rows
  <2> HIDE DEF new
  <2> QED BY <1>2, <2>1, <2>3
<1>6. ASSUME NEW m \in Machine, Purge(m)
      PROVE  UNCHANGED wall /\ \A p \in Machine : RowStep(p)
      BY <1>6 DEF Purge, RowStep, Typed
<1>7. ASSUME NEW m \in Machine, MergeTasks(m)
      PROVE  UNCHANGED wall /\ \A p \in Machine : RowStep(p)
  <2>1. /\ UNCHANGED <<wall, ledger>>
        /\ row' = [row EXCEPT ![m] = MergedRow(m)] /\ ~Contradictory(tree[m])
        BY <1>7 DEF MergeTasks
  <2>2. MergedRow(m) = row[m] \/ Merges(m, MergedRow(m)) BY <2>1, MergedRows
  <2>3. row'[m] = MergedRow(m) /\ \A p \in Machine \ {m} : row'[p] = row[p]
        BY <2>1 DEF Typed
  <2>4. RowStep(m)
    <3>1. CASE row'[m] = row[m] BY <1>a, <3>1
    <3>2. CASE Merges(m, row'[m]) BY <1>7, <2>1, <2>3, <3>2 DEF RowStep
    <3> QED BY <2>2, <2>3, <3>1, <3>2
  <2>5. \A p \in Machine \ {m} : RowStep(p) BY <1>a, <2>3
  <2> QED BY <2>1, <2>4, <2>5
<1>8. ASSUME NEW m \in Machine, Record(m)
      PROVE  UNCHANGED wall /\ \A p \in Machine : RowStep(p)
  <2>1. UNCHANGED wall BY <1>8 DEF Record
  <2>2. CASE UNCHANGED row BY <2>1, <2>2 DEF RowStep
  <2>3. CASE Stamps(m)
    <3>1. row' = [row EXCEPT ![m] = Stamped(row[m])] /\ row[m] # NoTask
          BY <1>8, <2>3 DEF Record, Stamps
    <3>2. row[m] \in Rows BY <3>1, RowStates
    <3>3. Stamped(row[m]) \in Rows /\ Stamped(row[m]).sv = row[m].sv
          /\ Stamped(row[m]).status = row[m].status
          /\ Stamped(row[m]).fval = row[m].fval
          BY <3>2 DEF Stamped, Rows
    <3> QED BY <1>2, <2>1, <3>1, <3>3
  <2> QED BY <1>8, <2>2, <2>3 DEF Record
<1>9. ASSUME NEW m \in Machine, UNCHANGED world, Unmerged(m)
      PROVE  wall' \in Nat /\ wall' >= wall /\ \A p \in Machine : RowStep(p)
  <2>1. CASE LocalWrite(m)
    <3>1. CASE \E s \in Status : SetStatus(m, s) \/ Confirm(m, s)
      <4>1. PICK s \in Status : SetStatus(m, s) \/ Confirm(m, s) BY <3>1
      <4> QED BY <1>3, <4>1
    <3>2. CASE SetPriority(m) BY <1>4, <3>2
    <3>3. CASE Age(m) \/ Purge(m) BY <1>0, <1>5, <1>6, <3>3
    <3>4. \/ \E s \in Status : SetStatus(m, s) \/ Confirm(m, s)
          \/ SetPriority(m) \/ Age(m) \/ Purge(m)
          BY <2>1 DEF LocalWrite
    <3> QED BY <3>1, <3>2, <3>3, <3>4
  <2>2. CASE MergeTasks(m) \/ Record(m) BY <1>0, <1>7, <1>8, <2>2
  <2>3. CASE UNCHANGED <<row, wall>> BY <1>1, <1>9, <2>3, <1>0
  <2>4. SyncStep(m) => MergeTasks(m) \/ Record(m) \/ UNCHANGED <<row, wall>>
        BY DEF SyncStep, Fetch, ImportLedger, RefuseMerge, EndCycle, Export, Push, RejectedPush
  <2>5. FailedPush(m) \/ Crash(m) \/ ResetByHand(m) => UNCHANGED <<row, wall>>
        BY DEF FailedPush, Crash, ResetByHand
  <2> QED BY <1>9, <2>1, <2>2, <2>3, <2>4, <2>5 DEF Unmerged
<1>10. ASSUME NEW m \in Machine, MergeByHand(m) PROVE UNCHANGED <<row, wall>>
       BY <1>10 DEF MergeByHand
<1>11. CASE UNCHANGED vars BY <1>0, <1>1, <1>11 DEF vars
<1> QED BY <1>0, <1>1, <1>9, <1>10, <1>11 DEF Next

LEMMA StepRowPast ==
  ASSUME Typed, EventsBounded, RowPast, Remembers, Typed', [Next]_vars
  PROVE  RowPast'
<1>1. wall \in Nat /\ wall' \in Nat /\ wall' >= wall /\ world' = world BY StepRows DEF Typed
<1>2. ASSUME NEW p \in Machine PROVE Clock(p) \in Nat /\ Clock(p)' \in Nat /\ Clock(p)' >= Clock(p)
  <2>1. world.lead[p] \in Nat BY WorldType
  <2> QED BY <1>1, <2>1 DEF Clock
<1> SUFFICES ASSUME NEW p \in Machine, row'[p] # NoTask
             PROVE  row'[p].sv.order <= last'[p] \/ row'[p].sv.order <= Clock(p)' + 1
    BY DEF RowPast
<1>3. row'[p] \in Rows BY DEF Typed
<1>4. row'[p].sv.order \in Nat BY <1>3 DEF Rows, Versions
<1>5. last[p] \in Nat /\ last'[p] \in Nat /\ last'[p] >= last[p]
      BY DEF Typed, Remembers
<1>6. CASE row[p] # NoTask /\ row'[p].sv = row[p].sv
  <2>1. row'[p].sv.order <= last[p] \/ row'[p].sv.order <= Clock(p) + 1
        BY <1>6 DEF RowPast
  <2>2. CASE row'[p].sv.order <= last[p] BY <1>4, <1>5, <2>2
  <2>3. CASE row'[p].sv.order <= Clock(p) + 1 BY <1>2, <1>4, <2>3
  <2> QED BY <2>1, <2>2, <2>3
<1>7. CASE row'[p].sv.order <= Clock(p) + 1 BY <1>2, <1>4, <1>7
<1>8. ASSUME NEW s \in Status, WriteStatus(p, s), row[p] # NoTask
      PROVE  row'[p].sv.order <= last'[p]
  <2>1. row'[p].sv.order = NextClock(p) BY <1>8 DEF WriteStatus, Typed
  <2>2. NextClock(p) = last'[p] BY <1>8, WriteEvents
  <2> QED BY <1>5, <2>1, <2>2
<1> QED BY <1>6, <1>7, <1>8, StepRows DEF RowStep, Merges

-----------------------------------------------------------------------------
(* The clones and the remote.                                              *)

\* Where the content of the clones and of the remote comes from.
LEMMA StepTrees ==
  ASSUME Typed, [Next]_vars
  PROVE  /\ \/ remote' = remote
            \/ \E m \in Machine : remote' = tree[m]
         /\ \A p \in Machine :
              \/ tree'[p] = tree[p] \/ tree'[p] = remote
              \/ tree'[p] = Payload(p)
              \/ tree'[p].ledger = {} /\ united'
<1>1. CASE UNCHANGED <<remote, tree>> BY <1>1
<1>2. ASSUME NEW m \in Machine, LocalWrite(m) PROVE UNCHANGED <<remote, tree>>
  <2>1. ASSUME NEW s \in Status, SetStatus(m, s) \/ Confirm(m, s)
        PROVE  UNCHANGED <<remote, tree>>
        BY <2>1 DEF SetStatus, Confirm, WriteStatus, repo
  <2> QED BY <1>2, <2>1 DEF LocalWrite, SetPriority, Age, Purge, repo
<1>3. ASSUME NEW m \in Machine, SyncStep(m)
      PROVE  \/ UNCHANGED <<remote, tree>>
             \/ remote' = tree[m] /\ UNCHANGED tree
             \/ /\ remote' = remote
                /\ \E t \in {remote, tree[m], Payload(m)} : tree' = [tree EXCEPT ![m] = t]
      BY <1>3 DEF SyncStep, Fetch, ImportLedger, MergeTasks, RefuseMerge, EndCycle,
                  Export, Push, RejectedPush, Record, repo
<1>4. ASSUME NEW m \in Machine, ResetByHand(m)
      PROVE  remote' = remote /\ tree' = [tree EXCEPT ![m] = remote]
      BY <1>4 DEF ResetByHand
<1>5. ASSUME NEW m \in Machine, FailedPush(m) \/ Crash(m) PROVE UNCHANGED <<remote, tree>>
      BY <1>5 DEF FailedPush, Crash, repo
<1>6. ASSUME NEW m \in Machine, MergeByHand(m), united' = TRUE
      PROVE  /\ remote' = remote /\ tree'[m].ledger = {} /\ united'
             /\ \A p \in Machine \ {m} : tree'[p] = tree[p]
      BY <1>6 DEF MergeByHand, Typed
<1>7. CASE UNCHANGED vars BY <1>7 DEF vars
<1>8. ASSUME NEW m \in Machine, NEW t, tree' = [tree EXCEPT ![m] = t]
      PROVE  tree'[m] = t /\ \A p \in Machine \ {m} : tree'[p] = tree[p]
      BY <1>8 DEF Typed
<1>9. ASSUME NEW m \in Machine, Unmerged(m)
      PROVE  \/ UNCHANGED <<remote, tree>>
             \/ remote' = tree[m] /\ UNCHANGED tree
             \/ /\ remote' = remote
                /\ \E t \in {remote, tree[m], Payload(m)} : tree' = [tree EXCEPT ![m] = t]
      BY <1>2, <1>3, <1>4, <1>5, <1>9 DEF Unmerged
<1>10. CASE \E m \in Machine : Unmerged(m) BY <1>8, <1>9, <1>10
<1>11. CASE \E m \in Machine : MergeByHand(m) /\ united' = TRUE BY <1>6, <1>11
<1> QED BY <1>1, <1>7, <1>10, <1>11 DEF Next

LEMMA StepCovers ==
  ASSUME Typed, EventsBounded, EntriesCover, [Next]_vars
  PROVE  EntriesCover'
<1>1. Covers(remote) /\ \A m \in Machine : Covers(tree[m]) /\ Covers(Payload(m))
      BY Exported DEF EntriesCover
<1>2. Covers(remote') BY <1>1, StepTrees
<1>3. ASSUME NEW p \in Machine PROVE Covers(tree'[p])
  <2>1. CASE tree'[p].ledger = {} BY <2>1 DEF Covers
  <2> QED BY <1>1, <2>1, StepTrees
<1> QED BY <1>2, <1>3 DEF EntriesCover

\* A machine whose books no step of its own touches keeps them, when the
\* remote only grows and the machine learns that it moved.
LEMMA StillAccounted ==
  ASSUME Typed, NEW p \in Machine, Accounted(p),
         ledger'[p] = ledger[p], tree'[p] = tree[p], ahead'[p] = ahead[p],
         staged'[p] = staged[p], phase'[p] = phase[p], dirty'[p] = dirty[p],
         fresh'[p] = fresh[p],
         \/ remote' = remote /\ behind'[p] = behind[p]
         \/ remote.ledger \subseteq remote'.ledger /\ behind'[p] = TRUE
  PROVE  Accounted(p)'
BY DEF Accounted, Own

\* The books of a machine whose status is written.
LEMMA WriteAccounted ==
  ASSUME Typed, NEW m \in Machine, NEW s \in Status, WriteStatus(m, s), Accounted(m)
  PROVE  Accounted(m)'
<1>1. /\ ledger[m] \subseteq ledger'[m] /\ dirty'[m] = TRUE
      /\ fresh'[m] = (phase[m] \in {"staged", "pushed"})
      /\ UNCHANGED <<repo, cycle>>
      BY DEF WriteStatus, Typed
<1> QED BY <1>1 DEF Accounted, repo, cycle

LEMMA LocalAccounted ==
  ASSUME Typed, Accounts, ~united, NEW m \in Machine, LocalWrite(m)
  PROVE  \A p \in Machine : Accounted(p)'
<1>0. \A p \in Machine : Accounted(p) BY DEF Accounts
<1>1. ASSUME NEW s \in Status, SetStatus(m, s) \/ Confirm(m, s)
      PROVE  \A p \in Machine : Accounted(p)'
  <2>1. WriteStatus(m, s) BY <1>1 DEF SetStatus, Confirm
  <2>2. Accounted(m)' BY <1>0, <2>1, WriteAccounted
  <2>3. ASSUME NEW p \in Machine, p # m PROVE Accounted(p)'
    <3>1. /\ ledger'[p] = ledger[p] /\ dirty'[p] = dirty[p] /\ fresh'[p] = fresh[p]
          /\ UNCHANGED <<repo, cycle>>
          BY <2>1, <2>3 DEF WriteStatus, Typed
    <3> QED BY <1>0, <3>1, StillAccounted DEF repo, cycle
  <2> QED BY <2>2, <2>3
<1>2. CASE SetPriority(m)
  <2>1. /\ dirty'[m] = TRUE /\ fresh'[m] = (phase[m] \in {"staged", "pushed"})
        /\ UNCHANGED <<ledger, repo, cycle>>
        /\ \A p \in Machine \ {m} : dirty'[p] = dirty[p] /\ fresh'[p] = fresh[p]
        BY <1>2 DEF SetPriority, Typed
  <2>2. Accounted(m)' BY <1>0, <2>1 DEF Accounted, Own, repo, cycle
  <2>3. ASSUME NEW p \in Machine, p # m PROVE Accounted(p)'
        BY <1>0, <2>1, <2>3, StillAccounted DEF repo, cycle
  <2> QED BY <2>2, <2>3
<1>3. CASE Age(m) \/ Purge(m)
      BY <1>0, <1>3, StillAccounted DEF Age, Purge, repo, cycle
<1> QED BY <1>1, <1>2, <1>3 DEF LocalWrite

\* An imported ledger brings no event of the machine that it did not have.
LEMMA OwnImported ==
  ASSUME Typed, EventsInv, NEW m \in Machine, ImportLedger(m)
  PROVE  /\ Own(m)' = Own(m)
         /\ ledger'[m] = ledger[m] \cup tree[m].ledger
         /\ \A p \in Machine \ {m} : ledger'[p] = ledger[p]
<1>1. /\ ledger'[m] = ledger[m] \cup tree[m].ledger
      /\ \A p \in Machine \ {m} : ledger'[p] = ledger[p]
      BY DEF ImportLedger, Typed
<1>2. \A e \in tree[m].ledger : e.by = m => e \in ledger[m]
      BY InAllEvents DEF EventsInv, EventsKept
<1> QED BY <1>1, <1>2 DEF Own

LEMMA SyncAccounted ==
  ASSUME Typed, EventsInv, Accounts, ~united, NEW m \in Machine, SyncStep(m)
  PROVE  \A p \in Machine : Accounted(p)'
<1>0. \A p \in Machine : Accounted(p) BY DEF Accounts
<1>1. CASE Fetch(m)
  <2>1. Accounted(m)' BY <1>0, <1>1 DEF Fetch, Accounted, Own, Typed
  <2>2. ASSUME NEW p \in Machine, p # m PROVE Accounted(p)'
        BY <1>0, <1>1, <2>2, StillAccounted DEF Fetch, Typed
  <2> QED BY <2>1, <2>2
<1>2. CASE ImportLedger(m)
  <2>1. /\ phase[m] = "fetched" /\ phase'[m] = "ledgered"
        /\ \A p \in Machine \ {m} : phase'[p] = phase[p]
        /\ UNCHANGED <<remote, tree, behind, ahead, staged, dirty, fresh>>
        BY <1>2 DEF ImportLedger, Typed, repo
  <2>2. Accounted(m)' BY <1>0, <1>2, <2>1, OwnImported DEF Accounted
  <2>3. ASSUME NEW p \in Machine, p # m PROVE Accounted(p)'
        BY <1>0, <1>2, <2>1, <2>3, OwnImported, StillAccounted
  <2> QED BY <2>2, <2>3
<1>3. CASE MergeTasks(m)
  <2>1. /\ phase[m] = "ledgered" /\ phase'[m] = "merged"
        /\ dirty[m] => dirty'[m]
        /\ \A p \in Machine \ {m} : phase'[p] = phase[p] /\ dirty'[p] = dirty[p]
        /\ UNCHANGED <<ledger, remote, tree, behind, ahead, staged, fresh>>
        BY <1>3 DEF MergeTasks, Typed, repo
  <2>2. Accounted(m)' BY <1>0, <2>1 DEF Accounted, Own
  <2>3. ASSUME NEW p \in Machine, p # m PROVE Accounted(p)'
        BY <1>0, <2>1, <2>3, StillAccounted
  <2> QED BY <2>2, <2>3
<1>4. CASE RefuseMerge(m) \/ EndCycle(m)
  <2>1. /\ phase'[m] = "idle"
        /\ \A p \in Machine \ {m} : phase'[p] = phase[p]
        /\ UNCHANGED <<ledger, remote, tree, behind, ahead, staged, dirty, fresh>>
        BY <1>4 DEF RefuseMerge, EndCycle, Typed, repo
  <2>2. Accounted(m)' BY <1>0, <2>1 DEF Accounted, Own
  <2>3. ASSUME NEW p \in Machine, p # m PROVE Accounted(p)'
        BY <1>0, <2>1, <2>3, StillAccounted
  <2> QED BY <2>2, <2>3
<1>5. CASE Export(m)
  <2>1. /\ phase[m] = "merged" /\ dirty[m]
        /\ tree'[m] = Payload(m)
        /\ \/ /\ Payload(m) = tree[m] /\ ~staged[m] /\ ~ahead[m]
              /\ phase'[m] = "pushed" /\ UNCHANGED staged
           \/ phase'[m] = "staged" /\ staged'[m] = TRUE
        /\ \A p \in Machine \ {m} : /\ tree'[p] = tree[p] /\ fresh'[p] = fresh[p]
                                    /\ phase'[p] = phase[p] /\ staged'[p] = staged[p]
        /\ UNCHANGED <<ledger, remote, behind, ahead, dirty>>
        BY <1>5 DEF Export, Typed
  <2>2. Payload(m).ledger = ledger[m] BY Exported DEF EventsInv
  <2>3. tree'[m].ledger = ledger[m] BY <2>1, <2>2
  <2>4. Own(m)' \subseteq ledger[m] BY <2>1 DEF Own
  <2>5. CASE phase'[m] = "staged"
        BY <1>0, <2>1, <2>3, <2>4, <2>5 DEF Accounted, Own
  <2>6. CASE phase'[m] = "pushed"
        BY <1>0, <2>1, <2>3, <2>4, <2>6 DEF Accounted, Own
  <2>7. Accounted(m)' BY <2>1, <2>5, <2>6
  <2>8. ASSUME NEW p \in Machine, p # m PROVE Accounted(p)'
        BY <1>0, <2>1, <2>8, StillAccounted
  <2> QED BY <2>7, <2>8
<1>6. CASE Push(m)
  <2>1. /\ phase[m] = "staged" /\ phase'[m] = "pushed" /\ ~behind[m]
        /\ remote' = tree[m]
        /\ ~ahead'[m] /\ ~staged'[m]
        /\ \A p \in Machine \ {m} : /\ behind'[p] = TRUE /\ ahead'[p] = ahead[p]
                                    /\ phase'[p] = phase[p] /\ staged'[p] = staged[p]
        /\ UNCHANGED <<ledger, tree, dirty, fresh>>
        BY <1>6 DEF Push, Typed
  <2>2. remote.ledger \subseteq remote'.ledger BY <1>0, <2>1 DEF Accounted
  <2>3. Accounted(m)' BY <1>0, <2>1, <2>2 DEF Accounted, Own
  <2>4. ASSUME NEW p \in Machine, p # m PROVE Accounted(p)'
        BY <1>0, <2>1, <2>2, <2>4, StillAccounted
  <2> QED BY <2>3, <2>4
<1>7. CASE RejectedPush(m)
  <2>1. /\ phase'[m] = "idle" /\ tree'[m] = remote
        /\ \A p \in Machine \ {m} : /\ tree'[p] = tree[p] /\ fresh'[p] = fresh[p]
                                    /\ phase'[p] = phase[p] /\ staged'[p] = staged[p]
                                    /\ behind'[p] = behind[p] /\ ahead'[p] = ahead[p]
        /\ UNCHANGED <<ledger, remote, dirty>>
        BY <1>7 DEF RejectedPush, Typed
  <2>2. Accounted(m)' BY <1>0, <2>1 DEF Accounted, Own
  <2>3. ASSUME NEW p \in Machine, p # m PROVE Accounted(p)'
        BY <1>0, <2>1, <2>3, StillAccounted
  <2> QED BY <2>2, <2>3
<1>8. CASE Record(m)
  <2>1. /\ phase[m] = "pushed" /\ phase'[m] = "idle" /\ dirty'[m] = fresh[m]
        /\ \A p \in Machine \ {m} : /\ phase'[p] = phase[p] /\ dirty'[p] = dirty[p]
                                    /\ fresh'[p] = fresh[p]
        /\ UNCHANGED <<ledger, remote, tree, behind, ahead, staged>>
        BY <1>8 DEF Record, Typed, repo
  <2>2. ~fresh[m] => Own(m) \subseteq remote.ledger
        BY <1>0, <2>1 DEF Accounted
  <2>3. Accounted(m)' BY <1>0, <2>1, <2>2 DEF Accounted, Own
  <2>4. ASSUME NEW p \in Machine, p # m PROVE Accounted(p)'
        BY <1>0, <2>1, <2>4, StillAccounted
  <2> QED BY <2>3, <2>4
<1> QED BY <1>1, <1>2, <1>3, <1>4, <1>5, <1>6, <1>7, <1>8 DEF SyncStep

LEMMA OtherAccounted ==
  ASSUME Typed, Accounts, ~united, NEW m \in Machine,
         FailedPush(m) \/ Crash(m) \/ ResetByHand(m)
  PROVE  \A p \in Machine : Accounted(p)'
<1>0. \A p \in Machine : Accounted(p) BY DEF Accounts
<1>1. CASE FailedPush(m)
  <2>1. /\ phase'[m] = "idle" /\ ahead'[m] = TRUE
        /\ \A p \in Machine \ {m} : /\ phase'[p] = phase[p] /\ staged'[p] = staged[p]
                                    /\ ahead'[p] = ahead[p] /\ fresh'[p] = fresh[p]
        /\ UNCHANGED <<ledger, remote, tree, behind, dirty>>
        BY <1>1 DEF FailedPush, Typed
  <2>2. Accounted(m)' BY <1>0, <2>1 DEF Accounted, Own
  <2>3. ASSUME NEW p \in Machine, p # m PROVE Accounted(p)'
        BY <1>0, <2>1, <2>3, StillAccounted
  <2> QED BY <2>2, <2>3
<1>2. CASE Crash(m)
  <2>1. /\ phase'[m] = "idle"
        /\ \A p \in Machine \ {m} : phase'[p] = phase[p] /\ fresh'[p] = fresh[p]
        /\ UNCHANGED <<ledger, remote, tree, behind, ahead, staged, dirty>>
        BY <1>2 DEF Crash, Typed, repo
  <2>2. Accounted(m)' BY <1>0, <2>1 DEF Accounted, Own
  <2>3. ASSUME NEW p \in Machine, p # m PROVE Accounted(p)'
        BY <1>0, <2>1, <2>3, StillAccounted
  <2> QED BY <2>2, <2>3
<1>3. CASE ResetByHand(m)
  <2>1. /\ phase[m] = "idle" /\ tree'[m] = remote
        /\ \A p \in Machine \ {m} : /\ tree'[p] = tree[p] /\ staged'[p] = staged[p]
                                    /\ behind'[p] = behind[p] /\ ahead'[p] = ahead[p]
        /\ UNCHANGED <<ledger, remote, dirty, fresh, phase>>
        BY <1>3 DEF ResetByHand, Typed, cycle
  <2>2. Accounted(m)' BY <1>0, <2>1 DEF Accounted, Own
  <2>3. ASSUME NEW p \in Machine, p # m PROVE Accounted(p)'
        BY <1>0, <2>1, <2>3, StillAccounted
  <2> QED BY <2>2, <2>3
<1> QED BY <1>1, <1>2, <1>3

LEMMA StepAccounts ==
  ASSUME Typed, EventsInv, Accounts, [Next]_vars
  PROVE  Accounts'
<1>1. CASE UNCHANGED vars
      BY <1>1 DEF vars, Accounts, Accounted, Own
<1>2. ASSUME NEW m \in Machine, Unmerged(m), UNCHANGED united, ~united
      PROVE  \A p \in Machine : Accounted(p)'
      BY <1>2, LocalAccounted, SyncAccounted, OtherAccounted DEF Unmerged
<1> QED BY <1>1, <1>2 DEF Next, Accounts

-----------------------------------------------------------------------------
(* What a deletion leaves behind, without merges by hand.                  *)

\* The authority of a row is the newest event of its machine.
LEMMA AuthorityIsNewest ==
  ASSUME Typed, EventsInv, NEW m \in Machine, row[m] # NoTask,
         Sourced(row[m], ledger[m])
  PROVE  \E h \in ledger[m] :
            /\ IsNewest(h, ledger[m])
            /\ Authority(m).value = h.new
            /\ Authority(m).sv = EventVersion(h)
<1> DEFINE L == ledger[m]  st == State(row[m])
<1>1. st \in States /\ L \in Ledgers BY RowStates DEF Typed
<1>2. PICK B \in Nat : Bounded(L, B)
      BY InAllEvents DEF EventsInv, EventsBounded, Bounded
<1>3. \A e, f \in L : Key(e) = Key(f) => e = f
      BY InAllEvents DEF EventsInv, EventsUnique
<1>4. st.sv = row[m].sv /\ st.fval = row[m].fval BY DEF State
<1>5. Authored(st.sv, st.fval, L) BY <1>4 DEF Sourced
<1>6. L # {} BY <1>5 DEF Authored
<1>7. Authority(m) = Resolve(st, L) BY DEF Authority
<1> HIDE DEF L, st
<1>8. PICK h \in L : IsNewest(h, L)
  <2>1. \A e \in L : Key(e) \in Nat /\ Key(e) <= 8 * B + 7
        BY <1>1, <1>2, KeyBound DEF Ledgers, Events, Bounded
  <2>2. 8 * B + 7 \in Nat BY <1>2
  <2>3. Newest(L) \in L /\ \A f \in L : Key(Newest(L)) >= Key(f)
        BY ONLY <1>6, <2>1, <2>2, NewestOfSet
  <2> QED BY ONLY <2>3 DEF IsNewest
<1>9. Resolve(st, L).value = h.new /\ Resolve(st, L).sv = EventVersion(h)
      BY <1>1, <1>2, <1>3, <1>5, <1>8, NewestDecides
<1> QED BY <1>7, <1>8, <1>9 DEF L

\* What an imported entry says is the newest event of its ledger.
LEMMA EntryIsNewest ==
  ASSUME Typed, EventsInv, NEW m \in Machine, tree[m].entry # NoTask,
         Faithful(tree[m])
  PROVE  \E h \in tree[m].ledger :
            /\ IsNewest(h, tree[m].ledger)
            /\ EntryState(tree[m]).value = h.new
            /\ EntryState(tree[m]).sv = EventVersion(h)
<1> DEFINE t == tree[m]
           st == [status |-> t.entry.status, sv |-> t.entry.sv, fval |-> t.entry.status]
           L == SentEvents(t)
<1>1. t \in Trees /\ t.entry \in Entries /\ t.ledger \in Ledgers BY DEF Typed, Trees
<1>2. st \in States BY <1>1 DEF Entries, States
<1>3. PICK B \in Nat : Bounded(t.ledger, B)
      BY InAllEvents DEF EventsInv, EventsBounded, Bounded
<1>4. \A e, f \in t.ledger : Key(e) = Key(f) => e = f
      BY InAllEvents DEF EventsInv, EventsUnique
<1>5. PICK h \in t.ledger :
        /\ IsNewest(h, t.ledger)
        /\ t.entry.status = h.new /\ t.entry.sv = EventVersion(h)
      BY DEF Faithful
<1>6. EntryState(t) = Resolve(st, L) BY DEF EntryState
<1>7. st.sv = EventVersion(h) /\ st.fval = h.new BY <1>5
<1>8. L = EventOf(t.entry.sv, t.ledger) \cup Head(t.ledger) BY DEF SentEvents
<1> HIDE DEF t, st, L
<1>9. h \in EventOf(t.entry.sv, t.ledger) BY <1>5 DEF EventOf, EventVersion
<1>10. L \subseteq t.ledger /\ h \in L
       BY <1>1, <1>3, <1>8, <1>9, HeadOfLedger DEF EventOf
<1>11. L \in Ledgers /\ Bounded(L, B) /\ IsNewest(h, L)
       /\ \A e, f \in L : Key(e) = Key(f) => e = f
       BY <1>1, <1>3, <1>4, <1>5, <1>10 DEF Ledgers, Bounded, IsNewest
<1>12. h.order \in Nat BY <1>1 DEF Ledgers, Events
<1>13. Authored(st.sv, st.fval, L)
       BY <1>7, <1>10, <1>12 DEF Authored, EventVersion
<1>14. Resolve(st, L).value = h.new /\ Resolve(st, L).sv = EventVersion(h)
       BY <1>2, <1>3, <1>11, <1>13, NewestDecides
<1> QED BY <1>5, <1>6, <1>14 DEF t

\* So is what a machine exports.
LEMMA ExportFaithful ==
  ASSUME Typed, EventsInv, NEW m \in Machine,
         row[m] # NoTask => Sourced(row[m], ledger[m])
  PROVE  Faithful(Payload(m))
<1>1. CASE ~Exports(m) BY <1>1 DEF Payload, Faithful
<1>2. CASE Exports(m)
  <2>1. row[m] # NoTask BY <1>2 DEF Exports
  <2>2. PICK h \in ledger[m] :
            /\ IsNewest(h, ledger[m])
            /\ Authority(m).value = h.new
            /\ Authority(m).sv = EventVersion(h)
        BY <2>1, AuthorityIsNewest
  <2>3. Payload(m).ledger = ledger[m] /\ Payload(m).entry = EntryOf(m)
        BY <1>2 DEF Payload
  <2>4. EntryOf(m).status = h.new /\ EntryOf(m).sv = EventVersion(h)
        BY <2>2 DEF EntryOf
  <2> QED BY <2>2, <2>3, <2>4 DEF Faithful
<1> QED BY <1>1, <1>2

\* A row that takes over what an event says.
LEMMA TakenOver ==
  ASSUME Typed, NEW m \in Machine, NEW L \in Ledgers, NEW h \in L,
         NEW r, r.status = h.new, r.fval \in {"none", h.new},
         r.sv = Clamp(m, EventVersion(h))
  PROVE  Sourced(r, L)
<1>1. h.order \in Nat /\ h.by \in Machine /\ Clock(m) \in Nat
      BY WorldType DEF Ledgers, Events
<1>2. r.sv.ev = h.order /\ r.sv.by = h.by
      /\ r.sv.order \in Nat /\ r.sv.order <= h.order
  <2>1. CASE h.order > Clock(m) + 1
        BY <1>1, <2>1 DEF Clamp, EventVersion
  <2>2. CASE ~(h.order > Clock(m) + 1)
        BY <1>1, <2>2 DEF Clamp, EventVersion
  <2> QED BY <2>1, <2>2
<1>3. Authored(r.sv, r.fval, L) BY <1>2 DEF Authored
<1>4. Key(r.sv) < Key(h) \/ Key(r.sv) = Key(h)
  <2>1. CASE r.sv.order = h.order BY <1>2, <2>1 DEF Key
  <2>2. CASE r.sv.order < h.order BY <1>1, <1>2, <2>2, KeyIsUnique
  <2> QED BY <1>1, <1>2, <2>1, <2>2
<1>5. Closed(r, L)
  <2>1. Key(r.sv) \in Nat /\ Key(h) \in Nat BY <1>1, <1>2, KeyIsUnique
  <2> QED BY <1>4, <2>1 DEF Closed
<1> QED BY <1>3, <1>5 DEF Sourced

\* The newest event is as new as the version of a row with an author.
LEMMA NewestAbove ==
  ASSUME NEW L \in Ledgers, NEW v \in Versions, NEW fval, Authored(v, fval, L),
         NEW h, IsNewest(h, L)
  PROVE  Key(h) >= Key(v)
<1>1. PICK a \in L : a.by = v.by /\ v.order <= a.order BY DEF Authored
<1>2. /\ a.order \in Nat /\ a.by \in Machine /\ v.order \in Nat
      /\ h.order \in Nat /\ h.by \in Machine
      BY DEF Ledgers, Events, Versions, IsNewest
<1>3. Key(a) \in Nat /\ Key(v) \in Nat /\ Key(h) \in Nat BY <1>1, <1>2, KeyIsUnique
<1>4. Key(h) >= Key(a) BY DEF IsNewest
<1>5. CASE v.order = a.order
  <2>1. Key(v) = Key(a) BY <1>1, <1>5 DEF Key
  <2> QED BY <1>3, <1>4, <2>1
<1>6. CASE v.order < a.order
  <2>1. Key(v) < Key(a) BY <1>1, <1>2, <1>6, KeyIsUnique
  <2> QED BY <1>3, <1>4, <2>1
<1> QED BY <1>1, <1>2, <1>5, <1>6

\* A merged row has its author, and the event that hides it.
LEMMA MergedSourced ==
  ASSUME Typed, EventsInv, NEW m \in Machine, Faithful(tree[m]),
         tree[m].ledger \subseteq ledger[m],
         row[m] # NoTask => Sourced(row[m], ledger[m]),
         MergedRow(m) # NoTask
  PROVE  Sourced(MergedRow(m), ledger[m])
<1> DEFINE R == EntryState(tree[m])  r == row[m]  L == ledger[m]
           new == MergedRow(m)
<1>0. L \in Ledgers BY DEF Typed
<1>1. CASE tree[m].entry = NoTask BY <1>1 DEF MergedRow
<1>2. CASE tree[m].entry # NoTask
  <2>1. PICK h \in L : R.value = h.new /\ R.sv = EventVersion(h)
        BY <1>2, EntryIsNewest
  <2>2. CASE r = NoTask
    <3>1. new = NewRow(m, tree[m]) BY <1>2, <2>2 DEF MergedRow
    <3>2. new.status = R.value /\ new.sv = Clamp(m, R.sv) /\ new.fval = "none"
          BY <3>1 DEF NewRow
    <3> HIDE DEF new, R, L
    <3>3. Sourced(new, L) BY <1>0, <2>1, <3>2, TakenOver
    <3> QED BY <3>3 DEF new, L
  <2>3. CASE r # NoTask /\ tree[m].entry.tomb
    <3> DEFINE pv == NewerPriority(m, tree[m], r)
    <3>1. new = TombstoneRow(m, tree[m], r) BY <1>2, <2>3 DEF MergedRow
    <3>2. r \in Rows BY <2>3, RowStates
    <3>3. \/ /\ new.status = R.value /\ new.sv = Clamp(m, R.sv)
             /\ new.fval = R.value
          \/ new = [r EXCEPT !.pv = pv]
          BY <3>1 DEF TombstoneRow
    <3>4. Sourced(r, L) BY <2>3
    <3> HIDE DEF new, R, L, r, pv
    <3>5. CASE new.status = R.value /\ new.sv = Clamp(m, R.sv) /\ new.fval = R.value
      <4>1. Sourced(new, L) BY <1>0, <2>1, <3>5, TakenOver
      <4> QED BY <4>1 DEF new, L
    <3>6. CASE new = [r EXCEPT !.pv = pv]
      <4>1. new.status = r.status /\ new.sv = r.sv /\ new.fval = r.fval
            BY <3>2, <3>6 DEF Rows
      <4>2. Sourced(new, L) BY <3>4, <4>1 DEF Sourced, Closed
      <4> QED BY <4>2 DEF new, L
    <3> QED BY <3>3, <3>5, <3>6
  <2>4. CASE r # NoTask /\ ~tree[m].entry.tomb
    <3> DEFINE a == Authority(m)
    <3>1. new = FieldMergeRow(m, tree[m], r) BY <1>2, <2>4 DEF MergedRow
    <3>2. \/ /\ new.status = R.value /\ new.sv = Clamp(m, R.sv)
             /\ new.fval = R.value
          \/ /\ new.status \in {a.value, r.status}
             /\ new.sv = r.sv /\ new.fval = r.fval
          BY <3>1 DEF FieldMergeRow
    <3>3. r \in Rows BY <2>4, RowStates
    <3>4. Sourced(r, L) BY <2>4
    <3>5. PICK g \in L : IsNewest(g, L) /\ a.value = g.new
          BY <2>4, AuthorityIsNewest
    <3> HIDE DEF new, R, L, r, a
    <3>6. CASE new.status = R.value /\ new.sv = Clamp(m, R.sv) /\ new.fval = R.value
      <4>1. Sourced(new, L) BY <1>0, <2>1, <3>6, TakenOver
      <4> QED BY <4>1 DEF new, L
    <3>7. CASE /\ new.status \in {a.value, r.status}
               /\ new.sv = r.sv /\ new.fval = r.fval
      <4>1. Authored(new.sv, new.fval, L) BY <3>4, <3>7 DEF Sourced
      <4>2. CASE new.status = r.status
            BY <3>4, <3>7, <4>1, <4>2 DEF Sourced, Closed, L, new
      <4>3. CASE new.status = a.value
        <5>1. r.sv \in Versions BY <3>3 DEF Rows
        <5>2. Key(g) >= Key(r.sv)
              BY <1>0, <3>4, <3>5, <5>1, NewestAbove DEF Sourced
        <5>3. Key(g) \in Nat /\ Key(r.sv) \in Nat
              BY <1>0, <5>1, KeyIsUnique DEF Ledgers, Events, Versions
        <5>4. Key(g) > Key(r.sv) \/ Key(g) = Key(r.sv) BY <5>2, <5>3
        <5>5. Closed(new, L) BY <3>5, <3>7, <4>3, <5>4 DEF Closed
        <5>6. Sourced(new, L) BY <4>1, <5>5 DEF Sourced
        <5> QED BY <5>6 DEF new, L
      <4> QED BY <3>7, <4>2, <4>3
    <3> QED BY <3>2, <3>6, <3>7
  <2> QED BY <2>2, <2>3, <2>4
<1> QED BY <1>1, <1>2

\* A merge that shows a purged task again was told of a newer edit.
LEMMA MergedRestored ==
  ASSUME Typed, EventsInv, NEW m \in Machine, Faithful(tree[m]),
         tree[m].ledger \subseteq ledger[m],
         row[m] = NoTask => ledger[m] \subseteq tree[m].ledger,
         row[m] # NoTask => Sourced(row[m], ledger[m]),
         Deleted(m), Restored(m), ~Contradictory(tree[m]),
         MergedRow(m) # NoTask, MergedRow(m).status \notin Hidden, gone[m] # 0
  PROVE  \E e \in ledger[m] : e.new \notin Hidden /\ Key(e) > gone[m]
<1>1. PICK f \in ledger[m] :
        \/ Key(f) > gone[m]
        \/ Key(f) = gone[m] /\ f.new \in Hidden
      BY DEF Deleted
<1>2. /\ gone[m] \in Nat
      /\ \A e \in ledger[m] : Key(e) \in Nat
  <2>1. gone[m] \in Nat /\ ledger[m] \in Ledgers BY DEF Typed
  <2> QED BY <2>1, KeyIsUnique DEF Ledgers, Events
<1>3. \A e, g \in ledger[m] : Key(e) = Key(g) => e = g
      BY InAllEvents DEF EventsInv, EventsUnique
<1>4. ASSUME NEW h \in ledger[m], h.new \notin Hidden, Key(h) >= Key(f)
      PROVE  Key(h) > gone[m]
  <2>1. Key(h) = Key(f) => h = f BY <1>3
  <2>2. Key(h) \in Nat /\ Key(f) \in Nat BY <1>2
  <2> QED BY <1>1, <1>2, <1>4, <2>1, <2>2
<1>5. CASE row[m] = NoTask
  <2>1. tree[m].entry # NoTask BY <1>5 DEF MergedRow
  <2>2. PICK h \in tree[m].ledger :
          IsNewest(h, tree[m].ledger) /\ EntryState(tree[m]).value = h.new
        BY <2>1, EntryIsNewest
  <2>3. MergedRow(m).status = EntryState(tree[m]).value
        BY <1>5, <2>1 DEF MergedRow, NewRow
  <2>4. h \in ledger[m] /\ h.new \notin Hidden /\ Key(h) >= Key(f)
        BY <1>1, <1>5, <2>2, <2>3 DEF IsNewest
  <2> QED BY <1>4, <2>4
<1>6. CASE row[m] # NoTask /\ row[m].status \notin Hidden
      BY <1>6 DEF Restored, Visible
<1>7. CASE row[m] # NoTask /\ row[m].status \in Hidden
  <2>1. Authority(m).reopens
        BY <1>7, MergedRows DEF Merges, EventsInv
  <2>2. PICK h \in ledger[m] : IsNewest(h, ledger[m]) /\ Authority(m).value = h.new
        BY <1>7, AuthorityIsNewest
  <2>3. Authority(m).value \notin Hidden
        BY <1>7, <2>1, AuthorityOf DEF Reopens, EventsInv
  <2>4. h.new \notin Hidden /\ Key(h) >= Key(f) BY <1>1, <2>2, <2>3 DEF IsNewest
  <2> QED BY <1>4, <2>4
<1> QED BY <1>5, <1>6, <1>7

\* A step of one machine leaves the others as they were.
Still(p) ==
  /\ row'[p] = row[p] /\ ledger'[p] = ledger[p] /\ tree'[p] = tree[p]
  /\ phase'[p] = phase[p] /\ dirty'[p] = dirty[p] /\ fresh'[p] = fresh[p]
  /\ gone'[p] = gone[p]

LEMMA OthersStill ==
  ASSUME Typed, NEW m \in Machine, Unmerged(m), NEW p \in Machine, p # m
  PROVE  Still(p)
<1>1. ASSUME NEW s \in Status, SetStatus(m, s) \/ Confirm(m, s) PROVE Still(p)
      BY <1>1 DEF SetStatus, Confirm, WriteStatus, Still, Typed, repo, cycle
<1>2. CASE SetPriority(m) \/ Age(m) \/ Purge(m)
      BY <1>2 DEF SetPriority, Age, Purge, Still, Typed, repo, cycle
<1>3. CASE Fetch(m) \/ ImportLedger(m) \/ MergeTasks(m)
      BY <1>3 DEF Fetch, ImportLedger, MergeTasks, Still, Typed, repo
<1>4. CASE RefuseMerge(m) \/ EndCycle(m) \/ Export(m)
      BY <1>4 DEF RefuseMerge, EndCycle, Export, Still, Typed, repo
<1>5. CASE Push(m) \/ RejectedPush(m)
      BY <1>5 DEF Push, RejectedPush, Still, Typed
<1>6. CASE Record(m)
      BY <1>6 DEF Record, Still, Typed, repo
<1>7. CASE FailedPush(m) \/ Crash(m) \/ ResetByHand(m)
      BY <1>7 DEF FailedPush, Crash, ResetByHand, Still, Typed, repo, cycle
<1> QED BY <1>1, <1>2, <1>3, <1>4, <1>5, <1>6, <1>7 DEF Unmerged, LocalWrite, SyncStep

\* Only a clone that is up to date is pushed: the remote forgets no event.
LEMMA RemoteGrows ==
  ASSUME Typed, Accounts, ~united, NEW m \in Machine, Unmerged(m)
  PROVE  remote.ledger \subseteq remote'.ledger
<1>1. CASE Push(m)
  <2>1. ~behind[m] /\ remote' = tree[m] BY <1>1 DEF Push
  <2> QED BY <2>1 DEF Accounts, Accounted
<1>2. ASSUME NEW s \in Status, SetStatus(m, s) \/ Confirm(m, s) PROVE remote' = remote
      BY <1>2 DEF SetStatus, Confirm, WriteStatus, repo
<1>3. CASE remote' = remote BY <1>3
<1> QED BY <1>1, <1>2, <1>3 DEF Unmerged, LocalWrite, SyncStep, SetPriority, Age, Purge,
          Fetch, ImportLedger, MergeTasks, RefuseMerge, EndCycle, Export, RejectedPush,
          Record, FailedPush, Crash, ResetByHand, repo

LEMMA StillComplete ==
  ASSUME NEW p \in Machine, Still(p), Complete(p), remote.ledger \subseteq remote'.ledger
  PROVE  Complete(p)'
BY DEF Still, Complete, Own, Quiet

\* A written status is told to nobody yet.
LEMMA WriteComplete ==
  ASSUME Typed, Typed', NEW m \in Machine, NEW s \in Status, WriteStatus(m, s),
         row[m] # NoTask, Complete(m)
  PROVE  Complete(m)'
<1> DEFINE n == [order |-> NextClock(m), by |-> m, old |-> row[m].status, new |-> s]
           new == [status |-> s, sv |-> [order |-> NextClock(m), by |-> m, ev |-> NextClock(m)],
                   fval |-> s, pv |-> row[m].pv, stamp |-> FALSE, aged |-> FALSE]
<1>1. /\ ledger'[m] = ledger[m] \cup {n} /\ dirty'[m] = TRUE
      /\ row'[m] = new
      /\ fresh'[m] = (phase[m] \in {"staged", "pushed"})
      /\ UNCHANGED <<remote, tree, phase>>
      BY DEF WriteStatus, Typed, repo, cycle
<1>2. n.by = m /\ ~new.aged OBVIOUS
<1>3. row[m].pv \in Priorities /\ NextClock(m) \in Nat
      BY RowStates, ClockMoves DEF Rows
<1>4. new \in Rows BY <1>3 DEF Rows, Versions
<1>5. new # NoTask BY <1>4, NoTaskAssumption
<1> HIDE DEF n, new
<1>6. ~Quiet(m)' BY <1>1, <1>2, <1>5 DEF Quiet
<1> QED BY <1>1, <1>2, <1>6 DEF Complete, Own

LEMMA LocalComplete ==
  ASSUME Typed, Typed', NEW m \in Machine, LocalWrite(m), Complete(m)
  PROVE  Complete(m)'
<1>1. ASSUME NEW s \in Status, SetStatus(m, s) \/ Confirm(m, s) PROVE Complete(m)'
      BY <1>1, WriteComplete DEF SetStatus, Confirm
<1>2. CASE SetPriority(m)
  <2> DEFINE pv == [order |-> NextClock(m), by |-> m, val |-> 8 * NextClock(m) + m]
             new == [row[m] EXCEPT !.pv = pv]
  <2>1. /\ dirty'[m] = TRUE /\ row[m] # NoTask /\ row'[m] = new
        /\ fresh'[m] = (phase[m] \in {"staged", "pushed"})
        /\ UNCHANGED <<ledger, remote, tree, phase>>
        BY <1>2 DEF SetPriority, Typed, repo, cycle
  <2>2. row[m] \in Rows BY <2>1, RowStates
  <2>3. NextClock(m) \in Nat BY ClockMoves
  <2>4. pv \in Priorities BY <2>3, MachineNat DEF Priorities
  <2> HIDE DEF pv
  <2>5. new \in Rows /\ new.aged = row[m].aged BY <2>2, <2>4 DEF Rows
  <2> HIDE DEF new
  <2>6. Quiet(m)' => Quiet(m) BY <2>1, <2>5, NoTaskAssumption DEF Quiet
  <2> QED BY <2>1, <2>6 DEF Complete, Own
<1>3. CASE Age(m) \/ Purge(m)
  <2>1. Quiet(m) BY <1>3 DEF Age, Purge, Quiet
  <2>2. UNCHANGED <<ledger, remote, tree, phase, dirty, fresh>>
        BY <1>3 DEF Age, Purge, repo, cycle
  <2> QED BY <2>1, <2>2 DEF Complete, Own
<1> QED BY <1>1, <1>2, <1>3 DEF LocalWrite

LEMMA SyncComplete ==
  ASSUME Typed, Typed', EventsInv, NEW m \in Machine, SyncStep(m),
         Complete(m), Accounted(m)
  PROVE  Complete(m)'
<1>1. CASE Fetch(m)
  <2>1. /\ tree'[m] = (IF behind[m] THEN remote ELSE tree[m])
        /\ phase'[m] = "fetched"
        /\ UNCHANGED <<row, ledger, remote, dirty>>
        BY <1>1 DEF Fetch, Typed
  <2> QED BY <2>1 DEF Complete, Own, Quiet
<1>2. CASE ImportLedger(m)
  <2>1. /\ ledger'[m] = ledger[m] \cup tree[m].ledger
        /\ phase'[m] = "ledgered"
        /\ UNCHANGED <<row, remote, tree, dirty>>
        BY <1>2 DEF ImportLedger, Typed, repo
  <2> QED BY <2>1 DEF Complete, Own, Quiet
<1>3. CASE MergeTasks(m)
  <2>1. /\ phase[m] = "ledgered" /\ phase'[m] = "merged"
        /\ dirty[m] => dirty'[m]
        /\ row'[m] = MergedRow(m)
        /\ ~Contradictory(tree[m])
        /\ UNCHANGED <<ledger, remote, tree>>
        BY <1>3 DEF MergeTasks, Typed, repo
  <2>2. MergedRow(m) = row[m] \/ Merges(m, MergedRow(m))
        BY <2>1, MergedRows DEF EventsInv
  <2>3. Quiet(m)' => Quiet(m) BY <2>1, <2>2, NoTaskAssumption DEF Quiet, Merges
  <2> QED BY <2>1, <2>3 DEF Complete, Own
<1>4. CASE RefuseMerge(m) \/ EndCycle(m)
  <2>1. phase'[m] = "idle" /\ UNCHANGED <<row, ledger, remote, tree, dirty>>
        BY <1>4 DEF RefuseMerge, EndCycle, Typed, repo
  <2> QED BY <2>1 DEF Complete, Own, Quiet
<1>5. CASE Export(m)
  <2>1. /\ tree'[m] = Payload(m)
        /\ phase'[m] \in {"staged", "pushed"}
        /\ UNCHANGED <<row, ledger, remote, dirty>>
        BY <1>5 DEF Export, Typed
  <2>2. tree'[m].ledger = ledger[m] BY <2>1, Exported DEF EventsInv
  <2> QED BY <2>1, <2>2 DEF Complete, Own, Quiet
<1>6. CASE Push(m)
  <2>1. /\ phase[m] = "staged" /\ phase'[m] = "pushed" /\ ~behind[m]
        /\ remote' = tree[m]
        /\ UNCHANGED <<row, ledger, tree, dirty, fresh>>
        BY <1>6 DEF Push, Typed
  <2>2. remote.ledger \subseteq tree[m].ledger BY <2>1 DEF Accounted
  <2> QED BY <2>1, <2>2 DEF Complete, Own, Quiet
<1>7. CASE RejectedPush(m)
  <2>1. /\ phase'[m] = "idle" /\ tree'[m] = remote
        /\ UNCHANGED <<row, ledger, remote, dirty>>
        BY <1>7 DEF RejectedPush, Typed
  <2> QED BY <2>1 DEF Complete, Own, Quiet
<1>8. CASE Record(m)
  <2>1. /\ phase[m] = "pushed" /\ phase'[m] = "idle" /\ dirty'[m] = fresh[m]
        /\ UNCHANGED <<ledger, remote, tree>>
        BY <1>8 DEF Record, Typed, repo
  <2>2. \/ row'[m] = row[m]
        \/ row[m] # NoTask /\ row'[m] = Stamped(row[m])
        BY <1>8 DEF Record, Stamps, Typed
  <2>3. CASE row'[m] = row[m]
    <3>1. ~fresh[m] => ledger[m] \subseteq tree[m].ledger /\ ledger[m] \subseteq remote.ledger
          BY <2>1 DEF Complete, Accounted
    <3> QED BY <2>1, <2>3, <3>1 DEF Complete, Own, Quiet
  <2>4. CASE row[m] # NoTask /\ row'[m] = Stamped(row[m])
    <3>1. ~fresh[m] => ledger[m] \subseteq tree[m].ledger /\ ledger[m] \subseteq remote.ledger
          BY <2>1 DEF Complete, Accounted
    <3>2. row[m] \in Rows BY <2>4, RowStates
    <3>3. Stamped(row[m]) \in Rows /\ ~Stamped(row[m]).aged BY <3>2 DEF Stamped, Rows
    <3>4. Quiet(m)' => ~fresh[m] BY <2>1, <2>4, <3>3, NoTaskAssumption DEF Quiet
    <3> QED BY <2>1, <3>1, <3>4 DEF Complete, Own
  <2> QED BY <2>2, <2>3, <2>4
<1> QED BY <1>1, <1>2, <1>3, <1>4, <1>5, <1>6, <1>7, <1>8 DEF SyncStep

LEMMA OtherComplete ==
  ASSUME Typed, NEW m \in Machine, FailedPush(m) \/ Crash(m) \/ ResetByHand(m),
         Complete(m)
  PROVE  Complete(m)'
<1>1. CASE FailedPush(m) \/ Crash(m)
  <2>1. phase'[m] = "idle" /\ UNCHANGED <<row, ledger, remote, tree, dirty>>
        BY <1>1 DEF FailedPush, Crash, Typed, repo
  <2> QED BY <2>1 DEF Complete, Own, Quiet
<1>2. CASE ResetByHand(m)
  <2>1. /\ phase[m] = "idle" /\ tree'[m] = remote
        /\ UNCHANGED <<row, ledger, remote, dirty, phase>>
        BY <1>2 DEF ResetByHand, Typed, cycle
  <2> QED BY <2>1 DEF Complete, Own, Quiet
<1> QED BY <1>1, <1>2

LEMMA StepComplete ==
  ASSUME IInv, Typed', ~united, NEW m \in Machine, Unmerged(m),
         \A p \in Machine : Complete(p)
  PROVE  \A p \in Machine : Complete(p)'
<1>1. Typed /\ EventsInv /\ Accounts /\ Accounted(m) BY DEF IInv, Accounts
<1>2. Complete(m)'
      BY <1>1, LocalComplete, SyncComplete, OtherComplete DEF Unmerged
<1>3. ASSUME NEW p \in Machine, p # m PROVE Complete(p)'
      BY <1>1, <1>3, OthersStill, RemoteGrows, StillComplete
<1> QED BY <1>2, <1>3

\* What a written status leaves: a row of its own event.
LEMMA WriteSourced ==
  ASSUME Typed, NEW m \in Machine, NEW s \in Status, row[m] # NoTask, WriteStatus(m, s)
  PROVE  /\ row'[m].status = s
         /\ Sourced(row'[m], ledger'[m])
         /\ \E n \in ledger'[m] : /\ n.new = s /\ n.order = NextClock(m) /\ n.by = m
<1> DEFINE n == [order |-> NextClock(m), by |-> m, old |-> row[m].status, new |-> s]
<1>1. n \in ledger'[m] BY WriteEvents
<1>2. /\ row'[m].status = s /\ row'[m].fval = s
      /\ row'[m].sv = [order |-> NextClock(m), by |-> m, ev |-> NextClock(m)]
      BY DEF WriteStatus, Typed
<1>3. NextClock(m) \in Nat BY ClockMoves
<1>4. n.order = NextClock(m) /\ n.by = m /\ n.new = s OBVIOUS
<1> HIDE DEF n
<1>5. Authored(row'[m].sv, row'[m].fval, ledger'[m])
      BY <1>1, <1>2, <1>3, <1>4 DEF Authored
<1>6. Key(n) = Key(row'[m].sv) BY <1>2, <1>4 DEF Key
<1>7. Closed(row'[m], ledger'[m]) BY <1>1, <1>2, <1>4, <1>6 DEF Closed
<1> QED BY <1>1, <1>2, <1>4, <1>5, <1>7 DEF Sourced

\* Every row has its author, and what hid it, after a step too.
LEMMA StepSourced ==
  ASSUME IInv, [Next]_vars, NEW m \in Machine, Known(m), row'[m] # NoTask
  PROVE  Sourced(row'[m], ledger'[m])
<1>1. Typed /\ EventsInv /\ EventsBounded BY DEF IInv, EventsInv
<1>2. ledger[m] \subseteq ledger'[m] BY <1>1, StepEvents DEF Remembers
<1>3. row[m] # NoTask => Sourced(row[m], ledger[m]) BY DEF Known
<1>4. CASE /\ row[m] # NoTask /\ row'[m].sv = row[m].sv
           /\ row'[m].status = row[m].status /\ row'[m].fval = row[m].fval
      BY <1>2, <1>3, <1>4 DEF Sourced, Authored, Closed
<1>5. CASE MergeTasks(m) /\ row'[m] = MergedRow(m) /\ ledger'[m] = ledger[m]
  <2>1. phase[m] = "ledgered" BY <1>5 DEF MergeTasks
  <2>2. tree[m].ledger \subseteq ledger[m] /\ Faithful(tree[m])
        BY <2>1 DEF Known, Complete
  <2> QED BY <1>1, <1>3, <1>5, <2>2, MergedSourced
<1>6. ASSUME NEW s \in Status, WriteStatus(m, s), row[m] # NoTask
      PROVE  Sourced(row'[m], ledger'[m])
      BY <1>1, <1>6, WriteSourced
<1> QED BY <1>1, <1>4, <1>5, <1>6, StepRows DEF RowStep

\* So does every entry say what the newest event next to it says.
LEMMA StepFaithful ==
  ASSUME IInv, [Next]_vars, ~united', Faithful(remote), \A p \in Machine : Known(p)
  PROVE  Faithful(remote') /\ \A p \in Machine : Faithful(tree'[p])
<1>1. Typed /\ EventsInv BY DEF IInv
<1>2. \A p \in Machine : Faithful(tree[p]) /\ Faithful(Payload(p))
      BY <1>1, ExportFaithful DEF Known
<1> QED BY <1>1, <1>2, StepTrees

\* A step purges a tombstone or keeps what was purged.
LEMMA StepGone ==
  ASSUME Typed, [Next]_vars, NEW p \in Machine
  PROVE  \/ gone'[p] = gone[p]
         \/ Purge(p) /\ gone'[p] = Key(row[p].sv) /\ row'[p] = NoTask
<1>1. ASSUME NEW m \in Machine, LocalWrite(m)
      PROVE  UNCHANGED gone \/ Purge(m)
      BY <1>1 DEF LocalWrite, SetStatus, Confirm, WriteStatus, SetPriority, Age
<1>2. ASSUME NEW m \in Machine, SyncStep(m) PROVE UNCHANGED gone
      BY <1>2 DEF SyncStep, Fetch, ImportLedger, MergeTasks, RefuseMerge, EndCycle,
                  Export, Push, RejectedPush, Record
<1>3. ASSUME NEW m \in Machine,
             FailedPush(m) \/ Crash(m) \/ ResetByHand(m) \/ MergeByHand(m)
      PROVE  UNCHANGED gone
      BY <1>3 DEF FailedPush, Crash, ResetByHand, MergeByHand
<1>4. ASSUME NEW m \in Machine, Purge(m)
      PROVE  /\ gone'[m] = Key(row[m].sv) /\ row'[m] = NoTask
             /\ \A q \in Machine \ {m} : gone'[q] = gone[q]
      BY <1>4 DEF Purge, Typed
<1>5. CASE UNCHANGED vars BY <1>5 DEF vars
<1> QED BY <1>1, <1>2, <1>3, <1>4, <1>5 DEF Next, Unmerged

LEMMA StepDeleted ==
  ASSUME IInv, Typed', [Next]_vars, NEW p \in Machine, Known(p)
  PROVE  Deleted(p)'
<1>1. Typed /\ EventsInv /\ EventsBounded /\ RowPast BY DEF IInv, EventsInv
<1>2. Remembers /\ ledger[p] \subseteq ledger'[p] /\ last'[p] >= last[p]
      BY <1>1, StepEvents DEF Remembers
<1>3. last[p] \in Nat /\ last'[p] \in Nat BY <1>1 DEF Typed
<1>4. Clock(p) \in Nat /\ Clock(p)' \in Nat /\ Clock(p)' >= Clock(p)
  <2>1. wall \in Nat /\ wall' \in Nat /\ wall' >= wall /\ world' = world
        BY <1>1, StepRows DEF Typed
  <2>2. world.lead[p] \in Nat BY <1>1, WorldType
  <2> QED BY <2>1, <2>2 DEF Clock
<1>5. ASSUME NEW v \in Versions, Past(p, v) PROVE Past(p, v)'
  <2>1. v.order \in Nat BY DEF Versions
  <2>2. v.order <= last[p] => v.order <= last'[p] BY <1>2, <1>3, <2>1
  <2>3. v.order <= Clock(p) + 1 => v.order <= Clock(p)' + 1 BY <1>4, <2>1
  <2> QED BY <1>5, <2>2, <2>3 DEF Past
<1>6. CASE gone'[p] = gone[p]
  <2> SUFFICES ASSUME gone[p] # 0
               PROVE  /\ \E f \in ledger'[p] :
                           \/ Key(f) > gone[p]
                           \/ Key(f) = gone[p] /\ f.new \in Hidden
                      /\ \E v \in Versions : gone[p] = Key(v) /\ Past(p, v)'
      BY <1>6 DEF Deleted, Key
  <2>1. PICK v \in Versions : gone[p] = Key(v) /\ Past(p, v)
        BY DEF Known, Deleted
  <2>2. PICK f \in ledger[p] :
          \/ Key(f) > gone[p]
          \/ Key(f) = gone[p] /\ f.new \in Hidden
        BY DEF Known, Deleted
  <2> QED BY <1>2, <1>5, <2>1, <2>2
<1>7. CASE Purge(p) /\ gone'[p] = Key(row[p].sv)
  <2>1. row[p] # NoTask /\ row[p].status = "archived" BY <1>7 DEF Purge
  <2>2. row[p].sv \in Versions /\ row[p].status \in Hidden
        BY <1>1, <2>1, RowStates DEF Rows, Hidden
  <2>3. Past(p, row[p].sv) BY <1>1, <2>1 DEF RowPast, Past
  <2>4. PICK f \in ledger[p] :
          \/ Key(f) > Key(row[p].sv)
          \/ Key(f) = Key(row[p].sv) /\ f.new \in Hidden
        BY <2>1, <2>2 DEF Known, Sourced, Closed
  <2> DEFINE v == row[p].sv
  <2>5. Past(p, v) BY <2>3
  <2> SUFFICES \E x \in Versions : Key(v) = Key(x) /\ Past(p, x)'
      BY <1>2, <1>7, <2>4 DEF Deleted, Key
  <2>6. v \in Versions BY <2>2
  <2> HIDE DEF v
  <2> QED BY <1>5, <2>5, <2>6
<1> QED BY <1>1, <1>6, <1>7, StepGone

LEMMA StepRestored ==
  ASSUME IInv, Typed', [Next]_vars, NEW p \in Machine, Known(p)
  PROVE  Restored(p)'
<1>1. Typed /\ EventsInv /\ EventsBounded BY DEF IInv, EventsInv
<1>2. ledger[p] \subseteq ledger'[p] BY <1>1, StepEvents DEF Remembers
<1> SUFFICES ASSUME row'[p] # NoTask, row'[p].status \notin Hidden, gone'[p] # 0
             PROVE  \E e \in ledger'[p] : e.new \notin Hidden /\ Key(e) > gone'[p]
    BY DEF Restored, Visible, Key
<1>3. gone'[p] = gone[p] /\ gone[p] # 0 BY <1>1, StepGone
<1>4. CASE row[p] # NoTask /\ row'[p].status = row[p].status
  <2>1. PICK e \in ledger[p] : e.new \notin Hidden /\ Key(e) > gone[p]
        BY <1>3, <1>4 DEF Known, Restored, Visible
  <2> QED BY <1>2, <1>3, <2>1
<1>5. CASE MergeTasks(p) /\ row'[p] = MergedRow(p) /\ ledger'[p] = ledger[p]
  <2>1. phase[p] = "ledgered" /\ ~Contradictory(tree[p]) BY <1>5 DEF MergeTasks
  <2>2. /\ tree[p].ledger \subseteq ledger[p] /\ Faithful(tree[p])
        /\ row[p] = NoTask => ledger[p] \subseteq tree[p].ledger
        /\ row[p] # NoTask => Sourced(row[p], ledger[p])
        /\ Deleted(p) /\ Restored(p)
        BY <2>1 DEF Known, Complete, Quiet
  <2>3. MergedRow(p) # NoTask /\ MergedRow(p).status \notin Hidden BY <1>5
  <2>4. PICK e \in ledger[p] : e.new \notin Hidden /\ Key(e) > gone[p]
        BY <1>1, <1>3, <2>1, <2>2, <2>3, MergedRestored
  <2> QED BY <1>3, <1>5, <2>4
<1>6. ASSUME NEW s \in Status, WriteStatus(p, s), row[p] # NoTask
      PROVE  \E e \in ledger'[p] : e.new \notin Hidden /\ Key(e) > gone'[p]
  <2>1. PICK n \in ledger'[p] : n.new = s /\ n.order = NextClock(p) /\ n.by = p
        BY <1>1, <1>6, WriteSourced
  <2>2. s \notin Hidden BY <1>1, <1>6, WriteSourced
  <2>3. PICK v \in Versions : gone[p] = Key(v) /\ Past(p, v)
        BY <1>3 DEF Known, Deleted
  <2>4. /\ NextClock(p) \in Nat /\ NextClock(p) > last[p] /\ NextClock(p) > Clock(p) + 1
        /\ last[p] \in Nat /\ Clock(p) \in Nat
        BY <1>1, ClockMoves, WorldType DEF Typed
  <2>5. v.order \in Nat /\ v.by \in Machine BY DEF Versions
  <2>6. v.order < n.order
    <3>1. CASE v.order <= last[p] BY <2>1, <2>4, <2>5, <3>1
    <3>2. CASE v.order <= Clock(p) + 1 BY <2>1, <2>4, <2>5, <3>2
    <3> QED BY <2>3, <3>1, <3>2 DEF Past
  <2>7. Key(v) < Key(n) BY <2>1, <2>4, <2>5, <2>6, KeyIsUnique
  <2>8. Key(v) \in Nat /\ Key(n) \in Nat BY <2>1, <2>4, <2>5, KeyIsUnique
  <2> QED BY <1>3, <2>1, <2>2, <2>3, <2>7, <2>8
<1> QED BY <1>1, <1>4, <1>5, <1>6, StepRows DEF RowStep

LEMMA InitHistories == Init => Histories
<1> SUFFICES ASSUME Init PROVE Histories OBVIOUS
<1>1. Typed /\ \A m \in Machine : ledger[m] = {Created} BY InitTyped
<1>2. /\ Created.order = 0 /\ Created.by = Min(Machine) /\ Created.new = "todo"
      /\ FirstRow.sv = EventVersion(Created) /\ FirstRow.status = "todo"
      /\ FirstRow.fval = "todo"
      BY DEF Created, FirstRow, EventVersion
<1>3. Key(Created) \in Nat BY <1>2, FirstWriter, KeyIsUnique
<1>4. /\ remote = FirstTree /\ \A m \in Machine : tree[m] = FirstTree
      /\ FirstTree.ledger = {Created} /\ FirstTree.entry.sv = FirstRow.sv
      /\ FirstTree.entry.status = "todo"
      BY DEF Init, FirstTree
<1>5. Faithful(FirstTree) BY <1>2, <1>3, <1>4 DEF Faithful, IsNewest
<1>6. "todo" \notin Hidden BY DEF Hidden
<1>7. Sourced(FirstRow, {Created})
      BY <1>2, <1>6 DEF Sourced, Authored, Closed, EventVersion
<1>8. ASSUME NEW m \in Machine PROVE Known(m)
  <2>1. row[m] = FirstRow /\ gone[m] = 0 BY DEF Init
  <2>2. Complete(m) BY <1>1, <1>4 DEF Complete
  <2> QED BY <1>1, <1>4, <1>5, <1>7, <2>1, <2>2 DEF Known, Deleted, Restored
<1> QED BY <1>4, <1>5, <1>8 DEF Histories

LEMMA StepHistories ==
  ASSUME IInv, Typed', Histories, [Next]_vars
  PROVE  Histories'
<1>1. CASE UNCHANGED vars
      BY <1>1 DEF vars, Histories, Known, Complete, Own, Quiet, Deleted, Restored, Visible,
                  Past, Clock, Key, IsNewest, Faithful, Sourced, Authored, Closed
<1>2. ASSUME NEW m \in Machine, Unmerged(m), UNCHANGED united, ~united' PROVE Histories'
  <2>1. ~united /\ Faithful(remote) /\ \A p \in Machine : Known(p)
        BY <1>2 DEF Histories
  <2>2. \A p \in Machine : Complete(p)' BY <1>2, <2>1, StepComplete DEF Known
  <2>3. \A p \in Machine : row'[p] # NoTask => Sourced(row'[p], ledger'[p])
        BY <2>1, StepSourced
  <2>4. Faithful(remote') /\ \A p \in Machine : Faithful(tree'[p])
        BY <1>2, <2>1, StepFaithful
  <2>5. \A p \in Machine : Deleted(p)' /\ Restored(p)'
        BY <2>1, StepDeleted, StepRestored
  <2>6. ASSUME NEW p \in Machine PROVE Known(p)'
        BY <2>2, <2>3, <2>4, <2>5 DEF Known
  <2> QED BY <2>4, <2>6 DEF Histories
<1> QED BY <1>1, <1>2 DEF Next, Histories

-----------------------------------------------------------------------------
(* The theorems.                                                           *)

LEMMA InitHolds == Init => IInv
<1> SUFFICES ASSUME Init PROVE IInv OBVIOUS
<1>1. Typed /\ \A m \in Machine : ledger[m] = {Created} BY InitTyped
<1>2. Min(Machine) \in Machine BY FirstWriter
<1>3. /\ Created.order = 0 /\ Created.by = Min(Machine)
      /\ Key(FirstRow.sv) = Key(Created) /\ FirstRow.sv.order = 0
      BY DEF Created, FirstRow, Key
<1>4. Key(Created) \in Nat BY <1>2, <1>3, KeyIsUnique
<1>5. /\ remote = FirstTree /\ \A m \in Machine : tree[m] = FirstTree
      /\ FirstTree.ledger = {Created} /\ FirstTree.entry.sv = FirstRow.sv
      BY DEF Init, FirstTree
<1>6. AllEvents = {Created}
      BY <1>1, <1>2, <1>5, InAllEvents
<1>7. EventsInv
  <2>1. Bounded(AllEvents, 0) BY <1>3, <1>6 DEF Bounded
  <2>2. EventsPast /\ EventsUnique /\ EventsKept
        BY <1>1, <1>2, <1>3, <1>6 DEF Init, EventsPast, EventsUnique, EventsKept
  <2> QED BY <2>1, <2>2 DEF EventsInv, EventsBounded
<1>8. RowPast
  <2>1. \A m \in Machine : row[m].sv.order <= last[m] BY <1>3 DEF Init
  <2> QED BY <2>1 DEF RowPast
<1>9. EntriesCover BY <1>3, <1>4, <1>5 DEF EntriesCover, Covers
<1>10. Accounts BY <1>1, <1>5 DEF Init, Accounts, Accounted, Own
<1> QED BY <1>1, <1>7, <1>8, <1>9, <1>10 DEF IInv

LEMMA StepHolds == IInv /\ [Next]_vars => IInv'
<1> SUFFICES ASSUME IInv, [Next]_vars PROVE IInv' OBVIOUS
<1>1. Typed /\ EventsInv /\ EventsBounded BY DEF IInv, EventsInv
<1>2. Typed' BY <1>1, StepTyped
<1>3. MovesEvents /\ Remembers BY <1>1, StepEvents
<1>4. EventsInv' BY <1>1, <1>2, <1>3, StepEventsInv
<1>5. RowPast' BY <1>1, <1>2, <1>3, StepRowPast DEF IInv
<1>6. EntriesCover' BY <1>1, StepCovers DEF IInv
<1>7. Accounts' BY <1>1, StepAccounts DEF IInv
<1> QED BY <1>2, <1>4, <1>5, <1>6, <1>7 DEF IInv

(* The invariant holds in every reachable state.                           *)
THEOREM SyncInvariant == Spec => []IInv
BY InitHolds, StepHolds, PTL DEF Spec

(* Rows, versions, ledgers, clones and phases are what the code makes of   *)
(* them, and no ledger has two events of one clock value and writer, the   *)
(* key by which _event_sort_key and the import tell events apart.          *)
THEOREM SyncTypeCorrect == Spec => []TypeOK
<1>1. Init => overruled \in BOOLEAN BY DEF Init
<1>2. overruled \in BOOLEAN /\ [Next]_vars => (overruled \in BOOLEAN)' BY DEF Next, vars
<1>3. IInv /\ overruled \in BOOLEAN => TypeOK
      BY InAllEvents DEF IInv, EventsInv, EventsUnique, TypeOK
<1> QED BY <1>1, <1>2, <1>3, SyncInvariant, PTL DEF Spec

(* However cycles crash, fail to push or lose a race, and whatever the     *)
(* wall clocks show: what a machine counts as pushed is on the remote,     *)
(* and the remote's entry is as new (the export snapshot's time becomes    *)
(* last_push_at in _record_remote_snapshot).                               *)
THEOREM PushedIsRemote == Spec => []WatermarkSafe
<1>1. IInv => WatermarkSafe
  <2> SUFFICES ASSUME IInv, ~united, NEW m \in Machine, ~dirty[m],
                      NEW e \in ledger[m], e.by = m
               PROVE  /\ e \in remote.ledger
                      /\ remote.entry # NoTask => Key(remote.entry.sv) >= Key(e)
      BY DEF WatermarkSafe
  <2>1. e \in remote.ledger BY DEF IInv, Accounts, Accounted, Own
  <2> QED BY <2>1 DEF IInv, EntriesCover, Covers
<1> QED BY <1>1, SyncInvariant, PTL

(* Whatever machines edit, crash or lose a race, and whatever their wall   *)
(* clocks show, a task whose tombstone was purged comes back on a machine  *)
(* only by an edit that opened it later than the deletion, as purge_done   *)
(* and export_task_files promise; unless a clone was merged by hand.       *)
THEOREM NothingResurrects == Spec => []NoResurrection
<1>1. Init => IInv /\ Histories BY InitHolds, InitHistories
<1>2. IInv /\ Histories /\ [Next]_vars => (IInv /\ Histories)'
  <2> SUFFICES ASSUME IInv, Histories, [Next]_vars PROVE (IInv /\ Histories)' OBVIOUS
  <2>1. IInv' BY StepHolds
  <2>2. Typed' BY <2>1 DEF IInv
  <2> QED BY <2>1, <2>2, StepHistories
<1>3. Histories => NoResurrection
      BY DEF Histories, Known, Restored, NoResurrection
<1> QED BY <1>1, <1>2, <1>3, PTL DEF Spec

\* A history that reopens a closure has an edit that saw the task hidden.
LEMMA HistoryExplains ==
  ASSUME NEW L \in Ledgers, NEW B \in Nat, Bounded(L, B),
         NEW c \in L, NEW r \in L, c.new \in Hidden, HistoryReopens(c, r, L)
  PROVE  \E e \in L : e.new \notin Hidden /\ e.old \in Hidden /\ Key(e) > Key(c)
<1> DEFINE Span == {e \in L : Key(c) < Key(e) /\ Key(e) <= Key(r)}
           Closures(e) == {c} \cup {f \in Span : f.new \in Hidden /\ Key(f) < Key(e)}
<1>1. PICK e \in Span : e.new \notin Hidden /\ e.old = Newest(Closures(e)).new
      BY DEF HistoryReopens
<1>2. \A f \in L : Key(f) \in Nat /\ Key(f) <= 8 * B + 7
  <2> TAKE f \in L
  <2>1. f.order \in Nat /\ f.by \in Machine /\ f.order <= B
        BY DEF Ledgers, Events, Bounded
  <2> QED BY <2>1, KeyBound
<1>3. e \in L /\ Key(c) < Key(e) BY <1>1
<1>4. Closures(e) \subseteq L /\ c \in Closures(e)
      /\ \A f \in Closures(e) : f.new \in Hidden
      OBVIOUS
<1> HIDE DEF Closures, Span
<1>5. Newest(Closures(e)) \in Closures(e) BY <1>2, <1>4, NewestOfSet
<1>6. e.old \in Hidden BY <1>1, <1>4, <1>5
<1> QED BY <1>1, <1>2, <1>3, <1>6

LEMMA StepExplained ==
  ASSUME IInv, [Next]_vars, NEW m \in Machine, Reopened(m)
  PROVE  Explained(m)
<1>1. /\ Typed /\ EventsInv /\ EventsBounded /\ row[m] # NoTask /\ row[m] \in Rows
      /\ row[m].status \in Hidden /\ row'[m] # NoTask /\ row'[m].status \notin Hidden
      BY RowStates DEF IInv, EventsInv, Reopened
<1>2. CASE Merges(m, row'[m]) /\ ledger'[m] = ledger[m]
  <2> DEFINE L == ledger[m]  st == State(row[m])
  <2>1. Reopens(st, L, Chosen(st, L)) BY <1>1, <1>2, AuthorityOf DEF Merges
  <2>2. PICK c \in EventOf(st.sv, L), r \in EventOf(Chosen(st, L), L) :
          c.new = st.status /\ c.order = st.sv.order /\ HistoryReopens(c, r, L)
        BY <2>1 DEF Reopens
  <2>3. c \in L /\ r \in L /\ c.new \in Hidden
        BY <1>1, <2>2 DEF EventOf, State
  <2>4. Key(c) = Key(row[m].sv)
    <3>1. c.order = row[m].sv.order /\ c.by = row[m].sv.by
          BY <2>2 DEF EventOf, State
    <3> QED BY <3>1 DEF Key
  <2>5. L \in Ledgers BY <1>1 DEF Typed
  <2>6. PICK B \in Nat : Bounded(L, B)
        BY <1>1, InAllEvents DEF EventsBounded, Bounded
  <2>7. PICK e \in L : e.new \notin Hidden /\ e.old \in Hidden /\ Key(e) > Key(c)
        BY <2>2, <2>3, <2>5, <2>6, HistoryExplains
  <2> QED BY <1>2, <2>4, <2>7 DEF Explained
<1>3. ASSUME NEW s \in Status, WriteStatus(m, s) PROVE Explained(m)
  <2> DEFINE n == [order |-> NextClock(m), by |-> m, old |-> row[m].status, new |-> s]
  <2>1. n \in ledger'[m] BY <1>1, <1>3, WriteEvents
  <2>2. row'[m].status = s BY <1>1, <1>3 DEF WriteStatus, Typed
  <2>3. /\ NextClock(m) \in Nat /\ NextClock(m) > last[m] /\ NextClock(m) > Clock(m) + 1
        /\ last[m] \in Nat /\ Clock(m) \in Nat
        BY <1>1, ClockMoves, WorldType DEF Typed
  <2>4. row[m].sv.order \in Nat /\ row[m].sv.by \in Machine
        BY <1>1 DEF Rows, Versions
  <2>5. row[m].sv.order <= last[m] \/ row[m].sv.order <= Clock(m) + 1
        BY <1>1 DEF IInv, RowPast
  <2>6. row[m].sv.order < NextClock(m)
    <3>1. CASE row[m].sv.order <= last[m] BY <2>3, <2>4, <3>1
    <3>2. CASE row[m].sv.order <= Clock(m) + 1 BY <2>3, <2>4, <3>2
    <3> QED BY <2>5, <3>1, <3>2
  <2>7. n.order = NextClock(m) /\ n.by = m /\ n.old = row[m].status /\ n.new = s OBVIOUS
  <2> HIDE DEF n
  <2>8. Key(row[m].sv) < Key(n) BY <2>3, <2>4, <2>6, <2>7, KeyIsUnique
  <2> QED BY <1>1, <2>1, <2>2, <2>7, <2>8 DEF Explained
<1>4. RowStep(m) BY <1>1, StepRows
<1> QED BY <1>1, <1>2, <1>3, <1>4 DEF RowStep

(* Whatever crosses on the way between the machines, a hidden row opens,   *)
(* by a merge, a repair or a confirmation, only by an edit in the ledger   *)
(* that saw it hidden and is later than its closure                        *)
(* (_resolve_task_status_authority, _status_history_has_reopening).        *)
THEOREM OpensByAnEdit == Spec => NoSilentReopen
<1>1. ASSUME IInv, [Next]_vars
      PROVE  [\A m \in Machine : Reopened(m) => Explained(m)]_vars
      BY <1>1, StepExplained
<1> QED BY <1>1, SyncInvariant, PTL DEF Spec, NoSilentReopen
=============================================================================
