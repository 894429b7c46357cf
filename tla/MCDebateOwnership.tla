-------------------------- MODULE MCDebateOwnership --------------------------
(***************************************************************************)
(* Instances of DebateOwnership for TLC: a questioner C (the conductor)    *)
(* and one answering role R that two sessions may own.  The openers are    *)
(* already in the ledger when the instance starts, so that the few rows it *)
(* may still write are the interesting ones.                               *)
(***************************************************************************)
EXTENDS DebateOwnership, TLC

CONSTANTS C, R, s1, s2,
  Parts   \* the instances a run goes through: "given" has the cfg's constants

VARIABLE part

MCSymmetry == Permutations({s1, s2})

Form(role, kind, to, replies) ==
  [role |-> role, kind |-> kind, oneShot |-> FALSE, impl |-> FALSE, to |-> to,
   replies |-> replies]

Question  == Form(C, "Q", {R}, FALSE)
Decision  == [Form(C, "DECISION", {R}, FALSE) EXCEPT !.oneShot = TRUE]
Override  == Form(C, "DECISION", {R}, FALSE)
Implement == [Form(C, "Q", {R}, FALSE) EXCEPT !.impl = TRUE]
State     == Form(C, "STATE", {}, FALSE)
Answer    == Form(R, "A", {}, TRUE)
Note      == Form(R, "STATUS", {}, TRUE)

Legacy(f, t) == Row(f, t, Anonymous, "legacy")

AnswerForms   == {Answer}
OldQuestion   == <<Legacy(Question, 0)>>

AuthorityForms == {Answer, State}
OldOverride    == <<Legacy(Override, 0)>>

OneShotForms  == {Note}
OldDecisions  == <<Legacy(Decision, 0), Legacy(Question, 0)>>

GateForms     == {Question, Answer, State, Implement}
NoLegacy      == <<>>

SeatR    == {R} \X {s1, s2}
SeatBoth == {<<C, s1>>, <<R, s1>>, <<R, s2>>}

\* Bindings of two roles, an old override, lifecycle transitions.
Authority == INSTANCE DebateOwnership WITH
  Bindable <- SeatBoth, Forms <- AuthorityForms, LegacyLedger <- OldOverride,
  MaxWorkers <- 1, MaxRequeues <- 0

\* One-shot DECISIONs to an executor role.
OneShots == INSTANCE DebateOwnership WITH
  Executors <- {R}, Forms <- OneShotForms, LegacyLedger <- OldDecisions, MaxRequeues <- 1

PartsInit ==
  /\ part \in Parts
  /\ \/ part = "given" /\ Init
     \/ part = "authority" /\ Authority!Init
     \/ part = "oneshot" /\ OneShots!Init

GivenStep     == part = "given" /\ Next /\ UNCHANGED part
AuthorityStep == part = "authority" /\ Authority!Next /\ UNCHANGED part
OneShotsStep  == part = "oneshot" /\ OneShots!Next /\ UNCHANGED part

PartsSpec ==
  PartsInit /\ [][GivenStep \/ AuthorityStep \/ OneShotsStep]_<<vars, part>>

\* Two posts suffice to archive a topic beside running workers.
TwoPosts == part = "authority" => Len(msgs) \leq 3

================================================================================
