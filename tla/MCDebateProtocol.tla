---------------------------- MODULE MCDebateProtocol ----------------------------
(***************************************************************************)
(* A debate/v1 topic for TLC, of which each behaviour looks at one `part`:  *)
(* the protocol with its rounds or with its judge (opposing roles A and B, *)
(* a judge J), or the inbox of one role with two sessions s1 and s2.  The  *)
(* variables of the parts it does not look at stay as they are.            *)
(***************************************************************************)
EXTENDS DebateProtocol, TLC

CONSTANTS A, B, J, accept, refuse,              \* DebateProtocol
          Role, s1, s2, Nobody, Done            \* DebateChannel

VARIABLES
  part,
  cMsgs, cReleased, binding, cCursor, delivered, watermark, claim, answered,
  completed, shown, pageEnd, walked, seated, ledger, signed, reclaimed

Act(role, kind, to) ==
  [role |-> role, kind |-> kind, result |-> "verified", text |-> 1,
   urgent |-> FALSE, to |-> to]
Contest(role, to) == [Act(role, "VERIFY", to) EXCEPT !.result = "contested"]
Urgent(f)  == [f EXCEPT !.urgent = TRUE]

ClaimActs == {Urgent(Act(A, "CLAIM", {B})), Act(B, "CLAIM", {})}

RoundActs ==
  ClaimActs \cup
  {Act(A, "CHALLENGE", {}), Act(B, "REBUT", {}),
   Act(J, "VERIFY", {}), Contest(J, {}), Act(J, "ESCALATE", {Human})}

JudgeActs ==
  ClaimActs \cup
  {Act(J, "VERIFY", {}), Contest(J, {}), Act(B, "ESCALATE", {Human}),
   Act(A, "ESCALATE", {Human}), Act(A, "DISSENT", {})}

AllActs == RoundActs \cup JudgeActs

\* Two rounds of messages, nobody leaves.
Rounds == INSTANCE DebateProtocol WITH Recoverable <- {}, Movable <- {}, Acts <- RoundActs

\* One round, with the judge at work and every role recoverable.
Judged == INSTANCE DebateProtocol WITH Acts <- JudgeActs, MaxRounds <- 1, MaxMsgs <- 5

F(sort, blind) == [to |-> {Role}, sort |-> sort, blind |-> blind]

\* Messages to the role, standing rows and a blind commit; pages of one message.
Inbox == INSTANCE DebateChannel WITH
  Sessions <- {s1, s2}, Owning <- {s1}, Diagnosing <- {}, V1 <- TRUE, Overridden <- FALSE,
  Forms <- {F("plain", FALSE), F("standing", FALSE), F("plain", TRUE)},
  Limit <- 1, MaxMsgs <- 3,
  msgs <- cMsgs, released <- cReleased, cursor <- cCursor

inbox == <<cMsgs, cReleased, binding, cCursor, delivered, watermark, claim, answered,
           completed, shown, pageEnd, walked, seated, ledger, signed, reclaimed>>

PartsInit == part \in {"rounds", "judge", "inbox"} /\ Init /\ Inbox!Init

RoundsStep == part = "rounds" /\ Rounds!Next /\ UNCHANGED <<part, inbox>>
JudgeStep  == part = "judge" /\ Judged!Next /\ UNCHANGED <<part, inbox>>
InboxStep  == part = "inbox" /\ Inbox!Next /\ UNCHANGED <<part, vars>>

PartsSpec == PartsInit /\ [][RoundsStep \/ JudgeStep \/ InboxStep]_<<vars, part, inbox>>

(* debate/v1: the owner of the role leaves no message behind its cursor    *)
(* that it was neither shown nor covered by a WATERMARK (DebateChannel).   *)
OwnerMissesNothing == part = "inbox" => Inbox!OwnerMissesNothing

\* What a debate/v1 cursor may pass does not depend on replies or on the
\* queue, nothing is promised to a session that walks or has no seat, or that is
\* seated once the ledger is full, and a WATERMARK that moves back is met by the
\* channel run.
InboxBound ==
  /\ completed = {} /\ answered = {} /\ walked = {} /\ watermark = ledger
  /\ Inbox!Bound = {} => delivered = [s \in {s1, s2} |-> 0]
  /\ Len(cMsgs) = 3 => Inbox!Owners # {} /\ seated < 3

\* In debate/v1 replies, completions and signed neither guard nor move what
\* OwnerMissesNothing reads.
WithoutSigned == <<vars, part, cMsgs, cReleased, binding, cCursor, delivered, watermark,
                   claim, shown, pageEnd, walked, seated, ledger>>
================================================================================
