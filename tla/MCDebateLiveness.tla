---------------------------- MODULE MCDebateLiveness ----------------------------
(***************************************************************************)
(* The liveness of the debate modules: one instance of each, of which only *)
(* the one `part` names runs.  The others stay in their initial state, and *)
(* nothing is assumed of their fairness.                                   *)
(***************************************************************************)
EXTENDS Naturals

CONSTANTS A, B, J, Human, accept,       \* DebateProtocol
          Role, s1, s2, Nobody, Done    \* DebateChannel, DebateWake

VARIABLES
  part,
  topic, phase, round, version, deadline, msgs, commits, released, packets, pair,
  verdicts, bound, cursor, peeked,
  cMsgs, cReleased, binding, cCursor, delivered, watermark, cClaim, cAnswered,
  completed, shown, pageEnd, walked, seated, ledger, signed, reclaimed,
  hooked, posted, answered, seat, generation, wCursor, wWatermark, vouched, claim,
  latest, wake, receipt, pending, procs, job, scan, passed, children, census, launched,
  faults

Act(role, kind, to) ==
  [role |-> role, kind |-> kind, result |-> "verified", text |-> 1,
   urgent |-> FALSE, to |-> to]

PumpActs ==
  {[Act(A, "CLAIM", {B}) EXCEPT !.urgent = TRUE], Act(B, "CLAIM", {}),
   [Act(J, "PING", {A}) EXCEPT !.urgent = TRUE],
   [Act(J, "VERIFY", {}) EXCEPT !.result = "contested"], Act(J, "ESCALATE", {Human})}

\* Opposing roles A and B and a judge J; A has no owner at first, and operators
\* may unseat A and J.
Protocol == INSTANCE DebateProtocol WITH
  Roles <- {A, B, J}, Blind <- {A, B}, Recoverable <- {A, J}, Seated <- {B, J},
  Movable <- {A, J}, Acts <- PumpActs, Decisions <- {accept}, MaxRounds <- 2, MaxMsgs <- 4

\* A one-shot and two sessions that may own the role.
Channel == INSTANCE DebateChannel WITH
  Sessions <- {s1, s2}, Owning <- {s1, s2}, Diagnosing <- {}, V1 <- FALSE,
  Overridden <- TRUE, Limit <- 2, MaxMsgs <- 1,
  Forms <- {[to |-> {Role}, sort |-> "oneshot", blind |-> FALSE]},
  msgs <- cMsgs, released <- cReleased, cursor <- cCursor, claim <- cClaim,
  answered <- cAnswered

\* Two triggers, a pump without hooks that may run one worker at a time, one retry,
\* an owner that reads nothing.
Wake == INSTANCE DebateWake WITH
  Sessions <- {s1}, FirstOwner <- s1, Handovers <- {}, HookModes <- {FALSE},
  Reading <- FALSE, LastTrigger <- 2, MaxRequeues <- 1, MaxConcurrent <- 1,
  MaxPerScan <- 1, Limit <- 2, MaxFaults <- 0,
  cursor <- wCursor, watermark <- wWatermark

Init ==
  /\ part \in {"protocol", "channel", "wake"}
  /\ Protocol!Init /\ Channel!Init /\ Wake!Init

pvars == <<topic, phase, round, version, deadline, msgs, commits, released, packets,
           pair, verdicts, bound, cursor, peeked>>
cvars == <<cMsgs, cReleased, binding, cCursor, delivered, watermark, cClaim, cAnswered,
           completed, shown, pageEnd, walked, seated, ledger, signed, reclaimed>>
wvars == <<hooked, posted, answered, seat, generation, wCursor, wWatermark, vouched,
           claim, latest, wake, receipt, pending, procs, job, scan, passed, children,
           census, launched, faults>>
vars  == <<part, pvars, cvars, wvars>>

ProtocolStep == part = "protocol" /\ Protocol!Next /\ UNCHANGED <<part, cvars, wvars>>
ChannelStep  == part = "channel" /\ Channel!Next /\ UNCHANGED <<part, pvars, wvars>>
WakeStep     == part = "wake" /\ Wake!Next /\ UNCHANGED <<part, pvars, cvars>>

\* The fairness of each module's FairSpec, asked of the instance that runs.
ProtocolFair ==
  /\ WF_pvars(part = "protocol" /\ Protocol!PassDeadline)
  /\ WF_pvars(part = "protocol" /\ Protocol!Maintain)

ChannelFair ==
  /\ \A s \in {s1, s2} :
       WF_cvars(part = "channel" /\ Channel!Check(s, 0) /\ s \in Channel!Owners)
  /\ WF_cvars(part = "channel" /\ Channel!Reclaim({1}))

WakeFair ==
  /\ WF_wvars(part = "wake" /\ Wake!BeginScan) /\ WF_wvars(part = "wake" /\ Wake!NextRow)
  /\ \A l \in {"hook", "pump"} :
       /\ WF_wvars(part = "wake" /\ Wake!Dispatch(l))
       /\ SF_wvars(part = "wake" /\ Wake!ClaimTarget(l))
  /\ SF_wvars(part = "wake" /\ Wake!Recover)
  /\ WF_wvars(part = "wake" /\ \E p \in procs : Wake!Exits(p))
  /\ \A t \in {1, 2} : WF_wvars(part = "wake" /\ Wake!Ages(s1, t))

FairSpec ==
  /\ Init /\ [][ProtocolStep \/ ChannelStep \/ WakeStep]_vars
  /\ ProtocolFair /\ ChannelFair /\ WakeFair

\* DebateProtocol: every timed phase ends; every recoverable role gets an owner.
TimedPhasesEnd == part = "protocol" => Protocol!TimedPhasesEnd
RolesRecovered == part = "protocol" => Protocol!RolesRecovered

\* DebateChannel: a one-shot reaches whoever stays the owner.
OneShotReachesOwner == part = "channel" => Channel!OneShotReachesOwner

\* DebateWake: every trigger is in the end answered, declined or closed.
EveryTriggerCloses == part = "wake" => Wake!EveryTriggerCloses
================================================================================
