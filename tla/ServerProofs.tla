---------------------------- MODULE ServerProofs ----------------------------
(* Theorems about Server, for every value of its constants: any number of  *)
(* streams and flows, any window and channel sizes.                        *)
EXTENDS Server, AggregatorProofs

-----------------------------------------------------------------------------
(* Decision: what the risk of a flow below the 500 packets can be *)

LEMMA ScoreBound ==
  ASSUME NEW r \in ResultType, r.packets <= maxPackets
  PROVE  LET score == Score(toFeatures(r))
         IN score \in Nat /\ score <= 50 /\ (score > 0 => score >= 10)
<1>. DEFINE f == toFeatures(r)
<1>1. r.packets \in Nat /\ f.packets = r.packets
  BY DEF ResultType, toFeatures
<1>2. ~HighTotalFwdPackets(f)
  BY <1>1, BoundsAssumption, ThresholdAssumption
     DEF BoundsAssumption, ThresholdAssumption, HighTotalFwdPackets,
         thresholdTotalFwdPackets
<1>. QED
  BY <1>2 DEF Score

(* The decision on a window of at most maxPackets packets.  With the error *)
(* of a failed inference it may be any; a BLOCK without one needs both     *)
(* parts of the risk.                                                      *)
LEMMA EvaluationBound ==
  ASSUME NEW r \in ResultType, r.packets <= maxPackets, NEW d \in Evaluations(r)
  PROVE  /\ d.action \in {"BLOCK", "RATE_LIMIT", "ALLOW"}
         /\ d.risk \in Nat /\ d.risk <= 100 /\ d.ai \in {0, 50}
         /\ d.action = "BLOCK" => d.ai = 50 /\ d.risk - d.ai \in 10 .. 50
<1>1. CASE d = NotInitialised
  BY <1>1 DEF NotInitialised
<1>2. ASSUME NEW label \in Labels, d = EvaluateFlow(toFeatures(r), label)
      PROVE  /\ d.action \in {"BLOCK", "RATE_LIMIT", "ALLOW"}
             /\ d.risk \in Nat /\ d.risk <= 100 /\ d.ai \in {0, 50}
             /\ d.action = "BLOCK" => d.ai = 50 /\ d.risk - d.ai \in 10 .. 50
  <2>. DEFINE score == Score(toFeatures(r))
  <2>1. score \in Nat /\ score <= 50 /\ (score > 0 => score >= 10)
    BY ScoreBound
  <2>2. aiRisk(label) \in {0, 50}
    BY DEF aiRisk, mapLabelToRisk
  <2>3. /\ d.action = classify(aiRisk(label) + score)
        /\ d.risk = aiRisk(label) + score /\ d.ai = aiRisk(label)
    BY <1>2 DEF EvaluateFlow
  <2>. HIDE DEF score
  <2>4. /\ d.action \in {"BLOCK", "RATE_LIMIT", "ALLOW"}
        /\ d.action = "BLOCK" => aiRisk(label) + score >= 60
    BY <2>1, <2>2, <2>3 DEF classify, thresholdBlock, thresholdRateLimit
  <2>. QED
    BY <2>1, <2>2, <2>3, <2>4
<1>. QED
  BY <1>1, <1>2 DEF Evaluations

-----------------------------------------------------------------------------
(* A step of the server is a step of the aggregator, or none of its        *)
(* variables change.  The bounds of the instances play no part.            *)

LEMMA ServerSteps ==
  ServerTypeOK /\ [ServerNext]_serverVars => [AnyStep]_aggVars
<1> SUFFICES ASSUME ServerTypeOK, [ServerNext]_serverVars
             PROVE  [AnyStep]_aggVars
  OBVIOUS
<1>1. ASSUME NEW s \in Callers, MonitorIngest(s) PROVE AnyStep
  <2>1. \A p \in report[s] : p.key \in Keys /\ p.len \in Lengths
    BY DEF ServerTypeOK
  <2>. QED
    BY <1>1, <2>1 DEF MonitorIngest, AnyIngest, AnyStep
<1>2. ASSUME NEW s \in Callers, MonitorCount(s) \/ MonitorEval(s) \/ DrainRecv(s)
      PROVE  AnyStep
  BY <1>2 DEF MonitorCount, MonitorEval, DrainRecv, AnyIngest, AnyStep
<1>3. ASSUME NEW s \in Callers,
             \/ MonitorStart(s) \/ AgentGone(s) \/ RecvEnd(s) \/ MonitorRule(s)
             \/ MonitorSend(s) \/ DrainEval(s) \/ DrainSend(s) \/ DrainStop(s)
             \/ \E k \in Keys, len \in Lengths : Recv(s, k, len)
      PROVE  UNCHANGED aggVars
  BY <1>3 DEF MonitorStart, AgentGone, RecvEnd, MonitorRule, MonitorSend,
              DrainEval, DrainSend, DrainStop, Recv
<1>4. CASE Time \/ Sweeper
  BY <1>4 DEF Time, Sweeper, AnyStep
<1>5. CASE UNCHANGED serverVars
  BY <1>5 DEF serverVars
<1>. QED
  BY <1>1, <1>2, <1>3, <1>4, <1>5 DEF ServerNext, Monitor, Drain

-----------------------------------------------------------------------------
(* The commands.  A held result is as small as the one the drainer         *)
(* received, so what is decided about it is bounded too.                   *)

HoldSizes == \A s \in Callers : \A r \in hold[s] : r.packets <= maxPackets
Bounded(x) ==
  /\ x.cmd.risk <= 100
  /\ x.cmd.source = "AI" /\ x.cmd.action = "BLOCK"
       => x.cmd.ai = 50 /\ x.cmd.risk - x.cmd.ai \in 10 .. 50
CommandsBounded == \A x \in cmds \cup sent : Bounded(x)

LEMMA RespondBounds ==
  ASSUME ServerTypeOK, CommandsBounded,
         NEW s \in Callers, NEW g \in {"monitor", "drain"},
         NEW r \in ResultType, r.packets <= maxPackets,
         NEW d \in Evaluations(r), Respond(s, g, r, d)
  PROVE  /\ cmds' \subseteq SendType /\ shelved' \subseteq Nat
         /\ \A x \in cmds' : Bounded(x)
<1>. DEFINE x == [to |-> s, by |-> g, cmd |-> decisionToCommand(d, r)]
<1>1. /\ d.action \in {"BLOCK", "RATE_LIMIT", "ALLOW"}
      /\ d.risk \in Nat /\ d.risk <= 100 /\ d.ai \in {0, 50}
      /\ d.action = "BLOCK" => d.ai = 50 /\ d.risk - d.ai \in 10 .. 50
  BY EvaluationBound
<1>2. r.key \in Keys /\ r.from \subseteq Callers
  BY DEF ResultType
<1>3. x \in SendType /\ Bounded(x)
  BY <1>1, <1>2 DEF SendType, CommandType, decisionToCommand, Bounded
<1>4. cmds' \subseteq cmds \cup {x} /\ shelved' \subseteq shelved \cup {d.risk}
  BY DEF Respond
<1>. QED
  BY <1>1, <1>3, <1>4 DEF ServerTypeOK, CommandsBounded

LEMMA SendBounds ==
  ASSUME ServerTypeOK, CommandsBounded, NEW s \in Callers, NEW g,
         Send(s, g) \/ UNCHANGED <<cmds, sent>>
  PROVE  /\ cmds' \subseteq SendType /\ sent' \subseteq SendType
         /\ CommandsBounded'
<1>1. cmds' \subseteq cmds /\ sent' \subseteq cmds \cup sent
  BY DEF Send, Sending
<1>. QED
  BY <1>1 DEF ServerTypeOK, CommandsBounded

ServerInv ==
  TypeOK /\ WindowSizes /\ ServerTypeOK /\ HoldSizes /\ CommandsBounded
Kept == ServerTypeOK' /\ HoldSizes' /\ CommandsBounded'

LEMMA MonitorKeeps ==
  ASSUME ServerInv, NEW s \in Callers,
         MonitorStart(s) \/ AgentGone(s) \/ Monitor(s)
           \/ \E k \in Keys, len \in Lengths : Recv(s, k, len)
  PROVE  Kept
<1>. USE DEF ServerInv, Kept
<1>1. CASE MonitorStart(s) \/ AgentGone(s) \/ RecvEnd(s)
  BY <1>1 DEF MonitorStart, AgentGone, RecvEnd, ServerTypeOK, HoldSizes,
              CommandsBounded
<1>2. ASSUME NEW k \in Keys, NEW len \in Lengths, Recv(s, k, len) PROVE Kept
  BY <1>2 DEF Recv, ServerTypeOK, HoldSizes, CommandsBounded
<1>3. CASE MonitorRule(s)
  <2>1. \A p \in report[s], a \in {"BLOCK", "RATE_LIMIT", "ALLOW"} :
           RuleCommand(s, p.key, a) \in SendType /\ Bounded(RuleCommand(s, p.key, a))
    BY DEF ServerTypeOK, RuleCommand, SendType, CommandType, Bounded
  <2>2. cmds' \subseteq SendType /\ \A x \in cmds' : Bounded(x)
    BY <1>3, <2>1 DEF MonitorRule, ServerTypeOK, CommandsBounded
  <2>3. mon' \in [Callers -> {"none", "recv", "rule", "sendRule", "ingest",
                              "counting", "eval", "send", "returned"}]
    BY <1>3 DEF MonitorRule, ServerTypeOK
  <2>. QED
    BY <1>3, <2>2, <2>3 DEF MonitorRule, ServerTypeOK, HoldSizes, CommandsBounded
<1>4. CASE MonitorIngest(s) \/ MonitorCount(s)
  BY <1>4 DEF MonitorIngest, MonitorCount, ServerTypeOK, HoldSizes,
              CommandsBounded
<1>5. CASE MonitorEval(s)
  <2>1. PICK r \in returned[s] : \E d \in Evaluations(r) :
                                    Respond(s, "monitor", r, d)
    BY <1>5 DEF MonitorEval
  <2>2. r \in ResultType /\ r.packets <= maxPackets
    BY BoundsAssumption
       DEF BoundsAssumption, TypeOK, ResultType, WindowSizes, InFlight, Handed
  <2>3. /\ cmds' \subseteq SendType /\ shelved' \subseteq Nat
        /\ \A x \in cmds' : Bounded(x)
    BY <2>1, <2>2, RespondBounds
  <2>. QED
    BY <1>5, <2>3 DEF MonitorEval, ServerTypeOK, HoldSizes, CommandsBounded
<1>6. CASE MonitorSend(s)
  <2>1. /\ cmds' \subseteq SendType /\ sent' \subseteq SendType
        /\ CommandsBounded'
    BY <1>6, SendBounds DEF MonitorSend
  <2>2. mon' \in [Callers -> {"none", "recv", "rule", "sendRule", "ingest",
                              "counting", "eval", "send", "returned"}]
    BY <1>6 DEF MonitorSend, ServerTypeOK
  <2>. QED
    BY <1>6, <2>1, <2>2 DEF MonitorSend, ServerTypeOK, HoldSizes
<1>. QED
  BY <1>1, <1>2, <1>3, <1>4, <1>5, <1>6 DEF Monitor

LEMMA DrainKeeps ==
  ASSUME ServerInv, NEW s \in Callers, Drain(s) \/ DrainStop(s)
  PROVE  Kept
<1>. USE DEF ServerInv, Kept
<1>1. CASE DrainRecv(s)
  <2>1. Head(results) \in ResultType /\ Head(results) \in Queued
    BY <1>1, TailType DEF DrainRecv, TypeOK, Queued
  <2>2. Head(results).packets <= maxPackets
    BY <2>1, BoundsAssumption
       DEF BoundsAssumption, ResultType, WindowSizes, InFlight
  <2>3. hold' \in [Callers -> SUBSET ResultType] /\ HoldSizes'
    BY <1>1, <2>1, <2>2 DEF DrainRecv, ServerTypeOK, HoldSizes
  <2>. QED
    BY <1>1, <2>3 DEF DrainRecv, ServerTypeOK, CommandsBounded
<1>2. CASE DrainEval(s)
  <2>1. PICK r \in hold[s] : \E d \in Evaluations(r) : Respond(s, "drain", r, d)
    BY <1>2 DEF DrainEval
  <2>2. r \in ResultType /\ r.packets <= maxPackets
    BY DEF ServerTypeOK, HoldSizes
  <2>3. /\ cmds' \subseteq SendType /\ shelved' \subseteq Nat
        /\ \A x \in cmds' : Bounded(x)
    BY <2>1, <2>2, RespondBounds
  <2>4. hold' \in [Callers -> SUBSET ResultType] /\ HoldSizes'
    BY <1>2 DEF DrainEval, ServerTypeOK, HoldSizes
  <2>. QED
    BY <1>2, <2>3, <2>4 DEF DrainEval, ServerTypeOK, CommandsBounded
<1>3. CASE DrainSend(s)
  <2>1. /\ cmds' \subseteq SendType /\ sent' \subseteq SendType
        /\ CommandsBounded'
    BY <1>3, SendBounds DEF DrainSend
  <2>. QED
    BY <1>3, <2>1 DEF DrainSend, ServerTypeOK, HoldSizes
<1>4. CASE DrainStop(s)
  BY <1>4 DEF DrainStop, ServerTypeOK, HoldSizes, CommandsBounded
<1>. QED
  BY <1>1, <1>2, <1>3, <1>4 DEF Drain

LEMMA ServerKeeps == ServerInv /\ [ServerNext]_serverVars => ServerInv'
<1> SUFFICES ASSUME ServerInv, [ServerNext]_serverVars PROVE ServerInv'
  OBVIOUS
<1>1. TypeOK' /\ WindowSizes'
  BY ServerSteps, NextType, NextSizes DEF ServerInv
<1>2. Kept
  <2>1. CASE Time \/ Sweeper \/ UNCHANGED serverVars
    BY <2>1 DEF Time, Sweeper, serverVars, streamVars, ServerInv, Kept,
                ServerTypeOK, HoldSizes, CommandsBounded
  <2>. QED
    BY <2>1, MonitorKeeps, DrainKeeps DEF ServerNext
<1>. QED
  BY <1>1, <1>2 DEF ServerInv, Kept

LEMMA ServerInductive == ServerSpec => []ServerInv
<1>1. ServerInit => ServerInv
  <2>1. ServerInit => ServerTypeOK
    BY DEF ServerInit, ServerTypeOK
  <2>. QED
    BY <2>1, InitType, InitSizes
       DEF ServerInit, ServerInv, HoldSizes, CommandsBounded
<1>. QED
  BY <1>1, ServerKeeps, PTL DEF ServerSpec

LEMMA ServerWindows == ServerSpec => []WindowInv
<1>1. ServerInit => WindowInv
  BY InitWindow DEF ServerInit
<1>2. ServerInv /\ WindowInv /\ [ServerNext]_serverVars => WindowInv'
  BY ServerSteps, StepWindow DEF ServerInv
<1>. QED
  BY <1>1, <1>2, ServerInductive, PTL DEF ServerSpec

(* The aggregator's and the server's variables keep their types while any  *)
(* number of streams share the aggregator, and the windows their sizes.    *)
THEOREM ServerTypeCorrect == ServerSpec => [](TypeOK /\ ServerTypeOK /\ WindowSizes)
BY ServerInductive, PTL DEF ServerInv

(* The risk of a command is at most 100, because a window closes before    *)
(* the 500 packets of the third rule.                                      *)
THEOREM RiskFitsScale == ServerSpec => []RiskWithin100
<1>1. ServerInv => RiskWithin100
  BY DEF ServerInv, CommandsBounded, Bounded, RiskWithin100
<1>. QED
  BY <1>1, ServerInductive, PTL

(* No BLOCK comes from the risk rules alone, nor from the model alone.     *)
THEOREM BlocksNeedBoth == ServerSpec => []BlockNeedsBoth
<1>1. ServerInv => BlockNeedsBoth
  BY DEF ServerInv, CommandsBounded, Bounded, BlockNeedsBoth
<1>. QED
  BY <1>1, ServerInductive, PTL

(* With any number of streams on one aggregator, a window is still closed  *)
(* once and evaluated at most once: the one whose handler counted the last *)
(* packet is not also drained, and no two drainers get the same result.    *)
THEOREM ServerWindowsOnce == ServerSpec => []EachWindowOnce
BY OnceWindow, ServerWindows, PTL

(* The server's aggregator implements FlowWindows.                         *)
THEOREM ServerImplements == ServerSpec => ImplementsWindows
<1>1. ServerInit => Windows!AbsInit
  BY InitRefines DEF ServerInit
<1>2. ServerInv /\ WindowInv /\ [ServerNext]_serverVars
        => [Windows!AbsNext]_(Windows!absVars)
  BY ServerSteps, StepRefines DEF ServerInv
<1>. QED
  BY <1>1, <1>2, ServerInductive, ServerWindows, PTL
     DEF ServerSpec, ImplementsWindows, Windows!AbsSpec

(* Nor does a server lose or double a report, whatever becomes of the      *)
(* results its drainers compete for.                                       *)
THEOREM ServerReportsAccounted == ServerSpec => []PacketsAccounted
<1>1. ServerInit => AllAccounts
  BY InitAccounts DEF ServerInit
<1>2. ServerInv /\ WindowInv /\ AllAccounts /\ [ServerNext]_serverVars
        => AllAccounts'
  BY ServerSteps, StepAccounts DEF ServerInv
<1>. QED
  BY <1>1, <1>2, WindowAccounts, ServerInductive, ServerWindows, PTL
     DEF ServerSpec
=============================================================================
