------------------------------- MODULE Server -------------------------------
(***************************************************************************)
(* manager/internal/grpc_server/server.go: one Monitor handler and one     *)
(* drain goroutine per agent stream, all on one Aggregator and one         *)
(* decision engine.  A stream is a caller of the aggregator; nobody closes *)
(* the aggregator.  The rule engine is a component of its own (RuleEngine) *)
(* and enters here only by its verdict.                                    *)
(***************************************************************************)
EXTENDS Aggregator, Decision

CONSTANT Reporters  \* bound: the streams whose agents report

(* A window closes (200 packets) before the third risk rule applies (500). *)
ASSUME ThresholdAssumption == maxPackets <= thresholdTotalFwdPackets

VARIABLES
  engineReady,  \* decision.Init succeeded (main.go)
  link,         \* per stream: "new", "up", or "down" once the agent is gone
  mon,          \* per stream: where the Monitor handler is
  report,       \* per stream: the report the handler works on
  drain,        \* per stream: where its drain goroutine is
  stopDrain,    \* per stream: the channel is closed
  hold,         \* per stream: the result its drain goroutine received
  cmds,         \* commands being sent: stream, sending goroutine, command
  sent,         \* ghost: AI commands that reached a stream
  shelved       \* ghost: risks of evaluations given up for an error

streamVars == <<link, mon, report, drain, stopDrain, hold, cmds, sent, shelved>>
serverVars == <<aggVars, engineReady, streamVars>>

ServerInit ==
  /\ Init
  /\ engineReady \in BOOLEAN
  /\ link = [s \in Callers |-> "new"] /\ mon = [s \in Callers |-> "none"]
  /\ report = [s \in Callers |-> {}]
  /\ drain = [s \in Callers |-> "none"]
  /\ stopDrain = [s \in Callers |-> FALSE]
  /\ hold = [s \in Callers |-> {}]
  /\ cmds = {} /\ sent = {} /\ shelved = {}

-----------------------------------------------------------------------------
(* evaluateAndRespond, for the goroutine g of stream s *)

decisionToCommand(d, r) ==
  [source |-> "AI", action |-> d.action, risk |-> d.risk, ai |-> d.ai,
   key |-> r.key, from |-> r.from]

Evaluations(r) ==
  IF engineReady THEN {EvaluateFlow(toFeatures(r), label) : label \in Labels}
  ELSE {NotInitialised}

(* An error ends it; ALLOW needs no command; any other decision is sent.   *)
Respond(s, g, r, d) ==
  LET worth == ~d.err /\ d.action # "ALLOW"
  IN /\ cmds' = IF worth
                THEN cmds \cup {[to |-> s, by |-> g,
                                 cmd |-> decisionToCommand(d, r)]}
                ELSE cmds
     /\ shelved' = IF d.err THEN shelved \cup {d.risk} ELSE shelved

Sending(s, g) == {x \in cmds : x.to = s /\ x.by = g}

(* stream.Send: the command arrives, or the error is only logged.          *)
Send(s, g) ==
  \E x \in Sending(s, g) :
    /\ cmds' = cmds \ {x}
    /\ sent' = IF link[s] = "up" /\ x.cmd.source = "AI"
               THEN sent \cup {x} ELSE sent

-----------------------------------------------------------------------------
(* The Monitor handler *)

(* The agent connects: the handler starts its drain goroutine and reads.   *)
MonitorStart(s) ==
  /\ link[s] = "new"
  /\ link' = [link EXCEPT ![s] = "up"]
  /\ mon' = [mon EXCEPT ![s] = "recv"]
  /\ drain' = [drain EXCEPT ![s] = "select"]
  /\ UNCHANGED <<aggVars, engineReady, report, stopDrain, hold, cmds, sent,
                 shelved>>

AgentGone(s) ==
  /\ link[s] = "up"
  /\ link' = [link EXCEPT ![s] = "down"]
  /\ UNCHANGED <<aggVars, engineReady, mon, report, drain, stopDrain, hold,
                 cmds, sent, shelved>>

(* A report arrives.                                                       *)
Recv(s, k, len) ==
  /\ s \in Reporters
  /\ mon[s] = "recv" /\ link[s] = "up" /\ MayArrive(k)
  /\ report' = [report EXCEPT ![s] = {[key |-> k, len |-> len]}]
  /\ mon' = [mon EXCEPT ![s] = "rule"]
  /\ UNCHANGED <<aggVars, engineReady, link, drain, stopDrain, hold, cmds,
                 sent, shelved>>

(* Path 1: the rule engine matches nothing, or its command is sent.        *)
RuleCommand(s, k, a) ==
  [to |-> s, by |-> "monitor",
   cmd |-> [source |-> "Rule", action |-> a, risk |-> 0, ai |-> 0, key |-> k,
            from |-> {s}]]

MonitorRule(s) ==
  /\ mon[s] = "rule"
  /\ \/ mon' = [mon EXCEPT ![s] = "ingest"] /\ UNCHANGED cmds
     \/ \E p \in report[s], a \in {"BLOCK", "RATE_LIMIT", "ALLOW"} :
          /\ cmds' = cmds \cup {RuleCommand(s, p.key, a)}
          /\ mon' = [mon EXCEPT ![s] = "sendRule"]
  /\ UNCHANGED <<aggVars, engineReady, link, report, drain, stopDrain, hold,
                 sent, shelved>>

(* io.EOF or a read error: the handler returns and stops its drainer.      *)
RecvEndLeak(s) == \* mutant: stopDrain is never closed
  /\ mon[s] = "recv" /\ link[s] = "down"
  /\ mon' = [mon EXCEPT ![s] = "returned"]
  /\ UNCHANGED <<aggVars, engineReady, link, report, drain, stopDrain, hold,
                 cmds, sent, shelved>>

RecvEnd(s) ==
  /\ mon[s] = "recv" /\ link[s] = "down"
  /\ mon' = [mon EXCEPT ![s] = "returned"]
  /\ stopDrain' = [stopDrain EXCEPT ![s] = TRUE]
  /\ UNCHANGED <<aggVars, engineReady, link, report, drain, hold, cmds, sent,
                 shelved>>

(* Path 2: Ingest; its clock read and its critical section.                *)
MonitorIngest(s) ==
  /\ mon[s] = "ingest"
  /\ \E p \in report[s] : IngestRead(s, p.key, p.len)
  /\ mon' = [mon EXCEPT ![s] = "counting"]
  /\ report' = [report EXCEPT ![s] = {}]
  /\ UNCHANGED <<engineReady, link, drain, stopDrain, hold, cmds, sent, shelved>>

MonitorCount(s) ==
  /\ mon[s] = "counting" /\ IngestLocked(s)
  /\ mon' = [mon EXCEPT ![s] = IF returned'[s] = {} THEN "recv" ELSE "eval"]
  /\ UNCHANGED <<engineReady, link, report, drain, stopDrain, hold, cmds, sent,
                 shelved>>

MonitorEval(s) ==
  /\ mon[s] = "eval" /\ TakeReturned(s)
  /\ \E r \in returned[s] : \E d \in Evaluations(r) : Respond(s, "monitor", r, d)
  /\ mon' = [mon EXCEPT ![s] = "send"]
  /\ UNCHANGED <<engineReady, link, report, drain, stopDrain, hold, sent>>

(* Each Send is awaited; then the handler goes on.                         *)
MonitorSend(s) ==
  /\ mon[s] \in {"sendRule", "send"}
  /\ \/ Send(s, "monitor")
     \/ Sending(s, "monitor") = {} /\ UNCHANGED <<cmds, sent>>
  /\ mon' = [mon EXCEPT ![s] = IF @ = "sendRule" THEN "ingest" ELSE "recv"]
  /\ UNCHANGED <<aggVars, engineReady, link, report, drain, stopDrain, hold,
                 shelved>>

-----------------------------------------------------------------------------
(* The drain goroutine of a stream *)

DrainRecv(s) ==
  /\ drain[s] = "select" /\ results # <<>>
  /\ hold' = [hold EXCEPT ![s] = {Head(results)}]
  /\ TakeResult
  /\ drain' = [drain EXCEPT ![s] = "eval"]
  /\ UNCHANGED <<engineReady, link, mon, report, stopDrain, cmds, sent, shelved>>

DrainEval(s) ==
  /\ drain[s] = "eval"
  /\ \E r \in hold[s] : \E d \in Evaluations(r) : Respond(s, "drain", r, d)
  /\ hold' = [hold EXCEPT ![s] = {}]
  /\ drain' = [drain EXCEPT ![s] = "send"]
  /\ UNCHANGED <<aggVars, engineReady, link, mon, report, stopDrain, sent>>

DrainSend(s) ==
  /\ drain[s] = "send"
  /\ \/ Send(s, "drain")
     \/ Sending(s, "drain") = {} /\ UNCHANGED <<cmds, sent>>
  /\ drain' = [drain EXCEPT ![s] = "select"]
  /\ UNCHANGED <<aggVars, engineReady, link, mon, report, stopDrain, hold,
                 shelved>>

DrainStop(s) ==
  /\ drain[s] = "select" /\ stopDrain[s]
  /\ drain' = [drain EXCEPT ![s] = "exit"]
  /\ UNCHANGED <<aggVars, engineReady, link, mon, report, stopDrain, hold,
                 cmds, sent, shelved>>

-----------------------------------------------------------------------------
Monitor(s) == \/ RecvEnd(s) \/ MonitorRule(s) \/ MonitorIngest(s) \/ MonitorCount(s)
              \/ MonitorEval(s) \/ MonitorSend(s)
Drain(s) == DrainRecv(s) \/ DrainEval(s) \/ DrainSend(s)

(* Bound: the clock passes MaxArrival once every report has been read by   *)
(* Ingest.                                                                 *)
Time == /\ now < MaxArrival \/ \A s \in Callers : report[s] = {}
        /\ Advance /\ UNCHANGED <<engineReady, streamVars>>
Sweeper == Sweep /\ UNCHANGED <<engineReady, streamVars>>

ServerNext ==
  \/ \E s \in Callers :
       \/ MonitorStart(s) \/ AgentGone(s) \/ Monitor(s)
       \/ Drain(s) \/ DrainStop(s)
       \/ \E k \in Keys, len \in Lengths : Recv(s, k, len)
  \/ Time \/ Sweeper

ServerSpec == ServerInit /\ [][ServerNext]_serverVars

(* Goroutines run; a Send ends (delivered, or in an error once the agent   *)
(* is gone); a drainer's select picks the closed stopDrain sooner or later *)
(* although results may be ready too.  No agent has to connect or report.  *)
ServerFairness ==
  /\ WF_serverVars(Time) /\ WF_serverVars(Sweeper)
  /\ \A s \in Callers :
       /\ WF_serverVars(Monitor(s)) /\ WF_serverVars(Drain(s))
       /\ SF_serverVars(DrainStop(s))

FairServerSpec == ServerSpec /\ ServerFairness

-----------------------------------------------------------------------------
(* Properties *)

CommandType ==
  [source : {"Rule", "AI"}, action : {"BLOCK", "RATE_LIMIT", "ALLOW"},
   risk : Nat, ai : {0, 50}, key : Keys, from : SUBSET Callers]
SendType == [to : Callers, by : {"monitor", "drain"}, cmd : CommandType]

(* The server's variables have their types.                                *)
ServerTypeOK ==
  /\ engineReady \in BOOLEAN
  /\ link \in [Callers -> {"new", "up", "down"}]
  /\ mon \in [Callers -> {"none", "recv", "rule", "sendRule", "ingest", "counting",
                          "eval", "send", "returned"}]
  /\ report \in [Callers -> SUBSET [key : Keys, len : Lengths]]
  /\ drain \in [Callers -> {"none", "select", "eval", "send", "exit"}]
  /\ stopDrain \in [Callers -> BOOLEAN]
  /\ hold \in [Callers -> SUBSET ResultType]
  /\ cmds \subseteq SendType /\ sent \subseteq SendType
  /\ shelved \subseteq Nat

(* The risk of a command fits the scale of its reason, "risk score %d/100" *)
(* (server.go:196, 203): only because no window reaches the 500 packets of *)
(* the third risk rule.                                                    *)
RiskWithin100 == \A x \in cmds \cup sent : x.cmd.risk <= 100

(* A BLOCK is never the word of the risk rules alone, nor of the model     *)
(* alone: the risk of each is below thresholdBlock, so a blocked flow has  *)
(* the model's 50 and at least one rule (decision/engine.go:48-54).        *)
BlockNeedsBoth ==
  \A x \in cmds \cup sent :
    x.cmd.source = "AI" /\ x.cmd.action = "BLOCK"
      => x.cmd.ai = 50 /\ x.cmd.risk - x.cmd.ai \in 10 .. 50

(* The flow of a stream that reports is evaluated, or lost whole, or no    *)
(* stream is left to drain it (server.go:82-84).                           *)
Decided(k, n) == \E w \in taken \cup lost : w.key = k /\ w.window = n
Draining(s) == drain[s] \in {"select", "eval", "send"}
QuietFlowsDecided ==
  \A k \in Keys : \A n \in 1 .. MaxReports :
    (Open(k) /\ windows[k] = n)
      ~> (Decided(k, n) \/ \A s \in Callers : ~Draining(s))

(* A drainer ends once its handler has returned, whatever the other        *)
(* streams feed the results channel with (server.go:85-99).                *)
DrainersEnd == \A s \in Callers : mon[s] = "returned" ~> drain[s] = "exit"

(* An ActionCommand goes back to the agent whose reports made it           *)
(* (server.go:36-38, 154-155).                                             *)
CommandToReporter == \A x \in sent : x.to \in x.cmd.from

(* An inference failure never drops a flow that the rules alone would act  *)
(* upon (decision/engine.go:114-116).                                      *)
RulesDecideWithoutModel == \A risk \in shelved : risk < thresholdRateLimit
=============================================================================
