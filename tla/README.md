# Snffr in TLA+

Snffr is an intrusion prevention system. A Rust agent on each host captures
packets and streams reports of them to a Go manager; the manager runs a rule
engine on every packet and an anomaly model on every flow, and streams commands
(`BLOCK`, `RATE_LIMIT`, `ALLOW`) back, which the agent carries out with XDP and
iptables. This directory holds models of the parts that decide and act, the TLC
runs that check them on small instances, and TLAPS proofs about them for every
value of their constants. `PROJECT.json` maps each definition to the lines it
models, and lists the runs, the hazards, the findings and the theorems.

## The system

```
 agent (Rust)                                manager (Go)
 capture -> parser -> queue -> gRPC =======> Monitor, one per stream
                                               |-> rule engine (rules.yaml) --> command
 responder <=============== commands <=======  |-> aggregator.Ingest -> window -> decision --> command
   |-> XDP map (bpftool)                       drain goroutine, one per stream
   |-> INPUT chain (iptables)                    <- results channel <- sweep goroutine
   |-> a task per temporary command            event bus -> dashboard
```

| Component | State | Operations | What makes it correct |
|---|---|---|---|
| aggregator (`manager/internal/aggregator`) | map of open flows under a mutex, results channel (256), stopCh, ticker | `Ingest` (any goroutine), `sweep` (its own goroutine), `Results`, `Close` | no window closed or evaluated twice, no packet lost unseen, quiet flows closed, neither the sweep nor `Close` blocks |
| features, risk rules, decision (`ai`, `rules`, `decision`) | none (one engine, set once) | `toFeatures`, `Score`, `Predict`, `EvaluateFlow` | the risk is on the 0-100 scale, a BLOCK needs both the model and a rule, an inference error drops nothing |
| gRPC server (`grpc_server`) | one handler and one drain goroutine per stream; shares aggregator, rule engine, decision engine | `Monitor`, `evaluateAndRespond` | a command goes to the agent that reported; every window is decided; goroutines end with their stream |
| rule engine (`rule_engine`) | rules and per rule, per address timestamps under a mutex; a file watcher | `Evaluate`, `LoadRules`, `watchRules` | exact sliding windows, one alarm per threshold of packets, nothing survives a reload, edits are loaded |
| responder (`agent/src/responder.rs`, `ebpf_loader.rs`) | XDP flag, XDP map, INPUT chain (both the kernel's), spawned tasks | `handle_command`, the tasks, `load_xdp`, `unload_xdp` | equal rules are counted right, a rate limit never turns into an allowance, only failures leave a key behind, every undo ends |
| agent main (`agent/src/main.rs`) | three queues between threads and tasks | capture, parse, send, receive | reports in order, bounded memory, shutdown |
| XDP filter (`xdp_block.c`) | maps of blocked and rate limited addresses, statistics | `xdp_filter`, on every CPU | blocked addresses are dropped, the limit is kept |
| event bus and dashboard (`events`, `tui`) | bounded bus (1000), table of agents, last alerts and logs | `Publish`, `Update`, `waitForEvent` | never blocks a publisher, always one reader, the table shows who is connected |

Hard to test here, and the reason for the models: goroutines that race for one
mutex, one channel and one stream; a clock read outside the mutex; a ticker that
drops ticks; a channel that drops results; a file edited while it is loaded;
overlapping blocks of one address whose rules look the same; tasks in memory that
guard state in the kernel. `PROJECT.json` lists every hazard at its line.

## Modules

**FlowWindows** is what the aggregator promises, with neither clock, mutex,
channel nor goroutines: reports of a flow are counted in numbered windows, a
closed window is pending until it is evaluated or lost, and is never both.

**Aggregator** is `aggregator.go`. A critical section of the mutex is one action
(`IngestLocked`, `SweepScan`); what the code does outside it is an action of its
own: `IngestRead` is the `time.Now()` before `Lock`, `SweepPush` one turn of the
loop over the expired flows, `CloseCheck` and `CloseStop` the two halves of the
`select` in `Close`. `flows[k].packets = 0` stands for a missing key. The code's
`totalPackets` and `fwdPackets` are always equal, as are the byte counters: the
model has one of each. `tick` is the ticker's channel of capacity one. `windows`,
`seen`, `taken`, `lost` and the `from` field of a flow are ghosts: they number the
windows, count what was counted, and remember whose packets a window holds.
`TakeReturned` and `TakeResult` are the users of the aggregator.

**Decision** is the pure part: `toFeatures`, the four rules, `mapLabelToRisk`,
`classify`, `EvaluateFlow`. Rates are compared by cross-multiplication in whole
microseconds. The model's label, or the error of an inference, is an input.

**Server** (EXTENDS Aggregator and Decision) is `server.go`: a stream is a caller
of the aggregator. `mon[s]` and `drain[s]` say where the handler of stream `s` and
its drain goroutine are; between receiving a result and sending the command each
may be overtaken by all the others. The two paths of a report are `MonitorRule`
(the rule engine's verdict is free here) and `MonitorIngest`/`MonitorCount`.
`Reporters` bounds an instance: the streams whose agents report.

**RuleEngine** is `rule_engine/engine.go`. `Evaluate` holds the mutex over its
loop but reads the clock in each turn, so each turn is a step, and `evaluating`
is the holder of the mutex. The list of timestamps is only filtered and measured, so it is a
set of stamps, each with a number and with the load of the rules it was taken
under. The watcher's first `Stat`, its later `Stat`s
and its loads are separate steps, and the file may be edited between any two.
`log`, `counted`, `alarms` and `loads` are ghosts.

**Responder** is the Linux agent's response. Every run of `iptables` or `bpftool`
is a step that may fail unseen. The handler does one command at a time
(`handle_command` is awaited) and the tasks it spawned run beside it. The chain
remembers the position of each rule: `-A` appends, `-D` deletes the first equal
rule. `iptables` rejects an IPv6 address and a limit of 0 packets a second, which is
what the rule engine sends when the YAML has no `rate_limit_pps`: such a limit is
its DROP alone, a plain block. `Crash` leaves XDP attached. Ctrl-C wakes a task of its own, whose commands
(`Detach`, `Unpin`, `Exit`) run beside the handler and the other tasks and may fail.
`Restart` is `load_xdp`: when the old program cannot be detached the new one cannot
be attached, and the agent runs without XDP while the old keys stay in force.
`permanent`, `blocked`, `orphaned`, `torn`, `leaked`, `failedAdds` and `failedDels`
are ghosts that say why a rule or a key may be there, or missing.

What the model shows and no property forbids: an undo takes out a rule that equals
its own, not its own (`Delete`), and the XDP key of an address is one for all its
blocks, so the end of one block deletes the key of the others (`responder.rs:49-51`).
Each has its DROP in the chain; where that sits behind the ACCEPT of a rate limit,
packets within the limit pass, as in `responder_limited`.

**RuleMatch** is `matchIP`, `matchPort` and `Match`: what a rule matches, with the
texts of addresses, ports and payloads already parsed, a part that is no number
included. `CriteriaAdmit` is the reference beside it: the sets of addresses and
ports a rule's author can mean. RuleEngine EXTENDS it and `FirstRuleDecides`
compares the two through whole evaluations.

**Dashboard** is the event bus and the dashboard (`events.go`, `tui.go`) together
with everything that publishes on it: `main`, the handlers and the drain
goroutines of the streams, each with the events it still has to publish before
its next step. `Publish` drops an event when the bus is full. `reading` counts the
goroutines that `waitForEvent` runs in; `Update` handles what one brings (`inbox`)
and starts the next, and the table is keyed by the id an agent reports, which streams
may share. The ghosts count the events dropped.

**ReportStream** is what the agent promises about its reports: a stream that the
manager reads in order, none missing and none twice, until it breaks.

**AgentPipeline** implements it: the capture thread, the parser thread and the gRPC
task of `main.rs`, the queues between them, and the HTTP/2 stream to a handler of
the manager, with a window in each direction. The handler does not receive while
it sends, the task does not read while it handles a command, and the response of
`monitor()` comes with the headers of the first command. The report queue and its
receiver go with the task. What ReportStream still waits for are the numbers
between the last report delivered and the last one captured (`Outstanding`), and
after a break only what had left the agent. Responder has what `handle_command` does, Server what
the handler decides; here a report leads to zero, one or two commands.

**XdpFilter** is `xdp_block.c` on several CPUs. The token bucket is a data race, so
its loads and stores are steps, in the order of the compiled program, which
stores `last_time_ns` first and `tokens` once. Numbers wrap at `Word`. `ideal` is a
ghost: what an exact token bucket would still hold. `raced` counts the packets
that came to the bucket while another CPU was at it, and `paced` says whether the
source has kept its distance. The bucket is there or not from the start: no code
of the agent writes `rate_limit_ips`.

The modules named MC... instantiate these for TLC. In each module a definition
marked `mutant` is a plausible bug of the definition after it; `PROJECT.json` says
which property it breaks, so that no property is one that nothing can violate.

## Runs

| Run | Checks | Instance |
|---|---|---|
| `aggregator` | types, `WindowSizes`, `EachWindowOnce`, `PacketsAccounted`, `CloseStopsSweep`, refinement of FlowWindows, `QuietFlowsClose`, `CloseReturns` | 2 callers, 1 closer, 1 flow |
| `server` | types, `EachWindowOnce`, `RiskWithin100`, `BlockNeedsBoth`, `QuietFlowsDecided`, `DrainersEnd` | 2 streams of which one reports, 1 flow, 2 reports of 1 or 1500 bytes |
| `rule_engine` | types, `HistoryBounded`, `WindowExact`, `AlarmsEarned`, `HistoryOfRules`, `FirstRuleDecides`, `EditsLoaded` | 3 rule files of 2, 5 and 8 rules, an unreadable one, 4 packets, 2 edits |
| `responder` | types, `RulesAccounted`, `LimitsEnforced`, `XdpKeysOwned`, `TasksEnd` | 3 commands for one address, 1 failure, 1 crash or shutdown |
| `dashboard` | types, `OneReader`, `TableExact`, `NoGhostAgents`, `PublishersNeverBlock`, `EventsShown` | 2 streams with one id or two, a bus of 2 |
| `agent_pipeline` | types, refinement of ReportStream, `ReportsArrive`, `ParserFreed`, `EndPropagates` | queue and windows of 1 or 2, 5 packets |
| `xdp` | types, `RateKept`, `PacedNotStarved` | 2 CPUs, 2 packets in 3 ticks, 5 packets |

What the runs show:

- `aggregator`: a report is in exactly one window and a window in one place at a
  time, whoever closes it; the sweep never waits for the reader of the results, so
  `Close` returns although nobody reads. A comment says otherwise, see below.
- `server`: each of the scores 0, 10, ... 50 occurs with and without the model's 50,
  so the boundary of `thresholdBlock` (60) does too. The one result that the channel
  holds is met by a second one. While somebody drains, a window is decided or lost
  whole; a drainer ends with its handler.
- `responder`: the order in which commands of one address come and expire changes
  neither the number of equal rules nor that each ACCEPT has a DROP behind it. A key
  without a block comes only of a failed deletion or detach.
- `dashboard`: a full bus costs events, never a publisher's time; the table differs
  from the streams that are connected by the events dropped and by ids that
  streams share, and by nothing else; the dashboard has one reader at all times.
- `agent_pipeline`: the two directions of the stream cannot wait for each other,
  because the agent's task reads commands whether or not reports flow; a manager
  that is not there frees the parser instead of filling its queue; when the
  capture thread fails the end passes through every queue to the manager.
- `xdp`: without a lock the bucket still never wraps. While CPUs do not meet at it the
  limit is exact, with a burst of `rate` packets and a fraction. Each packet that
  meets another CPU there lets at most `rate` + 1 more through; TLC finds that a
  bound of `rate` is too small.
- `rule_engine`: between packets a rule is never at its threshold, what it forgets
  could not count any more, and nothing survives a reload, not even the timestamps of
  an id that both files have. A malformed criterion matches nothing, and the first rule that is
  meant to match decides. A range within a list of ports is ignored, so the
  property leaves such lists out.

Five runs show where the code does something else than a comment, a document or
a test of the repository says. TLC finds each violated:

| Run | What happens | What is said |
|---|---|---|
| `aggregator_span` | two callers count their packets in another order than they read the clock: a window of negative length | "timestamp of the most recent packet", `aggregator.go:62` |
| `server_routing` | a stream's drain goroutine sends its own agent the command about another agent's flow | "streams an ActionCommand back to the agent", `server.go:154` |
| `server_inference` | the rules' decision is dropped because the inference failed | "we never silently drop a potentially malicious flow", `decision/engine.go:114` |
| `responder_limited` | a block comes after a rate limit and its DROP is behind the ACCEPT | "Block drops the flow entirely", `decision/engine.go:26` |
| `responder_restart` | after a restart nothing deletes a temporary rule | "Delete temporary block/throttle rule", `README.md:34` |

A sixth comment is contradicted by a property that holds: `aggregator.go:220` says
that the caller must read `Results()` continuously "to avoid blocking the sweep".
The sweep's `select` has a default branch that drops the result instead
(`aggregator.go:294-301`), and `CloseReturns` in `aggregator` shows that it never
waits, although no reader has to run.

Deadlock is checked except in `dashboard`, `agent_pipeline` and `xdp`: the first
two processes exit, and the packets of the third end. In the others nothing ever
stops, because time goes on.

### Bounds

- `windowDuration` is 2 ticks with a sweep every tick, as 5 s and 2.5 s in the
  code. Reports come up to `MaxArrival`; `MaxTime` is at least a window later, and
  the clock saturates there, so every window of the instance expires.
- `minPackets = 2`, `maxPackets = 3` in `aggregator` (3 and 200 in the code): windows
  below, at and between the two limits occur. 4 reports of a flow allow a second
  window after a full one; `resultsCap = 1` lets the channel be full with one result
  (256).
- `server`: `minPackets = 1` and `maxPackets = 2`, one stream reports twice and the
  other only drains. Two reports are enough for windows of one packet and of two,
  for two windows that the sweep closes, and for the channel to be full. Windows
  that are too thin are in `aggregator`.
- One tick is 2.5 s in the server's runs (`usPerTick`), so the rates of a window
  that lasts are low and those of an instantaneous one (floor of 1 ms) high; reports
  of 1 or 1500 bytes, at once or a tick apart, give every score from 0 to 50. In the
  two violation runs both streams report.
- Rules: windows of 1 and 2 seconds and thresholds of 2 and 3 packets within 3
  seconds, so timestamps fall on the cutoff. `MaxCount` bounds the packets a rule
  counts between two loads. The files contain a shared id, a threshold of zero
  and a rule that hides another; one file has every form of port, address and
  pattern, the malformed ones included. Addresses of 2 bits have prefixes of 0, 1
  and 2.
- Responder: one address is enough for copies to be confused; `Durations` 0 and 2
  give a permanent and a temporary command. Three commands are two overlapping
  ones and one between or after them. `Rates` is 10 in `responder`; with the two
  violation runs it is 0 too, and the theorems are for any rates.
- Dashboard: a bus of 2 is full after one report; one report for each stream is
  enough for a greeting, events, and a goodbye to be dropped.
- Pipeline: each queue is full and empty many times in 5 packets. `MaxRaw` bounds the
  capture queue, which nothing in the code bounds; `MaxDrained` the commands of the
  drain goroutine.
- XDP: with 2 tokens in 3 ticks there are fractions of a token; 5 packets in 4 ticks
  are more than a bucket and a race allow. `Word` is above every product that time
  can make, so only a negative difference wraps (2^64 in the code, where a silence
  of 2^64 / rate nanoseconds overflows too).
- Symmetry (callers, flows, streams, CPUs) is used only in runs without liveness.

### Fairness

Goroutines and tokio tasks run, and a mutex starves nobody: weak fairness of the
steps that are always possible once they are. Time passes. Strong fairness is
assumed twice for a `select` with two ready cases, of which Go picks one at random
(`SweepStop`, `DrainStop`), and once for the watcher's load (`WatcherReload`), whose
`Lock` Go's mutex hands over to a waiter that starves. In the
pipeline threads, tasks and the handler run, and a connection attempt ends. In
Dashboard the publishers run; that the dashboard does is the premise of the
property that needs it, not an assumption. Nothing makes an agent
connect, report or stay, a caller close, somebody edit the file, or a dead agent
restart.

## Proofs

Every type invariant, safety invariant and action property of a passing run, and
both refinements, are theorems of their specification, for every value of the
constants. Each module of proofs EXTENDS its component; the assumptions are the
named ones of the component. `NaturalLemmas` has the one induction principle that
the provers can use, that a set of numbers has a least member (`LeastNatural`).
The proof of an invariant has a lemma for each action, or for each kind of change
that several actions have in common, and joins them in its last step.

**AggregatorProofs**, for any callers, closers and flows that satisfy
`BoundsAssumption`. The steps are those of `AnyStep`: the code's actions without
the bounds of an instance and whoever calls them, so that the server's calls are
covered too.

- `TypeCorrect`: the type invariant, one lemma for each action.
- `SizesBounded`: `WindowSizes` is inductive given the types. Ingest exports a
  window at exactly `maxPackets`, the sweep at `minPackets` or more, and every
  other step only moves results on (`SmallerSizes`).
- `SweepStopped`: `CloseStopsSweep` alone is not inductive: it says nothing of what
  the goroutine holds before it ends. `SweepHolds` adds that it has results only
  while it pushes and no tick once it has ended.
- `WindowsOnce`: `EachWindowOnce`. Its first part, `Apart`, is not inductive: a
  window that closes must have a name nothing else has. `Numbered` gives it that:
  the number of a window that has closed was given out, and is below the number of
  the flow's open window, so the number under which the next one closes is fresh
  (`FreshNumber`). `OneResult` (a caller handles one result before its next
  Ingest) keeps a result from being overwritten, `SweepHolds` keeps the scan from
  starting with results still to push. `WindowInv` joins them with the types; one
  lemma for each action that moves a window.
- `AggregatorImplements`: from the same invariant, every step is `Count`, `Expire`,
  `Evaluate` or `Lose` of FlowWindows, or changes none of its variables. A result
  that leaves the flight takes its own window with it and no other
  (`LeavesPending`), which is where `Apart` is needed.
- `ReportsAreAccounted`: `PacketsAccounted`. The closed windows of a flow have the
  numbers 1 to m, each once, and the account of the flow is the sum of their
  packets by number, `SumTo`, a recursive function whose existence and uniqueness
  are proved by least counterexample. A step leaves a flow's account alone
  (`AccountKept`) or adds window m + 1 to it (`AccountCloses`); pushes, receives
  and drops only move windows (`MovedIds`).

**ServerProofs**, under `TickAssumption` and `ThresholdAssumption` too (a window
closes before 500 packets; it is 200 in the code). A step of the server is an
`AnyStep` of the aggregator or leaves it alone (`ServerSteps`), so
`ServerTypeCorrect`, `ServerWindowsOnce`, `ServerReportsAccounted` and
`ServerImplements` follow from the lemmas above, for any number of streams. For
`RiskFitsScale` and `BlocksNeedBoth`: from the sizes the score of any window in
flight is at most 50 and zero or at least 10 (`ScoreBound`), hence the bounds of
every decision without an error (`EvaluationBound`); `ServerInv` carries them
through the results a drainer holds (`HoldSizes`) to the commands
(`CommandsBounded`).

**RuleEngineProofs**, for any rules files and packets.

- `RuleTypes`: types, and the mutex has one holder.
- `WindowsAreExact`, `AlarmsAreEarned`, `HistoriesAreBounded`, `HistoriesAreOfRules`:
  a step leaves windows and rules alone, counts one packet, or loads rules and
  forgets (`WindowSteps`). The properties are inductive with `Stamped`: the
  timestamps are finitely many and none is of the future, so what was pruned
  before a packet cannot be within the window of a later one. `HistoryOfRules`
  is inductive with the types: only a load changes the number of loads, and it
  forgets everything.
- `FirstRulesDecide`: `Match` admits exactly what the sets of `CriteriaAdmit` do,
  but for a range within a list of ports (`MatchMeansAdmit`, which rests on
  arithmetic of prefixes and on the fold over the parts of a list), and an evaluation has
  passed no signature meant for its packet (`PassedNone`).

**ResponderProofs**, for any addresses, rates and durations, through failures,
crashes and restarts.

- `RespTypes`: types, and `Numbered`: sets stay finite, and a task has the number of
  its own command.
- `RulesAreAccounted`: `RulesAccounted` as a conservation law. Appending adds one copy or
  a failure, deleting takes one (of equal rules there is one that is first,
  `FirstIsOne`) or a failure, and handing a rule from the handler to its task, to
  `permanent` or to `orphaned` changes no sum.
- `LimitsAreEnforced`: a task that holds an ACCEPT holds a DROP too, and so do the
  permanent limits and those of a dead process (`LimitsPaired`); with `RulesAccounted`
  an ACCEPT in the chain means that a DROP is left (`DropKept`). A new ACCEPT gets a
  DROP behind it and `Delete` takes the first of equal DROPs, so the one that is left
  is the last, which is behind the ACCEPT.
- `KeysAreOwned`: not inductive without `KeysWithoutPin` (without a pin the keys left
  are those of a failed detach), because the task of a block gives its key up by
  deleting it only through the pin. The premise names the failure: a deletion of that
  key or a detach.

**DashboardProofs**, for any streams, ids and capacity of the bus.

- `DashTypes`, `OneReaderEver`: `Reading` says when there is a reader, when an event.
- `TableIsExact` and `NoGhosts` speak of the table as the queued events will leave it,
  a fold (`After`). The fold lemmas (`AfterLast`, `AfterFirst`) say that an event at
  the end changes the outcome by `Tabulated`, and that handling the first does not
  change it. What is published is known in advance: each event about an agent
  once, the greeting first (`OncePublished`), and none has been lost that is still to
  be published (`InPhase`). `DashInv` joins them.

**PipelineProofs**, for any capacity of the queue and of the windows.

- `PipeTypes`; and `PipelineIsStream`: the pipeline implements ReportStream. `PipeInv`
  numbers the reports at each place one after the other (`From`, `Remaining`) and
  says of an end of the stream that it has come through all the queues, until the
  stream breaks (`Whole`); the threads agree with what they hold (`Threads`).

**XdpProofs**, for any finite set of CPUs, any rate, and every interleaving of the
loads and stores, as long as (`XdpAssumption`) the time since the last packet times the
rate stays below 2^64.

- `XdpTypes`: tokens never exceed `rate` nor wrap, with the contents of the registers
  (`Registers`); and the part `Balance` of the invariant: a packet is under way in
  one CPU or in exactly one statistic.
- `RateIsKept`: `Covered`. While nobody is at the bucket, or one CPU alone, an exact bucket
  covers what it holds and what a refill would add, whatever the step of that
  CPU's program (`Idle`, `Alone`). Once several have met (`Raced`), a packet for each
  CPU still there, and a bucket full but for one token, are covered by the `rate` + 1
  that each race is charged with: enough for every stale `last_time_ns` that can
  still be stored (`Stamps`), and for one of the future, whose difference wraps.
- `PacedIsFed`: `Nourished`: who is alone finds a token, or a refill of one.

Model-checked only: liveness (`QuietFlowsClose`, `CloseReturns`, `QuietFlowsDecided`,
`DrainersEnd`, `EditsLoaded`, `TasksEnd`, `PublishersNeverBlock`, `EventsShown`,
`ReportsArrive`, `ParserFreed`, `EndPropagates`), which rests on fairness and ENABLED, and
these the provers cannot reason about; and the five runs that find a property
violated.

## Not modelled

The ONNX runtime (any label or error, for any flow); float32 rounding at the
exact thresholds; YAML and regular expressions; pcap and the headers that
`parse_packet` reads; the Windows build of the agent; rendering and scrolling of
the dashboard; IPv6 in XdpFilter, whose map nothing fills; generated code.

Real, and neither listed among the hazards nor covered by a property: the rule
engine keeps a key for every source address until a reload (`rule_engine/engine.go:270`);
two edits of the rules file within the granularity of its modification time look
like one (line 78); after a failed first load nothing watches the file
(`server.go:63`). A command against an IPv6 address changes nothing
(`ebpf_loader.rs:110`, and iptables rejects it): Responder has it, no property is
about it.

## Plan

1. Models: the lateness of the sweep ("more than 2.5 s late", `aggregator.go:260`),
   which needs a clock that waits for the sweep.
2. Theorems still to prove:
   - A specification of the responder's chain and map without tasks and commands
     (who holds which rule), and that Responder implements it.
   - A specification of a lossy bus for Dashboard, and that it implements it.
   - The steps that the liveness properties rest on: each leads-to of a run has
     a safety part (what a fair step does when it is taken) that can be proved.
   - That the risk rules agree with their definition in real numbers: the
     cross-multiplied comparisons of Decision against quotients.
