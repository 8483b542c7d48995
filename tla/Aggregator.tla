----------------------------- MODULE Aggregator -----------------------------
(***************************************************************************)
(* manager/internal/aggregator/aggregator.go: packet reports are grouped   *)
(* into one window per flow.  Goroutines call Ingest concurrently; a sweep *)
(* goroutine closes expired windows on a ticker and pushes them on a       *)
(* buffered channel; Close stops it.  Each critical section of the mutex   *)
(* is one action; what the code does outside the mutex (reading the clock, *)
(* pushing the results) is an action of its own.                           *)
(***************************************************************************)
EXTENDS Integers, Sequences

CONSTANTS
  Callers,         \* goroutines that call Ingest
  Closers,         \* goroutines that call Close
  Keys,            \* FlowKey values
  Lengths,         \* report.Length values
  windowDuration,  \* in ticks of the model's clock; even
  minPackets,      \* fewest packets of a window worth evaluating
  maxPackets,      \* packets that force an export
  resultsCap,      \* capacity of the results channel (256)
  MaxTime,         \* bound: the clock saturates here
  MaxArrival,      \* bound: no report arrives later
  MaxReports       \* bound: reports of one flow

ASSUME BoundsAssumption ==
  /\ windowDuration \in Nat \ {0} /\ windowDuration % 2 = 0
  /\ minPackets \in Nat \ {0} /\ maxPackets \in Nat /\ minPackets <= maxPackets
  /\ resultsCap \in Nat /\ MaxArrival \in Nat /\ MaxReports \in Nat
  /\ MaxTime \in Nat /\ MaxArrival + windowDuration <= MaxTime
  /\ Lengths \subseteq Nat

VARIABLES
  now,        \* the wall clock
  tick,       \* the ticker's channel: at most one undelivered tick
  flows,      \* a.flows; packets = 0 stands for a missing key
  results,    \* a.results
  stopped,    \* a.stopCh is closed
  sweeper,    \* where the sweep goroutine is
  sweepNow,   \* the tick it serves
  ready,      \* results it has yet to push
  waiting,    \* per caller: the report it is about to count, clock read
  returned,   \* per caller: the result Ingest returned, not yet handled
  closing,    \* per closer: where its call of Close is
  panicked,   \* the process died of a double close
  windows,    \* ghost: windows opened so far for each flow
  seen,       \* ghost: reports counted for each flow
  taken,      \* ghost: windows handed to an evaluation
  lost        \* ghost: windows discarded or dropped

aggVars == <<now, tick, flows, results, stopped, sweeper, sweepNow, ready,
             waiting, returned, closing, panicked, windows, seen, taken, lost>>
ghostVars == <<windows, seen, taken, lost>>
callVars  == <<waiting, returned>>
sweepVars == <<tick, results, sweeper, sweepNow, ready>>
closeVars == <<stopped, closing, panicked>>

NoFlow == [firstSeen |-> 0, lastSeen |-> 0, packets |-> 0, bytes |-> 0,
           from |-> {}]
Open(k) == flows[k].packets > 0
WindowId(r) == [key |-> r.key, window |-> r.window, packets |-> r.packets]

Init ==
  /\ now = 0 /\ tick = {}
  /\ flows = [k \in Keys |-> NoFlow]
  /\ results = <<>> /\ stopped = FALSE
  /\ sweeper = "select" /\ sweepNow = 0 /\ ready = {}
  /\ waiting = [c \in Callers |-> {}] /\ returned = [c \in Callers |-> {}]
  /\ closing = [c \in Closers |-> "out"] /\ panicked = FALSE
  /\ windows = [k \in Keys |-> 0] /\ seen = [k \in Keys |-> 0]
  /\ taken = {} /\ lost = {}

(* exportLocked: the FlowResult of a window; `from` (ghost) names the      *)
(* callers that reported its packets.                                      *)
Export(k, f, n) ==
  [key |-> k, window |-> n, packets |-> f.packets, bytes |-> f.bytes,
   span |-> f.lastSeen - f.firstSeen, from |-> f.from]

-----------------------------------------------------------------------------
(* Ingest *)

(* Ingest reads the clock before it takes the mutex.                       *)
IngestRead(c, k, len) ==
  /\ waiting[c] = {} /\ returned[c] = {}
  /\ waiting' = [waiting EXCEPT ![c] = {[key |-> k, len |-> len, at |-> now]}]
  /\ UNCHANGED <<now, flows, returned, sweepVars, closeVars, ghostVars>>

AccumulateFresh(f, r, c) == \* mutant: the key is never found
  [firstSeen |-> r.at, lastSeen |-> r.at, packets |-> 1, bytes |-> r.len,
   from |-> {c}]
Accumulate(f, r, c) ==
  [firstSeen |-> IF f.packets = 0 THEN r.at ELSE f.firstSeen,
   lastSeen |-> r.at, packets |-> f.packets + 1, bytes |-> f.bytes + r.len,
   from |-> f.from \cup {c}]

FullOneLate(f) == f.packets > maxPackets \* mutant
Full(f) == f.packets >= maxPackets

DeletedNever(K) == flows \* mutant

(* a.flows without the keys in K.                                          *)
Deleted(K) == [k \in Keys |-> IF k \in K THEN NoFlow ELSE flows[k]]

(* Its critical section: count the report in the flow's window, opening    *)
(* one if there is none, and export a full window.                         *)
CountReport(c, r) ==
  LET k == r.key
      f == Accumulate(flows[k], r, c)
      n == IF Open(k) THEN windows[k] ELSE windows[k] + 1
  IN /\ flows' = IF Full(f) THEN Deleted({k}) ELSE [flows EXCEPT ![k] = f]
     /\ returned' = [returned EXCEPT ![c] =
                       IF Full(f) THEN {Export(k, f, n)} ELSE {}]
     /\ waiting' = [waiting EXCEPT ![c] = {}]
     /\ windows' = [windows EXCEPT ![k] = n]
     /\ seen' = [seen EXCEPT ![k] = @ + 1]
     /\ UNCHANGED <<now, sweepVars, closeVars, taken, lost>>

IngestLocked(c) == \E r \in waiting[c] : CountReport(c, r)

-----------------------------------------------------------------------------
(* The clock and the sweep goroutine *)

sweepPeriod == windowDuration \div 2

(* Time passes; the ticker's channel holds one tick and drops the others.  *)
(* At MaxTime the clock stands for every later time.                       *)
Advance ==
  LET t == IF now < MaxTime THEN now + 1 ELSE now
  IN /\ now' = t
     /\ tick' = IF tick = {} /\ sweeper # "stopped"
                   /\ (t % sweepPeriod = 0 \/ now = MaxTime)
                THEN {t} ELSE tick
     /\ UNCHANGED <<flows, results, sweeper, sweepNow, ready, callVars,
                    closeVars, ghostVars>>

SweepTick ==
  /\ sweeper = "select" /\ tick # {}
  /\ sweepNow' \in tick /\ tick' = {}
  /\ sweeper' = "scanning"
  /\ UNCHANGED <<now, flows, results, ready, callVars, closeVars, ghostVars>>

ExpiredUnlessThin(k) == \* mutant: thin flows stay
  /\ flows[k].packets >= minPackets
  /\ sweepNow - flows[k].firstSeen >= windowDuration
Expired(k) == Open(k) /\ sweepNow - flows[k].firstSeen >= windowDuration

EnoughAny(k) == flows[k].packets > 0 \* mutant
Enough(k) == flows[k].packets >= minPackets

RipeMore == \* mutant: off by one
  {k \in Keys : Expired(k) /\ flows[k].packets > minPackets}
Ripe == {k \in Keys : Expired(k) /\ Enough(k)}
Thin == {k \in Keys : Expired(k) /\ ~Enough(k)}
Exported(k) == Export(k, flows[k], windows[k])

(* The scan, one critical section: ripe windows are exported, thin ones    *)
(* discarded.                                                              *)
SweepScan ==
  /\ sweeper = "scanning"
  /\ ready' = {Exported(k) : k \in Ripe}
  /\ flows' = Deleted(Ripe \cup Thin)
  /\ lost' = lost \cup {WindowId(Exported(k)) : k \in Thin}
  /\ sweeper' = "pushing"
  /\ UNCHANGED <<now, tick, results, sweepNow, callVars, closeVars, windows,
                 seen, taken>>

SweepPushBlocking(r) == \* mutant: no default branch
  /\ sweeper = "pushing" /\ r \in ready /\ Len(results) < resultsCap
  /\ ready' = ready \ {r} /\ results' = Append(results, r)
  /\ UNCHANGED <<now, tick, flows, sweeper, sweepNow, callVars, closeVars,
                 ghostVars>>

SweepPushUnchecked(r) == \* mutant: no bound on what is queued
  /\ sweeper = "pushing" /\ r \in ready
  /\ ready' = ready \ {r} /\ results' = Append(results, r)
  /\ UNCHANGED <<now, tick, flows, sweeper, sweepNow, callVars, closeVars,
                 ghostVars>>

(* One result is sent, or dropped when the channel is full.                *)
SweepPush(r) ==
  /\ sweeper = "pushing" /\ r \in ready
  /\ ready' = ready \ {r}
  /\ IF Len(results) < resultsCap
     THEN results' = Append(results, r) /\ UNCHANGED lost
     ELSE lost' = lost \cup {WindowId(r)} /\ UNCHANGED results
  /\ UNCHANGED <<now, tick, flows, sweeper, sweepNow, callVars, closeVars,
                 windows, seen, taken>>

SweepDone ==
  /\ sweeper = "pushing" /\ ready = {}
  /\ sweeper' = "select" /\ sweepNow' = 0
  /\ UNCHANGED <<now, tick, flows, results, ready, callVars, closeVars,
                 ghostVars>>

(* The select saw the closed stopCh: the goroutine ends and the deferred   *)
(* Stop ends the ticker.                                                   *)
SweepStop ==
  /\ sweeper = "select" /\ stopped
  /\ sweeper' = "stopped" /\ tick' = {}
  /\ UNCHANGED <<now, flows, results, sweepNow, ready, callVars, closeVars,
                 ghostVars>>

-----------------------------------------------------------------------------
(* Close: the check of stopCh and the close of it are two steps *)

CloseCheck(c) ==
  /\ closing[c] \in {"out", "returned"}
  /\ closing' = [closing EXCEPT ![c] = IF stopped THEN "waiting" ELSE "closing"]
  /\ UNCHANGED <<now, flows, sweepVars, callVars, stopped, panicked, ghostVars>>

CloseStop(c) ==
  /\ closing[c] = "closing"
  /\ stopped' = TRUE /\ panicked' = stopped
  /\ closing' = [closing EXCEPT ![c] = "waiting"]
  /\ UNCHANGED <<now, flows, sweepVars, callVars, ghostVars>>

CloseReturnAtOnce(c) == \* mutant: no wg.Wait
  /\ closing[c] = "waiting"
  /\ closing' = [closing EXCEPT ![c] = "returned"]
  /\ UNCHANGED <<now, flows, sweepVars, callVars, stopped, panicked, ghostVars>>

CloseReturn(c) ==
  /\ closing[c] = "waiting" /\ sweeper = "stopped"
  /\ closing' = [closing EXCEPT ![c] = "returned"]
  /\ UNCHANGED <<now, flows, sweepVars, callVars, stopped, panicked, ghostVars>>

-----------------------------------------------------------------------------
(* The users of the aggregator evaluate what they get *)

TakeReturned(c) ==
  /\ returned[c] # {}
  /\ taken' = taken \cup {WindowId(r) : r \in returned[c]}
  /\ returned' = [returned EXCEPT ![c] = {}]
  /\ UNCHANGED <<now, flows, sweepVars, waiting, closeVars, windows, seen, lost>>

TakeResultPeek == \* mutant: the result stays in the channel
  /\ results # <<>>
  /\ taken' = taken \cup {WindowId(Head(results))}
  /\ UNCHANGED <<now, flows, sweepVars, callVars, closeVars, windows, seen, lost>>

(* A receive from Results().                                               *)
TakeResult ==
  /\ results # <<>>
  /\ taken' = taken \cup {WindowId(Head(results))}
  /\ results' = Tail(results)
  /\ UNCHANGED <<now, tick, flows, sweeper, sweepNow, ready, callVars,
                 closeVars, windows, seen, lost>>

-----------------------------------------------------------------------------
(* Bound on the reports an instance sees.                                  *)
MayArrive(k) == now <= MaxArrival /\ seen[k] < MaxReports

Ingest(c) ==
  \/ \E k \in Keys, len \in Lengths : MayArrive(k) /\ IngestRead(c, k, len)
  \/ IngestLocked(c)
Sweep == SweepTick \/ SweepScan \/ (\E r \in ready : SweepPush(r)) \/ SweepDone
Close(c) == CloseCheck(c) \/ CloseStop(c) \/ CloseReturn(c)

Next ==
  /\ ~panicked
  /\ \/ \E c \in Callers : Ingest(c) \/ TakeReturned(c)
     \/ Advance \/ Sweep \/ SweepStop \/ TakeResult
     \/ \E c \in Closers : Close(c)

Spec == Init /\ [][Next]_aggVars

(* The scheduler runs every goroutine and the mutex starves nobody; time   *)
(* passes; a select picks the closed stopCh sooner or later although a     *)
(* tick may be ready too (Go chooses at random among the ready cases).     *)
(* Nothing makes a caller report, close or read Results().                 *)
Fairness ==
  /\ WF_aggVars(~panicked /\ Advance) /\ WF_aggVars(~panicked /\ Sweep)
  /\ SF_aggVars(~panicked /\ SweepStop)
  /\ \A c \in Callers : WF_aggVars(~panicked /\ IngestLocked(c))
  /\ \A c \in Closers :
       WF_aggVars(~panicked /\ (CloseStop(c) \/ CloseReturn(c)))

FairSpec == Spec /\ Fairness

-----------------------------------------------------------------------------
(* Properties *)

ResultType ==
  [key : Keys, window : Nat, packets : Nat, bytes : Nat, span : Int,
   from : SUBSET Callers]
IdType == [key : Keys, window : Nat, packets : Nat]
FlowType ==
  [firstSeen : Nat, lastSeen : Nat, packets : Nat, bytes : Nat,
   from : SUBSET Callers]
ReportType == [key : Keys, len : Lengths, at : Nat]

(* Every variable has its type; the channels respect their capacity.       *)
TypeOK ==
  /\ now \in Nat /\ tick \subseteq Nat
  /\ flows \in [Keys -> FlowType]
  /\ results \in Seq(ResultType) /\ Len(results) <= resultsCap
  /\ stopped \in BOOLEAN /\ panicked \in BOOLEAN
  /\ sweeper \in {"select", "scanning", "pushing", "stopped"}
  /\ sweepNow \in Nat /\ ready \subseteq ResultType
  /\ waiting \in [Callers -> SUBSET ReportType]
  /\ returned \in [Callers -> SUBSET ResultType]
  /\ closing \in [Closers -> {"out", "closing", "waiting", "returned"}]
  /\ windows \in [Keys -> Nat] /\ seen \in [Keys -> Nat]
  /\ taken \subseteq IdType /\ lost \subseteq IdType

Queued == {results[i] : i \in 1 .. Len(results)}
Handed == UNION {returned[c] : c \in Callers}
InFlight == ready \cup Queued \cup Handed

(* A window that will be evaluated has between minPackets and maxPackets   *)
(* packets whichever goroutine closed it, and no open flow outgrows        *)
(* maxPackets (aggregator.go:23-31).                                       *)
WindowSizes ==
  /\ \A r \in InFlight : r.packets \in minPackets .. maxPackets
  /\ \A k \in Keys : flows[k].packets < maxPackets

Name(r) == <<r.key, r.window>>
Names(S) == {Name(r) : r \in S}
EachNamedOnce(S) == \A r, q \in S : Name(r) = Name(q) => r = q

(* Two places never hold the same window ...                               *)
Apart ==
  /\ \A i, j \in 1 .. Len(results) : i # j => Name(results[i]) # Name(results[j])
  /\ \A c, d \in Callers :
       c # d => Names(returned[c]) \cap Names(returned[d]) = {}
  /\ EachNamedOnce(ready) /\ EachNamedOnce(taken) /\ EachNamedOnce(lost)
  /\ Names(ready) \cap Names(Queued) = {}
  /\ Names(Handed) \cap (Names(ready) \cup Names(Queued)) = {}
  /\ Names(taken) \cap (Names(InFlight) \cup Names(lost)) = {}
  /\ Names(lost) \cap Names(InFlight) = {}

(* ... and none holds the window that still counts packets.                *)
ClosedForGood ==
  \A k \in Keys :
    Open(k) => <<k, windows[k]>> \notin Names(InFlight) \cup Names(taken)
                                          \cup Names(lost)

(* A window is closed once and evaluated at most once: the one a caller    *)
(* closed in Ingest is never also exported by the sweep, pushed twice, or  *)
(* evaluated and in flight, and a closed window counts no more packets     *)
(* (aggregator.go:210-212, 276-301).                                       *)
EachWindowOnce == Apart /\ ClosedForGood

(* The windows that no longer count packets, and how many there are.       *)
ClosedIds == {WindowId(r) : r \in InFlight} \cup taken \cup lost
Closings(k) == IF Open(k) THEN windows[k] - 1 ELSE windows[k]

Numbering(ids, k, n) == {w \in ids : w.key = k /\ w.window = n}
Tally(ids, k, m) ==
  [n \in 1 .. m |-> (CHOOSE w \in Numbering(ids, k, n) : TRUE).packets]
SumTo(p, m) ==
  LET sum[n \in 0 .. m] == IF n = 0 THEN 0 ELSE sum[n - 1] + p[n] IN sum[m]

(* Every report counted is in exactly one window: the open one, or one of  *)
(* those closed before it, each of which is on its way to an evaluation,   *)
(* evaluated, or lost, with all of its packets.                            *)
PacketsAccounted ==
  \A k \in Keys :
    /\ \A w \in ClosedIds : w.key = k => w.window \in 1 .. Closings(k)
    /\ \A n \in 1 .. Closings(k) : \E w \in ClosedIds : Numbering(ClosedIds, k, n) = {w}
    /\ seen[k] = flows[k].packets
                   + SumTo(Tally(ClosedIds, k, Closings(k)), Closings(k))

(* After Close has returned the sweep goroutine is gone: no goroutine, no  *)
(* result still to be pushed, no tick (aggregator.go:225-235).             *)
CloseStopsSweep ==
  (\E c \in Closers : closing[c] = "returned")
    => sweeper = "stopped" /\ ready = {} /\ tick = {}

(* A flow whose traffic stops is closed all the same, unless the           *)
(* aggregator is closed (aggregator.go:137-139).                           *)
QuietFlowsClose == \A k \in Keys : Open(k) ~> (~Open(k) \/ stopped)

(* Close returns although nobody reads Results(): a full channel blocks    *)
(* neither the sweep nor the shutdown (aggregator.go:226-235, 293-301).    *)
(* The comment at 220, that the caller must read continuously "to avoid    *)
(* blocking the sweep", says otherwise: the sweep drops and goes on.       *)
CloseReturns ==
  \A c \in Closers : closing[c] = "waiting" ~> closing[c] = "returned"

(* The aggregator implements FlowWindows.                                  *)
Windows == INSTANCE FlowWindows WITH
  open <- [k \in Keys |-> flows[k].packets],
  serial <- windows,
  pending <- {WindowId(r) : r \in InFlight},
  evaluated <- taken

ImplementsWindows == Windows!AbsSpec

(* A window never lasts a negative time (flowState, aggregator.go:61-62:   *)
(* firstSeen is the first packet's time, lastSeen the most recent's).      *)
SpanNotNegative == \A r \in InFlight : r.span >= 0

(* Calling Close more than once is safe (aggregator.go:226).               *)
CloseIsSafe == ~panicked
=============================================================================
